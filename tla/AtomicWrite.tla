------------------------------ MODULE AtomicWrite ------------------------------
(***************************************************************************)
(* What write_atomic (crates/wassh-store/src/atomic.rs) promises its       *)
(* callers: the document at a path changes in one step, from what it was   *)
(* to the bytes of one caller, at some moment between that caller's call   *)
(* and its Ok; a caller that gets an Err has changed nothing; a crash      *)
(* leaves every document as it is.  Where a call may lose the document     *)
(* (Lossy) it may remove it first: the path is then empty until the call   *)
(* puts its own bytes there, or for good, if it fails or is cut short.     *)
(***************************************************************************)
CONSTANTS Paths, Writers, Contents, NoFile,
          Lossy   \* BOOLEAN: a call may remove the document it replaces

VARIABLES file,   \* [Paths -> Contents \cup {NoFile}]
          call    \* [Writers -> Calls]

Calls == [phase : {"idle", "writing", "removed", "saved", "failed"},
          path : Paths \cup {NoFile}, data : Contents \cup {NoFile}]

NoCall == [phase |-> "idle", path |-> NoFile, data |-> NoFile]

Init ==
  /\ file \in [Paths -> Contents \cup {NoFile}]
  /\ call = [w \in Writers |-> NoCall]

Begin(w, p, d) ==
  /\ call[w].phase = "idle"
  /\ call' = [call EXCEPT ![w] = [phase |-> "writing", path |-> p, data |-> d]]
  /\ UNCHANGED file

Commit(w) ==
  /\ call[w].phase \in {"writing", "removed"}
  /\ file' = [file EXCEPT ![call[w].path] = call[w].data]
  /\ call' = [call EXCEPT ![w].phase = "saved"]

Fail(w) ==
  /\ call[w].phase \in {"writing", "removed"}
  /\ call' = [call EXCEPT ![w].phase = "failed"]
  /\ UNCHANGED file

Remove(w) ==
  /\ Lossy
  /\ call[w].phase = "writing"
  /\ file' = [file EXCEPT ![call[w].path] = NoFile]
  /\ call' = [call EXCEPT ![w].phase = "removed"]

Return(w) ==
  /\ call[w].phase \in {"saved", "failed"}
  /\ call' = [call EXCEPT ![w] = NoCall]
  /\ UNCHANGED file

Crash ==
  /\ call' = [w \in Writers |-> NoCall]
  /\ UNCHANGED file

Next ==
  \/ \E w \in Writers :
       \/ \E p \in Paths, d \in Contents : Begin(w, p, d)
       \/ Commit(w) \/ Fail(w) \/ Remove(w) \/ Return(w)
  \/ Crash

Spec == Init /\ [][Next]_<<file, call>>
=============================================================================

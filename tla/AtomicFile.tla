------------------------------ MODULE AtomicFile ------------------------------
(***************************************************************************)
(* write_atomic of crates/wassh-store/src/atomic.rs, system call by system *)
(* call, for any number of threads writing any number of documents: a      *)
(* temporary file with a name of its own (temp_path: process id and a      *)
(* counter) is created, filled and synced, then renamed over the target.   *)
(* Every call may fail.  A crash of the process stops every writer where   *)
(* it stands; the renamed file itself is assumed to stay (the directory is *)
(* not synced, so a power cut may still undo the last rename).             *)
(***************************************************************************)
EXTENDS FileValues

VARIABLES file,   \* [Paths -> Contents \cup {NoFile}]
          job     \* [Writers -> Jobs]: the call each writer is in

vars == <<file, job>>

(* create, fill, rename: the next system call.  cleanup, unlink, again:    *)
(* what follows a failed rename.  saved, failed: the result to return.     *)
PCs == {"idle", "create", "fill", "rename", "cleanup", "unlink", "again",
        "saved", "failed"}

Jobs == [pc : PCs, path : Paths \cup {NoFile}, data : Contents \cup {NoFile},
         temp : Contents \cup {NoFile, Partial}]

NoJob == [pc |-> "idle", path |-> NoFile, data |-> NoFile, temp |-> NoFile]

TypeOK ==
  /\ file \in [Paths -> Contents \cup {NoFile}]
  /\ job \in [Writers -> Jobs]

Init ==
  /\ file \in [Paths -> Contents \cup {NoFile}]
  /\ job = [w \in Writers |-> NoJob]

-----------------------------------------------------------------------------

At(w, pc) == job[w].pc = pc

(* The next call, and what the temporary file holds after this one.        *)
Move(w, pc, temp) == job' = [job EXCEPT ![w].pc = pc, ![w].temp = temp]

Begin(w, p, d) ==
  /\ At(w, "idle")
  /\ job' = [job EXCEPT ![w] = [pc |-> "create", path |-> p, data |-> d, temp |-> NoFile]]
  /\ UNCHANGED file

(* create_dir_all and File::create; either may fail.                       *)
Create(w) ==
  /\ At(w, "create")
  /\ Move(w, "fill", Partial) \/ Move(w, "failed", NoFile)
  /\ UNCHANGED file

(* Slip: a write that failed is renamed all the same.                      *)
FillUnchecked(w) ==
  /\ At(w, "fill")
  /\ Move(w, "rename", job[w].data) \/ Move(w, "rename", Partial)
  /\ UNCHANGED file

(* write_all and sync_all; a failure leaves the temporary file behind.     *)
Fill(w) ==
  /\ At(w, "fill")
  /\ Move(w, "rename", job[w].data) \/ Move(w, "failed", Partial)
  /\ UNCHANGED file

Rename(w) ==
  /\ At(w, "rename")
  /\ \/ /\ file' = [file EXCEPT ![job[w].path] = job[w].temp]
        /\ Move(w, "saved", NoFile)
     \/ /\ Move(w, "cleanup", job[w].temp)
        /\ UNCHANGED file

(* Slip: the failure of the rename is lost.                                *)
CleanupForgets(w) ==
  /\ At(w, "cleanup")
  /\ \E temp \in {NoFile, job[w].temp} :
       IF Windows /\ file[job[w].path] # NoFile
       THEN Move(w, "unlink", temp) ELSE Move(w, "saved", temp)
  /\ UNCHANGED file

(* The temporary file is removed before anything else is tried; whether    *)
(* that worked is not looked at.                                           *)
Cleanup(w) ==
  /\ At(w, "cleanup")
  /\ \E temp \in {NoFile, job[w].temp} :
       IF Windows /\ file[job[w].path] # NoFile
       THEN Move(w, "unlink", temp) ELSE Move(w, "failed", temp)
  /\ UNCHANGED file

(* The Windows fallback: the target goes, to make room for the rename.     *)
Unlink(w) ==
  /\ At(w, "unlink")
  /\ \/ /\ file[job[w].path] # NoFile
        /\ file' = [file EXCEPT ![job[w].path] = NoFile]
        /\ Move(w, "again", job[w].temp)
     \/ /\ Move(w, "failed", job[w].temp)
        /\ UNCHANGED file

(* The second rename, which can only succeed when the temporary file could *)
(* not be removed before.                                                  *)
RenameAgain(w) ==
  /\ At(w, "again")
  /\ \/ /\ job[w].temp # NoFile
        /\ file' = [file EXCEPT ![job[w].path] = job[w].temp]
        /\ Move(w, "saved", NoFile)
     \/ /\ Move(w, "failed", job[w].temp)
        /\ UNCHANGED file

Step(w) ==
  Create(w) \/ Fill(w) \/ Rename(w) \/ Cleanup(w) \/ Unlink(w) \/ RenameAgain(w)

Return(w) ==
  /\ job[w].pc \in {"saved", "failed"}
  /\ job' = [job EXCEPT ![w] = NoJob]
  /\ UNCHANGED file

Crash ==
  /\ job' = [w \in Writers |-> NoJob]
  /\ UNCHANGED file

Next ==
  \/ \E w \in Writers :
       \/ \E p \in Paths, d \in Contents : Begin(w, p, d)
       \/ Step(w)
       \/ Return(w)
  \/ Crash

Spec == Init /\ [][Next]_vars

-----------------------------------------------------------------------------
(* Properties.                                                             *)

(* A writer has not promised anything until its call returns.              *)
Phase(pc) ==
  CASE pc \in {"idle", "saved", "failed"} -> pc
    [] pc = "again" -> "removed"
    [] OTHER -> "writing"

View == [w \in Writers |->
           [phase |-> Phase(job[w].pc), path |-> job[w].path, data |-> job[w].data]]

Promise == INSTANCE AtomicWrite WITH call <- View, Lossy <- Windows

(* "every write goes through a temporary file in the same directory        *)
(* followed by a rename" (atomic.rs:3-4): a document changes in one step   *)
(* to what a caller passed, concurrent callers never mix their bytes, and  *)
(* a caller told Err has changed nothing.  On Windows a call may leave the *)
(* path empty for a while before its Ok, and lose the document with its Err*)
(* or a crash.                                                             *)
WritesAreAtomic == Promise!Spec

(* "On Windows the target is removed first" (atomic.rs:20-21): to make     *)
(* room for its replacement, which must then be there.                     *)
RemovedOnlyToBeReplaced ==
  [][\A p \in Paths :
       (file[p] # NoFile /\ file'[p] = NoFile) =>
         \E w \in Writers : job'[w].path = p /\ job'[w].temp = job'[w].data]_vars

(* What a writer holds at each call: its own bytes in the temporary file   *)
(* it is about to rename; in the fallback, those or nothing.               *)
JobInv ==
  \A w \in Writers :
    /\ ~At(w, "idle") => job[w].path \in Paths /\ job[w].data \in Contents
    /\ job[w].pc \in {"rename", "cleanup"} => job[w].temp = job[w].data
    /\ job[w].pc \in {"unlink", "again"} =>
         Windows /\ job[w].temp \in {NoFile, job[w].data}
=============================================================================

------------------------------ MODULE StoreProofs ------------------------------
(***************************************************************************)
(* What the program keeps in its data directory, for any number of         *)
(* writers, threads, documents, hosts, tabs and secrets, with crashes at   *)
(* any point and with or without the fallback of Windows: each part by     *)
(* itself, and then a program that runs them all.                          *)
(*                                                                         *)
(* write_atomic: JobInv, what the temporary file guarantees, is inductive, *)
(* and the system calls implement the one-step write of AtomicWrite, which *)
(* loses documents on Windows only.                                        *)
(*                                                                         *)
(* The known hosts: the file and the table in memory hold only keys the    *)
(* user accepted, because the snapshots on their way to the file do.       *)
(*                                                                         *)
(* The configuration documents: their types, that a document on disk is    *)
(* the old or the new one where the fallback is not compiled in, and that  *)
(* what counts as written is written.  What the file says while a save     *)
(* runs depends on where the save is, so the invariant speaks of the three *)
(* stages of the call (Saving), of the phases that write nothing (Still)   *)
(* and of the documents that are not open yet (Clean).                     *)
(*                                                                         *)
(* The vault: what is on disk says too little about the next write of the  *)
(* vault, which writes what is in memory.  The invariant adds that memory  *)
(* agrees with the disk on every promised secret (Loaded), that text is    *)
(* never older than the promise about it (TextIsPromised), that a          *)
(* migration without errors has sealed all it has passed (Sealing), and    *)
(* that the backup keeps the promises it was made under (Backed).          *)
(*                                                                         *)
(* The tabs: ids come from the counter, and a restart brings back old      *)
(* ones, so the invariant says that the counter is above every open tab    *)
(* (Below), and that what is saved has unique ids too, for a restart       *)
(* without tabs leaves an old list in the file.                            *)
(*                                                                         *)
(* The hosts: what upsert, the moves and the group edits hand to           *)
(* normalized is less than sound, but still Ready for it: each id once and *)
(* no host behind a jump host that is gone, but for those a tab has named  *)
(* (J in the lemmas, named in HostInv).  normalized makes any such         *)
(* document sound and changes of its hosts only the groups that are gone   *)
(* (Grounded).  The copies of the window and of the disk are compared as   *)
(* sets of hosts (Same), since their order may differ.                     *)
(***************************************************************************)
EXTENDS Store, ListProofs, Integers

-----------------------------------------------------------------------------
(* write_atomic.                                                           *)
(* Every system call leaves the files and the writers' jobs well typed and *)
(* every temporary file what its writer takes it for.                      *)
LEMMA StepKeepsJobs ==
  ASSUME TypeOK, JobInv, [Next]_vars
  PROVE  TypeOK' /\ JobInv'
<1> USE FileAssumption DEF TypeOK, JobInv, Jobs, PCs, NoJob, At
<1>1. ASSUME NEW w \in Writers, NEW p \in Paths, NEW d \in Contents, Begin(w, p, d)
      PROVE  TypeOK' /\ JobInv'
  BY <1>1 DEF Begin
<1>2. ASSUME NEW w \in Writers, Create(w)
      PROVE  TypeOK' /\ JobInv'
  BY <1>2 DEF Create, Move
<1>3. ASSUME NEW w \in Writers, Fill(w)
      PROVE  TypeOK' /\ JobInv'
  BY <1>3 DEF Fill, Move
<1>4. ASSUME NEW w \in Writers, Rename(w)
      PROVE  TypeOK' /\ JobInv'
  BY <1>4 DEF Rename, Move
<1>5. ASSUME NEW w \in Writers, Cleanup(w)
      PROVE  TypeOK' /\ JobInv'
  BY <1>5 DEF Cleanup, Move
<1>6. ASSUME NEW w \in Writers, Unlink(w)
      PROVE  TypeOK' /\ JobInv'
  BY <1>6 DEF Unlink, Move
<1>7. ASSUME NEW w \in Writers, RenameAgain(w)
      PROVE  TypeOK' /\ JobInv'
  BY <1>7 DEF RenameAgain, Move
<1>8. ASSUME NEW w \in Writers, Return(w)
      PROVE  TypeOK' /\ JobInv'
  BY <1>8 DEF Return
<1>9. CASE Crash
  BY <1>9 DEF Crash
<1>10. CASE UNCHANGED vars
  BY <1>10 DEF vars
<1> QED
  BY <1>1, <1>2, <1>3, <1>4, <1>5, <1>6, <1>7, <1>8, <1>9, <1>10 DEF Next, Step

(* The files of write_atomic hold whole contents or nothing, on Windows    *)
(* too: the temporary file of a writer holds the bytes it was given when it*)
(* is renamed, and in the fallback those bytes or nothing, depending on    *)
(* whether its removal, which nobody looks at, has worked.                 *)
THEOREM JobsHoldTheirBytes == Spec => [](TypeOK /\ JobInv)
<1>1. Init => TypeOK /\ JobInv
  BY FileAssumption DEF Init, TypeOK, JobInv, Jobs, PCs, NoJob, At
<1>2. (TypeOK /\ JobInv) /\ [Next]_vars => (TypeOK /\ JobInv)'
  BY StepKeepsJobs
<1> QED
  BY <1>1, <1>2, PTL DEF Spec

(* The initial states of write_atomic's model are those of its promise.    *)
LEMMA InitKeepsPromise == Init => Promise!Init
BY DEF Init, NoJob, Phase, View, Promise!Init, Promise!NoCall

(* A system call that leaves the phase of its writer alone is invisible.   *)
LEMMA MoveWithin ==
  ASSUME TypeOK, NEW w \in Writers, NEW pc, NEW temp, Move(w, pc, temp),
         Phase(pc) = Phase(job[w].pc)
  PROVE  UNCHANGED View
BY DEF TypeOK, Jobs, Move, View

(* A system call that ends the call of its writer changes the phase only.  *)
LEMMA MoveOut ==
  ASSUME TypeOK, NEW w \in Writers, NEW pc, NEW temp, Move(w, pc, temp)
  PROVE  View' = [View EXCEPT ![w].phase = Phase(pc)]
BY DEF TypeOK, Jobs, Move, View

(* A system call of write_atomic is a step of the promise or none: a       *)
(* rename is the commit, the call that fails last the failure, and the     *)
(* removal of the target, which only Windows has, the removal.             *)
LEMMA StepKeepsPromise ==
  ASSUME TypeOK, JobInv, [Next]_vars
  PROVE  [Promise!Next]_<<file, View>>
<1>1. ASSUME NEW w \in Writers, NEW p \in Paths, NEW d \in Contents, Begin(w, p, d)
      PROVE  Promise!Begin(w, p, d)
  BY <1>1 DEF Begin, Promise!Begin, View, Phase, At, TypeOK
<1>2. ASSUME NEW w \in Writers, Create(w)
      PROVE  Promise!Fail(w) \/ UNCHANGED <<file, View>>
  <2>1. CASE Move(w, "fill", Partial)
    BY <1>2, <2>1, MoveWithin DEF Create, At, Phase
  <2>2. CASE Move(w, "failed", NoFile)
    BY <1>2, <2>2, MoveOut DEF Create, At, Phase, View, Promise!Fail
  <2> QED BY <1>2, <2>1, <2>2 DEF Create
<1>3. ASSUME NEW w \in Writers, Fill(w)
      PROVE  Promise!Fail(w) \/ UNCHANGED <<file, View>>
  <2>1. CASE Move(w, "rename", job[w].data)
    BY <1>3, <2>1, MoveWithin DEF Fill, At, Phase
  <2>2. CASE Move(w, "failed", Partial)
    BY <1>3, <2>2, MoveOut DEF Fill, At, Phase, View, Promise!Fail
  <2> QED BY <1>3, <2>1, <2>2 DEF Fill
<1>4. ASSUME NEW w \in Writers, Rename(w)
      PROVE  Promise!Commit(w) \/ UNCHANGED <<file, View>>
  <2>1. CASE Move(w, "saved", NoFile) /\ file' = [file EXCEPT ![job[w].path] = job[w].temp]
    <3>1. job[w].temp = job[w].data
      BY <1>4 DEF Rename, JobInv, At
    <3> QED
      BY <1>4, <2>1, <3>1, MoveOut DEF Rename, At, Phase, View, Promise!Commit
  <2>2. CASE Move(w, "cleanup", job[w].temp) /\ UNCHANGED file
    BY <1>4, <2>2, MoveWithin DEF Rename, At, Phase
  <2> QED BY <1>4, <2>1, <2>2 DEF Rename
<1>5. ASSUME NEW w \in Writers, Cleanup(w)
      PROVE  Promise!Fail(w) \/ UNCHANGED <<file, View>>
  <2>0. PICK temp \in {NoFile, job[w].temp} :
          Move(w, "unlink", temp) \/ Move(w, "failed", temp)
    BY <1>5 DEF Cleanup
  <2>1. CASE Move(w, "unlink", temp)
    BY <1>5, <2>1, MoveWithin DEF Cleanup, At, Phase
  <2>2. CASE Move(w, "failed", temp)
    BY <1>5, <2>2, MoveOut DEF Cleanup, At, Phase, View, Promise!Fail
  <2> QED BY <2>0, <2>1, <2>2
<1>6. ASSUME NEW w \in Writers, Unlink(w)
      PROVE  Promise!Remove(w) \/ Promise!Fail(w)
  <2>1. CASE Move(w, "again", job[w].temp) /\ file' = [file EXCEPT ![job[w].path] = NoFile]
    <3>1. Windows
      BY <1>6 DEF Unlink, JobInv, At
    <3> QED
      BY <1>6, <2>1, <3>1, MoveOut DEF Unlink, At, Phase, View, Promise!Remove
  <2>2. CASE Move(w, "failed", job[w].temp) /\ UNCHANGED file
    BY <1>6, <2>2, MoveOut DEF Unlink, At, Phase, View, Promise!Fail
  <2> QED BY <1>6, <2>1, <2>2 DEF Unlink
<1>10. ASSUME NEW w \in Writers, RenameAgain(w)
       PROVE  Promise!Commit(w) \/ Promise!Fail(w)
  <2>1. CASE /\ job[w].temp # NoFile /\ Move(w, "saved", NoFile)
             /\ file' = [file EXCEPT ![job[w].path] = job[w].temp]
    <3>1. job[w].temp = job[w].data
      BY <1>10, <2>1 DEF RenameAgain, JobInv, At
    <3> QED
      BY <1>10, <2>1, <3>1, MoveOut DEF RenameAgain, At, Phase, View, Promise!Commit
  <2>2. CASE Move(w, "failed", job[w].temp) /\ UNCHANGED file
    BY <1>10, <2>2, MoveOut DEF RenameAgain, At, Phase, View, Promise!Fail
  <2> QED BY <1>10, <2>1, <2>2 DEF RenameAgain
<1>7. ASSUME NEW w \in Writers, Return(w)
      PROVE  Promise!Return(w)
  BY <1>7 DEF Return, Promise!Return, Promise!NoCall, View, Phase, NoJob, TypeOK
<1>8. CASE Crash
  BY <1>8 DEF Crash, View, Phase, NoJob, Promise!Next, Promise!Crash, Promise!NoCall
<1>9. CASE UNCHANGED vars
  BY <1>9 DEF vars, View
<1> QED
  BY <1>1, <1>2, <1>3, <1>4, <1>5, <1>6, <1>7, <1>8, <1>9, <1>10
  DEF Next, Step, Promise!Next

(* write_atomic is atomic: what its callers see is the one-step write of   *)
(* AtomicWrite, with any number of concurrent writers and a crash at any   *)
(* point.  On Unix, where Lossy is FALSE, an Err has changed nothing and   *)
(* the path is never empty on the way to an Ok; on Windows it may be, and  *)
(* an Err or a crash may have lost the document.                           *)
THEOREM CallsAreAtomic == Spec => WritesAreAtomic
<1>1. TypeOK /\ JobInv /\ [Next]_vars => [Promise!Next]_<<file, View>>
  BY StepKeepsPromise
<1> QED
  BY <1>1, InitKeepsPromise, JobsHoldTheirBytes, PTL
  DEF Spec, WritesAreAtomic, Promise!Spec

-----------------------------------------------------------------------------
(* The known hosts.                                                        *)

(* A table the user accepted stays accepted when more is accepted.         *)
LEMMA AcceptedGrows ==
  ASSUME NEW table, Accepted(table), accepted \subseteq accepted'
  PROVE  \A e \in Endpoints : table[e] # NoKey => <<e, table[e]>> \in accepted'
BY DEF Accepted

(* What a crash, or the start, finds on disk is a table.                   *)
LEMMA LoadedIsTable ==
  ASSUME NEW f \in Tables \cup {NoFile}
  PROVE  Load(f) \in Tables
BY DEF Load, Tables, Empty

(* The type invariant and the condition on the jobs survive every system   *)
(* call of a write.                                                        *)
LEMMA StepKeepsTable ==
  ASSUME TrustTypeOK, Table!JobInv, NEW t \in Threads, Table!Step(t)
  PROVE  Table!TypeOK' /\ Table!JobInv'
<1> USE KnownHostsAssumption
    DEF TrustTypeOK, Table!TypeOK, Table!Jobs, Table!PCs, Table!JobInv, Table!At, Table!Move
<1>1. CASE Table!Create(t)   BY <1>1 DEF Table!Create
<1>2. CASE Table!Fill(t)     BY <1>2 DEF Table!Fill
<1>3. CASE Table!Rename(t)   BY <1>3 DEF Table!Rename
<1>4. CASE Table!Cleanup(t)  BY <1>4 DEF Table!Cleanup
<1>5. CASE Table!Unlink(t)   BY <1>5 DEF Table!Unlink
<1>6. CASE Table!RenameAgain(t)  BY <1>6 DEF Table!RenameAgain
<1> QED
  BY <1>1, <1>2, <1>3, <1>4, <1>5, <1>6 DEF Table!Step

(* A system call puts nothing on disk but the snapshot of its own thread,  *)
(* and changes no snapshot.                                                *)
LEMMA StepWritesSnapshot ==
  ASSUME TrustTypeOK, Table!JobInv, NEW t \in Threads, Table!Step(t)
  PROVE  /\ \A u \in Threads : khJob'[u].data = khJob[u].data
         /\ \/ khFile'[Path] = khFile[Path]
            \/ khFile'[Path] = NoFile
            \/ khJob[t].data # NoFile /\ khFile'[Path] = khJob[t].data
<1> USE KnownHostsAssumption
    DEF TrustTypeOK, Table!TypeOK, Table!Jobs, Table!PCs, Table!JobInv, Table!At, Table!Move
<1>1. CASE Table!Create(t)   BY <1>1 DEF Table!Create
<1>2. CASE Table!Fill(t)     BY <1>2 DEF Table!Fill
<1>3. CASE Table!Rename(t)   BY <1>3 DEF Table!Rename
<1>4. CASE Table!Cleanup(t)  BY <1>4 DEF Table!Cleanup
<1>5. CASE Table!Unlink(t)   BY <1>5 DEF Table!Unlink
<1>6. CASE Table!RenameAgain(t)  BY <1>6 DEF Table!RenameAgain
<1> QED
  BY <1>1, <1>2, <1>3, <1>4, <1>5, <1>6 DEF Table!Step

(* TypeOK and the condition on the jobs are inductive together.            *)
LEMMA NextKeepsTable ==
  ASSUME TrustTypeOK, Table!JobInv, [TrustNext]_trustVars
  PROVE  TrustTypeOK' /\ Table!JobInv'
<1> USE KnownHostsAssumption
<1>1. ASSUME NEW t \in Threads, NEW e \in Endpoints, NEW k \in Keys, Remember(t, e, k)
      PROVE  TrustTypeOK' /\ Table!JobInv'
  BY <1>1 DEF Remember, TrustTypeOK, Tables, Pairs, Table!TypeOK, Table!JobInv, Table!At
<1>2. ASSUME NEW t \in Threads, Persist(t)
      PROVE  TrustTypeOK' /\ Table!JobInv'
  BY <1>2 DEF Persist, TrustTypeOK, Table!Begin, Table!TypeOK, Table!Jobs, Table!PCs, Table!JobInv, Table!At
<1>3. ASSUME NEW t \in Threads, WriteTable(t)
      PROVE  TrustTypeOK' /\ Table!JobInv'
  BY <1>3, StepKeepsTable DEF WriteTable, TrustTypeOK
<1>4. ASSUME NEW t \in Threads, Remembered(t)
      PROVE  TrustTypeOK' /\ Table!JobInv'
  BY <1>4 DEF Remembered, TrustTypeOK, Table!Return, Table!NoJob, Table!TypeOK, Table!Jobs, Table!PCs,
              Table!JobInv, Table!At
<1>5. CASE Relaunch
  <2>1. entries' \in Tables
    BY <1>5, LoadedIsTable DEF Relaunch, TrustTypeOK, Table!TypeOK
  <2> QED
    BY <1>5, <2>1 DEF Relaunch, TrustTypeOK, Table!Crash, Table!NoJob, Table!TypeOK, Table!Jobs, Table!PCs,
                      Table!JobInv, Table!At
<1>6. CASE UNCHANGED trustVars
  BY <1>6 DEF trustVars, TrustTypeOK, Table!TypeOK, Table!JobInv, Table!At
<1> QED
  BY <1>1, <1>2, <1>3, <1>4, <1>5, <1>6 DEF TrustNext

(* The known-host table, its file and the writes in flight are well typed. *)
LEMMA TableTypesHold == TrustSpec => [](TrustTypeOK /\ Table!JobInv)
<1>1. TrustInit => TrustTypeOK /\ Table!JobInv
  <2> SUFFICES ASSUME TrustInit PROVE TrustTypeOK /\ Table!JobInv
    OBVIOUS
  <2>1. Table!TypeOK /\ Table!JobInv
    BY KnownHostsAssumption
    DEF TrustInit, Table!Init, Table!NoJob, Table!TypeOK, Table!Jobs, Table!PCs, Table!JobInv, Table!At
  <2>2. entries \in Tables
    BY LoadedIsTable, <2>1 DEF TrustInit, Table!TypeOK
  <2> QED
    BY <2>1, <2>2 DEF TrustInit, TrustTypeOK, PairsOf
<1>2. (TrustTypeOK /\ Table!JobInv) /\ [TrustNext]_trustVars => (TrustTypeOK /\ Table!JobInv)'
  BY NextKeepsTable
<1> QED
  BY <1>1, <1>2, PTL DEF TrustSpec

(* Every step leaves the table, the file and the snapshots accepted.       *)
LEMMA NextKeepsTrust ==
  ASSUME TrustTypeOK, TrustInv, [TrustNext]_trustVars
  PROVE  SnapshotInv' /\ OnlyAcceptedKeysKept'
<1> USE KnownHostsAssumption
<1> Table!JobInv /\ SnapshotInv /\ Accepted(entries) /\ Accepted(Load(khFile[Path]))
  BY DEF TrustInv, OnlyAcceptedKeysKept
<1>1. ASSUME NEW t \in Threads, NEW e \in Endpoints, NEW k \in Keys, Remember(t, e, k)
      PROVE  SnapshotInv' /\ OnlyAcceptedKeysKept'
  BY <1>1 DEF Remember, TrustTypeOK, Tables, SnapshotInv, OnlyAcceptedKeysKept, Accepted, Load
<1>2. ASSUME NEW t \in Threads, Persist(t)
      PROVE  SnapshotInv' /\ OnlyAcceptedKeysKept'
  BY <1>2 DEF Persist, Table!Begin, TrustTypeOK, Table!TypeOK, SnapshotInv, OnlyAcceptedKeysKept,
              Accepted, Load
<1>3. ASSUME NEW t \in Threads, WriteTable(t)
      PROVE  SnapshotInv' /\ OnlyAcceptedKeysKept'
  <2>1. SnapshotInv' /\ Accepted(entries)'
    BY <1>3, StepWritesSnapshot DEF WriteTable, SnapshotInv, Accepted
  <2>2. CASE khFile'[Path] = khFile[Path]
    BY <1>3, <2>1, <2>2 DEF WriteTable, OnlyAcceptedKeysKept, Accepted, Load
  <2>3. CASE khFile'[Path] = NoFile
    BY <1>3, <2>1, <2>3 DEF WriteTable, OnlyAcceptedKeysKept, Accepted, Load, Empty
  <2>4. CASE khJob[t].data # NoFile /\ khFile'[Path] = khJob[t].data
    BY <1>3, <2>1, <2>4 DEF WriteTable, SnapshotInv, OnlyAcceptedKeysKept, Accepted, Load
  <2> QED
    BY <1>3, <2>2, <2>3, <2>4, StepWritesSnapshot DEF WriteTable
<1>4. ASSUME NEW t \in Threads, Remembered(t)
      PROVE  SnapshotInv' /\ OnlyAcceptedKeysKept'
  BY <1>4 DEF Remembered, Table!Return, Table!NoJob, TrustTypeOK, Table!TypeOK, SnapshotInv,
              OnlyAcceptedKeysKept, Accepted, Load
<1>5. CASE Relaunch
  BY <1>5 DEF Relaunch, Table!Crash, Table!NoJob, SnapshotInv, OnlyAcceptedKeysKept, Accepted, Load
<1>6. CASE UNCHANGED trustVars
  BY <1>6 DEF trustVars, SnapshotInv, OnlyAcceptedKeysKept, Accepted, Load
<1> QED
  BY <1>1, <1>2, <1>3, <1>4, <1>5, <1>6 DEF TrustNext

(* Neither the memory nor the file of known hosts ever holds a key the     *)
(* user did not accept for that host and port: snapshots may overlap and   *)
(* overtake each other, writes may fail, and the application may die       *)
(* between any two steps.                                                  *)
THEOREM KeptKeysAccepted == TrustSpec => []OnlyAcceptedKeysKept
<1>1. TrustInit => SnapshotInv /\ OnlyAcceptedKeysKept
  <2> SUFFICES ASSUME TrustInit PROVE SnapshotInv /\ OnlyAcceptedKeysKept
    OBVIOUS
  <2>1. SnapshotInv
    BY DEF TrustInit, Table!Init, Table!NoJob, SnapshotInv
  <2>2. Load(khFile[Path]) \in Tables /\ entries = Load(khFile[Path])
    BY LoadedIsTable DEF TrustInit, Table!Init
  <2>3. accepted = PairsOf(Load(khFile[Path]))
    BY DEF TrustInit
  <2>4. Accepted(Load(khFile[Path]))
    BY <2>2, <2>3 DEF Accepted, PairsOf, Pairs, Tables
  <2> QED
    BY <2>1, <2>2, <2>4 DEF OnlyAcceptedKeysKept
<1>2. (TrustTypeOK /\ Table!JobInv) /\ (SnapshotInv /\ OnlyAcceptedKeysKept) /\ [TrustNext]_trustVars
        => (SnapshotInv /\ OnlyAcceptedKeysKept)'
  BY NextKeepsTrust DEF TrustInv
<1> QED
  BY <1>1, <1>2, TableTypesHold, PTL DEF TrustSpec

-----------------------------------------------------------------------------
(* The configuration documents.                                            *)

(* A save writes the value of its document, and nothing moves without one. *)
Saving ==
  IF Disk!At(UI, "idle")
  THEN docJob[UI].path = NoFile
  ELSE /\ docJob[UI].data = value[docJob[UI].path]
       /\ Disk!At(UI, "saved") => docFile[docJob[UI].path] = docJob[UI].data

Still ==
  /\ phase \in {"off", "opening"} => Disk!At(UI, "idle")
  /\ again # "no" => phase = "up"

DocInv == DocsTypeOK /\ Disk!JobInv /\ Saving /\ Still

(* Between the steps of a save only the last one changes the file.         *)
OldUntilNew ==
  \A d \in Docs : docFile[d] = saved[d] \/ (docJob[UI].path = d /\ Disk!At(UI, "saved"))

Holds(seq, d) == \E i \in DOMAIN seq : seq[i] = d

Left(d) == Holds(todo, d)

Settled(d) == dirty[d] \/ d \in failed \/ docJob[UI].path = d \/ OnDisk(d)

Clean ==
  /\ phase = "opening" => \A d \in Docs : Left(d) \/ Settled(d)
  /\ phase = "up" => \A d \in Docs : Settled(d)

-----------------------------------------------------------------------------
(* What is in one of two sequences is in their concatenation.              *)
LEMMA ConcatHas ==
  ASSUME NEW S, NEW a \in Seq(S), NEW b \in Seq(S), NEW d,
         Holds(a, d) \/ Holds(b, d)
  PROVE  Holds(a \o b, d)
<1>1. ASSUME NEW i \in DOMAIN a, a[i] = d
      PROVE  i \in DOMAIN (a \o b) /\ (a \o b)[i] = d
  BY <1>1
<1>2. ASSUME NEW i \in DOMAIN b, b[i] = d
      PROVE  Len(a) + i \in DOMAIN (a \o b) /\ (a \o b)[Len(a) + i] = d
  BY <1>2
<1> QED
  BY <1>1, <1>2 DEF Holds

(* Config opens and flushes every document there is, and no other.         *)
LEMMA InOrderHasDocs ==
  /\ InOrder \in Seq(Docs)
  /\ \A d \in Docs : Holds(InOrder, d)
<1>1. \A d : IfKept(d) \in Seq(Docs)
  BY DEF IfKept
<1>2. InOrder \in Seq(Docs)
  BY <1>1 DEF InOrder
<1>3. ASSUME NEW d \in Docs
      PROVE  Holds(IfKept(d), d)
  <2>1. 1 \in DOMAIN IfKept(d) /\ IfKept(d)[1] = d
    BY DEF IfKept
  <2> QED
    BY <2>1 DEF Holds
<1>4. ASSUME NEW d \in Docs
      PROVE  Holds(InOrder, d)
  <2> DEFINE s == IfKept("settings")
             h == IfKept("hosts")
             t == IfKept("tabs")
  <2>1. d \in {"settings", "hosts", "tabs"}
    BY DocumentsAssumption
  <2>2. Holds(s, d) \/ Holds(h, d) \/ Holds(t, d)
    BY <1>3, <2>1
  <2>3. s \in Seq(Docs) /\ h \in Seq(Docs) /\ t \in Seq(Docs) /\ s \o h \in Seq(Docs)
    BY <1>1
  <2> HIDE DEF s, h, t
  <2>4. Holds(s \o h, d) \/ Holds(t, d)
    BY <2>2, <2>3, ConcatHas
  <2>5. Holds((s \o h) \o t, d)
    BY <2>3, <2>4, ConcatHas
  <2> QED
    BY <2>5 DEF InOrder, s, h, t
<1> QED
  BY <1>2, <1>4

(* A call of write_atomic keeps the types and the condition on its         *)
(* temporary file, whichever system call is next.                          *)
LEMMA StepKeepsDisk ==
  ASSUME Disk!TypeOK, Disk!JobInv, Disk!Step(UI)
  PROVE  Disk!TypeOK' /\ Disk!JobInv'
<1> USE DocumentsAssumption
    DEF Bytes, Disk!TypeOK, Disk!Jobs, Disk!PCs, Disk!JobInv, Disk!At, Disk!Move
<1>1. CASE Disk!Create(UI)   BY <1>1 DEF Disk!Create
<1>2. CASE Disk!Fill(UI)     BY <1>2 DEF Disk!Fill
<1>3. CASE Disk!Rename(UI)   BY <1>3 DEF Disk!Rename
<1>4. CASE Disk!Cleanup(UI)  BY <1>4 DEF Disk!Cleanup
<1>5. CASE Disk!Unlink(UI)   BY <1>5 DEF Disk!Unlink
<1>6. CASE Disk!RenameAgain(UI)
  <2>1. docJob[UI] \in Disk!Jobs /\ docJob[UI].path \in Docs /\ docJob[UI].data \in Bytes
    BY <1>6 DEF Disk!RenameAgain
  <2>2. PICK pc \in {"saved", "failed"}, temp \in {NoFile, docJob[UI].temp} :
          docJob' = [docJob EXCEPT ![UI].pc = pc, ![UI].temp = temp]
    BY <1>6 DEF Disk!RenameAgain
  <2>3. docFile' \in [Docs -> Bytes \cup {NoFile}]
    <3>1. CASE UNCHANGED docFile
      BY <3>1
    <3>2. CASE /\ docJob[UI].temp # NoFile
               /\ docFile' = [docFile EXCEPT ![docJob[UI].path] = docJob[UI].temp]
      <4>1. docJob[UI].temp = docJob[UI].data
        BY <1>6, <3>2 DEF Disk!RenameAgain
      <4> QED BY <2>1, <3>2, <4>1
    <3> QED BY <1>6, <3>1, <3>2 DEF Disk!RenameAgain
  <2>4. [[docJob[UI] EXCEPT !.pc = pc] EXCEPT !.temp = temp] \in Disk!Jobs
    BY <2>1
  <2>5. Disk!TypeOK'
    BY <2>2, <2>3, <2>4 DEF UI
  <2>6. /\ docJob'[UI].pc \in {"saved", "failed"}
        /\ docJob'[UI].path = docJob[UI].path /\ docJob'[UI].data = docJob[UI].data
    BY <2>2
  <2>7. Disk!JobInv'
    BY <2>1, <2>6
  <2> QED
    BY <2>5, <2>7
<1> QED
  BY <1>1, <1>2, <1>3, <1>4, <1>5, <1>6 DEF Disk!Step

(* A system call stays within its own save: the file of another document   *)
(* does not change, its own only when the save is done or, on Windows,     *)
(* when the old one is removed.                                            *)
LEMMA StepWithinSave ==
  ASSUME DocInv, Disk!Step(UI)
  PROVE  /\ ~Disk!At(UI, "idle") /\ ~Disk!At(UI, "idle")' /\ ~Disk!At(UI, "saved")
         /\ docJob'[UI].path = docJob[UI].path /\ docJob'[UI].data = docJob[UI].data
         /\ \A d \in Docs : d # docJob[UI].path => docFile'[d] = docFile[d]
         /\ Disk!At(UI, "saved")' => docFile'[docJob[UI].path] = docJob[UI].data
         /\ ~Fallback /\ ~Disk!At(UI, "saved")' => docFile'[docJob[UI].path] = docFile[docJob[UI].path]
<1> USE DocumentsAssumption
    DEF DocInv, DocsTypeOK, Disk!TypeOK, Disk!Jobs, Disk!PCs, Disk!JobInv, Disk!At, Disk!Move
<1>1. CASE Disk!Create(UI)   BY <1>1 DEF Disk!Create
<1>2. CASE Disk!Fill(UI)     BY <1>2 DEF Disk!Fill
<1>3. CASE Disk!Rename(UI)   BY <1>3 DEF Disk!Rename
<1>4. CASE Disk!Cleanup(UI)  BY <1>4 DEF Disk!Cleanup
<1>5. CASE Disk!Unlink(UI)   BY <1>5 DEF Disk!Unlink
<1>6. CASE Disk!RenameAgain(UI)  BY <1>6 DEF Disk!RenameAgain
<1> QED
  BY <1>1, <1>2, <1>3, <1>4, <1>5, <1>6 DEF Disk!Step

(* The start of a save, from the thread being idle.                        *)
LEMMA BeginKeepsDisk ==
  ASSUME DocsTypeOK, Disk!JobInv, NEW d \in Docs, NEW v \in Values, Disk!Begin(UI, d, v)
  PROVE  /\ Disk!TypeOK' /\ Disk!JobInv'
         /\ docFile' = docFile
         /\ ~Disk!At(UI, "idle")' /\ ~Disk!At(UI, "saved")'
         /\ docJob'[UI].path = d /\ docJob'[UI].data = v
BY DocumentsAssumption
DEF DocsTypeOK, Bytes, Disk!Begin, Disk!TypeOK, Disk!Jobs, Disk!PCs, Disk!JobInv, Disk!At

(* The end of a save, or of the process.                                   *)
LEMMA EndKeepsDisk ==
  ASSUME DocsTypeOK, Disk!JobInv, Disk!Return(UI) \/ Disk!Crash
  PROVE  /\ Disk!TypeOK' /\ Disk!JobInv'
         /\ docFile' = docFile
         /\ Disk!At(UI, "idle")' /\ ~Disk!At(UI, "saved")' /\ docJob'[UI].path = NoFile
BY DocumentsAssumption
DEF DocsTypeOK, Bytes, Disk!Return, Disk!Crash, Disk!NoJob, Disk!TypeOK, Disk!Jobs, Disk!PCs,
    Disk!JobInv, Disk!At

(* What a launch starts from.                                              *)
LEMMA GoneTypes ==
  ASSUME Gone, DocsTypeOK, Disk!TypeOK'
  PROVE  /\ value' \in [Docs -> Values] /\ dirty' \in [Docs -> BOOLEAN]
         /\ todo' \in Seq(Docs) /\ again' = "no" /\ phase' = "off"
         /\ saved' \in [Docs -> Stored] /\ failed' \subseteq Docs /\ kept' \in [Docs -> Stored]
<1>1. todo' \in Seq(Docs)
  BY DEF Gone
<1>2. saved' \in [Docs -> Stored]
  BY DEF Gone, DocsTypeOK, Disk!TypeOK, Stored
<1> QED
  BY <1>1, <1>2, DocumentsAssumption DEF Gone, Stored
-----------------------------------------------------------------------------

(* Opening a document is no write, and it leaves it open.                  *)
LEMMA OpenKeepsInv ==
  ASSUME DocInv, NEW d \in Docs, OpenPresent(d) \/ OpenMissing(d) \/ OpenUnreadable(d)
  PROVE  DocInv' /\ (OldUntilNew => OldUntilNew') /\ (Clean => Clean')
<1> USE DocumentsAssumption
<1>1. /\ phase = "opening" /\ UNCHANGED <<docJob, phase, again, failed>>
      /\ todo # << >> /\ d = Head(todo) /\ todo' = Tail(todo)
      /\ todo \in Seq(Docs)
  BY DEF OpenPresent, OpenMissing, OpenUnreadable, Opening, DocInv, DocsTypeOK
<1>2. todo' \in Seq(Docs)
  BY <1>1
<1>3. \A x \in Docs : Left(x) => x = d \/ Left(x)'
  <2> SUFFICES ASSUME NEW x \in Docs, NEW i \in DOMAIN todo, todo[i] = x, x # d
               PROVE  \E j \in DOMAIN Tail(todo) : Tail(todo)[j] = x
    BY <1>1 DEF Left, Holds
  <2>1. i - 1 \in DOMAIN Tail(todo) /\ Tail(todo)[i - 1] = x
    BY <1>1
  <2> QED
    BY <2>1
<1>4. Disk!At(UI, "idle") /\ Disk!At(UI, "idle")' /\ docJob[UI].path = NoFile
  BY <1>1 DEF DocInv, Still, Saving, Disk!At
<1>5. /\ value' \in [Docs -> Values] /\ dirty' \in [Docs -> BOOLEAN]
      /\ aside' \in [Docs -> Stored] /\ saved' \in [Docs -> Stored]
      /\ kept' \in [Docs -> Stored] /\ docFile' \in [Docs -> Stored]
  <2> USE DEF DocInv, DocsTypeOK, Disk!TypeOK, Stored, Bytes
  <2>1. CASE OpenPresent(d)     BY <2>1 DEF OpenPresent
  <2>2. CASE OpenMissing(d)     BY <2>2 DEF OpenMissing
  <2>3. CASE OpenUnreadable(d)  BY <2>3 DEF OpenUnreadable
  <2> QED
    BY <2>1, <2>2, <2>3
<1>6. Disk!TypeOK' /\ Disk!JobInv'
  BY <1>1, <1>5 DEF DocInv, DocsTypeOK, Disk!TypeOK, Disk!JobInv, Disk!At, Stored
<1>7. DocInv'
  BY <1>1, <1>2, <1>4, <1>5, <1>6 DEF DocInv, DocsTypeOK, Saving, Still
<1>8. \A x \in Docs : x # d => docFile'[x] = docFile[x] /\ value'[x] = value[x] /\ dirty'[x] = dirty[x]
                              /\ saved'[x] = saved[x]
  BY DEF DocInv, DocsTypeOK, Disk!TypeOK, OpenPresent, OpenMissing, OpenUnreadable
<1>9. (docFile'[d] = saved'[d]) \/ (docFile'[d] = docFile[d] /\ saved'[d] = saved[d])
  BY DEF DocInv, DocsTypeOK, Disk!TypeOK, OpenPresent, OpenMissing, OpenUnreadable
<1>10. Settled(d)'
  BY DEF DocInv, DocsTypeOK, OpenPresent, OpenMissing, OpenUnreadable, Settled, OnDisk, Shown
<1>11. OldUntilNew => OldUntilNew'
  BY <1>1, <1>8, <1>9 DEF OldUntilNew, Disk!At
<1>12. Clean => Clean'
  BY <1>1, <1>3, <1>8, <1>10 DEF Clean, Settled, OnDisk
<1> QED
  BY <1>7, <1>11, <1>12

(* The save of a document begins with the thread idle: by a set, by a      *)
(* handler that saves again and by the flush.                              *)
LEMMA SaveKeepsInv ==
  ASSUME DocInv, NEW d \in Docs, NEW v \in Values, Disk!Begin(UI, d, v), v = value'[d],
         phase = phase', phase \in {"up", "flushing"},
         value' = [value EXCEPT ![d] = v],
         todo' \in Seq(Docs), again' \in {"no", "ifOk", "always"},
         again' # "no" => phase = "up",
         UNCHANGED <<dirty, aside, saved, failed, kept>>
  PROVE  DocInv' /\ (OldUntilNew => OldUntilNew') /\ (Clean => Clean')
<1>1. Disk!At(UI, "idle") /\ docJob[UI].path = NoFile
  BY DEF Disk!Begin, DocInv, Saving
<1>2. /\ Disk!TypeOK' /\ Disk!JobInv'
      /\ docFile' = docFile
      /\ ~Disk!At(UI, "idle")' /\ ~Disk!At(UI, "saved")'
      /\ docJob'[UI].path = d /\ docJob'[UI].data = v
  BY BeginKeepsDisk DEF DocInv
<1>3. DocInv'
  BY <1>2 DEF DocInv, DocsTypeOK, Saving, Still
<1>4. OldUntilNew => OldUntilNew'
  BY <1>1, <1>2, DocumentsAssumption DEF OldUntilNew
<1>5. Clean => Clean'
  <2>1. \A x \in Docs : Settled(x) => Settled(x)'
    BY <1>1, <1>2, DocumentsAssumption DEF Settled, OnDisk, DocInv, DocsTypeOK
  <2> QED
    BY <2>1 DEF Clean
<1> QED
  BY <1>3, <1>4, <1>5

(* The end of a save: what was written is on disk, what was not is dirty   *)
(* or a document whose save failed.                                        *)
LEMMA ReturnKeepsInv ==
  ASSUME DocInv, Disk!Return(UI), NEW ok \in BOOLEAN, ok = Disk!At(UI, "saved"),
         Finished(docJob[UI].path, ok),
         phase = phase', phase \in {"up", "flushing"},
         again' \in {"no", "ifOk", "always"} \cup Docs,
         again' # "no" => phase = "up",
         UNCHANGED <<value, aside, todo, kept>>
  PROVE  DocInv' /\ (OldUntilNew => OldUntilNew') /\ (Clean => Clean')
<1>0. docJob[UI].path \in Docs
  BY DEF DocInv, Disk!JobInv, Disk!Return, Disk!At
<1> PICK d \in Docs : d = docJob[UI].path
  BY <1>0
<1>1. docJob[UI].data = value[d] /\ (ok => docFile[d] = value[d])
  BY DEF DocInv, Disk!Return, Disk!At, Saving
<1>2. /\ Disk!TypeOK' /\ Disk!JobInv' /\ docFile' = docFile
      /\ Disk!At(UI, "idle")' /\ ~Disk!At(UI, "saved")' /\ docJob'[UI].path = NoFile
  BY EndKeepsDisk DEF DocInv
<1>3. /\ dirty' = [dirty EXCEPT ![d] = @ /\ ~ok]
      /\ failed' = IF ok THEN failed \ {d} ELSE failed \cup ({d} \ {x \in Docs : dirty[x]})
      /\ saved' = IF ok THEN [saved EXCEPT ![d] = value[d]] ELSE saved
  BY DEF Finished
<1>4. DocInv'
  <2>1. dirty' \in [Docs -> BOOLEAN] /\ failed' \subseteq Docs
    BY <1>1, <1>3 DEF DocInv, DocsTypeOK
  <2>2. saved' \in [Docs -> Stored]
    BY <1>1, <1>3 DEF DocInv, DocsTypeOK, Stored, Bytes
  <2> QED
    BY <1>2, <2>1, <2>2 DEF DocInv, DocsTypeOK, Saving, Still
<1>5. OldUntilNew => OldUntilNew'
  BY <1>1, <1>2, <1>3 DEF OldUntilNew, DocInv, DocsTypeOK
<1>6. Clean => Clean'
  <2>1. ASSUME NEW x \in Docs, x # d, Settled(x)
        PROVE  Settled(x)'
    BY <1>1, <1>2, <1>3, <2>1 DEF Settled, OnDisk, DocInv, DocsTypeOK
  <2>2. Settled(d)'
    <3>1. CASE ok
      BY <1>1, <1>2, <3>1 DEF Settled, OnDisk, Shown, DocInv, DocsTypeOK
    <3>2. CASE ~ok
      <4>1. CASE dirty[d]
        BY <1>1, <1>3, <3>2, <4>1 DEF Settled, DocInv, DocsTypeOK
      <4>2. CASE ~dirty[d]
        BY <1>1, <1>3, <3>2, <4>2 DEF Settled, DocInv, DocsTypeOK
      <4> QED
        BY <4>1, <4>2
    <3> QED
      BY <3>1, <3>2
  <2> QED
    BY <1>1, <2>1, <2>2 DEF Clean, Left
<1> QED
  BY <1>4, <1>5, <1>6
-----------------------------------------------------------------------------

(* The whole invariant, and what the two properties add to it, hold in     *)
(* every step of a launch, a run and a flush.                              *)
LEMMA NextKeepsDoc ==
  ASSUME DocInv, [DocsNext]_docVars
  PROVE  /\ DocInv'
         /\ ~Fallback /\ OldUntilNew => OldUntilNew'
         /\ Clean => Clean'
<1> USE DocumentsAssumption
<1>1. CASE Launch
  <2>1. DocInv'
    BY <1>1, InOrderHasDocs DEF Launch, DocInv, DocsTypeOK, Disk!TypeOK, Disk!JobInv, Disk!At,
                                Saving, Still
  <2>2. \A d \in Docs : Left(d)'
    BY <1>1, InOrderHasDocs DEF Launch, Left
  <2> QED
    BY <1>1, <2>1, <2>2 DEF Launch, OldUntilNew, Disk!At, Clean
<1>2. CASE Opened
  <2>1. Still' /\ Saving' /\ DocsTypeOK' /\ Disk!JobInv'
    BY <1>2 DEF Opened, DocInv, DocsTypeOK, Disk!TypeOK, Disk!JobInv, Disk!At, Saving, Still
  <2>2. \A d \in Docs : ~Left(d)
    BY <1>2 DEF Opened, Left, Holds
  <2>3. Clean => Clean'
    BY <1>2, <2>2 DEF Opened, Clean, Settled, OnDisk
  <2> QED
    BY <1>2, <2>1, <2>3 DEF Opened, OldUntilNew, Disk!At, DocInv
<1>3. ASSUME NEW d \in Docs, OpenPresent(d) \/ OpenMissing(d) \/ OpenUnreadable(d)
      PROVE  DocInv' /\ (OldUntilNew => OldUntilNew') /\ (Clean => Clean')
  BY <1>3, OpenKeepsInv
<1>4. ASSUME NEW d \in Docs, NEW v \in Values, NEW then \in Handlers(d), Set(d, v, then)
      PROVE  DocInv' /\ (OldUntilNew => OldUntilNew') /\ (Clean => Clean')
  <2>1. then \in {"no", "ifOk", "always"}
    BY DEF Handlers
  <2>2. v = value'[d] /\ todo' \in Seq(Docs)
    BY <1>4 DEF Set, DocInv, DocsTypeOK
  <2> QED
    BY <1>4, <2>1, <2>2, SaveKeepsInv DEF Set
<1>5. CASE Write
  <2>1. Disk!TypeOK' /\ Disk!JobInv'
    BY <1>5, StepKeepsDisk DEF Write, DocInv, DocsTypeOK
  <2>2. /\ ~Disk!At(UI, "idle") /\ ~Disk!At(UI, "idle")' /\ ~Disk!At(UI, "saved")
        /\ docJob'[UI].path = docJob[UI].path /\ docJob'[UI].data = docJob[UI].data
        /\ \A d \in Docs : d # docJob[UI].path => docFile'[d] = docFile[d]
        /\ Disk!At(UI, "saved")' => docFile'[docJob[UI].path] = docJob[UI].data
        /\ ~Fallback /\ ~Disk!At(UI, "saved")' => docFile'[docJob[UI].path] = docFile[docJob[UI].path]
    BY <1>5, StepWithinSave DEF Write
  <2>3. DocInv'
    BY <1>5, <2>1, <2>2 DEF Write, DocInv, DocsTypeOK, Saving, Still
  <2>4. ~Fallback /\ OldUntilNew => OldUntilNew'
    BY <1>5, <2>2 DEF Write, OldUntilNew
  <2>5. Clean => Clean'
    <3>1. \A d \in Docs : Settled(d) => Settled(d)'
      BY <1>5, <2>2 DEF Write, Settled, OnDisk
    <3> QED
      BY <1>5, <3>1 DEF Write, Clean, Left
  <2> QED
    BY <2>3, <2>4, <2>5
<1>6. CASE SaveReturns
  <2> DEFINE ok == Disk!At(UI, "saved")
  <2>1. docJob[UI].path \in Docs
    BY <1>6 DEF SaveReturns, Disk!Return, DocInv, Disk!JobInv, Disk!At
  <2>2. again' \in {"no", "ifOk", "always"} \cup Docs
    BY <1>6, <2>1 DEF SaveReturns
  <2>3. ok \in BOOLEAN
    BY DEF Disk!At
  <2> QED
    BY <1>6, <2>2, <2>3, ReturnKeepsInv DEF SaveReturns
<1>7. CASE SaveAgain
  <2>1. again \in Docs /\ value[again] \in Values /\ value = [value EXCEPT ![again] = value[again]]
    BY <1>7 DEF SaveAgain, DocInv, DocsTypeOK
  <2>2. phase \in {"up", "flushing"} /\ again' = "no"
    BY <1>7, <2>1 DEF SaveAgain, DocInv, Still
  <2> QED
    BY <1>7, <2>1, <2>2, SaveKeepsInv DEF SaveAgain, DocInv, DocsTypeOK
<1>8. CASE Quit
  <2>0. todo' \in Seq(Docs)
    BY <1>8, InOrderHasDocs DEF Quit
  <2>1. DocInv'
    BY <1>8, <2>0 DEF Quit, Idle, DocInv, DocsTypeOK, Disk!TypeOK, Disk!JobInv, Disk!At,
                                Saving, Still
  <2> QED
    BY <1>8, <2>1 DEF Quit, OldUntilNew, Disk!At, Clean
<1>9. CASE FlushNext
  <2> DEFINE d == Head(todo)
  <2>0. todo \in Seq(Docs) /\ todo # << >>
    BY <1>9 DEF FlushNext, DocInv, DocsTypeOK
  <2>1. d \in Docs /\ todo' \in Seq(Docs) /\ value[d] \in Values
    <3>1. Head(todo) \in Docs /\ Tail(todo) \in Seq(Docs)
      BY <2>0
    <3> QED
      BY <1>9, <3>1 DEF FlushNext, DocInv, DocsTypeOK
  <2>2. CASE dirty[d]
    <3>1. Disk!Begin(UI, d, value[d])
      BY <1>9, <2>2 DEF FlushNext
    <3>2. again' = "no" /\ phase \in {"up", "flushing"}
      BY <1>9 DEF FlushNext, Idle
    <3>3. value' = [value EXCEPT ![d] = value[d]] /\ value[d] = value'[d]
      BY <1>9 DEF FlushNext, DocInv, DocsTypeOK
    <3> HIDE DEF d
    <3> QED
      BY <1>9, <2>1, <3>1, <3>2, <3>3, SaveKeepsInv DEF FlushNext
  <2>3. CASE ~dirty[d]
    <3>1. DocInv'
      BY <1>9, <2>1, <2>3 DEF FlushNext, DocInv, DocsTypeOK, Disk!TypeOK, Disk!JobInv, Disk!At,
                              Saving, Still
    <3> QED
      BY <1>9, <2>3, <3>1 DEF FlushNext, OldUntilNew, Disk!At, Clean
  <2> QED
    BY <2>2, <2>3
<1>10. ASSUME Gone, Disk!Return(UI) \/ Disk!Crash, UNCHANGED aside
       PROVE  DocInv' /\ OldUntilNew' /\ Clean'
  <2>1. /\ Disk!TypeOK' /\ Disk!JobInv' /\ docFile' = docFile
        /\ Disk!At(UI, "idle")' /\ docJob'[UI].path = NoFile
    BY <1>10, EndKeepsDisk DEF DocInv
  <2>2. DocInv'
    BY <1>10, <2>1, GoneTypes DEF DocInv, DocsTypeOK, Saving, Still
  <2> QED
    BY <1>10, <2>1, <2>2 DEF Gone, OldUntilNew, Clean
<1>11. CASE FlushReturns
  <2>1. CASE Disk!At(UI, "saved")
    <3>1. again' \in {"no", "ifOk", "always"} \cup Docs /\ (again' # "no" => phase = "up")
      BY <1>11, <2>1 DEF FlushReturns, DocInv, DocsTypeOK, Still
    <3> QED
      BY <1>11, <2>1, <3>1, ReturnKeepsInv DEF FlushReturns
  <2>2. CASE ~Disk!At(UI, "saved")
    BY <1>11, <2>2, <1>10 DEF FlushReturns
  <2> QED
    BY <2>1, <2>2
<1>12. CASE Flushed
  <2>1. Disk!TypeOK' /\ Disk!JobInv' /\ Disk!At(UI, "idle")' /\ docJob'[UI].path = NoFile
    BY <1>12 DEF Flushed, Idle, DocInv, DocsTypeOK, Saving, Disk!TypeOK, Disk!JobInv, Disk!At
  <2>2. DocInv'
    BY <1>12, <2>1, GoneTypes DEF Flushed, DocInv, DocsTypeOK, Saving, Still, Gone
  <2> QED
    BY <1>12, <2>2 DEF Flushed, Gone, OldUntilNew, Clean
<1>13. CASE Die
  BY <1>13, <1>10 DEF Die
<1>14. ASSUME NEW d \in Docs, Damage(d)
       PROVE  DocInv' /\ OldUntilNew' /\ (Clean => Clean')
  <2>1. docFile' \in [Docs -> Stored]
    BY <1>14 DEF Damage, DocInv, DocsTypeOK, Disk!TypeOK, Stored, Bytes
  <2>2. Disk!TypeOK' /\ Disk!JobInv' /\ Disk!At(UI, "idle")' /\ docJob'[UI].path = NoFile
    BY <1>14, <2>1 DEF Damage, DocInv, DocsTypeOK, Saving, Still, Stored, Disk!TypeOK,
                       Disk!JobInv, Disk!At
  <2>3. DocInv'
    BY <1>14, <2>1, <2>2 DEF Damage, DocInv, DocsTypeOK, Saving, Still
  <2> QED
    BY <1>14, <2>3 DEF Damage, OldUntilNew, Clean
<1>15. CASE UNCHANGED docVars
  BY <1>15 DEF docVars, DocInv, DocsTypeOK, Disk!TypeOK, Disk!JobInv, Disk!At, Saving, Still,
               OldUntilNew, Clean, Settled, OnDisk, Left
<1> QED
  BY <1>1, <1>2, <1>3, <1>4, <1>5, <1>6, <1>7, <1>8, <1>9, <1>11, <1>12, <1>13, <1>14, <1>15
  DEF DocsNext
-----------------------------------------------------------------------------

(* A data directory no launch has looked at yet.                           *)
LEMMA InitHolds == DocsInit => DocInv /\ OldUntilNew /\ Clean
<1> SUFFICES ASSUME DocsInit PROVE DocInv /\ OldUntilNew /\ Clean
  OBVIOUS
<1>1. Disk!TypeOK /\ Disk!JobInv /\ Disk!At(UI, "idle") /\ docJob[UI].path = NoFile
  BY DocumentsAssumption
  DEF DocsInit, Disk!Init, Disk!NoJob, Disk!TypeOK, Disk!Jobs, Disk!PCs, Disk!JobInv, Disk!At
<1>2. DocsTypeOK
  <2>1. todo \in Seq(Docs)
    BY DEF DocsInit
  <2>2. saved \in [Docs -> Stored] /\ kept \in [Docs -> Stored] /\ aside \in [Docs -> Stored]
    BY <1>1 DEF DocsInit, Disk!TypeOK, Stored
  <2> QED
    BY <1>1, <2>1, <2>2, DocumentsAssumption DEF DocsInit, DocsTypeOK
<1> QED
  BY <1>1, <1>2 DEF DocsInit, DocInv, Saving, Still, OldUntilNew, Clean

(* The documents, their files and the save in flight are well typed, with  *)
(* every call of write_atomic failing and the program dying anywhere.      *)
THEOREM DocumentsTypeCorrect == DocsSpec => []DocsTypeOK
<1>1. DocInv /\ [DocsNext]_docVars => DocInv'
  BY NextKeepsDoc
<1>2. DocInv => DocsTypeOK
  BY DEF DocInv
<1> QED
  BY <1>1, <1>2, InitHolds, PTL DEF DocsSpec

(* Where a failed rename removes nothing, a document on disk is at every   *)
(* moment the one last read or saved, or the one whose save has just put   *)
(* it there: "A crash mid-write must never leave hosts.json truncated".    *)
THEOREM OldOrNew ==
  ASSUME ~Fallback
  PROVE  DocsSpec => []DiskIsOldOrNew
<1>1. DocInv /\ OldUntilNew /\ [DocsNext]_docVars => DocInv' /\ OldUntilNew'
  BY NextKeepsDoc
<1>2. DocInv /\ OldUntilNew => DiskIsOldOrNew
  <2> SUFFICES ASSUME DocInv, OldUntilNew, NEW d \in Docs, docFile[d] # saved[d]
               PROVE  docJob[UI].path = d /\ docFile[d] = docJob[UI].data
    BY DEF DiskIsOldOrNew
  <2> QED
    BY DEF OldUntilNew, DocInv, Saving, Disk!At
<1> QED
  BY <1>1, <1>2, InitHolds, PTL DEF DocsSpec

(* Whatever is not marked dirty, and whose last save did not fail, is on   *)
(* disk while the program waits for its user, so flush passes over nothing *)
(* it should write; on Windows too, and through unreadable files.          *)
THEOREM CleanIsWritten == DocsSpec => []CleanUnlessFailed
<1>1. DocInv /\ Clean /\ [DocsNext]_docVars => DocInv' /\ Clean'
  BY NextKeepsDoc
<1>2. DocInv /\ Clean => CleanUnlessFailed
  <2> SUFFICES ASSUME DocInv, Clean, Running, NEW d \in Docs
               PROVE  dirty[d] \/ d \in failed \/ OnDisk(d)
    BY DEF CleanUnlessFailed
  <2>1. docJob[UI].path = NoFile
    BY DEF Running, Idle, DocInv, Saving
  <2> QED
    BY <2>1, DocumentsAssumption DEF Running, Clean, Settled
<1> QED
  BY <1>1, <1>2, InitHolds, PTL DEF DocsSpec

-----------------------------------------------------------------------------
(* The secrets.                                                            *)

Promised(p, s) == p[s] \in 1..MaxSecrets

Under(key, secret) == [key |-> key, secret |-> secret]

Loaded ==
  vault.key # 0 /\ ~restored =>
    /\ vault.key = keyFile
    /\ \A s \in Scopes : Promised(promised, s) /\ plain[s] = 0 =>
                           vault.blobs[s] = Under(keyFile, promised[s])

TextIsPromised ==
  \A s \in Scopes : plain[s] # 0 => promised[s] \in {0, plain[s]}

Sealing ==
  stage = "sealing" =>
    /\ vault.key # 0
    /\ \A s \in found : plain[s] # 0
    /\ ~unsealed => \A s \in Scopes : plain[s] # 0 /\ s \notin found =>
         /\ vault.blobs[s] = Under(vault.key, plain[s])
         /\ sealed.whole /\ sealed.blobs[s] = vault.blobs[s]

Backed ==
  archive.key # 0 => \A s \in Scopes : Promised(archive.promised, s) =>
    archive.sealed.whole /\ archive.sealed.blobs[s] = Under(archive.key, archive.promised[s])

VaultInv ==
  /\ VaultTypeOK /\ SecretsAreKept
  /\ Loaded /\ TextIsPromised /\ Sealing /\ Backed
  /\ stage # "up" => ~restored

-----------------------------------------------------------------------------
(* Types.                                                                  *)

(* A write of the vault keeps the types of memory and file.                *)
LEMMA PutType ==
  ASSUME VaultTypeOK, NEW s \in Scopes, NEW secret \in 0..MaxSecrets, NEW ok \in BOOLEAN,
         Put(s, secret, ok)
  PROVE  /\ vault' \in [key : 0..MaxKeys, blobs : [Scopes -> Blobs]]
         /\ sealed' \in BlobFiles
         /\ vault'.key = vault.key
BY VaultAssumption DEF VaultTypeOK, Put, BlobFiles, Blobs, NoBlob

(* A vault that could not be opened is one without blobs.                  *)
LEMMA UnavailableType == Unavailable \in [key : 0..MaxKeys, blobs : [Scopes -> Blobs]]
<1>1. NoBlobs \in [Scopes -> Blobs]
  BY VaultAssumption DEF NoBlobs, NoBlob, Blobs
<1> QED
  BY <1>1, VaultAssumption DEF Unavailable

(* What a save leaves promised is typed.                                   *)
LEMMA PromisesType ==
  ASSUME VaultTypeOK, NEW s \in Scopes, NEW p \in 0..Forgotten
  PROVE  Promises(s, p) \in [Scopes -> 0..Forgotten]
BY VaultAssumption DEF VaultTypeOK, Promises, Nothing, Forgotten

(* Every state of the vault, its files and its backup is well typed.       *)
LEMMA TypeInit == VaultInit => VaultTypeOK
<1> SUFFICES ASSUME VaultInit PROVE VaultTypeOK
  OBVIOUS
<1>1. NoBlobs \in [Scopes -> Blobs]
  BY VaultAssumption DEF NoBlobs, NoBlob, Blobs
<1>2. sealed \in BlobFiles
  BY <1>1 DEF VaultInit, BlobFiles
<1>3. plain \in [Scopes -> 0..MaxSecrets] /\ promised \in [Scopes -> 0..Forgotten]
  BY VaultAssumption DEF VaultInit, Forgotten
<1>4. archive \in [key : 0..MaxKeys, sealed : BlobFiles, promised : [Scopes -> 0..Forgotten]]
  BY <1>2, <1>3, VaultAssumption DEF VaultInit
<1> QED
  BY <1>2, <1>3, <1>4, UnavailableType, VaultAssumption DEF VaultInit, VaultTypeOK

(* The types of the vault, step by step.                                   *)
LEMMA TypeStep == VaultTypeOK /\ [VaultNext]_vaultVars => VaultTypeOK'
<1> SUFFICES ASSUME VaultTypeOK, [VaultNext]_vaultVars PROVE VaultTypeOK'
  OBVIOUS
<1> USE VaultAssumption DEF VaultTypeOK
<1>1. CASE OpenVault
  <2>1. keyFile' \in 0..MaxKeys
    BY <1>1 DEF OpenVault, LoadKey, NewKeys
  <2>2. vault' \in [key : 0..MaxKeys, blobs : [Scopes -> Blobs]]
    BY <1>1, UnavailableType DEF OpenVault, BlobFiles
  <2>3. found' \in SUBSET Scopes /\ stage' \in {"down", "sealing", "up"}
    BY <1>1 DEF OpenVault, Pending
  <2> QED BY <1>1, <2>1, <2>2, <2>3 DEF OpenVault
<1>2. CASE SealNext
  <2>1. PICK s \in found, ok \in BOOLEAN :
          Put(s, plain[s], ok) /\ found' = found \ {s} /\ unsealed' = (unsealed \/ ~ok)
    BY <1>2 DEF SealNext
  <2> QED BY <1>2, <2>1, PutType DEF SealNext
<1>3. CASE EndSealing
  BY <1>3 DEF EndSealing, Nothing
<1>4. CASE VaultDies
  BY <1>4, UnavailableType DEF VaultDies, disk
<1>5. CASE SaveDocument
  BY <1>5 DEF SaveDocument, Promises, Nothing, Forgotten
<1>6. CASE SaveSecret
  <2>1. PICK s \in Scopes, secret \in 0..MaxSecrets, ok \in BOOLEAN :
          /\ IF vault.key = 0 THEN ~ok /\ UNCHANGED <<vault, sealed>> ELSE Put(s, secret, ok)
          /\ plain' = [plain EXCEPT ![s] = 0]
          /\ promised' = Promises(s, IF ok THEN secret ELSE 0)
    BY <1>6 DEF SaveSecret
  <2>2. promised' \in [Scopes -> 0..Forgotten]
    BY <2>1, PromisesType DEF Forgotten
  <2> QED BY <1>6, <2>1, <2>2, PutType DEF SaveSecret
<1>7. CASE SavePaneSecret
  <2>1. PICK s \in Scopes, secret \in 0..MaxSecrets, ok \in BOOLEAN :
          /\ IF vault.key = 0 THEN ~ok /\ UNCHANGED <<vault, sealed>> ELSE Put(s, secret, ok)
          /\ promised' = Promises(s, IF ok /\ plain[s] = 0 THEN secret ELSE 0)
    BY <1>7 DEF SavePaneSecret
  <2>2. promised' \in [Scopes -> 0..Forgotten]
    BY <2>1, PromisesType DEF Forgotten
  <2> QED BY <1>7, <2>1, <2>2, PutType DEF SavePaneSecret
<1>8. CASE ForgetHost
  <2>1. PICK s \in Scopes, ok \in BOOLEAN :
          /\ IF vault.key = 0 THEN ~ok /\ UNCHANGED <<vault, sealed>> ELSE Put(s, 0, ok)
          /\ plain' = [plain EXCEPT ![s] = 0]
          /\ promised' = Promises(s, Forgotten)
    BY <1>8 DEF ForgetHost
  <2>2. promised' \in [Scopes -> 0..Forgotten]
    BY <2>1, PromisesType DEF Forgotten
  <2>3. 0 \in 0..MaxSecrets
    OBVIOUS
  <2>4. vault' \in [key : 0..MaxKeys, blobs : [Scopes -> Blobs]] /\ sealed' \in BlobFiles
    BY <2>1, <2>3, PutType
  <2>5. plain' \in [Scopes -> 0..MaxSecrets]
    BY <2>1, <2>3
  <2>6. UNCHANGED <<keyFile, stage, found, unsealed, archive, restored>>
    BY <1>8 DEF ForgetHost
  <2> QED BY <2>2, <2>4, <2>5, <2>6
<1>9. CASE ExportBackup
  BY <1>9 DEF ExportBackup, disk
<1>10. CASE ImportBackup
  <2>1. keyFile' \in 0..MaxKeys
    BY <1>10 DEF ImportBackup
  <2>2. sealed' \in BlobFiles
    BY <1>10 DEF ImportBackup, BlobFiles
  <2>3. plain' \in [Scopes -> 0..MaxSecrets]
    BY <1>10 DEF ImportBackup
  <2>4. promised' \in [Scopes -> 0..Forgotten]
    BY <1>10 DEF ImportBackup, Nothing, Forgotten
  <2> QED BY <1>10, <2>1, <2>2, <2>3, <2>4 DEF ImportBackup
<1>11. CASE UNCHANGED vaultVars
  BY <1>11 DEF vaultVars
<1> QED
  BY <1>1, <1>2, <1>3, <1>4, <1>5, <1>6, <1>7, <1>8, <1>9, <1>10, <1>11 DEF VaultNext

(* The types of Vault, for any scopes and bounds.                          *)
THEOREM VaultTypeCorrect == VaultSpec => []VaultTypeOK
BY TypeInit, TypeStep, PTL DEF VaultSpec

-----------------------------------------------------------------------------
(* Kept secrets.                                                           *)

(* A write of one scope's secret leaves those of the others in memory, and *)
(* puts memory on disk or leaves the disk as it was: either way no other   *)
(* promise is broken.                                                      *)
LEMMA PutKeeps ==
  ASSUME VaultInv, vault.key # 0, ~restored,
         NEW s \in Scopes, NEW secret \in 0..MaxSecrets, NEW ok \in BOOLEAN,
         Put(s, secret, ok)
  PROVE  /\ vault'.key = vault.key
         /\ vault'.blobs[s] = IF secret = 0 THEN NoBlob ELSE Under(vault.key, secret)
         /\ \A t \in Scopes \ {s} : vault'.blobs[t] = vault.blobs[t]
         /\ ok => sealed'.whole /\ sealed'.blobs = vault'.blobs
         /\ ~ok => sealed' = sealed
         /\ \A t \in Scopes \ {s} : Promised(promised, t) =>
              Held(plain, keyFile, sealed', t, promised[t])
<1> USE DEF VaultInv, VaultTypeOK, Under
<1>1. /\ vault'.key = vault.key
      /\ vault'.blobs[s] = IF secret = 0 THEN NoBlob ELSE Under(vault.key, secret)
      /\ \A t \in Scopes \ {s} : vault'.blobs[t] = vault.blobs[t]
      /\ ok => sealed'.whole /\ sealed'.blobs = vault'.blobs
      /\ ~ok => sealed' = sealed
  BY DEF Put
<1>2. ASSUME NEW t \in Scopes \ {s}, Promised(promised, t)
      PROVE  Held(plain, keyFile, sealed', t, promised[t])
  <2>1. CASE plain[t] # 0
    BY <1>2, <2>1 DEF TextIsPromised, Promised, Held
  <2>2. CASE plain[t] = 0 /\ ok
    BY <1>1, <1>2, <2>2 DEF Loaded, Held
  <2>3. CASE ~ok
    BY <1>1, <1>2, <2>3 DEF SecretsAreKept, Promised
  <2> QED BY <2>1, <2>2, <2>3
<1> QED BY <1>1, <1>2

(* A save of scope s that promises p, which is what it wrote if anything.  *)
LEMMA SaveKeeps ==
  ASSUME VaultInv, VaultTypeOK', stage = "up",
         NEW s \in Scopes, NEW p \in 0..Forgotten,
         NEW secret \in 0..MaxSecrets, NEW ok \in BOOLEAN,
         IF vault.key = 0 THEN ~ok /\ UNCHANGED <<vault, sealed>> ELSE Put(s, secret, ok),
         promised' = Promises(s, p),
         \A t \in Scopes \ {s} : plain'[t] = plain[t],
         p \in 1..MaxSecrets => ok /\ p = secret /\ plain'[s] = 0,
         plain'[s] # 0 => p = 0,
         UNCHANGED <<keyFile, stage, archive, restored>>
  PROVE  VaultInv'
<1> USE VaultAssumption DEF VaultInv
<1>1. CASE restored
  <2>1. \A t \in Scopes : promised'[t] = 0
    BY <1>1 DEF Promises, Nothing
  <2> QED BY <1>1, <2>1 DEF SecretsAreKept, Loaded, TextIsPromised, Sealing, Backed, Promised
<1>2. CASE ~restored
  <2>1. promised' = [promised EXCEPT ![s] = p]
    BY <1>2 DEF Promises
  <2>2. promised'[s] = p /\ \A t \in Scopes \ {s} : promised'[t] = promised[t]
    BY <2>1 DEF VaultTypeOK
  <2>3. TextIsPromised'
    BY <2>2 DEF TextIsPromised
  <2>4. CASE vault.key = 0
    <3>1. SecretsAreKept'
      BY <2>2, <2>4 DEF SecretsAreKept, Held
    <3> QED BY <1>2, <2>3, <2>4, <3>1 DEF Loaded, Sealing, Backed, Promised
  <2>5. CASE vault.key # 0
    <3>1. Put(s, secret, ok)
      BY <2>5
    <3>2. vault.key = keyFile
      BY <1>2, <2>5 DEF Loaded
    <3>3. p \in 1..MaxSecrets => vault'.blobs[s] = Under(keyFile, p)
                                  /\ sealed'.whole /\ sealed'.blobs = vault'.blobs
      <4> SUFFICES ASSUME p \in 1..MaxSecrets
                   PROVE  /\ vault'.blobs[s] = Under(keyFile, p)
                          /\ sealed'.whole /\ sealed'.blobs = vault'.blobs
        OBVIOUS
      <4>1. ok /\ secret = p /\ secret # 0
        OBVIOUS
      <4>2. /\ vault'.blobs[s] = IF secret = 0 THEN NoBlob ELSE Under(vault.key, secret)
            /\ ok => sealed'.whole /\ sealed'.blobs = vault'.blobs
        BY <1>2, <2>5, <3>1, PutKeeps
      <4> QED BY <3>2, <4>1, <4>2
    <3>4. SecretsAreKept'
      <4> SUFFICES ASSUME NEW t \in Scopes, promised'[t] \in 1..MaxSecrets
                   PROVE  Held(plain', keyFile', sealed', t, promised'[t])
        BY DEF SecretsAreKept
      <4>1. CASE t = s
        BY <2>2, <2>5, <3>2, <3>3, <4>1 DEF Held, Under
      <4>2. CASE t # s
        BY <1>2, <2>2, <2>5, <3>1, <4>2, PutKeeps DEF Held, Promised
      <4> QED BY <4>1, <4>2
    <3>5. Loaded'
      <4>1. vault'.key = keyFile'
        BY <1>2, <2>5, <3>1, <3>2, PutKeeps
      <4>2. ASSUME NEW t \in Scopes, Promised(promised', t), plain'[t] = 0
            PROVE  vault'.blobs[t] = Under(keyFile', promised'[t])
        <5>1. CASE t = s
          BY <2>2, <3>3, <4>2, <5>1 DEF Promised
        <5>2. CASE t # s
          BY <1>2, <2>2, <2>5, <3>1, <4>2, <5>2, PutKeeps DEF Promised, Loaded
        <5> QED BY <5>1, <5>2
      <4> QED BY <4>1, <4>2 DEF Loaded
    <3> QED BY <1>2, <2>3, <3>4, <3>5 DEF Sealing, Backed, Promised
  <2> QED BY <2>4, <2>5
<1> QED BY <1>1, <1>2
(* The first launch of an upgraded program.                                *)
LEMMA InitKeeps == VaultInit => VaultInv
BY TypeInit, VaultAssumption
DEF VaultInit, VaultInv, SecretsAreKept, Held, Loaded, TextIsPromised, Sealing, Backed, Unavailable

(* A launch loads what is on disk; it makes a new key only where no        *)
(* promise rests on the old one.                                           *)
LEMMA OpenKeeps == VaultInv /\ VaultTypeOK' /\ OpenVault => VaultInv'
<1> SUFFICES ASSUME VaultInv, VaultTypeOK', OpenVault PROVE VaultInv'
  OBVIOUS
<1> USE DEF VaultInv
<1>1. UNCHANGED <<sealed, plain, archive, restored, promised>> /\ ~restored
  BY DEF OpenVault
<1>2. keyFile # 0 => keyFile' = keyFile
  BY DEF OpenVault, LoadKey
<1>3. SecretsAreKept'
  BY <1>1, <1>2 DEF SecretsAreKept, Held
<1>4. vault'.key # 0 => vault'.key = keyFile' /\ sealed.whole /\ vault'.blobs = sealed.blobs
  BY DEF OpenVault, LoadKey, Unavailable
<1>5. Loaded'
  BY <1>1, <1>3, <1>4 DEF Loaded, SecretsAreKept, Held, Promised, Under
<1>6. Sealing'
  BY <1>1 DEF Sealing, OpenVault, Pending, VaultTypeOK
<1> QED BY <1>1, <1>3, <1>5, <1>6 DEF TextIsPromised, Backed

(* The migration seals what the text says, which is what is promised.      *)
LEMMA SealKeeps == VaultInv /\ VaultTypeOK' /\ SealNext => VaultInv'
<1> SUFFICES ASSUME VaultInv, VaultTypeOK', SealNext PROVE VaultInv'
  OBVIOUS
<1> USE DEF VaultInv
<1>1. PICK s \in found, ok \in BOOLEAN :
        Put(s, plain[s], ok) /\ found' = found \ {s} /\ unsealed' = (unsealed \/ ~ok)
  BY DEF SealNext
<1>2. /\ UNCHANGED <<keyFile, plain, stage, archive, restored, promised>>
      /\ stage = "sealing" /\ ~restored /\ vault.key # 0 /\ plain[s] # 0
  BY DEF SealNext, Sealing
<1>3. s \in Scopes /\ plain[s] \in 0..MaxSecrets
  BY DEF VaultTypeOK
<1>4. /\ vault'.key = vault.key
      /\ vault'.blobs[s] = Under(vault.key, plain[s])
      /\ \A t \in Scopes \ {s} : vault'.blobs[t] = vault.blobs[t]
      /\ ok => sealed'.whole /\ sealed'.blobs = vault'.blobs
      /\ ~ok => sealed' = sealed
      /\ \A t \in Scopes \ {s} : Promised(promised, t) =>
           Held(plain, keyFile, sealed', t, promised[t])
  BY <1>1, <1>2, <1>3, PutKeeps
<1>5. SecretsAreKept'
  BY <1>2, <1>3, <1>4 DEF SecretsAreKept, Held, Promised, TextIsPromised
<1>6. Loaded'
  BY <1>2, <1>4 DEF Loaded
<1>7. Sealing'
  BY <1>1, <1>2, <1>4 DEF Sealing
<1> QED BY <1>2, <1>5, <1>6, <1>7 DEF TextIsPromised, Backed

(* The text is removed only when all of it was sealed.                     *)
LEMMA EndKeeps == VaultInv /\ VaultTypeOK' /\ EndSealing => VaultInv'
<1> SUFFICES ASSUME VaultInv, VaultTypeOK', EndSealing PROVE VaultInv'
  OBVIOUS
<1> USE DEF VaultInv
<1>1. /\ UNCHANGED <<keyFile, sealed, vault, found, unsealed, archive, restored, promised>>
      /\ stage = "sealing" /\ found = {} /\ ~restored /\ vault.key # 0 /\ stage' = "up"
      /\ vault.key = keyFile
  BY DEF EndSealing, Sealing, Loaded
<1>2. CASE unsealed
  BY <1>1, <1>2 DEF EndSealing, SecretsAreKept, Held, Loaded, TextIsPromised, Sealing, Backed
<1>3. CASE ~unsealed
  <2>1. \A s \in Scopes : plain'[s] = 0
    BY <1>3 DEF EndSealing, Nothing
  <2>2. ASSUME NEW s \in Scopes, Promised(promised, s)
        PROVE  /\ vault.blobs[s] = Under(keyFile, promised[s])
               /\ Held(plain', keyFile, sealed, s, promised[s])
    <3>1. CASE plain[s] = 0
      BY <1>1, <2>2, <3>1 DEF Loaded, SecretsAreKept, Held, Promised
    <3>2. CASE plain[s] # 0
      <4>1. plain[s] = promised[s]
        BY <2>2, <3>2 DEF TextIsPromised, Promised
      <4>2. vault.blobs[s] = Under(keyFile, plain[s]) /\ sealed.whole /\ sealed.blobs[s] = vault.blobs[s]
        BY <1>1, <1>3, <3>2 DEF Sealing
      <4> QED BY <1>1, <4>1, <4>2 DEF Held, Under
    <3> QED BY <3>1, <3>2
  <2> QED
    BY <1>1, <2>1, <2>2 DEF SecretsAreKept, Loaded, TextIsPromised, Sealing, Backed, Promised
<1> QED BY <1>2, <1>3
(* What the user does to a secret.                                         *)
LEMMA DialogsKeep ==
  VaultInv /\ VaultTypeOK' /\ (SaveSecret \/ SavePaneSecret \/ ForgetHost) => VaultInv'
<1> SUFFICES ASSUME VaultInv, VaultTypeOK', SaveSecret \/ SavePaneSecret \/ ForgetHost
             PROVE  VaultInv'
  OBVIOUS
<1> USE VaultAssumption
<1>1. stage = "up" /\ UNCHANGED <<keyFile, stage, archive, restored>>
  BY DEF SaveSecret, SavePaneSecret, ForgetHost
<1>2. CASE SaveSecret
  <2>1. PICK s \in Scopes, secret \in 0..MaxSecrets, ok \in BOOLEAN :
          /\ IF vault.key = 0 THEN ~ok /\ UNCHANGED <<vault, sealed>> ELSE Put(s, secret, ok)
          /\ plain' = [plain EXCEPT ![s] = 0]
          /\ promised' = Promises(s, IF ok THEN secret ELSE 0)
    BY <1>2 DEF SaveSecret
  <2> DEFINE p == IF ok THEN secret ELSE 0
  <2>2. p \in 0..Forgotten /\ (p \in 1..MaxSecrets => ok /\ p = secret)
    BY DEF Forgotten
  <2>3. plain'[s] = 0 /\ \A t \in Scopes \ {s} : plain'[t] = plain[t]
    BY <2>1 DEF VaultInv, VaultTypeOK
  <2> HIDE DEF p
  <2> QED BY <1>1, <2>1, <2>2, <2>3, SaveKeeps DEF p
<1>3. CASE SavePaneSecret
  <2>1. PICK s \in Scopes, secret \in 0..MaxSecrets, ok \in BOOLEAN :
          /\ IF vault.key = 0 THEN ~ok /\ UNCHANGED <<vault, sealed>> ELSE Put(s, secret, ok)
          /\ promised' = Promises(s, IF ok /\ plain[s] = 0 THEN secret ELSE 0)
    BY <1>3 DEF SavePaneSecret
  <2> DEFINE p == IF ok /\ plain[s] = 0 THEN secret ELSE 0
  <2>2. p \in 0..Forgotten /\ (p \in 1..MaxSecrets => ok /\ p = secret /\ plain[s] = 0)
    BY DEF Forgotten
  <2>3. plain' = plain /\ (plain[s] # 0 => p = 0)
    BY <1>3 DEF SavePaneSecret
  <2> HIDE DEF p
  <2> QED BY <1>1, <2>1, <2>2, <2>3, SaveKeeps DEF p
<1>4. CASE ForgetHost
  <2>1. PICK s \in Scopes, ok \in BOOLEAN :
          /\ IF vault.key = 0 THEN ~ok /\ UNCHANGED <<vault, sealed>> ELSE Put(s, 0, ok)
          /\ plain' = [plain EXCEPT ![s] = 0]
          /\ promised' = Promises(s, Forgotten)
    BY <1>4 DEF ForgetHost
  <2>2. Forgotten \in 0..Forgotten /\ Forgotten \notin 1..MaxSecrets /\ 0 \in 0..MaxSecrets
    BY DEF Forgotten
  <2>3. plain'[s] = 0 /\ \A t \in Scopes \ {s} : plain'[t] = plain[t]
    BY <2>1 DEF VaultInv, VaultTypeOK
  <2> QED BY <1>1, <2>1, <2>2, <2>3, SaveKeeps
<1> QED BY <1>2, <1>3, <1>4

(* Saving a document gives up what was promised of its text.               *)
LEMMA DocumentKeeps == VaultInv /\ VaultTypeOK' /\ SaveDocument => VaultInv'
<1> SUFFICES ASSUME VaultInv, VaultTypeOK', SaveDocument PROVE VaultInv'
  OBVIOUS
<1> USE DEF VaultInv
<1>1. /\ UNCHANGED <<keyFile, sealed, vault, stage, archive, restored>> /\ stage = "up"
  BY DEF SaveDocument
<1>2. PICK s \in Scopes :
        /\ plain' = [plain EXCEPT ![s] = 0]
        /\ promised' = Promises(s, IF plain[s] = 0 THEN promised[s] ELSE 0)
  BY DEF SaveDocument
<1>3. plain'[s] = 0 /\ \A t \in Scopes \ {s} : plain'[t] = plain[t]
  BY <1>2 DEF VaultTypeOK
<1>4. \A t \in Scopes :
        promised'[t] = 0 \/ (~restored /\ promised'[t] = promised[t] /\ plain'[t] = plain[t])
  <2> DEFINE p == IF plain[s] = 0 THEN promised[s] ELSE 0
  <2>1. p = 0 \/ (p = promised[s] /\ plain'[s] = plain[s])
    BY <1>3
  <2>2. promised' = Promises(s, p)
    BY <1>2
  <2> HIDE DEF p
  <2>3. CASE restored
    BY <2>2, <2>3 DEF Promises, Nothing
  <2>4. CASE ~restored
    <3>1. promised' = [promised EXCEPT ![s] = p]
      BY <2>2, <2>4 DEF Promises
    <3>2. promised'[s] = p /\ \A t \in Scopes \ {s} : promised'[t] = promised[t]
      BY <3>1 DEF VaultTypeOK
    <3> QED BY <1>3, <2>1, <2>4, <3>2
  <2> QED BY <2>3, <2>4
<1>5. SecretsAreKept'
  BY <1>1, <1>4 DEF SecretsAreKept, Held
<1>6. Loaded'
  BY <1>1, <1>4 DEF Loaded, Promised
<1>7. TextIsPromised'
  BY <1>4 DEF TextIsPromised
<1> QED BY <1>1, <1>5, <1>6, <1>7 DEF Sealing, Backed

(* A backup is made of what holds the promises.                            *)
LEMMA ExportKeeps == VaultInv /\ VaultTypeOK' /\ ExportBackup => VaultInv'
<1> SUFFICES ASSUME VaultInv, VaultTypeOK', ExportBackup PROVE VaultInv'
  OBVIOUS
<1> USE DEF VaultInv
<1>1. /\ UNCHANGED <<keyFile, sealed, plain, vault, stage, restored, promised>>
      /\ stage = "up" /\ keyFile # 0
      /\ archive' = [key |-> keyFile, sealed |-> sealed, promised |-> promised]
  BY DEF ExportBackup, disk
<1>2. \A s \in Scopes : plain[s] = 0
  BY DEF ExportBackup, Nothing
<1>3. Backed'
  BY <1>1, <1>2 DEF Backed, SecretsAreKept, Held, Promised, Under
<1> QED BY <1>1, <1>3 DEF SecretsAreKept, Held, Loaded, TextIsPromised, Sealing

(* A complete restore brings back what the backup promised, and a stopped  *)
(* one promises nothing.                                                   *)
LEMMA ImportKeeps == VaultInv /\ VaultTypeOK' /\ ImportBackup => VaultInv'
<1> SUFFICES ASSUME VaultInv, VaultTypeOK', ImportBackup PROVE VaultInv'
  OBVIOUS
<1> USE DEF VaultInv
<1>1. /\ UNCHANGED <<vault, stage, archive>> /\ stage = "up" /\ restored' /\ archive.key # 0
  BY DEF ImportBackup
<1>2. \/ \A s \in Scopes : promised'[s] = 0
      \/ /\ promised' = archive.promised /\ keyFile' = archive.key
         /\ \A s \in Scopes : plain'[s] = 0
         /\ \/ sealed' = archive.sealed
            \/ archive.sealed.blobs = NoBlobs
  BY DEF ImportBackup, Nothing
<1>3. ASSUME NEW s \in Scopes, Promised(promised', s)
      PROVE  Held(plain', keyFile', sealed', s, promised'[s])
  <2>1. /\ promised' = archive.promised /\ keyFile' = archive.key
        /\ sealed' = archive.sealed \/ archive.sealed.blobs = NoBlobs
    BY <1>2, <1>3 DEF Promised
  <2>2. /\ archive.sealed.whole
        /\ archive.sealed.blobs[s] = Under(archive.key, archive.promised[s])
    BY <1>1, <1>3, <2>1 DEF Backed, Promised
  <2>3. archive.sealed.blobs # NoBlobs
    BY <1>1, <2>2 DEF NoBlobs, NoBlob, Under
  <2> QED BY <1>1, <2>1, <2>2, <2>3 DEF Held, Under
<1>4. TextIsPromised'
  BY <1>2 DEF TextIsPromised
<1> QED BY <1>1, <1>3, <1>4 DEF SecretsAreKept, Promised, Loaded, Sealing, Backed

(* The end of the program takes what was only in memory.                   *)
LEMMA DyingKeeps == VaultInv /\ VaultTypeOK' /\ VaultDies => VaultInv'
BY DEF VaultInv, VaultDies, disk, Unavailable, SecretsAreKept, Held, Loaded, TextIsPromised, Sealing, Backed

(* A step that leaves the vault alone keeps its invariant.                 *)
LEMMA NothingChanges == VaultInv /\ VaultTypeOK' /\ UNCHANGED vaultVars => VaultInv'
BY DEF VaultInv, vaultVars, SecretsAreKept, Held, Loaded, TextIsPromised, Sealing, Backed, Promised

(* VaultInv is inductive.                                                  *)
LEMMA StepKeeps == VaultInv /\ [VaultNext]_vaultVars => VaultInv'
<1> SUFFICES ASSUME VaultInv, [VaultNext]_vaultVars PROVE VaultInv'
  OBVIOUS
<1>1. VaultTypeOK'
  BY TypeStep DEF VaultInv
<1> QED
  BY <1>1, OpenKeeps, SealKeeps, EndKeeps, DyingKeeps, DialogsKeep, DocumentKeeps, ExportKeeps,
     ImportKeeps, NothingChanges
  DEF VaultNext

(* For any scopes, secrets and keys: no failing read or write of the vault *)
(* (secrets.rs), no migration that stops half way, and no complete restore *)
(* loses a secret the user was left to believe is saved.                   *)
THEOREM SecretsKept == VaultSpec => []SecretsAreKept
<1>1. VaultInv => SecretsAreKept
  BY DEF VaultInv
<1> QED BY <1>1, InitKeeps, StepKeeps, PTL DEF VaultSpec

-----------------------------------------------------------------------------
(* The tabs.                                                               *)

Tab == [id : 1..MaxId, who : Nat]

SavedTab == [id : 1..MaxId, who : Nat, active : BOOLEAN]

Unique(s) == \A i, j \in DOMAIN s : i # j => s[i].id # s[j].id

Below(s, n) == \A i \in DOMAIN s : s[i].id < n

TabInv ==
  /\ next_id \in 1..(MaxId + 1) /\ opened \in Nat
  /\ sessions \in Seq(Tab) /\ tabs \in Seq(SavedTab)
  /\ Below(sessions, next_id)
  /\ Unique(sessions) /\ Unique(tabs)
  /\ TabsAreSaved

-----------------------------------------------------------------------------
(* Lists.                                                                  *)

(* Two lists one after the other.                                          *)
LEMMA ConcatElements ==
  ASSUME NEW S, NEW s \in Seq(S), NEW t \in Seq(S)
  PROVE  /\ s \o t \in Seq(S)
         /\ Len(s \o t) = Len(s) + Len(t)
         /\ \A j \in 1..Len(s) : (s \o t)[j] = s[j]
         /\ \A j \in 1..Len(t) : (s \o t)[Len(s) + j] = t[j]
OBVIOUS

Removed(s, i) == SubSeq(s, 1, i - 1) \o SubSeq(s, i + 1, Len(s))

(* A list without one of its places.                                       *)
LEMMA RemovedElements ==
  ASSUME NEW S, NEW s \in Seq(S), NEW i \in 1..Len(s)
  PROVE  /\ Removed(s, i) \in Seq(S)
         /\ Len(Removed(s, i)) = Len(s) - 1
         /\ \A j \in 1..(Len(s) - 1) : Removed(s, i)[j] = IF j < i THEN s[j] ELSE s[j + 1]
<1> DEFINE a == SubSeq(s, 1, i - 1)
           b == SubSeq(s, i + 1, Len(s))
<1>1. /\ a \in Seq(S) /\ Len(a) = i - 1
      /\ \A j \in 1..(i - 1) : a[j] = s[j]
  OBVIOUS
<1>2. /\ b \in Seq(S) /\ Len(b) = Len(s) - i
      /\ \A j \in 1..(Len(s) - i) : b[j] = s[i + j]
  OBVIOUS
<1>3. Removed(s, i) = a \o b
  BY DEF Removed
<1> HIDE DEF a, b
<1>4. a \o b \in Seq(S) /\ Len(a \o b) = Len(s) - 1
  <2>1. a \o b \in Seq(S) /\ Len(a \o b) = Len(a) + Len(b)
    BY <1>1, <1>2, ConcatElements, Zenon
  <2> QED
    BY <1>1, <1>2, <2>1
<1>5. ASSUME NEW j \in 1..(Len(s) - 1)
      PROVE  (a \o b)[j] = IF j < i THEN s[j] ELSE s[j + 1]
  <2>1. CASE j < i
    BY <1>1, <1>2, <2>1
  <2>2. CASE ~(j < i)
    <3>1. (a \o b)[j] = b[j - (i - 1)] /\ j - (i - 1) \in 1..(Len(s) - i)
      BY <1>1, <1>2, <2>2
    <3>2. b[j - (i - 1)] = s[i + (j - (i - 1))] /\ i + (j - (i - 1)) = j + 1
      BY <1>2, <3>1
    <3> QED
      BY <2>2, <3>1, <3>2
  <2> QED
    BY <2>1, <2>2
<1> QED
  BY <1>3, <1>4, <1>5

(* A list with an element more.                                            *)
LEMMA InsertedElements ==
  ASSUME NEW S, NEW s \in Seq(S), NEW x \in S, NEW i \in 1..(Len(s) + 1)
  PROVE  /\ Inserted(s, i, x) \in Seq(S)
         /\ Len(Inserted(s, i, x)) = Len(s) + 1
         /\ \A j \in 1..(Len(s) + 1) :
              Inserted(s, i, x)[j] = IF j < i THEN s[j] ELSE IF j = i THEN x ELSE s[j - 1]
<1> DEFINE a == SubSeq(s, 1, i - 1)
           b == SubSeq(s, i, Len(s))
           c == a \o <<x>>
<1>1. /\ a \in Seq(S) /\ Len(a) = i - 1
      /\ \A j \in 1..(i - 1) : a[j] = s[j]
  OBVIOUS
<1>2. /\ b \in Seq(S) /\ Len(b) = Len(s) - i + 1
      /\ \A j \in 1..(Len(s) - i + 1) : b[j] = s[i - 1 + j]
  OBVIOUS
<1>3. Inserted(s, i, x) = c \o b
  BY DEF Inserted
<1> HIDE DEF a, b
<1>4. /\ c \in Seq(S) /\ Len(c) = i /\ c[i] = x
      /\ \A j \in 1..(i - 1) : c[j] = s[j]
  BY <1>1
<1> HIDE DEF c
<1>5. c \o b \in Seq(S) /\ Len(c \o b) = Len(s) + 1
  <2>1. c \o b \in Seq(S) /\ Len(c \o b) = Len(c) + Len(b)
    BY <1>2, <1>4, ConcatElements, Zenon
  <2> QED
    BY <1>2, <1>4, <2>1
<1>6. ASSUME NEW j \in 1..(Len(s) + 1)
      PROVE  (c \o b)[j] = IF j < i THEN s[j] ELSE IF j = i THEN x ELSE s[j - 1]
  <2>1. CASE j <= i
    <3>1. j \in 1..Len(c)
      BY <1>4, <2>1
    <3>2. c \in Seq(S) /\ b \in Seq(S)
      BY <1>2, <1>4
    <3>3. \A l \in 1..Len(c) : (c \o b)[l] = c[l]
      BY <3>2, ConcatElements, Zenon
    <3> QED
      BY <1>4, <2>1, <3>1, <3>3
  <2>2. CASE j > i
    <3>1. (c \o b)[j] = b[j - i] /\ j - i \in 1..(Len(s) - i + 1)
      BY <1>2, <1>4, <2>2
    <3>2. b[j - i] = s[i - 1 + (j - i)] /\ i - 1 + (j - i) = j - 1
      BY <1>2, <3>1
    <3> QED
      BY <2>2, <3>1, <3>2
  <2>3. j <= i \/ j > i
    OBVIOUS
  <2> QED
    BY <2>1, <2>2, <2>3, Zenon
<1> QED
  BY <1>3, <1>5, <1>6

(* The counter after a restart is above every tab that comes back.         *)
LEMMA ClearOfIsAbove ==
  ASSUME NEW ids \in SUBSET (1..MaxId)
  PROVE  ClearOf(ids) \in 1..(MaxId + 1) /\ \A id \in ids : id < ClearOf(ids)
<1> DEFINE above == {n \in Nat : n > 0 /\ \A id \in ids : id < n}
<1>1. MaxId \in Nat
  BY ShellAssumption
<1>2. MaxId + 1 \in above
  BY <1>1
<1>3. PICK n \in above : \A m \in above : ~(<<m, n>> \in OpToRel(<, Nat))
  <2>1. above \subseteq Nat /\ above # {}
    BY <1>2
  <2> HIDE DEF above
  <2> QED
    BY <2>1, NatLessThanWellFounded, WFMin
<1>4. \A m \in above : n <= m
  <2>1. \A m \in above : ~(m < n)
    BY <1>3, Zenon DEF OpToRel
  <2> QED
    BY <2>1
<1>5. n \in 1..(MaxId + 1)
  BY <1>1, <1>2, <1>4
<1>6. n = 1 \/ n - 1 \in ids
  BY <1>4
<1>7. \E m \in 1..(MaxId + 1) : (\A id \in ids : id < m) /\ (m = 1 \/ m - 1 \in ids)
  BY <1>5, <1>6
<1> QED
  BY <1>7 DEF ClearOf
-----------------------------------------------------------------------------

(* The tabs of a list, and of a saved one.                                 *)
LEMMA TabElements ==
  ASSUME NEW s \in Seq(Tab), NEW i \in DOMAIN s
  PROVE  /\ s[i] \in Tab /\ s[i].id \in 1..MaxId /\ s[i].who \in Nat
         /\ s[i] = [id |-> s[i].id, who |-> s[i].who]
<1>1. s[i] \in Tab
  OBVIOUS
<1> QED
  BY <1>1 DEF Tab

(* What is saved of a tab has a number, and knows what the tab is for.     *)
LEMMA SavedElements ==
  ASSUME NEW s \in Seq(SavedTab), NEW i \in DOMAIN s
  PROVE  s[i].id \in 1..MaxId /\ s[i].who \in Nat
<1>1. s[i] \in SavedTab
  OBVIOUS
<1> QED
  BY <1>1 DEF SavedTab

(* A list of tabs with ids of its own that are below the counter.          *)
Proper(s, n) == s \in Seq(Tab) /\ Unique(s) /\ Below(s, n)

(* A save of the tabs as they are leaves the invariant to the tabs.        *)
LEMMA SavedTabs ==
  ASSUME Proper(sessions', next_id'), PersistTabs,
         next_id' \in 1..(MaxId + 1), opened' \in Nat
  PROVE  TabInv'
<1>1. sessions' \in Seq(Tab)
  BY DEF Proper
<1>2. /\ tabs' \in Seq(SavedTab) /\ DOMAIN tabs' = DOMAIN sessions'
      /\ \A i \in DOMAIN sessions' : tabs'[i].id = sessions'[i].id
      /\ \A i \in DOMAIN sessions' : tabs'[i].who = sessions'[i].who
  <2>1. \A i \in DOMAIN sessions' :
          [id |-> sessions'[i].id, who |-> sessions'[i].who, active |-> active' = i] \in SavedTab
    <3>1. ASSUME NEW i \in DOMAIN sessions', NEW b \in BOOLEAN
          PROVE  [id |-> sessions'[i].id, who |-> sessions'[i].who, active |-> b] \in SavedTab
      <4>1. sessions'[i].id \in 1..MaxId /\ sessions'[i].who \in Nat
        BY <1>1, TabElements, Zenon
      <4> QED
        BY <4>1, Zenon DEF SavedTab
    <3>2. \A i : (active' = i) \in BOOLEAN
      OBVIOUS
    <3> QED
      BY <3>1, <3>2, Zenon
  <2> QED
    BY <1>1, <2>1 DEF PersistTabs
<1>3. Unique(tabs')
  BY <1>2 DEF Proper, Unique
<1>4. TabsAreSaved'
  <2>1. \A i \in DOMAIN sessions' :
          sessions'[i] = [id |-> sessions'[i].id, who |-> sessions'[i].who]
    BY <1>1, TabElements, Zenon
  <2>2. Restored' = sessions'
    BY <1>1, <1>2, <2>1 DEF Restored
  <2> QED
    BY <2>2 DEF TabsAreSaved
<1> QED
  BY <1>1, <1>2, <1>3, <1>4 DEF TabInv, Proper, Unique, Below

(* Closing a tab takes its id away and leaves the others.                  *)
LEMMA CloseKeepsProper ==
  ASSUME NEW s \in Seq(Tab), NEW n, Proper(s, n), NEW i \in DOMAIN s
  PROVE  Proper(Removed(s, i), n)
<1> DEFINE r == Removed(s, i)
<1>1. /\ r \in Seq(Tab) /\ Len(r) = Len(s) - 1
      /\ \A j \in 1..(Len(s) - 1) : r[j] = IF j < i THEN s[j] ELSE s[j + 1]
  BY RemovedElements
<1> HIDE DEF r
<1>2. Below(r, n)
  BY <1>1 DEF Proper, Below
<1>3. Unique(r)
  <2> SUFFICES ASSUME NEW j \in DOMAIN r, NEW k \in DOMAIN r, j # k
               PROVE  r[j].id # r[k].id
    BY DEF Unique
  <2> DEFINE from(l) == IF l < i THEN l ELSE l + 1
  <2>1. j \in 1..(Len(s) - 1) /\ k \in 1..(Len(s) - 1)
    BY <1>1
  <2>2. r[j] = s[from(j)] /\ r[k] = s[from(k)]
    BY <1>1, <2>1
  <2>3. from(j) \in DOMAIN s /\ from(k) \in DOMAIN s /\ from(j) # from(k)
    BY <2>1
  <2> HIDE DEF from
  <2>4. s[from(j)].id # s[from(k)].id
    BY <2>3, Zenon DEF Proper, Unique
  <2> QED
    BY <2>2, <2>4
<1> QED
  BY <1>1, <1>2, <1>3 DEF Proper, r

(* A tab with an id that is not in the list may go anywhere in it.         *)
LEMMA InsertKeepsProper ==
  ASSUME NEW s \in Seq(Tab), NEW n, Proper(s, n), NEW t \in Tab, t.id < n,
         \A k \in DOMAIN s : s[k].id # t.id,
         NEW i \in 1..(Len(s) + 1)
  PROVE  Proper(Inserted(s, i, t), n)
<1> DEFINE r == Inserted(s, i, t)
<1>1. /\ r \in Seq(Tab) /\ Len(r) = Len(s) + 1
      /\ \A j \in 1..(Len(s) + 1) :
           r[j] = IF j < i THEN s[j] ELSE IF j = i THEN t ELSE s[j - 1]
  BY InsertedElements
<1> HIDE DEF r
<1>2. Below(r, n)
  BY <1>1 DEF Proper, Below
<1>3. Unique(r)
  <2> SUFFICES ASSUME NEW j \in DOMAIN r, NEW k \in DOMAIN r, j < k
               PROVE  r[j].id # r[k].id
    BY <1>1 DEF Unique
  <2> DEFINE from(l) == IF l < i THEN l ELSE l - 1
  <2>1. j \in 1..(Len(s) + 1) /\ k \in 1..(Len(s) + 1)
    BY <1>1
  <2>2. CASE j = i
    <3>1. r[j] = t /\ r[k] = s[k - 1] /\ k - 1 \in DOMAIN s
      BY <1>1, <2>1, <2>2
    <3> QED
      BY <3>1
  <2>3. CASE k = i
    <3>1. r[k] = t /\ r[j] = s[j] /\ j \in DOMAIN s
      BY <1>1, <2>1, <2>3
    <3> QED
      BY <3>1
  <2>4. CASE j # i /\ k # i
    <3>1. r[j] = s[from(j)] /\ r[k] = s[from(k)]
      BY <1>1, <2>1, <2>4
    <3>2. from(j) \in DOMAIN s /\ from(k) \in DOMAIN s /\ from(j) # from(k)
      BY <2>1, <2>4
    <3> HIDE DEF from
    <3>3. s[from(j)].id # s[from(k)].id
      BY <3>2, Zenon DEF Proper, Unique
    <3> QED
      BY <3>1, <3>3
  <2> QED
    BY <2>2, <2>3, <2>4
<1> QED
  BY <1>1, <1>2, <1>3 DEF Proper, r

(* The place a dragged tab leaves has its id no more.                      *)
LEMMA MoveKeepsProper ==
  ASSUME NEW s \in Seq(Tab), NEW n, Proper(s, n), NEW i \in DOMAIN s, NEW j \in DOMAIN s
  PROVE  Proper(Inserted(Removed(s, i), j, s[i]), n)
<1> DEFINE r == Removed(s, i)
<1>1. /\ r \in Seq(Tab) /\ Len(r) = Len(s) - 1
      /\ \A k \in 1..(Len(s) - 1) : r[k] = IF k < i THEN s[k] ELSE s[k + 1]
  <2>1. i \in 1..Len(s)
    OBVIOUS
  <2> QED
    BY <2>1, RemovedElements, Zenon
<1>2. Proper(r, n)
  BY CloseKeepsProper
<1> HIDE DEF r
<1>3. \A k \in DOMAIN r : r[k].id # s[i].id
  <2> SUFFICES ASSUME NEW k \in DOMAIN r
               PROVE  r[k].id # s[i].id
    OBVIOUS
  <2> DEFINE l == IF k < i THEN k ELSE k + 1
  <2>1. k \in 1..(Len(s) - 1)
    BY <1>1
  <2>2. l \in DOMAIN s /\ l # i /\ r[k] = s[l]
    BY <1>1, <2>1
  <2> HIDE DEF l
  <2>3. s[l].id # s[i].id
    BY <2>2, Zenon DEF Proper, Unique
  <2> QED
    BY <2>2, <2>3
<1>4. s[i] \in Tab /\ s[i].id < n
  BY DEF Proper, Below
<1>5. j \in 1..(Len(r) + 1)
  BY <1>1
<1> QED
  BY <1>1, <1>2, <1>3, <1>4, <1>5, InsertKeepsProper DEF r

-----------------------------------------------------------------------------

(* Whatever happens to hosts, tabs and the program, the tabs stay in order.*)
LEMMA NextKeepsTabs ==
  ASSUME TabInv, [ShellNext]_shellVars
  PROVE  TabInv'
<1> USE ShellAssumption
<1>1. Proper(sessions, next_id) /\ sessions \in Seq(Tab) /\ next_id \in Nat
  BY DEF TabInv, Proper
<1>2. CASE HostStep
  <2>1. UNCHANGED <<sessions, tabs, opened>>
    BY <1>2 DEF HostStep, MakeHost, NewHost, SaveAsHost, EditHost, DuplicateHost, DeleteHost,
                MoveHost, NewGroup, DeleteGroup, tabVars
  <2>2. next_id' \in 1..(MaxId + 1) /\ next_id <= next_id'
    <3>1. CASE DuplicateHost
      <4>1. PICK id \in next_id..MaxId : next_id' = id + 1
        BY <3>1 DEF DuplicateHost
      <4> QED
        BY <4>1, <1>1 DEF TabInv
    <3>2. CASE NewGroup
      BY <3>2 DEF NewGroup, TabInv
    <3>3. CASE UNCHANGED next_id
      BY <3>3 DEF TabInv
    <3> QED
      BY <1>2, <3>1, <3>2, <3>3 
      DEF HostStep, MakeHost, NewHost, SaveAsHost, EditHost, DeleteHost, MoveHost, DeleteGroup
  <2>3. Below(sessions, next_id')
    <3> SUFFICES ASSUME NEW i \in DOMAIN sessions
                 PROVE  sessions[i].id < next_id'
      BY DEF Below
    <3>1. sessions[i].id \in 1..MaxId /\ sessions[i].id < next_id
      BY <1>1, TabElements, Zenon DEF Proper, Below
    <3> QED
      BY <1>1, <2>2, <3>1
  <2> QED
    BY <2>1, <2>2, <2>3 DEF TabInv, Unique, Below, TabsAreSaved, Restored
<1>3. CASE OpenTab
  <2> DEFINE t == [id |-> next_id, who |-> opened + 1]
  <2>1. t \in Tab /\ next_id' = next_id + 1 /\ next_id' \in 1..(MaxId + 1)
    BY <1>1, <1>3 DEF OpenTab, TabInv, Tab
  <2>2. sessions' = Append(sessions, t) /\ opened' \in Nat
    BY <1>3 DEF OpenTab, TabInv
  <2>3. /\ sessions' \in Seq(Tab) /\ Len(sessions') = Len(sessions) + 1
        /\ sessions'[Len(sessions) + 1] = t
        /\ \A i \in 1..Len(sessions) : sessions'[i] = sessions[i]
    BY <1>1, <2>1, <2>2
  <2>4. t.id = next_id
    OBVIOUS
  <2> HIDE DEF t
  <2>5. Below(sessions', next_id')
    <3> SUFFICES ASSUME NEW i \in DOMAIN sessions'
                 PROVE  sessions'[i].id < next_id'
      BY DEF Below
    <3>1. CASE i \in DOMAIN sessions
      <4>1. sessions[i].id \in 1..MaxId /\ sessions[i].id < next_id
        BY <1>1, <3>1, TabElements, Zenon DEF Proper, Below
      <4>2. sessions'[i] = sessions[i]
        BY <1>1, <2>3, <3>1
      <4> QED
        BY <1>1, <2>1, <4>1, <4>2
    <3>2. CASE i = Len(sessions) + 1
      BY <1>1, <2>1, <2>3, <2>4, <3>2
    <3> QED
      BY <1>1, <2>3, <3>1, <3>2
  <2>6. Unique(sessions')
    <3>1. ASSUME NEW i \in DOMAIN sessions
          PROVE  /\ sessions'[i] = sessions[i]
                 /\ sessions[i].id # sessions'[Len(sessions) + 1].id
      <4>1. sessions[i].id \in 1..MaxId /\ sessions[i].id < next_id
        BY <1>1, TabElements, Zenon DEF Proper, Below
      <4> QED
        BY <1>1, <2>3, <2>4, <4>1
    <3>2. \A i, j \in DOMAIN sessions : i # j => sessions'[i].id # sessions'[j].id
      BY <1>1, <3>1, Zenon DEF Proper, Unique
    <3>3. \A i \in DOMAIN sessions' : i \in DOMAIN sessions \/ i = Len(sessions) + 1
      BY <1>1, <2>3
    <3> QED
      BY <3>1, <3>2, <3>3, Zenon DEF Unique
  <2> QED
    BY <1>3, <2>1, <2>2, <2>3, <2>5, <2>6, SavedTabs DEF OpenTab, Proper
<1>4. CASE Close
  <2>1. PICK i \in DOMAIN sessions : sessions' = Removed(sessions, i)
    BY <1>4 DEF Close, Places, Removed
  <2>2. next_id' = next_id /\ opened' = opened /\ PersistTabs
    BY <1>4 DEF Close
  <2> QED
    BY <1>1, <2>1, <2>2, CloseKeepsProper, SavedTabs DEF TabInv
<1>5. CASE Select
  BY <1>1, <1>5, SavedTabs DEF Select, TabInv
<1>6. CASE Reorder
  <2>1. PICK i \in DOMAIN sessions, j \in DOMAIN sessions :
          sessions' = Inserted(Removed(sessions, i), j, sessions[i])
    BY <1>6 DEF Reorder, Places, Removed
  <2>2. next_id' = next_id /\ opened' = opened /\ PersistTabs
    BY <1>6 DEF Reorder
  <2> QED
    BY <1>1, <2>1, <2>2, MoveKeepsProper, SavedTabs DEF TabInv
<1>7. CASE EditTab \/ Show \/ StoreData \/ UNCHANGED shellVars
  BY <1>7 DEF EditTab, Show, StoreData, shellVars, TabInv, Unique, Below, TabsAreSaved, Restored
<1>8. CASE Restart
  <2>1. tabs' = tabs /\ opened' = opened
    BY <1>8 DEF Restart
  <2>2. CASE sessions' = Restored /\ next_id' = ClearOf({tabs[i].id : i \in DOMAIN tabs})
    <3> DEFINE ids == {tabs[i].id : i \in DOMAIN tabs}
    <3>1. ids \in SUBSET (1..MaxId)
      BY SavedElements, Zenon DEF TabInv
    <3>2. next_id' \in 1..(MaxId + 1) /\ \A id \in ids : id < next_id'
      BY <2>2, <3>1, ClearOfIsAbove
    <3>3. /\ Restored \in Seq(Tab) /\ DOMAIN Restored = DOMAIN tabs
          /\ \A i \in DOMAIN tabs : Restored[i].id = tabs[i].id
      <4>1. \A i \in DOMAIN tabs : [id |-> tabs[i].id, who |-> tabs[i].who] \in Tab
        BY SavedElements, Zenon DEF TabInv, Tab
      <4> QED
        BY <4>1 DEF TabInv, Restored
    <3>4. Unique(Restored) /\ Below(Restored, next_id')
      BY <3>2, <3>3 DEF TabInv, Unique, Below
    <3>5. Restored' = Restored
      BY <2>1 DEF Restored
    <3> QED
      BY <2>1, <2>2, <3>2, <3>3, <3>4, <3>5 DEF TabInv, TabsAreSaved, Unique, Below
  <2>3. CASE sessions' = << >> /\ next_id' = 1
    BY <2>1, <2>3 DEF TabInv, TabsAreSaved, Unique, Below
  <2> QED
    BY <1>8, <2>2, <2>3 DEF Restart
<1> QED
  BY <1>2, <1>3, <1>4, <1>5, <1>6, <1>7, <1>8 DEF ShellNext, TabStep

(* The invariant of the tab strip.                                         *)
LEMMA TabsHold == ShellSpec => []TabInv
<1>1. ShellInit => TabInv
  BY ShellAssumption DEF ShellInit, TabInv, Unique, Below, TabsAreSaved
<1>2. TabInv /\ [ShellNext]_shellVars => TabInv'
  BY NextKeepsTabs
<1> QED
  BY <1>1, <1>2, PTL DEF ShellSpec

(* No two open tabs ever have one id, through any opening, closing,        *)
(* dragging and restoring of tabs and any host and group made in between.  *)
THEOREM TabsAreUnique == ShellSpec => []TabIdsAreUnique
<1>1. TabInv => TabIdsAreUnique
  BY DEF TabInv, Unique, TabIdsAreUnique
<1> QED
  BY <1>1, TabsHold, PTL

(* tabs.json lists the open tabs in their order at every moment, so a      *)
(* crash loses none of them.                                               *)
THEOREM TabsAreKept == ShellSpec => []TabsAreSaved
<1>1. TabInv => TabsAreSaved
  BY DEF TabInv
<1> QED
  BY <1>1, TabsHold, PTL
-----------------------------------------------------------------------------
(* The hosts document.                                                     *)

Rec == [id : 0..MaxId, who : 0..MaxItems, group : 0..MaxId, jump : 0..MaxId]

(* What hosts there are, whatever their order.                             *)
Ids(M) == {h.id : h \in M}

FreeIds(M) == {h.id : h \in {x \in M : x.group = NoGroup}}

(* What is in a list is of its type.                                       *)
LEMMA ElementsIn ==
  ASSUME NEW T, NEW s \in Seq(T)
  PROVE  Elements(s) \subseteq T
BY DEF Elements

(* The places of a list that are kept, and what stands there.              *)
LEMMA KeptPlaces ==
  ASSUME NEW T, NEW s \in Seq(T), NEW P \in SUBSET DOMAIN s
  PROVE  /\ Kept(s, P) \in Seq(T)
         /\ Elements(Kept(s, P)) = {s[i] : i \in P}
         /\ Distinct(s) => Distinct(Kept(s, P))
         /\ P = DOMAIN s => Kept(s, P) = s
<1>1. PICK n \in Nat : n = Len(s) /\ DOMAIN s = 1..n
  OBVIOUS
<1>2. PICK idx \in Seq(1..n) : /\ idx = [i \in DOMAIN s |-> i]
                               /\ Len(idx) = n /\ \A i \in 1..n : idx[i] = i
  <2>1. [i \in 1..n |-> i] \in Seq(1..n)
    OBVIOUS
  <2>2. [i \in DOMAIN s |-> i] = [i \in 1..n |-> i]
    BY <1>1
  <2>3. PICK idx \in Seq(1..n) : idx = [i \in 1..n |-> i]
    BY <2>1
  <2>4. DOMAIN idx = 1..n /\ \A i \in 1..n : idx[i] = i
    BY <2>3
  <2>5. Len(idx) = n
    BY <2>4
  <2> QED
    BY <2>2, <2>3, <2>4, <2>5
<1>3. Elements(idx) = 1..n /\ Distinct(idx)
  BY <1>2 DEF Elements, Distinct
<1>4. PICK places : places = Only(idx, P)
  OBVIOUS
<1>5. places \in Seq(1..n) /\ Elements(places) = P
  <2>1. Only(idx, P) \in Seq(1..n) /\ Elements(Only(idx, P)) = Elements(idx) \cap P
    BY OnlyKeeps
  <2>2. (1..n) \cap P = P
    BY <1>1
  <2> QED
    BY <1>3, <1>4, <2>1, <2>2
<1>6. Distinct(places)
  BY <1>3, <1>4, OnlyDistinct
<1>7. PICK m \in Nat : m = Len(places) /\ DOMAIN places = 1..m /\ \A k \in 1..m : places[k] \in 1..n
  <2>1. places \in Seq(1..n)
    BY <1>5
  <2>2. PICK m \in Nat : m = Len(places) /\ DOMAIN places = 1..m
    BY <2>1
  <2>3. \A k \in DOMAIN places : places[k] \in 1..n
    BY <2>1
  <2> QED
    BY <2>2, <2>3
<1>8. PICK chosen : chosen = Kept(s, P)
  OBVIOUS
<1>9. chosen = [k \in 1..m |-> s[places[k]]]
  BY <1>2, <1>4, <1>7, <1>8 DEF Kept
<1>10. chosen \in Seq(T) /\ DOMAIN chosen = 1..m /\ Len(chosen) = m
  <2>1. \A k \in 1..m : s[places[k]] \in T
    BY <1>1, <1>7
  <2> QED
    BY <1>9, <2>1
<1>11. Elements(chosen) = {s[i] : i \in P}
  <2>1. Elements(chosen) = {s[places[k]] : k \in 1..m}
    BY <1>9, <1>10 DEF Elements
  <2>2. P = {places[k] : k \in 1..m}
    BY <1>5, <1>7 DEF Elements
  <2> QED
    BY <2>1, <2>2
<1>12. Distinct(s) => Distinct(chosen)
  <2> SUFFICES ASSUME Distinct(s), NEW i \in 1..m, NEW j \in 1..m, chosen[i] = chosen[j] PROVE i = j
    BY <1>10 DEF Distinct
  <2>1. chosen[i] = s[places[i]] /\ chosen[j] = s[places[j]]
    BY <1>9
  <2>2. places[i] \in 1..n /\ places[j] \in 1..n
    BY <1>7
  <2>3. places[i] = places[j]
    BY <1>1, <2>1, <2>2 DEF Distinct
  <2> QED
    BY <1>6, <1>7, <2>3 DEF Distinct
<1>13. P = DOMAIN s => chosen = s
  <2> SUFFICES ASSUME P = 1..n PROVE chosen = s
    BY <1>1
  <2>1. places = idx
    BY <1>2, <1>3, <1>4, OnlyAll
  <2>2. m = n /\ \A k \in 1..n : chosen[k] = s[k]
    BY <1>2, <1>7, <1>9, <2>1
  <2> QED
    BY <1>1, <1>10, <2>2
<1> QED
  BY <1>8, <1>10, <1>11, <1>12, <1>13

(* What stands in a list stands there a first time.                        *)
LEMMA FirstOnes ==
  ASSUME NEW T, NEW s \in Seq(T)
  PROVE  /\ Kept(s, FirstPlaces(s)) \in Seq(T)
         /\ Elements(Kept(s, FirstPlaces(s))) = Elements(s)
<1>1. FirstPlaces(s) \in SUBSET DOMAIN s
  BY DEF FirstPlaces
<1>2. PICK n \in Nat : n = Len(s) /\ DOMAIN s = 1..n
  OBVIOUS
<1>3. ASSUME NEW x \in Elements(s) PROVE \E i \in FirstPlaces(s) : s[i] = x
  <2> DEFINE S == {i \in 1..n : s[i] = x}
  <2>1. S \in SUBSET Nat /\ S # {}
    BY <1>2 DEF Elements
  <2>2. PICK i \in S : \A j \in S : i <= j
    BY <2>1, SmallestOf
  <2>3. i \in 1..n /\ s[i] = x
    BY <2>2
  <2>4. \A j \in 1..i - 1 : s[j] # s[i]
    BY <2>2, <2>3
  <2> QED
    BY <1>2, <2>3, <2>4 DEF FirstPlaces
<1>4. {s[i] : i \in FirstPlaces(s)} = Elements(s)
  BY <1>1, <1>3 DEF Elements
<1> QED
  BY <1>1, <1>4, KeptPlaces

(* The ids of a list of hosts, in their order.                             *)
LEMMA IdListType ==
  ASSUME NEW hs \in Seq(Rec)
  PROVE  /\ IdList(hs) \in Seq(0..MaxId) /\ DOMAIN IdList(hs) = DOMAIN hs
         /\ \A i \in DOMAIN hs : IdList(hs)[i] = hs[i].id
         /\ Elements(IdList(hs)) = Ids(Elements(hs))
<1>1. PICK n \in Nat : n = Len(hs) /\ DOMAIN hs = 1..n /\ \A i \in 1..n : hs[i] \in Rec
  OBVIOUS
<1>2. \A i \in 1..n : hs[i].id \in 0..MaxId
  BY <1>1 DEF Rec
<1>3. PICK ids \in Seq(0..MaxId) : /\ ids = IdList(hs)
                                   /\ DOMAIN ids = 1..n /\ \A i \in 1..n : ids[i] = hs[i].id
  <2>1. [i \in 1..n |-> hs[i].id] \in Seq(0..MaxId)
    BY <1>2
  <2>2. IdList(hs) = [i \in 1..n |-> hs[i].id]
    BY <1>1 DEF IdList
  <2>3. PICK ids \in Seq(0..MaxId) : ids = [i \in 1..n |-> hs[i].id]
    BY <2>1
  <2> QED
    BY <2>2, <2>3
<1>4. Elements(ids) = Ids(Elements(hs))
  BY <1>1, <1>3 DEF Elements, Ids
<1> QED
  BY <1>1, <1>3, <1>4

(* A host is changed, not its id.                                          *)
LEMMA Mapped ==
  ASSUME NEW hs \in Seq(Rec), NEW F \in [Rec -> Rec], \A h \in Rec : F[h].id = h.id
  PROVE  LET mapped == [i \in DOMAIN hs |-> F[hs[i]]]
         IN  /\ mapped \in Seq(Rec) /\ IdList(mapped) = IdList(hs)
             /\ Elements(mapped) = {F[h] : h \in Elements(hs)}
<1>1. PICK n \in Nat : n = Len(hs) /\ DOMAIN hs = 1..n /\ \A i \in 1..n : hs[i] \in Rec
  OBVIOUS
<1>2. PICK mapped \in Seq(Rec) : /\ mapped = [i \in DOMAIN hs |-> F[hs[i]]]
                                 /\ DOMAIN mapped = 1..n /\ \A i \in 1..n : mapped[i] = F[hs[i]]
  <2>1. \A i \in 1..n : F[hs[i]] \in Rec
    BY <1>1
  <2>2. [i \in 1..n |-> F[hs[i]]] \in Seq(Rec)
    BY <2>1
  <2> QED
    BY <1>1, <2>2
<1>3. \A i \in 1..n : mapped[i].id = hs[i].id
  BY <1>1, <1>2
<1>4. IdList(mapped) = IdList(hs)
  BY <1>1, <1>2, <1>3 DEF IdList
<1>5. Elements(mapped) = {F[h] : h \in Elements(hs)}
  BY <1>1, <1>2 DEF Elements
<1> QED
  BY <1>2, <1>4, <1>5

(* The hosts without a group, in their order.                              *)
LEMMA UngroupedIds ==
  ASSUME NEW hs \in Seq(Rec)
  PROVE  /\ Ungrouped(hs) \in Seq(0..MaxId)
         /\ Elements(Ungrouped(hs)) = FreeIds(Elements(hs))
         /\ Distinct(IdList(hs)) => Distinct(Ungrouped(hs))
<1> DEFINE P == {i \in DOMAIN hs : hs[i].group = NoGroup}
<1>1. PICK ids \in Seq(0..MaxId) : /\ ids = IdList(hs) /\ DOMAIN ids = DOMAIN hs
                                   /\ \A i \in DOMAIN hs : ids[i] = hs[i].id
  BY IdListType
<1>2. P \in SUBSET DOMAIN ids
  BY <1>1
<1>3. Ungrouped(hs) = Kept(ids, P)
  BY <1>1 DEF Ungrouped
<1>4. {ids[i] : i \in P} = FreeIds(Elements(hs))
  BY <1>1 DEF Elements, FreeIds
<1> HIDE DEF P
<1>5. /\ Kept(ids, P) \in Seq(0..MaxId) /\ Elements(Kept(ids, P)) = {ids[i] : i \in P}
      /\ Distinct(ids) => Distinct(Kept(ids, P))
  BY <1>2, KeptPlaces
<1> QED
  BY <1>1, <1>3, <1>4, <1>5

(* Where nothing stands twice, nothing follows itself.                     *)
LEMMA DedupedSame ==
  ASSUME NEW T, NEW s \in Seq(T), Distinct(s)
  PROVE  Deduped(s) = s
<1> DEFINE P == {i \in DOMAIN s : i = 1 \/ s[i] # s[i - 1]}
<1>1. P = DOMAIN s
  <2>1. ASSUME NEW i \in DOMAIN s, i # 1 PROVE s[i] # s[i - 1]
    <3>1. i - 1 \in DOMAIN s /\ i - 1 # i
      BY <2>1
    <3> QED
      BY <2>1, <3>1 DEF Distinct
  <2> QED
    BY <2>1
<1>2. Deduped(s) = Kept(s, P)
  BY DEF Deduped
<1> HIDE DEF P
<1> QED
  BY <1>1, <1>2, KeptPlaces

(* The order list holds the ungrouped hosts, each once, behind the local   *)
(* terminal.                                                               *)
LEMMA OrderedSound ==
  ASSUME NEW hs \in Seq(Rec), Distinct(IdList(hs)), NEW order \in Seq(0..MaxId), Distinct(order),
         Local \in FreeIds(Elements(hs))
  PROVE  /\ Ordered(order, hs) \in Seq(0..MaxId) /\ Distinct(Ordered(order, hs))
         /\ Ordered(order, hs) # << >> /\ Ordered(order, hs)[1] = Local
         /\ Elements(Ordered(order, hs)) = FreeIds(Elements(hs))
<1>1. PICK free \in Seq(0..MaxId) : /\ free = Ungrouped(hs) /\ Distinct(free)
                                    /\ Elements(free) = FreeIds(Elements(hs))
  BY UngroupedIds
<1>2. PICK present : present = Only(order, Elements(IdList(hs)))
  OBVIOUS
<1>3. /\ present \in Seq(0..MaxId) /\ Distinct(present)
      /\ Elements(present) = Elements(order) \cap Elements(IdList(hs))
  BY <1>2, OnlyKeeps, OnlyDistinct
<1>4. Deduped(present) = present
  BY <1>3, DedupedSame
<1>5. PICK new : new = Only(free, Elements(free) \ Elements(order))
  OBVIOUS
<1>6. /\ new \in Seq(0..MaxId) /\ Distinct(new)
      /\ Elements(new) = Elements(free) \ Elements(order)
  BY <1>1, <1>5, OnlyKeeps, OnlyDistinct
<1>7. PICK all : all = present \o new
  OBVIOUS
<1>8. all \in Seq(0..MaxId) /\ Elements(all) = Elements(present) \cup Elements(new)
  BY <1>3, <1>6, <1>7, ElementsOfConcat
<1>9. Distinct(all)
  BY <1>3, <1>6, <1>7, ConcatDistinct
<1>10. PICK rest : rest = Only(all, Elements(free) \ {Local})
  OBVIOUS
<1>11. /\ rest \in Seq(0..MaxId) /\ Distinct(rest)
       /\ Elements(rest) = Elements(all) \cap (Elements(free) \ {Local})
  BY <1>8, <1>9, <1>10, OnlyKeeps, OnlyDistinct
<1>12. Elements(free) \subseteq Elements(IdList(hs))
  BY <1>1, IdListType DEF FreeIds, Ids
<1>13. Elements(rest) = Elements(free) \ {Local}
  BY <1>3, <1>6, <1>8, <1>11, <1>12
<1>14. Ordered(order, hs) = <<Local>> \o rest
  BY <1>1, <1>2, <1>4, <1>5, <1>7, <1>10 DEF Ordered
<1>15. PICK one \in Seq(0..MaxId) : /\ one = <<Local>> /\ Len(one) = 1 /\ one[1] = Local
                                    /\ Elements(one) = {Local} /\ Distinct(one)
  <2>1. Local \in 0..MaxId
    BY ShellAssumption DEF Local
  <2>2. <<Local>> \in Seq(0..MaxId) /\ Elements(<<Local>>) = {Local} /\ Distinct(<<Local>>)
    BY <2>1 DEF Elements, Distinct
  <2> QED
    BY <2>2
<1>16. one \o rest \in Seq(0..MaxId) /\ one \o rest # << >> /\ (one \o rest)[1] = Local
  <2>1. one \o rest \in Seq(0..MaxId)
    BY <1>11, <1>15
  <2>2. Len(one \o rest) = 1 + Len(rest)
    BY <1>11, <1>15
  <2>3. (one \o rest)[1] = one[1]
    BY <1>11, <1>15
  <2>4. PICK both \in Seq(0..MaxId) : both = one \o rest
    BY <2>1
  <2>5. PICK n \in Nat : n = Len(rest)
    BY <1>11
  <2>6. Len(both) # 0
    BY <2>2, <2>4, <2>5
  <2>7. both # << >>
    BY <2>6
  <2> QED
    BY <1>15, <2>1, <2>3, <2>4, <2>7
<1>17. Elements(one \o rest) = {Local} \cup (Elements(free) \ {Local})
  <2>1. one \in Seq(0..MaxId) /\ rest \in Seq(0..MaxId)
    BY <1>11, <1>15
  <2>2. Elements(one \o rest) = Elements(one) \cup Elements(rest)
    BY <2>1, ElementsOfConcat
  <2> QED
    BY <1>13, <1>15, <2>2
<1>18. Distinct(one \o rest)
  <2>1. one \in Seq(0..MaxId) /\ rest \in Seq(0..MaxId)
    BY <1>11, <1>15
  <2>2. Distinct(one \o rest) <=>
          Distinct(one) /\ Distinct(rest) /\ Elements(one) \cap Elements(rest) = {}
    BY <2>1, ConcatDistinct
  <2> QED
    BY <1>11, <1>13, <1>15, <2>2
<1> QED
  BY <1>1, <1>14, <1>15, <1>16, <1>17, <1>18
-----------------------------------------------------------------------------
(* What normalized needs, and what a sound document adds to it.  J holds   *)
(* the jump hosts that may be gone.                                        *)
Reached(M, J) ==
  /\ Local \in Ids(M)
  /\ \A h \in M : h.jump \in Ids(M) \cup {NoHost} \cup J

Ready(d, J) ==
  /\ d \in Document
  /\ Distinct(IdList(d.hosts)) /\ Reached(Elements(d.hosts), J) /\ Distinct(d.order)

Tidy(d) ==
  /\ \A h \in Elements(d.hosts) : h.group \in Elements(d.groups) \cup {NoGroup}
  /\ d.order # << >> /\ d.order[1] = Local
  /\ Elements(d.order) = FreeIds(Elements(d.hosts))

(* A sound document is one that normalized takes and that is in order.     *)
LEMMA SoundIs ==
  ASSUME NEW J, NEW d \in Document
  PROVE  Sound(d, J) <=> Ready(d, J) /\ Tidy(d)
<1>1. PICK hs \in Seq(Rec) : hs = d.hosts
  BY DEF Document, Rec
<1>2. HostIds(d) = Ids(Elements(hs)) /\ GroupIds(d) = Elements(d.groups)
  BY <1>1 DEF HostIds, Ids, Elements, GroupIds
<1>3. {hs[i].id : i \in {j \in DOMAIN hs : hs[j].group = NoGroup}} = FreeIds(Elements(hs))
  BY DEF FreeIds, Elements
<1>4. ASSUME NEW G, NEW I
      PROVE  (\A i \in DOMAIN hs : hs[i].group \in G /\ hs[i].jump \in I)
             <=> (\A h \in Elements(hs) : h.group \in G) /\ (\A h \in Elements(hs) : h.jump \in I)
  BY DEF Elements
<1>5. (\A i \in DOMAIN hs : /\ hs[i].group \in Elements(d.groups) \cup {NoGroup}
                            /\ hs[i].jump \in Ids(Elements(hs)) \cup {NoHost} \cup J)
      <=> /\ \A h \in Elements(hs) : h.group \in Elements(d.groups) \cup {NoGroup}
          /\ \A h \in Elements(hs) : h.jump \in Ids(Elements(hs)) \cup {NoHost} \cup J
  <2>1. PICK G, I : G = Elements(d.groups) \cup {NoGroup} /\ 
                I = Ids(Elements(hs)) \cup {NoHost} \cup J
    OBVIOUS
  <2>2. (\A i \in DOMAIN hs : hs[i].group \in G /\ hs[i].jump \in I)
        <=> (\A h \in Elements(hs) : h.group \in G) /\ (\A h \in Elements(hs) : h.jump \in I)
    BY <1>4
  <2> QED
    BY <2>1, <2>2, Zenon
<1>6. Sound(d, J) <=>
        /\ Distinct(IdList(hs)) /\ Local \in Ids(Elements(hs))
        /\ \A i \in DOMAIN hs : /\ hs[i].group \in Elements(d.groups) \cup {NoGroup}
                                /\ hs[i].jump \in Ids(Elements(hs)) \cup {NoHost} \cup J
        /\ Distinct(d.order) /\ d.order # << >> /\ d.order[1] = Local
        /\ Elements(d.order) = FreeIds(Elements(hs))
  BY <1>1, <1>2, <1>3, Zenon DEF Sound
<1> QED
  BY <1>1, <1>5, <1>6, Zenon DEF Ready, Tidy, Reached

(* The local terminal of a sound document is in no group.                  *)
LEMMA LocalIsFree ==
  ASSUME NEW J, NEW d \in Document, Sound(d, J)
  PROVE  /\ Local \in FreeIds(Elements(d.hosts))
         /\ \A h \in Elements(d.hosts) : h.id = Local => h.group = NoGroup
<1>1. Ready(d, J) /\ Tidy(d)
  BY SoundIs
<1>2. PICK order \in Seq(0..MaxId) : order = d.order
  BY DEF Document
<1>3. Local \in Elements(order)
  <2>1. PICK n \in Nat : n = Len(order) /\ DOMAIN order = 1..n /\ (n = 0 => order = << >>)
    OBVIOUS
  <2>2. 1 \in DOMAIN order
    BY <1>1, <1>2, <2>1 DEF Tidy
  <2> QED
    BY <1>1, <1>2, <2>2 DEF Elements, Tidy
<1>4. Local \in FreeIds(Elements(d.hosts))
  BY <1>1, <1>2, <1>3 DEF Tidy
<1>5. PICK hs \in Seq(Rec) : hs = d.hosts /\ Distinct(IdList(hs))
  BY <1>1 DEF Document, Rec, Ready
<1>6. PICK i \in DOMAIN hs : hs[i].id = Local /\ hs[i].group = NoGroup
  BY <1>4, <1>5 DEF FreeIds, Elements
<1>7. ASSUME NEW j \in DOMAIN hs, hs[j].id = Local PROVE hs[j].group = NoGroup
  <2>1. j = i
    BY <1>5, <1>6, <1>7 DEF Distinct, IdList
  <2> QED
    BY <1>6, <2>1
<1> QED
  BY <1>4, <1>5, <1>7 DEF Elements

-----------------------------------------------------------------------------
(* What normalized makes of a host among the groups G.                     *)
Ground(h, G) ==
  IF h.id = Local \/ h.group \notin G THEN [h EXCEPT !.group = NoGroup] ELSE h

Grounded(M, G) == {Ground(h, G) : h \in M}

(* normalized changes nothing of a host but its group, and that only when  *)
(* the group is gone or the host is the local terminal.                    *)
LEMMA GroundIs ==
  ASSUME NEW h \in Rec, NEW G
  PROVE  /\ Ground(h, G) \in Rec /\ Ground(h, G).id = h.id /\ Ground(h, G).jump = h.jump
         /\ Ground(h, G).group \in G \cup {NoGroup}
         /\ h.id = Local => Ground(h, G).group = NoGroup
         /\ h.group \in G \cup {NoGroup} /\ (h.id = Local => h.group = NoGroup) => Ground(h, G) = h
<1>1. NoGroup \in 0..MaxId
  BY ShellAssumption DEF NoGroup
<1>2. CASE h.id = Local \/ h.group \notin G
  <2>1. Ground(h, G) = [h EXCEPT !.group = NoGroup]
    BY <1>2 DEF Ground
  <2>2. h.group = NoGroup => [h EXCEPT !.group = NoGroup] = h
    BY DEF Rec
  <2> QED
    BY <1>1, <1>2, <2>1, <2>2 DEF Rec
<1>3. CASE ~(h.id = Local \/ h.group \notin G)
  <2>1. Ground(h, G) = h
    BY <1>3 DEF Ground
  <2> QED
    BY <1>3, <2>1
<1> QED
  BY <1>2, <1>3
(* The lists of a document.                                                *)
LEMMA DocumentParts ==
  ASSUME NEW d \in Document
  PROVE  /\ d.hosts \in Seq(Rec) /\ Elements(d.hosts) \in SUBSET Rec
         /\ d.groups \in Seq(1..MaxId) /\ d.order \in Seq(0..MaxId)
<1>1. PICK hs \in Seq(Rec) : hs = d.hosts
  BY DEF Document, Rec
<1>2. Elements(hs) \in SUBSET Rec
  BY DEF Elements
<1> QED
  BY <1>1, <1>2 DEF Document

(* The hosts of a sound document are as normalized leaves them.            *)
LEMMA GroundedSame ==
  ASSUME NEW J, NEW d \in Document, Sound(d, J)
  PROVE  Grounded(Elements(d.hosts), Elements(d.groups)) = Elements(d.hosts)
<1>1. Tidy(d) /\ \A h \in Elements(d.hosts) : h.id = Local => h.group = NoGroup
  BY SoundIs, LocalIsFree
<1>2. \A h \in Elements(d.hosts) : h \in Rec
  BY DocumentParts
<1>3. ASSUME NEW h \in Elements(d.hosts) PROVE Ground(h, Elements(d.groups)) = h
  BY <1>1, <1>2, GroundIs DEF Tidy
<1> QED
  BY <1>3 DEF Grounded

(* Grounding keeps the ids and the jump hosts.                             *)
LEMMA GroundedIds ==
  ASSUME NEW J, NEW M \in SUBSET Rec, NEW G
  PROVE  /\ Ids(Grounded(M, G)) = Ids(M)
         /\ Reached(M, J) => Reached(Grounded(M, G), J)
         /\ \A h \in Grounded(M, G) : /\ h.group \in G \cup {NoGroup}
                                      /\ h.id = Local => h.group = NoGroup
<1>1. \A h \in M : Ground(h, G).id = h.id /\ Ground(h, G).jump = h.jump
  BY GroundIs
<1>2. Ids(Grounded(M, G)) = Ids(M)
  BY <1>1 DEF Ids, Grounded
<1>3. Reached(M, J) => Reached(Grounded(M, G), J)
  BY <1>1, <1>2 DEF Reached, Grounded
<1>4. \A h \in Grounded(M, G) : /\ h.group \in G \cup {NoGroup}
                                /\ h.id = Local => h.group = NoGroup
  BY GroundIs DEF Grounded
<1> QED
  BY <1>2, <1>3, <1>4

(* From hosts that stand there once each, normalized makes a sound         *)
(* document of the same hosts and groups.                                  *)
LEMMA Regrounds ==
  ASSUME NEW J, NEW once \in Seq(Rec), Distinct(IdList(once)), Reached(Elements(once), J),
         NEW gs \in Seq(1..MaxId), NEW order \in Seq(0..MaxId), Distinct(order),
         NEW groups, groups \in Seq(1..MaxId), Elements(groups) = Elements(gs),
         NEW n, n = [hosts |-> Regrouped(once, groups), groups |-> groups,
                     order |-> Ordered(order, Regrouped(once, groups))]
  PROVE  /\ n \in Document /\ Sound(n, J)
         /\ Elements(n.hosts) = Grounded(Elements(once), Elements(gs))
         /\ Elements(n.groups) = Elements(gs)
<1> DEFINE G == Elements(gs)
           F == [h \in Rec |-> Ground(h, G)]
<1>1. F \in [Rec -> Rec] /\ \A h \in Rec : F[h].id = h.id /\ F[h] = Ground(h, G)
  BY GroundIs
<1>2. Regrouped(once, groups) = [i \in DOMAIN once |-> F[once[i]]]
  <2>1. \A i \in DOMAIN once : once[i] \in Rec
    OBVIOUS
  <2> QED
    BY <1>1, <2>1 DEF Regrouped, Ground
<1> HIDE DEF F
<1>3. /\ [i \in DOMAIN once |-> F[once[i]]] \in Seq(Rec)
      /\ IdList([i \in DOMAIN once |-> F[once[i]]]) = IdList(once)
      /\ Elements([i \in DOMAIN once |-> F[once[i]]]) = {F[h] : h \in Elements(once)}
  BY <1>1, Mapped
<1>4. PICK hs \in Seq(Rec) : hs = Regrouped(once, groups)
  BY <1>2, <1>3
<1>5. IdList(hs) = IdList(once) /\ Elements(hs) = {F[h] : h \in Elements(once)}
  BY <1>2, <1>3, <1>4, Zenon
<1>6. Elements(once) \in SUBSET Rec
  BY DEF Elements
<1>7. Elements(hs) = Grounded(Elements(once), G)
  BY <1>1, <1>5, <1>6 DEF Grounded
<1>8. /\ Reached(Elements(hs), J)
      /\ \A h \in Elements(hs) : h.group \in G \cup {NoGroup} /\ (h.id = Local => h.group = NoGroup)
  BY <1>6, <1>7, GroundedIds
<1>9. Local \in FreeIds(Elements(hs))
  BY <1>8 DEF Reached, Ids, FreeIds
<1>10. /\ Ordered(order, hs) \in Seq(0..MaxId) /\ Distinct(Ordered(order, hs))
       /\ Ordered(order, hs) # << >> /\ Ordered(order, hs)[1] = Local
       /\ Elements(Ordered(order, hs)) = FreeIds(Elements(hs))
  BY <1>5, <1>9, OrderedSound
<1>11. n.hosts = hs /\ n.groups = groups /\ n.order = Ordered(order, hs)
  BY <1>4
<1>12. n \in Document
  BY <1>4, <1>10 DEF Document, Rec
<1>13. Ready(n, J) /\ Tidy(n)
  BY <1>5, <1>8, <1>10, <1>11, <1>12 DEF Ready, Tidy
<1> QED
  BY <1>7, <1>11, <1>12, <1>13, SoundIs
(* In a list without repetition everything stands for the first time.      *)
LEMMA FirstOfDistinct ==
  ASSUME NEW T, NEW s \in Seq(T), Distinct(s)
  PROVE  FirstPlaces(s) = DOMAIN s
<1>1. ASSUME NEW i \in DOMAIN s, NEW j \in 1..(i - 1) PROVE s[j] # s[i]
  <2>1. j \in DOMAIN s /\ j # i
    OBVIOUS
  <2> QED
    BY <2>1 DEF Distinct
<1> QED
  BY <1>1 DEF FirstPlaces

(* normalized makes a ready document sound, and changes of its hosts only  *)
(* the groups that are gone.                                               *)
LEMMA NormalizedReady ==
  ASSUME NEW J, NEW d, Ready(d, J)
  PROVE  /\ Normalized(d) \in Document /\ Sound(Normalized(d), J)
         /\ Elements(Normalized(d).hosts) = Grounded(Elements(d.hosts), Elements(d.groups))
         /\ Elements(Normalized(d).groups) = Elements(d.groups)
<1>1. /\ d \in Document /\ Distinct(IdList(d.hosts))
      /\ Reached(Elements(d.hosts), J) /\ Distinct(d.order)
  BY DEF Ready
<1>2. PICK hs \in Seq(Rec), gs \in Seq(1..MaxId), order \in Seq(0..MaxId) :
        hs = d.hosts /\ gs = d.groups /\ order = d.order
  BY <1>1, DocumentParts
<1>3. PICK groups \in Seq(1..MaxId) : /\ groups = Kept(gs, FirstPlaces(gs))
                                      /\ Elements(groups) = Elements(gs)
  BY FirstOnes
<1>4. FirstPlaces(IdList(hs)) = DOMAIN hs
  <2>1. PICK ids \in Seq(0..MaxId) : ids = IdList(hs) /\ DOMAIN ids = DOMAIN hs
    BY IdListType
  <2>2. FirstPlaces(ids) = DOMAIN ids
    BY <1>1, <1>2, <2>1, FirstOfDistinct
  <2> QED
    BY <2>1, <2>2
<1>5. Kept(hs, FirstPlaces(IdList(hs))) = hs
  BY <1>4, KeptPlaces
<1>6. Local \in HostIds(d)
  <2>1. HostIds(d) = Ids(Elements(hs))
    BY <1>2 DEF HostIds, Ids, Elements
  <2> QED
    BY <1>1, <1>2, <2>1 DEF Reached
<1>7. HostsOnce(d) = hs
  BY <1>2, <1>5, <1>6 DEF HostsOnce
<1>8. Normalized(d) = [hosts |-> Regrouped(hs, groups), groups |-> groups,
                       order |-> Ordered(order, Regrouped(hs, groups))]
  BY <1>2, <1>3, <1>7 DEF Normalized
<1>9. PICK n : n = Normalized(d)
  OBVIOUS
<1>10. /\ n \in Document /\ Sound(n, J)
       /\ Elements(n.hosts) = Grounded(Elements(hs), Elements(gs))
       /\ Elements(n.groups) = Elements(gs)
  BY <1>1, <1>2, <1>3, <1>8, <1>9, Regrounds
<1> QED
  BY <1>2, <1>9, <1>10

(* The first launch has the local terminal.                                *)
LEMMA NormalizedEmpty ==
  ASSUME NEW J
  PROVE  LET n == Normalized([hosts |-> << >>, groups |-> << >>, order |-> << >>])
         IN  n \in Document /\ Sound(n, J)
<1> DEFINE d == [hosts |-> << >>, groups |-> << >>, order |-> << >>]
<1>1. LocalHost \in Rec /\ LocalHost.id = Local /\ LocalHost.jump = NoHost
  BY ShellAssumption DEF LocalHost, Host, Rec, Local, NoGroup, NoHost
<1>2. PICK once \in Seq(Rec) : /\ once = <<LocalHost>> /\ DOMAIN once = {1} /\ once[1] = LocalHost
                               /\ Elements(once) = {LocalHost}
  <2>1. <<LocalHost>> \in Seq(Rec)
    BY <1>1
  <2>2. DOMAIN <<LocalHost>> = {1} /\ <<LocalHost>>[1] = LocalHost
    OBVIOUS
  <2>3. PICK once \in Seq(Rec) : once = <<LocalHost>>
    BY <2>1
  <2>4. DOMAIN once = {1} /\ once[1] = LocalHost
    BY <2>2, <2>3
  <2>5. Elements(once) = {LocalHost}
    BY <2>4 DEF Elements
  <2> QED
    BY <2>3, <2>4, <2>5
<1>3. Distinct(IdList(once)) /\ Reached(Elements(once), J)
  BY <1>1, <1>2 DEF IdList, Distinct, Reached, Ids
<1>4. PICK none : none = << >>
  OBVIOUS
<1>5. none \in Seq(1..MaxId) /\ none \in Seq(0..MaxId) /\ none \in Seq(Rec) /\ DOMAIN none = {}
      /\ Distinct(none)
  BY <1>4 DEF Distinct
<1>6. FirstPlaces(none) = DOMAIN none /\ FirstPlaces(IdList(none)) = DOMAIN none
  BY <1>5 DEF FirstPlaces, IdList
<1>7. Kept(none, FirstPlaces(none)) = none /\ Kept(none, FirstPlaces(IdList(none))) = none
  BY <1>5, <1>6, KeptPlaces
<1>8. Local \notin HostIds(d)
  BY DEF HostIds
<1>9. <<LocalHost>> \o none = once
  BY <1>1, <1>2, <1>4
<1>10. HostsOnce(d) = once
  BY <1>4, <1>7, <1>8, <1>9 DEF HostsOnce
<1>11. Normalized(d) = [hosts |-> Regrouped(once, none), groups |-> none,
                        order |-> Ordered(none, Regrouped(once, none))]
  BY <1>4, <1>7, <1>10 DEF Normalized
<1>12. Normalized(d) \in Document /\ Sound(Normalized(d), J)
  <2>1. PICK n : n = [hosts |-> Regrouped(once, none), groups |-> none,
                      order |-> Ordered(none, Regrouped(once, none))]
    OBVIOUS
  <2>2. n \in Document /\ Sound(n, J)
    BY <1>3, <1>5, <2>1, Regrounds
  <2> QED
    BY <1>11, <2>1, <2>2
<1> QED
  BY <1>12
(* The ids of a list with a host more.                                     *)
LEMMA IdListAppend ==
  ASSUME NEW hs \in Seq(Rec), NEW h \in Rec
  PROVE  /\ Append(hs, h) \in Seq(Rec)
         /\ IdList(Append(hs, h)) = Append(IdList(hs), h.id)
         /\ Elements(Append(hs, h)) = Elements(hs) \cup {h}
<1>1. PICK n \in Nat : n = Len(hs) /\ DOMAIN hs = 1..n
  OBVIOUS
<1>2. PICK more \in Seq(Rec) : more = Append(hs, h)
  <2>1. Append(hs, h) \in Seq(Rec)
    OBVIOUS
  <2> QED
    BY <2>1
<1>3. /\ Len(more) = n + 1 /\ DOMAIN more = 1..(n + 1)
      /\ more[n + 1] = h /\ \A i \in 1..n : more[i] = hs[i]
  BY <1>1, <1>2
<1>4. PICK ids \in Seq(0..MaxId) : /\ ids = IdList(hs) /\ DOMAIN ids = 1..n
                                   /\ \A i \in 1..n : ids[i] = hs[i].id
  BY <1>1, IdListType
<1>5. Len(ids) = n
  BY <1>1, <1>4
<1>6. h.id \in 0..MaxId
  BY DEF Rec
<1>7. PICK longer \in Seq(0..MaxId) : longer = Append(ids, h.id)
  <2>1. Append(ids, h.id) \in Seq(0..MaxId)
    BY <1>6
  <2> QED
    BY <2>1
<1>8. /\ DOMAIN longer = 1..(n + 1) /\ longer[n + 1] = h.id
      /\ \A i \in 1..n : longer[i] = ids[i]
  <2>1. ids \in Seq(0..MaxId) /\ Len(ids) = n /\ longer = Append(ids, h.id)
    BY <1>4, <1>5, <1>7
  <2>2. Len(Append(ids, h.id)) = n + 1 /\ Append(ids, h.id)[n + 1] = h.id
    BY <2>1
  <2>3. \A i \in 1..n : Append(ids, h.id)[i] = ids[i]
    BY <2>1
  <2>4. longer \in Seq(0..MaxId)
    BY <1>7
  <2>5. DOMAIN longer = 1..(n + 1)
    BY <2>1, <2>2, <2>4
  <2> QED
    BY <2>1, <2>2, <2>3, <2>5
<1>9. PICK all \in Seq(0..MaxId) : /\ all = IdList(more) /\ DOMAIN all = DOMAIN more
                                   /\ \A i \in DOMAIN more : all[i] = more[i].id
  BY IdListType
<1>10. ASSUME NEW i \in 1..(n + 1) PROVE all[i] = longer[i]
  <2>1. CASE i = n + 1
    BY <1>3, <1>8, <1>9, <2>1
  <2>2. CASE i \in 1..n
    BY <1>3, <1>4, <1>8, <1>9, <2>2
  <2> QED
    BY <2>1, <2>2
<1>11. all = longer
  BY <1>3, <1>8, <1>9, <1>10
<1>12. Elements(Append(hs, h)) = Elements(hs) \cup {h}
  BY AppendElements
<1> QED
  BY <1>2, <1>4, <1>7, <1>9, <1>11, <1>12

(* The hosts after h is saved.                                             *)
With(M, h) == {x \in M : x.id # h.id} \cup {h}

(* upsert replaces the host or adds it.                                    *)
LEMMA UpsertedHosts ==
  ASSUME NEW hs \in Seq(Rec), Distinct(IdList(hs)), NEW h \in Rec,
         NEW new, new = IF h.id \in Ids(Elements(hs))
                        THEN [i \in DOMAIN hs |-> IF hs[i].id = h.id THEN h ELSE hs[i]]
                        ELSE Append(hs, h)
  PROVE  new \in Seq(Rec) /\ Distinct(IdList(new)) /\ Elements(new) = With(Elements(hs), h)
<1>1. CASE h.id \in Ids(Elements(hs))
  <2> DEFINE F == [x \in Rec |-> IF x.id = h.id THEN h ELSE x]
  <2>1. F \in [Rec -> Rec] /\ \A x \in Rec : F[x].id = x.id
    OBVIOUS
  <2>2. \A x \in Rec : F[x] = IF x.id = h.id THEN h ELSE x
    OBVIOUS
  <2> HIDE DEF F
  <2>3. \A i \in DOMAIN hs : hs[i] \in Rec
    OBVIOUS
  <2>4. new = [i \in DOMAIN hs |-> F[hs[i]]]
    BY <1>1, <2>2, <2>3
  <2>5. /\ [i \in DOMAIN hs |-> F[hs[i]]] \in Seq(Rec)
        /\ IdList([i \in DOMAIN hs |-> F[hs[i]]]) = IdList(hs)
        /\ Elements([i \in DOMAIN hs |-> F[hs[i]]]) = {F[x] : x \in Elements(hs)}
    BY <2>1, Mapped
  <2>6. Elements(hs) \subseteq Rec
    BY <2>3 DEF Elements
  <2>7. {F[x] : x \in Elements(hs)} = With(Elements(hs), h)
    <3>1. \A x \in Elements(hs) : F[x] = IF x.id = h.id THEN h ELSE x
      BY <2>2, <2>6
    <3>2. PICK x \in Elements(hs) : x.id = h.id
      BY <1>1 DEF Ids
    <3> QED
      BY <3>1, <3>2 DEF With
  <2> QED
    BY <2>4, <2>5, <2>7, Zenon
<1>2. CASE h.id \notin Ids(Elements(hs))
  <2>1. PICK ids \in Seq(0..MaxId) : ids = IdList(hs) /\ Elements(ids) = Ids(Elements(hs))
    BY IdListType
  <2>2. /\ new \in Seq(Rec) /\ IdList(new) = Append(ids, h.id)
        /\ Elements(new) = Elements(hs) \cup {h}
    BY <1>2, <2>1, IdListAppend
  <2>3. Distinct(Append(ids, h.id))
    BY <1>2, <2>1, AppendDistinct
  <2>4. Elements(hs) \cup {h} = With(Elements(hs), h)
    BY <1>2 DEF Ids, With
  <2> QED
    BY <2>2, <2>3, <2>4
<1> QED
  BY <1>1, <1>2

(* A host that is saved: it is not the local terminal, and what it jumps   *)
(* through is there or in J.                                               *)
Savable(h, M, J) == h \in Rec /\ h.id # Local /\ h.jump \in Ids(M) \cup {NoHost} \cup J

(* upsert on a sound document makes one that normalized takes, with the    *)
(* host in it.                                                             *)
LEMMA UpsertReady ==
  ASSUME NEW J, NEW d \in Document, Sound(d, J), NEW h, Savable(h, Elements(d.hosts), J)
  PROVE  /\ Ready(Upsert(d, h), J)
         /\ Elements(Upsert(d, h).hosts) = With(Elements(d.hosts), h)
         /\ Upsert(d, h).groups = d.groups
<1>1. Ready(d, J) /\ h \in Rec
  BY SoundIs DEF Savable
<1>2. PICK hs \in Seq(Rec), order \in Seq(0..MaxId) : hs = d.hosts /\ order = d.order
  BY DocumentParts
<1>3. HostIds(d) = Ids(Elements(hs))
  BY <1>2 DEF HostIds, Ids, Elements
<1>4. PICK new : new = IF h.id \in HostIds(d)
                       THEN [i \in DOMAIN hs |-> IF hs[i].id = h.id THEN h ELSE hs[i]]
                       ELSE Append(hs, h)
  OBVIOUS
<1>5. new \in Seq(Rec) /\ Distinct(IdList(new)) /\ Elements(new) = With(Elements(hs), h)
  BY <1>1, <1>2, <1>3, <1>4, UpsertedHosts DEF Ready
<1>6. PICK free \in Seq(0..MaxId) : free = Ungrouped(new) /\ Distinct(free)
  BY <1>5, UngroupedIds
<1>7. PICK rest \in Seq(0..MaxId) : /\ rest = Only(order, Elements(free)) /\ Distinct(rest)
                                    /\ Elements(rest) = Elements(order) \cap Elements(free)
  BY <1>1, <1>2, OnlyKeeps, OnlyDistinct DEF Ready
<1>8. PICK more \in Seq(0..MaxId) : /\ more = Only(free, Elements(free) \ Elements(order))
                                    /\ Distinct(more)
                                    /\ Elements(more) = Elements(free) \cap (Elements(free) \ Elements(order))
  BY <1>6, OnlyKeeps, OnlyDistinct
<1>9. rest \o more \in Seq(0..MaxId) /\ Distinct(rest \o more)
  <2>1. Elements(rest) \cap Elements(more) = {}
    BY <1>7, <1>8
  <2>2. rest \o more \in Seq(0..MaxId)
    BY <1>7, <1>8
  <2>3. rest \in Seq(0..MaxId) /\ more \in Seq(0..MaxId)
    BY <1>7, <1>8
  <2>4. Distinct(rest \o more) <=>
          Distinct(rest) /\ Distinct(more) /\ Elements(rest) \cap Elements(more) = {}
    BY <2>3, ConcatDistinct
  <2> QED
    BY <1>7, <1>8, <2>1, <2>2, <2>4
<1>10. PICK u : u = Upsert(d, h)
  OBVIOUS
<1>11. u = [d EXCEPT !.hosts = new, !.order = rest \o more]
  BY <1>2, <1>4, <1>6, <1>7, <1>8, <1>10 DEF Upsert
<1>12. /\ u.hosts = new /\ u.groups = d.groups /\ u.order = rest \o more
       /\ u \in Document
  BY <1>5, <1>9, <1>11 DEF Document, Rec
<1>13. Reached(With(Elements(hs), h), J)
  <2>1. Ids(With(Elements(hs), h)) = Ids(Elements(hs)) \cup {h.id}
    BY DEF Ids, With
  <2>2. Reached(Elements(hs), J) /\ h.jump \in Ids(Elements(hs)) \cup {NoHost} \cup J
    BY <1>1, <1>2 DEF Ready, Savable
  <2> QED
    BY <2>1, <2>2 DEF Reached, With
<1>14. Ready(u, J)
  BY <1>5, <1>9, <1>12, <1>13 DEF Ready
<1> QED
  BY <1>2, <1>5, <1>10, <1>12, <1>14
-----------------------------------------------------------------------------
(* The two copies of the hosts.                                            *)
Same(a, c) ==
  Elements(a.hosts) = Elements(c.hosts) /\ Elements(a.groups) = Elements(c.groups)

Agree(a, c, J) ==
  a \in Document /\ c \in Document /\ Sound(a, J) /\ Sound(c, J) /\ Same(a, c)

(* Two ready documents of the same hosts and groups agree when they are    *)
(* normalized.                                                             *)
LEMMA BothNormalized ==
  ASSUME NEW J, NEW a, NEW c, Ready(a, J), Ready(c, J), Same(a, c)
  PROVE  Agree(Normalized(a), Normalized(c), J)
<1>1. PICK x, y : x = Normalized(a) /\ y = Normalized(c)
  OBVIOUS
<1>2. /\ x \in Document /\ Sound(x, J) /\ Elements(x.groups) = Elements(a.groups)
      /\ Elements(x.hosts) = Grounded(Elements(a.hosts), Elements(a.groups))
  BY <1>1, NormalizedReady
<1>3. /\ y \in Document /\ Sound(y, J) /\ Elements(y.groups) = Elements(c.groups)
      /\ Elements(y.hosts) = Grounded(Elements(c.hosts), Elements(c.groups))
  BY <1>1, NormalizedReady
<1>4. Elements(a.hosts) = Elements(c.hosts) /\ Elements(a.groups) = Elements(c.groups)
  BY DEF Same
<1>5. Agree(x, y, J)
  BY <1>2, <1>3, <1>4 DEF Agree, Same
<1> QED
  BY <1>1, <1>5

(* save_host on two copies that differ in the saved host at most.          *)
LEMMA SavedAgree ==
  ASSUME NEW J, NEW a, NEW c, NEW h,
         a \in Document, c \in Document, Sound(a, J), Sound(c, J),
         Elements(a.groups) = Elements(c.groups),
         With(Elements(a.hosts), h) = With(Elements(c.hosts), h),
         Savable(h, Elements(a.hosts), J), Savable(h, Elements(c.hosts), J)
  PROVE  Agree(Normalized(Upsert(a, h)), Normalized(Upsert(c, h)), J)
<1>1. PICK x, y : x = Upsert(a, h) /\ y = Upsert(c, h)
  OBVIOUS
<1>2. Ready(x, J) /\ Elements(x.hosts) = With(Elements(a.hosts), h) /\ x.groups = a.groups
  BY <1>1, UpsertReady
<1>3. Ready(y, J) /\ Elements(y.hosts) = With(Elements(c.hosts), h) /\ y.groups = c.groups
  BY <1>1, UpsertReady
<1>4. Same(x, y)
  BY <1>2, <1>3 DEF Same
<1>5. Agree(Normalized(x), Normalized(y), J)
  BY <1>2, <1>3, <1>4, BothNormalized
<1> QED
  BY <1>1, <1>5

(* remove leaves a sound document, in which nothing jumps through the      *)
(* host that is gone.                                                      *)
Unjumped(h, id) == IF h.jump = id THEN [h EXCEPT !.jump = NoHost] ELSE h

Without(M, id) == {Unjumped(h, id) : h \in {x \in M : x.id # id}}

(* A host that jumped through the deleted one keeps all but its jump host. *)
LEMMA UnjumpedIs ==
  ASSUME NEW h \in Rec, NEW id
  PROVE  /\ Unjumped(h, id) \in Rec /\ Unjumped(h, id).id = h.id
         /\ Unjumped(h, id).group = h.group
         /\ Unjumped(h, id).jump = IF h.jump = id THEN NoHost ELSE h.jump
<1>1. NoHost \in 0..MaxId
  BY ShellAssumption DEF NoHost
<1> QED
  BY <1>1 DEF Rec, Unjumped
(* What stands in front stays in front if it is kept.                      *)
LEMMA OnlyFirst ==
  ASSUME NEW T, NEW s \in Seq(T), NEW S, s # << >>, s[1] \in S
  PROVE  Only(s, S) # << >> /\ Only(s, S)[1] = s[1]
<1> DEFINE P == {t \in Seq(T) : t # << >> /\ t[1] \in S
                                  => Only(t, S) # << >> /\ Only(t, S)[1] = t[1]}
<1>1. << >> \in P
  OBVIOUS
<1>2. ASSUME NEW t \in Seq(T), NEW x \in T, t \in P PROVE Append(t, x) \in P
  <2>1. Append(t, x) \in Seq(T)
    OBVIOUS
  <2>2. PICK more \in Seq(T) : more = Append(t, x)
    BY <2>1
  <2>3. PICK n \in Nat : n = Len(t)
    OBVIOUS
  <2>4. n # 0 => more[1] = t[1]
    BY <2>2, <2>3
  <2>5. n = 0 => more[1] = x
    <3>1. more[n + 1] = x
      BY <2>2, <2>3
    <3>2. n = 0 => n + 1 = 1
      OBVIOUS
    <3> QED
      BY <3>1, <3>2
  <2>6. PICK old \in Seq(T) : old = Only(t, S)
    BY OnlyKeeps
  <2>7. Only(more, S) = IF x \in S THEN Append(old, x) ELSE old
    BY <2>2, <2>6, OnlyAppend
  <2>8. PICK new \in Seq(T) : new = Only(more, S)
    BY OnlyKeeps
  <2>9. PICK m \in Nat : m = Len(old) /\ (m = 0 <=> old = << >>)
    OBVIOUS
  <2>10. x \in S => new # << >> /\ new[1] = IF m = 0 THEN x ELSE old[1]
    <3> SUFFICES ASSUME x \in S PROVE new # << >> /\ new[1] = IF m = 0 THEN x ELSE old[1]
      OBVIOUS
    <3>1. new = Append(old, x)
      BY <2>7, <2>8
    <3>2. Len(new) = m + 1 /\ new[1] = IF m = 0 THEN x ELSE old[1]
      BY <2>9, <3>1
    <3> QED
      BY <2>9, <3>2
  <2>11. x \notin S => new = old
    BY <2>7, <2>8
  <2>12. n = 0 <=> t = << >>
    BY <2>3
  <2>13. n = 0 => m = 0
    <3> SUFFICES ASSUME t = << >> PROVE old = << >>
      BY <2>9, <2>12
    <3> QED
      BY <2>6, OnlyEmpty
  <2>14. n # 0 /\ t[1] \in S => old # << >> /\ old[1] = t[1]
    BY <1>2, <2>6, <2>12
  <2>15. more[1] \in S => new # << >> /\ new[1] = more[1]
    <3>1. CASE n = 0
      BY <2>5, <2>10, <2>13, <3>1
    <3>2. CASE n # 0
      BY <2>4, <2>9, <2>10, <2>11, <2>14, <3>2
    <3> QED
      BY <3>1, <3>2
  <2> QED
    BY <2>2, <2>8, <2>15
<1> HIDE DEF P
<1>3. Seq(T) \subseteq P
  BY <1>1, <1>2, ByAppending
<1> QED
  BY <1>3 DEF P

(* The ids are distinct where the hosts are, one host to an id.            *)
LEMMA IdsDistinct ==
  ASSUME NEW hs \in Seq(Rec)
  PROVE  Distinct(IdList(hs)) <=>
           Distinct(hs) /\ \A x, y \in Elements(hs) : x.id = y.id => x = y
<1>1. PICK n \in Nat : n = Len(hs) /\ DOMAIN hs = 1..n
  OBVIOUS
<1>2. PICK ids \in Seq(0..MaxId) : /\ ids = IdList(hs) /\ DOMAIN ids = 1..n
                                   /\ \A i \in 1..n : ids[i] = hs[i].id
  BY <1>1, IdListType
<1>3. Distinct(ids) <=> \A i, j \in 1..n : hs[i].id = hs[j].id => i = j
  BY <1>2 DEF Distinct
<1>4. Distinct(hs) <=> \A i, j \in 1..n : hs[i] = hs[j] => i = j
  BY <1>1 DEF Distinct
<1>5. (\A x, y \in Elements(hs) : x.id = y.id => x = y)
      <=> \A i, j \in 1..n : hs[i].id = hs[j].id => hs[i] = hs[j]
  BY <1>1 DEF Elements
<1> QED
  BY <1>2, <1>3, <1>4, <1>5

(* remove keeps a document sound by itself.                                *)
LEMMA RemoveSound ==
  ASSUME NEW J, NEW d \in Document, Sound(d, J), NEW id, id # Local
  PROVE  /\ Remove(d, id) \in Document /\ Sound(Remove(d, id), J)
         /\ Elements(Remove(d, id).hosts) = Without(Elements(d.hosts), id)
         /\ Remove(d, id).groups = d.groups
<1>1. Ready(d, J) /\ Tidy(d)
  BY SoundIs
<1>2. PICK hs \in Seq(Rec), order \in Seq(0..MaxId) : hs = d.hosts /\ order = d.order
  BY DocumentParts
<1>3. PICK left \in Seq(Rec) : /\ left = Only(hs, Others(hs, id))
                               /\ Elements(left) = Elements(hs) \cap Others(hs, id)
  BY OnlyKeeps
<1>4. Distinct(IdList(left))
  <2>1. Distinct(hs) /\ \A x, y \in Elements(hs) : x.id = y.id => x = y
    BY <1>1, <1>2, IdsDistinct DEF Ready
  <2>2. Distinct(left)
    BY <1>3, <2>1, OnlyDistinct
  <2> QED
    BY <1>3, <2>1, <2>2, IdsDistinct
<1> DEFINE F == [h \in Rec |-> Unjumped(h, id)]
<1>5. F \in [Rec -> Rec] /\ \A h \in Rec : F[h].id = h.id /\ F[h] = Unjumped(h, id)
  BY UnjumpedIs
<1> HIDE DEF F
<1>6. PICK new : new = [i \in DOMAIN left |-> F[left[i]]]
  OBVIOUS
<1>7. new \in Seq(Rec) /\ IdList(new) = IdList(left) /\ Elements(new) = {F[h] : h \in Elements(left)}
  BY <1>5, <1>6, Mapped
<1>8. Elements(new) = Without(Elements(hs), id)
  <2>1. Elements(hs) \subseteq Rec
    BY <1>2, DocumentParts
  <2>2. Elements(left) = {x \in Elements(hs) : x.id # id}
    BY <1>3, Zenon DEF Others
  <2> QED
    BY <1>5, <1>7, <2>1, <2>2 DEF Without
<1>9. PICK rest \in Seq(0..MaxId) : /\ rest = Only(order, Elements(order) \ {id})
                                    /\ Elements(rest) = Elements(order) \ {id}
  BY OnlyKeeps
<1>10. Distinct(rest)
  BY <1>1, <1>2, <1>9, OnlyDistinct DEF Ready
<1>11. rest # << >> /\ rest[1] = Local
  <2>1. order # << >> /\ order[1] = Local /\ Local \in Elements(order)
    BY <1>1, <1>2, LocalIsFree DEF Tidy
  <2>2. order[1] \in Elements(order) \ {id}
    BY <2>1
  <2> QED
    BY <1>9, <2>1, <2>2, OnlyFirst
<1>12. PICK r : r = Remove(d, id)
  OBVIOUS
<1>13. r = [d EXCEPT !.hosts = new, !.order = rest]
  <2>1. \A i \in DOMAIN left : left[i] \in Rec
    OBVIOUS
  <2>2. new = [i \in DOMAIN left |->
                 IF left[i].jump = id THEN [left[i] EXCEPT !.jump = NoHost] ELSE left[i]]
    BY <1>5, <1>6, <2>1 DEF Unjumped
  <2> QED
    BY <1>2, <1>3, <1>9, <1>12, <2>2 DEF Remove
<1>14. r \in Document /\ r.hosts = new /\ r.order = rest /\ r.groups = d.groups
  BY <1>7, <1>9, <1>13 DEF Document, Rec
<1> DEFINE M == Elements(hs)
<1>15. Reached(M, J) /\ M \in SUBSET Rec
  BY <1>1, <1>2, DocumentParts DEF Ready
<1>16. \A h \in M : /\ Unjumped(h, id).id = h.id /\ Unjumped(h, id).group = h.group
                    /\ Unjumped(h, id).jump = IF h.jump = id THEN NoHost ELSE h.jump
  BY <1>15, UnjumpedIs
<1>17. \A h \in M : h.group \in Elements(d.groups) \cup {NoGroup}
  BY <1>1, <1>2 DEF Tidy
<1>18. FreeIds(M) = Elements(order)
  BY <1>1, <1>2 DEF Tidy
<1> HIDE DEF M
<1>19. Ids(Without(M, id)) = Ids(M) \ {id}
  BY <1>16 DEF Ids, Without
<1>20. Reached(Without(M, id), J)
  BY <1>15, <1>16, <1>19 DEF Reached, Without
<1>21. FreeIds(Without(M, id)) = FreeIds(M) \ {id}
  BY <1>16 DEF FreeIds, Without
<1>22. \A h \in Without(M, id) : h.group \in Elements(d.groups) \cup {NoGroup}
  BY <1>16, <1>17 DEF Without
<1>23. Elements(new) = Without(M, id)
  BY <1>8 DEF M
<1>24. Ready(r, J) /\ Tidy(r)
  BY <1>4, <1>7, <1>9, <1>10, <1>11, <1>14, <1>18, <1>20, <1>21, <1>22, <1>23 DEF Ready, Tidy
<1> QED
  BY <1>2, <1>8, <1>12, <1>14, <1>24, SoundIs
(* An element that is inserted is one more, wherever it goes.              *)
LEMMA InsertedDistinct ==
  ASSUME NEW T, NEW s \in Seq(T), NEW x \in T, NEW i \in 1..(Len(s) + 1)
  PROVE  /\ Inserted(s, i, x) \in Seq(T)
         /\ Elements(Inserted(s, i, x)) = Elements(s) \cup {x}
         /\ Distinct(s) /\ x \notin Elements(s) => Distinct(Inserted(s, i, x))
<1>1. PICK n \in Nat : n = Len(s) /\ DOMAIN s = 1..n
  OBVIOUS
<1>2. PICK t : t = Inserted(s, i, x)
  OBVIOUS
<1>3. /\ t \in Seq(T) /\ Len(t) = n + 1
      /\ \A j \in 1..(n + 1) : t[j] = IF j < i THEN s[j] ELSE IF j = i THEN x ELSE s[j - 1]
  BY <1>1, <1>2, InsertedElements
<1>4. DOMAIN t = 1..(n + 1) /\ i \in 1..(n + 1)
  BY <1>1, <1>3
<1> DEFINE from(j) == IF j < i THEN j ELSE j - 1
<1>5. ASSUME NEW j \in 1..(n + 1), j # i
      PROVE  from(j) \in 1..n /\ t[j] = s[from(j)]
  BY <1>3, <1>4, <1>5
<1>6. t[i] = x
  BY <1>3, <1>4
<1>7. ASSUME NEW j \in 1..n PROVE \E l \in 1..(n + 1) : l # i /\ from(l) = j
  <2>1. CASE j < i
    BY <2>1, <1>4
  <2>2. CASE ~(j < i)
    <3>1. j + 1 \in 1..(n + 1) /\ j + 1 # i /\ from(j + 1) = j
      BY <2>2, <1>4
    <3> QED
      BY <3>1
  <2> QED
    BY <2>1, <2>2
<1>8. ASSUME NEW j \in 1..(n + 1), NEW l \in 1..(n + 1), j # i, l # i, from(j) = from(l)
      PROVE  j = l
  BY <1>4, <1>8
<1> HIDE DEF from
<1>9. Elements(t) = Elements(s) \cup {x}
  <2>1. ASSUME NEW y \in Elements(t) PROVE y \in Elements(s) \cup {x}
    <3>1. PICK j \in 1..(n + 1) : t[j] = y
      BY <1>4 DEF Elements
    <3> QED
      BY <1>1, <1>5, <1>6, <3>1 DEF Elements
  <2>2. ASSUME NEW y \in Elements(s) PROVE y \in Elements(t)
    <3>1. PICK j \in 1..n : s[j] = y
      BY <1>1 DEF Elements
    <3>2. PICK l \in 1..(n + 1) : l # i /\ from(l) = j
      BY <1>7
    <3> QED
      BY <1>4, <1>5, <3>1, <3>2 DEF Elements
  <2>3. x \in Elements(t)
    BY <1>4, <1>6 DEF Elements
  <2> QED
    BY <2>1, <2>2, <2>3
<1>10. ASSUME Distinct(s), x \notin Elements(s) PROVE Distinct(t)
  <2> SUFFICES ASSUME NEW j \in 1..(n + 1), NEW l \in 1..(n + 1), t[j] = t[l] PROVE j = l
    BY <1>4 DEF Distinct
  <2>1. \A k \in 1..n : s[k] # x
    BY <1>1, <1>10 DEF Elements
  <2>2. CASE j = i \/ l = i
    BY <1>5, <1>6, <2>1, <2>2
  <2>3. CASE j # i /\ l # i
    <3>1. s[from(j)] = s[from(l)] /\ from(j) \in 1..n /\ from(l) \in 1..n
      BY <1>5, <2>3
    <3>2. from(j) = from(l)
      BY <1>1, <1>10, <3>1 DEF Distinct
    <3> QED
      BY <1>8, <2>3, <3>2
  <2> QED
    BY <2>2, <2>3
<1> QED
  BY <1>2, <1>3, <1>9, <1>10

(* A host that is new in a sound document, beside another one.             *)
Beside(d, h, i, order, b, J) ==
  /\ d \in Document /\ Sound(d, J) /\ Savable(h, Elements(d.hosts), J)
  /\ h.id \notin Ids(Elements(d.hosts)) /\ i \in DOMAIN d.hosts
  /\ order \in Seq(0..MaxId) /\ Distinct(order)
  /\ b = [hosts |-> Inserted(d.hosts, i + 1, h), groups |-> d.groups, order |-> order]

(* The document a copy is put into is one that normalized takes.           *)
LEMMA BesideReady ==
  ASSUME NEW J, NEW d, NEW h, NEW i, NEW order, NEW b, Beside(d, h, i, order, b, J)
  PROVE  /\ Ready(b, J) /\ Elements(b.hosts) = Elements(d.hosts) \cup {h}
         /\ b.groups = d.groups
<1>0. /\ d \in Document /\ Sound(d, J) /\ Savable(h, Elements(d.hosts), J)
      /\ h.id \notin Ids(Elements(d.hosts)) /\ i \in DOMAIN d.hosts
      /\ order \in Seq(0..MaxId) /\ Distinct(order)
  BY DEF Beside
<1>1. Ready(d, J) /\ h \in Rec
  BY <1>0, SoundIs DEF Savable
<1>2. PICK hs \in Seq(Rec) : hs = d.hosts
  BY <1>0, DocumentParts
<1>3. i + 1 \in 1..(Len(hs) + 1)
  BY <1>0, <1>2
<1>4. PICK new : new = Inserted(hs, i + 1, h)
  OBVIOUS
<1>5. /\ new \in Seq(Rec) /\ Elements(new) = Elements(hs) \cup {h}
      /\ Distinct(hs) /\ h \notin Elements(hs) => Distinct(new)
  BY <1>1, <1>3, <1>4, InsertedDistinct
<1>6. Distinct(hs) /\ \A x, y \in Elements(hs) : x.id = y.id => x = y
  BY <1>1, <1>2, IdsDistinct DEF Ready
<1>7. \A x \in Elements(hs) : x.id # h.id
  BY <1>0, <1>2 DEF Ids
<1>8. Distinct(IdList(new))
  <2>1. h \notin Elements(hs)
    BY <1>7
  <2>2. \A x, y \in Elements(hs) \cup {h} : x.id = y.id => x = y
    BY <1>6, <1>7
  <2> QED
    BY <1>5, <1>6, <2>1, <2>2, IdsDistinct
<1>9. b.hosts = new /\ b.order = order /\ b.groups = d.groups /\ b \in Document
  <2>1. b = [hosts |-> new, groups |-> d.groups, order |-> order]
    BY <1>2, <1>4 DEF Beside
  <2> QED
    BY <1>0, <1>5, <2>1 DEF Document, Rec
<1>10. Reached(Elements(hs) \cup {h}, J)
  <2>1. Reached(Elements(hs), J) /\ h.jump \in Ids(Elements(hs)) \cup {NoHost} \cup J
    BY <1>0, <1>1, <1>2 DEF Ready, Savable
  <2>2. Ids(Elements(hs) \cup {h}) = Ids(Elements(hs)) \cup {h.id}
    BY DEF Ids
  <2> QED
    BY <2>1, <2>2 DEF Reached
<1>11. Ready(b, J)
  BY <1>0, <1>5, <1>8, <1>9, <1>10 DEF Ready
<1> QED
  BY <1>2, <1>5, <1>9, <1>11

(* DuplicateHost: the copy goes beside its original in the shell's         *)
(* document and to the end of Config's.                                    *)
LEMMA CopyAgrees ==
  ASSUME NEW J, NEW a, NEW c, Agree(a, c, J), NEW h, Savable(h, Elements(a.hosts), J),
         h.id \notin Ids(Elements(a.hosts)),
         h.group \in Elements(a.groups) \cup {NoGroup},
         NEW b, Ready(b, J), Elements(b.hosts) = Elements(a.hosts) \cup {h}, b.groups = a.groups
  PROVE  Agree(Normalized(Upsert(Normalized(b), h)), Normalized(Upsert(c, h)), J)
<1> DEFINE M == Elements(a.hosts)
           G == Elements(a.groups)
<1>1. /\ a \in Document /\ c \in Document /\ Sound(a, J) /\ Sound(c, J)
      /\ Elements(c.hosts) = M /\ Elements(c.groups) = G
  BY DEF Agree, Same
<1>2. PICK n : n = Normalized(b)
  OBVIOUS
<1>3. /\ n \in Document /\ Sound(n, J) /\ Elements(n.groups) = G
      /\ Elements(n.hosts) = Grounded(M \cup {h}, G)
  BY <1>2, NormalizedReady
<1>4. Ground(h, G) = h
  <2>1. h \in Rec /\ h.id # Local
    BY DEF Savable
  <2> QED
    BY <2>1, GroundIs
<1>5. Grounded(M, G) = M
  BY <1>1, GroundedSame
<1> HIDE DEF M, G
<1>6. Grounded(M \cup {h}, G) = M \cup {h}
  BY <1>4, <1>5 DEF Grounded
<1>7. With(Elements(n.hosts), h) = With(Elements(c.hosts), h)
  BY <1>1, <1>3, <1>6 DEF With
<1>8. Savable(h, Elements(n.hosts), J) /\ Savable(h, Elements(c.hosts), J)
  BY <1>1, <1>3, <1>6 DEF Savable, Ids, M
<1>9. Agree(Normalized(Upsert(n, h)), Normalized(Upsert(c, h)), J)
  BY <1>1, <1>3, <1>7, <1>8, SavedAgree
<1> QED
  BY <1>2, <1>9
-----------------------------------------------------------------------------
(* The hosts of the window.                                                *)
HostInv ==
  Agree(hosts, config, named) /\ made \in 0..MaxItems /\ named \in SUBSET (1..MaxId)

(* Two copies that agree still do when more jump hosts may be gone.        *)
LEMMA AgreeGrows ==
  ASSUME NEW a, NEW c, NEW J, NEW K, J \subseteq K, Agree(a, c, J)
  PROVE  Agree(a, c, K)
<1>1. /\ a \in Document /\ c \in Document /\ Sound(a, J) /\ Sound(c, J)
      /\ Same(a, c)
  BY DEF Agree
<1>2. \A M : Reached(M, J) => Reached(M, K)
  BY DEF Reached
<1>3. \A d \in Document : Sound(d, J) => Sound(d, K)
  <2> SUFFICES ASSUME NEW d \in Document, Sound(d, J) PROVE Sound(d, K)
    OBVIOUS
  <2>1. Ready(d, J) /\ Tidy(d)
    BY SoundIs
  <2>2. Ready(d, K)
    BY <1>2, <2>1 DEF Ready
  <2> QED
    BY <2>1, <2>2, SoundIs
<1> QED
  BY <1>1, <1>3 DEF Agree

(* What TabInv knows of the counters.                                      *)
Counted == next_id \in 1..(MaxId + 1) /\ opened \in Nat

(* What the invariant says of either copy.                                 *)
LEMMA HostParts ==
  ASSUME HostInv
  PROVE  /\ hosts \in Document /\ config \in Document /\ Sound(hosts, named) /\ Sound(config, named)
         /\ Elements(config.hosts) = Elements(hosts.hosts)
         /\ Elements(config.groups) = Elements(hosts.groups)
         /\ Ready(hosts, named) /\ Ready(config, named) /\ Tidy(hosts) /\ Same(hosts, config)
         /\ HostIds(hosts) = Ids(Elements(hosts.hosts))
         /\ Elements(hosts.hosts) \in SUBSET Rec
<1>1. /\ hosts \in Document /\ config \in Document /\ Sound(hosts, named) /\ Sound(config, named)
      /\ Same(hosts, config)
  BY DEF HostInv, Agree
<1>2. Ready(hosts, named) /\ Ready(config, named) /\ Tidy(hosts)
  BY <1>1, SoundIs
<1>3. HostIds(hosts) = Ids(Elements(hosts.hosts))
  BY DEF HostIds, Ids, Elements
<1>4. Elements(hosts.hosts) \in SUBSET Rec
  BY <1>1, DocumentParts
<1> QED
  BY <1>1, <1>2, <1>3, <1>4 DEF Same

(* What the window has room for.                                           *)
LEMMA RoomForOne ==
  ASSUME HostInv, Counted, Room
  PROVE  made + 1 \in 1..MaxItems
<1>1. PICK gs \in Seq(1..MaxId) : gs = hosts.groups
  BY HostParts, DocumentParts
<1>2. Len(gs) \in Nat /\ made \in Nat /\ opened \in Nat /\ MaxItems \in Nat
  BY ShellAssumption DEF HostInv, Counted
<1>3. made + opened + Len(gs) < MaxItems
  BY <1>1 DEF Room
<1> QED
  BY <1>2, <1>3

(* A host whose id the user's hosts, or the tabs, jump through.            *)
LEMMA MadeIds ==
  ASSUME HostInv, NEW jump \in {NoHost} \cup MadeHosts \cup named
  PROVE  jump \in 0..MaxId /\ jump \in Ids(Elements(hosts.hosts)) \cup {NoHost} \cup named
<1>1. MadeHosts \subseteq Ids(Elements(hosts.hosts))
  BY HostParts DEF MadeHosts
<1>2. Ids(Elements(hosts.hosts)) \subseteq 0..MaxId
  BY HostParts DEF Ids, Rec
<1>3. NoHost \in 0..MaxId
  BY ShellAssumption DEF NoHost
<1>4. named \subseteq 0..MaxId
  BY ShellAssumption DEF HostInv
<1> QED
  BY <1>1, <1>2, <1>3, <1>4

(* save_host of the window.                                                *)
LEMMA SavedKeeps ==
  ASSUME HostInv, NEW h, Savable(h, Elements(hosts.hosts), named), SaveHost(hosts, h),
         made' \in 0..MaxItems, named' = named
  PROVE  HostInv'
<1>1. Savable(h, Elements(config.hosts), named)
  BY HostParts
<1>2. Agree(Normalized(Upsert(hosts, h)), Normalized(Upsert(config, h)), named)
  BY <1>1, HostParts, SavedAgree
<1> QED
  BY <1>2 DEF SaveHost, HostInv

(* A host that is made, whose id may be that of a saved one: it takes its  *)
(* place in both copies.                                                   *)
LEMMA MakeHostKeeps ==
  ASSUME HostInv, Counted, NEW jumps, jumps \subseteq {NoHost} \cup MadeHosts \cup named,
         MakeHost(jumps)
  PROVE  HostInv'
<1>1. PICK jump \in jumps : SaveHost(hosts, Host(next_id, made + 1, NoGroup, jump))
  BY DEF MakeHost
<1>2. PICK h : h = Host(next_id, made + 1, NoGroup, jump)
  OBVIOUS
<1>3. made + 1 \in 1..MaxItems /\ made' = made + 1 /\ named' = named
  BY RoomForOne DEF MakeHost, tabVars
<1>4. next_id \in 1..MaxId
  BY ShellAssumption DEF MakeHost, Counted
<1>5. jump \in 0..MaxId /\ jump \in Ids(Elements(hosts.hosts)) \cup {NoHost} \cup named
  BY MadeIds
<1>6. /\ h.id = next_id /\ h.jump = jump
      /\ h = [id |-> next_id, who |-> made + 1, group |-> NoGroup, jump |-> jump]
  BY <1>2 DEF Host
<1>7. h \in Rec
  BY <1>3, <1>4, <1>5, <1>6, ShellAssumption DEF Rec, NoGroup
<1>8. Savable(h, Elements(hosts.hosts), named)
  BY <1>4, <1>5, <1>6, <1>7 DEF Savable, Local
<1> QED
  BY <1>1, <1>2, <1>3, <1>8, SavedKeeps

(* A new host, and one saved from a tab.                                   *)
LEMMA NewHostKeeps == HostInv /\ Counted /\ (NewHost \/ SaveAsHost) => HostInv'
<1>1. {NoHost} \cup (MadeHosts \ {next_id}) \subseteq {NoHost} \cup MadeHosts \cup named
  OBVIOUS
<1>2. named \subseteq {NoHost} \cup MadeHosts \cup named
  OBVIOUS
<1> QED
  BY <1>1, <1>2, MakeHostKeeps DEF NewHost, SaveAsHost

(* A host is found by its id.                                              *)
LEMMA HostFound ==
  ASSUME HostInv, NEW id \in HostIds(hosts)
  PROVE  HostOf(hosts, id) \in Elements(hosts.hosts) /\ HostOf(hosts, id).id = id
<1>1. \E i \in DOMAIN hosts.hosts : hosts.hosts[i].id = id
  BY DEF HostIds
<1> QED
  BY <1>1 DEF HostOf, Elements

(* An edited host.                                                         *)
LEMMA EditHostKeeps == HostInv /\ EditHost => HostInv'
<1> SUFFICES ASSUME HostInv, EditHost PROVE HostInv'
  OBVIOUS
<1>0. PICK id \in MadeHosts :
        \E jump \in {NoHost, HostOf(hosts, id).jump} \cup (MadeHosts \ {id}) :
          SaveHost(hosts, [HostOf(hosts, id) EXCEPT !.jump = jump])
  BY DEF EditHost
<1>1. PICK jump \in {NoHost, HostOf(hosts, id).jump} \cup (MadeHosts \ {id}) :
        SaveHost(hosts, [HostOf(hosts, id) EXCEPT !.jump = jump])
  BY <1>0
<1>2. PICK old : old = HostOf(hosts, id)
  OBVIOUS
<1>3. old \in Rec /\ old \in Elements(hosts.hosts) /\ old.id = id /\ id # Local
  BY <1>2, HostFound, HostParts DEF MadeHosts
<1>4. PICK h : h = [old EXCEPT !.jump = jump]
  OBVIOUS
<1>5. jump \in 0..MaxId /\ jump \in Ids(Elements(hosts.hosts)) \cup {NoHost} \cup named
  <2>1. CASE jump = old.jump
    BY <1>3, <2>1, HostParts DEF Ready, Reached, Rec
  <2>2. CASE jump # old.jump
    <3>1. jump \in {NoHost} \cup MadeHosts \cup named
      BY <1>1, <1>2, <2>2
    <3> QED
      BY <3>1, MadeIds
  <2> QED
    BY <2>1, <2>2
<1>6. h \in Rec /\ h.id = id /\ h.jump = jump
  BY <1>3, <1>4, <1>5 DEF Rec
<1>7. Savable(h, Elements(hosts.hosts), named)
  BY <1>3, <1>5, <1>6 DEF Savable
<1>8. made' \in 0..MaxItems /\ named' = named
  BY DEF EditHost, HostInv, tabVars
<1> QED
  BY <1>1, <1>2, <1>4, <1>7, <1>8, SavedKeeps

(* A deleted host: the window's copy is not normalized.                    *)
LEMMA DeleteHostKeeps == HostInv /\ DeleteHost => HostInv'
<1> SUFFICES ASSUME HostInv, DeleteHost PROVE HostInv'
  OBVIOUS
<1>1. PICK id \in MadeHosts : hosts' = Remove(hosts, id) /\ config' = Normalized(Remove(config, id))
  BY DEF DeleteHost
<1>2. id # Local
  BY DEF MadeHosts
<1>3. PICK r, s : r = Remove(hosts, id) /\ s = Remove(config, id)
  OBVIOUS
<1>4. /\ r \in Document /\ Sound(r, named) /\ Elements(r.hosts) = Without(Elements(hosts.hosts), id)
      /\ r.groups = hosts.groups
  BY <1>2, <1>3, HostParts, RemoveSound
<1>5. /\ s \in Document /\ Sound(s, named)
      /\ Elements(s.hosts) = Without(Elements(config.hosts), id)
      /\ s.groups = config.groups
  BY <1>2, <1>3, HostParts, RemoveSound
<1>6. Ready(s, named)
  BY <1>5, SoundIs
<1>7. PICK n : n = Normalized(s)
  OBVIOUS
<1>8. /\ n \in Document /\ Sound(n, named) /\ Elements(n.groups) = Elements(s.groups)
      /\ Elements(n.hosts) = Grounded(Elements(s.hosts), Elements(s.groups))
  BY <1>6, <1>7, NormalizedReady
<1>9. Elements(n.hosts) = Elements(s.hosts)
  BY <1>5, <1>8, GroundedSame
<1>10. Same(r, n)
  BY <1>4, <1>5, <1>8, <1>9, HostParts DEF Same
<1>11. made' = made /\ named' = named
  BY DEF DeleteHost, tabVars
<1> QED
  BY <1>1, <1>3, <1>4, <1>7, <1>8, <1>10, <1>11 DEF HostInv, Agree
(* A document whose hosts only changed their groups.                       *)
LEMMA RegroupedReady ==
  ASSUME NEW d, Ready(d, named), NEW F \in [Rec -> Rec],
         \A h \in Rec : F[h].id = h.id /\ F[h].jump = h.jump,
         NEW b \in Document, b.hosts = [i \in DOMAIN d.hosts |-> F[d.hosts[i]]], Distinct(b.order)
  PROVE  Ready(b, named)
<1>1. d \in Document /\ Distinct(IdList(d.hosts)) /\ Reached(Elements(d.hosts), named)
  BY DEF Ready
<1>2. PICK hs \in Seq(Rec) : hs = d.hosts
  BY <1>1, DocumentParts
<1>3. PICK new : new = b.hosts
  OBVIOUS
<1>4. IdList(new) = IdList(hs) /\ Elements(new) = {F[h] : h \in Elements(hs)}
  <2>1. \A h \in Rec : F[h].id = h.id
    OBVIOUS
  <2>2. /\ IdList([i \in DOMAIN hs |-> F[hs[i]]]) = IdList(hs)
        /\ Elements([i \in DOMAIN hs |-> F[hs[i]]]) = {F[h] : h \in Elements(hs)}
    BY <2>1, Mapped
  <2>3. new = [i \in DOMAIN hs |-> F[hs[i]]]
    BY <1>2, <1>3
  <2> QED
    BY <2>2, <2>3, Zenon
<1> DEFINE M == Elements(hs)
           N == {F[h] : h \in M}
<1>5. M \in SUBSET Rec /\ Reached(M, named)
  BY <1>1, <1>2, DocumentParts
<1> HIDE DEF M
<1>6. Ids(N) = Ids(M)
  BY <1>5 DEF Ids
<1>7. Reached(N, named)
  <2>1. ASSUME NEW x \in N PROVE x.jump \in Ids(M) \cup {NoHost} \cup named
    <3>1. PICK h \in M : x = F[h]
      OBVIOUS
    <3>2. x.jump = h.jump
      BY <1>5, <3>1
    <3> QED
      BY <1>5, <3>2 DEF Reached
  <2>2. Local \in Ids(M)
    BY <1>5 DEF Reached
  <2> HIDE DEF N
  <2> QED
    BY <1>6, <2>1, <2>2 DEF Reached
<1>8. Elements(new) = N
  BY <1>4 DEF M
<1> QED
  BY <1>1, <1>2, <1>3, <1>4, <1>7, <1>8 DEF Ready

(* What both copies become at once.                                        *)
LEMMA PersistedKeeps ==
  ASSUME HostInv, NEW d, Persisted(d), d \in Document, Sound(d, named), made' = made,
         named' = named
  PROVE  HostInv'
BY DEF Persisted, HostInv, Agree, Same

(* A new group, whose id may be that of another.                           *)
LEMMA NewGroupKeeps == HostInv /\ Counted /\ NewGroup => HostInv'
<1> SUFFICES ASSUME HostInv, Counted, NewGroup PROVE HostInv'
  OBVIOUS
<1>1. PICK gs \in Seq(1..MaxId) : gs = hosts.groups
  BY HostParts, DocumentParts
<1>2. next_id \in 1..MaxId
  BY ShellAssumption DEF NewGroup, Counted
<1>3. Append(gs, next_id) \in Seq(1..MaxId)
  BY <1>2
<1>4. Elements(Append(gs, next_id)) = Elements(gs) \cup {next_id}
  BY AppendElements
<1>5. PICK d : d = [hosts EXCEPT !.groups = Append(gs, next_id)]
  OBVIOUS
<1>6. /\ d \in Document /\ d.hosts = hosts.hosts /\ d.order = hosts.order
      /\ d.groups = Append(gs, next_id)
  BY <1>3, <1>5, HostParts DEF Document
<1>7. Ready(d, named)
  BY <1>6, HostParts DEF Ready
<1>8. Tidy(d)
  BY <1>1, <1>4, <1>6, HostParts DEF Tidy
<1>9. Sound(d, named)
  BY <1>6, <1>7, <1>8, SoundIs
<1>10. Persisted(d) /\ made' = made /\ named' = named
  BY <1>1, <1>5 DEF NewGroup, tabVars
<1> QED
  BY <1>6, <1>9, <1>10, PersistedKeeps

(* A deleted group leaves its hosts in none.                               *)
LEMMA DeleteGroupKeeps == HostInv /\ DeleteGroup => HostInv'
<1> SUFFICES ASSUME HostInv, DeleteGroup PROVE HostInv'
  OBVIOUS
<1>1. PICK group \in GroupIds(hosts) :
        LET left == [i \in DOMAIN hosts.hosts |->
                       IF hosts.hosts[i].group = group
                       THEN [hosts.hosts[i] EXCEPT !.group = NoGroup] ELSE hosts.hosts[i]]
        IN  Persisted(Normalized(
              [hosts EXCEPT !.groups = Only(@, Elements(@) \ {group}), !.hosts = left]))
  BY DEF DeleteGroup
<1>2. PICK hs \in Seq(Rec), gs \in Seq(1..MaxId) : hs = hosts.hosts /\ gs = hosts.groups
  BY HostParts, DocumentParts
<1> DEFINE F == [h \in Rec |-> IF h.group = group THEN [h EXCEPT !.group = NoGroup] ELSE h]
<1>3. NoGroup \in 0..MaxId
  BY ShellAssumption DEF NoGroup
<1>4. F \in [Rec -> Rec] /\ \A h \in Rec : F[h].id = h.id /\ F[h].jump = h.jump
  BY <1>3 DEF Rec
<1>5. [i \in DOMAIN hs |-> F[hs[i]]] =
        [i \in DOMAIN hs |-> IF hs[i].group = group THEN [hs[i] EXCEPT !.group = NoGroup] ELSE hs[i]]
  BY \A i \in DOMAIN hs : hs[i] \in Rec
<1>6. \A h \in Rec : F[h].id = h.id
  BY <1>4
<1> HIDE DEF F
<1>7. [i \in DOMAIN hs |-> F[hs[i]]] \in Seq(Rec)
  BY <1>4, <1>6, Mapped
<1>8. PICK new \in Seq(Rec) : new = [i \in DOMAIN hs |-> F[hs[i]]]
  BY <1>7
<1>9. PICK groups \in Seq(1..MaxId) : groups = Only(gs, Elements(gs) \ {group})
  BY OnlyKeeps
<1>10. PICK d : d = [hosts EXCEPT !.groups = groups, !.hosts = new]
  OBVIOUS
<1>11. d \in Document /\ d.hosts = new /\ d.order = hosts.order
  BY <1>10, HostParts DEF Document, Rec
<1>12. Ready(d, named)
  <2>1. Distinct(d.order)
    BY <1>11, HostParts DEF Ready
  <2>2. d.hosts = [i \in DOMAIN hosts.hosts |-> F[hosts.hosts[i]]]
    BY <1>2, <1>8, <1>11
  <2> QED
    BY <1>4, <1>11, <2>1, <2>2, HostParts, RegroupedReady
<1>13. Normalized(d) \in Document /\ Sound(Normalized(d), named)
  BY <1>12, NormalizedReady
<1>14. Persisted(Normalized(d))
  BY <1>1, <1>2, <1>5, <1>8, <1>9, <1>10
<1>15. made' = made /\ named' = named
  BY DEF DeleteGroup, tabVars
<1> QED
  BY <1>13, <1>14, <1>15, PersistedKeeps

(* A host that is dragged, the local terminal included.                    *)
LEMMA MoveHostKeeps == HostInv /\ MoveHost => HostInv'
<1> SUFFICES ASSUME HostInv, MoveHost PROVE HostInv'
  OBVIOUS
<1>1. PICK hs \in Seq(Rec), gs \in Seq(1..MaxId), was \in Seq(0..MaxId) :
        hs = hosts.hosts /\ gs = hosts.groups /\ was = hosts.order
  BY HostParts, DocumentParts
<1>2. PICK id \in HostIds(hosts), group \in GroupIds(hosts) \cup {NoGroup} :
        LET order == Only(hosts.order, Elements(hosts.order) \ {id})
            moved == [i \in DOMAIN hosts.hosts |->
                        IF hosts.hosts[i].id = id
                        THEN [hosts.hosts[i] EXCEPT !.group = group] ELSE hosts.hosts[i]]
        IN  \E place \in IF group = NoGroup THEN 1..(Len(order) + 1) ELSE {1} :
              Persisted(Normalized(
                [hosts EXCEPT !.hosts = moved,
                              !.order = IF group = NoGroup
                                        THEN Inserted(order, place, id) ELSE order]))
  BY DEF MoveHost
<1>3. PICK order \in Seq(0..MaxId) : /\ order = Only(was, Elements(was) \ {id})
                                     /\ Elements(order) = Elements(was) \cap (Elements(was) \ {id})
                                     /\ Distinct(order)
  <2>1. Distinct(was)
    BY <1>1, HostParts DEF Ready
  <2> QED
    BY <2>1, OnlyKeeps, OnlyDistinct
<1> DEFINE F == [h \in Rec |-> IF h.id = id THEN [h EXCEPT !.group = group] ELSE h]
<1>4. group \in 0..MaxId /\ id \in 0..MaxId
  <2>1. GroupIds(hosts) \subseteq 1..MaxId
    <3>1. gs \in Seq(1..MaxId) /\ GroupIds(hosts) = Elements(gs)
      BY <1>1 DEF GroupIds
    <3>2. Elements(gs) \subseteq 1..MaxId
      BY <3>1, ElementsIn
    <3> QED
      BY <3>1, <3>2
  <2>2. Ids(Elements(hosts.hosts)) \subseteq 0..MaxId
    BY HostParts DEF Ids, Rec
  <2> QED
    BY <2>1, <2>2, HostParts, ShellAssumption DEF NoGroup
<1>5. F \in [Rec -> Rec] /\ \A h \in Rec : F[h].id = h.id /\ F[h].jump = h.jump
  BY <1>4 DEF Rec
<1>6. [i \in DOMAIN hs |-> F[hs[i]]] =
        [i \in DOMAIN hs |-> IF hs[i].id = id THEN [hs[i] EXCEPT !.group = group] ELSE hs[i]]
  BY \A i \in DOMAIN hs : hs[i] \in Rec
<1>7. \A h \in Rec : F[h].id = h.id
  BY <1>5
<1> HIDE DEF F
<1>8. [i \in DOMAIN hs |-> F[hs[i]]] \in Seq(Rec)
  BY <1>5, <1>7, Mapped
<1>9. PICK moved \in Seq(Rec) : moved = [i \in DOMAIN hs |-> F[hs[i]]]
  BY <1>8
<1>10. PICK place \in IF group = NoGroup THEN 1..(Len(order) + 1) ELSE {1} :
         Persisted(Normalized(
           [hosts EXCEPT !.hosts = moved,
                         !.order = IF group = NoGroup
                                   THEN Inserted(order, place, id) ELSE order]))
  BY <1>1, <1>2, <1>3, <1>6, <1>9
<1>11. PICK there : there = IF group = NoGroup THEN Inserted(order, place, id) ELSE order
  OBVIOUS
<1>12. there \in Seq(0..MaxId) /\ Distinct(there)
  <2>1. CASE group = NoGroup
    <3>1. place \in 1..(Len(order) + 1)
      BY <1>10, <2>1
    <3>2. id \notin Elements(order)
      BY <1>3
    <3>3. /\ Inserted(order, place, id) \in Seq(0..MaxId)
          /\ Distinct(order) /\ id \notin Elements(order) => Distinct(Inserted(order, place, id))
      BY <1>4, <3>1, InsertedDistinct
    <3> QED
      BY <1>3, <1>11, <2>1, <3>2, <3>3
  <2>2. CASE group # NoGroup
    BY <1>3, <1>11, <2>2
  <2> QED
    BY <2>1, <2>2
<1>13. PICK d : d = [hosts EXCEPT !.hosts = moved, !.order = there]
  OBVIOUS
<1>14. d \in Document /\ d.hosts = moved /\ d.order = there
  BY <1>12, <1>13, HostParts DEF Document, Rec
<1>15. Ready(d, named)
  <2>1. d.hosts = [i \in DOMAIN hosts.hosts |-> F[hosts.hosts[i]]]
    BY <1>1, <1>9, <1>14
  <2> QED
    BY <1>5, <1>12, <1>14, <2>1, HostParts, RegroupedReady
<1>16. Normalized(d) \in Document /\ Sound(Normalized(d), named)
  BY <1>15, NormalizedReady
<1>17. Persisted(Normalized(d))
  BY <1>10, <1>11, <1>13
<1>18. made' = made /\ named' = named
  BY DEF MoveHost, tabVars
<1> QED
  BY <1>16, <1>17, <1>18, PersistedKeeps
(* The place of what is in a list.                                         *)
LEMMA PlaceFound ==
  ASSUME NEW T, NEW s \in Seq(T), NEW x \in Elements(s)
  PROVE  PlaceOf(s, x) \in DOMAIN s
<1>1. PICK n \in Nat : n = Len(s) /\ DOMAIN s = 1..n
  OBVIOUS
<1> DEFINE S == {i \in 1..n : s[i] = x}
<1>2. S \in SUBSET Nat /\ S # {}
  BY <1>1 DEF Elements
<1>3. PICK i \in S : \A j \in S : i <= j
  BY <1>2, SmallestOf
<1>4. i \in 1..n /\ s[i] = x
  BY <1>3
<1>5. \A j \in 1..i - 1 : s[j] # x
  BY <1>3, <1>4
<1>6. \E k \in DOMAIN s : s[k] = x /\ \A j \in 1..(k - 1) : s[j] # x
  BY <1>1, <1>4, <1>5
<1> QED
  BY <1>6 DEF PlaceOf

(* A copied host: the two copies of the document take it up at different   *)
(* places.                                                                 *)
LEMMA DuplicateHostKeeps == HostInv /\ Counted /\ DuplicateHost => HostInv'
<1> SUFFICES ASSUME HostInv, Counted, DuplicateHost PROVE HostInv'
  OBVIOUS
<1>1. PICK hs \in Seq(Rec), was \in Seq(0..MaxId) : hs = hosts.hosts /\ was = hosts.order
  BY HostParts, DocumentParts
<1>2. PICK i \in DOMAIN hs : \E id \in {n \in next_id..MaxId : n \notin HostIds(hosts)} :
        LET original == hs[i]
            copy == [original EXCEPT !.id = id, !.who = made + 1]
            order == IF copy.group # NoGroup THEN was
                     ELSE Inserted(was, PlaceOf(was, original.id) + 1, id)
            beside == [hosts EXCEPT !.hosts = Inserted(@, i + 1, copy), !.order = order]
        IN  Room /\ made' = made + 1 /\ SaveHost(Normalized(beside), copy)
  BY <1>1 DEF DuplicateHost
<1>3. PICK id \in {n \in next_id..MaxId : n \notin HostIds(hosts)} :
        LET original == hs[i]
            copy == [original EXCEPT !.id = id, !.who = made + 1]
            order == IF copy.group # NoGroup THEN was
                     ELSE Inserted(was, PlaceOf(was, original.id) + 1, id)
            beside == [hosts EXCEPT !.hosts = Inserted(@, i + 1, copy), !.order = order]
        IN  Room /\ made' = made + 1 /\ SaveHost(Normalized(beside), copy)
  BY <1>2
<1>4. PICK original, copy : original = hs[i] /\ copy = [original EXCEPT !.id = id, !.who = made + 1]
  OBVIOUS
<1>5. PICK order : order = IF copy.group # NoGroup THEN was
                           ELSE Inserted(was, PlaceOf(was, original.id) + 1, id)
  OBVIOUS
<1>6. PICK beside : beside = [hosts EXCEPT !.hosts = Inserted(@, i + 1, copy), !.order = order]
  OBVIOUS
<1>7. Room /\ made' = made + 1 /\ SaveHost(Normalized(beside), copy)
  BY <1>3, <1>4, <1>5, <1>6
<1>8. made + 1 \in 1..MaxItems
  BY <1>7, RoomForOne
<1>9. id \in 1..MaxId /\ id \notin Ids(Elements(hosts.hosts))
  <2>1. next_id \in Nat \ {0} /\ MaxId \in Nat /\ id \in next_id..MaxId
    BY ShellAssumption DEF Counted
  <2>2. id \in 1..MaxId
    BY <2>1
  <2>3. id \notin HostIds(hosts)
    OBVIOUS
  <2> QED
    BY <2>2, <2>3, HostParts
<1>10. original \in Rec /\ original \in Elements(hosts.hosts)
  <2>1. hs[i] \in Rec
    BY <1>1
  <2>2. hs[i] \in Elements(hs)
    BY DEF Elements
  <2> QED
    BY <1>1, <1>4, <2>1, <2>2
<1>11. /\ copy \in Rec /\ copy.id = id /\ copy.group = original.group
       /\ copy.jump = original.jump
  <2>1. PICK who : who = made + 1
    OBVIOUS
  <2>2. who \in 0..MaxItems /\ id \in 0..MaxId
    BY <1>8, <1>9, <2>1
  <2>3. copy = [original EXCEPT !.id = id, !.who = who]
    BY <1>4, <2>1
  <2> QED
    BY <1>10, <2>2, <2>3 DEF Rec
<1>12. /\ copy.group \in Elements(hosts.groups) \cup {NoGroup}
       /\ copy.jump \in Ids(Elements(hosts.hosts)) \cup {NoHost} \cup named
  BY <1>10, <1>11, HostParts DEF Ready, Reached, Tidy
<1>13. Savable(copy, Elements(hosts.hosts), named)
  BY <1>9, <1>11, <1>12 DEF Savable, Local
<1>14. order \in Seq(0..MaxId) /\ Distinct(order)
  <2>1. Distinct(was) /\ Elements(was) = FreeIds(Elements(hosts.hosts))
    BY <1>1, HostParts DEF Ready, Tidy
  <2>2. CASE copy.group # NoGroup
    BY <1>1, <1>5, <2>1, <2>2
  <2>3. CASE copy.group = NoGroup
    <3>1. original.id \in Elements(was)
      BY <1>10, <1>11, <2>1, <2>3 DEF FreeIds
    <3>2. PICK place : place = PlaceOf(was, original.id) + 1
      OBVIOUS
    <3>3. place \in 1..(Len(was) + 1)
      <4>1. PlaceOf(was, original.id) \in DOMAIN was
        BY <3>1, PlaceFound
      <4>2. PICK k \in DOMAIN was : place = k + 1
        BY <3>2, <4>1
      <4>3. PICK n \in Nat : n = Len(was) /\ DOMAIN was = 1..n
        BY <1>1
      <4> QED
        BY <4>2, <4>3
    <3>4. id \in 0..MaxId /\ id \notin Elements(was)
      BY <1>9, <2>1 DEF FreeIds, Ids
    <3>5. /\ Inserted(was, place, id) \in Seq(0..MaxId)
          /\ Distinct(was) /\ id \notin Elements(was) => Distinct(Inserted(was, place, id))
      BY <3>3, <3>4, InsertedDistinct
    <3>6. order = Inserted(was, place, id)
      BY <1>5, <2>3, <3>2
    <3> QED
      BY <2>1, <3>4, <3>5, <3>6
  <2> QED
    BY <2>2, <2>3
<1>15. /\ Ready(beside, named) /\ Elements(beside.hosts) = Elements(hosts.hosts) \cup {copy}
       /\ beside.groups = hosts.groups
  <2>1. copy.id \notin Ids(Elements(hosts.hosts)) /\ i \in DOMAIN hosts.hosts
    BY <1>1, <1>9, <1>11
  <2>2. hosts \in Document /\ Sound(hosts, named)
    BY HostParts
  <2>3. beside = [hosts |-> Inserted(hosts.hosts, i + 1, copy), groups |-> hosts.groups,
                  order |-> order]
    BY <1>6, <2>2 DEF Document
  <2>4. Beside(hosts, copy, i, order, beside, named)
    BY <1>13, <1>14, <2>1, <2>2, <2>3 DEF Beside
  <2> QED
    BY <2>4, BesideReady
<1>16. Agree(Normalized(Upsert(Normalized(beside), copy)), Normalized(Upsert(config, copy)), named)
  <2>1. Agree(hosts, config, named) /\ copy.id \notin Ids(Elements(hosts.hosts))
    BY <1>9, <1>11 DEF HostInv
  <2> QED
    BY <1>12, <1>13, <1>15, <2>1, CopyAgrees
<1>17. made' \in 0..MaxItems /\ named' = named
  BY <1>7, <1>8 DEF DuplicateHost, tabVars
<1> QED
  BY <1>7, <1>16, <1>17 DEF SaveHost, HostInv

(* After a restart both copies are what normalized makes of the file.      *)
LEMMA RestartKeeps == HostInv /\ Restart => HostInv'
<1> SUFFICES ASSUME HostInv, Restart PROVE HostInv'
  OBVIOUS
<1>1. /\ hosts' = Normalized(config) /\ config' = Normalized(config)
      /\ made' = made /\ named' = named
  BY DEF Restart
<1>2. Normalized(config) \in Document /\ Sound(Normalized(config), named)
  BY HostParts, NormalizedReady
<1> QED
  BY <1>1, <1>2 DEF HostInv, Agree, Same

(* The first launch.                                                       *)
LEMMA HostsInit == ShellInit => HostInv
<1> SUFFICES ASSUME ShellInit PROVE HostInv
  OBVIOUS
<1>1. hosts \in Document /\ Sound(hosts, named)
  BY NormalizedEmpty DEF ShellInit
<1> QED
  BY <1>1, ShellAssumption DEF ShellInit, HostInv, Agree, Same

(* What the tabs name are hosts, or the jump hosts of hosts.               *)
LEMMA NamedKeeps == HostInv /\ TabStep => HostInv'
<1> SUFFICES ASSUME HostInv, TabStep PROVE HostInv'
  OBVIOUS
<1>1. UNCHANGED hostVars
  BY DEF TabStep, OpenTab, EditTab, Close, Select, Reorder, Show, StoreData, hostVars
<1>2. named \in SUBSET (1..MaxId)
  BY DEF HostInv
<1>3. named \subseteq named' /\ named' \in SUBSET (1..MaxId)
  <2>1. CASE OpenTab
    <3>1. \A h \in Elements(hosts.hosts) : h.jump \in 0..MaxId
      BY HostParts DEF Rec
    <3>2. \A h \in Elements(hosts.hosts) : {h.jump} \ {NoHost} \in SUBSET (1..MaxId)
      BY <3>1, ShellAssumption DEF NoHost
    <3>3. \/ named' = named
          \/ \E h \in Elements(hosts.hosts) : named' = named \cup ({h.jump} \ {NoHost})
      BY <2>1 DEF OpenTab
    <3> QED
      BY <1>2, <3>2, <3>3
  <2>2. CASE EditTab
    <3>1. PICK id \in MadeHosts : named' = named \cup {id}
      BY <2>2 DEF EditTab
    <3>2. id \in 0..MaxId /\ id # Local
      BY MadeIds DEF MadeHosts
    <3>3. id \in 1..MaxId
      BY <3>2, ShellAssumption DEF Local
    <3> QED
      BY <1>2, <3>1, <3>3
  <2>3. CASE ~OpenTab /\ ~EditTab
    BY <1>2, <2>3 DEF TabStep, Close, Select, Reorder, Show, StoreData
  <2> QED
    BY <2>1, <2>2, <2>3
<1>4. Agree(hosts, config, named')
  BY <1>3, AgreeGrows DEF HostInv
<1> QED
  BY <1>1, <1>3, <1>4 DEF HostInv, hostVars

(* Whatever happens to hosts, tabs and the program.                        *)
LEMMA NextKeepsHosts == HostInv /\ Counted /\ [ShellNext]_shellVars => HostInv'
<1> SUFFICES ASSUME HostInv, Counted, [ShellNext]_shellVars PROVE HostInv'
  OBVIOUS
<1>1. CASE HostStep
  BY <1>1, NewHostKeeps, EditHostKeeps, DuplicateHostKeeps, DeleteHostKeeps, MoveHostKeeps,
     NewGroupKeeps, DeleteGroupKeeps DEF HostStep
<1>2. CASE TabStep
  BY <1>2, NamedKeeps
<1>3. CASE Restart
  BY <1>3, RestartKeeps
<1>4. CASE UNCHANGED shellVars
  BY <1>4 DEF HostInv, shellVars
<1> QED
  BY <1>1, <1>2, <1>3, <1>4 DEF ShellNext

-----------------------------------------------------------------------------
(* The types of the window.                                                *)
OpenTabs == [id : 1..MaxId, who : 1..MaxItems]

SavedTabsOf == [id : 1..MaxId, who : 1..MaxItems, active : BOOLEAN]

(* The active tab is one of the open ones, and one of those that were      *)
(* saved last was active then.                                             *)
TabTypes ==
  /\ opened \in 0..MaxItems
  /\ sessions \in Seq(OpenTabs) /\ tabs \in Seq(SavedTabsOf)
  /\ active \in 0..Len(sessions) /\ (active = 0 <=> sessions = << >>)
  /\ tabs # << >> => \E i \in DOMAIN tabs : tabs[i].active
  /\ data \in [1..MaxId -> 0..MaxItems]

(* A save of the tabs as they are keeps the types.                         *)
LEMMA PersistedTypes ==
  ASSUME PersistTabs, sessions' \in Seq(OpenTabs), active' \in 0..Len(sessions'),
         active' = 0 <=> sessions' = << >>, opened' \in 0..MaxItems,
         data' \in [1..MaxId -> 0..MaxItems]
  PROVE  TabTypes'
<1>1. PICK open \in Seq(OpenTabs), place \in 0..Len(sessions') : open = sessions' /\ place = active'
  OBVIOUS
<1>2. PICK n \in Nat : n = Len(open) /\ DOMAIN open = 1..n /\ (n = 0 <=> open = << >>)
  BY <1>1
<1>3. place \in 0..n /\ (place = 0 <=> n = 0)
  BY <1>1, <1>2
<1>4. \A i \in 1..n : open[i].id \in 1..MaxId /\ open[i].who \in 1..MaxItems
  <2>1. \A i \in 1..n : open[i] \in OpenTabs
    BY <1>1, <1>2
  <2> QED
    BY <2>1 DEF OpenTabs
<1>5. tabs' = [i \in 1..n |-> [id |-> open[i].id, who |-> open[i].who, active |-> place = i]]
  BY <1>1, <1>2 DEF PersistTabs
<1>6. \A i \in 1..n : [id |-> open[i].id, who |-> open[i].who, active |-> place = i] \in SavedTabsOf
  BY <1>4 DEF SavedTabsOf
<1>7. tabs' \in Seq(SavedTabsOf)
  BY <1>5, <1>6
<1>8. tabs' # << >> => \E i \in DOMAIN tabs' : tabs'[i].active
  <2>1. CASE n = 0
    BY <1>5, <2>1
  <2>2. CASE n # 0
    <3>1. place \in 1..n
      BY <1>3, <2>2
    <3>2. tabs'[place].active /\ place \in DOMAIN tabs'
      BY <1>5, <3>1
    <3> QED
      BY <3>2
  <2> QED
    BY <2>1, <2>2
<1> QED
  BY <1>7, <1>8 DEF TabTypes

(* A new tab is the last one and active.                                   *)
LEMMA OpenTabTypes == HostInv /\ Counted /\ TabTypes /\ OpenTab => TabTypes'
<1> SUFFICES ASSUME HostInv, Counted, TabTypes, OpenTab PROVE TabTypes'
  OBVIOUS
<1>1. PICK t : t = [id |-> next_id, who |-> opened + 1]
  OBVIOUS
<1>2. opened + 1 \in 1..MaxItems
  <2>1. PICK gs \in Seq(1..MaxId) : gs = hosts.groups
    BY HostParts, DocumentParts
  <2>2. Len(gs) \in Nat /\ made \in Nat /\ opened \in Nat /\ MaxItems \in Nat
    BY <2>1, ShellAssumption DEF HostInv, Counted
  <2>3. made + opened + Len(gs) < MaxItems
    BY <2>1 DEF OpenTab, Room
  <2> QED
    BY <2>2, <2>3
<1>3. next_id \in 1..MaxId
  BY ShellAssumption DEF OpenTab, Counted
<1>4. t \in OpenTabs
  BY <1>1, <1>2, <1>3 DEF OpenTabs
<1>5. PICK n \in Nat : n = Len(sessions)
  BY DEF TabTypes
<1>6. PICK more : more = Append(sessions, t)
  OBVIOUS
<1>7. more \in Seq(OpenTabs) /\ Len(more) = n + 1 /\ more # << >>
  <2>1. more \in Seq(OpenTabs) /\ Len(more) = n + 1
    BY <1>4, <1>5, <1>6 DEF TabTypes
  <2>2. Len(more) # 0
    BY <2>1
  <2> QED
    BY <2>1, <2>2
<1>8. sessions' = more /\ active' = Len(sessions') /\ opened' = opened + 1 /\ data' = data
      /\ PersistTabs
  BY <1>1, <1>6 DEF OpenTab
<1>9. active' \in 0..Len(sessions') /\ active' # 0 /\ sessions' # << >>
  BY <1>7, <1>8
<1>10. opened' \in 0..MaxItems
  BY <1>2, <1>8
<1> QED
  BY <1>7, <1>8, <1>9, <1>10, PersistedTypes DEF TabTypes

(* A closed tab: the active one moves when it was the last.                *)
LEMMA CloseTypes == TabTypes /\ Close => TabTypes'
<1> SUFFICES ASSUME TabTypes, Close PROVE TabTypes'
  OBVIOUS
<1>1. PICK i \in DOMAIN sessions :
        /\ sessions' = Removed(sessions, i)
        /\ active' = IF active > Len(sessions') THEN Len(sessions') ELSE active
  BY DEF Close, Places, Removed
<1>2. sessions \in Seq(OpenTabs)
  BY DEF TabTypes
<1>3. PICK n \in Nat : n = Len(sessions) /\ i \in 1..n
  BY <1>1, <1>2
<1>4. PICK left : left = Removed(sessions, i)
  OBVIOUS
<1>5. left \in Seq(OpenTabs) /\ Len(left) = n - 1
  BY <1>2, <1>3, <1>4, RemovedElements
<1>6. left = << >> <=> n = 1
  BY <1>3, <1>5
<1>7. active \in 1..n
  <2>1. sessions # << >>
    BY <1>2, <1>3
  <2> QED
    BY <1>3, <2>1 DEF TabTypes
<1>8. active' = IF active > n - 1 THEN n - 1 ELSE active
  BY <1>1, <1>4, <1>5
<1>9. active' \in 0..(n - 1) /\ (active' = 0 <=> n = 1)
  BY <1>3, <1>7, <1>8
<1>10. PersistTabs /\ opened' = opened /\ data' = data
  BY DEF Close
<1> QED
  BY <1>1, <1>4, <1>5, <1>6, <1>9, <1>10, PersistedTypes DEF TabTypes
(* A selected tab.                                                         *)
LEMMA SelectTypes == TabTypes /\ Select => TabTypes'
<1> SUFFICES ASSUME TabTypes, Select PROVE TabTypes'
  OBVIOUS
<1>1. PICK n \in Nat : n = Len(sessions) /\ DOMAIN sessions = 1..n
  BY DEF TabTypes
<1>2. sessions' = sessions /\ active' \in 1..n /\ PersistTabs /\ opened' = opened /\ data' = data
  BY <1>1 DEF Select, Places
<1>3. active' # 0 /\ active' \in 0..n /\ sessions # << >>
  BY <1>1, <1>2
<1> QED
  BY <1>1, <1>2, <1>3, PersistedTypes DEF TabTypes

(* A dragged tab.                                                          *)
LEMMA ReorderTypes == TabTypes /\ Reorder => TabTypes'
<1> SUFFICES ASSUME TabTypes, Reorder PROVE TabTypes'
  OBVIOUS
<1>1. PICK i \in DOMAIN sessions, j \in DOMAIN sessions :
        /\ sessions' = Inserted(Removed(sessions, i), j, sessions[i])
        /\ active' = j
  BY DEF Reorder, Places, Removed
<1>2. sessions \in Seq(OpenTabs)
  BY DEF TabTypes
<1>3. PICK n \in Nat : n = Len(sessions) /\ i \in 1..n /\ j \in 1..n
  BY <1>1, <1>2
<1>4. PICK left : left = Removed(sessions, i)
  OBVIOUS
<1>5. left \in Seq(OpenTabs) /\ Len(left) = n - 1
  BY <1>2, <1>3, <1>4, RemovedElements
<1>6. PICK t \in OpenTabs : t = sessions[i]
  BY <1>1, <1>2
<1>7. j \in 1..(Len(left) + 1)
  BY <1>3, <1>5
<1>8. PICK moved : moved = Inserted(left, j, t)
  OBVIOUS
<1>9. moved \in Seq(OpenTabs) /\ Len(moved) = Len(left) + 1
  BY <1>5, <1>6, <1>7, <1>8, InsertedElements
<1>10. Len(moved) = n /\ moved # << >>
  BY <1>3, <1>5, <1>9
<1>11. sessions' = moved /\ active' \in 0..n /\ active' # 0
  BY <1>1, <1>3, <1>4, <1>6, <1>8
<1>12. PersistTabs /\ opened' = opened /\ data' = data
  BY DEF Reorder
<1> QED
  BY <1>9, <1>10, <1>11, <1>12, PersistedTypes DEF TabTypes

(* A tab that is shown.                                                    *)
LEMMA ShowTypes == TabTypes /\ Show => TabTypes'
<1> SUFFICES ASSUME TabTypes, Show PROVE TabTypes'
  OBVIOUS
<1>1. PICK n \in Nat : n = Len(sessions) /\ DOMAIN sessions = 1..n
  BY DEF TabTypes
<1>2. UNCHANGED <<sessions, tabs, opened, data>> /\ active' \in 1..n
  BY <1>1 DEF Show, Places
<1>3. active' # 0 /\ active' \in 0..n /\ sessions # << >>
  BY <1>1, <1>2
<1> QED
  BY <1>1, <1>2, <1>3 DEF TabTypes

(* A tab that gets another jump host.                                      *)
LEMMA EditTabTypes == TabTypes /\ EditTab => TabTypes'
BY DEF TabTypes, EditTab

(* What a pane stores under its tab.                                       *)
LEMMA StoreDataTypes == TabTypes /\ StoreData => TabTypes'
<1> SUFFICES ASSUME TabTypes, StoreData PROVE TabTypes'
  OBVIOUS
<1>1. PICK i \in DOMAIN sessions : data' = [data EXCEPT ![sessions[i].id] = sessions[i].who]
  BY DEF StoreData, Places
<1>2. sessions[i] \in OpenTabs
  BY DEF TabTypes
<1>3. sessions[i].id \in 1..MaxId /\ sessions[i].who \in 0..MaxItems
  BY <1>2, ShellAssumption DEF OpenTabs
<1>4. data' \in [1..MaxId -> 0..MaxItems]
  BY <1>1, <1>3 DEF TabTypes
<1>5. UNCHANGED <<sessions, active, tabs, opened>>
  BY DEF StoreData
<1> QED
  BY <1>4, <1>5 DEF TabTypes

(* The tabs that come back, the one that was active among them.            *)
LEMMA RestartTypes == TabTypes /\ Restart => TabTypes'
<1> SUFFICES ASSUME TabTypes, Restart PROVE TabTypes'
  OBVIOUS
<1>1. UNCHANGED <<tabs, opened, data>>
  BY DEF Restart
<1>2. PICK n \in Nat : n = Len(tabs) /\ DOMAIN tabs = 1..n /\ (n = 0 <=> tabs = << >>)
  BY DEF TabTypes
<1>3. CASE sessions' = Restored /\ active' = IF tabs = << >> THEN 0
                                            ELSE CHOOSE i \in DOMAIN tabs : tabs[i].active
  <2>1. \A i \in 1..n : tabs[i] \in SavedTabsOf
    BY <1>2 DEF TabTypes
  <2>2. \A i \in 1..n : [id |-> tabs[i].id, who |-> tabs[i].who] \in OpenTabs
    BY <2>1 DEF SavedTabsOf, OpenTabs
  <2>3. PICK back \in Seq(OpenTabs) : back = Restored /\ Len(back) = n
    <3>1. [i \in 1..n |-> [id |-> tabs[i].id, who |-> tabs[i].who]] \in Seq(OpenTabs)
      BY <2>2
    <3>2. Restored = [i \in 1..n |-> [id |-> tabs[i].id, who |-> tabs[i].who]]
      BY <1>2 DEF Restored
    <3>3. PICK back \in Seq(OpenTabs) :
            back = [i \in 1..n |-> [id |-> tabs[i].id, who |-> tabs[i].who]]
      BY <3>1
    <3>4. Len(back) = n
      BY <3>3
    <3> QED
      BY <3>2, <3>3, <3>4
  <2>4. back = << >> <=> n = 0
    BY <2>3
  <2>5. active' \in 0..n /\ (active' = 0 <=> n = 0)
    <3>1. CASE n = 0
      BY <1>2, <1>3, <3>1
    <3>2. CASE n # 0
      <4>1. \E i \in 1..n : tabs[i].active
        BY <1>2, <3>2 DEF TabTypes
      <4>2. active' = CHOOSE i \in 1..n : tabs[i].active
        BY <1>2, <1>3, <3>2
      <4>3. active' \in 1..n
        BY <4>1, <4>2
      <4> QED
        BY <3>2, <4>3
    <3> QED
      BY <3>1, <3>2
  <2>6. sessions' = back
    BY <1>3, <2>3
  <2> QED
    BY <1>1, <2>3, <2>4, <2>5, <2>6 DEF TabTypes
<1>4. CASE sessions' = << >> /\ active' = 0
  <2>1. PICK nil : nil = << >>
    OBVIOUS
  <2>2. nil \in Seq(OpenTabs) /\ Len(nil) = 0
    BY <2>1
  <2>3. sessions' = nil
    BY <1>4, <2>1
  <2>4. active' \in 0..Len(sessions') /\ (active' = 0 <=> sessions' = << >>)
    BY <1>4, <2>2, <2>3
  <2> QED
    BY <1>1, <2>2, <2>3, <2>4 DEF TabTypes
<1> QED
  BY <1>3, <1>4 DEF Restart

(* Every step of the window.                                               *)
LEMMA NextKeepsTypes ==
  HostInv /\ Counted /\ TabTypes /\ [ShellNext]_shellVars => TabTypes'
<1> SUFFICES ASSUME HostInv, Counted, TabTypes, [ShellNext]_shellVars PROVE TabTypes'
  OBVIOUS
<1>1. CASE HostStep
  <2>1. UNCHANGED tabVars
    BY <1>1 DEF HostStep, MakeHost, NewHost, SaveAsHost, EditHost, DuplicateHost, DeleteHost,
                MoveHost, NewGroup, DeleteGroup
  <2> QED
    BY <2>1 DEF TabTypes, tabVars
<1>2. CASE TabStep
  BY <1>2, OpenTabTypes, CloseTypes, SelectTypes, ReorderTypes, ShowTypes, StoreDataTypes,
     EditTabTypes
  DEF TabStep
<1>3. CASE Restart
  BY <1>3, RestartTypes
<1>4. CASE UNCHANGED shellVars
  BY <1>4 DEF TabTypes, shellVars
<1> QED
  BY <1>1, <1>2, <1>3, <1>4 DEF ShellNext

(* No tab is open at first.                                                *)
LEMMA TypesInit == ShellInit => TabTypes
<1> SUFFICES ASSUME ShellInit PROVE TabTypes
  OBVIOUS
<1>1. PICK nil : nil = << >>
  OBVIOUS
<1>2. nil \in Seq(OpenTabs) /\ nil \in Seq(SavedTabsOf) /\ Len(nil) = 0
  BY <1>1
<1>3. sessions = nil /\ tabs = nil /\ active = 0 /\ opened = 0 /\ data = [i \in 1..MaxId |-> 0]
  BY <1>1 DEF ShellInit
<1>4. active \in 0..Len(sessions)
  BY <1>2, <1>3
<1> QED
  BY <1>1, <1>2, <1>3, <1>4, ShellAssumption DEF TabTypes

(* The invariant of the window: counters, hosts and tabs.                  *)
LEMMA WindowHolds == ShellSpec => [](Counted /\ HostInv /\ TabTypes)
<1>1. TabInv => Counted
  BY DEF TabInv, Counted
<1>2. ShellInit => HostInv /\ TabTypes
  BY HostsInit, TypesInit
<1>3. Counted /\ (HostInv /\ TabTypes) /\ [ShellNext]_shellVars => (HostInv /\ TabTypes)'
  BY NextKeepsHosts, NextKeepsTypes
<1> QED
  BY <1>1, <1>2, <1>3, TabsHold, PTL DEF ShellSpec

(* The window's copy of the hosts and the one on disk are sound, and they  *)
(* hold the same hosts and groups, through every save, deletion, copy,     *)
(* move, group edit and restart; and the only jump hosts in them that may  *)
(* be gone are those that a tab has named, for Save as host to copy.       *)
THEOREM HostsHold == ShellSpec => []HostsAreSound
<1>1. HostInv => HostsAreSound
  BY DEF HostInv, Agree, Same, HostsAreSound, SameHosts
<1> QED
  BY <1>1, WindowHolds, PTL

(* The documents, lists and counters of the window have their types: the   *)
(* active tab is one of the open ones, and none is active only when no tab *)
(* is open.                                                                *)
THEOREM ShellTypeCorrect == ShellSpec => []ShellTypeOK
<1>1. Counted /\ HostInv /\ TabTypes => ShellTypeOK
  BY DEF Counted, HostInv, Agree, TabTypes, ShellTypeOK, OpenTabs, SavedTabsOf
<1> QED
  BY <1>1, WindowHolds, PTL
-----------------------------------------------------------------------------
(* The parts together.                                                     *)

(* Whatever part runs, the calls of write_atomic, the known hosts, the     *)
(* documents, the tabs and the vault each do as their own specification    *)
(* says: one of them takes a step and the others stay where they are.      *)
THEOREM StoreRunsItsParts ==
  StoreSpec => Spec /\ TrustSpec /\ DocsSpec /\ ShellSpec /\ VaultSpec
<1>1. StoreInit => Init /\ TrustInit /\ DocsInit /\ ShellInit /\ VaultInit
  BY DEF StoreInit
<1>2. [StoreNext]_storeVars => [Next]_vars
  BY DEF StoreNext, InCalls, InTrust, InDocs, InShell, InVault, storeVars, callVars, vars
<1>3. [StoreNext]_storeVars => [TrustNext]_trustVars
  BY DEF StoreNext, InCalls, InTrust, InDocs, InShell, InVault, storeVars
<1>4. [StoreNext]_storeVars => [DocsNext]_docVars
  BY DEF StoreNext, InCalls, InTrust, InDocs, InShell, InVault, storeVars
<1>5. [StoreNext]_storeVars => [ShellNext]_shellVars
  BY DEF StoreNext, InCalls, InTrust, InDocs, InShell, InVault, storeVars
<1>6. [StoreNext]_storeVars => [VaultNext]_vaultVars
  BY DEF StoreNext, InCalls, InTrust, InDocs, InShell, InVault, storeVars
<1> QED
  BY <1>1, <1>2, <1>3, <1>4, <1>5, <1>6, PTL
  DEF StoreSpec, Spec, TrustSpec, DocsSpec, ShellSpec, VaultSpec

(* Every document, table, job and list of the data directory has its type, *)
(* whatever part of the program runs.                                      *)
THEOREM StoreTypeCorrect == StoreSpec => []StoreTypeOK
<1>1. TypeOK /\ TrustTypeOK /\ DocsTypeOK /\ ShellTypeOK /\ VaultTypeOK => StoreTypeOK
  BY DEF StoreTypeOK
<1> QED
  BY <1>1, StoreRunsItsParts, JobsHoldTheirBytes, TableTypesHold, DocumentsTypeCorrect,
     ShellTypeCorrect, VaultTypeCorrect, PTL

(* So the data directory keeps what each part promises: writes are atomic, *)
(* known hosts accepted, what counts as written is written, both copies of *)
(* the hosts sound and the same, tabs saved under ids of their own and     *)
(* secrets kept.  Sound and atomic mean no more than in HostsHold and      *)
(* CallsAreAtomic: a jump host that a tab named may be gone, and on        *)
(* Windows a path may be empty while it is written.                        *)
THEOREM StoreKeepsItsPromises ==
  StoreSpec =>
    /\ WritesAreAtomic
    /\ [](/\ OnlyAcceptedKeysKept /\ CleanUnlessFailed
          /\ HostsAreSound /\ TabIdsAreUnique /\ TabsAreSaved /\ SecretsAreKept)
BY StoreRunsItsParts, CallsAreAtomic, KeptKeysAccepted, CleanIsWritten, HostsHold, TabsAreUnique,
   TabsAreKept, SecretsKept, PTL
=============================================================================

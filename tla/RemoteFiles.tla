------------------------------ MODULE RemoteFiles ------------------------------
(***************************************************************************)
(* The remote files of a tab: RemoteFiles and the file operations of       *)
(* SessionEntry in crates/wassh/src/app/session.rs, over the tasks of the  *)
(* transport (crates/wassh-ssh/src/session.rs, sftp.rs).  One request is   *)
(* in the slot at a time, transfers queue for it, the listing has a slot   *)
(* of its own, and an archive is packed on a thread of its own.            *)
(*                                                                         *)
(* fs is the struct, together with the jobs whose receivers it holds.      *)
(* Paths, byte counts, progress and error texts are left out; a transfer   *)
(* is a name, and one directory is listed.                                 *)
(***************************************************************************)
EXTENDS TabBackend, Sequences, FiniteSets

CONSTANTS Items,       \* transfers a pane may ask for
          Kinds,       \* and what else: "zip", "action", "read", "resolve", "list"
          MaxQueue,    \* transfers that wait at once
          MaxOrphans,  \* running writes whose receiver was dropped
          FailedRows   \* FAILED_TRANSFERS

ASSUME RemoteFilesAssumption ==
  /\ MaxQueue \in Nat /\ MaxOrphans \in Nat /\ FailedRows \in Nat
  /\ {"none", "zip"} \cap Items = {}

VARIABLE fs   \* SessionEntry::files, the jobs, and one history field:
              \* slipped, a write ended stopped, dead or dropped, and what
              \* was read before it was not forgotten

Jobs == 1..(MaxOrphans + 3)

NoJob == 0

NoTask == [kind |-> "none", home |-> 1, state |-> "none", heard |-> FALSE,
           old |-> FALSE]

(* A job that was told to stop answers with an error, as one that fails    *)
(* does.                                                                   *)
Tasks == [kind : {"none", "transfer", "zip", "action", "read", "resolve", "list"},
          home : Links,
          state : {"none", "running", "ok", "error", "dead"},
          heard : BOOLEAN,   \* its receiver is held
          old : BOOLEAN]     \* what it read has been written to since

FilesTypeOK ==
  /\ fs.jobs \in [Jobs -> Tasks]
  /\ fs.pending \in Jobs \cup {NoJob} /\ fs.listing \in Jobs \cup {NoJob}
  /\ fs.job \in {"none", "Transfer", "Action", "Resolve", "Read", "Zip"}
  /\ fs.request \in Items \cup {"none"}
  /\ fs.active \in Items \cup {"none", "zip"}
  /\ fs.retryable \in Items \cup {"none"}
  /\ fs.stop \in BOOLEAN /\ fs.stopping \in BOOLEAN
  /\ fs.queue \in Seq(Items) /\ Len(fs.queue) <= MaxQueue
  /\ fs.pack \in {"none", "running", "ok", "error"}
  /\ fs.failed \in 0..FailedRows
  /\ fs.resolved \in BOOLEAN /\ fs.requested \in BOOLEAN
  /\ fs.status \in {"none", "stopped"}
  /\ fs.content \in {"none", "new", "old"}
  /\ fs.slipped \in BOOLEAN

FilesInit ==
  fs = [jobs |-> [j \in Jobs |-> NoTask], pending |-> NoJob, listing |-> NoJob,
           job |-> "none", request |-> "none", active |-> "none",
           retryable |-> "none", stop |-> FALSE, stopping |-> FALSE,
           queue |-> << >>, pack |-> "none", failed |-> 0, resolved |-> FALSE,
           requested |-> FALSE, status |-> "none", content |-> "none",
           slipped |-> FALSE]

-----------------------------------------------------------------------------
(* Starting jobs: file_job and adopt_job.                                  *)

Hosted == backend = "ssh"

Fresh(s) ==
  CHOOSE j \in Jobs : /\ s.jobs[j] = NoTask
                      /\ \A i \in Jobs : s.jobs[i] = NoTask => j <= i

Writes(task) == task.kind \in {"action", "transfer"}

Slipped(s, task) == [s EXCEPT !.slipped = @ \/ Writes(task)]

(* A receiver that is dropped: the job goes on, and nobody hears of it.    *)
(* Only a write makes a difference then.                                   *)
Dropped(s, j) ==
  IF j = NoJob THEN s
  ELSE IF s.jobs[j].state = "running" /\ Writes(s.jobs[j])
       THEN [s EXCEPT !.jobs[j].heard = FALSE]
  ELSE Slipped([s EXCEPT !.jobs[j] = NoTask], s.jobs[j])

Spawned(s, j, kind) ==
  [s EXCEPT !.jobs[j] = [kind |-> kind, home |-> link, state |-> "running",
                         heard |-> TRUE, old |-> FALSE]]

(* The slot is taken, whatever is in it.                                   *)
Adopted(s, kind) ==
  LET t == Dropped(s, s.pending)
      j == Fresh(t)
  IN  [Spawned(t, j, kind) EXCEPT !.pending = j, !.stop = TRUE, !.stopping = FALSE]

(* start_next_transfer.                                                    *)
NextStarted(s) ==
  IF s.pending # NoJob \/ s.pack # "none" \/ s.queue = << >> THEN s
  ELSE LET t == [s EXCEPT !.queue = Tail(@)]
       IN  IF ~Hosted THEN t
           ELSE [Adopted(t, "transfer") EXCEPT
                   !.request = Head(s.queue), !.active = Head(s.queue),
                   !.job = "Transfer"]

(* start_file_request: a listing that is under way is replaced.            *)
ListingStarted(s) ==
  LET t == Dropped(s, s.listing)
      j == Fresh(t)
  IN  IF ~Hosted THEN s
      ELSE [Spawned(t, j, "list") EXCEPT !.listing = j, !.requested = TRUE]

-----------------------------------------------------------------------------
(* What the panes ask for.                                                 *)

Orphans(s) == {j \in Jobs : s.jobs[j].state = "running" /\ ~s.jobs[j].heard}

(* Bound: few writes run unheard at once.                                  *)
Room == Cardinality(Orphans(Dropped(fs, fs.pending))) <= MaxOrphans

(* enqueue_transfer.                                                       *)
Enqueued(s, i) ==
  NextStarted([s EXCEPT !.queue = Append(@, i), !.status = "none", !.content = "none"])

Enqueue(i) ==
  /\ Hosted /\ Len(fs.queue) < MaxQueue
  /\ fs' = Enqueued(fs, i)

(* start_zip and start_file_action look at the slot as little as adopt_job.*)
DownloadZip ==
  /\ "zip" \in Kinds
  /\ Hosted /\ Room
  /\ fs' = [Adopted(fs, "zip") EXCEPT !.active = "zip", !.job = "Zip", !.status = "none"]

Change ==
  /\ "action" \in Kinds
  /\ Hosted /\ Room
  /\ fs' = [Adopted(fs, "action") EXCEPT !.job = "Action", !.content = "none"]

(* read: the cached file, or a request when nothing else is going on.      *)
Read ==
  /\ "read" \in Kinds
  /\ Hosted
  /\ fs.content = "none" /\ fs.pending = NoJob /\ fs.pack = "none"
  /\ fs' = [Adopted(fs, "read") EXCEPT !.job = "Read"]

Resolve ==
  /\ "resolve" \in Kinds
  /\ Hosted
  /\ ~fs.resolved /\ fs.pending = NoJob
  /\ fs' = [Adopted(fs, "resolve") EXCEPT !.job = "Resolve"]

RequestListing ==
  /\ "list" \in Kinds
  /\ ~fs.requested
  /\ fs' = ListingStarted(fs)

Refresh ==
  /\ "list" \in Kinds
  /\ fs' = ListingStarted([fs EXCEPT !.requested = FALSE, !.content = "none"])

StopTransfer ==
  /\ fs.active # "none" /\ fs.stop
  /\ fs' = [fs EXCEPT !.stopping = TRUE]

Retry ==
  /\ fs.retryable # "none" /\ Len(fs.queue) < MaxQueue
  /\ fs' = LET s == [fs EXCEPT !.retryable = "none"]
           IN  IF Hosted THEN Enqueued(s, fs.retryable) ELSE s

-----------------------------------------------------------------------------
(* A frame: poll_files.                                                    *)

ListingPolled(s) ==
  IF s.listing = NoJob \/ s.jobs[s.listing].state = "running" THEN s
  ELSE [s EXCEPT !.listing = NoJob, !.jobs[s.listing] = NoTask,
                 !.requested = @ \/ s.jobs[s.listing].state = "ok"]

Recorded(s) ==
  IF s.active = "none" \/ s.failed = FailedRows THEN s ELSE [s EXCEPT !.failed = @ + 1]

Finished(s, failure) ==
  [(IF failure THEN Recorded(s) ELSE s) EXCEPT
     !.active = "none", !.stop = FALSE, !.stopping = FALSE, !.job = "none",
     !.request = "none"]

Cancelled(s) == [Finished(s, FALSE) EXCEPT !.status = "stopped"]

PackPolled(s) ==
  LET t == [s EXCEPT !.pack = "none"]
  IN  CASE s.pack = "running" -> s
        [] s.pack = "ok"      -> Finished(t, FALSE)
        [] s.pack = "error"   -> IF s.stopping THEN Cancelled(t) ELSE Finished(t, TRUE)

(* Slip: a transfer that landed leaves what was read before it.            *)
JobLandedKeeping(s, task) ==
  LET t == [s EXCEPT !.job = "none"]
  IN  CASE task.kind = "resolve" -> [t EXCEPT !.resolved = TRUE]
        [] task.kind = "read" /\ s.job = "Read" ->
             [t EXCEPT !.content = IF task.old THEN "old" ELSE "new"]
        [] task.kind = "zip" /\ s.job = "Zip" -> [t EXCEPT !.pack = "running", !.stop = TRUE]
        [] task.kind = "action" ->
             [t EXCEPT !.status = IF s.job = "Action" THEN "none" ELSE @, !.content = "none"]
        [] task.kind = "transfer" ->
             [t EXCEPT !.status = "none", !.active = "none", !.stop = FALSE,
                       !.stopping = FALSE, !.request = "none"]
        [] OTHER -> t

(* An answer of the job in the slot, by what was asked and what it is for. *)
JobLanded(s, task) ==
  LET t == [s EXCEPT !.job = "none"]
  IN  CASE task.kind = "resolve" -> [t EXCEPT !.resolved = TRUE]
        [] task.kind = "read" /\ s.job = "Read" ->
             [t EXCEPT !.content = IF task.old THEN "old" ELSE "new"]
        [] task.kind = "zip" /\ s.job = "Zip" -> [t EXCEPT !.pack = "running", !.stop = TRUE]
        [] task.kind = "action" ->
             [t EXCEPT !.status = IF s.job = "Action" THEN "none" ELSE @, !.content = "none"]
        [] task.kind = "transfer" ->
             [t EXCEPT !.status = "none", !.active = "none", !.stop = FALSE,
                       !.stopping = FALSE, !.request = "none", !.content = "none"]
        [] OTHER -> t

Failed(s) ==
  [Recorded(s) EXCEPT
     !.active = "none", !.content = "none", !.request = "none",
     !.job = "none", !.stop = FALSE, !.stopping = FALSE,
     !.retryable = IF s.active # "none" /\ s.job = "Transfer" /\ s.request # "none"
                   THEN s.request ELSE @]

(* An answer that never came leaves everything but the job.                *)
NeverAnswered(s, task) == Slipped([s EXCEPT !.job = "none"], task)

(* Slip: a stop wins over an answer that is already there.                 *)
StopWins(s) ==
  LET j == s.pending
      task == s.jobs[j]
      t == [s EXCEPT !.pending = NoJob, !.jobs[j] = NoTask]
  IN  CASE s.stopping           -> Cancelled(t)
        [] task.state = "ok"    -> JobLanded(t, task)
        [] task.state = "error" -> Failed(t)
        [] task.state = "dead"  -> NeverAnswered(t, task)

(* What was there before the stop counts, except for an archive, which is  *)
(* not written yet.                                                        *)
AnswerTaken(s) ==
  LET j == s.pending
      task == s.jobs[j]
      t == [s EXCEPT !.pending = NoJob, !.jobs[j] = NoTask]
      completed == task.state = "ok" /\ s.job # "Zip"
  IN  CASE s.stopping /\ ~completed -> Slipped(Cancelled(t), task)
        [] task.state = "ok" /\ (completed \/ ~s.stopping) -> JobLanded(t, task)
        [] task.state = "error" /\ ~s.stopping -> Failed(t)
        [] task.state = "dead" /\ ~s.stopping  -> NeverAnswered(t, task)

SlotAnswered(s) ==
  s.pack = "none" /\ s.pending # NoJob /\ s.jobs[s.pending].state # "running"

SlotPolled(s) ==
  IF s.pack # "none" THEN PackPolled(s)
  ELSE IF SlotAnswered(s) THEN AnswerTaken(s) ELSE s

(* A change or a transfer landed, and the directory is on screen.          *)
Reloads(s) ==
  /\ SlotAnswered(s) /\ s.requested
  /\ s.jobs[s.pending].state = "ok"
  /\ Writes(s.jobs[s.pending])

(* Slip: the next transfer starts once one has landed, and only then.      *)
PollAfterSuccess ==
  LET a == ListingPolled(fs)
      landed == SlotAnswered(a) /\ a.jobs[a.pending].state = "ok"
      b == IF landed THEN NextStarted(SlotPolled(a)) ELSE SlotPolled(a)
  IN  /\ b # fs
      /\ fs' = b

PollFiles ==
  LET a == ListingPolled(fs)
      b == NextStarted(SlotPolled(a))
      c == IF Reloads(a) /\ b.pending = NoJob /\ b.listing = NoJob
           THEN ListingStarted(b) ELSE b
  IN  /\ c # fs
      /\ fs' = c

-----------------------------------------------------------------------------
(* The tasks on the host.                                                  *)

(* A write makes what was read before it out of date, a failed one too.    *)
Aged(s) ==
  [s EXCEPT !.content = IF @ = "none" THEN @ ELSE "old",
            !.jobs = [j \in Jobs |->
                        IF s.jobs[j].kind = "read" /\ s.jobs[j].state = "ok"
                        THEN [s.jobs[j] EXCEPT !.old = TRUE] ELSE s.jobs[j]]]

JobEnds(j, state) ==
  LET task == fs.jobs[j]
      s == IF Writes(task) THEN Aged(fs) ELSE fs
  IN  /\ task.state = "running"
      /\ fs' = IF task.heard THEN [s EXCEPT !.jobs[j].state = state]
               ELSE Slipped([s EXCEPT !.jobs[j] = NoTask], task)

(* A task that is stopped answers with an error.                           *)
JobAnswers(j) ==
  /\ Serves(fs.jobs[j].home)
  /\ JobEnds(j, "ok") \/ JobEnds(j, "error")

JobDies(j) == ~Serves(fs.jobs[j].home) /\ JobEnds(j, "dead")

PackEnds ==
  /\ fs.pack = "running"
  /\ \E result \in {"ok", "error"} : fs' = [fs EXCEPT !.pack = result]

FilesStep ==
  \/ \E i \in Items : Enqueue(i)
  \/ DownloadZip \/ Change \/ Read \/ Resolve
  \/ RequestListing \/ Refresh \/ StopTransfer \/ Retry
  \/ PollFiles
  \/ \E j \in Jobs : JobAnswers(j) \/ JobDies(j)
  \/ PackEnds

-----------------------------------------------------------------------------
(* Properties.                                                             *)

(* "Moving bytes right now" (crates/wassh-plugins/src/files.rs:158): a row *)
(* that shows as running has a request in the slot or an archive being     *)
(* packed behind it.                                                       *)
RunningRowIsRunning ==
  fs.active # "none" /\ ~fs.stopping => fs.pending # NoJob \/ fs.pack # "none"

(* What the viewer is given is what the file held, whatever this tab has   *)
(* written since: only a write still in the slot can have made it out of   *)
(* date, or one that was stopped, died or was dropped from the slot, which *)
(* forgets nothing.                                                        *)
ContentIsCurrent ==
  fs.content = "old" =>
    \/ fs.slipped
    \/ fs.pending # NoJob /\ Writes(fs.jobs[fs.pending])

(* A transfer that had landed before it was stopped counts as landed, and  *)
(* one that is reported as stopped had not.                                *)
StoppedHadNotLanded ==
  [][fs.status # "stopped" /\ fs'.status = "stopped"
       => fs.job = "Zip" \/ fs.pack # "none" \/ fs.jobs[fs.pending].state # "ok"]_fs

(* The slot holds a request that a transport which is up works on.         *)
SlotServed ==
  /\ fs.pending # NoJob
  /\ fs.jobs[fs.pending].state = "running"
  /\ Serves(fs.jobs[fs.pending].home)

(* Whatever becomes of the request in the slot, the first one that waits   *)
(* for it is started or given up, as long as archives and changes do not   *)
(* keep taking the slot from each other; only a server that keeps the      *)
(* connection and never answers the request can hold it up.                *)
QueueMoves ==
  \/ []<><<DownloadZip \/ Change>>_fs
  \/ (fs.queue # << >>) ~> (fs.queue = << >> \/ []SlotServed)
=============================================================================

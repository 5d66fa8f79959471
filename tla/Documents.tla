------------------------------- MODULE Documents -------------------------------
(***************************************************************************)
(* The JSON documents of the configuration: JsonDocument                   *)
(* (crates/wassh-store/src/document.rs), Config (config.rs) and the        *)
(* handlers of Shell that persist them (crates/wassh/src/app/mod.rs), over *)
(* write_atomic.  Everything runs on the UI thread; the application may    *)
(* die between any two system calls, and a file may be damaged, locked or  *)
(* unreadable.                                                             *)
(***************************************************************************)
EXTENDS DataDir, Sequences

CONSTANTS Docs,       \* which of settings, hosts and tabs are looked at
          Values,     \* what parses as a document
          Default,    \* the value of a missing document
          Norm,       \* [Values -> Values]: normalized()
          Garbled,    \* bytes that do not parse
          Fallback    \* this build has what write_atomic does on Windows

ASSUME DocumentsAssumption ==
  /\ Docs \subseteq {"settings", "hosts", "tabs"}
  /\ Fallback \in BOOLEAN
  /\ NoFile \notin Docs
  /\ Default \in Values
  /\ Garbled \notin Values
  /\ {NoFile, Partial} \cap (Values \cup {Garbled}) = {}
  /\ Norm \in [Values -> Values]
  /\ \A v \in Values : Norm[Norm[v]] = Norm[v]

Bytes == Values \cup {Garbled}

UI == "ui"

VARIABLES value,   \* [Docs -> Values]: JsonDocument::value
          dirty,   \* [Docs -> BOOLEAN]
          docFile, \* the documents on disk
          aside,   \* their .corrupt files
          docJob,  \* the write_atomic the UI thread is in
          phase,   \* "off", "opening", "up" or "flushing"
          todo,    \* documents still to open, or to flush
          again,   \* when the handler saves again, or what it saves next
          saved,   \* history: what the last finished read or save left on disk
          failed,  \* history: documents whose last save failed while not dirty
          kept     \* history: content reported as "kept as ....corrupt"

docVars == <<value, dirty, docFile, aside, docJob, phase, todo, again, saved, failed, kept>>

Disk == INSTANCE AtomicFile WITH
  Paths <- Docs, Writers <- {UI}, Contents <- Bytes, file <- docFile, job <- docJob,
  Windows <- Fallback

Stored == Bytes \cup {NoFile}

DocsTypeOK ==
  /\ value \in [Docs -> Values]
  /\ dirty \in [Docs -> BOOLEAN]
  /\ aside \in [Docs -> Stored]
  /\ phase \in {"off", "opening", "up", "flushing"}
  /\ todo \in Seq(Docs)
  /\ again \in {"no", "ifOk", "always"} \cup Docs
  /\ saved \in [Docs -> Stored]
  /\ failed \subseteq Docs
  /\ kept \in [Docs -> Stored]
  /\ Disk!TypeOK

(* Config opens and flushes its documents in this order.                   *)
IfKept(d) == IF d \in Docs THEN <<d>> ELSE << >>

InOrder == IfKept("settings") \o IfKept("hosts") \o IfKept("tabs")

DocsInit ==
  /\ Disk!Init
  /\ value = [d \in Docs |-> Norm[Default]]
  /\ dirty = [d \in Docs |-> FALSE]
  /\ aside = [d \in Docs |-> NoFile]
  /\ phase = "off"
  /\ todo = << >>
  /\ again = "no"
  /\ saved = docFile
  /\ failed = {}
  /\ kept = [d \in Docs |-> NoFile]

Idle == Disk!At(UI, "idle") /\ again = "no"

(* The end of the process, whatever brings it: only the files remain.      *)
Gone ==
  /\ phase' = "off"
  /\ value' = [d \in Docs |-> Norm[Default]]
  /\ dirty' = [d \in Docs |-> FALSE]
  /\ todo' = << >>
  /\ again' = "no"
  /\ saved' = docFile
  /\ failed' = {}
  /\ kept' = [d \in Docs |-> NoFile]

-----------------------------------------------------------------------------
(* Config::open.                                                           *)

Launch ==
  /\ phase = "off"
  /\ phase' = "opening"
  /\ todo' = InOrder
  /\ UNCHANGED <<value, dirty, docFile, aside, docJob, again, saved, failed, kept>>

Opening(d) ==
  /\ phase = "opening"
  /\ todo # << >> /\ d = Head(todo)
  /\ todo' = Tail(todo)
  /\ UNCHANGED <<docJob, phase, again, failed>>

OpenPresent(d) ==
  /\ Opening(d)
  /\ docFile[d] \in Values
  /\ value' = [value EXCEPT ![d] = Norm[docFile[d]]]
  /\ dirty' = [dirty EXCEPT ![d] = FALSE]
  /\ UNCHANGED <<docFile, aside, saved, kept>>

OpenMissing(d) ==
  /\ Opening(d)
  /\ docFile[d] = NoFile
  /\ value' = [value EXCEPT ![d] = Norm[Default]]
  /\ dirty' = [dirty EXCEPT ![d] = TRUE]
  /\ UNCHANGED <<docFile, aside, saved, kept>>

(* A file that cannot be read or parsed is moved aside, if the rename      *)
(* succeeds; its result is not looked at.                                  *)
OpenUnreadable(d) ==
  /\ Opening(d)
  /\ docFile[d] # NoFile
  /\ value' = [value EXCEPT ![d] = Norm[Default]]
  /\ dirty' = [dirty EXCEPT ![d] = TRUE]
  /\ kept' = [kept EXCEPT ![d] = docFile[d]]
  /\ \/ /\ aside' = [aside EXCEPT ![d] = docFile[d]]
        /\ docFile' = [docFile EXCEPT ![d] = NoFile]
        /\ saved' = [saved EXCEPT ![d] = NoFile]
     \/ UNCHANGED <<aside, docFile, saved>>

Opened ==
  /\ phase = "opening" /\ todo = << >>
  /\ phase' = "up"
  /\ UNCHANGED <<value, dirty, docFile, aside, docJob, todo, again, saved, failed, kept>>

-----------------------------------------------------------------------------
(* Saving.                                                                 *)

(* write_settings and persist_hosts call set and then save, whatever set   *)
(* returned; persist_tabs only after an Ok; save_host and delete_host only *)
(* call set.                                                               *)
Handlers(d) ==
  CASE d = "settings" -> {"always"}
    [] d = "hosts"    -> {"always", "no"}
    [] d = "tabs"     -> {"ifOk"}

(* Slip: the old file is moved out of the way before the new one is there. *)
SetMovingOld(d, v, then) ==
  /\ phase = "up" /\ Idle
  /\ value' = [value EXCEPT ![d] = v]
  /\ again' = then
  /\ docFile' = [docFile EXCEPT ![d] = NoFile]
  /\ docJob' = [docJob EXCEPT ![UI] = [pc |-> "create", path |-> d, data |-> v, temp |-> NoFile]]
  /\ UNCHANGED <<dirty, aside, phase, todo, saved, failed, kept>>

(* JsonDocument::set: the value first, then the file.                      *)
Set(d, v, then) ==
  /\ phase = "up" /\ Idle
  /\ value' = [value EXCEPT ![d] = v]
  /\ again' = then
  /\ Disk!Begin(UI, d, v)
  /\ UNCHANGED <<dirty, aside, phase, todo, saved, failed, kept>>

Write ==
  /\ Disk!Step(UI)
  /\ UNCHANGED <<value, dirty, aside, phase, todo, again, saved, failed, kept>>

(* Slip: dirty is cleared whatever write_json returned.                    *)
FinishedClean(d, ok) ==
  /\ dirty' = [dirty EXCEPT ![d] = FALSE]
  /\ failed' = IF ok THEN failed \ {d} ELSE failed \cup ({d} \ {x \in Docs : dirty[x]})
  /\ saved' = IF ok THEN [saved EXCEPT ![d] = value[d]] ELSE saved

(* save: only an Ok clears dirty, and nothing sets it.                     *)
Finished(d, ok) ==
  /\ dirty' = [dirty EXCEPT ![d] = @ /\ ~ok]
  /\ failed' = IF ok THEN failed \ {d} ELSE failed \cup ({d} \ {x \in Docs : dirty[x]})
  /\ saved' = IF ok THEN [saved EXCEPT ![d] = value[d]] ELSE saved

SaveReturns ==
  LET d  == docJob[UI].path
      ok == Disk!At(UI, "saved")
  IN  /\ phase = "up"
      /\ Disk!Return(UI)
      /\ Finished(d, ok)
      /\ again' = IF again = "always" \/ (again = "ifOk" /\ ok) THEN d ELSE "no"
      /\ UNCHANGED <<value, aside, phase, todo, kept>>

SaveAgain ==
  /\ again \in Docs
  /\ again' = "no"
  /\ Disk!Begin(UI, again, value[again])
  /\ UNCHANGED <<value, dirty, aside, phase, todo, saved, failed, kept>>

-----------------------------------------------------------------------------
(* Config::flush on the way out, and the end of the process.               *)

Quit ==
  /\ phase = "up" /\ Idle
  /\ phase' = "flushing"
  /\ todo' = InOrder
  /\ UNCHANGED <<value, dirty, docFile, aside, docJob, again, saved, failed, kept>>

FlushNext ==
  /\ phase = "flushing" /\ Idle /\ todo # << >>
  /\ todo' = Tail(todo)
  /\ IF dirty[Head(todo)]
     THEN Disk!Begin(UI, Head(todo), value[Head(todo)])
     ELSE UNCHANGED <<docFile, docJob>>
  /\ UNCHANGED <<value, dirty, aside, phase, again, saved, failed, kept>>

(* flush returns the first error, and the caller drops it.                 *)
FlushReturns ==
  /\ phase = "flushing"
  /\ Disk!Return(UI)
  /\ IF Disk!At(UI, "saved")
     THEN Finished(docJob[UI].path, TRUE) /\ UNCHANGED <<value, phase, todo, again, kept>>
     ELSE Gone
  /\ UNCHANGED aside

Flushed ==
  /\ phase = "flushing" /\ Idle /\ todo = << >>
  /\ Gone
  /\ UNCHANGED <<docFile, aside, docJob>>

Die ==
  /\ phase # "off"
  /\ Gone
  /\ Disk!Crash
  /\ UNCHANGED aside

(* Between two launches something outside damages a file.                  *)
Damage(d) ==
  /\ phase = "off"
  /\ docFile[d] # NoFile
  /\ docFile' = [docFile EXCEPT ![d] = Garbled]
  /\ saved' = docFile'
  /\ UNCHANGED <<value, dirty, aside, docJob, phase, todo, again, failed, kept>>

DocsNext ==
  \/ Launch \/ Opened
  \/ \E d \in Docs : OpenPresent(d) \/ OpenMissing(d) \/ OpenUnreadable(d)
  \/ \E d \in Docs, v \in Values : \E then \in Handlers(d) : Set(d, v, then)
  \/ Write \/ SaveReturns \/ SaveAgain
  \/ Quit \/ FlushNext \/ FlushReturns \/ Flushed
  \/ Die
  \/ \E d \in Docs : Damage(d)

DocsSpec == DocsInit /\ [][DocsNext]_docVars
-----------------------------------------------------------------------------
(* Properties.                                                             *)

(* "A crash mid-write must never leave hosts.json truncated" (atomic.rs:3):*)
(* every document on disk is the one last read or saved, or the one whose  *)
(* save has just put it there and not returned yet.                        *)
DiskIsOldOrNew ==
  \A d \in Docs :
    \/ docFile[d] = saved[d]
    \/ docJob[UI].path = d /\ docFile[d] = docJob[UI].data

(* What a launch shows for a stored document.                              *)
Shown(stored) == IF stored \in Values THEN Norm[stored] ELSE NoFile

OnDisk(d) == Shown(docFile[d]) = Norm[value[d]]

Running == phase = "up" /\ Idle

(* is_dirty: "True when the file has not been written yet (first run or    *)
(* uncommitted mutation)" (document.rs:117).                               *)
CleanMeansSaved == Running => \A d \in Docs : ~dirty[d] => OnDisk(d)

(* The same but for a save that failed on a document that counted as       *)
(* written: flush skips no document that was missing, was reset because    *)
(* its file was unreadable, or could not be written the first time.        *)
CleanUnlessFailed == Running => \A d \in Docs : dirty[d] \/ d \in failed \/ OnDisk(d)

(* "a corrupt file is moved aside instead of failing: ... the error text   *)
(* explains what happened" (document.rs:42-44), which is "kept as          *)
(* ....corrupt" (document.rs:79): the content is there or, before the next *)
(* save, still in its place.                                               *)
UnreadableIsKept ==
  \A d \in Docs : kept[d] # NoFile => kept[d] \in {aside[d], docFile[d]}
=============================================================================

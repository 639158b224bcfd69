------------------------- MODULE RestoreTransaction -------------------------
(***************************************************************************)
(* The crash-recoverable restore of data_management.py.                    *)
(*                                                                         *)
(* apply_validated_restore installs a staged backup over the four live     *)
(* files (database, its -wal and -shm sidecars, settings) under a durable  *)
(* marker file; recover_interrupted_restore runs at every start, before    *)
(* settings or SQLite are opened, and again in-process when an installation*)
(* step raises.  One step of this module is one durable file operation:    *)
(* between any two of them the process may be killed (Crash) or the        *)
(* operation may raise (Fail).                                             *)
(*                                                                         *)
(* A file is its content or Absent; Partial is a copy that was opened and  *)
(* not completed.  Sizes and checksums are abstracted to equality of       *)
(* contents.  Names carry one transaction id per transaction in the code;  *)
(* NoArtifactsLeft shows that artifacts of two transactions never coexist, *)
(* so the id is left out.                                                  *)
(***************************************************************************)
EXTENDS Naturals

CONSTANTS
  Contents,        \* contents a file can have
  Absent,          \* no file at that path
  Partial,         \* a file whose copy never completed
  Objects,         \* attachment objects
  Refs,            \* Refs[c]: the objects a database with content c refers to
  MaxFaults,       \* bound on the crashes and I/O errors of one behaviour
  DirSyncCanFail,  \* POSIX: os.replace took effect, then fsync(directory) raised
  FilesCanVanish   \* something else removes a file while the program is closed

ASSUME ContentAssumption ==
  /\ Absent \notin Contents
  /\ Partial \notin Contents
  /\ Absent # Partial
ASSUME RefsAssumption == Refs \in [Contents -> SUBSET Objects]
ASSUME FaultAssumption ==
  /\ MaxFaults \in Nat
  /\ DirSyncCanFail \in BOOLEAN
  /\ FilesCanVanish \in BOOLEAN

Targets  == {"database", "database_wal", "database_shm", "settings"}
Replaced == {"database", "settings"}
Rank == [t \in Targets |-> CASE t = "database" -> 1 [] t = "database_wal" -> 2
                             [] t = "database_shm" -> 3 [] OTHER -> 4]
None == "none"

File  == Contents \cup {Absent}
Copy  == File \cup {Partial}
Image == [Targets -> File]
Payload == [Replaced -> Contents]

\* What the four files are once a payload is installed.
NewImage(new) ==
  [t \in Targets |-> IF t \in Replaced THEN new[t] ELSE Absent]

NoOld == [t \in Targets |-> Absent]
NoNew == [t \in Replaced |-> Absent]
Marker(state, oldFiles, newFiles) ==
  [state |-> state, old |-> oldFiles, new |-> newFiles]
NoMarker == Marker(None, NoOld, NoNew)

VARIABLES
  live,       \* the four live files
  rollback,   \* .rollback artifacts
  fresh,      \* .new artifacts
  recovery,   \* .recover artifacts
  objects,    \* attachment objects on disk
  marker,     \* the durable transaction marker
  pc,         \* the next file operation of the process
  caller,     \* whose frame it runs in: startup, entry, apply or rollback
  todo,       \* targets the current loop has not finished
  copying,    \* target whose copy is open
  old,        \* old_metadata, collected by the snapshot loop
  payload,    \* the staged payload
  committed,  \* the local flag of apply_validated_restore
  outcome,    \* what apply_validated_restore reported
  before,     \* history: the live files when this process began a restore
  faults      \* crashes and I/O errors so far

disk  == <<live, rollback, fresh, recovery, objects, marker>>
locals == <<caller, todo, copying, old, payload, committed>>
vars == <<live, rollback, fresh, recovery, objects, marker, pc, caller, todo,
          copying, old, payload, committed, outcome, before, faults>>

PCs == {"off", "session", "read", "verify_rollback", "verify_old", "verify_new",
        "put_back", "swap", "drop_wal", "drop_shm", "mark_finished", "clean",
        "attach", "build", "snapshot", "stage_new", "mark_prepared",
        "replace_database", "replace_settings", "mark_committed",
        "note_committed", "sweep"}
Callers == {"startup", "entry", "apply", "rollback"}
States == {None, "building", "prepared", "rolled_back", "committed",
           "committed_cleaning"}

TypeOK ==
  /\ live \in Image
  /\ rollback \in [Targets -> Copy]
  /\ fresh \in [Replaced -> Copy]
  /\ recovery \in [Targets -> Copy]
  /\ objects \in SUBSET Objects
  /\ marker \in [state : States, old : Image, new : [Replaced -> File]]
  /\ pc \in PCs
  /\ caller \in Callers
  /\ todo \in SUBSET Targets
  /\ copying \in Targets \cup {None}
  /\ old \in Image
  /\ payload \in Payload
  /\ committed \in BOOLEAN
  /\ outcome \in {None, "restored", "restored_uncleaned",
                  "previous_restored", "uncertain"}
  /\ before \in Image
  /\ faults \in 0..MaxFaults

Init ==
  /\ live \in Image
  /\ live["database"] # Absent
  /\ objects = Refs[live["database"]]
  /\ rollback = NoOld
  /\ fresh = NoNew
  /\ recovery = NoOld
  /\ marker = NoMarker
  /\ pc = "off"
  /\ caller = "startup"
  /\ todo = {}
  /\ copying = None
  /\ old = NoOld
  /\ payload \in Payload
  /\ committed = FALSE
  /\ outcome = None
  /\ before = NoOld
  /\ faults = 0

\* The loops run over the dict of targets in its insertion order.
First(S) == {t \in S : \A u \in S : Rank[t] <= Rank[u]}

Goto(next) == pc' = next /\ todo' = {} /\ copying' = None
Loop(next, S) == pc' = next /\ todo' = S /\ copying' = None
-----------------------------------------------------------------------------
(* The process: start, a session that writes the files, and the end.       *)

\* A new process: only the disk survives.
Launch ==
  /\ pc = "off"
  /\ caller' = "startup"
  /\ old' = NoOld
  /\ committed' = FALSE
  /\ outcome' = None
  /\ before' = NoOld
  /\ Goto("read")
  /\ UNCHANGED <<disk, payload, faults>>

\* Settings and SQLite are open: any of the files may be rewritten.  An
\* attachment is stored before a database row refers to it.
Work ==
  /\ pc = "session"
  /\ \E t \in Targets, c \in File :
       /\ t \in Replaced => c # Absent
       /\ live' = [live EXCEPT ![t] = c]
       /\ objects' = IF t = "database" THEN objects \cup Refs[c] ELSE objects
  /\ UNCHANGED <<rollback, fresh, recovery, marker, pc, locals, outcome,
                 before, faults>>

Quit ==
  /\ pc = "session"
  /\ Goto("off")
  /\ UNCHANGED <<disk, caller, old, payload, committed, outcome, before, faults>>

\* apply_validated_restore is entered with the services stopped; it first
\* calls recover_interrupted_restore.
BeginApply ==
  /\ pc = "session"
  /\ payload' \in Payload
  /\ before' = live
  /\ caller' = "entry"
  /\ Goto("read")
  /\ UNCHANGED <<disk, old, committed, outcome, faults>>

\* Where control returns when recovery, or the cleanup of a finished
\* transaction, is done.
Return ==
  \/ /\ caller = "startup"
     /\ Goto("session")
     /\ UNCHANGED outcome
  \/ /\ caller = "entry"
     /\ Goto("attach")
     /\ UNCHANGED outcome
  \/ /\ caller = "apply"
     /\ Goto("sweep")
     /\ UNCHANGED outcome
  \/ /\ caller = "rollback"
     /\ Goto("off")
     /\ outcome' = IF committed THEN "restored_uncleaned"
                                ELSE "previous_restored"

\* Mutant: a failed start goes on with the files as they are.
RaiseFailsOpen ==
  IF caller = "startup" THEN Goto("session") /\ UNCHANGED <<caller, outcome>>
  ELSE /\ Goto(IF caller = "apply" THEN "read" ELSE "off")
       /\ caller' = IF caller = "apply" THEN "rollback" ELSE caller
       /\ outcome' = CASE caller = "entry" -> "previous_restored"
                       [] caller = "rollback" -> "uncertain" [] OTHER -> outcome

\* An exception: a start fails closed (exit code 4), a failure before the
\* marker is reported as it is, one inside the transaction enters the in-process
\* recovery, one inside that recovery leaves the rest to the next start.
Raise ==
  \/ /\ caller = "startup"
     /\ Goto("off")
     /\ UNCHANGED <<caller, outcome>>
  \/ /\ caller = "entry"
     /\ Goto("off")
     /\ outcome' = "previous_restored"
     /\ UNCHANGED caller
  \/ /\ caller = "apply"
     /\ Goto("read")
     /\ caller' = "rollback"
     /\ UNCHANGED outcome
  \/ /\ caller = "rollback"
     /\ Goto("off")
     /\ outcome' = "uncertain"
     /\ UNCHANGED caller
-----------------------------------------------------------------------------
(* recover_interrupted_restore                                             *)

\* Mutant: recovery knows no rolled_back marker and refuses it.
ReadMarkerForgetsRolledBack ==
  /\ pc = "read"
  /\ \/ marker.state = None /\ Return /\ UNCHANGED caller
     \/ marker.state = "building" /\ Loop("clean", Targets) /\ UNCHANGED <<caller, outcome>>
     \/ marker.state = "prepared" /\ Goto("verify_rollback") /\ UNCHANGED <<caller, outcome>>
     \/ marker.state = "rolled_back" /\ Raise
     \/ /\ marker.state \in {"committed", "committed_cleaning"}
        /\ Goto("verify_new")
        /\ UNCHANGED <<caller, outcome>>
  /\ UNCHANGED <<disk, old, payload, committed, before, faults>>


ReadMarker ==
  /\ pc = "read"
  /\ \/ /\ marker.state = None
        /\ Return
     \/ /\ marker.state = "building"
        /\ Loop("clean", Targets)
        /\ UNCHANGED outcome
     \/ /\ marker.state = "prepared"
        /\ Goto("verify_rollback")
        /\ UNCHANGED outcome
     \/ /\ marker.state = "rolled_back"
        /\ Loop("verify_old", Targets)
        /\ UNCHANGED outcome
     \/ /\ marker.state \in {"committed", "committed_cleaning"}
        /\ Goto("verify_new")
        /\ UNCHANGED outcome
  /\ UNCHANGED <<disk, caller, old, payload, committed, before, faults>>

RollbackMatches == \A t \in Targets :
  marker.old[t] # Absent => rollback[t] = marker.old[t]
NewMatches == \A t \in Replaced : live[t] = marker.new[t]
OldMatches(t) == marker.old[t] # Absent => live[t] = marker.old[t]

\* _restore_old_transaction_files, first loop.
VerifyRollback ==
  /\ pc = "verify_rollback"
  /\ \/ RollbackMatches /\ Loop("put_back", Targets) /\ UNCHANGED <<caller, outcome>>
     \/ ~RollbackMatches /\ Raise
  /\ UNCHANGED <<disk, old, payload, committed, before, faults>>

\* _verify_new_restore_targets, in both committed states.
VerifyNew ==
  /\ pc = "verify_new"
  /\ \/ NewMatches /\ Goto("drop_wal") /\ UNCHANGED <<caller, outcome>>
     \/ ~NewMatches /\ Raise
  /\ UNCHANGED <<disk, old, payload, committed, before, faults>>

\* _verify_old_restore_targets, one target at a time.
VerifyOld ==
  /\ pc = "verify_old"
  /\ \/ \E t \in First(todo) :
          \/ /\ OldMatches(t)
             /\ live' = IF marker.old[t] = Absent
                        THEN [live EXCEPT ![t] = Absent] ELSE live
             /\ Loop("verify_old", todo \ {t})
             /\ UNCHANGED <<caller, outcome>>
          \/ ~OldMatches(t) /\ Raise /\ UNCHANGED live
     \/ /\ todo = {}
        /\ Loop("clean", Targets)
        /\ UNCHANGED <<live, caller, outcome>>
  /\ UNCHANGED <<rollback, fresh, recovery, objects, marker, old, payload,
                 committed, before, faults>>

\* _restore_old_transaction_files, second loop: a target that did not exist is
\* removed; any other is copied to a temporary ...
PutBack ==
  /\ pc = "put_back"
  /\ \/ \E t \in First(todo) :
          \/ /\ marker.old[t] = Absent
             /\ live' = [live EXCEPT ![t] = Absent]
             /\ Loop("put_back", todo \ {t})
             /\ UNCHANGED recovery
          \/ /\ marker.old[t] # Absent
             /\ copying = None
             /\ recovery[t] # Absent
             /\ recovery' = [recovery EXCEPT ![t] = Absent]
             /\ UNCHANGED <<live, pc, todo, copying>>
          \/ /\ marker.old[t] # Absent
             /\ copying = None
             /\ recovery[t] = Absent
             /\ recovery' = [recovery EXCEPT ![t] = Partial]
             /\ copying' = t
             /\ UNCHANGED <<live, pc, todo>>
          \/ /\ copying = t
             /\ recovery' = [recovery EXCEPT ![t] = rollback[t]]
             /\ pc' = "swap"
             /\ UNCHANGED <<live, todo, copying>>
     \/ /\ todo = {}
        /\ Goto("mark_finished")
        /\ UNCHANGED <<live, recovery>>
  /\ UNCHANGED <<rollback, fresh, objects, marker, caller, old, payload,
                 committed, outcome, before, faults>>

\* ... which replaces the target in one durable rename.
Swap ==
  /\ pc = "swap"
  /\ live' = [live EXCEPT ![copying] = recovery[copying]]
  /\ recovery' = [recovery EXCEPT ![copying] = Absent]
  /\ Loop("put_back", todo \ {copying})
  /\ UNCHANGED <<rollback, fresh, objects, marker, caller, old, payload,
                 committed, outcome, before, faults>>

DropWal ==
  /\ pc = "drop_wal"
  /\ live' = [live EXCEPT !["database_wal"] = Absent]
  /\ Goto("drop_shm")
  /\ UNCHANGED <<rollback, fresh, recovery, objects, marker, caller, old,
                 payload, committed, outcome, before, faults>>

DropShm ==
  /\ pc = "drop_shm"
  /\ live' = [live EXCEPT !["database_shm"] = Absent]
  /\ \/ marker.state = "prepared" /\ Goto("mark_committed")
     \/ marker.state = "committed" /\ Goto("mark_finished")
     \/ marker.state = "committed_cleaning" /\ Loop("clean", Targets)
  /\ UNCHANGED <<rollback, fresh, recovery, objects, marker, caller, old,
                 payload, committed, outcome, before, faults>>

\* Mutant: cleanup starts under the marker that still asks for recovery.
MarkFinishedSkipped ==
  /\ pc = "mark_finished"
  /\ Loop("clean", Targets)
  /\ UNCHANGED <<disk, caller, old, payload, committed, outcome, before, faults>>

\* _finish_restore_transaction: the terminal state is durable before the
\* first artifact goes.
MarkFinished ==
  /\ pc = "mark_finished"
  /\ marker' = [marker EXCEPT !.state =
       IF marker.state = "prepared" THEN "rolled_back" ELSE "committed_cleaning"]
  /\ Loop("clean", Targets)
  /\ UNCHANGED <<live, rollback, fresh, recovery, objects, caller, old, payload,
                 committed, outcome, before, faults>>

\* _cleanup_restore_transaction: the artifacts, one unlink at a time ...
Clean ==
  /\ pc = "clean"
  /\ \E t \in First(todo) :
       \/ /\ rollback[t] # Absent
          /\ rollback' = [rollback EXCEPT ![t] = Absent]
          /\ UNCHANGED <<fresh, recovery, todo>>
       \/ /\ rollback[t] = Absent
          /\ t \in Replaced /\ fresh[t] # Absent
          /\ fresh' = [fresh EXCEPT ![t] = Absent]
          /\ UNCHANGED <<rollback, recovery, todo>>
       \/ /\ rollback[t] = Absent
          /\ t \in Replaced => fresh[t] = Absent
          /\ recovery' = [recovery EXCEPT ![t] = Absent]
          /\ todo' = todo \ {t}
          /\ UNCHANGED <<rollback, fresh>>
  /\ UNCHANGED <<live, objects, marker, pc, caller, copying, old, payload,
                 committed, outcome, before, faults>>

\* Mutant: the marker is removed while artifacts remain.
UnmarkEarly ==
  /\ pc = "clean"
  /\ marker' = NoMarker
  /\ Return
  /\ UNCHANGED <<live, rollback, fresh, recovery, objects, caller, old, payload,
                 committed, before, faults>>

\* ... and the marker last.
Unmark ==
  /\ pc = "clean"
  /\ todo = {}
  /\ marker' = NoMarker
  /\ Return
  /\ UNCHANGED <<live, rollback, fresh, recovery, objects, caller, old, payload,
                 committed, before, faults>>
-----------------------------------------------------------------------------
(* apply_validated_restore                                                 *)

\* Mutant: an existing object directory counts as already installed.
AttachSkipsExisting ==
  /\ pc = "attach"
  /\ objects' = IF objects = {} THEN Refs[payload["database"]] ELSE objects
  /\ Goto("build")
  /\ UNCHANGED <<live, rollback, fresh, recovery, marker, caller, old, payload,
                 committed, outcome, before, faults>>

\* _install_staged_attachments: missing objects, one at a time, before the
\* transaction; extras are harmless.
Attach ==
  /\ pc = "attach"
  /\ \/ \E o \in Refs[payload["database"]] \ objects :
          /\ objects' = objects \cup {o}
          /\ UNCHANGED <<pc, todo, copying>>
     \/ /\ Refs[payload["database"]] \subseteq objects
        /\ Goto("build")
        /\ UNCHANGED objects
  /\ UNCHANGED <<live, rollback, fresh, recovery, marker, caller, old, payload,
                 committed, outcome, before, faults>>

Build ==
  /\ pc = "build"
  /\ marker' = Marker("building", NoOld, NoNew)
  /\ caller' = "apply"
  /\ old' = NoOld
  /\ Loop("snapshot", Targets)
  /\ UNCHANGED <<live, rollback, fresh, recovery, objects, payload, committed,
                 outcome, before, faults>>

\* _snapshot_restore_target for each target.
Snapshot ==
  /\ pc = "snapshot"
  /\ \/ \E t \in First(todo) :
          \/ /\ live[t] = Absent
             /\ Loop("snapshot", todo \ {t})
             /\ UNCHANGED <<rollback, old>>
          \/ /\ live[t] # Absent
             /\ copying = None
             /\ rollback' = [rollback EXCEPT ![t] = Partial]
             /\ copying' = t
             /\ UNCHANGED <<pc, todo, old>>
          \/ /\ copying = t
             /\ rollback' = [rollback EXCEPT ![t] = live[t]]
             /\ old' = [old EXCEPT ![t] = live[t]]
             /\ Loop("snapshot", todo \ {t})
     \/ /\ todo = {}
        /\ Loop("stage_new", Replaced)
        /\ UNCHANGED <<rollback, old>>
  /\ UNCHANGED <<live, fresh, recovery, objects, marker, caller, payload,
                 committed, outcome, before, faults>>

\* Mutant: a staged copy counts as complete once its file exists.
StageNewOpensOnly ==
  /\ pc = "stage_new"
  /\ \/ \E t \in First(todo) :
          fresh' = [fresh EXCEPT ![t] = Partial] /\ Loop("stage_new", todo \ {t})
     \/ todo = {} /\ Goto("mark_prepared") /\ UNCHANGED fresh
  /\ UNCHANGED <<live, rollback, recovery, objects, marker, caller, old,
                 payload, committed, outcome, before, faults>>


StageNew ==
  /\ pc = "stage_new"
  /\ \/ \E t \in First(todo) :
          \/ /\ copying = None
             /\ fresh' = [fresh EXCEPT ![t] = Partial]
             /\ copying' = t
             /\ UNCHANGED <<pc, todo>>
          \/ /\ copying = t
             /\ fresh' = [fresh EXCEPT ![t] = payload[t]]
             /\ Loop("stage_new", todo \ {t})
     \/ /\ todo = {}
        /\ Goto("mark_prepared")
        /\ UNCHANGED fresh
  /\ UNCHANGED <<live, rollback, recovery, objects, marker, caller, old,
                 payload, committed, outcome, before, faults>>

\* Mutant: the targets are replaced before the prepared marker is durable.
MarkPreparedLate ==
  /\ pc = "mark_prepared"
  /\ Goto("replace_database")
  /\ UNCHANGED <<disk, caller, old, payload, committed, outcome, before, faults>>


MarkPrepared ==
  /\ pc = "mark_prepared"
  /\ marker' = Marker("prepared", old, fresh)
  /\ Goto("replace_database")
  /\ UNCHANGED <<live, rollback, fresh, recovery, objects, caller, old, payload,
                 committed, outcome, before, faults>>

Replace(t, next) ==
  /\ live' = [live EXCEPT ![t] = fresh[t]]
  /\ fresh' = [fresh EXCEPT ![t] = Absent]
  /\ Goto(next)
  /\ UNCHANGED <<rollback, recovery, objects, marker, caller, old, payload,
                 committed, outcome, before, faults>>

ReplaceDatabase == pc = "replace_database" /\ Replace("database", "replace_settings")
\* Mutant: the old sidecars survive the switch.
ReplaceSettingsKeepsWal ==
  pc = "replace_settings" /\ Replace("settings", "mark_committed")


ReplaceSettings == pc = "replace_settings" /\ Replace("settings", "drop_wal")

\* The commit point: one durable rename of the marker ...
MarkCommitted ==
  /\ pc = "mark_committed"
  /\ marker' = [marker EXCEPT !.state = "committed"]
  /\ Goto("note_committed")
  /\ UNCHANGED <<live, rollback, fresh, recovery, objects, caller, old, payload,
                 committed, outcome, before, faults>>

\* Mutant: the local flag is never set.
NoteCommittedForgets ==
  /\ pc = "note_committed"
  /\ Goto("mark_finished")
  /\ UNCHANGED <<disk, caller, old, payload, committed, outcome, before, faults>>

\* ... after which the local flag is set.  Between the two only the directory
\* fsync of the POSIX branch of _durable_replace can still raise.
NoteCommitted ==
  /\ pc = "note_committed"
  /\ committed' = TRUE
  /\ Goto("mark_finished")
  /\ UNCHANGED <<disk, caller, old, payload, outcome, before, faults>>

\* _cleanup_live_attachment_objects, one unlink at a time, then the report.
Sweep ==
  /\ pc = "sweep"
  /\ \/ \E o \in objects \ Refs[payload["database"]] :
          /\ objects' = objects \ {o}
          /\ UNCHANGED <<pc, todo, copying, outcome>>
     \/ /\ objects \subseteq Refs[payload["database"]]
        /\ outcome' = "restored"
        /\ Goto("off")
        /\ UNCHANGED objects
  /\ UNCHANGED <<live, rollback, fresh, recovery, marker, caller, old, payload,
                 committed, before, faults>>
-----------------------------------------------------------------------------
(* Faults                                                                  *)

\* The process or the machine dies between two file operations.
Crash ==
  /\ pc # "off"
  /\ faults < MaxFaults
  /\ faults' = faults + 1
  /\ outcome' = None
  /\ Goto("off")
  /\ UNCHANGED <<disk, caller, old, payload, committed, before>>

CanRaise == PCs \ ({"off", "session"} \cup
                   (IF DirSyncCanFail THEN {} ELSE {"note_committed"}))

\* An open copy that fails is unlinked, unless that fails as well.
AbandonCopy(files) ==
  \/ UNCHANGED files
  \/ /\ copying \in DOMAIN files
     /\ files[copying] = Partial
     /\ files' = [files EXCEPT ![copying] = Absent]

\* The file operation at pc raises.
Fail ==
  /\ pc \in CanRaise
  /\ faults < MaxFaults
  /\ faults' = faults + 1
  /\ Raise
  /\ AbandonCopy(rollback)
  /\ AbandonCopy(fresh)
  /\ AbandonCopy(recovery)
  /\ UNCHANGED <<live, objects, marker, old, payload, committed, before>>

\* Evidence disappears between two runs: a rollback copy, or a target of a
\* transaction that was decided but not yet cleaned up.
Vanish ==
  /\ FilesCanVanish
  /\ pc = "off"
  /\ faults < MaxFaults
  /\ faults' = faults + 1
  /\ \/ /\ \E t \in Targets : rollback' = [rollback EXCEPT ![t] = Absent]
        /\ UNCHANGED live
     \/ /\ marker.state \in {"rolled_back", "committed", "committed_cleaning"}
        /\ \E t \in Replaced : live' = [live EXCEPT ![t] = Absent]
        /\ UNCHANGED rollback
  /\ UNCHANGED <<fresh, recovery, objects, marker, pc, locals, outcome, before>>
-----------------------------------------------------------------------------
Recover ==
  \/ ReadMarker \/ VerifyRollback \/ VerifyNew \/ VerifyOld \/ PutBack \/ Swap
  \/ DropWal \/ DropShm \/ MarkFinished \/ Clean \/ Unmark
Apply ==
  \/ Attach \/ Build \/ Snapshot \/ StageNew \/ MarkPrepared \/ ReplaceDatabase
  \/ ReplaceSettings \/ MarkCommitted \/ NoteCommitted \/ Sweep

Next ==
  \/ Launch \/ Work \/ Quit \/ BeginApply
  \/ Recover \/ Apply
  \/ Crash \/ Fail \/ Vanish

Spec == Init /\ [][Next]_vars

\* The process executes its next operation; a user starts the program again.
Fairness == WF_vars(Recover \/ Apply) /\ WF_vars(Launch)
FairSpec == Spec /\ Fairness
-----------------------------------------------------------------------------
\* The files the next start will find in place once recovery has run.
Recovered ==
  CASE marker.state \in {"prepared", "rolled_back"} -> marker.old
    [] marker.state \in {"committed", "committed_cleaning"} -> NewImage(marker.new)
    [] OTHER -> live

\* A restore looks atomic to every session: see AtomicRestore.
Atomic == INSTANCE AtomicRestore
            WITH image <- Recovered, open <- pc = "session", staged <- payload
\* The docstring of apply_validated_restore, "one crash-recoverable restore
\* transaction": whatever crashes and errors interrupt it, what the next session
\* will find changes as a whole or not at all, and never under an open session.
ImplementsAtomicRestore == Atomic!Spec

\* A session never opens the files of an unfinished transaction: SQLite and
\* settings are opened only after recovery has removed the marker.
SessionHasNoTransaction == pc = "session" => marker.state = None

\* The evidence a recovery verifies is there whenever it looks: no sequence of
\* crashes, errors and interrupted recoveries leaves the program unable to start
\* because a checksum no longer matches.
RecoveryNeverFailsClosed ==
  /\ pc = "verify_rollback" => RollbackMatches
  /\ pc = "verify_new" => NewMatches
  /\ pc = "verify_old" => \A t \in todo : OldMatches(t)

\* Once the marker is gone nothing of the transaction is left beside the live
\* files, so that no later transaction or reader meets a stale copy.
NoArtifactsLeft ==
  marker.state = None =>
    /\ \A t \in Targets : rollback[t] = Absent /\ recovery[t] = Absent
    /\ \A t \in Replaced : fresh[t] = Absent

\* Every attachment object the database to be opened next refers to exists: they
\* are installed before the switch and the old ones swept only after it.
AttachmentsPresent ==
  Recovered["database"] \in Contents => Refs[Recovered["database"]] \subseteq objects

\* What apply_validated_restore reports is what the next session will find: the
\* RestoreError text "the previous data was restored", or a restore that took.
ReportIsTrue ==
  /\ outcome = "previous_restored" => Recovered = before
  /\ outcome \in {"restored", "restored_uncleaned"} => Recovered = NewImage(payload)

\* What a finished restore leaves: no artifacts, all attachments, a true report.
OutcomeIsSound == NoArtifactsLeft /\ AttachmentsPresent /\ ReportIsTrue

\* The comment in recover_interrupted_restore, "No live target is ever changed
\* until the durable prepared marker exists", for every step outside a session.
LiveChangesOnlyUnderMarker ==
  [][live' # live => pc = "session" \/ marker.state \notin {None, "building"}]_vars

\* A transaction that began is brought to its end, by itself or by a later start,
\* once the faults are over.
TransactionEnds == marker.state # None ~> marker.state = None
=============================================================================

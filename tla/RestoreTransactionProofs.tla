---------------------- MODULE RestoreTransactionProofs ----------------------
(***************************************************************************)
(* Type correctness, the session invariant and the implementation of       *)
(* AtomicRestore by RestoreTransaction, for any contents, objects, number  *)
(* of faults and whichever of the two fault switches is on; the evidence   *)
(* recovery needs, if nothing else removes files; and what a transaction   *)
(* leaves behind, where a true report needs that fsync of a directory      *)
(* does not fail.                                                          *)
(***************************************************************************)
EXTENDS RestoreTransaction, TLAPS

Decided == {"committed", "committed_cleaning"}

\* Which marker and which caller each operation runs under.
Control ==
  /\ pc \in {"session", "attach", "build", "sweep"} => marker.state = None
  /\ pc \in {"snapshot", "stage_new", "mark_prepared"} => marker.state = "building"
  /\ pc \in {"replace_database", "replace_settings", "mark_committed",
             "verify_rollback", "put_back", "swap"} => marker.state = "prepared"
  /\ pc \in {"drop_wal", "drop_shm"} => marker.state \in {"prepared"} \cup Decided
  /\ pc = "note_committed" => marker.state = "committed"
  /\ pc = "verify_old" => marker.state = "rolled_back"
  /\ pc = "verify_new" => marker.state \in Decided
  /\ pc = "mark_finished" => marker.state \in {"prepared", "committed"}
  /\ pc = "clean" => marker.state \in {"building", "rolled_back", "committed_cleaning"}
  /\ marker.state \notin {None, "building"} => marker.new \in Payload

\* The installation: what has been snapshotted, staged and replaced so far.
Installing ==
  /\ pc = "snapshot" =>
       \A t \in Targets : old[t] = IF t \in todo THEN Absent ELSE live[t]
  /\ pc \in {"stage_new", "mark_prepared"} => old = live
  /\ pc = "stage_new" => \A t \in Replaced \ todo : fresh[t] = payload[t]
  /\ pc = "mark_prepared" => fresh = payload
  /\ pc \in {"replace_database", "replace_settings"} =>
       marker.new = payload /\ fresh["settings"] = payload["settings"]
  /\ pc = "replace_database" => fresh["database"] = payload["database"]
  /\ pc = "replace_settings" => live["database"] = marker.new["database"]
  /\ pc \in {"drop_wal", "drop_shm", "mark_committed"} =>
       NewMatches /\ (marker.state = "prepared" => marker.new = payload)
  /\ pc = "drop_shm" => live["database_wal"] = Absent
  /\ pc \in {"mark_committed", "note_committed"} => live = NewImage(marker.new)

\* The rollback: every target the loop has left is the old one again.
PuttingBack ==
  /\ pc \in {"put_back", "swap"} =>
       /\ RollbackMatches
       /\ copying # None => marker.old[copying] # Absent
  /\ pc \in {"put_back", "swap", "verify_old"} =>
       \A t \in Targets \ todo : live[t] = marker.old[t]
  /\ pc = "swap" => copying # None /\ recovery[copying] = rollback[copying]

\* Cleanup starts only when the live files are what the marker says.
Settled ==
  /\ pc \in {"mark_finished", "clean"} /\ marker.state \in {"prepared", "rolled_back"} =>
       live = marker.old
  /\ pc \in {"mark_finished", "clean"} /\ marker.state \in Decided =>
       live = NewImage(marker.new)

IInv == TypeOK /\ Control /\ Installing /\ PuttingBack /\ Settled

LEMMA LaunchKeeps == ASSUME IInv, Launch PROVE IInv'
<1>1. TypeOK'
  BY DEF IInv, TypeOK, File, Image, Payload, PCs, Callers, States, NoOld, NoNew,
     Targets, Replaced, Launch, Goto, disk
<1>2. Control'
  BY DEF IInv, Control, Launch, Goto, disk
<1>3. Installing'
  BY DEF IInv, Installing, Launch, Goto, disk
<1>4. PuttingBack'
  BY DEF IInv, PuttingBack, Launch, Goto, disk
<1>5. Settled'
  BY DEF IInv, Settled, Launch, Goto, disk
<1>. QED  BY <1>1, <1>2, <1>3, <1>4, <1>5 DEF IInv

LEMMA WorkKeeps == ASSUME IInv, Work PROVE IInv'
<1>1. TypeOK'
  BY FaultAssumption, RefsAssumption DEF IInv, TypeOK, File, Copy, Image, Payload,
     PCs, Callers, States, NoOld, NoNew, None, Targets, Replaced, Work, locals
<1>2. Control'
  BY DEF IInv, Control, Work, locals
<1>3. Installing'
  BY DEF IInv, Installing, Work, locals
<1>4. PuttingBack'
  BY DEF IInv, PuttingBack, Work, locals
<1>5. Settled'
  BY DEF IInv, Settled, Work, locals
<1>. QED  BY <1>1, <1>2, <1>3, <1>4, <1>5 DEF IInv

LEMMA QuitKeeps == ASSUME IInv, Quit PROVE IInv'
<1>1. TypeOK'
  BY DEF IInv, TypeOK, PCs, Callers, Quit, Goto, disk
<1>2. Control'
  BY DEF IInv, Control, Quit, Goto, disk
<1>3. Installing'
  BY DEF IInv, Installing, Quit, Goto, disk
<1>4. PuttingBack'
  BY DEF IInv, PuttingBack, Quit, Goto, disk
<1>5. Settled'
  BY DEF IInv, Settled, Quit, Goto, disk
<1>. QED  BY <1>1, <1>2, <1>3, <1>4, <1>5 DEF IInv

LEMMA BeginApplyKeeps == ASSUME IInv, BeginApply PROVE IInv'
<1>1. TypeOK'
  BY DEF IInv, TypeOK, PCs, Callers, BeginApply, Goto, disk
<1>2. Control'
  BY DEF IInv, Control, BeginApply, Goto, disk
<1>3. Installing'
  BY DEF IInv, Installing, BeginApply, Goto, disk
<1>4. PuttingBack'
  BY DEF IInv, PuttingBack, BeginApply, Goto, disk
<1>5. Settled'
  BY DEF IInv, Settled, BeginApply, Goto, disk
<1>. QED  BY <1>1, <1>2, <1>3, <1>4, <1>5 DEF IInv

LEMMA ReadMarkerKeeps == ASSUME IInv, ReadMarker PROVE IInv'
<1>1. TypeOK'
  BY DEF IInv, TypeOK, PCs, Callers, ReadMarker, Return, Goto, Loop, disk
<1>2. Control'
  BY DEF IInv, Control, Decided, ReadMarker, Return, Goto, Loop, disk
<1>3. Installing'
  BY DEF IInv, Installing, ReadMarker, Return, Goto, Loop, disk
<1>4. PuttingBack'
  BY DEF IInv, PuttingBack, ReadMarker, Return, Goto, Loop, disk
<1>5. Settled'
  BY DEF IInv, Control, Settled, Decided, ReadMarker, Return, Goto, Loop, disk
<1>. QED  BY <1>1, <1>2, <1>3, <1>4, <1>5 DEF IInv

LEMMA VerifyRollbackKeeps == ASSUME IInv, VerifyRollback PROVE IInv'
<1>1. TypeOK'
  BY DEF IInv, TypeOK, PCs, Callers, VerifyRollback, Raise, Goto, Loop, disk
<1>2. Control'
  BY DEF IInv, Control, VerifyRollback, Raise, Goto, Loop, disk
<1>3. Installing'
  BY DEF IInv, Installing, VerifyRollback, Raise, Goto, Loop, disk
<1>4. PuttingBack'
  BY DEF IInv, PuttingBack, RollbackMatches, VerifyRollback, Raise, Goto, Loop, disk
<1>5. Settled'
  BY DEF IInv, Settled, VerifyRollback, Raise, Goto, Loop, disk
<1>. QED  BY <1>1, <1>2, <1>3, <1>4, <1>5 DEF IInv

LEMMA VerifyNewKeeps == ASSUME IInv, VerifyNew PROVE IInv'
<1>1. TypeOK'
  BY DEF IInv, TypeOK, PCs, Callers, VerifyNew, Raise, Goto, disk, NewMatches
<1>2. Control'
  BY DEF IInv, Control, VerifyNew, Raise, Goto, disk, NewMatches
<1>3. Installing'
  BY DEF IInv, Control, Installing, NewMatches, Decided, VerifyNew, Raise, Goto,
     disk
<1>4. PuttingBack'
  BY DEF IInv, PuttingBack, VerifyNew, Raise, Goto, disk, NewMatches
<1>5. Settled'
  BY DEF IInv, Settled, VerifyNew, Raise, Goto, disk, NewMatches
<1>. QED  BY <1>1, <1>2, <1>3, <1>4, <1>5 DEF IInv

LEMMA VerifyOldKeeps == ASSUME IInv, VerifyOld PROVE IInv'
<1>1. TypeOK'
  <2>1. live' \in [Targets -> File]
    BY DEF IInv, TypeOK, File, Copy, Image, Payload, None, Callers, VerifyOld,
       First, Goto, Loop, Raise
  <2>2. todo' \in SUBSET Targets /\ copying' \in Targets \cup {None}
    BY DEF IInv, TypeOK, File, Copy, Image, Payload, None, Callers, VerifyOld,
       First, Goto, Loop, Raise
  <2>3. caller' \in Callers
    BY DEF IInv, TypeOK, File, Copy, Image, Payload, None, Callers, VerifyOld,
       First, Goto, Loop, Raise
  <2>. QED
    BY <2>1, <2>2, <2>3 DEF IInv, TypeOK, File, Copy, Image, Payload, PCs, Callers,
       States, NoOld, NoNew, None, VerifyOld, First, Goto, Loop, Raise
<1>2. Control'
  BY DEF IInv, Control, VerifyOld, OldMatches, Raise, Goto, Loop, First
<1>3. Installing'
  BY DEF IInv, Installing, VerifyOld, OldMatches, Raise, Goto, Loop, First
<1>4. PuttingBack'
  BY DEF IInv, TypeOK, Image, None, Control, PuttingBack, RollbackMatches,
     VerifyOld, OldMatches, Raise, Goto, Loop, First
<1>5. Settled'
  BY DEF IInv, TypeOK, Image, Control, Installing, PuttingBack, Settled, Decided,
     VerifyOld, OldMatches, Raise, Goto, Loop, First
<1>. QED  BY <1>1, <1>2, <1>3, <1>4, <1>5 DEF IInv

LEMMA PutBackKeeps == ASSUME IInv, PutBack PROVE IInv'
<1>1. TypeOK'
  <2>1. live' \in [Targets -> File]
    BY DEF IInv, TypeOK, File, Copy, Image, Payload, None, PutBack, First, Goto,
       Loop
  <2>2. recovery' \in [Targets -> Copy]
    BY DEF IInv, TypeOK, File, Copy, Image, Payload, None, PutBack, First, Goto,
       Loop
  <2>3. todo' \in SUBSET Targets /\ copying' \in Targets \cup {None}
    BY DEF IInv, TypeOK, File, Copy, Image, Payload, None, PutBack, First, Goto,
       Loop
  <2>. QED
    BY <2>1, <2>2, <2>3 DEF IInv, TypeOK, File, Copy, Image, Payload, PCs, Callers,
       States, NoOld, NoNew, None, PutBack, First, Goto, Loop
<1>2. Control'
  BY DEF IInv, Control, PutBack, Goto, Loop, First
<1>3. Installing'
  BY DEF IInv, Installing, PutBack, Goto, Loop, First
<1>4. PuttingBack'
  <2>1. (\A t \in Targets \ todo : live[t] = marker.old[t])
        /\ RollbackMatches /\ (copying # None => marker.old[copying] # Absent)
    BY DEF IInv, PuttingBack, PutBack
  <2>2. \A t \in Targets \ todo' : live'[t] = marker.old[t]
    BY <2>1 DEF IInv, TypeOK, Image, PutBack, Goto, Loop, First
  <2>3. pc' = "swap" => copying' # None /\ recovery'[copying'] = rollback[copying']
    BY DEF IInv, TypeOK, None, Targets, PutBack, Goto, Loop, First
  <2>4. copying' # None => marker.old[copying'] # Absent
    BY <2>1 DEF PutBack, Goto, Loop
  <2>. QED
    BY <2>1, <2>2, <2>3, <2>4 DEF PuttingBack, RollbackMatches, PutBack
<1>5. Settled'
  BY DEF IInv, TypeOK, Image, Control, Installing, PuttingBack, Settled, Decided,
     PutBack, Goto, Loop, First
<1>. QED  BY <1>1, <1>2, <1>3, <1>4, <1>5 DEF IInv

LEMMA SwapKeeps == ASSUME IInv, Swap PROVE IInv'
<1>1. TypeOK'
  <2>1. copying \in Targets /\ recovery[copying] \in File
    BY DEF IInv, TypeOK, File, Copy, Image, Payload, PCs, Callers, States, NoOld,
       NoNew, None, Control, PuttingBack, RollbackMatches, Swap
  <2>2. live' \in Image
    BY <2>1 DEF IInv, TypeOK, File, Copy, Image, Payload, PCs, Callers, States,
       NoOld, NoNew, None, Swap
  <2>3. recovery' \in [Targets -> Copy]
    BY <2>1 DEF IInv, TypeOK, File, Copy, Image, Payload, PCs, Callers, States,
       NoOld, NoNew, None, Swap
  <2>. QED
    BY <2>1, <2>2, <2>3 DEF IInv, TypeOK, File, Copy, Image, Payload, PCs, Callers,
       States, NoOld, NoNew, None, Swap, Loop
<1>2. Control'
  BY DEF IInv, Control, Swap, Loop
<1>3. Installing'
  BY DEF IInv, Installing, Swap, Loop
<1>4. PuttingBack'
  BY DEF IInv, TypeOK, Image, None, Control, PuttingBack, RollbackMatches, Swap,
     Loop
<1>5. Settled'
  BY DEF IInv, Settled, Swap, Loop
<1>. QED  BY <1>1, <1>2, <1>3, <1>4, <1>5 DEF IInv

LEMMA DropWalKeeps == ASSUME IInv, DropWal PROVE IInv'
<1>1. TypeOK'
  BY DEF IInv, TypeOK, File, Image, PCs, Callers, None, DropWal, Goto
<1>2. Control'
  BY DEF IInv, Control, DropWal, Goto
<1>3. Installing'
  BY DEF IInv, TypeOK, Image, Control, Installing, NewMatches, NewImage, Targets,
     Replaced, DropWal, Goto
<1>4. PuttingBack'
  BY DEF IInv, PuttingBack, DropWal, Goto
<1>5. Settled'
  BY DEF IInv, Settled, DropWal, Goto
<1>. QED  BY <1>1, <1>2, <1>3, <1>4, <1>5 DEF IInv

LEMMA DropShmKeeps == ASSUME IInv, DropShm PROVE IInv'
<1>1. TypeOK'
  BY DEF IInv, TypeOK, File, Image, PCs, Callers, None, DropShm, Goto, Loop
<1>2. Control'
  BY DEF IInv, Control, DropShm, Goto, Loop
<1>3. Installing'
  BY DEF IInv, TypeOK, Image, Control, Installing, NewMatches, NewImage, Targets,
     Replaced, DropShm, Goto, Loop
<1>4. PuttingBack'
  BY DEF IInv, PuttingBack, DropShm, Goto, Loop
<1>5. Settled'
  <2>1. live' = NewImage(marker.new)
    <3>1. \A t \in Targets : live'[t] = NewImage(marker.new)[t]
      BY DEF IInv, TypeOK, File, Copy, Image, Payload, PCs, Callers, States, NoOld,
         NoNew, None, Installing, NewMatches, NewImage, Targets, Replaced, DropShm
    <3>2. live' \in Image
      BY <1>1 DEF TypeOK
    <3>. QED
      BY <3>1, <3>2 DEF Image, NewImage
  <2>. QED
    BY <2>1 DEF IInv, Control, Settled, Decided, DropShm, Goto, Loop
<1>. QED  BY <1>1, <1>2, <1>3, <1>4, <1>5 DEF IInv

LEMMA MarkFinishedKeeps == ASSUME IInv, MarkFinished PROVE IInv'
<1>1. TypeOK'
  BY DEF IInv, TypeOK, File, Image, Payload, PCs, Callers, States, NoOld, NoNew,
     Targets, Replaced, MarkFinished, Loop
<1>2. Control'
  BY DEF IInv, Control, Decided, None, MarkFinished, Loop
<1>3. Installing'
  BY DEF IInv, Installing, MarkFinished, Loop
<1>4. PuttingBack'
  BY DEF IInv, PuttingBack, MarkFinished, Loop
<1>5. Settled'
  BY DEF IInv, Control, Settled, Decided, MarkFinished, Loop
<1>. QED  BY <1>1, <1>2, <1>3, <1>4, <1>5 DEF IInv

LEMMA CleanKeeps == ASSUME IInv, Clean PROVE IInv'
<1>1. TypeOK'
  <2>1. rollback' \in [Targets -> Copy]
    BY DEF IInv, TypeOK, File, Copy, Image, Payload, None, Clean, First
  <2>2. fresh' \in [Replaced -> Copy]
    BY DEF IInv, TypeOK, File, Copy, Image, Payload, None, Clean, First
  <2>3. recovery' \in [Targets -> Copy]
    BY DEF IInv, TypeOK, File, Copy, Image, Payload, None, Clean, First
  <2>4. todo' \in SUBSET Targets
    BY DEF IInv, TypeOK, File, Copy, Image, Payload, None, Clean, First
  <2>. QED
    BY <2>1, <2>2, <2>3, <2>4 DEF IInv, TypeOK, File, Copy, Image, Payload, PCs,
       Callers, States, NoOld, NoNew, None, Clean, First
<1>2. Control'
  BY DEF IInv, Control, Clean, First
<1>3. Installing'
  BY DEF IInv, Installing, Clean, First
<1>4. PuttingBack'
  BY DEF IInv, PuttingBack, Clean, First
<1>5. Settled'
  BY DEF IInv, Settled, Clean, First
<1>. QED  BY <1>1, <1>2, <1>3, <1>4, <1>5 DEF IInv

LEMMA UnmarkKeeps == ASSUME IInv, Unmark PROVE IInv'
<1>1. TypeOK'
  BY DEF IInv, TypeOK, File, Image, Payload, PCs, Callers, States, NoOld, NoNew,
     Targets, Replaced, Unmark, Return, Goto, NoMarker, Marker
<1>2. Control'
  BY DEF IInv, Control, Unmark, Return, Goto, NoMarker, Marker
<1>3. Installing'
  BY DEF IInv, Installing, Unmark, Return, Goto, NoMarker, Marker
<1>4. PuttingBack'
  BY DEF IInv, PuttingBack, Unmark, Return, Goto, NoMarker, Marker
<1>5. Settled'
  BY DEF IInv, Settled, Unmark, Return, Goto, NoMarker, Marker
<1>. QED  BY <1>1, <1>2, <1>3, <1>4, <1>5 DEF IInv

LEMMA AttachKeeps == ASSUME IInv, Attach PROVE IInv'
<1>1. TypeOK'
  <2>1. objects' \in SUBSET Objects
    <3>1. Refs[payload["database"]] \in SUBSET Objects
      BY RefsAssumption DEF IInv, TypeOK, File, Copy, Image, Payload, PCs, Callers,
         States, NoOld, NoNew, None, Replaced
    <3>. QED
      BY <3>1 DEF IInv, TypeOK, Attach, Goto
  <2>. QED
    BY <2>1 DEF IInv, TypeOK, File, Copy, Image, Payload, PCs, Callers, States,
       NoOld, NoNew, None, Attach, Goto
<1>2. Control'
  BY DEF IInv, Control, Attach, Goto
<1>3. Installing'
  BY DEF IInv, Installing, Attach, Goto
<1>4. PuttingBack'
  BY DEF IInv, PuttingBack, Attach, Goto
<1>5. Settled'
  BY DEF IInv, Settled, Attach, Goto
<1>. QED  BY <1>1, <1>2, <1>3, <1>4, <1>5 DEF IInv

LEMMA BuildKeeps == ASSUME IInv, Build PROVE IInv'
<1>1. TypeOK'
  BY DEF IInv, TypeOK, File, Image, Payload, PCs, Callers, States, NoOld, NoNew,
     Targets, Replaced, Build, Loop, Marker
<1>2. Control'
  BY DEF IInv, Control, Build, Loop, Marker
<1>3. Installing'
  BY DEF IInv, TypeOK, File, Copy, Image, Payload, PCs, Callers, States, NoOld,
     NoNew, None, Control, Installing, Decided, NewMatches, NewImage, Targets,
     Replaced, Build, Loop, Marker
<1>4. PuttingBack'
  BY DEF IInv, PuttingBack, Build, Loop, Marker
<1>5. Settled'
  BY DEF IInv, Settled, Build, Loop, Marker
<1>. QED  BY <1>1, <1>2, <1>3, <1>4, <1>5 DEF IInv

LEMMA SnapshotKeeps == ASSUME IInv, Snapshot PROVE IInv'
<1>1. TypeOK'
  <2>1. rollback' \in [Targets -> Copy]
    BY DEF IInv, TypeOK, File, Copy, Image, Payload, None, Snapshot, First, Goto,
       Loop, Targets, Replaced
  <2>2. old' \in [Targets -> File]
    BY DEF IInv, TypeOK, File, Copy, Image, Payload, None, Snapshot, First, Goto,
       Loop, Targets, Replaced
  <2>3. todo' \in SUBSET Targets
    BY DEF IInv, TypeOK, File, Copy, Image, Payload, None, Snapshot, First, Goto,
       Loop, Targets, Replaced
  <2>4. copying' \in Targets \cup {None}
    BY DEF IInv, TypeOK, File, Copy, Image, Payload, None, Snapshot, First, Goto,
       Loop, Targets, Replaced
  <2>. QED
    BY <2>1, <2>2, <2>3, <2>4 DEF IInv, TypeOK, File, Copy, Image, Payload, PCs,
       Callers, States, NoOld, NoNew, None, Snapshot, First, Goto, Loop, Targets,
       Replaced
<1>2. Control'
  BY DEF IInv, Control, Snapshot, Goto, Loop, First
<1>3. Installing'
  BY DEF IInv, TypeOK, Image, Control, Installing, NewMatches, NewImage, Targets,
     Replaced, Snapshot, Goto, Loop, First
<1>4. PuttingBack'
  BY DEF IInv, PuttingBack, Snapshot, Goto, Loop, First
<1>5. Settled'
  BY DEF IInv, Settled, Snapshot, Goto, Loop, First
<1>. QED  BY <1>1, <1>2, <1>3, <1>4, <1>5 DEF IInv

LEMMA StageNewKeeps == ASSUME IInv, StageNew PROVE IInv'
<1>1. TypeOK'
  <2>1. fresh' \in [Replaced -> Copy]
    BY DEF IInv, TypeOK, File, Copy, Image, Payload, None, StageNew, First, Goto,
       Loop, Replaced, Targets
  <2>2. todo' \in SUBSET Targets /\ copying' \in Targets \cup {None}
    BY DEF IInv, TypeOK, File, Copy, Image, Payload, None, StageNew, First, Goto,
       Loop, Replaced, Targets
  <2>. QED
    BY <2>1, <2>2 DEF IInv, TypeOK, File, Copy, Image, Payload, PCs, Callers,
       States, NoOld, NoNew, None, StageNew, First, Goto, Loop, Replaced, Targets
<1>2. Control'
  BY DEF IInv, Control, StageNew, Goto, Loop, First
<1>3. Installing'
  BY DEF IInv, TypeOK, File, Copy, Image, Payload, PCs, Callers, States, NoOld,
     NoNew, None, Control, Installing, Decided, NewMatches, NewImage, Targets,
     Replaced, StageNew, Goto, Loop, First
<1>4. PuttingBack'
  BY DEF IInv, PuttingBack, StageNew, Goto, Loop, First
<1>5. Settled'
  BY DEF IInv, Settled, StageNew, Goto, Loop, First
<1>. QED  BY <1>1, <1>2, <1>3, <1>4, <1>5 DEF IInv

LEMMA MarkPreparedKeeps == ASSUME IInv, MarkPrepared PROVE IInv'
<1>1. TypeOK'
  <2>1. fresh \in Payload
    BY DEF IInv, TypeOK, Installing, MarkPrepared
  <2>. QED
    BY <2>1 DEF IInv, TypeOK, File, Copy, Image, Payload, PCs, Callers, States,
       NoOld, NoNew, None, MarkPrepared, Goto, Marker
<1>2. Control'
  BY DEF IInv, TypeOK, File, Copy, Image, Payload, PCs, Callers, States, NoOld,
     NoNew, None, Control, Installing, Decided, MarkPrepared, Goto, Marker
<1>3. Installing'
  BY DEF IInv, Installing, MarkPrepared, Goto, Marker
<1>4. PuttingBack'
  BY DEF IInv, PuttingBack, MarkPrepared, Goto, Marker
<1>5. Settled'
  BY DEF IInv, Settled, MarkPrepared, Goto, Marker
<1>. QED  BY <1>1, <1>2, <1>3, <1>4, <1>5 DEF IInv

LEMMA ReplaceDatabaseKeeps == ASSUME IInv, ReplaceDatabase PROVE IInv'
<1>1. TypeOK'
  <2>1. fresh["database"] \in Contents
    BY DEF IInv, TypeOK, File, Copy, Image, Payload, PCs, Callers, States, NoOld,
       NoNew, None, Installing, Replaced, ReplaceDatabase
  <2>. QED
    BY <2>1 DEF IInv, TypeOK, File, Copy, Image, Payload, PCs, Callers, States,
       NoOld, NoNew, None, Targets, Replaced, ReplaceDatabase, Replace, Goto
<1>2. Control'
  BY DEF IInv, Control, ReplaceDatabase, Replace, Goto
<1>3. Installing'
  BY DEF IInv, TypeOK, Image, Control, Installing, NewMatches, NewImage, Targets,
     Replaced, ReplaceDatabase, Replace, Goto
<1>4. PuttingBack'
  BY DEF IInv, PuttingBack, ReplaceDatabase, Replace, Goto
<1>5. Settled'
  BY DEF IInv, Settled, ReplaceDatabase, Replace, Goto
<1>. QED  BY <1>1, <1>2, <1>3, <1>4, <1>5 DEF IInv

LEMMA ReplaceSettingsKeeps == ASSUME IInv, ReplaceSettings PROVE IInv'
<1>1. TypeOK'
  <2>1. fresh["settings"] \in Contents
    BY DEF IInv, TypeOK, File, Copy, Image, Payload, PCs, Callers, States, NoOld,
       NoNew, None, Installing, Replaced, ReplaceSettings
  <2>. QED
    BY <2>1 DEF IInv, TypeOK, File, Copy, Image, Payload, PCs, Callers, States,
       NoOld, NoNew, None, Targets, Replaced, ReplaceSettings, Replace, Goto
<1>2. Control'
  BY DEF IInv, Control, ReplaceSettings, Replace, Goto
<1>3. Installing'
  BY DEF IInv, TypeOK, Image, Control, Installing, NewMatches, NewImage, Targets,
     Replaced, ReplaceSettings, Replace, Goto
<1>4. PuttingBack'
  BY DEF IInv, PuttingBack, ReplaceSettings, Replace, Goto
<1>5. Settled'
  BY DEF IInv, Settled, ReplaceSettings, Replace, Goto
<1>. QED  BY <1>1, <1>2, <1>3, <1>4, <1>5 DEF IInv

LEMMA MarkCommittedKeeps == ASSUME IInv, MarkCommitted PROVE IInv'
<1>1. TypeOK'
  BY DEF IInv, TypeOK, File, Image, Payload, PCs, Callers, States, NoOld, NoNew,
     Targets, Replaced, MarkCommitted, Goto
<1>2. Control'
  BY DEF IInv, Control, Decided, None, MarkCommitted, Goto
<1>3. Installing'
  BY DEF IInv, Installing, MarkCommitted, Goto
<1>4. PuttingBack'
  BY DEF IInv, PuttingBack, MarkCommitted, Goto
<1>5. Settled'
  BY DEF IInv, Settled, MarkCommitted, Goto
<1>. QED  BY <1>1, <1>2, <1>3, <1>4, <1>5 DEF IInv

LEMMA NoteCommittedKeeps == ASSUME IInv, NoteCommitted PROVE IInv'
<1>1. TypeOK'
  BY DEF IInv, TypeOK, PCs, Callers, NoteCommitted, Goto, disk
<1>2. Control'
  BY DEF IInv, Control, NoteCommitted, Goto, disk
<1>3. Installing'
  BY DEF IInv, Installing, NoteCommitted, Goto, disk
<1>4. PuttingBack'
  BY DEF IInv, PuttingBack, NoteCommitted, Goto, disk
<1>5. Settled'
  BY DEF IInv, Control, Installing, PuttingBack, Settled, Decided, NoteCommitted,
     Goto, disk
<1>. QED  BY <1>1, <1>2, <1>3, <1>4, <1>5 DEF IInv

LEMMA SweepKeeps == ASSUME IInv, Sweep PROVE IInv'
<1>1. TypeOK'
  BY DEF IInv, TypeOK, PCs, Callers, Sweep, Goto
<1>2. Control'
  BY DEF IInv, Control, Sweep, Goto
<1>3. Installing'
  BY DEF IInv, Installing, Sweep, Goto
<1>4. PuttingBack'
  BY DEF IInv, PuttingBack, Sweep, Goto
<1>5. Settled'
  BY DEF IInv, Settled, Sweep, Goto
<1>. QED  BY <1>1, <1>2, <1>3, <1>4, <1>5 DEF IInv

LEMMA CrashKeeps == ASSUME IInv, Crash PROVE IInv'
<1>1. TypeOK'
  BY FaultAssumption DEF IInv, TypeOK, Image, PCs, Callers, None, Crash, Goto, disk
<1>2. Control'
  BY DEF IInv, Control, Crash, Goto, disk
<1>3. Installing'
  BY DEF IInv, Installing, Crash, Goto, disk
<1>4. PuttingBack'
  BY DEF IInv, PuttingBack, Crash, Goto, disk
<1>5. Settled'
  BY DEF IInv, Settled, Crash, Goto, disk
<1>. QED  BY <1>1, <1>2, <1>3, <1>4, <1>5 DEF IInv

LEMMA FailKeeps == ASSUME IInv, Fail PROVE IInv'
<1>1. TypeOK'
  BY FaultAssumption, RefsAssumption DEF IInv, TypeOK, File, Copy, Image, Payload,
     PCs, Callers, States, NoOld, NoNew, None, Targets, Replaced, Fail, Raise,
     CanRaise, AbandonCopy, Goto
<1>2. Control'
  BY DEF IInv, Control, Fail, Raise, CanRaise, AbandonCopy, Goto
<1>3. Installing'
  BY DEF IInv, Installing, Fail, Raise, CanRaise, AbandonCopy, Goto
<1>4. PuttingBack'
  BY DEF IInv, PuttingBack, Fail, Raise, CanRaise, AbandonCopy, Goto
<1>5. Settled'
  BY DEF IInv, Settled, Fail, Raise, CanRaise, AbandonCopy, Goto
<1>. QED  BY <1>1, <1>2, <1>3, <1>4, <1>5 DEF IInv

LEMMA VanishKeeps == ASSUME IInv, Vanish PROVE IInv'
<1>1. TypeOK'
  BY FaultAssumption, RefsAssumption DEF IInv, TypeOK, File, Copy, Image, Payload,
     PCs, Callers, States, NoOld, NoNew, None, Targets, Replaced, Vanish, locals
<1>2. Control'
  BY DEF IInv, Control, Vanish, locals
<1>3. Installing'
  BY DEF IInv, Installing, Vanish, locals
<1>4. PuttingBack'
  BY DEF IInv, PuttingBack, Vanish, locals
<1>5. Settled'
  BY DEF IInv, Settled, Vanish, locals
<1>. QED  BY <1>1, <1>2, <1>3, <1>4, <1>5 DEF IInv

LEMMA InitEstablishes == ASSUME Init PROVE IInv
<1>1. TypeOK
  <2>1. Refs[live["database"]] \in SUBSET Objects
    BY RefsAssumption DEF Init, Image, File, Targets
  <2>2. NoOld \in Image /\ NoNew \in [Replaced -> File]
    BY DEF NoOld, NoNew, Image, File
  <2>3. rollback \in [Targets -> Copy] /\ fresh \in [Replaced -> Copy] /\ recovery \in [Targets -> Copy]
    BY DEF Init, NoOld, NoNew, Copy, File
  <2>4. marker \in [state : States, old : Image, new : [Replaced -> File]]
    BY <2>2 DEF Init, NoMarker, Marker, States
  <2>. QED
    <3>1. live \in Image /\ before \in Image /\ old \in Image /\ objects \in SUBSET Objects
      BY <2>1, <2>2 DEF Init
    <3>2. faults \in 0..MaxFaults
      BY FaultAssumption DEF Init
    <3>. QED
      BY <2>3, <2>4, <3>1, <3>2 DEF Init, TypeOK, PCs, Callers, None
<1>. QED BY <1>1 DEF Init, IInv, Control, Installing, PuttingBack, Settled,
   NoMarker, Marker, None

LEMMA StepKeeps == ASSUME IInv, [Next]_vars PROVE IInv'
<1>1. CASE Next
  BY <1>1, LaunchKeeps, WorkKeeps, QuitKeeps, BeginApplyKeeps, ReadMarkerKeeps,
     VerifyRollbackKeeps, VerifyNewKeeps, VerifyOldKeeps, PutBackKeeps, SwapKeeps,
     DropWalKeeps, DropShmKeeps, MarkFinishedKeeps, CleanKeeps, UnmarkKeeps,
     AttachKeeps, BuildKeeps, SnapshotKeeps, StageNewKeeps, MarkPreparedKeeps,
     ReplaceDatabaseKeeps, ReplaceSettingsKeeps, MarkCommittedKeeps,
     NoteCommittedKeeps, SweepKeeps, CrashKeeps, FailKeeps, VanishKeeps
     DEF Next, Recover, Apply
<1>2. CASE UNCHANGED vars
  BY <1>2 DEF vars, IInv, TypeOK, Control, Installing, PuttingBack, Settled,
              RollbackMatches, NewMatches
<1>. QED  BY <1>1, <1>2

\* Every reachable state of the transaction (data_management.py 1176-1790) and
\* its crashes satisfies the strengthened invariant the other theorems rest on.
THEOREM Invariance == Spec => []IInv
<1>. QED  BY InitEstablishes, StepKeeps, PTL DEF Spec

\* Every variable keeps its type; in particular no live file is ever Partial.
THEOREM TypeCorrect == Spec => []TypeOK
<1>1. IInv => TypeOK
  BY DEF IInv
<1>. QED  BY <1>1, Invariance, PTL

\* No session ever opens the files of an unfinished transaction.
THEOREM SessionSafe == Spec => []SessionHasNoTransaction
<1>1. IInv => SessionHasNoTransaction
  BY DEF IInv, Control, SessionHasNoTransaction
<1>. QED  BY <1>1, Invariance, PTL

\* Outside a session a live file changes only under a marker that recovery acts on.
THEOREM LiveChangesSafe == Spec => LiveChangesOnlyUnderMarker
<1>1. ASSUME IInv, [Next]_vars
      PROVE  [live' # live => pc = "session" \/ marker.state \notin {None, "building"}]_vars
  <2>1. CASE UNCHANGED vars
    BY <2>1
  <2>2. CASE Next
    BY <1>1, <2>2 DEF IInv, Control, Decided, None, Next, Recover, Apply, disk,
       Launch, Work, Quit,
      BeginApply, ReadMarker, VerifyRollback, VerifyNew, VerifyOld, PutBack, Swap, DropWal,
      DropShm, MarkFinished, Clean, Unmark, Attach, Build, Snapshot, StageNew, MarkPrepared,
      ReplaceDatabase, ReplaceSettings, Replace, MarkCommitted, NoteCommitted, Sweep, Crash,
      Fail, Vanish
  <2>. QED  BY <1>1, <2>1, <2>2
<1>. QED  BY <1>1, Invariance, PTL DEF Spec, LiveChangesOnlyUnderMarker

\* The CASE of Recovered, one implication per arm, before and after a step.
LEMMA RecoveredCases ==
  /\ marker.state \in {None, "building"} => Recovered = live
  /\ marker.state \in {"prepared", "rolled_back"} => Recovered = marker.old
  /\ marker.state \in Decided => Recovered = NewImage(marker.new)
BY DEF Recovered, Decided, None

LEMMA RecoveredCasesPrimed ==
  /\ marker'.state \in {None, "building"} => Recovered' = live'
  /\ marker'.state \in {"prepared", "rolled_back"} => Recovered' = marker'.old
  /\ marker'.state \in Decided => Recovered' = NewImage(marker'.new)
BY DEF Recovered, Decided, None, NewImage

\* A step that keeps the marker, and keeps the live files unless the marker
\* decides, is invisible to the next session.
LEMMA SameMarkerSameImage ==
  ASSUME marker.state \in States, marker' = marker,
         live' = live \/ marker.state \notin {None, "building"}
  PROVE  Recovered' = Recovered
BY RecoveredCases, RecoveredCasesPrimed DEF States, Decided

AtomicStep == [Atomic!Next]_<<Recovered, pc = "session", payload>>

LEMMA StepRefines == ASSUME IInv, IInv', Next PROVE AtomicStep
<1> USE DEF AtomicStep
<1>t. marker.state \in States
  BY DEF IInv, TypeOK
<1>o. ASSUME Recovered' = Recovered, payload' = payload PROVE AtomicStep
  <2>1. CASE (pc = "session")' /\ pc # "session"
    BY <1>o, <2>1 DEF Atomic!Next, Atomic!Open
  <2>2. CASE ~(pc = "session")' /\ pc = "session"
    <3>1. payload \in [Replaced -> Contents]
      BY DEF IInv, TypeOK, Payload
    <3>. QED
      BY <1>o, <2>2, <3>1 DEF Atomic!Next, Atomic!Close, Atomic!Replaced, Replaced
  <2>3. CASE (pc = "session")' <=> pc = "session"
    BY <1>o, <2>3
  <2>. QED  BY <2>1, <2>2, <2>3
<1>1. CASE Launch
  BY <1>o, <1>t, <1>1, SameMarkerSameImage DEF IInv, Control, Decided, None, Launch,
     Goto, disk
<1>2. CASE Quit
  BY <1>o, <1>t, <1>2, SameMarkerSameImage DEF IInv, Control, Decided, None, Quit,
     Goto, disk
<1>3. CASE BeginApply
  <2>1. Recovered' = Recovered /\ payload' \in [Replaced -> Contents] /\ ~(pc = "session")'
    BY <1>t, <1>3, SameMarkerSameImage DEF BeginApply, Goto, disk, Payload
  <2>. QED
    BY <2>1 DEF Atomic!Next, Atomic!Close, Atomic!Replaced, Replaced
<1>4. CASE ReadMarker
  BY <1>o, <1>t, <1>4, SameMarkerSameImage DEF IInv, Control, Decided, None,
     ReadMarker, Return, Goto, Loop, disk
<1>5. CASE VerifyRollback
  BY <1>o, <1>t, <1>5, SameMarkerSameImage DEF IInv, Control, Decided, None,
     VerifyRollback, Raise, Goto, Loop, disk
<1>6. CASE VerifyNew
  BY <1>o, <1>t, <1>6, SameMarkerSameImage DEF IInv, Control, Decided, None,
     VerifyNew, Raise, Goto, disk
<1>7. CASE VerifyOld
  BY <1>o, <1>t, <1>7, SameMarkerSameImage DEF IInv, Control, Decided, None,
     VerifyOld, Raise, Goto, Loop
<1>8. CASE PutBack
  BY <1>o, <1>t, <1>8, SameMarkerSameImage DEF IInv, Control, Decided, None,
     PutBack, Goto, Loop
<1>9. CASE Swap
  BY <1>o, <1>t, <1>9, SameMarkerSameImage DEF IInv, Control, Decided, None, Swap,
     Loop
<1>10. CASE DropWal
  BY <1>o, <1>t, <1>10, SameMarkerSameImage DEF IInv, Control, Decided, None,
     DropWal, Goto
<1>11. CASE DropShm
  BY <1>o, <1>t, <1>11, SameMarkerSameImage DEF IInv, Control, Decided, None,
     DropShm, Goto, Loop
<1>12. CASE Clean
  BY <1>o, <1>t, <1>12, SameMarkerSameImage DEF IInv, Control, Decided, None, Clean
<1>13. CASE Attach
  BY <1>o, <1>t, <1>13, SameMarkerSameImage DEF IInv, Control, Decided, None,
     Attach, Goto
<1>14. CASE Snapshot
  BY <1>o, <1>t, <1>14, SameMarkerSameImage DEF IInv, Control, Decided, None,
     Snapshot, Goto, Loop
<1>15. CASE StageNew
  BY <1>o, <1>t, <1>15, SameMarkerSameImage DEF IInv, Control, Decided, None,
     StageNew, Goto, Loop
<1>16. CASE ReplaceDatabase
  BY <1>o, <1>t, <1>16, SameMarkerSameImage DEF IInv, Control, Decided, None,
     ReplaceDatabase, Replace, Goto
<1>17. CASE ReplaceSettings
  BY <1>o, <1>t, <1>17, SameMarkerSameImage DEF IInv, Control, Decided, None,
     ReplaceSettings, Replace, Goto
<1>18. CASE NoteCommitted
  BY <1>o, <1>t, <1>18, SameMarkerSameImage DEF IInv, Control, Decided, None,
     NoteCommitted, Goto, disk
<1>19. CASE Sweep
  BY <1>o, <1>t, <1>19, SameMarkerSameImage DEF IInv, Control, Decided, None, Sweep,
     Goto
<1>20. CASE Crash
  BY <1>o, <1>t, <1>20, SameMarkerSameImage DEF IInv, Control, Decided, None, Crash,
     Goto, disk
<1>21. CASE Fail
  BY <1>o, <1>t, <1>21, SameMarkerSameImage DEF IInv, Control, Decided, None, Fail,
     Raise, CanRaise, Goto
<1>22. CASE Vanish
  BY <1>o, <1>t, <1>22, SameMarkerSameImage DEF IInv, Control, Decided, None,
     Vanish, locals
<1>23. CASE Work
  <2>1. Recovered = live /\ Recovered' = live'
    BY <1>23, RecoveredCases, RecoveredCasesPrimed DEF IInv, Control, Work
  <2>2. PICK t \in Targets, c \in File : live' = [live EXCEPT ![t] = c]
    BY <1>23 DEF Work
  <2>3. pc = "session" /\ (pc = "session")' /\ payload' = payload
    BY <1>23 DEF Work, locals
  <2>. QED
    BY <2>1, <2>2, <2>3 DEF Atomic!Next, Atomic!Edit, Atomic!Targets, Targets,
       Atomic!File, File
<1>24. CASE MarkFinished
  BY <1>o, <1>t, <1>24, RecoveredCases, RecoveredCasesPrimed
     DEF IInv, TypeOK, Control, Decided, States, MarkFinished, Loop
<1>25. CASE Unmark
  BY <1>o, <1>25, RecoveredCases, RecoveredCasesPrimed
     DEF IInv, Control, Settled, Decided, Unmark, NoMarker, Marker
<1>26. CASE Build
  BY <1>o, <1>26, RecoveredCases, RecoveredCasesPrimed
     DEF IInv, Control, Build, Loop, Marker
<1>27. CASE MarkPrepared
  BY <1>o, <1>27, RecoveredCases, RecoveredCasesPrimed
     DEF IInv, Control, Installing, MarkPrepared, Goto, Marker
<1>28. CASE MarkCommitted
  <2>1. Recovered' = NewImage(payload) /\ ~(pc = "session") /\ ~(pc = "session")' /\ payload' = payload
    BY <1>28, <1>t, RecoveredCasesPrimed
       DEF IInv, TypeOK, Control, Installing, Decided, MarkCommitted, Goto
  <2>2. NewImage(payload) = Atomic!Installed
    BY DEF NewImage, Atomic!Installed, Targets, Atomic!Targets, Replaced,
       Atomic!Replaced
  <2>. QED
    BY <2>1, <2>2 DEF Atomic!Next, Atomic!Install
<1>. QED
  BY <1>1, <1>2, <1>3, <1>4, <1>5, <1>6, <1>7, <1>8, <1>9, <1>10, <1>11, <1>12,
     <1>13, <1>14, <1>15, <1>16, <1>17, <1>18, <1>19, <1>20, <1>21, <1>22, <1>23,
     <1>24, <1>25, <1>26, <1>27, <1>28 DEF Next, Recover, Apply

\* Every behaviour of the restore, with any number of crashes and I/O errors, is
\* one in which the four files change together or not at all.
THEOREM ImplementsAtomic == Spec => ImplementsAtomicRestore
<1>1. Init => Atomic!Init
  <2>1. ASSUME Init PROVE Recovered = live /\ live \in [Targets -> File]
    BY <2>1, RecoveredCases DEF Init, NoMarker, Marker, Image
  <2>. QED
    BY <2>1 DEF Init, Payload, Atomic!Init, Atomic!Targets, Targets,
       Atomic!Replaced,
                Replaced, Atomic!File, File
<1>2. ASSUME IInv, IInv', [Next]_vars
      PROVE  [Atomic!Next]_<<Recovered, pc = "session", payload>>
  <2>1. CASE Next
    BY <1>2, <2>1, StepRefines DEF AtomicStep
  <2>2. CASE UNCHANGED vars
    BY <2>2 DEF vars, Recovered, NewImage
  <2>. QED  BY <1>2, <2>1, <2>2
<1>. QED
  BY <1>1, <1>2, Invariance, PTL DEF Spec, ImplementsAtomicRestore, Atomic!Spec

----------------------------------------
(* Recovery never meets a missing or foreign file of its own doing. *)

\* What the marker promises is on disk at every moment of its life, not only
\* while the operation that relies on it runs.
Evidence ==
  /\ pc = "snapshot" =>
       \A t \in Targets \ todo : live[t] # Absent => rollback[t] = live[t]
  /\ pc \in {"stage_new", "mark_prepared"} =>
       \A t \in Targets : live[t] # Absent => rollback[t] = live[t]
  /\ marker.state = "prepared" => RollbackMatches
  /\ marker.state = "rolled_back" => live = marker.old
  /\ marker.state \in Decided => live = NewImage(marker.new)

LEMMA LaunchKeepsEvidence == ASSUME IInv, Evidence, Launch PROVE Evidence'
BY DEF IInv, TypeOK, States, Image, Control, Installing, PuttingBack, Settled,
   Evidence, RollbackMatches,
       NewMatches, NewImage, Decided, None, Launch, Goto, disk

LEMMA QuitKeepsEvidence == ASSUME IInv, Evidence, Quit PROVE Evidence'
BY DEF IInv, TypeOK, States, Image, Control, Installing, PuttingBack, Settled,
   Evidence, RollbackMatches,
       NewMatches, NewImage, Decided, None, Quit, Goto, disk

LEMMA BeginApplyKeepsEvidence == ASSUME IInv, Evidence, BeginApply PROVE Evidence'
BY DEF IInv, TypeOK, States, Image, Control, Installing, PuttingBack, Settled,
   Evidence, RollbackMatches,
       NewMatches, NewImage, Decided, None, BeginApply, Goto, disk

LEMMA ReadMarkerKeepsEvidence == ASSUME IInv, Evidence, ReadMarker PROVE Evidence'
BY DEF IInv, TypeOK, States, Image, Control, Installing, PuttingBack, Settled,
   Evidence, RollbackMatches,
       NewMatches, NewImage, Decided, None, ReadMarker, Return, Goto, Loop, disk

LEMMA VerifyRollbackKeepsEvidence == ASSUME IInv, Evidence, VerifyRollback PROVE Evidence'
BY DEF IInv, TypeOK, States, Image, Control, Installing, PuttingBack, Settled,
   Evidence, RollbackMatches,
       NewMatches, NewImage, Decided, None, VerifyRollback, Raise, Goto, Loop, disk

LEMMA VerifyNewKeepsEvidence == ASSUME IInv, Evidence, VerifyNew PROVE Evidence'
BY DEF IInv, TypeOK, States, Image, Control, Installing, PuttingBack, Settled,
   Evidence, RollbackMatches,
       NewMatches, NewImage, Decided, None, VerifyNew, Raise, Goto, disk

LEMMA VerifyOldKeepsEvidence == ASSUME IInv, Evidence, VerifyOld PROVE Evidence'
BY DEF IInv, TypeOK, States, Image, Control, Installing, PuttingBack, Settled,
   Evidence, RollbackMatches,
       NewMatches, NewImage, Decided, None, VerifyOld, Raise, Goto, Loop

LEMMA PutBackKeepsEvidence == ASSUME IInv, Evidence, PutBack PROVE Evidence'
BY DEF IInv, TypeOK, States, Image, Control, Installing, PuttingBack, Settled,
   Evidence, RollbackMatches,
       NewMatches, NewImage, Decided, None, PutBack, Goto, Loop

LEMMA SwapKeepsEvidence == ASSUME IInv, Evidence, Swap PROVE Evidence'
BY DEF IInv, TypeOK, States, Image, Control, Installing, PuttingBack, Settled,
   Evidence, RollbackMatches,
       NewMatches, NewImage, Decided, None, Swap, Loop

LEMMA DropWalKeepsEvidence == ASSUME IInv, Evidence, DropWal PROVE Evidence'
<1>1. CASE marker.state = "prepared"
  BY <1>1 DEF IInv, Evidence, RollbackMatches, Decided, DropWal, Goto, Loop
<1>2. CASE marker.state \in Decided
  <2>1. live \in Image /\ live["database_wal"] = Absent
    BY <1>2 DEF IInv, TypeOK, Evidence, NewImage, Targets, Replaced
  <2>2. live' = live
    BY <2>1 DEF DropWal, Image, Targets
  <2>. QED
    BY <1>2, <2>2 DEF Evidence, Decided, DropWal, Goto, Loop
<1>. QED  BY <1>1, <1>2 DEF IInv, Control, DropWal

LEMMA DropShmKeepsEvidence == ASSUME IInv, Evidence, DropShm PROVE Evidence'
<1>1. CASE marker.state = "prepared"
  BY <1>1 DEF IInv, Evidence, RollbackMatches, Decided, DropShm, Goto, Loop
<1>2. CASE marker.state \in Decided
  <2>1. live \in Image /\ live["database_shm"] = Absent
    BY <1>2 DEF IInv, TypeOK, Evidence, NewImage, Targets, Replaced
  <2>2. live' = live
    BY <2>1 DEF DropShm, Image, Targets
  <2>. QED
    BY <1>2, <2>2 DEF Evidence, Decided, DropShm, Goto, Loop
<1>. QED  BY <1>1, <1>2 DEF IInv, Control, DropShm

LEMMA CleanKeepsEvidence == ASSUME IInv, Evidence, Clean PROVE Evidence'
BY DEF IInv, TypeOK, States, Image, Control, Installing, PuttingBack, Settled,
   Evidence, RollbackMatches,
       NewMatches, NewImage, Decided, None, Clean

LEMMA AttachKeepsEvidence == ASSUME IInv, Evidence, Attach PROVE Evidence'
BY DEF IInv, TypeOK, States, Image, Control, Installing, PuttingBack, Settled,
   Evidence, RollbackMatches,
       NewMatches, NewImage, Decided, None, Attach, Goto

LEMMA SnapshotKeepsEvidence == ASSUME IInv, Evidence, Snapshot PROVE Evidence'
<1>1. marker.state = "building" /\ marker' = marker /\ live' = live
  BY DEF IInv, Control, Snapshot
<1>2. rollback \in [Targets -> Copy] /\ todo \subseteq Targets
  BY DEF IInv, TypeOK
<1>3. pc' = "snapshot" => \A t \in Targets \ todo' : live[t] # Absent => rollback'[t] = live[t]
  BY <1>2 DEF Evidence, Snapshot, First, Goto, Loop
<1>4. pc' = "stage_new" => \A t \in Targets : live[t] # Absent => rollback'[t] = live[t]
  BY <1>2 DEF Evidence, Snapshot, Loop
<1>5. pc' \in {"snapshot", "stage_new"}
  BY DEF Snapshot, Loop
<1>. QED  BY <1>1, <1>3, <1>4, <1>5 DEF Evidence, Decided

LEMMA StageNewKeepsEvidence == ASSUME IInv, Evidence, StageNew PROVE Evidence'
BY DEF IInv, TypeOK, States, Image, Control, Installing, PuttingBack, Settled,
   Evidence, RollbackMatches,
       NewMatches, NewImage, Decided, None, StageNew, Goto, Loop

LEMMA ReplaceDatabaseKeepsEvidence == ASSUME IInv, Evidence, ReplaceDatabase PROVE Evidence'
BY DEF IInv, TypeOK, States, Image, Control, Installing, PuttingBack, Settled,
   Evidence, RollbackMatches,
       NewMatches, NewImage, Decided, None, ReplaceDatabase, Replace, Goto

LEMMA ReplaceSettingsKeepsEvidence == ASSUME IInv, Evidence, ReplaceSettings PROVE Evidence'
BY DEF IInv, TypeOK, States, Image, Control, Installing, PuttingBack, Settled,
   Evidence, RollbackMatches,
       NewMatches, NewImage, Decided, None, ReplaceSettings, Replace, Goto

LEMMA NoteCommittedKeepsEvidence == ASSUME IInv, Evidence, NoteCommitted PROVE Evidence'
BY DEF IInv, TypeOK, States, Image, Control, Installing, PuttingBack, Settled,
   Evidence, RollbackMatches,
       NewMatches, NewImage, Decided, None, NoteCommitted, Goto, disk

LEMMA SweepKeepsEvidence == ASSUME IInv, Evidence, Sweep PROVE Evidence'
BY DEF IInv, TypeOK, States, Image, Control, Installing, PuttingBack, Settled,
   Evidence, RollbackMatches,
       NewMatches, NewImage, Decided, None, Sweep, Goto

LEMMA CrashKeepsEvidence == ASSUME IInv, Evidence, Crash PROVE Evidence'
BY DEF IInv, TypeOK, States, Image, Control, Installing, PuttingBack, Settled,
   Evidence, RollbackMatches,
       NewMatches, NewImage, Decided, None, Crash, Goto, disk

LEMMA FailKeepsEvidence == ASSUME IInv, Evidence, Fail PROVE Evidence'
<1>1. marker' = marker /\ live' = live /\ pc' \in {"off", "read"}
  BY DEF Fail, Raise, Goto
<1>2. ASSUME marker.state = "prepared" PROVE RollbackMatches'
  <2>1. \A t \in Targets : marker.old[t] # Absent => rollback[t] # Partial
    BY <1>2, ContentAssumption DEF IInv, TypeOK, Evidence, RollbackMatches, Image,
       File
  <2>2. CASE rollback' = rollback
    BY <1>1, <1>2, <2>2 DEF Evidence, RollbackMatches
  <2>3. CASE rollback[copying] = Partial /\ rollback' = [rollback EXCEPT ![copying]
     = Absent]
    BY <1>1, <1>2, <2>1, <2>3 DEF IInv, TypeOK, Evidence, RollbackMatches
  <2>. QED  BY <2>2, <2>3 DEF Fail, AbandonCopy
<1>. QED  BY <1>1, <1>2 DEF Evidence, RollbackMatches, Decided

LEMMA WorkKeepsEvidence == ASSUME IInv, Evidence, Work PROVE Evidence'
BY DEF IInv, TypeOK, States, Image, Control, Installing, PuttingBack, Settled,
   Evidence, RollbackMatches,
       NewMatches, NewImage, Decided, None, Work, locals

LEMMA MarkFinishedKeepsEvidence == ASSUME IInv, Evidence, MarkFinished PROVE Evidence'
BY DEF IInv, TypeOK, States, Image, Control, Installing, PuttingBack, Settled,
   Evidence, RollbackMatches,
       NewMatches, NewImage, Decided, None, MarkFinished, Loop

LEMMA UnmarkKeepsEvidence == ASSUME IInv, Evidence, Unmark PROVE Evidence'
BY DEF IInv, TypeOK, States, Image, Control, Installing, PuttingBack, Settled,
   Evidence, RollbackMatches,
       NewMatches, NewImage, Decided, None, Unmark, Return, Goto, NoMarker, Marker

LEMMA BuildKeepsEvidence == ASSUME IInv, Evidence, Build PROVE Evidence'
BY DEF IInv, TypeOK, States, Image, Control, Installing, PuttingBack, Settled,
   Evidence, RollbackMatches,
       NewMatches, NewImage, Decided, None, Build, Loop, Marker

LEMMA MarkPreparedKeepsEvidence == ASSUME IInv, Evidence, MarkPrepared PROVE Evidence'
BY DEF IInv, TypeOK, States, Image, Control, Installing, PuttingBack, Settled,
   Evidence, RollbackMatches,
       NewMatches, NewImage, Decided, None, MarkPrepared, Goto, Marker

LEMMA MarkCommittedKeepsEvidence == ASSUME IInv, Evidence, MarkCommitted PROVE Evidence'
BY DEF IInv, TypeOK, States, Image, Control, Installing, PuttingBack, Settled,
   Evidence, RollbackMatches,
       NewMatches, NewImage, Decided, None, MarkCommitted, Goto

\* When nothing else removes files, a recovery always finds the evidence it
\* verifies: no crash or error makes the program unable to start.
THEOREM EvidenceIsThere ==
  ASSUME ~FilesCanVanish
  PROVE  Spec => []RecoveryNeverFailsClosed
<1>1. Init => Evidence
  BY DEF Init, Evidence, NoMarker, Marker, Decided, None
<1>2. ASSUME IInv, Evidence, [Next]_vars PROVE Evidence'
  <2>1. CASE Next
    BY <1>2, <2>1, LaunchKeepsEvidence, QuitKeepsEvidence, BeginApplyKeepsEvidence,
       ReadMarkerKeepsEvidence, VerifyRollbackKeepsEvidence, VerifyNewKeepsEvidence,
       VerifyOldKeepsEvidence, PutBackKeepsEvidence, SwapKeepsEvidence,
       DropWalKeepsEvidence, DropShmKeepsEvidence, CleanKeepsEvidence,
       AttachKeepsEvidence, SnapshotKeepsEvidence, StageNewKeepsEvidence,
       ReplaceDatabaseKeepsEvidence, ReplaceSettingsKeepsEvidence,
       NoteCommittedKeepsEvidence, SweepKeepsEvidence, CrashKeepsEvidence,
       FailKeepsEvidence, WorkKeepsEvidence, MarkFinishedKeepsEvidence,
       UnmarkKeepsEvidence, BuildKeepsEvidence, MarkPreparedKeepsEvidence,
       MarkCommittedKeepsEvidence
       DEF Next, Recover, Apply, Vanish
  <2>2. CASE UNCHANGED vars
    BY <1>2, <2>2 DEF vars, Evidence, RollbackMatches
  <2>. QED  BY <1>2, <2>1, <2>2
<1>3. IInv /\ Evidence => RecoveryNeverFailsClosed
  BY DEF IInv, TypeOK, Image, Control, Evidence, RecoveryNeverFailsClosed,
     NewMatches, NewImage,
         Targets, Replaced, OldMatches, Decided
<1>. QED  BY <1>1, <1>2, <1>3, Invariance, PTL DEF Spec

----------------------------------------
(* What a restore leaves behind: no artifacts, every attachment, and a report *)
(* that is true.                                                            *)

\* Which frame the operations run in, and what the marker says under
\* apply_validated_restore.
Frames ==
  /\ pc = "session" => caller = "startup"
  /\ pc \in {"attach", "build"} => caller = "entry"
  /\ pc \in {"snapshot", "stage_new", "mark_prepared", "replace_database",
             "replace_settings", "mark_committed", "note_committed", "sweep"} => caller = "apply"
  /\ pc \in {"read", "verify_rollback", "verify_old", "verify_new", "put_back", "swap"} =>
       caller # "apply"
  /\ pc \in {"drop_wal", "drop_shm"} /\ marker.state = "prepared" => caller = "apply"
  /\ caller = "apply" =>
       /\ pc \in {"drop_wal", "drop_shm"} => marker.state = "prepared"
       /\ pc = "mark_finished" => marker.state = "committed"
       /\ pc = "clean" => marker.state = "committed_cleaning"
       /\ marker.state \notin {None, "building"} => marker.new = payload
  /\ caller = "entry" /\ pc # "off" => marker.state = None

\* Cleanup leaves nothing behind of the targets it has finished.
Cleaning ==
  /\ NoArtifactsLeft
  /\ pc = "clean" => \A t \in Targets \ todo :
       /\ rollback[t] = Absent /\ recovery[t] = Absent
       /\ t \in Replaced => fresh[t] = Absent

\* The objects are installed before the marker that may decide for their
\* database, and swept only of a database that is no longer there.
Referenced ==
  /\ AttachmentsPresent
  /\ pc \in {"build", "snapshot", "stage_new", "mark_prepared"} =>
       Refs[payload["database"]] \subseteq objects
  /\ marker.state \notin {None, "building"} => Refs[marker.new["database"]] \subseteq objects
  /\ pc = "sweep" => live["database"] = payload["database"]

SInv == Frames /\ Cleaning /\ Referenced

LEMMA FramesStep == ASSUME IInv, SInv, [Next]_vars PROVE Frames'
<1>1. CASE Launch
  BY <1>1 DEF SInv, Frames, IInv, Control, Launch, Goto, disk
<1>2. CASE Work
  BY <1>2 DEF SInv, Frames, IInv, Control, Work, locals
<1>3. CASE Quit
  BY <1>3 DEF SInv, Frames, IInv, Control, Quit, Goto, disk
<1>4. CASE BeginApply
  BY <1>4 DEF SInv, Frames, IInv, Control, BeginApply, Goto, disk
<1>5. CASE ReadMarker
  BY <1>5 DEF SInv, Frames, IInv, Control, ReadMarker, Return, Goto, Loop, disk
<1>6. CASE VerifyRollback
  BY <1>6 DEF SInv, Frames, IInv, Control, VerifyRollback, Raise, Goto, Loop, disk
<1>7. CASE VerifyNew
  BY <1>7
     DEF SInv, Frames, IInv, Control, TypeOK, Payload, PCs, States, Callers, None,
         Decided, VerifyNew, Raise, Goto, disk, NewMatches
<1>8. CASE VerifyOld
  BY <1>8
     DEF SInv, Frames, IInv, Control, VerifyOld, OldMatches, Raise, Goto, Loop, First
<1>9. CASE PutBack
  BY <1>9 DEF SInv, Frames, IInv, Control, PutBack, Goto, Loop, First
<1>10. CASE Swap
  BY <1>10 DEF SInv, Frames, IInv, Control, Swap, Loop
<1>11. CASE DropWal
  BY <1>11 DEF SInv, Frames, IInv, Control, DropWal, Goto
<1>12. CASE DropShm
  BY <1>12
     DEF SInv, Frames, IInv, TypeOK, File, Copy, Image, Payload, PCs, Callers, States,
         NoOld, NoNew, None, Targets, Replaced, Control, Installing, PuttingBack,
         Settled, Decided, NewMatches, NewImage, RollbackMatches, DropShm, Goto, Loop
<1>13. CASE MarkFinished
  BY <1>13
     DEF SInv, Frames, IInv, Control, TypeOK, Payload, PCs, States, Callers, None,
         Decided, MarkFinished, Loop
<1>14. CASE Clean
  BY <1>14 DEF SInv, Frames, IInv, Control, Clean, First
<1>15. CASE Unmark
  BY <1>15 DEF SInv, Frames, IInv, Control, Unmark, Return, Goto, NoMarker, Marker
<1>16. CASE Attach
  BY <1>16 DEF SInv, Frames, IInv, Control, Attach, Goto
<1>17. CASE Build
  BY <1>17 DEF SInv, Frames, IInv, Control, Build, Loop, Marker
<1>18. CASE Snapshot
  BY <1>18 DEF SInv, Frames, IInv, Control, Snapshot, Goto, Loop, First
<1>19. CASE StageNew
  BY <1>19 DEF SInv, Frames, IInv, Control, StageNew, Goto, Loop, First
<1>20. CASE MarkPrepared
  BY <1>20
     DEF SInv, Frames, IInv, TypeOK, File, Copy, Image, Payload, PCs, Callers, States,
         NoOld, NoNew, None, Targets, Replaced, Control, Installing, PuttingBack,
         Settled, Decided, NewMatches, NewImage, RollbackMatches, MarkPrepared, Goto,
         Marker
<1>21. CASE ReplaceDatabase
  BY <1>21 DEF SInv, Frames, IInv, Control, ReplaceDatabase, Replace, Goto
<1>22. CASE ReplaceSettings
  BY <1>22 DEF SInv, Frames, IInv, Control, ReplaceSettings, Replace, Goto
<1>23. CASE MarkCommitted
  BY <1>23
     DEF SInv, Frames, IInv, Control, TypeOK, Payload, PCs, States, Callers, None,
         Decided, MarkCommitted, Goto
<1>24. CASE NoteCommitted
  BY <1>24 DEF SInv, Frames, IInv, Control, NoteCommitted, Goto, disk
<1>25. CASE Sweep
  BY <1>25 DEF SInv, Frames, IInv, Control, Sweep, Goto
<1>26. CASE Crash
  BY <1>26 DEF SInv, Frames, IInv, Control, Crash, Goto, disk
<1>27. CASE Fail
  BY <1>27 DEF SInv, Frames, IInv, Control, Fail, Raise, CanRaise, AbandonCopy, Goto
<1>28. CASE Vanish
  BY <1>28 DEF SInv, Frames, IInv, Control, Vanish, locals
<1>29. CASE UNCHANGED vars
  BY <1>29 DEF vars, SInv, Frames
<1>. QED
  BY <1>1, <1>2, <1>3, <1>4, <1>5, <1>6, <1>7, <1>8, <1>9, <1>10, <1>11, <1>12, <1>13,
     <1>14, <1>15, <1>16, <1>17, <1>18, <1>19, <1>20, <1>21, <1>22, <1>23, <1>24,
     <1>25, <1>26, <1>27, <1>28, <1>29
     DEF Next, Recover, Apply

LEMMA CleaningStep == ASSUME IInv, SInv, [Next]_vars PROVE Cleaning'
<1>1. CASE Launch
  BY <1>1 DEF SInv, Cleaning, NoArtifactsLeft, IInv, Control, Launch, Goto, disk
<1>2. CASE Work
  BY <1>2 DEF SInv, Cleaning, NoArtifactsLeft, IInv, Control, Work, locals
<1>3. CASE Quit
  BY <1>3 DEF SInv, Cleaning, NoArtifactsLeft, IInv, Control, Quit, Goto, disk
<1>4. CASE BeginApply
  BY <1>4 DEF SInv, Cleaning, NoArtifactsLeft, IInv, Control, BeginApply, Goto, disk
<1>5. CASE ReadMarker
  BY <1>5
     DEF SInv, Cleaning, NoArtifactsLeft, IInv, Control, ReadMarker, Return, Goto,
         Loop, disk
<1>6. CASE VerifyRollback
  BY <1>6
     DEF SInv, Cleaning, NoArtifactsLeft, IInv, Control, VerifyRollback, Raise, Goto,
         Loop, disk
<1>7. CASE VerifyNew
  BY <1>7
     DEF SInv, Cleaning, NoArtifactsLeft, IInv, Control, VerifyNew, Raise, Goto, disk,
         NewMatches
<1>8. CASE VerifyOld
  BY <1>8
     DEF SInv, Cleaning, NoArtifactsLeft, IInv, Control, VerifyOld, OldMatches, Raise,
         Goto, Loop, First
<1>9. CASE PutBack
  BY <1>9
     DEF SInv, Frames, Cleaning, NoArtifactsLeft, IInv, Control, TypeOK, Copy, File,
         None, Targets, Replaced, PutBack, Goto, Loop, First
<1>10. CASE Swap
  BY <1>10 DEF SInv, Cleaning, NoArtifactsLeft, IInv, Control, Swap, Loop
<1>11. CASE DropWal
  BY <1>11 DEF SInv, Cleaning, NoArtifactsLeft, IInv, Control, DropWal, Goto
<1>12. CASE DropShm
  BY <1>12 DEF SInv, Cleaning, NoArtifactsLeft, IInv, Control, DropShm, Goto, Loop
<1>13. CASE MarkFinished
  BY <1>13
     DEF SInv, Frames, Cleaning, NoArtifactsLeft, IInv, Control, TypeOK, Copy, File,
         None, Targets, Replaced, MarkFinished, Loop
<1>14. CASE Clean
  BY <1>14
     DEF SInv, Frames, Cleaning, NoArtifactsLeft, IInv, Control, TypeOK, Copy, File,
         None, Targets, Replaced, Clean, First
<1>15. CASE Unmark
  BY <1>15
     DEF SInv, Frames, Cleaning, NoArtifactsLeft, IInv, Control, TypeOK, Copy, File,
         None, Targets, Replaced, Unmark, Return, Goto, NoMarker, Marker
<1>16. CASE Attach
  BY <1>16 DEF SInv, Cleaning, NoArtifactsLeft, IInv, Control, Attach, Goto
<1>17. CASE Build
  BY <1>17 DEF SInv, Cleaning, NoArtifactsLeft, IInv, Control, Build, Loop, Marker
<1>18. CASE Snapshot
  BY <1>18
     DEF SInv, Frames, Cleaning, NoArtifactsLeft, IInv, Control, TypeOK, Copy, File,
         None, Targets, Replaced, Snapshot, Goto, Loop, First
<1>19. CASE StageNew
  BY <1>19
     DEF SInv, Frames, Cleaning, NoArtifactsLeft, IInv, Control, TypeOK, Copy, File,
         None, Targets, Replaced, StageNew, Goto, Loop, First
<1>20. CASE MarkPrepared
  BY <1>20
     DEF SInv, Frames, Cleaning, NoArtifactsLeft, IInv, Control, TypeOK, Copy, File,
         None, Targets, Replaced, MarkPrepared, Goto, Marker
<1>21. CASE ReplaceDatabase
  BY <1>21
     DEF SInv, Cleaning, NoArtifactsLeft, IInv, Control, ReplaceDatabase, Replace,
         Goto
<1>22. CASE ReplaceSettings
  BY <1>22
     DEF SInv, Cleaning, NoArtifactsLeft, IInv, Control, ReplaceSettings, Replace,
         Goto
<1>23. CASE MarkCommitted
  BY <1>23
     DEF SInv, Frames, Cleaning, NoArtifactsLeft, IInv, Control, TypeOK, Copy, File,
         None, Targets, Replaced, MarkCommitted, Goto
<1>24. CASE NoteCommitted
  BY <1>24
     DEF SInv, Cleaning, NoArtifactsLeft, IInv, Control, NoteCommitted, Goto, disk
<1>25. CASE Sweep
  BY <1>25 DEF SInv, Cleaning, NoArtifactsLeft, IInv, Control, Sweep, Goto
<1>26. CASE Crash
  BY <1>26 DEF SInv, Cleaning, NoArtifactsLeft, IInv, Control, Crash, Goto, disk
<1>27. CASE Fail
  BY <1>27
     DEF SInv, Frames, Cleaning, NoArtifactsLeft, IInv, Control, TypeOK, Copy, File,
         None, Targets, Replaced, Fail, Raise, CanRaise, AbandonCopy, Goto
<1>28. CASE Vanish
  BY <1>28
     DEF SInv, Frames, Cleaning, NoArtifactsLeft, IInv, Control, TypeOK, Copy, File,
         None, Targets, Replaced, Vanish, locals
<1>29. CASE UNCHANGED vars
  BY <1>29 DEF vars, SInv, Cleaning, NoArtifactsLeft
<1>. QED
  BY <1>1, <1>2, <1>3, <1>4, <1>5, <1>6, <1>7, <1>8, <1>9, <1>10, <1>11, <1>12, <1>13,
     <1>14, <1>15, <1>16, <1>17, <1>18, <1>19, <1>20, <1>21, <1>22, <1>23, <1>24,
     <1>25, <1>26, <1>27, <1>28, <1>29
     DEF Next, Recover, Apply

LEMMA ReferencedStep == ASSUME IInv, SInv, [Next]_vars PROVE Referenced'
<1>s. marker.state \in States
  BY DEF IInv, TypeOK
<1>1. CASE Launch
  BY <1>1, <1>s, SameMarkerSameImage
     DEF SInv, Frames, Referenced, AttachmentsPresent, IInv, Control, Decided, None,
         Launch, Goto, disk
<1>2. CASE Work
  BY <1>2, <1>s, SameMarkerSameImage, RecoveredCases, RecoveredCasesPrimed
     DEF SInv, Frames, Referenced, AttachmentsPresent, NoMarker, Marker, IInv,
         Control, Installing, Settled, TypeOK, Image, Payload, States, Decided, None,
         Targets, Replaced, Work, locals
<1>3. CASE Quit
  BY <1>3, <1>s, SameMarkerSameImage
     DEF SInv, Frames, Referenced, AttachmentsPresent, IInv, Control, Decided, None,
         Quit, Goto, disk
<1>4. CASE BeginApply
  BY <1>4, <1>s, SameMarkerSameImage
     DEF SInv, Frames, Referenced, AttachmentsPresent, IInv, Control, Decided, None,
         BeginApply, Goto, disk
<1>5. CASE ReadMarker
  BY <1>5, <1>s, SameMarkerSameImage
     DEF SInv, Frames, Referenced, AttachmentsPresent, IInv, Control, Decided, None,
         ReadMarker, Return, Goto, Loop, disk
<1>6. CASE VerifyRollback
  BY <1>6, <1>s, SameMarkerSameImage
     DEF SInv, Frames, Referenced, AttachmentsPresent, IInv, Control, Decided, None,
         VerifyRollback, Raise, Goto, Loop, disk
<1>7. CASE VerifyNew
  BY <1>7, <1>s, SameMarkerSameImage
     DEF SInv, Frames, Referenced, AttachmentsPresent, IInv, Control, Decided, None,
         VerifyNew, Raise, Goto, disk, NewMatches
<1>8. CASE VerifyOld
  BY <1>8, <1>s, SameMarkerSameImage
     DEF SInv, Frames, Referenced, AttachmentsPresent, IInv, Control, Decided, None,
         VerifyOld, OldMatches, Raise, Goto, Loop, First
<1>9. CASE PutBack
  BY <1>9, <1>s, SameMarkerSameImage
     DEF SInv, Frames, Referenced, AttachmentsPresent, IInv, Control, Decided, None,
         PutBack, Goto, Loop, First
<1>10. CASE Swap
  BY <1>10, <1>s, SameMarkerSameImage
     DEF SInv, Frames, Referenced, AttachmentsPresent, IInv, Control, Decided, None,
         Swap, Loop
<1>11. CASE DropWal
  BY <1>11, <1>s, SameMarkerSameImage
     DEF SInv, Frames, Referenced, AttachmentsPresent, IInv, Control, Decided, None,
         DropWal, Goto
<1>12. CASE DropShm
  BY <1>12, <1>s, SameMarkerSameImage
     DEF SInv, Frames, Referenced, AttachmentsPresent, IInv, Control, Decided, None,
         DropShm, Goto, Loop
<1>13. CASE MarkFinished
  BY <1>13, <1>s, SameMarkerSameImage, RecoveredCases, RecoveredCasesPrimed
     DEF SInv, Frames, Referenced, AttachmentsPresent, NoMarker, Marker, IInv,
         Control, Installing, Settled, TypeOK, Image, Payload, States, Decided, None,
         Targets, Replaced, MarkFinished, Loop
<1>14. CASE Clean
  BY <1>14, <1>s, SameMarkerSameImage
     DEF SInv, Frames, Referenced, AttachmentsPresent, IInv, Control, Decided, None,
         Clean, First
<1>15. CASE Unmark
  BY <1>15, <1>s, RefsAssumption, ContentAssumption, SameMarkerSameImage,
     RecoveredCases, RecoveredCasesPrimed
     DEF SInv, Frames, Referenced, AttachmentsPresent, NoMarker, Marker, IInv, TypeOK,
         File, Copy, Image, Payload, PCs, Callers, States, NoOld, NoNew, None,
         Targets, Replaced, Control, Installing, PuttingBack, Settled, Decided,
         NewMatches, NewImage, RollbackMatches, Unmark, Return, Goto
<1>16. CASE Attach
  BY <1>16, <1>s, SameMarkerSameImage
     DEF SInv, Frames, Referenced, AttachmentsPresent, IInv, Control, Decided, None,
         Attach, Goto
<1>17. CASE Build
  BY <1>17, <1>s, SameMarkerSameImage, RecoveredCases, RecoveredCasesPrimed
     DEF SInv, Frames, Referenced, AttachmentsPresent, NoMarker, Marker, IInv,
         Control, Installing, Settled, TypeOK, Image, Payload, States, Decided, None,
         Targets, Replaced, Build, Loop
<1>18. CASE Snapshot
  BY <1>18, <1>s, SameMarkerSameImage
     DEF SInv, Frames, Referenced, AttachmentsPresent, IInv, Control, Decided, None,
         Snapshot, Goto, Loop, First
<1>19. CASE StageNew
  BY <1>19, <1>s, SameMarkerSameImage
     DEF SInv, Frames, Referenced, AttachmentsPresent, IInv, Control, Decided, None,
         StageNew, Goto, Loop, First
<1>20. CASE MarkPrepared
  BY <1>20, <1>s, SameMarkerSameImage, RecoveredCases, RecoveredCasesPrimed
     DEF SInv, Frames, Referenced, AttachmentsPresent, NoMarker, Marker, IInv,
         Control, Installing, Settled, TypeOK, Image, Payload, States, Decided, None,
         Targets, Replaced, MarkPrepared, Goto
<1>21. CASE ReplaceDatabase
  BY <1>21, <1>s, SameMarkerSameImage
     DEF SInv, Frames, Referenced, AttachmentsPresent, IInv, Control, Decided, None,
         ReplaceDatabase, Replace, Goto
<1>22. CASE ReplaceSettings
  BY <1>22, <1>s, SameMarkerSameImage
     DEF SInv, Frames, Referenced, AttachmentsPresent, IInv, Control, Decided, None,
         ReplaceSettings, Replace, Goto
<1>23. CASE MarkCommitted
  BY <1>23, <1>s, RefsAssumption, ContentAssumption, SameMarkerSameImage,
     RecoveredCases, RecoveredCasesPrimed
     DEF SInv, Frames, Referenced, AttachmentsPresent, NoMarker, Marker, IInv, TypeOK,
         File, Copy, Image, Payload, PCs, Callers, States, NoOld, NoNew, None,
         Targets, Replaced, Control, Installing, PuttingBack, Settled, Decided,
         NewMatches, NewImage, RollbackMatches, MarkCommitted, Goto
<1>24. CASE NoteCommitted
  BY <1>24, <1>s, SameMarkerSameImage
     DEF SInv, Frames, Referenced, AttachmentsPresent, IInv, Control, Decided, None,
         NoteCommitted, Goto, disk
<1>25. CASE Sweep
  BY <1>25, <1>s, SameMarkerSameImage, RecoveredCases, RecoveredCasesPrimed
     DEF SInv, Frames, Referenced, AttachmentsPresent, NoMarker, Marker, IInv,
         Control, Installing, Settled, TypeOK, Image, Payload, States, Decided, None,
         Targets, Replaced, Sweep, Goto
<1>26. CASE Crash
  BY <1>26, <1>s, SameMarkerSameImage
     DEF SInv, Frames, Referenced, AttachmentsPresent, IInv, Control, Decided, None,
         Crash, Goto, disk
<1>27. CASE Fail
  BY <1>27, <1>s, SameMarkerSameImage
     DEF SInv, Frames, Referenced, AttachmentsPresent, IInv, Control, Decided, None,
         Fail, Raise, CanRaise, AbandonCopy, Goto
<1>28. CASE Vanish
  BY <1>28, <1>s, SameMarkerSameImage
     DEF SInv, Frames, Referenced, AttachmentsPresent, IInv, Control, Decided, None,
         Vanish, locals
<1>29. CASE UNCHANGED vars
  BY <1>29 DEF vars, SInv, Referenced, AttachmentsPresent, Recovered, NewImage
<1>. QED
  BY <1>1, <1>2, <1>3, <1>4, <1>5, <1>6, <1>7, <1>8, <1>9, <1>10, <1>11, <1>12, <1>13,
     <1>14, <1>15, <1>16, <1>17, <1>18, <1>19, <1>20, <1>21, <1>22, <1>23, <1>24,
     <1>25, <1>26, <1>27, <1>28, <1>29
     DEF Next, Recover, Apply

LEMMA SInvInvariant == Spec => []SInv
<1>1. ASSUME Init PROVE SInv
  <2>1. Recovered = live
    BY <1>1, RecoveredCases DEF Init, NoMarker, Marker
  <2>. QED
    BY <1>1, <2>1
       DEF Init, SInv, Frames, Cleaning, NoArtifactsLeft, Referenced,
           AttachmentsPresent, NoMarker, Marker, NoOld, NoNew, None, Targets, Replaced
<1>2. ASSUME IInv, SInv, [Next]_vars PROVE SInv'
  BY <1>2, FramesStep, CleaningStep, ReferencedStep DEF SInv
<1>. QED  BY <1>1, <1>2, Invariance, PTL DEF Spec

\* Once the marker is gone, nothing of a transaction is left beside the live files.
THEOREM ArtifactsAreRemoved == Spec => []NoArtifactsLeft
<1>1. SInv => NoArtifactsLeft
  BY DEF SInv, Cleaning
<1>. QED  BY <1>1, SInvInvariant, PTL

\* The attachment objects of the database the next session opens are on disk at
\* every moment, whatever is interrupted.
THEOREM AttachmentsStay == Spec => []AttachmentsPresent
<1>1. SInv => AttachmentsPresent
  BY DEF SInv, Referenced
<1>. QED  BY <1>1, SInvInvariant, PTL

\* What the report will say is true all along: until the commit point the next
\* session finds the files of before, from then on the payload.
Undecided == {"attach", "build", "snapshot", "stage_new", "mark_prepared", "replace_database",
              "replace_settings", "drop_wal", "drop_shm", "mark_committed"}
Reporting ==
  /\ ReportIsTrue
  /\ outcome # None => pc = "off"
  /\ pc # "off" /\ caller \in {"startup", "entry"} => ~committed
  /\ pc # "off" /\ caller = "entry" => Recovered = before
  /\ pc # "off" /\ caller = "apply" =>
       IF pc \in Undecided \/ pc = "note_committed" THEN ~committed ELSE committed
  /\ pc # "off" /\ caller = "apply" =>
       Recovered = IF pc \in Undecided THEN before ELSE NewImage(payload)
  /\ pc # "off" /\ caller = "rollback" =>
       Recovered = IF committed THEN NewImage(payload) ELSE before

LEMMA ReportingStep == ASSUME IInv, SInv, ~DirSyncCanFail, Reporting, [Next]_vars PROVE Reporting'
<1>s. marker.state \in States
  BY DEF IInv, TypeOK
<1>1. CASE Launch
  BY <1>1, <1>s, SameMarkerSameImage
     DEF SInv, Frames, Reporting, ReportIsTrue, Undecided, IInv, Control, Decided,
         None, Launch, Goto, disk
<1>2. CASE Work
  BY <1>2, <1>s, SameMarkerSameImage
     DEF SInv, Frames, Reporting, ReportIsTrue, Undecided, IInv, Control, Decided,
         None, Work, locals
<1>3. CASE Quit
  BY <1>3, <1>s, SameMarkerSameImage
     DEF SInv, Frames, Reporting, ReportIsTrue, Undecided, IInv, Control, Decided,
         None, Quit, Goto, disk
<1>4. CASE BeginApply
  BY <1>4, <1>s, SameMarkerSameImage, RecoveredCases, RecoveredCasesPrimed
     DEF SInv, Frames, Reporting, ReportIsTrue, Undecided, NoMarker, Marker, IInv,
         Control, Installing, Settled, TypeOK, Image, Payload, PCs, Callers, States,
         Decided, None, Targets, Replaced, BeginApply, Goto, disk
<1>5. CASE ReadMarker
  BY <1>5, <1>s, SameMarkerSameImage
     DEF SInv, Frames, Reporting, ReportIsTrue, Undecided, IInv, Control, Decided,
         None, ReadMarker, Return, Goto, Loop, disk
<1>6. CASE VerifyRollback
  BY <1>6, <1>s, SameMarkerSameImage
     DEF SInv, Frames, Reporting, ReportIsTrue, Undecided, IInv, Control, Decided,
         None, VerifyRollback, Raise, Goto, Loop, disk
<1>7. CASE VerifyNew
  BY <1>7, <1>s, SameMarkerSameImage
     DEF SInv, Frames, Reporting, ReportIsTrue, Undecided, IInv, Control, Decided,
         None, VerifyNew, Raise, Goto, disk, NewMatches
<1>8. CASE VerifyOld
  BY <1>8, <1>s, SameMarkerSameImage
     DEF SInv, Frames, Reporting, ReportIsTrue, Undecided, IInv, Control, Decided,
         None, VerifyOld, OldMatches, Raise, Goto, Loop, First
<1>9. CASE PutBack
  BY <1>9, <1>s, SameMarkerSameImage
     DEF SInv, Frames, Reporting, ReportIsTrue, Undecided, IInv, Control, Decided,
         None, PutBack, Goto, Loop, First
<1>10. CASE Swap
  BY <1>10, <1>s, SameMarkerSameImage
     DEF SInv, Frames, Reporting, ReportIsTrue, Undecided, IInv, Control, Decided,
         None, Swap, Loop
<1>11. CASE DropWal
  BY <1>11, <1>s, SameMarkerSameImage
     DEF SInv, Frames, Reporting, ReportIsTrue, Undecided, IInv, Control, Decided,
         None, DropWal, Goto
<1>12. CASE DropShm
  BY <1>12, <1>s, SameMarkerSameImage
     DEF SInv, Frames, Reporting, ReportIsTrue, Undecided, IInv, Control, Decided,
         None, DropShm, Goto, Loop
<1>13. CASE MarkFinished
  BY <1>13, <1>s, SameMarkerSameImage, RecoveredCases, RecoveredCasesPrimed
     DEF SInv, Frames, Reporting, ReportIsTrue, Undecided, NoMarker, Marker, IInv,
         Control, Installing, Settled, TypeOK, Image, Payload, PCs, Callers, States,
         Decided, None, Targets, Replaced, MarkFinished, Loop
<1>14. CASE Clean
  BY <1>14, <1>s, SameMarkerSameImage
     DEF SInv, Frames, Reporting, ReportIsTrue, Undecided, IInv, Control, Decided,
         None, Clean, First
<1>15. CASE Unmark
  BY <1>15, <1>s, SameMarkerSameImage, RecoveredCases, RecoveredCasesPrimed
     DEF SInv, Frames, Reporting, ReportIsTrue, Undecided, NoMarker, Marker, IInv,
         Control, Installing, Settled, TypeOK, Image, Payload, PCs, Callers, States,
         Decided, None, Targets, Replaced, Unmark, Return, Goto
<1>16. CASE Attach
  BY <1>16, <1>s, SameMarkerSameImage
     DEF SInv, Frames, Reporting, ReportIsTrue, Undecided, IInv, Control, Decided,
         None, Attach, Goto
<1>17. CASE Build
  BY <1>17, <1>s, SameMarkerSameImage, RecoveredCases, RecoveredCasesPrimed
     DEF SInv, Frames, Reporting, ReportIsTrue, Undecided, NoMarker, Marker, IInv,
         Control, Installing, Settled, TypeOK, Image, Payload, PCs, Callers, States,
         Decided, None, Targets, Replaced, Build, Loop
<1>18. CASE Snapshot
  BY <1>18, <1>s, SameMarkerSameImage
     DEF SInv, Frames, Reporting, ReportIsTrue, Undecided, IInv, Control, Decided,
         None, Snapshot, Goto, Loop, First
<1>19. CASE StageNew
  BY <1>19, <1>s, SameMarkerSameImage
     DEF SInv, Frames, Reporting, ReportIsTrue, Undecided, IInv, Control, Decided,
         None, StageNew, Goto, Loop, First
<1>20. CASE MarkPrepared
  BY <1>20, <1>s, SameMarkerSameImage, RecoveredCases, RecoveredCasesPrimed
     DEF SInv, Frames, Reporting, ReportIsTrue, Undecided, NoMarker, Marker, IInv,
         Control, Installing, Settled, TypeOK, Image, Payload, PCs, Callers, States,
         Decided, None, Targets, Replaced, MarkPrepared, Goto
<1>21. CASE ReplaceDatabase
  BY <1>21, <1>s, SameMarkerSameImage
     DEF SInv, Frames, Reporting, ReportIsTrue, Undecided, IInv, Control, Decided,
         None, ReplaceDatabase, Replace, Goto
<1>22. CASE ReplaceSettings
  BY <1>22, <1>s, SameMarkerSameImage
     DEF SInv, Frames, Reporting, ReportIsTrue, Undecided, IInv, Control, Decided,
         None, ReplaceSettings, Replace, Goto
<1>23. CASE MarkCommitted
  BY <1>23, <1>s, SameMarkerSameImage, RecoveredCases, RecoveredCasesPrimed
     DEF SInv, Frames, Reporting, ReportIsTrue, Undecided, NoMarker, Marker, IInv,
         Control, Installing, Settled, TypeOK, Image, Payload, PCs, Callers, States,
         Decided, None, Targets, Replaced, MarkCommitted, Goto
<1>24. CASE NoteCommitted
  BY <1>24, <1>s, SameMarkerSameImage
     DEF SInv, Frames, Reporting, ReportIsTrue, Undecided, IInv, Control, Decided,
         None, NoteCommitted, Goto, disk
<1>25. CASE Sweep
  BY <1>25, <1>s, SameMarkerSameImage
     DEF SInv, Frames, Reporting, ReportIsTrue, Undecided, IInv, Control, Decided,
         None, Sweep, Goto
<1>26. CASE Crash
  BY <1>26, <1>s, SameMarkerSameImage
     DEF SInv, Frames, Reporting, ReportIsTrue, Undecided, IInv, Control, Decided,
         None, Crash, Goto, disk
<1>27. CASE Fail
  BY <1>27, <1>s, SameMarkerSameImage
     DEF SInv, Frames, Reporting, ReportIsTrue, Undecided, IInv, Control, Decided,
         None, Fail, Raise, CanRaise, AbandonCopy, Goto
<1>28. CASE Vanish
  BY <1>28, <1>s, SameMarkerSameImage
     DEF SInv, Frames, Reporting, ReportIsTrue, Undecided, IInv, Control, Decided,
         None, Vanish, locals
<1>29. CASE UNCHANGED vars
  BY <1>29 DEF vars, SInv, Reporting, ReportIsTrue, Recovered, NewImage
<1>. QED
  BY <1>1, <1>2, <1>3, <1>4, <1>5, <1>6, <1>7, <1>8, <1>9, <1>10, <1>11, <1>12, <1>13,
     <1>14, <1>15, <1>16, <1>17, <1>18, <1>19, <1>20, <1>21, <1>22, <1>23, <1>24,
     <1>25, <1>26, <1>27, <1>28, <1>29
     DEF Next, Recover, Apply

\* Where a replacement is one step with its directory entry (Windows, the only
\* platform the application is built for), what apply_validated_restore reports is
\* what the next session finds, and OutcomeIsSound holds as a whole.
THEOREM OutcomeSound == ASSUME ~DirSyncCanFail PROVE Spec => []OutcomeIsSound
<1>1. ASSUME Init PROVE Reporting
  BY <1>1 DEF Init, Reporting, ReportIsTrue, None
<1>2. ASSUME IInv, SInv, Reporting, [Next]_vars PROVE Reporting'
  BY <1>2, ReportingStep
<1>3. SInv /\ Reporting => OutcomeIsSound
  BY DEF SInv, Cleaning, Referenced, Reporting, OutcomeIsSound
<1>. QED  BY <1>1, <1>2, <1>3, Invariance, SInvInvariant, PTL DEF Spec
=============================================================================

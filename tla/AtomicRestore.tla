---------------------------- MODULE AtomicRestore ----------------------------
(***************************************************************************)
(* What a restore promises, without marker, artifacts or recovery: the four*)
(* files form one image; while the program is closed that image is either  *)
(* left alone or replaced, in one step, by the one the staged payload      *)
(* denotes.  RestoreTransaction implements this module.                    *)
(***************************************************************************)
CONSTANTS Contents, Absent

Targets  == {"database", "database_wal", "database_shm", "settings"}
Replaced == {"database", "settings"}
File     == Contents \cup {Absent}

VARIABLES image,    \* the files as the next session will find them
          open,     \* a session has settings and SQLite open
          staged    \* the payload chosen for the next restore

Installed ==
  [t \in Targets |-> IF t \in Replaced THEN staged[t] ELSE Absent]

Init ==
  /\ image \in [Targets -> File]
  /\ open = FALSE
  /\ staged \in [Replaced -> Contents]

Open  == open' = TRUE /\ UNCHANGED <<image, staged>>
Close == open' = FALSE /\ UNCHANGED image /\ staged' \in [Replaced -> Contents]

\* Only an open session edits single files.
Edit ==
  /\ open
  /\ \E t \in Targets, c \in File : image' = [image EXCEPT ![t] = c]
  /\ UNCHANGED <<open, staged>>

\* The restore: all four files at once, never under an open session.
Install ==
  /\ ~open
  /\ image' = Installed
  /\ UNCHANGED <<open, staged>>

Next == Open \/ Close \/ Edit \/ Install
Spec == Init /\ [][Next]_<<image, open, staged>>
=============================================================================

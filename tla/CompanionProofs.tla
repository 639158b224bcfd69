-------------------------- MODULE CompanionProofs --------------------------
(***************************************************************************)
(* What is proved of the components of Components that are about the        *)
(* dialogue itself: reminders and follow-ups, the voice session and the     *)
(* greetings.  Each has its inductive invariant in a section over the       *)
(* variables it is given.                                                   *)
(***************************************************************************)
EXTENDS Components, QueueTheorems

LEMMA PartStays == [Next]_vars => part' = part
  BY DEF Next, vars, InR, InV, InX, InG, InH, InW, InT, InJ, InM, InP, InA, InC

----------------------------------------
(* Reminders and follow-ups. *)

\* What an answer says of a version stays true of it (Past), one version becomes due once
\* (Following), and what is still to come after a delivery is of the version delivered
\* (Delivered).  So every delivery but the first of a version is paid for by a fault the
\* scheduler heard of (Budget); and without a stop() one scan at most is under way, behind
\* the marks (Lone, Marking).
\* Its variables: status x1, version x2, due x3, now x4, foreground x5, interactive x6,
\*   answers x7, running x8, scanPending x9, inFlight x10, bubble x11,
\*   locked x12, safe x13, shown x14, writes x15, faults x16, stops x17

Statuses == {"absent", "draft", "scheduled", "due", "surfaced"} \cup R!Final
Orders == [op : {"scan", "mark", "open", "draft"}, cs : SUBSET R!Commitments, at : Nat]
Edits == [op : {"create", "revise", "snooze", "delete"} \cup R!Final, c : R!Commitments, d : Nat]
Events == [ev : {"scanned", "changed", "mark_failed"}, due : SUBSET R!Commitments,
           became : SUBSET R!Commitments, version : [R!Commitments -> Nat]]

Rows ==
  /\ x1 \in [R!Commitments -> Statuses] /\ x2 \in [R!Commitments -> Nat]
  /\ x14 \in [R!Commitments -> Nat]
  /\ \A k \in R!Commitments : x1[k] = "absent" \/ x2[k] > 0
Lanes == x5 \in Seq(Orders) /\ x6 \in Seq(Edits) /\ x7 \in Seq(Events)
Rest ==
  /\ x4 \in Nat /\ x16 \in Nat /\ x17 \in Nat
  /\ x10 \subseteq R!Commitments /\ x11 \in RemindersFollowUps \cup {R!None}
RemindersTyped == Rows /\ Lanes /\ Rest

\* The kinds of operations and of answers, about one commitment where they name it.
Scans == {o \in Orders : o.op = "scan"}
Marks == {o \in Orders : o.op = "mark"}
MarksOf(k) == {o \in Marks : k \in o.cs}
Scanned == {e \in Events : e.ev = "scanned"}
Failures == {e \in Events : e.ev = "mark_failed"}
Reports(k) == {e \in Scanned : k \in e.due}
Notes(k) == {e \in Events : e.ev = "changed" /\ k \in e.due}
Current(k) == {e \in Events : e.version[k] = x2[k]}
Upcoming == {"scheduled", "due"}

\* What an answer says of a version is still true of it: nothing is scheduled twice, or
\* becomes due again, in one version.
Past ==
  \A e \in Elements(x7), k \in R!Commitments :
    /\ e.version[k] <= x2[k]
    /\ e \in Current(k) \cap Reports(k) => x2[k] > 0 /\ x1[k] # "scheduled"
    /\ e \in Current(k) \cap Notes(k) => x1[k] \notin Upcoming

\* The answers come in the order of the versions.  In one version a commitment becomes due
\* once, and is reported no more when it has changed.
Following ==
  \A k \in R!Commitments :
    /\ Follows(x7, Current(k), Current(k))
    /\ Follows(x7, Current(k) \cap Reports(k), {e \in Events : k \notin e.became})
    /\ Follows(x7, Current(k) \cap Notes(k), Events \ Reports(k))

\* What was delivered was reported, and the answers to come are of that version.
Delivered ==
  \A k \in R!Commitments : x14[k] > 0 =>
    /\ x2[k] > 0 /\ x1[k] # "scheduled"
    /\ \A e \in Elements(x7) : e \in Current(k) /\ k \notin e.became

\* Without a stop one scan at most is under way, and the marks come before it.
NoScan == Elements(x5) \cap Scans = {} /\ Elements(x7) \cap Scanned = {}
Lone ==
  /\ Paired(x5, Scans \cup Marks, Marks, Scans \cup Marks)
  /\ Single(x7, Scanned)
  /\ Elements(x5) \cap Scans = {} \/ Elements(x7) \cap Scanned = {}
  /\ ~NoScan => x9 /\ x8
\* So a mark is of the version that is due, if it is due, and so is a report.
Marking ==
  /\ \A o \in Elements(x5) : o \in Marks =>
       \A k \in o.cs : x1[k] = "due" => x14[k] > 0
  /\ \A e \in Elements(x7) : e \in Scanned =>
       \A k \in e.due : x1[k] = "due" => e.version[k] = x2[k]

\* Every delivery of a version but the first is paid for by a fault the scheduler has heard
\* of.  When none is left, the version is reported no more before the next one: it was
\* marked, its mark comes before any scan, or, after a stop, it is in flight.
Failed == Count(x7, Failures)
Spent(k) == x14[k] + Failed = 1 + x16
Covered(k) ==
  /\ Elements(x5) \cap MarksOf(k) # {}
  /\ Before(x5, MarksOf(k), Scans)
Settled(k) ==
  /\ Before(x7, Failures, Reports(k))
  /\ Elements(x7) \cap Failures # {} \/ x1[k] \notin Upcoming \/ Covered(k)
Budget ==
  /\ Failed <= x16
  /\ x17 <= 1 => \A k \in R!Commitments :
       /\ x14[k] + Failed <= 1 + x16
       /\ Spent(k) => Settled(k) \/ (x17 = 1 /\ k \in x10)

RemindersIInv ==
  /\ RemindersTyped /\ Past /\ Following /\ Delivered /\ Budget
  /\ x17 = 0 => Lone /\ Marking
  /\ R!SurfacedWasShown
----------------------------------------
(* The answers and the rows, whichever operation runs: of a commitment it keeps  *)
(* the version, or it begins a new one.                                         *)

Keeps(k) ==
  /\ x2'[k] = x2[k] /\ x14'[k] = x14[k]
  /\ x1'[k] = "scheduled" => x1[k] = "scheduled"
  /\ x1'[k] = "due" => x1[k] \in Upcoming
Begins(k) == x2'[k] > x2[k] /\ x14'[k] = 0
Moves == Rows' /\ \A k \in R!Commitments : Keeps(k) \/ Begins(k)

Tells(e) ==
  /\ e \in Events /\ e.version = x2 /\ x7' = Append(x7, e)
  /\ \A k \in R!Commitments :
       /\ k \in e.became => Keeps(k) /\ x1[k] = "scheduled" /\ e \in Scanned
       /\ e \in Reports(k) => Keeps(k) /\ x1[k] \in Upcoming /\ x1'[k] = "due"
       /\ e \in Notes(k) /\ Keeps(k) => x1'[k] \notin Upcoming

Tidy == Past /\ Following /\ Delivered

LEMMA Counting ==
  /\ Scanned \subseteq Events /\ Failures \subseteq Events /\ Scans \subseteq Orders /\ Marks \subseteq Orders
  /\ Scanned \cap Failures = {} /\ Scans \cap Marks = {}
  /\ \A k \in R!Commitments : Reports(k) \subseteq Scanned /\ Notes(k) \cap Scanned = {}
                            /\ Notes(k) \cap Failures = {} /\ Current(k) \subseteq Events
                            /\ MarksOf(k) \subseteq Marks
  BY DEF Scanned, Failures, Scans, Marks, Reports, Notes, Current, MarksOf

\* No answer, or an answer more.
LEMMA PastMoves ==
  ASSUME RemindersTyped, Past, Moves, x7' = x7 \/ \E e : Tells(e)
  PROVE  Past'
  <1>0. x7 \in Seq(Events) /\ x2 \in [R!Commitments -> Nat] /\ x2' \in [R!Commitments -> Nat]
        /\ Elements(x7) \subseteq Events
    BY NotEmpty DEF RemindersTyped, Lanes, Rows, Moves
  <1>1. ASSUME NEW e \in Elements(x7), NEW k \in R!Commitments
        PROVE  /\ e.version[k] <= x2'[k]
               /\ (e \in Current(k) \cap Reports(k))' => x2'[k] > 0 /\ x1'[k] # "scheduled"
               /\ (e \in Current(k) \cap Notes(k))' => x1'[k] \notin Upcoming
    <2>0. /\ e.version[k] <= x2[k] /\ e.version[k] \in Nat
          /\ x2[k] \in Nat /\ x2'[k] \in Nat
      BY <1>0 DEF Past, Events
    <2>1. CASE Keeps(k)
      <3>1. e \in Current(k)' => e \in Current(k)
        BY <2>1 DEF Keeps, Current
      <3>2. x1'[k] \in Upcoming => x1[k] \in Upcoming
        BY <2>1 DEF Keeps, Upcoming
      <3>3. /\ e \in Current(k) \cap Reports(k) => x2[k] > 0 /\ x1[k] # "scheduled"
            /\ e \in Current(k) \cap Notes(k) => x1[k] \notin Upcoming
        BY DEF Past
      <3> QED  BY <2>0, <2>1, <3>1, <3>2, <3>3 DEF Keeps, Reports, Notes
    <2>2. CASE Begins(k)
      <3>1. e.version[k] # x2'[k] /\ e.version[k] <= x2'[k]
        BY <2>0, <2>2 DEF Begins
      <3> QED  BY <3>1 DEF Current
    <2> QED  BY <2>1, <2>2 DEF Moves
  <1>2. CASE x7' = x7
    BY <1>1, <1>2 DEF Past
  <1>3. ASSUME NEW e, Tells(e)
        PROVE  Past'
    <2>1. Elements(x7') = Elements(x7) \cup {e} /\ e \in Events
      BY <1>0, <1>3, Appending DEF Tells
    <2>2. ASSUME NEW k \in R!Commitments
          PROVE  /\ e.version[k] <= x2'[k]
                 /\ (e \in Current(k) \cap Reports(k))' => x2'[k] > 0 /\ x1'[k] # "scheduled"
                 /\ (e \in Current(k) \cap Notes(k))' => x1'[k] \notin Upcoming
      <3>0. e.version[k] = x2[k] /\ x2[k] \in Nat /\ x2'[k] \in Nat
        BY <1>0, <1>3 DEF Tells
      <3>1. CASE Keeps(k)
        <4>1. e \in Reports(k) => x1'[k] = "due"
          BY <1>3 DEF Tells
        <4>2. x1'[k] = "due" => x2'[k] > 0
          BY DEF Moves, Rows
        <4>3. e \in Notes(k) => x1'[k] \notin Upcoming
          BY <1>3, <3>1 DEF Tells
        <4>4. e.version[k] <= x2'[k]
          BY <3>0, <3>1 DEF Keeps
        <4>5. Reports(k)' = Reports(k) /\ Notes(k)' = Notes(k)
          BY DEF Reports, Notes
        <4> QED  BY <4>1, <4>2, <4>3, <4>4, <4>5
      <3>2. CASE Begins(k)
        <4>1. e.version[k] # x2'[k] /\ e.version[k] <= x2'[k]
          BY <3>0, <3>2 DEF Begins
        <4> QED  BY <4>1 DEF Current
      <3> QED  BY <3>1, <3>2 DEF Moves
    <2> QED  BY <1>1, <2>1, <2>2 DEF Past
  <1> QED  BY <1>2, <1>3

LEMMA FollowingMoves ==
  ASSUME RemindersTyped, Past, Following, Moves, x7' = x7 \/ \E e : Tells(e)
  PROVE  Following'
  <1>0. x7 \in Seq(Events) /\ x2 \in [R!Commitments -> Nat] /\ x2' \in [R!Commitments -> Nat]
        /\ Elements(x7) \subseteq Events
    BY NotEmpty DEF RemindersTyped, Lanes, Rows, Moves
  <1> SUFFICES ASSUME NEW k \in R!Commitments
               PROVE  /\ Follows(x7', Current(k)', Current(k)')
                      /\ Follows(x7', Current(k)' \cap Reports(k), {e \in Events : k \notin e.became})
                      /\ Follows(x7', Current(k)' \cap Notes(k), Events \ Reports(k))
    BY DEF Following, Reports, Notes
  <1>1. /\ Follows(x7, Current(k), Current(k))
        /\ Follows(x7, Current(k) \cap Reports(k), {e \in Events : k \notin e.became})
        /\ Follows(x7, Current(k) \cap Notes(k), Events \ Reports(k))
    BY DEF Following
  <1>2. CASE Keeps(k)
    <2>1. Current(k)' = Current(k)
      BY <1>2 DEF Keeps, Current
    <2>2. CASE x7' = x7
      BY <1>1, <2>1, <2>2
    <2>3. ASSUME NEW e, Tells(e)
          PROVE  /\ Follows(x7', Current(k), Current(k))
                 /\ Follows(x7', Current(k) \cap Reports(k), {d \in Events : k \notin d.became})
                 /\ Follows(x7', Current(k) \cap Notes(k), Events \ Reports(k))
      <3>1. e \in Events /\ e \in Current(k) /\ x7' = Append(x7, e)
        BY <2>3 DEF Tells, Current
      <3>2. k \in e.became => x1[k] = "scheduled"
        BY <2>3 DEF Tells
      <3>3. e \in Reports(k) => x1[k] \in Upcoming
        BY <2>3 DEF Tells
      <3>4. \A d \in Elements(x7) :
              /\ d \in Current(k) \cap Reports(k) => x1[k] # "scheduled"
              /\ d \in Current(k) \cap Notes(k) => x1[k] \notin Upcoming
        BY DEF Past
      <3>5. \/ e \in {d \in Events : k \notin d.became}
            \/ Elements(x7) \cap (Current(k) \cap Reports(k)) = {}
        BY <3>1, <3>2, <3>4
      <3>6. \/ e \in Events \ Reports(k)
            \/ Elements(x7) \cap (Current(k) \cap Notes(k)) = {}
        BY <3>1, <3>3, <3>4
      <3>7. Follows(x7', Current(k), Current(k))
        BY <1>0, <1>1, <3>1, FollowsAppend
      <3>8. Follows(x7', Current(k) \cap Reports(k), {d \in Events : k \notin d.became})
        BY <1>0, <1>1, <3>1, <3>5, FollowsAppend
      <3>9. Follows(x7', Current(k) \cap Notes(k), Events \ Reports(k))
        BY <1>0, <1>1, <3>1, <3>6, FollowsAppend
      <3> QED  BY <3>7, <3>8, <3>9
    <2> QED  BY <2>1, <2>2, <2>3
  <1>3. CASE Begins(k)
    <2>1. x7' \in Seq(Events) /\ \A d \in Elements(x7') : d.version[k] <= x2[k]
      <3>1. \A d \in Elements(x7) : d.version[k] <= x2[k]
        BY DEF Past
      <3>2. ASSUME NEW e, Tells(e)
            PROVE  x7' \in Seq(Events) /\ \A d \in Elements(x7') : d.version[k] <= x2[k]
        <4>1. x7' \in Seq(Events) /\ Elements(x7') = Elements(x7) \cup {e}
          BY <1>0, <3>2, Appending DEF Tells
        <4>2. e.version[k] = x2[k] /\ x2[k] \in Nat
          BY <1>0, <3>2 DEF Tells
        <4> QED  BY <3>1, <4>1, <4>2
      <3> QED  BY <1>0, <3>1, <3>2
    <2>2. \A d \in Elements(x7') : d \notin Current(k)'
      <3>1. x2[k] \in Nat /\ x2'[k] \in Nat /\ x2'[k] > x2[k]
        BY <1>0, <1>3 DEF Begins
      <3>2. \A d \in Elements(x7') : d \in Events
        BY <2>1, NotEmpty
      <3>3. ASSUME NEW d \in Elements(x7')
            PROVE  d.version[k] # x2'[k]
        <4>1. d.version[k] <= x2[k] /\ d.version[k] \in Nat
          BY <2>1, <3>2, <3>3 DEF Events
        <4> QED  BY <3>1, <4>1
      <3> QED  BY <3>3 DEF Current
    <2>3. /\ Elements(x7') \cap Current(k)' = {}
          /\ Elements(x7') \cap (Current(k)' \cap Reports(k)) = {}
          /\ Elements(x7') \cap (Current(k)' \cap Notes(k)) = {}
      BY <2>2
    <2> QED  BY <2>1, <2>3, FollowsNone
  <1> QED  BY <1>2, <1>3 DEF Moves

LEMMA DeliveredMoves ==
  ASSUME RemindersTyped, Delivered, Moves, x7' = x7 \/ \E e : Tells(e)
  PROVE  Delivered'
  <1>0. x7 \in Seq(Events) /\ x2 \in [R!Commitments -> Nat] /\ x2' \in [R!Commitments -> Nat]
    BY DEF RemindersTyped, Lanes, Rows, Moves
  <1> SUFFICES ASSUME NEW k \in R!Commitments, x14'[k] > 0
               PROVE  /\ x2'[k] > 0 /\ x1'[k] # "scheduled"
                      /\ \A e \in Elements(x7') : e \in Current(k)' /\ k \notin e.became
    BY DEF Delivered
  <1>1. Keeps(k)
    BY DEF Moves, Begins
  <1>2. /\ x2[k] > 0 /\ x1[k] # "scheduled"
        /\ \A e \in Elements(x7) : e \in Current(k) /\ k \notin e.became
    BY <1>1 DEF Keeps, Delivered
  <1>3. Current(k)' = Current(k) /\ x2'[k] > 0 /\ x1'[k] # "scheduled"
    BY <1>1, <1>2 DEF Keeps, Current
  <1>4. ASSUME NEW e, Tells(e)
        PROVE  \A d \in Elements(x7') : d \in Current(k)' /\ k \notin d.became
    <2>1. Elements(x7') = Elements(x7) \cup {e}
      BY <1>0, <1>4, Appending DEF Tells
    <2>2. e \in Current(k) /\ k \notin e.became
      BY <1>2, <1>4 DEF Tells, Current
    <2> QED  BY <1>2, <1>3, <2>1, <2>2
  <1> QED  BY <1>2, <1>3, <1>4

LEMMA TidyMoves ==
  ASSUME RemindersTyped, Tidy, Moves, x7' = x7 \/ \E e : Tells(e)
  PROVE  Tidy'
  BY PastMoves, FollowingMoves, DeliveredMoves DEF Tidy

\* Nothing of the answers and the rows.
LEMMA TidySame ==
  ASSUME Tidy, UNCHANGED <<x1, x2, x14, x7>>
  PROVE  Tidy'
  BY DEF Tidy, Past, Following, Delivered, Current

\* No answer is left.
LEMMA TidyEmpty ==
  ASSUME Delivered, RemindersTyped, x7' = <<>>, UNCHANGED <<x1, x2, x14>>
  PROVE  Tidy'
  <1>1. Elements(x7') = {} /\ x7' \in Seq(Events)
    BY EmptyQueue
  <1>2. Past'
    BY <1>1 DEF Past
  <1>3. Following'
    <2>1. ASSUME NEW Z, NEW Y
          PROVE  Follows(x7', Z, Y)
      BY <1>1, FollowsNone
    <2> QED  BY <2>1 DEF Following
  <1>4. Delivered'
    BY <1>1 DEF Delivered, Current
  <1> QED  BY <1>2, <1>3, <1>4 DEF Tidy
----------------------------------------
(* What each operation of the data thread does to the rows and the answers. *)

\* The status of some rows is set.
Sets(cs, s) == \A k \in R!Commitments : x1'[k] = IF k \in cs THEN s ELSE x1[k]

LEMMA SetIs ==
  ASSUME NEW cs, NEW s, R!SetStatus(cs, s)
  PROVE  Sets(cs, s) /\ (Rows /\ s \in Statuses => x1' \in [R!Commitments -> Statuses])
  <1>1. x1' = [k \in R!Commitments |-> IF k \in cs THEN s ELSE x1[k]]
    BY DEF R!SetStatus
  <1>2. Sets(cs, s)
    BY <1>1 DEF Sets
  <1>3. ASSUME Rows, s \in Statuses
        PROVE  x1' \in [R!Commitments -> Statuses]
    BY <1>1, <1>3 DEF Rows
  <1> QED  BY <1>2, <1>3

LEMMA AnswerIs ==
  ASSUME Rows, NEW ev \in {"scanned", "changed", "mark_failed"}, NEW cs \in SUBSET R!Commitments,
         NEW became \in SUBSET R!Commitments, R!Answer(ev, cs, became, x2)
  PROVE  \E e \in Events : /\ x7' = Append(x7, e) /\ e.version = x2
                           /\ e.ev = ev /\ e.due = cs /\ e.became = became
  <1> DEFINE e == [ev |-> ev, due |-> cs, became |-> became, version |-> x2]
  <1>1. e \in Events
    BY DEF Events, Rows
  <1>2. x7' = Append(x7, e)
    BY DEF R!Answer
  <1>3. e.version = x2 /\ e.ev = ev /\ e.due = cs /\ e.became = became
    OBVIOUS
  <1> HIDE DEF e
  <1> QED  BY <1>1, <1>2, <1>3

\* A scan reports what is due from now on.
Finds(e) ==
  /\ e \in Scanned /\ Tells(e) /\ \A k \in R!Commitments : Keeps(k)
  /\ \A k \in R!Commitments :
       /\ k \in e.due => x1[k] \in Upcoming
       /\ x1'[k] = "due" => x1[k] \in Upcoming
  /\ \A k \in R!Commitments : x1'[k] = "surfaced" => x1[k] = "surfaced"
  /\ \A k \in R!Commitments : x1[k] \notin Upcoming => x1'[k] = x1[k]

LEMMA ScanIs ==
  ASSUME RemindersTyped, NEW o \in Orders, R!ScanDue(o), UNCHANGED <<x2, x14>>
  PROVE  Moves /\ \E e : Finds(e)
  <1> DEFINE ripe == {k \in R!Commitments : x1[k] = "scheduled" /\ x3[k] <= o.at}
  <1> DEFINE found == ripe \cup {k \in R!Commitments : x1[k] = "due"}
  <1>1. R!SetStatus(ripe, "due") /\ R!Answer("scanned", found, ripe, x2)
    BY DEF R!ScanDue
  <1>2. Rows /\ "due" \in Statuses /\ ripe \in SUBSET R!Commitments /\ found \in SUBSET R!Commitments
    BY DEF RemindersTyped, Statuses
  <1>3. /\ \A k \in ripe : x1[k] = "scheduled"
        /\ \A k \in found : k \in ripe \/ x1[k] = "due"
        /\ ripe \subseteq found
    OBVIOUS
  <1> HIDE DEF ripe, found
  <1>4. Sets(ripe, "due") /\ x1' \in [R!Commitments -> Statuses]
    BY <1>1, <1>2, SetIs
  <1>5. \A k \in R!Commitments : Keeps(k)
    BY <1>3, <1>4 DEF Keeps, Sets, Upcoming
  <1>6. Moves
    <2>1. \A k \in R!Commitments : x1'[k] = "absent" \/ x1[k] # "absent"
      BY <1>3, <1>4 DEF Sets
    <2>2. \A k \in R!Commitments : x1'[k] = "absent" \/ x2'[k] > 0
      BY <1>2, <2>1 DEF Rows
    <2> QED  BY <1>2, <1>4, <1>5, <2>2 DEF Moves, Rows
  <1>7. PICK e \in Events : /\ x7' = Append(x7, e) /\ e.version = x2
                            /\ e.ev = "scanned" /\ e.due = found /\ e.became = ripe
    <2> DEFINE e == [ev |-> "scanned", due |-> found, became |-> ripe, version |-> x2]
    <2>1. e \in Events
      BY <1>2 DEF Events, Rows
    <2>2. x7' = Append(x7, e)
      BY <1>1 DEF R!Answer
    <2>3. e.version = x2 /\ e.ev = "scanned" /\ e.due = found /\ e.became = ripe
      OBVIOUS
    <2> HIDE DEF e
    <2> QED  BY <2>1, <2>2, <2>3
  <1>8. e \in Scanned /\ \A k \in R!Commitments : e \notin Notes(k)
    BY <1>7 DEF Scanned, Notes
  <1>9. Tells(e)
    <2>1. \A k \in found : x1'[k] = "due" /\ x1[k] \in Upcoming
      BY <1>2, <1>3, <1>4 DEF Sets, Upcoming
    <2>2. \A k \in R!Commitments : e \in Reports(k) => k \in found
      BY <1>7 DEF Reports
    <2> QED  BY <1>3, <1>5, <1>7, <1>8, <2>1, <2>2 DEF Tells
  <1>10. \A k \in R!Commitments :
           /\ k \in e.due => x1[k] \in Upcoming
           /\ x1'[k] = "due" => x1[k] \in Upcoming
           /\ x1'[k] = "surfaced" => x1[k] = "surfaced"
           /\ x1[k] \notin Upcoming => x1'[k] = x1[k]
    BY <1>3, <1>4, <1>7 DEF Sets, Upcoming
  <1> QED  BY <1>5, <1>6, <1>8, <1>9, <1>10 DEF Finds

\* An operation that is no scan: what it sets is no longer due, and it reports nothing.
Settles ==
  /\ \A k \in R!Commitments : x1'[k] = "due" => x1[k] = "due" /\ Keeps(k)
  /\ \A k \in R!Commitments : Keeps(k) /\ x1[k] \notin Upcoming => x1'[k] \notin Upcoming
Quiet(e) == Tells(e) /\ e \notin Scanned
Stays == \A k \in R!Commitments : x1'[k] = "surfaced" => x1[k] = "surfaced" /\ Keeps(k)
Silent == x7' = x7 \/ \E e : Quiet(e) /\ e \notin Failures

LEMMA MarkIs ==
  ASSUME RemindersTyped, NEW o \in Orders, R!MarkSurfaced(o), UNCHANGED <<x2, x14>>
  PROVE  /\ Moves /\ Settles /\ Silent /\ o \in Marks
         /\ \A k \in R!Commitments : Keeps(k)
         /\ \A k \in o.cs : x1'[k] # "due"
         /\ \A k \in R!Commitments : x1'[k] = "surfaced" =>
              x1[k] = "surfaced" \/ (k \in o.cs /\ x1[k] = "due")
  <1> DEFINE mine == R!Marked(o)
  <1>1. R!SetStatus(mine, "surfaced") /\ R!Answer("changed", mine, {}, x2) /\ o \in Marks
    BY DEF R!MarkSurfaced, Marks
  <1>2. Rows /\ "surfaced" \in Statuses /\ mine \in SUBSET R!Commitments /\ {} \in SUBSET R!Commitments
        /\ o.cs \subseteq R!Commitments
    BY DEF RemindersTyped, Statuses, R!Marked, Orders
  <1>3. (\A k \in mine : x1[k] = "due" /\ k \in o.cs) /\ \A k \in o.cs : k \in mine \/ x1[k] # "due"
    BY DEF R!Marked
  <1> HIDE DEF mine
  <1>4. Sets(mine, "surfaced") /\ x1' \in [R!Commitments -> Statuses]
    BY <1>1, <1>2, SetIs
  <1>5. \A k \in R!Commitments : Keeps(k)
    BY <1>3, <1>4 DEF Keeps, Sets, Upcoming
  <1>6. Moves
    <2>1. \A k \in R!Commitments : x1'[k] = "absent" \/ x2'[k] > 0
      BY <1>2, <1>3, <1>4 DEF Rows, Sets
    <2> QED  BY <1>2, <1>4, <1>5, <2>1 DEF Moves, Rows
  <1>7. PICK e \in Events : /\ x7' = Append(x7, e) /\ e.version = x2
                            /\ e.ev = "changed" /\ e.due = mine /\ e.became = {}
    <2> DEFINE e == [ev |-> "changed", due |-> mine, became |-> {}, version |-> x2]
    <2>1. e \in Events
      BY <1>2 DEF Events, Rows
    <2>2. x7' = Append(x7, e)
      BY <1>1 DEF R!Answer
    <2>3. e.version = x2 /\ e.ev = "changed" /\ e.due = mine /\ e.became = {}
      OBVIOUS
    <2> HIDE DEF e
    <2> QED  BY <2>1, <2>2, <2>3
  <1>8. e \notin Scanned /\ e \notin Failures /\ \A k \in R!Commitments : e \notin Reports(k)
    BY <1>7 DEF Scanned, Failures, Reports
  <1>9. \A k \in mine : x1'[k] \notin Upcoming
    BY <1>2, <1>4 DEF Sets, Upcoming
  <1>10. Tells(e)
    BY <1>7, <1>8, <1>9 DEF Tells, Notes
  <1>11. Settles
    BY <1>4, <1>5 DEF Settles, Sets, Upcoming
  <1>12. \A k \in o.cs : x1'[k] # "due"
    BY <1>2, <1>3, <1>4 DEF Sets
  <1>13. \A k \in R!Commitments : x1'[k] = "surfaced" =>
              x1[k] = "surfaced" \/ (k \in o.cs /\ x1[k] = "due")
    BY <1>3, <1>4 DEF Sets
  <1> QED  BY <1>1, <1>5, <1>6, <1>8, <1>10, <1>11, <1>12, <1>13 DEF Silent, Quiet

LEMMA OpenIs ==
  ASSUME RemindersTyped, NEW o \in Orders, R!OpenFollowUp(o), UNCHANGED <<x2, x14>>
  PROVE  Moves /\ Settles /\ Stays /\ Silent /\ o \notin Marks /\ o \notin Scans
  <1> DEFINE cs == {k \in o.cs : x1[k] \in {"due", "surfaced"}}
  <1>1. R!SetStatus(cs, "completed") /\ x7' = x7 /\ o \notin Marks /\ o \notin Scans
    BY DEF R!OpenFollowUp, Marks, Scans
  <1>2. Rows /\ "completed" \in Statuses
    BY DEF RemindersTyped, Statuses, R!Final
  <1>3. \A k \in cs : x1[k] \in {"due", "surfaced"}
    OBVIOUS
  <1> HIDE DEF cs
  <1>4. Sets(cs, "completed") /\ x1' \in [R!Commitments -> Statuses]
    BY <1>1, <1>2, SetIs
  <1>5. \A k \in R!Commitments : Keeps(k)
    BY <1>4 DEF Keeps, Sets, Upcoming
  <1>6. Moves
    <2>1. \A k \in R!Commitments : x1'[k] = "absent" \/ x2'[k] > 0
      BY <1>2, <1>3, <1>4 DEF Rows, Sets
    <2> QED  BY <1>2, <1>4, <1>5, <2>1 DEF Moves, Rows
  <1>7. Settles /\ Stays
    BY <1>4, <1>5 DEF Settles, Stays, Sets, Upcoming
  <1> QED  BY <1>1, <1>6, <1>7 DEF Silent

LEMMA DraftIs ==
  ASSUME RemindersTyped, Delivered, NEW o \in Orders, R!Draft(o), UNCHANGED x14
  PROVE  Moves /\ Settles /\ Stays /\ Silent /\ o \notin Marks /\ o \notin Scans
  <1> DEFINE new == {k \in o.cs : R!Fresh(k)}
  <1>1. /\ R!SetStatus(new, "draft") /\ R!Answer("changed", new, {}, x2)
        /\ x2' = [k \in R!Commitments |-> IF k \in new THEN 1 ELSE x2[k]]
        /\ o \notin Marks /\ o \notin Scans
    BY DEF R!Draft, Marks, Scans
  <1>2. Rows /\ "draft" \in Statuses /\ new \in SUBSET R!Commitments /\ {} \in SUBSET R!Commitments
    BY DEF RemindersTyped, Statuses, Orders
  <1>3. \A k \in new : x2[k] = 0 /\ x1[k] = "absent"
    BY DEF R!Fresh
  <1> HIDE DEF new
  <1>4. Sets(new, "draft") /\ x1' \in [R!Commitments -> Statuses]
    BY <1>1, <1>2, SetIs
  <1>5. x2' \in [R!Commitments -> Nat] /\ \A k \in R!Commitments : x2'[k] = IF k \in new THEN 1 ELSE x2[k]
    BY <1>1, <1>2 DEF Rows
  <1>6. ASSUME NEW k \in R!Commitments
        PROVE  /\ k \in new => Begins(k) /\ x14[k] = 0
               /\ k \notin new => Keeps(k)
    <2>1. CASE k \in new
      <3>1. x2[k] = 0 /\ x2'[k] = 1 /\ x14[k] \in Nat /\ x14'[k] = x14[k]
        BY <1>2, <1>3, <1>5, <2>1 DEF Rows
      <3>2. ~(x14[k] > 0)
        BY <3>1 DEF Delivered
      <3> QED  BY <2>1, <3>1, <3>2 DEF Begins
    <2>2. CASE k \notin new
      BY <1>4, <1>5, <2>2 DEF Keeps, Sets, Upcoming
    <2> QED  BY <2>1, <2>2
  <1>7. Moves
    <2>1. \A k \in R!Commitments : x1'[k] = "absent" \/ x2'[k] > 0
      BY <1>2, <1>4, <1>5 DEF Rows, Sets
    <2> QED  BY <1>2, <1>4, <1>5, <1>6, <2>1 DEF Moves, Rows
  <1>8. PICK e \in Events : /\ x7' = Append(x7, e) /\ e.version = x2
                            /\ e.ev = "changed" /\ e.due = new /\ e.became = {}
    <2> DEFINE a == [ev |-> "changed", due |-> new, became |-> {}, version |-> x2]
    <2>1. a \in Events
      BY <1>2 DEF Events, Rows
    <2>2. x7' = Append(x7, a)
      BY <1>1 DEF R!Answer
    <2>3. a.version = x2 /\ a.ev = "changed" /\ a.due = new /\ a.became = {}
      OBVIOUS
    <2> HIDE DEF a
    <2> QED  BY <2>1, <2>2, <2>3
  <1>9. e \notin Scanned /\ e \notin Failures /\ \A k \in R!Commitments : e \notin Reports(k)
    BY <1>8 DEF Scanned, Failures, Reports
  <1>10. \A k \in new : x1'[k] \notin Upcoming
    BY <1>2, <1>4 DEF Sets, Upcoming
  <1>11. Tells(e)
    BY <1>8, <1>9, <1>10 DEF Tells, Notes
  <1>12. Settles /\ Stays
    BY <1>4, <1>6 DEF Settles, Stays, Sets, Upcoming
  <1> QED  BY <1>1, <1>7, <1>9, <1>11, <1>12 DEF Silent, Quiet

\* What the user does to a commitment: a new version starts, or this one ends.
LEMMA ReviseIs ==
  ASSUME RemindersTyped, NEW e \in Edits, NEW d, R!Revise(e, d)
  PROVE  /\ Moves /\ Settles /\ Stays
         /\ ~Keeps(e.c)
  <1>1. /\ x1' = [x1 EXCEPT ![e.c] = "scheduled"]
        /\ x2' = [x2 EXCEPT ![e.c] = @ + 1]
        /\ x14' = [x14 EXCEPT ![e.c] = 0]
    BY DEF R!Revise
  <1>2. Rows /\ "scheduled" \in Statuses /\ e.c \in R!Commitments
    BY DEF RemindersTyped, Statuses, Edits
  <1>3. /\ x1' \in [R!Commitments -> Statuses] /\ x1'[e.c] = "scheduled"
        /\ \A k \in R!Commitments \ {e.c} : x1'[k] = x1[k]
    BY <1>1, <1>2 DEF Rows
  <1>4. /\ x2' \in [R!Commitments -> Nat] /\ x2'[e.c] = x2[e.c] + 1
        /\ x2[e.c] \in Nat
        /\ \A k \in R!Commitments \ {e.c} : x2'[k] = x2[k]
    BY <1>1, <1>2 DEF Rows
  <1>5. /\ x14' \in [R!Commitments -> Nat] /\ x14'[e.c] = 0
        /\ \A k \in R!Commitments \ {e.c} : x14'[k] = x14[k]
    BY <1>1, <1>2 DEF Rows
  <1>6. Begins(e.c)
    BY <1>4, <1>5 DEF Begins
  <1>7. \A k \in R!Commitments \ {e.c} : Keeps(k)
    BY <1>3, <1>4, <1>5 DEF Keeps, Upcoming
  <1>8. \A k \in R!Commitments : x1'[k] = "absent" \/ x2'[k] > 0
    BY <1>2, <1>3, <1>4 DEF Rows
  <1>9. Moves
    BY <1>2, <1>3, <1>4, <1>5, <1>6, <1>7, <1>8 DEF Moves, Rows
  <1>10. ~Keeps(e.c)
    BY <1>4 DEF Keeps
  <1>11. Settles /\ Stays
    BY <1>3, <1>7, <1>10 DEF Settles, Stays, Upcoming
  <1> QED  BY <1>9, <1>10, <1>11

LEMMA CreateIs ==
  ASSUME RemindersTyped, Delivered, NEW e \in Edits, R!Fresh(e.c), R!Create(e)
  PROVE  /\ Moves /\ Settles /\ Stays
         /\ ~Keeps(e.c)
  <1>1. /\ x1' = [x1 EXCEPT ![e.c] = "draft"]
        /\ x2' = [x2 EXCEPT ![e.c] = 1] /\ x14' = x14
    BY DEF R!Create
  <1>2. Rows /\ "draft" \in Statuses /\ e.c \in R!Commitments /\ x2[e.c] = 0
    BY DEF RemindersTyped, Statuses, Edits, R!Fresh
  <1>3. /\ x1' \in [R!Commitments -> Statuses] /\ x1'[e.c] = "draft"
        /\ \A k \in R!Commitments \ {e.c} : x1'[k] = x1[k]
    BY <1>1, <1>2 DEF Rows
  <1>4. /\ x2' \in [R!Commitments -> Nat] /\ x2'[e.c] = 1
        /\ \A k \in R!Commitments \ {e.c} : x2'[k] = x2[k]
    BY <1>1, <1>2 DEF Rows
  <1>5. x14[e.c] = 0
    BY <1>2 DEF Delivered, Rows
  <1>6. Begins(e.c)
    BY <1>1, <1>2, <1>4, <1>5 DEF Begins
  <1>7. \A k \in R!Commitments \ {e.c} : Keeps(k)
    BY <1>1, <1>3, <1>4 DEF Keeps, Upcoming
  <1>8. \A k \in R!Commitments : x1'[k] = "absent" \/ x2'[k] > 0
    BY <1>2, <1>3, <1>4 DEF Rows
  <1>9. Moves
    BY <1>1, <1>2, <1>3, <1>4, <1>6, <1>7, <1>8 DEF Moves, Rows
  <1>10. ~Keeps(e.c)
    BY <1>2, <1>4 DEF Keeps
  <1>11. Settles /\ Stays
    BY <1>3, <1>7, <1>10 DEF Settles, Stays, Upcoming
  <1> QED  BY <1>9, <1>10, <1>11

LEMMA EndIs ==
  ASSUME RemindersTyped, NEW e \in Edits, NEW s \in R!Final \cup {"absent"}, R!SetEnd(e, s), x1[e.c] # "absent"
  PROVE  Moves /\ Settles /\ Stays /\ x1'[e.c] \notin Upcoming
  <1>0. s \notin Upcoming /\ s \in Statuses /\ s # "scheduled" /\ s # "due" /\ s # "surfaced"
    BY DEF R!Final, Upcoming, Statuses
  <1>1. x1' = [x1 EXCEPT ![e.c] = s] /\ UNCHANGED <<x2, x14>>
    BY DEF R!SetEnd
  <1>2. Rows /\ e.c \in R!Commitments
    BY DEF RemindersTyped, Edits
  <1>3. /\ x1' \in [R!Commitments -> Statuses] /\ x1'[e.c] = s
        /\ \A k \in R!Commitments \ {e.c} : x1'[k] = x1[k]
    BY <1>0, <1>1, <1>2 DEF Rows
  <1>4. \A k \in R!Commitments : Keeps(k)
    BY <1>0, <1>1, <1>2, <1>3 DEF Keeps, Upcoming
  <1>5. \A k \in R!Commitments : x1'[k] = "absent" \/ x2'[k] > 0
    BY <1>1, <1>2, <1>3 DEF Rows
  <1>6. Moves
    BY <1>1, <1>2, <1>3, <1>4, <1>5 DEF Moves, Rows
  <1>7. Settles /\ Stays
    BY <1>0, <1>2, <1>3, <1>4 DEF Settles, Stays, Upcoming
  <1> QED  BY <1>0, <1>3, <1>6, <1>7

\* Nothing is done to the rows.
LEMMA SameIs ==
  ASSUME RemindersTyped, UNCHANGED <<x1, x2, x14>>
  PROVE  Moves /\ Settles /\ Stays /\ \A k \in R!Commitments : Keeps(k)
  <1>1. \A k \in R!Commitments : Keeps(k)
    BY DEF Keeps, Upcoming
  <1>2. Rows'
    BY DEF RemindersTyped, Rows
  <1> QED  BY <1>1, <1>2 DEF Moves, Settles, Stays

LEMMA RunsIs ==
  ASSUME RemindersTyped, Delivered, R!RunForeground
  PROVE  LET o == Head(x5)
         IN  /\ o \in Orders /\ x5 # <<>> /\ x5' = Tail(x5) /\ Moves
             /\ \/ o \in Scans /\ UNCHANGED <<x2, x14>> /\ \E e : Finds(e)
                \/ /\ o \in Marks /\ Settles /\ Silent /\ \A k \in o.cs : x1'[k] # "due"
                   /\ \A k \in R!Commitments : Keeps(k)
                   /\ \A k \in R!Commitments : x1'[k] = "surfaced" =>
                        x1[k] = "surfaced" \/ (k \in o.cs /\ x1[k] = "due")
                \/ o \notin Marks /\ o \notin Scans /\ Settles /\ Stays /\ Silent
  <1> DEFINE o == Head(x5)
  <1>1. o \in Orders /\ x5 # <<>> /\ x5' = Tail(x5) /\ UNCHANGED x14
    BY Taking DEF R!RunForeground, RemindersTyped, Lanes
  <1>2. \/ R!ScanDue(o) /\ UNCHANGED x2
        \/ R!MarkSurfaced(o) /\ UNCHANGED x2
        \/ R!OpenFollowUp(o) /\ UNCHANGED x2
        \/ R!Draft(o)
    BY DEF R!RunForeground
  <1> HIDE DEF o
  <1>3. CASE R!ScanDue(o) /\ UNCHANGED x2
    <2>1. o \in Scans
      BY <1>1, <1>3 DEF R!ScanDue, Scans
    <2>2. Moves /\ \E e : Finds(e)
      BY <1>1, <1>3, ScanIs
    <2> QED  BY <1>1, <1>3, <2>1, <2>2 DEF o
  <1>4. CASE R!MarkSurfaced(o) /\ UNCHANGED x2
    BY <1>1, <1>4, MarkIs DEF o
  <1>5. CASE R!OpenFollowUp(o) /\ UNCHANGED x2
    BY <1>1, <1>5, OpenIs DEF o
  <1>6. CASE R!Draft(o)
    BY <1>1, <1>6, DraftIs DEF o
  <1> QED  BY <1>2, <1>3, <1>4, <1>5, <1>6

LEMMA InteractiveIs ==
  ASSUME RemindersTyped, Delivered, R!RunInteractive
  PROVE  Moves /\ Settles /\ Stays /\ Silent
  <1> DEFINE e == Head(x6)
  <1>1. e \in Edits
    BY Taking DEF R!RunInteractive, RemindersTyped, Lanes
  <1>2. \/ R!Write(e) /\ R!Answer("changed", {e.c}, {}, x2)
        \/ x1[e.c] # "absent" /\ R!SetEnd(e, "absent") /\ UNCHANGED x7
        \/ UNCHANGED <<R!rows, x14, x7>>
    BY DEF R!RunInteractive
  <1> HIDE DEF e
  <1>3. CASE R!Write(e) /\ R!Answer("changed", {e.c}, {}, x2)
    <2>1. \/ R!Fresh(e.c) /\ R!Create(e)
          \/ \E d : R!Revise(e, d)
          \/ \E s \in R!Final : x1[e.c] # "absent" /\ R!SetEnd(e, s)
      BY <1>3 DEF R!Write, R!MayEnd
    <2>2. Moves /\ Settles /\ Stays /\ (Keeps(e.c) => x1'[e.c] \notin Upcoming)
      <3>1. ASSUME R!Fresh(e.c), R!Create(e)
            PROVE  Moves /\ Settles /\ Stays /\ (Keeps(e.c) => x1'[e.c] \notin Upcoming)
        BY <1>1, <3>1, CreateIs
      <3>2. ASSUME NEW d, R!Revise(e, d)
            PROVE  Moves /\ Settles /\ Stays /\ (Keeps(e.c) => x1'[e.c] \notin Upcoming)
        BY <1>1, <3>2, ReviseIs
      <3>3. ASSUME NEW s \in R!Final, x1[e.c] # "absent", R!SetEnd(e, s)
            PROVE  Moves /\ Settles /\ Stays /\ (Keeps(e.c) => x1'[e.c] \notin Upcoming)
        BY <1>1, <3>3, EndIs
      <3> QED  BY <2>1, <3>1, <3>2, <3>3
    <2> DEFINE a == [ev |-> "changed", due |-> {e.c}, became |-> {}, version |-> x2]
    <2>3. a \in Events
      BY <1>1 DEF Events, Edits, RemindersTyped, Rows
    <2>4. x7' = Append(x7, a)
      BY <1>3 DEF R!Answer
    <2>5. a.version = x2 /\ a.ev = "changed" /\ a.due = {e.c} /\ a.became = {}
      OBVIOUS
    <2> HIDE DEF a
    <2>6. a \notin Scanned /\ a \notin Failures /\ \A k \in R!Commitments : a \notin Reports(k)
      BY <2>5 DEF Scanned, Failures, Reports
    <2>7. Tells(a)
      BY <2>2, <2>3, <2>4, <2>5, <2>6 DEF Tells, Notes
    <2> QED  BY <2>2, <2>6, <2>7 DEF Silent, Quiet
  <1>4. CASE x1[e.c] # "absent" /\ R!SetEnd(e, "absent") /\ UNCHANGED x7
    BY <1>1, <1>4, EndIs DEF Silent
  <1>5. CASE UNCHANGED <<R!rows, x14, x7>>
    BY <1>5, SameIs DEF Silent, R!rows
  <1> QED  BY <1>2, <1>3, <1>4, <1>5
----------------------------------------
(* The budget. *)

\* What is appended to the foreground leaves the marks before the scans.
Grows == x5' = x5 \/ \E o \in Orders : x5' = Append(x5, o)

LEMMA CoveredGrows ==
  ASSUME RemindersTyped, Grows, NEW k, Covered(k)
  PROVE  Covered(k)'
  <1>1. x5 \in Seq(Orders)
    BY DEF RemindersTyped, Lanes
  <1>2. Elements(x5) \cap MarksOf(k) # {} /\ Before(x5, MarksOf(k), Scans)
    BY DEF Covered
  <1>3. ASSUME NEW o \in Orders, x5' = Append(x5, o)
        PROVE  Elements(x5') \cap MarksOf(k) # {} /\ Before(x5', MarksOf(k), Scans)
    BY <1>1, <1>2, <1>3, Appending, BeforeAppend
  <1>4. Elements(x5') \cap MarksOf(k) # {} /\ Before(x5', MarksOf(k), Scans)
    BY <1>2, <1>3 DEF Grows
  <1> QED  BY <1>4 DEF Covered, MarksOf, Marks, Scans, Orders

\* Who is delivered was reported, and is not scheduled again in this version.
LEMMA SpentIs ==
  ASSUME RemindersTyped, Budget, x17 <= 1, NEW k \in R!Commitments, Spent(k)
  PROVE  x14[k] > 0 /\ (Settled(k) \/ (x17 = 1 /\ k \in x10))
  <1>1. /\ Failed <= x16 /\ x14[k] + Failed = 1 + x16
        /\ Settled(k) \/ (x17 = 1 /\ k \in x10)
    BY DEF Budget, Spent
  <1>2. Failed \in Nat /\ x16 \in Nat /\ x14[k] \in Nat
    BY CountIs DEF RemindersTyped, Rows, Lanes, Rest, Failed
  <1> QED  BY <1>1, <1>2

\* An operation runs.
LEMMA BudgetMoves ==
  ASSUME RemindersTyped, Tidy, Budget, Moves, UNCHANGED <<x16, x17, x10>>,
         x7' = x7 \/ \E e : Tells(e) /\ e \notin Failures
                                      /\ \A k \in R!Commitments : e \in Reports(k) => ~Covered(k),
         \A k \in R!Commitments :
           /\ Keeps(k) /\ x1[k] \notin Upcoming => x1'[k] \notin Upcoming
           /\ Keeps(k) /\ Covered(k) /\ x1'[k] = "due" => Covered(k)'
  PROVE  Budget'
  <1>0. x7 \in Seq(Events) /\ x16 \in Nat /\ x17 \in Nat /\ Failed \in Nat
        /\ \A k \in R!Commitments : x14[k] \in Nat /\ x14'[k] \in Nat
    BY CountIs DEF RemindersTyped, Lanes, Rest, Failed, Rows, Moves
  <1>1. /\ Failed' = Failed
        /\ Elements(x7) \subseteq Elements(x7')
    <2>1. ASSUME NEW e, Tells(e), e \notin Failures
          PROVE  Failed' = Failed /\ Elements(x7) \subseteq Elements(x7')
      <3>1. e \in Events /\ x7' = Append(x7, e)
        BY <2>1 DEF Tells
      <3>2. Count(x7', Failures) = Count(x7, Failures)
        BY <1>0, <2>1, <3>1, CountAppend
      <3>3. Elements(x7) \subseteq Elements(x7')
        BY <1>0, <3>1, Appending
      <3>4. Failures' = Failures
        BY DEF Failures, Events
      <3> QED  BY <3>2, <3>3, <3>4 DEF Failed
    <2>2. CASE x7' = x7
      BY <2>2 DEF Failed, Failures, Events
    <2> QED  BY <2>1, <2>2
  <1>2. ASSUME x17 <= 1, NEW k \in R!Commitments
        PROVE  /\ x14'[k] + Failed <= 1 + x16
               /\ x14'[k] + Failed = 1 + x16 => Settled(k)' \/ (x17 = 1 /\ k \in x10)
    <2>1. CASE Begins(k)
      BY <1>0, <1>2, <2>1 DEF Budget, Begins
    <2>2. CASE Keeps(k)
      <3>1. x14'[k] = x14[k] /\ x14'[k] + Failed <= 1 + x16
        BY <1>2, <2>2 DEF Keeps, Budget
      <3>2. ASSUME x14'[k] + Failed = 1 + x16
            PROVE  Settled(k)' \/ (x17 = 1 /\ k \in x10)
        <4>1. Spent(k)
          BY <3>1, <3>2 DEF Spent
        <4>2. x14[k] > 0 /\ (Settled(k) \/ (x17 = 1 /\ k \in x10))
          BY <1>2, <4>1, SpentIs
        <4>3. x1[k] # "scheduled"
          BY <4>2 DEF Tidy, Delivered
        <4>4. x1'[k] # "scheduled"
          BY <2>2, <4>3 DEF Keeps
        <4>5. ASSUME Settled(k)
              PROVE  Settled(k)'
          <5>1. /\ Before(x7, Failures, Reports(k))
                /\ Elements(x7) \cap Failures # {} \/ x1[k] \notin Upcoming \/ Covered(k)
            BY <4>5 DEF Settled
          <5>2. ASSUME NEW e, Tells(e), e \in Reports(k) => ~Covered(k)
                PROVE  Before(x7', Failures, Reports(k))
            <6>1. e \in Events /\ x7' = Append(x7, e)
              BY <5>2 DEF Tells
            <6>2. e \in Reports(k) => x1[k] \in Upcoming
              BY <5>2 DEF Tells
            <6>3. e \notin Reports(k) \/ Elements(x7) \cap Failures # {}
              BY <5>1, <5>2, <6>2
            <6> QED  BY <1>0, <5>1, <6>1, <6>3, BeforeAppend
          <5>3. Before(x7', Failures, Reports(k))
            BY <5>1, <5>2
          <5>4. Elements(x7') \cap Failures # {} \/ x1'[k] \notin Upcoming \/ Covered(k)'
            <6>1. CASE Elements(x7) \cap Failures # {}
              BY <1>1, <6>1
            <6>2. CASE x1[k] \notin Upcoming
              BY <2>2, <6>2
            <6>3. CASE Covered(k)
              <7>1. x1'[k] \notin Upcoming \/ x1'[k] = "due"
                BY <4>4 DEF Upcoming
              <7> QED  BY <2>2, <6>3, <7>1
            <6> QED  BY <5>1, <6>1, <6>2, <6>3
          <5>5. Failures' = Failures /\ Reports(k)' = Reports(k) /\ Upcoming' = Upcoming
            BY DEF Failures, Reports, Scanned, Events, Upcoming
          <5> QED  BY <5>3, <5>4, <5>5 DEF Settled
        <4> QED  BY <4>2, <4>5
      <3> QED  BY <3>1, <3>2
    <2> QED  BY <2>1, <2>2 DEF Moves
  <1>3. Failed <= x16
    BY DEF Budget
  <1> QED  BY <1>1, <1>2, <1>3 DEF Budget, Spent

LEMMA BudgetRuns ==
  ASSUME RemindersTyped, Tidy, Budget, R!RunForeground
  PROVE  Budget'
  <1> DEFINE o == Head(x5)
  <1>0. x5 \in Seq(Orders) /\ UNCHANGED <<x16, x17, x10>> /\ Delivered
    BY DEF RemindersTyped, Lanes, R!RunForeground, R!counts, R!sched, Tidy
  <1>1. /\ o \in Orders /\ x5 # <<>> /\ x5' = Tail(x5) /\ Moves
        /\ \/ o \in Scans /\ \E e : Finds(e)
           \/ o \in Marks /\ Settles /\ Silent /\ \A k \in o.cs : x1'[k] # "due"
           \/ o \notin Marks /\ o \notin Scans /\ Settles /\ Silent
    BY <1>0, RunsIs
  <1>2. Elements(x5) = {o} \cup Elements(Tail(x5))
    BY <1>0, <1>1, Taking
  <1>3. ASSUME NEW k \in R!Commitments, Covered(k)
        PROVE  o \notin Scans /\ (o \notin MarksOf(k) => Covered(k)')
    <2>1. Elements(x5) \cap MarksOf(k) # {} /\ Before(x5, MarksOf(k), Scans)
      BY <1>3 DEF Covered
    <2>2. o \notin Scans
      BY <1>0, <1>1, <2>1, BeforeHead
    <2>3. ASSUME o \notin MarksOf(k)
          PROVE  Elements(x5') \cap MarksOf(k) # {} /\ Before(x5', MarksOf(k), Scans)
      BY <1>0, <1>1, <1>2, <2>1, <2>3, BeforeTail
    <2>4. MarksOf(k)' = MarksOf(k) /\ Scans' = Scans
      BY DEF MarksOf, Marks, Scans, Orders
    <2> QED  BY <2>2, <2>3, <2>4 DEF Covered
  <1> HIDE DEF o
  <1>4. CASE o \in Scans /\ \E e : Finds(e)
    <2>1. \A k \in R!Commitments : ~Covered(k)
      BY <1>3, <1>4
    <2>2. PICK e : Finds(e)
      BY <1>4
    <2>3. Tells(e) /\ e \notin Failures
      BY <2>2, Counting DEF Finds
    <2>4. \A k \in R!Commitments : x1[k] \notin Upcoming => x1'[k] \notin Upcoming
      BY <2>2 DEF Finds
    <2> QED  BY <1>0, <1>1, <2>1, <2>3, <2>4, BudgetMoves
  <1>5. CASE Settles /\ Silent /\ o \notin Scans /\ (o \in Marks => \A k \in o.cs : x1'[k] # "due")
    <2>1. x7' = x7 \/ \E e : Tells(e) /\ e \notin Failures
                                       /\ \A k \in R!Commitments : e \in Reports(k) => ~Covered(k)
      BY <1>5, Counting DEF Silent, Quiet
    <2>2. \A k \in R!Commitments : x1'[k] = "due" => o \notin MarksOf(k)
      BY <1>5 DEF MarksOf
    <2>3. \A k \in R!Commitments :
            /\ Keeps(k) /\ x1[k] \notin Upcoming => x1'[k] \notin Upcoming
            /\ Keeps(k) /\ Covered(k) /\ x1'[k] = "due" => Covered(k)'
      BY <1>3, <1>5, <2>2 DEF Settles
    <2> QED  BY <1>0, <1>1, <2>1, <2>3, BudgetMoves
  <1> QED  BY <1>1, <1>4, <1>5, Counting

LEMMA BudgetActs ==
  ASSUME RemindersTyped, Tidy, Budget, R!RunInteractive
  PROVE  Budget'
  <1>0. /\ UNCHANGED <<x16, x17, x10>> /\ Delivered /\ x5 = <<>>
        /\ Moves /\ Settles /\ Silent
    BY InteractiveIs DEF R!RunInteractive, R!counts, R!sched, Tidy
  <1>1. \A k : ~Covered(k)
    BY <1>0, EmptyQueue DEF Covered
  <1>2. x7' = x7 \/ \E e : Tells(e) /\ e \notin Failures
                                     /\ \A k \in R!Commitments : e \in Reports(k) => ~Covered(k)
    BY <1>0, <1>1 DEF Silent, Quiet
  <1>3. \A k \in R!Commitments :
          /\ Keeps(k) /\ x1[k] \notin Upcoming => x1'[k] \notin Upcoming
          /\ Keeps(k) /\ Covered(k) /\ x1'[k] = "due" => Covered(k)'
    BY <1>0, <1>1 DEF Settles
  <1> QED  BY <1>0, <1>2, <1>3, BudgetMoves

\* Nothing runs: operations are asked for, the scheduler wakes or stops.
LEMMA BudgetGrows ==
  ASSUME RemindersTyped, Budget, Grows, UNCHANGED <<x1, x14, x7, x16>>,
         UNCHANGED <<x17, x10>> \/ x17' = x17 + 1
  PROVE  Budget'
  <1>0. /\ Failed' = Failed /\ Failures' = Failures /\ Upcoming' = Upcoming
        /\ \A k : Reports(k)' = Reports(k)
    BY DEF Failed, Failures, Events, Reports, Scanned, Upcoming
  <1>1. \A k : Settled(k) => Settled(k)'
    BY <1>0, CoveredGrows DEF Settled
  <1>2. CASE UNCHANGED <<x17, x10>>
    BY <1>0, <1>1, <1>2 DEF Budget, Spent
  <1>3. CASE x17' = x17 + 1
    <2>1. x17 \in Nat
      BY DEF RemindersTyped, Rest
    <2>2. x17' <= 1 => x17 <= 1 /\ x17 # 1
      BY <1>3, <2>1
    <2> QED  BY <1>0, <1>1, <2>2 DEF Budget, Spent
  <1> QED  BY <1>2, <1>3

\* A fault pays for one delivery more, when the scheduler hears of it or need not.
LEMMA BudgetFails ==
  ASSUME RemindersTyped, Budget, R!ForegroundFails
  PROVE  Budget'
  <1>0. /\ x7 \in Seq(Events) /\ x16 \in Nat /\ Failed \in Nat /\ Failed <= x16
        /\ \A k \in R!Commitments : x14[k] \in Nat
    BY CountIs DEF RemindersTyped, Lanes, Rest, Failed, Rows, Budget
  <1>1. x16' = x16 + 1 /\ UNCHANGED <<x1, x2, x14, x17, x10>>
    BY DEF R!ForegroundFails, R!rows, R!sched
  <1>2. /\ Failures' = Failures /\ Upcoming' = Upcoming /\ \A k : Reports(k)' = Reports(k)
        /\ Failed' = Count(x7', Failures)
    BY DEF Failed, Failures, Events, Reports, Scanned, Upcoming
  <1>3. CASE x7' = x7
    <2>1. Failed' = Failed
      BY <1>2, <1>3 DEF Failed
    <2>2. x17 <= 1 => \A k \in R!Commitments : x14[k] + Failed <= 1 + x16
      BY DEF Budget
    <2>3. x17 <= 1 => \A k \in R!Commitments : /\ x14[k] + Failed <= 1 + x16 + 1
                                               /\ x14[k] + Failed # 1 + x16 + 1
      BY <1>0, <2>2
    <2> QED  BY <1>0, <1>1, <2>1, <2>3 DEF Budget, Spent
  <1>4. CASE R!Answer("mark_failed", {}, {}, x2)
    <2> DEFINE a == [ev |-> "mark_failed", due |-> {}, became |-> {}, version |-> x2]
    <2>1. a \in Failures
      BY DEF Failures, Events, RemindersTyped, Rows
    <2>2. x7' = Append(x7, a)
      BY <1>4 DEF R!Answer
    <2> HIDE DEF a
    <2>3. a \in Events /\ \A k : a \notin Reports(k)
      BY <2>1 DEF Failures, Reports, Scanned
    <2>4. Failed' = Failed + 1 /\ a \in Elements(x7')
      BY <1>0, <1>2, <2>1, <2>2, <2>3, CountAppend, Appending DEF Failed
    <2>5. ASSUME x17 <= 1, NEW k \in R!Commitments
          PROVE  /\ x14[k] + Failed' <= 1 + x16'
                 /\ x14[k] + Failed' = 1 + x16' => Settled(k)' \/ (x17 = 1 /\ k \in x10)
      <3>1. x14[k] + Failed <= 1 + x16
        BY <2>5 DEF Budget
      <3>2. ASSUME x14[k] + Failed' = 1 + x16'
            PROVE  Settled(k)' \/ (x17 = 1 /\ k \in x10)
        <4>1. Spent(k)
          BY <1>0, <1>1, <2>4, <3>2 DEF Spent
        <4>2. Settled(k) => Before(x7, Failures, Reports(k))
          BY DEF Settled
        <4>3. Settled(k) => Before(x7', Failures, Reports(k))
          BY <1>0, <2>2, <2>3, <4>2, BeforeAppend
        <4>4. Settled(k) => Settled(k)'
          BY <1>2, <2>1, <2>4, <4>3 DEF Settled
        <4> QED  BY <2>5, <4>1, <4>4, SpentIs
      <3> QED  BY <1>0, <1>1, <2>4, <3>1, <3>2
    <2>6. Failed' <= x16'
      BY <1>0, <1>1, <2>4
    <2> QED  BY <1>1, <2>5, <2>6 DEF Budget, Spent
  <1> QED  BY <1>3, <1>4 DEF R!ForegroundFails

LEMMA BudgetCrash ==
  ASSUME RemindersTyped, Budget, R!Crash
  PROVE  Budget'
  <1>0. /\ x16 \in Nat /\ Failed \in Nat /\ Failed <= x16
        /\ \A k \in R!Commitments : x14[k] \in Nat
    BY CountIs DEF RemindersTyped, Lanes, Rest, Failed, Rows, Budget
  <1>1. x16' = x16 + 1 /\ UNCHANGED <<x14, x17>> /\ Failed' = 0
    BY CountEmpty DEF R!Crash, Failed
  <1>2. x17 <= 1 => \A k \in R!Commitments : x14[k] + Failed <= 1 + x16
    BY DEF Budget
  <1>3. x17 <= 1 => \A k \in R!Commitments : /\ x14[k] + 0 <= 1 + x16'
                                             /\ x14[k] + 0 # 1 + x16'
    BY <1>0, <1>1, <1>2
  <1> QED  BY <1>0, <1>1, <1>3 DEF Budget, Spent
----------------------------------------
(* An answer arrives. *)

LEMMA WakeGrows ==
  ASSUME RemindersTyped, R!Wake(x9, x5)
  PROVE  /\ Grows /\ R!Scan \in Scans
         /\ x5' = x5 \/ (x8 /\ ~x9 /\ x5' = Append(x5, R!Scan))
         /\ x9' = (x9 \/ x8)
  <1>1. R!Scan \in Scans /\ R!Scan \in Orders
    BY DEF R!Scan, Scans, Orders, RemindersTyped, Rest
  <1>2. x5' = x5 \/ (x8 /\ ~x9 /\ x5' = Append(x5, R!Scan))
    BY DEF R!Wake
  <1> QED  BY <1>1, <1>2 DEF R!Wake, Grows

\* The commitments delivered, and those whose delivery counts for their version.
Delivers(e, D) ==
  /\ D = R!Deliverable(e) /\ D # {} /\ x8
  /\ x5' = Append(x5, R!Mark(D)) /\ R!Mark(D) \in Marks /\ R!Mark(D).cs = D
  /\ x10' = (x10 \ e.became) \cup D
  /\ \A k \in R!Commitments : x14'[k] = IF k \in D /\ x2[k] = e.version[k]
                                        THEN x14[k] + 1 ELSE x14[k]
  /\ x14' \in [R!Commitments -> Nat] /\ x9' = FALSE /\ UNCHANGED x16
Ignores(e) ==
  /\ x10' = x10 \ e.became /\ UNCHANGED <<x5, x14>> /\ x9' = FALSE
  /\ UNCHANGED x16 \/ x16' = x16 + 1
Hears(e) ==
  /\ x10' = x10 \ e.due /\ UNCHANGED <<x14, x16>>
  /\ UNCHANGED <<x5, x9>> \/ R!Wake(x9, x5)

LEMMA HandleIs ==
  ASSUME RemindersTyped, R!Handle
  PROVE  LET e == Head(x7)
         IN  /\ x7 # <<>> /\ e \in Events /\ x7' = Tail(x7) /\ Tail(x7) \in Seq(Events)
             /\ Elements(x7) = {e} \cup Elements(Tail(x7))
             /\ UNCHANGED <<x1, x2, x17, x8>> /\ Grows
             /\ \/ e \in Scanned /\ (Ignores(e) \/ \E D \in SUBSET R!Commitments : Delivers(e, D))
                \/ e.ev = "changed" /\ e \notin Scanned /\ Hears(e)
                \/ /\ e \in Failures /\ x10' = {} /\ UNCHANGED <<x14, x16>>
                   /\ R!Wake(x9, x5)
  <1> DEFINE e == Head(x7)
  <1>0. x7 \in Seq(Events) /\ x7 # <<>>
    BY DEF RemindersTyped, Lanes, R!Handle
  <1>1. /\ e \in Events /\ x7' = Tail(x7) /\ Tail(x7) \in Seq(Events)
        /\ Elements(x7) = {e} \cup Elements(Tail(x7))
        /\ UNCHANGED <<x1, x2, x17, x8>>
    BY <1>0, Taking DEF R!Handle, R!rows
  <1>2. R!OnScanned(e) \/ R!OnChanged(e) \/ R!OnMarkFailed(e)
    BY DEF R!Handle
  <1> HIDE DEF e
  <1>3. CASE R!OnScanned(e)
    <2> DEFINE D == R!Deliverable(e)
    <2>1. e \in Scanned /\ D \in SUBSET R!Commitments
      BY <1>1, <1>3 DEF R!OnScanned, Scanned, R!Deliverable, Events
    <2>2. \/ /\ x8 /\ R!CanShow(D) /\ x5' = Append(x5, R!Mark(D))
             /\ x10' = (x10 \ e.became) \cup D
             /\ x14' = [c \in R!Commitments |-> IF c \in D /\ x2[c] = e.version[c]
                                                THEN x14[c] + 1 ELSE x14[c]]
             /\ UNCHANGED x16
          \/ x10' = x10 \ e.became /\ UNCHANGED <<x5, x14>>
             /\ (UNCHANGED x16 \/ x16' = x16 + 1)
      BY <1>3 DEF R!OnScanned
    <2>3. x9' = FALSE
      BY <1>3 DEF R!OnScanned
    <2>4. D = R!Deliverable(e)
      OBVIOUS
    <2> HIDE DEF D
    <2>5. CASE /\ x8 /\ R!CanShow(D) /\ x5' = Append(x5, R!Mark(D))
               /\ x10' = (x10 \ e.became) \cup D
               /\ x14' = [c \in R!Commitments |-> IF c \in D /\ x2[c] = e.version[c]
                                                  THEN x14[c] + 1 ELSE x14[c]]
               /\ UNCHANGED x16
      <3>1. R!Mark(D) \in Marks /\ R!Mark(D).cs = D
        BY <2>1 DEF R!Mark, Marks, Orders, RemindersTyped, Rest
      <3>2. R!Mark(D) \in Orders
        BY <3>1 DEF Marks
      <3>3. /\ x14' \in [R!Commitments -> Nat]
            /\ \A k \in R!Commitments : x14'[k] = IF k \in D /\ x2[k] = e.version[k]
                                                  THEN x14[k] + 1 ELSE x14[k]
        BY <2>5 DEF RemindersTyped, Rows
      <3>4. Delivers(e, D) /\ Grows
        BY <2>3, <2>4, <2>5, <3>1, <3>2, <3>3 DEF Delivers, Grows, R!CanShow
      <3> QED  BY <1>0, <1>1, <2>1, <3>4 DEF e
    <2>6. CASE x10' = x10 \ e.became /\ UNCHANGED <<x5, x14>>
               /\ (UNCHANGED x16 \/ x16' = x16 + 1)
      <3>1. Ignores(e) /\ Grows
        BY <2>3, <2>6 DEF Ignores, Grows
      <3> QED  BY <1>0, <1>1, <2>1, <3>1 DEF e
    <2> QED  BY <2>2, <2>5, <2>6
  <1>4. CASE R!OnChanged(e)
    <2>1. e.ev = "changed" /\ e \notin Scanned
      BY <1>4 DEF R!OnChanged, Scanned
    <2>2. Hears(e)
      BY <1>4 DEF R!OnChanged, Hears
    <2>3. Grows
      BY <2>2, WakeGrows DEF Hears, Grows
    <2> QED  BY <1>0, <1>1, <2>1, <2>2, <2>3 DEF e
  <1>5. CASE R!OnMarkFailed(e)
    <2>1. e \in Failures
      BY <1>1, <1>5 DEF R!OnMarkFailed, Failures
    <2>2. x10' = {} /\ UNCHANGED <<x14, x16>> /\ R!Wake(x9, x5)
      BY <1>5 DEF R!OnMarkFailed, R!InFlightAfterFailure
    <2>3. Grows
      BY <2>2, WakeGrows
    <2> QED  BY <1>0, <1>1, <2>1, <2>2, <2>3 DEF e
  <1> QED  BY <1>2, <1>3, <1>4, <1>5

LEMMA BudgetHandles ==
  ASSUME RemindersTyped, Tidy, Budget, x17 = 0 => Lone, R!Handle
  PROVE  Budget'
  <1> DEFINE e == Head(x7)
  <1>0. /\ x7 \in Seq(Events) /\ x5 \in Seq(Orders) /\ x16 \in Nat /\ Failed \in Nat
        /\ Failed <= x16 /\ x17 \in Nat
        /\ \A k \in R!Commitments : x14[k] \in Nat
    BY CountIs DEF RemindersTyped, Lanes, Rest, Failed, Rows, Budget
  <1>1. /\ x7 # <<>> /\ e \in Events /\ x7' = Tail(x7) /\ Tail(x7) \in Seq(Events)
        /\ Elements(x7) = {e} \cup Elements(Tail(x7))
        /\ UNCHANGED <<x1, x2, x17>> /\ Grows
        /\ \/ e \in Scanned /\ (Ignores(e) \/ \E D \in SUBSET R!Commitments : Delivers(e, D))
           \/ e.ev = "changed" /\ e \notin Scanned /\ Hears(e)
           \/ e \in Failures /\ UNCHANGED <<x14, x16>>
    BY HandleIs
  <1>2. /\ Failures' = Failures /\ Upcoming' = Upcoming /\ \A k : Reports(k)' = Reports(k)
        /\ Failed' = Count(Tail(x7), Failures)
    BY <1>1 DEF Failed, Failures, Events, Reports, Scanned, Upcoming
  <1>3. Failed = (IF e \in Failures THEN Failed' + 1 ELSE Failed') /\ Failed' \in Nat
    BY <1>0, <1>1, <1>2, CountTail, CountIs DEF Failed
  <1>4. ASSUME NEW k \in R!Commitments, Settled(k), e \notin Failures
        PROVE  Settled(k)'
    <2>1. Before(Tail(x7), Failures, Reports(k))
      BY <1>0, <1>1, <1>4, BeforeTail DEF Settled
    <2>2. Elements(Tail(x7)) \cap Failures # {} \/ x1[k] \notin Upcoming \/ Covered(k)'
      BY <1>1, <1>4, CoveredGrows DEF Settled
    <2> QED  BY <1>1, <1>2, <2>1, <2>2 DEF Settled
  <1>5. x17 <= 1 => \A k \in R!Commitments : x14[k] + Failed <= 1 + x16
    BY DEF Budget
  <1>6. ASSUME NEW k \in R!Commitments, x14[k] > 0
        PROVE  e \in Current(k) /\ k \notin e.became
    BY <1>1, <1>6 DEF Tidy, Delivered
  <1>7. ASSUME e \in Failures, UNCHANGED <<x14, x16>>
        PROVE  Budget'
    <2>0. Failed = Failed' + 1 /\ Failed' \in Nat /\ x16' = x16
      BY <1>3, <1>7
    <2>1. Failed' <= x16'
      <3>1. \A m, n, p \in Nat : m = n + 1 /\ m <= p => n <= p
        OBVIOUS
      <3>2. Failed' <= x16
        BY <1>0, <2>0, <3>1
      <3> QED  BY <2>0, <3>2
    <2>2. x17 <= 1 => \A k \in R!Commitments : /\ x14[k] + Failed' <= 1 + x16
                                               /\ x14[k] + Failed' # 1 + x16
      BY <1>0, <1>3, <1>5, <1>7
    <2> QED  BY <1>1, <1>7, <2>1, <2>2 DEF Budget, Spent
  <1>8. ASSUME e.ev = "changed", Hears(e)
        PROVE  Budget'
    <2>0. e \notin Failures /\ Failed' = Failed /\ UNCHANGED <<x14, x16>>
          /\ x10' = x10 \ e.due
      BY <1>3, <1>8 DEF Failures, Hears
    <2>1. ASSUME x17 <= 1, NEW k \in R!Commitments, Spent(k)
          PROVE  Settled(k)' \/ (x17 = 1 /\ k \in x10')
      <3>1. x14[k] > 0 /\ (Settled(k) \/ (x17 = 1 /\ k \in x10))
        BY <2>1, SpentIs
      <3>2. ASSUME k \in e.due
            PROVE  Settled(k)'
        <4>1. e \in Current(k) \cap Notes(k) /\ e \in Elements(x7)
          BY <1>1, <1>6, <1>8, <3>1, <3>2 DEF Notes
        <4>2. x1[k] \notin Upcoming
          BY <4>1 DEF Tidy, Past
        <4>3. Follows(x7, Current(k) \cap Notes(k), Events \ Reports(k))
          BY DEF Tidy, Following
        <4>4. Elements(Tail(x7)) \subseteq Events \ Reports(k)
          BY <1>0, <1>1, <4>1, <4>3, FollowsTail
        <4>5. Before(Tail(x7), Failures, Reports(k))
          BY <1>1, <4>4, BeforeNone
        <4> QED  BY <1>1, <1>2, <4>2, <4>5 DEF Settled
      <3> QED  BY <1>4, <2>0, <3>1, <3>2
    <2> QED  BY <1>0, <1>1, <1>5, <2>0, <2>1 DEF Budget, Spent
  <1>9. ASSUME e \in Scanned, Ignores(e)
        PROVE  Budget'
    <2>0. e \notin Failures /\ Failed' = Failed /\ UNCHANGED x14 /\ x10' = x10 \ e.became
      BY <1>3, <1>9, Counting DEF Ignores
    <2>1. ASSUME x17 <= 1, NEW k \in R!Commitments, Spent(k)
          PROVE  Settled(k)' \/ (x17 = 1 /\ k \in x10')
      <3>1. x14[k] > 0 /\ (Settled(k) \/ (x17 = 1 /\ k \in x10))
        BY <2>1, SpentIs
      <3> QED  BY <1>4, <1>6, <2>0, <3>1
    <2>2. CASE UNCHANGED x16
      BY <1>0, <1>1, <1>5, <2>0, <2>1, <2>2 DEF Budget, Spent
    <2>3. CASE x16' = x16 + 1
      <3>1. x17 <= 1 => \A k \in R!Commitments : /\ x14[k] + Failed <= 1 + x16'
                                                 /\ x14[k] + Failed # 1 + x16'
        BY <1>0, <1>5, <2>3
      <3>2. Failed <= x16'
        BY <1>0, <2>3
      <3> QED  BY <1>1, <2>0, <3>1, <3>2 DEF Budget, Spent
    <2> QED  BY <1>9, <2>2, <2>3 DEF Ignores
  <1>10. ASSUME e \in Scanned, NEW D \in SUBSET R!Commitments, Delivers(e, D)
         PROVE  Budget'
    <2>0. /\ e \notin Failures /\ Failed' = Failed /\ x10' = (x10 \ e.became) \cup D
          /\ UNCHANGED x16 /\ D \subseteq e.due /\ D \cap x10 = {}
      BY <1>3, <1>10, Counting DEF Delivers, R!Deliverable
    <2>1. ASSUME x17 <= 1, NEW k \in R!Commitments
          PROVE  /\ x14'[k] + Failed <= 1 + x16
                 /\ x14'[k] + Failed = 1 + x16 => Settled(k)' \/ (x17 = 1 /\ k \in x10')
      <3>1. CASE x14'[k] = x14[k]
        <4>1. ASSUME Spent(k)
              PROVE  Settled(k)' \/ (x17 = 1 /\ k \in x10')
          <5>1. x14[k] > 0 /\ (Settled(k) \/ (x17 = 1 /\ k \in x10))
            BY <2>1, <4>1, SpentIs
          <5> QED  BY <1>4, <1>6, <2>0, <5>1
        <4> QED  BY <1>5, <2>1, <3>1, <4>1 DEF Spent
      <3>2. CASE x14'[k] = x14[k] + 1 /\ k \in D
        <4>1. e \in Reports(k) /\ k \notin x10
          BY <1>10, <2>0, <3>2 DEF Reports
        <4>2. ~Settled(k)
          BY <1>0, <1>1, <4>1, BeforeHead DEF Settled
        <4>3. ~Spent(k)
          BY <2>1, <4>1, <4>2, SpentIs
        <4>4. x14'[k] + Failed <= 1 + x16
          BY <1>0, <1>5, <2>1, <3>2, <4>3 DEF Spent
        <4>5. ASSUME x17 = 0
              PROVE  Settled(k)'
          <5>1. Single(x7, Scanned) /\ Elements(x5) \cap Scans = {}
            BY <1>1, <1>10, <4>5 DEF Lone
          <5>2. Elements(Tail(x7)) \cap Scanned = {}
            BY <1>0, <1>1, <1>10, <5>1, SingleTail
          <5>3. Elements(Tail(x7)) \cap Reports(k) = {}
            BY <5>2 DEF Reports
          <5>4. Before(Tail(x7), Failures, Reports(k))
            BY <1>1, <5>3, BeforeNone
          <5>5. /\ x5' = Append(x5, R!Mark(D)) /\ R!Mark(D) \in Marks /\ R!Mark(D).cs = D
            BY <1>10 DEF Delivers
          <5>6. R!Mark(D) \in Orders /\ R!Mark(D) \notin Scans /\ R!Mark(D) \in MarksOf(k)
            BY <3>2, <5>5, Counting DEF Marks, MarksOf
          <5>7. x5' \in Seq(Orders) /\ Elements(x5') = Elements(x5) \cup {R!Mark(D)}
            BY <1>0, <5>5, <5>6, Appending
          <5>8. Elements(x5') \cap Scans = {} /\ Elements(x5') \cap MarksOf(k) # {}
            BY <5>1, <5>6, <5>7
          <5>9. Before(x5', MarksOf(k), Scans)
            BY <5>7, <5>8, BeforeNone
          <5>10. Scans' = Scans /\ MarksOf(k)' = MarksOf(k)
            BY DEF Scans, MarksOf, Marks, Orders
          <5>11. Covered(k)'
            BY <5>8, <5>9, <5>10 DEF Covered
          <5> QED  BY <1>1, <1>2, <5>4, <5>11 DEF Settled
        <4>6. x17 = 0 \/ x17 = 1
          BY <1>0, <2>1
        <4> QED  BY <2>0, <3>2, <4>4, <4>5, <4>6
      <3> QED  BY <1>10, <3>1, <3>2 DEF Delivers
    <2> QED  BY <1>0, <1>1, <2>0, <2>1 DEF Budget, Spent
  <1> QED  BY <1>1, <1>7, <1>8, <1>9, <1>10

\* The answers to come are of the version that is delivered.
LEMMA TidyHandles ==
  ASSUME RemindersTyped, Tidy, R!Handle
  PROVE  Tidy'
  <1> DEFINE e == Head(x7)
  <1>0. x7 \in Seq(Events) /\ \A k \in R!Commitments : x14[k] \in Nat
    BY DEF RemindersTyped, Lanes, Rows
  <1>1. /\ x7 # <<>> /\ e \in Events /\ x7' = Tail(x7)
        /\ Elements(x7) = {e} \cup Elements(Tail(x7))
        /\ UNCHANGED <<x1, x2>>
        /\ UNCHANGED x14 \/ (e \in Scanned /\ \E D \in SUBSET R!Commitments : Delivers(e, D))
    BY HandleIs DEF Ignores, Hears
  <1>2. \A k : Current(k)' = Current(k)
    BY <1>1 DEF Current
  <1>3. Past'
    BY <1>1, <1>2 DEF Tidy, Past, Reports, Notes
  <1>4. \A Z, Y : Follows(x7, Z, Y) =>
          Follows(x7', Z, Y) /\ (e \in Z => Elements(x7') \subseteq Y)
    BY <1>0, <1>1, FollowsTail
  <1>5. Following'
    BY <1>2, <1>4 DEF Tidy, Following, Reports, Notes
  <1>6. ASSUME NEW k \in R!Commitments, x14'[k] > 0
        PROVE  /\ x2[k] > 0 /\ x1[k] # "scheduled"
               /\ \A d \in Elements(x7') : d \in Current(k) /\ k \notin d.became
    <2>1. CASE x14[k] > 0
      BY <1>1, <2>1 DEF Tidy, Delivered
    <2>2. CASE ~(x14[k] > 0)
      <3>1. x14'[k] # x14[k]
        BY <1>6, <2>2
      <3>2. PICK D \in SUBSET R!Commitments : e \in Scanned /\ Delivers(e, D)
        BY <1>1, <3>1
      <3>3. k \in D /\ x2[k] = e.version[k]
        BY <3>1, <3>2 DEF Delivers
      <3>4. k \in e.due
        BY <3>2, <3>3 DEF Delivers, R!Deliverable
      <3>5. e \in Current(k) \cap Reports(k) /\ e \in Elements(x7)
        BY <1>1, <3>2, <3>3, <3>4 DEF Current, Reports
      <3>6. x2[k] > 0 /\ x1[k] # "scheduled"
        BY <3>5 DEF Tidy, Past
      <3>7. /\ Follows(x7, Current(k), Current(k))
            /\ Follows(x7, Current(k) \cap Reports(k), {d \in Events : k \notin d.became})
        BY DEF Tidy, Following
      <3>8. /\ Elements(x7') \subseteq Current(k)
            /\ Elements(x7') \subseteq {d \in Events : k \notin d.became}
        BY <1>4, <3>5, <3>7
      <3> QED  BY <3>6, <3>8
    <2> QED  BY <2>1, <2>2
  <1>7. Delivered'
    BY <1>1, <1>2, <1>6 DEF Delivered
  <1> QED  BY <1>3, <1>5, <1>7 DEF Tidy
----------------------------------------
(* Without a stop. *)

Surfaced == \A k \in R!Commitments : x1[k] = "surfaced" => x14[k] > 0
Straight == Lone /\ Marking /\ Surfaced

Fewer == x7' = x7 \/ (x7 # <<>> /\ x7' = Tail(x7))

LEMMA FewerIs ==
  ASSUME RemindersTyped, Fewer
  PROVE  /\ Elements(x7') \subseteq Elements(x7)
         /\ Single(x7, Scanned) => Single(x7', Scanned)
  <1>1. x7 \in Seq(Events)
    BY DEF RemindersTyped, Lanes
  <1>2. CASE x7 # <<>> /\ x7' = Tail(x7)
    <2>1. Elements(x7) = {Head(x7)} \cup Elements(Tail(x7))
      BY <1>1, <1>2, Taking
    <2>2. Single(x7, Scanned) => Single(Tail(x7), Scanned)
      BY <1>1, <1>2, SingleTail
    <2> QED  BY <1>2, <2>1, <2>2
  <1> QED  BY <1>2 DEF Fewer

\* The kinds do not change.
LEMMA SameKinds ==
  Scans' = Scans /\ Marks' = Marks /\ Scanned' = Scanned
  BY DEF Scans, Marks, Scanned, Orders, Events

\* An operation is asked for, or the scheduler wakes.
LEMMA StraightGrows ==
  ASSUME RemindersTyped, Straight, Fewer, UNCHANGED <<x1, x2, x14>>,
         \/ x5' = x5 /\ UNCHANGED x8 /\ (x9 => x9')
         \/ /\ UNCHANGED <<x8, x9>>
            /\ \E o \in Orders : o \notin Scans /\ o \notin Marks /\ x5' = Append(x5, o)
         \/ /\ NoScan /\ x8' /\ x9'
            /\ \E o \in Orders : o \in Scans /\ x5' = Append(x5, o)
  PROVE  Straight'
  <1> DEFINE Q == Scans \cup Marks
  <1>0. /\ x5 \in Seq(Orders) /\ Elements(x7') \subseteq Elements(x7)
        /\ Single(x7', Scanned) /\ Lone /\ Marking
        /\ Paired(x5, Q, Marks, Q) /\ Elements(x5) \subseteq Orders
    BY FewerIs, NotEmpty DEF Straight, Lone, RemindersTyped, Lanes
  <1> HIDE DEF Q
  <1>1. CASE x5' = x5 /\ UNCHANGED x8 /\ (x9 => x9')
    <2>1. Lone'
      BY <1>0, <1>1, SameKinds DEF Lone, NoScan, Q
    <2>2. Marking'
      BY <1>0, <1>1, SameKinds DEF Marking
    <2> QED  BY <2>1, <2>2 DEF Straight, Surfaced
  <1>2. ASSUME NEW o \in Orders, o \notin Scans, o \notin Marks, x5' = Append(x5, o),
               UNCHANGED <<x8, x9>>
        PROVE  Straight'
    <2>1. Elements(x5') = Elements(x5) \cup {o}
      BY <1>0, <1>2, Appending
    <2>2. Paired(x5', Q, Marks, Q)
      <3>1. o \notin Q
        BY <1>2 DEF Q
      <3> QED  BY <1>0, <1>2, <3>1, PairedAppend
    <2>3. Lone'
      BY <1>0, <1>2, <2>1, <2>2, SameKinds DEF Lone, NoScan, Q
    <2>4. Marking'
      BY <1>0, <1>2, <2>1, SameKinds DEF Marking
    <2> QED  BY <2>3, <2>4 DEF Straight, Surfaced
  <1>3. ASSUME NEW o \in Orders, o \in Scans, x5' = Append(x5, o),
               NoScan, x8', x9'
        PROVE  Straight'
    <2>1. Elements(x5') = Elements(x5) \cup {o}
      BY <1>0, <1>3, Appending
    <2>2. Paired(x5', Q, Marks, Q)
      <3>1. o \in Q /\ \A d \in Elements(x5) : d \in Q => d \in Marks
        BY <1>3 DEF Q, NoScan
      <3> QED  BY <1>0, <1>3, <3>1, PairedAppend
    <2>3. Elements(x7') \cap Scanned = {}
      BY <1>0, <1>3 DEF NoScan
    <2>4. Lone'
      BY <1>0, <1>3, <2>1, <2>2, <2>3, SameKinds DEF Lone, NoScan, Q
    <2>5. Marking'
      BY <1>0, <1>3, <2>1, <2>3, Counting, SameKinds DEF Marking
    <2> QED  BY <2>4, <2>5 DEF Straight, Surfaced
  <1> QED  BY <1>1, <1>2, <1>3

\* The scheduler wakes: a scan is asked for when none is pending.
LEMMA StraightWakes ==
  ASSUME RemindersTyped, Straight, Fewer, UNCHANGED <<x1, x2, x14, x8>>,
         R!Wake(x9, x5)
  PROVE  Straight'
  <1>1. /\ R!Scan \in Scans /\ R!Scan \in Orders
        /\ x5' = x5 \/ (x8 /\ ~x9 /\ x5' = Append(x5, R!Scan))
        /\ x9' = (x9 \/ x8)
    BY WakeGrows DEF Scans
  <1>2. ~NoScan => x9
    BY DEF Straight, Lone
  <1>3. CASE x5' = x5
    BY <1>1, <1>3, StraightGrows
  <1>4. CASE x8 /\ ~x9 /\ x5' = Append(x5, R!Scan)
    <2>1. NoScan /\ x8' /\ x9'
      BY <1>1, <1>2, <1>4
    <2> QED  BY <1>1, <1>4, <2>1, StraightGrows
  <1> QED  BY <1>1, <1>3, <1>4

\* An answer arrives.  Who is delivered is marked, and no scan is left.
LEMMA StraightHandles ==
  ASSUME RemindersTyped, Straight, R!Handle
  PROVE  Straight'
  <1> DEFINE e == Head(x7)
  <1>1. /\ e \in Events /\ x7 # <<>> /\ x7' = Tail(x7)
        /\ Elements(x7) = {e} \cup Elements(Tail(x7))
        /\ UNCHANGED <<x1, x2, x8>> /\ Fewer
        /\ \/ e \in Scanned /\ (Ignores(e) \/ \E D \in SUBSET R!Commitments : Delivers(e, D))
           \/ Hears(e)
           \/ UNCHANGED x14 /\ R!Wake(x9, x5)
    BY HandleIs DEF Fewer
  <1>0. x7 \in Seq(Events) /\ x5 \in Seq(Orders)
    BY DEF RemindersTyped, Lanes
  <1> HIDE DEF e
  <1>2. ASSUME Hears(e)
        PROVE  Straight'
    <2>1. CASE UNCHANGED <<x5, x9>>
      BY <1>1, <1>2, <2>1, StraightGrows DEF Hears
    <2>2. CASE R!Wake(x9, x5)
      BY <1>1, <1>2, <2>2, StraightWakes DEF Hears
    <2> QED  BY <1>2, <2>1, <2>2 DEF Hears
  <1>3. ASSUME UNCHANGED x14, R!Wake(x9, x5)
        PROVE  Straight'
    BY <1>1, <1>3, StraightWakes
  <1>4. ASSUME e \in Scanned
        PROVE  /\ Elements(x7') \cap Scanned = {} /\ Elements(x5) \cap Scans = {}
               /\ Single(x7', Scanned)
    <2>1. Single(x7, Scanned) /\ e \in Elements(x7) \cap Scanned
      BY <1>1, <1>4 DEF Straight, Lone
    <2>2. Single(x7', Scanned) /\ Elements(x7') \cap Scanned = {}
      BY <1>0, <1>1, <1>4, <2>1, SingleTail DEF e
    <2> QED  BY <2>1, <2>2 DEF Straight, Lone
  <1> DEFINE Q == Scans \cup Marks
  <1>5. Paired(x5, Q, Marks, Q)
    BY DEF Straight, Lone
  <1> HIDE DEF Q
  <1>6. ASSUME e \in Scanned, Ignores(e)
        PROVE  Straight'
    <2>1. Lone'
      BY <1>4, <1>5, <1>6, SameKinds DEF Lone, NoScan, Q, Ignores
    <2>2. Marking'
      BY <1>1, <1>4, <1>6, SameKinds DEF Straight, Marking, Ignores
    <2> QED  BY <1>1, <1>6, <2>1, <2>2 DEF Straight, Surfaced, Ignores
  <1>7. ASSUME e \in Scanned, NEW D \in SUBSET R!Commitments, Delivers(e, D)
        PROVE  Straight'
    <2> DEFINE o == R!Mark(D)
    <2>1. /\ o \in Orders /\ o \in Marks /\ o \notin Scans /\ o.cs = D /\ o \in Q
          /\ x5' = Append(x5, o)
      BY <1>7, Counting DEF Delivers, Marks, Q
    <2> HIDE DEF o
    <2>2. Elements(x5') = Elements(x5) \cup {o}
      BY <1>0, <2>1, Appending
    <2>3. Elements(x5') \cap Scans = {}
      BY <1>4, <1>7, <2>1, <2>2
    <2>4. Paired(x5', Q, Marks, Q)
      <3>1. \A d \in Elements(x5) : d \in Q => d \in Marks
        BY <1>4, <1>7 DEF Q
      <3> QED  BY <1>0, <1>5, <2>1, <3>1, PairedAppend
    <2>5. Lone'
      BY <1>4, <1>7, <2>3, <2>4, SameKinds DEF Lone, NoScan, Q
    <2>6. \A k \in R!Commitments : x14[k] > 0 => x14'[k] > 0
      <3>1. \A k \in R!Commitments : x14[k] \in Nat /\ (x14'[k] = x14[k] \/ x14'[k] = x14[k] + 1)
        BY <1>7 DEF Delivers, RemindersTyped, Rows
      <3> QED  BY <3>1
    <2>7. \A k \in D : x1[k] = "due" => x14'[k] > 0
      <3>1. ASSUME NEW k \in D, x1[k] = "due"
            PROVE  x14'[k] > 0
        <4>1. k \in e.due /\ k \in R!Commitments
          BY <1>7, <3>1 DEF Delivers, R!Deliverable
        <4>2. e.version[k] = x2[k]
          BY <1>1, <1>7, <3>1, <4>1 DEF Straight, Marking
        <4>3. x14'[k] = x14[k] + 1 /\ x14[k] \in Nat
          BY <1>7, <3>1, <4>1, <4>2 DEF Delivers, RemindersTyped, Rows
        <4> QED  BY <4>3
      <3> QED  BY <3>1
    <2>8. Marking'
      <3>1. \A d \in Elements(x5) : d \in Marks =>
              \A k \in d.cs : k \in R!Commitments /\ (x1[k] = "due" => x14[k] > 0)
        BY DEF Straight, Marking, Marks, Orders
      <3>2. \A d \in Elements(x5') : d \in Marks =>
              \A k \in d.cs : x1[k] = "due" => x14'[k] > 0
        BY <2>1, <2>2, <2>6, <2>7, <3>1
      <3> QED  BY <1>1, <1>4, <1>7, <3>2, SameKinds DEF Marking
    <2>9. Surfaced'
      BY <1>1, <2>6 DEF Straight, Surfaced
    <2> QED  BY <2>5, <2>8, <2>9 DEF Straight
  <1> QED  BY <1>1, <1>2, <1>3, <1>6, <1>7

\* An operation runs that is no scan: the reports to come are as true as they were.
LEMMA ReportsStay ==
  ASSUME RemindersTyped, Straight, Settles, Silent \/ \E e : Quiet(e)
  PROVE  /\ Single(x7', Scanned) /\ Elements(x7') \cap Scanned = Elements(x7) \cap Scanned
         /\ \A e \in Elements(x7') : e \in Scanned =>
              \A k \in e.due : x1'[k] = "due" => e.version[k] = x2'[k]
  <1>0. x7 \in Seq(Events) /\ Single(x7, Scanned)
    BY DEF RemindersTyped, Lanes, Straight, Lone
  <1>1. /\ Single(x7', Scanned) /\ Elements(x7') \cap Scanned = Elements(x7) \cap Scanned
    <2>1. ASSUME NEW e, Quiet(e)
          PROVE  Single(x7', Scanned) /\ Elements(x7') \cap Scanned = Elements(x7) \cap Scanned
      <3>1. e \in Events /\ e \notin Scanned /\ x7' = Append(x7, e)
        BY <2>1 DEF Quiet, Tells
      <3>2. Elements(x7') = Elements(x7) \cup {e}
        BY <1>0, <3>1, Appending
      <3>3. Single(x7', Scanned)
        BY <1>0, <3>1, SingleAppend
      <3> QED  BY <3>1, <3>2, <3>3
    <2>2. CASE x7' = x7
      BY <1>0, <2>2
    <2> QED  BY <2>1, <2>2 DEF Silent
  <1>2. ASSUME NEW e \in Elements(x7'), e \in Scanned, NEW k \in e.due, x1'[k] = "due"
        PROVE  e.version[k] = x2'[k]
    <2>1. e \in Elements(x7) /\ k \in R!Commitments
      BY <1>1, <1>2 DEF Scanned, Events
    <2>2. x1[k] = "due" /\ x2'[k] = x2[k]
      BY <1>2, <2>1 DEF Settles, Keeps
    <2> QED  BY <1>2, <2>1, <2>2 DEF Straight, Marking
  <1> QED  BY <1>1, <1>2

LEMMA StraightRuns ==
  ASSUME RemindersTyped, Delivered, Straight, R!RunForeground
  PROVE  Straight'
  <1> DEFINE o == Head(x5)
  <1> DEFINE Q == Scans \cup Marks
  <1>0. /\ x5 \in Seq(Orders) /\ x7 \in Seq(Events) /\ UNCHANGED <<x8, x9, x14>>
        /\ Paired(x5, Q, Marks, Q) /\ Single(x7, Scanned)
    BY DEF RemindersTyped, Lanes, R!RunForeground, R!sched, Straight, Lone
  <1>1. /\ o \in Orders /\ x5 # <<>> /\ x5' = Tail(x5) /\ Moves
        /\ \/ o \in Scans /\ UNCHANGED <<x2, x14>> /\ \E e : Finds(e)
           \/ /\ o \in Marks /\ Settles /\ Silent
              /\ \A k \in R!Commitments : x1'[k] = "surfaced" =>
                   x1[k] = "surfaced" \/ (k \in o.cs /\ x1[k] = "due")
           \/ o \notin Marks /\ o \notin Scans /\ Settles /\ Stays /\ Silent
    BY RunsIs
  <1>2. /\ Elements(x5) = {o} \cup Elements(Tail(x5))
        /\ Paired(Tail(x5), Q, Marks, Q)
        /\ o \in Q => \A d \in Elements(Tail(x5)) : d \in Q => o \in Marks /\ d \in Q
    BY <1>0, <1>1, Taking, PairedTail
  <1> HIDE DEF o, Q
  <1>3. ASSUME o \in Scans, UNCHANGED <<x2, x14>>, NEW e, Finds(e)
        PROVE  Straight'
    <2>1. Elements(x7) \cap Scanned = {} /\ x9 /\ x8
      BY <1>2, <1>3 DEF Straight, Lone, NoScan
    <2>2. \A d \in Elements(Tail(x5)) : d \notin Scans /\ d \notin Marks
      BY <1>2, <1>3, Counting DEF Q
    <2>3. e \in Events /\ e \in Scanned /\ x7' = Append(x7, e) /\ e.version = x2
      BY <1>3 DEF Finds, Tells
    <2>4. Elements(x7') = Elements(x7) \cup {e}
      BY <1>0, <2>3, Appending
    <2>5. Single(x7', Scanned)
      <3>1. \A d \in Elements(x7) : d \notin Scanned
        BY <2>1
      <3> QED  BY <1>0, <2>3, <3>1, SingleAppend
    <2>6. Lone'
      BY <1>0, <1>1, <1>2, <2>1, <2>2, <2>5, SameKinds DEF Lone, NoScan, Q
    <2>7. Marking'
      <3>1. \A d \in Elements(x7') : d \in Scanned => d.version = x2
        BY <2>1, <2>3, <2>4
      <3> QED  BY <1>1, <1>3, <2>2, <3>1, SameKinds DEF Marking
    <2>8. Surfaced'
      BY <1>3 DEF Straight, Surfaced, Finds
    <2> QED  BY <2>6, <2>7, <2>8 DEF Straight
  <1>4. ASSUME Settles, Silent,
               \A k \in R!Commitments : x1'[k] = "surfaced" =>
                 x1[k] = "surfaced" \/ (o \in Marks /\ k \in o.cs /\ x1[k] = "due")
        PROVE  Straight'
    <2>1. /\ Single(x7', Scanned) /\ Elements(x7') \cap Scanned = Elements(x7) \cap Scanned
          /\ \A e \in Elements(x7') : e \in Scanned =>
               \A k \in e.due : x1'[k] = "due" => e.version[k] = x2'[k]
      BY <1>4, ReportsStay
    <2>2. Elements(x5') \subseteq Elements(x5)
      BY <1>1, <1>2
    <2>3. Paired(x5', Q, Marks, Q)
      BY <1>1, <1>2
    <2>4. Lone'
      BY <1>0, <2>1, <2>2, <2>3, SameKinds DEF Straight, Lone, NoScan, Q
    <2>5. Marking'
      <3>1. ASSUME NEW d \in Elements(x5'), d \in Marks, NEW k \in d.cs, x1'[k] = "due"
            PROVE  x14'[k] > 0
        <4>1. d \in Elements(x5) /\ k \in R!Commitments
          BY <2>2, <3>1 DEF Marks, Orders
        <4>2. x1[k] = "due"
          BY <1>4, <3>1, <4>1 DEF Settles
        <4> QED  BY <1>0, <3>1, <4>1, <4>2 DEF Straight, Marking
      <3> QED  BY <2>1, <3>1, SameKinds DEF Marking
    <2>6. Surfaced'
      <3>1. ASSUME NEW k \in R!Commitments, x1'[k] = "surfaced"
            PROVE  x14[k] > 0
        <4>1. CASE x1[k] = "surfaced"
          BY <4>1 DEF Straight, Surfaced
        <4>2. CASE o \in Marks /\ k \in o.cs /\ x1[k] = "due"
          BY <1>2, <4>2 DEF Straight, Marking
        <4> QED  BY <1>4, <3>1, <4>1, <4>2
      <3> QED  BY <1>0, <3>1 DEF Surfaced
    <2> QED  BY <2>4, <2>5, <2>6 DEF Straight
  <1> QED  BY <1>1, <1>3, <1>4 DEF Stays

\* The failure of an operation, or the user's operation.
LEMMA StraightFails ==
  ASSUME RemindersTyped, Straight, R!ForegroundFails
  PROVE  Straight'
  <1> DEFINE Q == Scans \cup Marks
  <1>0. /\ x5 \in Seq(Orders) /\ x5 # <<>> /\ x5' = Tail(x5)
        /\ UNCHANGED <<x1, x2, x14, x8, x9>>
        /\ Paired(x5, Q, Marks, Q)
    BY DEF RemindersTyped, Lanes, R!ForegroundFails, R!sched, R!rows, Straight, Lone
  <1>1. /\ Elements(x5') \subseteq Elements(x5)
        /\ Paired(x5', Q, Marks, Q)
    BY <1>0, Taking, PairedTail
  <1> HIDE DEF Q
  <1>2. Settles
    BY <1>0, SameIs
  <1>3. Silent \/ \E e : Quiet(e)
    <2>1. CASE x7' = x7
      BY <2>1 DEF Silent
    <2>2. CASE R!Answer("mark_failed", {}, {}, x2)
      <3> DEFINE a == [ev |-> "mark_failed", due |-> {}, became |-> {}, version |-> x2]
      <3>1. a \in Events /\ a.version = x2 /\ a.ev = "mark_failed" /\ a.became = {} /\ a.due = {}
        BY DEF Events, RemindersTyped, Rows
      <3>2. x7' = Append(x7, a)
        BY <2>2 DEF R!Answer
      <3> HIDE DEF a
      <3>3. a \notin Scanned /\ \A k : a \notin Reports(k) /\ a \notin Notes(k)
        BY <3>1 DEF Scanned, Reports, Notes
      <3> QED  BY <3>1, <3>2, <3>3 DEF Quiet, Tells
    <2> QED  BY <2>1, <2>2 DEF R!ForegroundFails
  <1>4. /\ Single(x7', Scanned) /\ Elements(x7') \cap Scanned = Elements(x7) \cap Scanned
        /\ \A e \in Elements(x7') : e \in Scanned =>
             \A k \in e.due : x1'[k] = "due" => e.version[k] = x2'[k]
    BY <1>2, <1>3, ReportsStay
  <1>5. Lone'
    BY <1>0, <1>1, <1>4, SameKinds DEF Straight, Lone, NoScan, Q
  <1>6. Marking'
    BY <1>0, <1>1, <1>4, SameKinds DEF Straight, Marking
  <1> QED  BY <1>0, <1>5, <1>6 DEF Straight, Surfaced

LEMMA StraightActs ==
  ASSUME RemindersTyped, Delivered, Straight, R!RunInteractive
  PROVE  Straight'
  <1>0. /\ x5 = <<>> /\ x5' = x5 /\ UNCHANGED <<x8, x9>>
        /\ Settles /\ Stays /\ Silent
    BY InteractiveIs DEF R!RunInteractive, R!sched
  <1>1. Elements(x5) = {}
    BY <1>0, EmptyQueue
  <1>2. /\ Single(x7', Scanned) /\ Elements(x7') \cap Scanned = Elements(x7) \cap Scanned
        /\ \A e \in Elements(x7') : e \in Scanned =>
             \A k \in e.due : x1'[k] = "due" => e.version[k] = x2'[k]
    BY <1>0, ReportsStay
  <1>3. Lone'
    BY <1>0, <1>2, SameKinds DEF Straight, Lone, NoScan
  <1>4. Marking'
    BY <1>0, <1>1, <1>2, SameKinds DEF Marking
  <1>5. Surfaced'
    BY <1>0 DEF Straight, Surfaced, Stays, Keeps
  <1> QED  BY <1>3, <1>4, <1>5 DEF Straight

LEMMA StraightCrash ==
  ASSUME Straight, R!Crash
  PROVE  Straight'
  <1>1. /\ x5' = <<>> /\ x7' = <<>> /\ UNCHANGED <<x1, x2, x14>>
    BY DEF R!Crash, R!rows
  <1>2. Elements(x5') = {} /\ Elements(x7') = {}
        /\ \A Q, Z, Y : Paired(x5', Q, Z, Y) /\ Single(x7', Q)
    BY <1>1, EmptyQueue
  <1>3. Lone' /\ Marking'
    BY <1>2 DEF Lone, NoScan, Marking
  <1> QED  BY <1>1, <1>3 DEF Straight, Surfaced
----------------------------------------
(* Types. *)

\* What is asked for joins its queue.
LEMMA TypedAsks ==
  ASSUME RemindersTyped, UNCHANGED <<x1, x2, x14, x7>>, Rest',
         x5' = x5 \/ \E o \in Orders : x5' = Append(x5, o),
         x6' = x6 \/ \E e \in Edits : x6' = Append(x6, e)
  PROVE  RemindersTyped'
  <1>1. Rows'
    BY DEF RemindersTyped, Rows
  <1>2. x5 \in Seq(Orders) /\ x6 \in Seq(Edits) /\ x7' \in Seq(Events)
    BY DEF RemindersTyped, Lanes
  <1>3. ASSUME NEW o \in Orders, x5' = Append(x5, o)
        PROVE  x5' \in Seq(Orders)
    BY <1>2, <1>3, Appending
  <1>4. ASSUME NEW e \in Edits, x6' = Append(x6, e)
        PROVE  x6' \in Seq(Edits)
    BY <1>2, <1>4, Appending
  <1>5. x5' \in Seq(Orders) /\ x6' \in Seq(Edits)
    BY <1>2, <1>3, <1>4
  <1> QED  BY <1>1, <1>2, <1>5 DEF RemindersTyped, Lanes

LEMMA TypedMoves ==
  ASSUME RemindersTyped, Rows', Rest',
         x5' = x5 \/ (x5 # <<>> /\ x5' = Tail(x5)),
         x6' = x6 \/ (x6 # <<>> /\ x6' = Tail(x6)),
         x7' = x7 \/ \E e \in Events : x7' = Append(x7, e)
  PROVE  RemindersTyped'
  <1>1. x5' \in Seq(Orders) /\ x6' \in Seq(Edits)
    BY Taking DEF RemindersTyped, Lanes
  <1>2. x7' \in Seq(Events)
    BY Appending DEF RemindersTyped, Lanes
  <1> QED  BY <1>1, <1>2 DEF RemindersTyped, Lanes

LEMMA TypedHandles ==
  ASSUME RemindersTyped, R!Handle
  PROVE  RemindersTyped'
  <1> DEFINE e == Head(x7)
  <1>1. /\ e \in Events /\ x7' \in Seq(Events) /\ UNCHANGED <<x1, x2, x17>> /\ Grows
        /\ \/ Ignores(e) \/ (\E D \in SUBSET R!Commitments : Delivers(e, D)) \/ Hears(e)
           \/ x10' = {} /\ UNCHANGED <<x14, x16>>
    BY HandleIs
  <1>2. UNCHANGED <<x6, x4>>
    BY DEF R!Handle, R!world
  <1>3. x5' \in Seq(Orders)
    <2>1. x5 \in Seq(Orders)
      BY DEF RemindersTyped, Lanes
    <2>2. ASSUME NEW o \in Orders, x5' = Append(x5, o)
          PROVE  x5' \in Seq(Orders)
      BY <2>1, <2>2, Appending
    <2> QED  BY <1>1, <2>1, <2>2 DEF Grows
  <1>4. x14' \in [R!Commitments -> Nat]
    BY <1>1 DEF Ignores, Delivers, Hears, RemindersTyped, Rows
  <1>5. x10' \subseteq R!Commitments /\ x16' \in Nat
    BY <1>1 DEF Ignores, Delivers, Hears, RemindersTyped, Rest
  <1>6. x11' \in RemindersFollowUps \cup {R!None}
    <2>1. R!OnScanned(e) \/ UNCHANGED x11
      BY DEF R!Handle, R!OnChanged, R!OnMarkFailed
    <2>2. x11' = x11 \/ \E cs : x11' = R!BubbleAfter(cs)
      BY <2>1 DEF R!OnScanned
    <2>3. ASSUME NEW cs
          PROVE  R!BubbleAfter(cs) \in RemindersFollowUps \cup {R!None}
      BY DEF R!BubbleAfter, RemindersTyped, Rest
    <2> QED  BY <2>2, <2>3 DEF RemindersTyped, Rest
  <1>7. Rows'
    BY <1>1, <1>4 DEF RemindersTyped, Rows
  <1> QED  BY <1>1, <1>2, <1>3, <1>5, <1>6, <1>7 DEF RemindersTyped, Lanes, Rest
----------------------------------------
(* The invariant. *)

Whole == RemindersTyped /\ Tidy /\ Budget /\ (x17 = 0 => Straight)

LEMMA WholeIs ==
  (Whole <=> RemindersIInv) /\ (Whole => x17 \in Nat)
  <1>1. R!SurfacedWasShown <=> (x17 = 0 => Surfaced)
    BY DEF R!SurfacedWasShown, Surfaced
  <1> QED  BY <1>1 DEF Whole, RemindersIInv, Tidy, Straight, RemindersTyped, Rest

LEMMA RemindersInitiallyIInv ==
  R!Init => RemindersIInv
  <1> SUFFICES ASSUME R!Init
               PROVE  Whole
    BY WholeIs
  <1>1. RemindersTyped
    <2>1. /\ x1 \in [R!Commitments -> {"absent", "scheduled"}]
          /\ x2 = [c \in R!Commitments |-> IF x1[c] = "absent" THEN 0 ELSE 1]
          /\ x14 = [c \in R!Commitments |-> 0]
      BY DEF R!Init
    <2>2. Rows
      BY <2>1 DEF Rows, Statuses
    <2>3. Lanes /\ Rest
      BY DEF R!Init, Lanes, Rest, R!None
    <2> QED  BY <2>2, <2>3 DEF RemindersTyped
  <1>2. Elements(x7) = {} /\ Elements(x5) = {} /\ x7 \in Seq(Events)
        /\ \A Q, Z, Y : Paired(x5, Q, Z, Y) /\ Single(x7, Q)
    BY EmptyQueue DEF R!Init
  <1>3. \A k \in R!Commitments : x14[k] = 0 /\ (x1[k] = "absent" \/ x1[k] = "scheduled")
    BY DEF R!Init
  <1>4. Past
    BY <1>2 DEF Past
  <1>5. Following
    BY <1>2, FollowsNone DEF Following
  <1>6. Delivered
    BY <1>3 DEF Delivered
  <1>7. Failed = 0 /\ x16 = 0
    BY CountEmpty DEF R!Init, Failed
  <1>8. Budget
    <2>1. \A k \in R!Commitments : x14[k] + Failed = 0
      BY <1>3, <1>7
    <2> QED  BY <1>7, <2>1 DEF Budget, Spent
  <1>9. Straight
    BY <1>2, <1>3 DEF Straight, Lone, NoScan, Marking, Surfaced
  <1> QED  BY <1>1, <1>4, <1>5, <1>6, <1>8, <1>9 DEF Whole, Tidy

\* An operation is asked for, the scheduler wakes or stops, or time passes.
LEMMA WholeAsks ==
  ASSUME Whole, UNCHANGED <<x1, x2, x14, x7, x16>>, Rest', Grows,
         x6' = x6 \/ \E e \in Edits : x6' = Append(x6, e),
         UNCHANGED <<x17, x10>> \/ x17' = x17 + 1,
         x17' = 0 =>
           \/ x5' = x5 /\ UNCHANGED <<x8, x9>>
           \/ /\ UNCHANGED <<x8, x9>>
              /\ \E o \in Orders : o \notin Scans /\ o \notin Marks
                                /\ x5' = Append(x5, o)
           \/ UNCHANGED x8 /\ R!Wake(x9, x5)
           \/ /\ ~x8 /\ x8' /\ x9'
              /\ \E o \in Orders : o \in Scans /\ x5' = Append(x5, o)
  PROVE  Whole'
  <1>1. RemindersTyped'
    BY TypedAsks DEF Whole, Grows
  <1>2. Tidy'
    BY TidySame DEF Whole
  <1>3. Budget'
    BY BudgetGrows DEF Whole
  <1>4. ASSUME x17' = 0
        PROVE  Straight'
    <2>1. Straight /\ RemindersTyped /\ Fewer
      <3>1. x17 = 0
        BY <1>4 DEF Whole, RemindersTyped, Rest
      <3> QED  BY <3>1 DEF Whole, Fewer
    <2>2. ~x8 => NoScan
      BY <2>1 DEF Straight, Lone
    <2>3. CASE x5' = x5 /\ UNCHANGED <<x8, x9>>
      BY <2>1, <2>3, StraightGrows
    <2>4. CASE /\ UNCHANGED <<x8, x9>>
               /\ \E o \in Orders : o \notin Scans /\ o \notin Marks /\ x5' = Append(x5, o)
      BY <2>1, <2>4, StraightGrows
    <2>5. CASE UNCHANGED x8 /\ R!Wake(x9, x5)
      BY <2>1, <2>5, StraightWakes
    <2>6. CASE /\ ~x8 /\ x8' /\ x9'
               /\ \E o \in Orders : o \in Scans /\ x5' = Append(x5, o)
      BY <2>1, <2>2, <2>6, StraightGrows
    <2> QED  BY <1>4, <2>3, <2>4, <2>5, <2>6
  <1> QED  BY <1>1, <1>2, <1>3, <1>4 DEF Whole

\* An operation of the data thread runs, or an answer of it is heard.
LEMMA WholeRuns ==
  ASSUME Whole, R!RunForeground \/ R!RunInteractive \/ R!Handle
  PROVE  Whole'
  <1>0. RemindersTyped /\ Tidy /\ Budget /\ Delivered /\ (x17 = 0 => Straight /\ Lone)
    BY DEF Whole, Tidy, Straight
  <1>1. CASE R!RunForeground
    <2>1. /\ x5 # <<>> /\ x5' = Tail(x5) /\ Moves
          /\ Silent \/ \E e : Finds(e)
      BY <1>0, <1>1, RunsIs
    <2>2. UNCHANGED <<x6, x4, x16, x17, x10, x11>>
      BY <1>1 DEF R!RunForeground, R!sched, R!world, R!counts
    <2>3. x7' = x7 \/ \E e : Tells(e)
      BY <2>1 DEF Silent, Quiet, Finds
    <2>4. RemindersTyped'
      BY <1>0, <2>1, <2>2, <2>3, TypedMoves DEF Moves, Tells, RemindersTyped, Rest
    <2>5. Tidy'
      BY <1>0, <2>1, <2>3, TidyMoves
    <2> QED  BY <1>0, <1>1, <2>2, <2>4, <2>5, BudgetRuns, StraightRuns DEF Whole
  <1>2. CASE R!RunInteractive
    <2>1. Moves /\ Silent
      BY <1>0, <1>2, InteractiveIs
    <2>2. /\ UNCHANGED <<x5, x4, x16, x17, x10, x11>>
          /\ x6 # <<>> /\ x6' = Tail(x6)
      BY <1>2 DEF R!RunInteractive, R!sched, R!world, R!counts
    <2>3. x7' = x7 \/ \E e : Tells(e)
      BY <2>1 DEF Silent, Quiet
    <2>4. RemindersTyped'
      BY <1>0, <2>1, <2>2, <2>3, TypedMoves DEF Moves, Tells, RemindersTyped, Rest
    <2>5. Tidy'
      BY <1>0, <2>1, <2>3, TidyMoves
    <2> QED  BY <1>0, <1>2, <2>2, <2>4, <2>5, BudgetActs, StraightActs DEF Whole
  <1>3. CASE R!Handle
    <2>1. UNCHANGED x17
      BY <1>3 DEF R!Handle
    <2> QED  BY <1>0, <1>3, <2>1, TypedHandles, TidyHandles, BudgetHandles, StraightHandles DEF Whole
  <1> QED  BY <1>1, <1>2, <1>3

\* A fault: an operation fails, or the process ends and another one starts.
LEMMA WholeFails ==
  ASSUME Whole, R!ForegroundFails \/ R!Crash
  PROVE  Whole'
  <1>0. RemindersTyped /\ Tidy /\ Budget /\ Delivered /\ (x17 = 0 => Straight)
    BY DEF Whole, Tidy
  <1>1. UNCHANGED <<x1, x2, x14, x17, x4>> /\ x16' = x16 + 1
    BY DEF R!ForegroundFails, R!Crash, R!rows, R!world
  <1>2. Rows'
    BY <1>0, <1>1 DEF RemindersTyped, Rows
  <1>3. CASE R!ForegroundFails
    <2>1. /\ x5 # <<>> /\ x5' = Tail(x5)
          /\ UNCHANGED <<x6, x10, x11>>
      BY <1>3 DEF R!ForegroundFails, R!sched
    <2>2. Rest'
      BY <1>0, <1>1, <2>1 DEF RemindersTyped, Rest
    <2>3. x7' = x7 \/ \E e : Tells(e)
      <3>1. CASE R!Answer("mark_failed", {}, {}, x2)
        <4> DEFINE a == [ev |-> "mark_failed", due |-> {}, became |-> {}, version |-> x2]
        <4>1. a \in Events /\ a.version = x2 /\ a.ev = "mark_failed" /\ a.became = {} /\ a.due = {}
          BY <1>0 DEF Events, RemindersTyped, Rows
        <4>2. x7' = Append(x7, a)
          BY <3>1 DEF R!Answer
        <4> HIDE DEF a
        <4>3. \A k : a \notin Reports(k) /\ a \notin Notes(k)
          BY <4>1 DEF Scanned, Reports, Notes
        <4> QED  BY <4>1, <4>2, <4>3 DEF Tells
      <3> QED  BY <1>3, <3>1 DEF R!ForegroundFails
    <2>4. RemindersTyped'
      BY <1>0, <1>2, <2>1, <2>2, <2>3, TypedMoves DEF Tells
    <2>5. Tidy'
      BY <1>0, <1>1, <2>3, SameIs, TidyMoves
    <2> QED  BY <1>0, <1>1, <1>3, <2>4, <2>5, BudgetFails, StraightFails DEF Whole
  <1>4. CASE R!Crash
    <2>1. /\ x5' = <<>> /\ x6' = <<>> /\ x7' = <<>>
          /\ x10' = {} /\ x11' = R!None
      BY <1>4 DEF R!Crash
    <2>2. RemindersTyped'
      <3>1. x5' \in Seq(Orders) /\ x6' \in Seq(Edits) /\ x7' \in Seq(Events)
        BY <2>1
      <3>2. Rest'
        BY <1>0, <1>1, <2>1 DEF RemindersTyped, Rest
      <3> QED  BY <1>2, <3>1, <3>2 DEF RemindersTyped, Lanes
    <2>3. Tidy'
      BY <1>0, <1>1, <2>1, TidyEmpty
    <2> QED  BY <1>0, <1>1, <1>4, <2>2, <2>3, BudgetCrash, StraightCrash DEF Whole
  <1> QED  BY <1>3, <1>4

LEMMA RemindersIInvStep ==
  ASSUME RemindersIInv, (R!Next \/ UNCHANGED R!vars)
  PROVE  RemindersIInv'
  <1> SUFFICES Whole'
    BY DEF Whole, RemindersIInv, Tidy, Straight, R!SurfacedWasShown, Surfaced
  <1>0. Whole /\ RemindersTyped /\ Rest
    BY WholeIs DEF Whole, RemindersTyped
  <1>1. ASSUME UNCHANGED <<R!rows, x5, x7, R!sched, x11, R!world, x14, x16, x17>>,
               NEW e \in Edits, x6' = Append(x6, e)
        PROVE  Whole'
    <2>1. Grows /\ Rest' /\ UNCHANGED <<x1, x2, x10, x8, x9>>
      BY <1>0, <1>1 DEF R!rows, R!sched, R!world, Grows, Rest
    <2> QED  BY <1>0, <1>1, <2>1, WholeAsks
  <1>2. ASSUME NEW op, NEW c \in R!Commitments, NEW d \in Nat, R!Ask(op, c, d),
               op \in {"create", "revise", "snooze", "delete"} \cup R!Final
        PROVE  Whole'
    <2>1. [op |-> op, c |-> c, d |-> d] \in Edits
      BY <1>2 DEF Edits
    <2> QED  BY <1>1, <1>2, <2>1 DEF R!Ask
  <1>3. ASSUME NEW c \in R!Commitments, R!DraftInChat(c)
        PROVE  Whole'
    <2> DEFINE o == [op |-> "draft", cs |-> {c}, at |-> x4]
    <2>1. o \in Orders /\ o \notin Scans /\ o \notin Marks
      BY <1>0, <1>3 DEF Orders, Scans, Marks, Rest
    <2>2. x5' = Append(x5, o)
      BY <1>3 DEF R!DraftInChat
    <2> HIDE DEF o
    <2>3. Grows /\ Rest' /\ UNCHANGED <<x1, x2, x14, x7, x16, x6, x17,
                                        x10, x8, x9>>
      BY <1>0, <1>3, <2>1, <2>2 DEF R!DraftInChat, R!rows, R!sched, R!world, Grows, Rest
    <2> QED  BY <1>0, <2>1, <2>2, <2>3, WholeAsks
  <1>4. CASE R!UserActs
    <2>1. PICK c \in R!Commitments :
            R!AskCreate(c) \/ R!DraftInChat(c) \/ R!AskRevise(c) \/ R!AskSnooze(c) \/ R!AskEnd(c) \/ R!AskDelete(c)
      BY <1>4 DEF R!UserActs
    <2>2. x4 \in Nat /\ 0 \in Nat /\ \A d \in x4 + 1..RemindersMaxTime : d \in Nat
      BY <1>0, ComponentsAssumption DEF Rest
    <2>3. ASSUME R!AskRevise(c)
          PROVE  Whole'
      BY <1>2, <2>2, <2>3 DEF R!AskRevise
    <2>4. ASSUME R!AskEnd(c)
          PROVE  Whole'
      BY <1>2, <2>2, <2>4 DEF R!AskEnd
    <2>5. ASSUME R!AskCreate(c) \/ R!AskSnooze(c) \/ R!AskDelete(c)
          PROVE  Whole'
      BY <1>2, <2>2, <2>5 DEF R!AskCreate, R!AskSnooze, R!AskDelete
    <2> QED  BY <1>3, <2>1, <2>3, <2>4, <2>5
  <1>5. CASE R!Open
    <2> DEFINE o == [op |-> "open", cs |-> {x11}, at |-> x4]
    <2>1. o \in Orders /\ o \notin Scans /\ o \notin Marks
      BY <1>0, <1>5 DEF R!Open, Orders, Scans, Marks, Rest, R!Commitments
    <2>2. x5' = Append(x5, o)
      BY <1>5 DEF R!Open
    <2> HIDE DEF o
    <2>3. Grows /\ Rest' /\ UNCHANGED <<x1, x2, x14, x7, x16, x6, x17,
                                        x10, x8, x9>>
      BY <1>0, <1>5, <2>1, <2>2 DEF R!Open, R!rows, R!sched, R!world, R!counts, Grows, Rest
    <2> QED  BY <1>0, <2>1, <2>2, <2>3, WholeAsks
  <1>6. CASE R!Dismiss \/ R!Passes \/ R!Changes \/ UNCHANGED R!vars
    <2>1. UNCHANGED <<x1, x2, x14, x5, x6, x7, x16, x17,
                      x10, x8, x9>>
      BY <1>6 DEF R!Dismiss, R!Passes, R!Changes, R!vars, R!rows, R!queues, R!sched, R!counts
    <2>2. Rest'
      BY <1>0, <1>6, <2>1 DEF R!Dismiss, R!Passes, R!Changes, R!vars, R!world, Rest
    <2>3. Grows
      BY <2>1 DEF Grows
    <2> QED  BY <1>0, <2>1, <2>2, <2>3, WholeAsks
  <1>7. CASE R!Timer
    <2>1. R!Wake(x9, x5) /\ Grows
      BY <1>0, <1>7, WakeGrows DEF R!Timer
    <2>2. Rest' /\ UNCHANGED <<x1, x2, x14, x7, x16, x6, x17, x10, x8>>
      BY <1>0, <1>7 DEF R!Timer, R!rows, R!world, R!counts, Rest
    <2> QED  BY <1>0, <2>1, <2>2, WholeAsks
  <1>8. CASE R!Start
    <2>1. R!Scan \in Orders /\ R!Scan \in Scans
      BY <1>0 DEF R!Scan, Scans, Orders, Rest
    <2>2. /\ ~x8 /\ x8' /\ x9' /\ x5' = Append(x5, R!Scan)
          /\ UNCHANGED <<x1, x2, x14, x7, x16, x6, x17, x10, x4, x11>>
      BY <1>8 DEF R!Start, R!rows, R!world, R!counts
    <2>3. Grows /\ Rest'
      BY <1>0, <2>1, <2>2 DEF Grows, Rest
    <2> QED  BY <1>0, <2>1, <2>2, <2>3, WholeAsks
  <1>9. CASE R!Stop
    <2>1. /\ UNCHANGED <<x1, x2, x14, x7, x16, x6, x5, x4>>
          /\ x17' = x17 + 1 /\ x10' = {} /\ x11' = R!None
      BY <1>9 DEF R!Stop, R!rows, R!queues, R!world
    <2>2. Rest' /\ Grows /\ x17' # 0
      BY <1>0, <2>1 DEF Rest, Grows
    <2> QED  BY <1>0, <2>1, <2>2, WholeAsks
  <1>10. CASE R!Next
    BY <1>0, <1>4, <1>5, <1>6, <1>7, <1>8, <1>9, <1>10, WholeRuns, WholeFails DEF R!Next
  <1> QED  BY <1>6, <1>10

LEMMA DeliveriesFollow ==
  RemindersIInv => R!DeliveriesAreTrue
  <1> SUFFICES ASSUME RemindersIInv
               PROVE  R!ShownOnce /\ R!SurfacedWasShown
    BY DEF R!DeliveriesAreTrue
  <1>1. Failed \in Nat /\ x16 \in Nat /\ \A k \in R!Commitments : x14[k] \in Nat
    BY CountIs DEF RemindersIInv, RemindersTyped, Rows, Lanes, Rest, Failed
  <1>2. x17 <= 1 => \A k \in R!Commitments : x14[k] + Failed <= 1 + x16
    BY DEF RemindersIInv, Budget
  <1>3. x17 <= 1 => \A k \in R!Commitments : x14[k] <= 1 + x16
    BY <1>1, <1>2
  <1> QED  BY <1>3 DEF RemindersIInv, R!ShownOnce

RemindersInv == part = "reminders" => RemindersIInv

LEMMA RemindersStart == Init => RemindersInv
  <1> SUFFICES ASSUME Init, part = "reminders"
               PROVE  RemindersIInv
    BY DEF RemindersInv
  <1>1. R!Init
    BY DEF Init, InitOf
  <1> QED  BY <1>1, RemindersInitiallyIInv

LEMMA RemindersMoves ==
  ASSUME [Next]_vars, part = "reminders"
  PROVE  R!Next \/ UNCHANGED R!vars
  <1>1. CASE Next
    BY <1>1 DEF Next, InR, InV, InX, InG, InH, InW, InT, InJ, InM, InP, InA, InC
  <1>2. CASE UNCHANGED vars
    BY <1>2 DEF vars, R!rows, R!queues, R!sched, R!world, R!counts, R!vars
  <1> QED  BY <1>1, <1>2

LEMMA RemindersStep == RemindersInv /\ [Next]_vars => RemindersInv'
  <1> SUFFICES ASSUME RemindersInv, [Next]_vars, part' = "reminders"
               PROVE  RemindersIInv'
    BY DEF RemindersInv
  <1>1. part = "reminders" /\ RemindersIInv
    BY PartStays DEF RemindersInv
  <1> QED  BY <1>1, RemindersMoves, RemindersIInvStep

LEMMA RemindersInvariance == Spec => []RemindersInv
  BY RemindersStart, RemindersStep, PTL DEF Spec

\* reminder_scheduler.py, temporal_commitments.py: a version of a commitment is
\* delivered once, and once more for each fault, as long as the scheduler was stopped
\* once at most; as long as it never was, what is marked surfaced was delivered in its
\* current version, for any number of commitments, edits, faults and answers.
THEOREM DeliveriesTrue == Spec => []DeliveriesAreTrue
  <1>1. RemindersInv => DeliveriesAreTrue
    BY DeliveriesFollow DEF RemindersInv, DeliveriesAreTrue
  <1> QED  BY <1>1, RemindersInvariance, PTL

----------------------------------------
(* The voice session. *)

\* An utterance is transcribed, waits for the chat, is replied to and synthesized in that
\* order and never goes back (Forward), a token that was not given yet is nowhere (Known),
\* and the switches, the turn and what is played agree with the current token (Tuned).
\* All of it holds until push-to-talk is pressed while the VAD holds a sentence (mixed).
\* Its variables: s x1, tokens x2, asr x3, ttsActive x4, ttsPending x5, ttsDone x6,
\*   playing x7, chat x8, mainQ x9, mixed x10, sentences x11, failures x12

Session == [state : {"off", "listening", "capturing", "transcribing", "thinking", "speaking"},
            handsFree : BOOLEAN, ptt : BOOLEAN, token : Nat, turn : Nat, complete : BOOLEAN,
            count : Nat, mic : BOOLEAN, vad : BOOLEAN]
Task    == [token : Nat, live : BOOLEAN]
Done    == [token : Nat, live : BOOLEAN, n : Nat]
Message == [token : Nat \ {V!None}, phase : {"preparing", "running", "replying", "stopping"}]
Signal  == [ev : {"transcribed", "not_transcribed", "synthesized", "not_synthesized", "count"},
            token : Nat, n : Nat]

VoiceTyped ==
  /\ x1 \in Session /\ x2 \in Nat /\ x1.token <= x2
  /\ x3 \in Task /\ x4 \in Task /\ x5 \in Seq(Task) /\ x6 \in Done \cup {V!Idle}
  /\ x7 \in Seq(Nat) /\ x8 \in Message \cup {V!Idle} /\ x9 \in Seq(Signal)
  /\ x10 \in BOOLEAN

\* Where an utterance may be: in the transcription lane or its signal, in the chat, in the
\* synthesis lane or its signals.
Transcripts(t)  == {e \in Signal : e.ev \in {"transcribed", "not_transcribed"} /\ e.token = t}
Sentences(t)    == {e \in Signal : e.ev = "synthesized" /\ e.token = t}
Transcribing(t) == (x3.live /\ x3.token = t) \/ Elements(x9) \cap Transcripts(t) # {}
Chatting(t)     == x8 # V!Idle /\ x8.token = t
Waiting(t)      == Chatting(t) /\ x8.phase = "preparing"
Synthesizing(t) ==
  \/ \E x \in {x4, x6} \cup Elements(x5) : x.live /\ x.token = t
  \/ Elements(x9) \cap Sentences(t) # {}
Once(t) ==
  /\ Single(x9, Transcripts(t))
  /\ x3.live /\ x3.token = t => Elements(x9) \cap Transcripts(t) = {}

\* An utterance goes from one to the next and never back.
Forward(t) ==
  /\ x1.ptt \/ x1.vad => ~Transcribing(t) /\ ~Chatting(t) /\ ~Synthesizing(t) /\ x7 = <<>>
  /\ Transcribing(t) => ~Chatting(t) /\ ~Synthesizing(t) /\ x7 = <<>>
  /\ Waiting(t) => ~Synthesizing(t) /\ x7 = <<>>
  /\ Once(t)
  /\ x1.turn # V!None => ~x1.ptt /\ ~x1.vad /\ ~Transcribing(t) /\ ~Waiting(t)

\* The microphone listens for someone, and the VAD for nobody while a button is held.
Switches(x) ==
  /\ x.mic => x.handsFree \/ x.ptt
  /\ x.vad => x.handsFree /\ ~x.ptt

\* What is played and whose reply it is agree with the session.
Tuned ==
  /\ Switches(x1)
  /\ x7 # <<>> => x1.token # V!None /\ \A p \in Elements(x7) : p = x1.token
  /\ x1.turn # V!None => x1.turn = x1.token
  /\ x7 # <<>> \/ x1.turn # V!None => x1.state \in {"thinking", "speaking"}

\* A token that was not given yet is nowhere.
Known == \A t \in Nat : t > x2 => ~Transcribing(t) /\ ~Chatting(t) /\ ~Synthesizing(t)

Sound == Tuned /\ Known /\ \A t \in Nat \ {V!None} : x1.token = t => Forward(t)

VoiceIInv == VoiceTyped /\ (x10 \/ Sound)

----------------------------------------
(* What the helpers of the session do to it. *)

LEMMA Resumed ==
  ASSUME NEW x \in Session
  PROVE  /\ V!ResumeIdle(x) \in Session
         /\ V!ResumeIdle(x).token = x.token /\ V!ResumeIdle(x).turn = x.turn
         /\ V!ResumeIdle(x).ptt = FALSE /\ V!ResumeIdle(x).handsFree = x.handsFree
         /\ V!ResumeIdle(x).mic = x.handsFree /\ (V!ResumeIdle(x).vad => x.vad /\ ~x.handsFree)
  BY DEF V!ResumeIdle, Session

LEMMA Forced ==
  ASSUME NEW x \in Session
  PROVE  /\ V!ForceFinish(x) \in Session
         /\ V!ForceFinish(x).token = V!None /\ V!ForceFinish(x).turn = V!None
         /\ V!ForceFinish(x).ptt = FALSE /\ V!ForceFinish(x).handsFree = x.handsFree
         /\ V!ForceFinish(x).mic = x.handsFree /\ (V!ForceFinish(x).vad => x.vad /\ ~x.handsFree)
  <1> DEFINE y == [x EXCEPT !.token = V!None, !.turn = V!None]
  <1>1. /\ y \in Session /\ y.token = V!None /\ y.turn = V!None /\ y.handsFree = x.handsFree
        /\ y.vad = x.vad
    BY DEF Session, V!None
  <1> HIDE DEF y
  <1> QED  BY <1>1, Resumed DEF V!ForceFinish, y

LEMMA Finished ==
  ASSUME NEW x \in Session, NEW queued \in Nat
  PROVE  /\ V!MaybeFinish(x, queued) \in Session
         /\ \/ V!MaybeFinish(x, queued) = x
            \/ queued = 0 /\ V!MaybeFinish(x, queued) = V!ForceFinish(x)
  <1>1. V!ForceFinish(x) \in Session
    BY Forced
  <1>2. ~V!Waits(x, queued) => queued = 0
    BY DEF V!Waits
  <1> QED  BY <1>1, <1>2 DEF V!MaybeFinish, V!ForceFinish

\* What an interruption leaves: no token, no turn, and nothing switched on.
VoiceSilent(x, y) ==
  /\ y \in Session /\ y.token = V!None /\ y.turn = V!None /\ y.handsFree = x.handsFree
  /\ y.ptt => x.ptt
  /\ y.vad => x.vad
  /\ y.mic => x.mic \/ x.handsFree

LEMMA Interrupts ==
  ASSUME NEW x \in Session, NEW queued \in Nat
  PROVE  VoiceSilent(x, [V!Counted(x, 0, queued) EXCEPT !.token = V!None, !.turn = V!None, !.complete = FALSE])
  <1> DEFINE z == [x EXCEPT !.count = 0]
             w == V!MaybeFinish(z, queued)
  <1>1. /\ z \in Session /\ z.handsFree = x.handsFree /\ z.ptt = x.ptt /\ z.vad = x.vad
        /\ z.mic = x.mic
    BY DEF Session
  <1> HIDE DEF z
  <1>2. w \in Session /\ (w = z \/ w = V!ForceFinish(z))
    BY <1>1, Finished
  <1>3. /\ w.handsFree = x.handsFree /\ (w.ptt => x.ptt) /\ (w.vad => x.vad)
        /\ w.mic => x.mic \/ x.handsFree
    <2>1. CASE w = z
      BY <2>1, <1>1
    <2>2. CASE w = V!ForceFinish(z)
      <3>1. /\ w.ptt = FALSE /\ w.handsFree = z.handsFree /\ w.mic = z.handsFree
            /\ w.vad => z.vad
        BY <2>2, <1>1, Forced
      <3> QED  BY <3>1, <1>1
    <2> QED  BY <2>1, <2>2, <1>2
  <1> HIDE DEF w
  <1>4. VoiceSilent(x, [w EXCEPT !.token = V!None, !.turn = V!None, !.complete = FALSE])
    BY <1>2, <1>3 DEF VoiceSilent, Session, V!None
  <1> QED  BY <1>4 DEF V!Counted, w, z

LEMMA InterruptedIs ==
  ASSUME NEW x \in Session, VoiceTyped
  PROVE  VoiceSilent(x, V!Interrupted(x))
  <1>1. Len(x7) \in Nat
    BY DEF VoiceTyped
  <1> QED  BY <1>1, Interrupts DEF V!Interrupted

LEMMA OffIs ==
  ASSUME NEW x \in Session, x.token = V!None, x.turn = V!None
  PROVE  /\ V!Off(x) \in Session /\ V!Off(x).token = V!None /\ V!Off(x).turn = V!None
         /\ ~V!Off(x).ptt /\ ~V!Off(x).vad /\ ~V!Off(x).mic
  BY DEF V!Off, Session

----------------------------------------
(* What a step leaves of the lanes. *)

LEMMA NothingIsOnce ==
  ASSUME NEW t, ~Transcribing(t)
  PROVE  Once(t)
  BY DEF Transcribing, Once, Single, Paired, Elements

\* No utterance is anywhere it was not.
VoiceFewer ==
  \A t \in Nat : /\ Transcribing(t)' => Transcribing(t)
                 /\ Chatting(t)' => Chatting(t)
                 /\ Waiting(t)' => Waiting(t)
                 /\ Synthesizing(t)' => Synthesizing(t)
                 /\ Once(t) => Once(t)'

\* The session goes on with its token, ends, or begins a new one.
GoesOn ==
  /\ x1'.token = x1.token /\ x2' >= x2
  /\ x1'.ptt => x1.ptt
  /\ x1'.vad => x1.vad
  /\ x1'.turn \in {x1.turn, V!None}
  /\ Elements(x7') \subseteq Elements(x7) /\ (x7' # <<>> => x7 # <<>>)
  /\ x7' # <<>> \/ x1'.turn # V!None => x1'.state \in {"thinking", "speaking"}
Ends == x1'.token = V!None /\ x1'.turn = V!None /\ x7' = <<>> /\ x2' >= x2
VoiceBegins == x1'.token = x2 + 1 /\ x1'.turn = V!None /\ x7' = <<>> /\ x2' = x2 + 1

LEMMA VoiceKeeps ==
  ASSUME VoiceTyped, VoiceTyped', Sound, VoiceFewer, Switches(x1'), GoesOn \/ Ends \/ VoiceBegins
  PROVE  Sound'
  <1>1. Known'
    <2>1. x2 \in Nat /\ x2' \in Nat /\ x2' >= x2
      BY DEF VoiceTyped, GoesOn, Ends, VoiceBegins
    <2>2. ASSUME NEW t \in Nat, t > x2'
          PROVE  t > x2
      BY <2>1, <2>2
    <2> QED  BY <2>2 DEF Known, Sound, VoiceFewer
  <1>2. CASE GoesOn
    <2>1. Tuned'
      BY <1>2 DEF GoesOn, Sound, Tuned
    <2>2. ASSUME NEW t \in Nat \ {V!None}, x1'.token = t
          PROVE  Forward(t)'
      <3>1. Forward(t) /\ Once(t)
        BY <1>2, <2>2 DEF GoesOn, Sound, Forward
      <3>2. x7 = <<>> => x7' = <<>>
        BY <1>2 DEF GoesOn
      <3>3. x1'.turn # V!None => x1.turn # V!None
        BY <1>2 DEF GoesOn
      <3> QED  BY <1>2, <3>1, <3>2, <3>3 DEF GoesOn, Forward, VoiceFewer
    <2> QED  BY <1>1, <2>1, <2>2 DEF Sound
  <1>3. CASE Ends
    <2>1. Tuned'
      BY <1>3 DEF Ends, Tuned
    <2> QED  BY <1>1, <1>3, <2>1 DEF Sound, Ends
  <1>4. CASE VoiceBegins
    <2>1. Tuned'
      BY <1>4 DEF VoiceBegins, Tuned
    <2>2. ASSUME NEW t \in Nat \ {V!None}, x1'.token = t
          PROVE  Forward(t)'
      <3>1. ~Transcribing(t) /\ ~Chatting(t) /\ ~Synthesizing(t)
        BY <1>4, <2>2 DEF VoiceBegins, Sound, Known, VoiceTyped
      <3>2. Once(t)
        BY <3>1, NothingIsOnce
      <3>3. ~Waiting(t)'
        BY <3>1 DEF Waiting, VoiceFewer
      <3> QED  BY <1>4, <3>1, <3>2, <3>3 DEF VoiceBegins, Forward, VoiceFewer
    <2> QED  BY <1>1, <2>1, <2>2 DEF Sound
  <1> QED  BY <1>2, <1>3, <1>4

LEMMA SameLanes ==
  ASSUME UNCHANGED <<x3, x4, x5, x6, x9>>
  PROVE  \A t \in Nat : /\ Transcribing(t)' <=> Transcribing(t)
                        /\ Synthesizing(t)' <=> Synthesizing(t)
                        /\ Once(t)' <=> Once(t)
  BY DEF Transcribing, Synthesizing, Once, Transcripts, Sentences

LEMMA SilencedLanes ==
  ASSUME VoiceTyped, V!CancelAll, x9' = x9
  PROVE  /\ \A t \in Nat : /\ Transcribing(t)' => Transcribing(t)
                           /\ Synthesizing(t)' => Synthesizing(t)
                           /\ Once(t) => Once(t)'
         /\ x3' \in Task /\ x4' \in Task /\ x5' = <<>> /\ x5' \in Seq(Task) /\ x6' = x6
  <1>1. /\ x3' = [x3 EXCEPT !.live = FALSE] /\ x3 \in Task /\ x3' \in Task /\ ~x3'.live
        /\ x5' = <<>> /\ x6' = x6
    BY DEF V!CancelAll, VoiceTyped, Task
  <1>2. x4' = V!Idle \/ x4' = [x4 EXCEPT !.live = FALSE]
    BY DEF V!CancelAll
  <1>3. x4' \in Task /\ ~x4'.live
    <2>1. CASE x4' = V!Idle
      BY <2>1 DEF Task, V!Idle, V!None
    <2>2. CASE x4' = [x4 EXCEPT !.live = FALSE]
      BY <2>2 DEF VoiceTyped, Task
    <2> QED  BY <1>2, <2>1, <2>2
  <1>4. Elements(x5') = {}
    BY <1>1, EmptyQueue
  <1> QED  BY <1>1, <1>3, <1>4 DEF Transcribing, Synthesizing, Once, Transcripts, Sentences

LEMMA SameChat ==
  ASSUME x8' = x8
  PROVE  \A t \in Nat : (Chatting(t)' <=> Chatting(t)) /\ (Waiting(t)' <=> Waiting(t))
  BY DEF Chatting, Waiting

\* A stopped chat waits for nothing any more.
LEMMA StoppedIs ==
  ASSUME VoiceTyped, NEW stops \in BOOLEAN, x8' = V!StoppedChat(stops)
  PROVE  /\ x8' \in Message \cup {V!Idle}
         /\ \A t \in Nat : (Chatting(t)' => Chatting(t)) /\ (Waiting(t)' => Waiting(t))
  <1>1. \/ x8' = x8
        \/ x8' = V!Idle
        \/ x8 # V!Idle /\ x8' = [x8 EXCEPT !.phase = "stopping"]
    BY DEF V!StoppedChat
  <1>2. CASE x8' = x8
    BY <1>2, SameChat DEF VoiceTyped
  <1>3. CASE x8' = V!Idle
    BY <1>3 DEF Chatting, Waiting
  <1>4. CASE x8 # V!Idle /\ x8' = [x8 EXCEPT !.phase = "stopping"]
    <2>1. x8 \in Message
      BY <1>4 DEF VoiceTyped
    <2>2. x8' \in Message /\ x8'.phase = "stopping" /\ x8'.token = x8.token
      BY <1>4, <2>1 DEF Message
    <2> QED  BY <1>4, <2>2 DEF Chatting, Waiting
  <1> QED  BY <1>1, <1>2, <1>3, <1>4

----------------------------------------
(* How the session goes on. *)

Going(x, y) ==
  /\ y.token = x.token /\ y.turn = x.turn
  /\ y.ptt => x.ptt
  /\ y.vad => x.vad
  /\ y.state = x.state \/ y.state \in {"thinking", "speaking"}
Ended(y) == y.token = V!None /\ y.turn = V!None
Eases(x, y) == y \in Session /\ (Switches(x) => Switches(y)) /\ (Going(x, y) \/ Ended(y))

LEMMA ForceEases ==
  ASSUME NEW x \in Session
  PROVE  Eases(x, V!ForceFinish(x)) /\ Ended(V!ForceFinish(x))
  BY Forced DEF Eases, Ended, Switches, Session

LEMMA FinishEases ==
  ASSUME NEW x \in Session, NEW queued \in Nat
  PROVE  /\ Eases(x, V!MaybeFinish(x, queued))
         /\ queued # 0 => Going(x, V!MaybeFinish(x, queued))
  <1>1. Eases(x, x) /\ Going(x, x)
    BY DEF Eases, Going
  <1> QED  BY <1>1, Finished, ForceEases

LEMMA EasesOn ==
  ASSUME NEW x, NEW y, NEW z, Eases(x, y), Eases(y, z)
  PROVE  Eases(x, z)
  BY DEF Eases, Going, Ended

\* An eased session keeps its token or ends, as long as nothing is played after the end.
LEMMA EasedStep ==
  ASSUME VoiceTyped, Eases(x1, x1'), x2' = x2, Elements(x7') \subseteq Elements(x7),
         x7' # <<>> => x7 # <<>>, x7' = <<>> \/ Going(x1, x1')
  PROVE  /\ x1' \in Session /\ x1'.token <= x2'
         /\ Tuned => Switches(x1') /\ (GoesOn \/ Ends)
  <1>1. x1' \in Session /\ x1'.token <= x2' /\ x2 \in Nat
    BY DEF VoiceTyped, Eases, Going, Ended, V!None
  <1>2. CASE Going(x1, x1')
    BY <1>1, <1>2 DEF Going, Eases, Tuned, GoesOn
  <1>3. CASE Ended(x1') /\ x7' = <<>>
    BY <1>1, <1>3 DEF Ended, Eases, Tuned, Ends
  <1> QED  BY <1>1, <1>2, <1>3 DEF Eases

\* A session that listens for a button or to a sentence plays nothing and is bound to no turn.
LEMMA VoiceQuiet ==
  ASSUME VoiceTyped, Sound, x1.ptt \/ x1.vad
  PROVE  x7 = <<>> /\ x1.turn = V!None
  <1>1. CASE x1.token = V!None
    BY <1>1 DEF Sound, Tuned
  <1>2. CASE x1.token # V!None
    <2>1. x1.token \in Nat \ {V!None}
      BY <1>2 DEF VoiceTyped, Session
    <2>2. Forward(x1.token)
      BY <2>1 DEF Sound
    <2> QED  BY <2>2 DEF Forward
  <1> QED  BY <1>1, <1>2

\* The session resumes its idle state, playing nothing.
LEMMA IdleStep ==
  ASSUME VoiceTyped, NEW x \in Session, x.token = x1.token, x.turn = V!None, x.handsFree = x1.handsFree,
         x.vad => x1.vad, x1' = V!ResumeIdle(x), x2' = x2
  PROVE  /\ x1' \in Session /\ x1'.token <= x2'
         /\ ~x1'.ptt /\ x1'.turn = V!None /\ x1'.token = x1.token
         /\ Switches(x1) => Switches(x1')
         /\ x7' = <<>> => GoesOn
  <1>1. /\ x1' \in Session /\ x1'.token = x1.token /\ x1'.turn = V!None /\ ~x1'.ptt /\ x1'.mic = x1.handsFree
        /\ x1'.handsFree = x1.handsFree /\ (x1'.vad => x1.vad /\ ~x1.handsFree)
    BY Resumed
  <1>2. x2 \in Nat /\ x1'.token <= x2' /\ x2' >= x2
    BY <1>1 DEF VoiceTyped
  <1>3. Switches(x1) => Switches(x1')
    BY <1>1 DEF Switches
  <1>4. ASSUME x7' = <<>>
        PROVE  GoesOn
    <2>1. Elements(x7') = {}
      BY <1>4, EmptyQueue
    <2> QED  BY <1>1, <1>2, <1>4, <2>1 DEF GoesOn
  <1> QED  BY <1>1, <1>2, <1>3, <1>4

\* An interrupted session forgets its token.
LEMMA InterruptStep ==
  ASSUME VoiceTyped, NEW x \in Session, Switches(x)
  PROVE  /\ V!Interrupted(x) \in Session
         /\ V!Off(V!Interrupted(x)) \in Session /\ Ended(V!Off(V!Interrupted(x)))
         /\ Switches(V!Off(V!Interrupted(x)))
  <1>1. VoiceSilent(x, V!Interrupted(x))
    BY InterruptedIs
  <1>2. V!Interrupted(x) \in Session /\ Ended(V!Interrupted(x))
    BY <1>1 DEF VoiceSilent, Ended
  <1> QED  BY <1>2, OffIs DEF Ended, Switches

LEMMA SilencedSteps ==
  ASSUME VoiceTyped, V!Silence, x9' = x9, x2' \in Nat, x10' \in BOOLEAN,
         x1' \in Session, x1'.token <= x2', x8' \in Message \cup {V!Idle},
         \A t \in Nat : (Chatting(t)' => Chatting(t)) /\ (Waiting(t)' => Waiting(t))
  PROVE  VoiceTyped' /\ VoiceFewer /\ x7' = <<>>
  <1>1. /\ x3' \in Task /\ x4' \in Task /\ x5' \in Seq(Task)
        /\ x6' = x6 /\ x7' = <<>>
        /\ \A t \in Nat : /\ Transcribing(t)' => Transcribing(t)
                          /\ Synthesizing(t)' => Synthesizing(t)
                          /\ Once(t) => Once(t)'
    BY SilencedLanes DEF V!Silence
  <1>2. x7' \in Seq(Nat)
    BY <1>1
  <1> QED  BY <1>1, <1>2 DEF VoiceTyped, VoiceFewer

----------------------------------------
(* The user. *)

LEMMA StartHandsFreeStep ==
  ASSUME VoiceTyped, V!StartHandsFree
  PROVE  VoiceTyped' /\ (Sound => Sound')
  <1>1. VoiceSilent(x1, V!Interrupted(x1))
    BY InterruptedIs DEF VoiceTyped
  <1> DEFINE y == V!Interrupted(x1)
  <1>2. y \in Session /\ y.token = V!None /\ y.turn = V!None
    BY <1>1 DEF VoiceSilent
  <1>3. x1' = [y EXCEPT !.handsFree = TRUE, !.ptt = FALSE, !.vad = FALSE, !.state = "listening", !.mic = TRUE]
    BY DEF V!StartHandsFree
  <1> HIDE DEF y
  <1>4. x1' \in Session /\ x1'.token = V!None /\ x1'.turn = V!None /\ x1'.handsFree /\ ~x1'.ptt /\ ~x1'.vad
    BY <1>2, <1>3 DEF Session
  <1>5. V!StopsChat \in BOOLEAN
    BY DEF V!StopsChat
  <1>6. /\ x8' \in Message \cup {V!Idle}
        /\ \A t \in Nat : (Chatting(t)' => Chatting(t)) /\ (Waiting(t)' => Waiting(t))
    BY <1>5, StoppedIs DEF V!StartHandsFree
  <1>7. x1'.token <= x2' /\ x2' \in Nat /\ x2' = x2
    BY <1>4 DEF V!StartHandsFree, VoiceTyped, V!None
  <1>8. x10' \in BOOLEAN /\ x9' = x9 /\ V!Silence
    BY DEF V!StartHandsFree, VoiceTyped
  <1>9. VoiceTyped' /\ VoiceFewer /\ x7' = <<>>
    BY <1>4, <1>6, <1>7, <1>8, SilencedSteps
  <1>10. Switches(x1')
    BY <1>4 DEF Switches
  <1>11. Ends
    BY <1>4, <1>7, <1>9 DEF Ends
  <1> QED  BY <1>9, <1>10, <1>11, VoiceKeeps

\* The session is switched off and its exchange dropped.
LEMMA OffStep ==
  ASSUME VoiceTyped, x1' = V!Off(V!Interrupted(x1)), NEW stops \in BOOLEAN, x8' = V!StoppedChat(stops), V!Silence,
         UNCHANGED <<x2, x9, x10>>
  PROVE  VoiceTyped' /\ (Sound => Sound')
  <1>1. VoiceSilent(x1, V!Interrupted(x1))
    BY InterruptedIs DEF VoiceTyped
  <1>2. /\ x1' \in Session /\ x1'.token = V!None /\ x1'.turn = V!None /\ ~x1'.ptt /\ ~x1'.vad /\ ~x1'.mic
    BY <1>1, OffIs DEF VoiceSilent
  <1>3. /\ x8' \in Message \cup {V!Idle}
        /\ \A t \in Nat : (Chatting(t)' => Chatting(t)) /\ (Waiting(t)' => Waiting(t))
    BY StoppedIs
  <1>4. x1'.token <= x2' /\ x2' \in Nat /\ x2' = x2 /\ x10' \in BOOLEAN
    BY <1>2 DEF VoiceTyped, V!None
  <1>5. VoiceTyped' /\ VoiceFewer /\ x7' = <<>>
    BY <1>2, <1>3, <1>4, SilencedSteps
  <1>6. Ends /\ Switches(x1')
    BY <1>2, <1>4, <1>5 DEF Ends, Switches
  <1> QED  BY <1>5, <1>6, VoiceKeeps

LEMMA StopSessionStep ==
  ASSUME VoiceTyped, V!StopSession
  PROVE  VoiceTyped' /\ (Sound => Sound')
  BY OffStep DEF V!StopSession

LEMMA Begun ==
  ASSUME VoiceTyped, NEW x \in Session
  PROVE  /\ V!BeginTurn(x) \in Session /\ V!BeginTurn(x).token = x2 + 1
         /\ V!BeginTurn(x).turn = x.turn /\ V!BeginTurn(x).handsFree = x.handsFree
         /\ V!BeginTurn(x).ptt = x.ptt /\ V!BeginTurn(x).vad = x.vad /\ V!BeginTurn(x).mic = x.mic
  <1>1. x2 + 1 \in Nat
    BY DEF VoiceTyped
  <1> QED  BY <1>1 DEF V!BeginTurn, Session

LEMMA PressStep ==
  ASSUME VoiceTyped, V!Press
  PROVE  VoiceTyped' /\ (Sound /\ ~x10' => Sound')
  <1>1. VoiceSilent(x1, V!Interrupted(x1)) /\ x1 \in Session
    BY InterruptedIs DEF VoiceTyped
  <1> DEFINE y == V!BeginTurn(V!Interrupted(x1))
             z == [y EXCEPT !.ptt = TRUE, !.mic = TRUE]
  <1>2. y \in Session /\ y.token = x2 + 1 /\ y.turn = V!None /\ y.handsFree = x1.handsFree /\ (y.vad => x1.vad)
    BY <1>1, Begun DEF VoiceSilent
  <1> HIDE DEF y
  <1>3. /\ z \in Session /\ z.token = x2 + 1 /\ z.turn = V!None /\ z.handsFree = x1.handsFree
        /\ (z.vad => x1.vad) /\ z.ptt
    BY <1>2 DEF Session
  <1>4. x1' = z
    BY DEF V!Press, z, y
  <1> HIDE DEF z
  <1>5. V!StopsChat \in BOOLEAN
    BY DEF V!StopsChat
  <1>6. /\ x8' \in Message \cup {V!Idle}
        /\ \A t \in Nat : (Chatting(t)' => Chatting(t)) /\ (Waiting(t)' => Waiting(t))
    BY <1>5, StoppedIs DEF V!Press
  <1>7. V!Silence /\ x9' = x9 /\ x2' = x2 + 1
    BY DEF V!Press
  <1>12. x2' \in Nat /\ x1'.token <= x2'
    BY <1>3, <1>4, <1>7 DEF VoiceTyped
  <1>13. x10' \in BOOLEAN
    <2>1. x10' = (x10 \/ x1.vad) /\ x1.vad \in BOOLEAN /\ x10 \in BOOLEAN
      BY DEF V!Press, VoiceTyped, Session
    <2> QED  BY <2>1
  <1>8. VoiceTyped' /\ VoiceFewer /\ x7' = <<>>
    BY <1>3, <1>4, <1>6, <1>7, <1>12, <1>13, SilencedSteps
  <1>9. VoiceBegins
    BY <1>3, <1>4, <1>7, <1>8 DEF VoiceBegins
  <1>10. ~x10' => Switches(x1')
    BY <1>3, <1>4 DEF V!Press, Switches
  <1> QED  BY <1>8, <1>9, <1>10, VoiceKeeps

\* What is spoken to the microphone is submitted: to the transcription lane, or given up.
LEMMA SubmitStep ==
  ASSUME VoiceTyped, NEW x \in Session, V!Submit(x), x.token = x1.token, x.turn = x1.turn,
         x.handsFree = x1.handsFree, ~x.ptt, ~x.mic, x.vad => x1.vad, x1.ptt \/ x1.vad,
         Switches(x1) => ~x.vad,
         UNCHANGED <<x2, x4, x5, x6, x7, x8, x9, x10>>
  PROVE  VoiceTyped' /\ (Sound => Sound')
  <1>1. CASE x3 = V!Idle /\ x.token # V!None /\ x3' = V!Live(x.token) /\ x1' = [x EXCEPT !.state = "transcribing"]
    <2>1. x1' \in Session /\ x1'.token = x1.token /\ x1'.turn = x1.turn /\ ~x1'.ptt /\ ~x1'.mic
          /\ x1'.vad = x.vad /\ x1.token # V!None
      BY <1>1 DEF Session
    <2>2. x3' \in Task /\ x3'.token = x1.token
      BY <1>1 DEF VoiceTyped, Session, Task, V!Live
    <2>3. VoiceTyped'
      BY <2>1, <2>2 DEF VoiceTyped
    <2>4. ASSUME Sound
          PROVE  Sound'
      <3>1. Switches(x1) /\ ~x.vad /\ x7 = <<>> /\ x1.turn = V!None
        BY <2>4, VoiceQuiet DEF Sound, Tuned
      <3>2. Tuned'
        BY <2>1, <3>1 DEF Tuned, Switches
      <3>3. \A t \in Nat : /\ Transcribing(t)' => Transcribing(t) \/ t = x1.token
                           /\ Synthesizing(t)' => Synthesizing(t)
                           /\ Chatting(t)' => Chatting(t)
                           /\ Waiting(t)' => Waiting(t)
        BY <2>2 DEF Transcribing, Synthesizing, Transcripts, Sentences, Chatting, Waiting
      <3>4. Known'
        <4>1. x2' = x2 /\ x2 \in Nat /\ x1.token \in Nat /\ x1.token <= x2
          BY DEF VoiceTyped, Session
        <4>2. ASSUME NEW t \in Nat, t > x2'
              PROVE  t > x2 /\ t # x1.token
          BY <4>1, <4>2
        <4> QED  BY <3>3, <4>2, <2>4 DEF Known, Sound
      <3>5. ASSUME NEW t \in Nat \ {V!None}, x1'.token = t
            PROVE  Forward(t)'
        <4>1. Forward(t)
          BY <2>1, <2>4, <3>5 DEF Sound
        <4>2. ~Transcribing(t) /\ ~Chatting(t) /\ ~Synthesizing(t) /\ ~Waiting(t)
          BY <4>1 DEF Forward, Waiting
        <4>3. Once(t)'
          <5>1. Elements(x9) \cap Transcripts(t) = {} /\ Single(x9, Transcripts(t))
            BY <4>1, <4>2 DEF Transcribing, Forward, Once
          <5> QED  BY <5>1 DEF Once, Transcripts
        <4> QED  BY <2>1, <3>1, <3>3, <4>2, <4>3 DEF Forward
      <3> QED  BY <3>2, <3>4, <3>5 DEF Sound
    <2> QED  BY <2>3, <2>4
  <1>2. CASE x1' = V!ResumeIdle(x) /\ UNCHANGED x3
    <2>1. x1.turn = V!None =>
            /\ x1' \in Session /\ x1'.token <= x2' /\ (Switches(x1) => Switches(x1'))
            /\ (x7' = <<>> => GoesOn)
      BY <1>2, IdleStep
    <2>2. x1' \in Session /\ x1'.token = x1.token
      BY <1>2, Resumed
    <2>3. VoiceTyped'
      BY <1>2, <2>2 DEF VoiceTyped
    <2>4. ASSUME Sound
          PROVE  Sound'
      <3>1. x7 = <<>> /\ x1.turn = V!None
        BY <2>4, VoiceQuiet
      <3>2. VoiceFewer
        BY <1>2, SameLanes, SameChat DEF VoiceFewer
      <3>3. Switches(x1') /\ GoesOn
        BY <2>1, <3>1, <2>4 DEF Sound, Tuned
      <3> QED  BY <2>3, <2>4, <3>2, <3>3, VoiceKeeps
    <2> QED  BY <2>3, <2>4
  <1> QED  BY <1>1, <1>2 DEF V!Submit

LEMMA ReleaseStep ==
  ASSUME VoiceTyped, V!Release
  PROVE  VoiceTyped' /\ (Sound => Sound')
  <1> DEFINE x == [x1 EXCEPT !.ptt = FALSE, !.mic = FALSE]
  <1>1. /\ x \in Session /\ x.token = x1.token /\ x.turn = x1.turn /\ x.handsFree = x1.handsFree
        /\ ~x.ptt /\ ~x.mic /\ x.vad = x1.vad
    BY DEF VoiceTyped, Session
  <1>2. V!Submit(x) /\ x1.ptt
    BY DEF V!Release
  <1>3. UNCHANGED <<x2, x4, x5, x6, x7, x8, x9, x10>>
    BY DEF V!Release
  <1> HIDE DEF x
  <1>4. Switches(x1) => ~x.vad
    BY <1>1, <1>2 DEF Switches
  <1> QED  BY <1>1, <1>2, <1>3, <1>4, SubmitStep

LEMMA SpeechEndStep ==
  ASSUME VoiceTyped, V!SpeechEnd
  PROVE  VoiceTyped' /\ (Sound => Sound')
  <1> DEFINE x == [x1 EXCEPT !.vad = FALSE, !.mic = FALSE]
  <1>1. /\ x \in Session /\ x.token = x1.token /\ x.turn = x1.turn /\ x.handsFree = x1.handsFree
        /\ x.ptt = x1.ptt /\ ~x.mic /\ ~x.vad
    BY DEF VoiceTyped, Session
  <1>2. V!Submit(x) /\ x1.vad /\ ~x1.ptt
    BY DEF V!SpeechEnd, V!Hears
  <1>3. UNCHANGED <<x2, x4, x5, x6, x7, x8, x9, x10>>
    BY DEF V!SpeechEnd
  <1> HIDE DEF x
  <1> QED  BY <1>1, <1>2, <1>3, SubmitStep

LEMMA SpeechStartStep ==
  ASSUME VoiceTyped, V!SpeechStart
  PROVE  VoiceTyped' /\ (Sound => Sound')
  <1> DEFINE x == [x1 EXCEPT !.vad = TRUE]
  <1>1. /\ x \in Session /\ x.token = x1.token /\ x.turn = x1.turn /\ x.handsFree = x1.handsFree
        /\ x.ptt = x1.ptt /\ x.mic = x1.mic /\ x.vad
    BY DEF VoiceTyped, Session
  <1>2. /\ x1.handsFree /\ ~x1.ptt /\ x2' = x2 + 1 /\ x9' = x9 /\ x10' = x10
        /\ \/ x1' = V!BeginTurn(V!Interrupted(x)) /\ x8' = V!StoppedChat(TRUE) /\ V!Silence
           \/ /\ x1' = V!BeginTurn(x) /\ UNCHANGED <<x8, V!lanes, x7>>
              /\ x1.state \notin {"thinking", "speaking"}
    BY DEF V!SpeechStart, V!Hears
  <1> HIDE DEF x
  <1>3. x2' \in Nat /\ x10' \in BOOLEAN
    BY <1>2 DEF VoiceTyped
  <1>4. CASE x1' = V!BeginTurn(V!Interrupted(x)) /\ x8' = V!StoppedChat(TRUE) /\ V!Silence
    <2>1. VoiceSilent(x, V!Interrupted(x))
      BY <1>1, InterruptedIs
    <2>2. /\ x1' \in Session /\ x1'.token = x2 + 1 /\ x1'.turn = V!None /\ x1'.handsFree /\ ~x1'.ptt
      BY <1>1, <1>2, <1>4, <2>1, Begun DEF VoiceSilent
    <2>3. /\ x8' \in Message \cup {V!Idle}
          /\ \A t \in Nat : (Chatting(t)' => Chatting(t)) /\ (Waiting(t)' => Waiting(t))
      BY <1>4, StoppedIs
    <2>4. x1'.token <= x2'
      BY <1>2, <2>2 DEF VoiceTyped
    <2>5. VoiceTyped' /\ VoiceFewer /\ x7' = <<>>
      BY <1>2, <1>3, <1>4, <2>2, <2>3, <2>4, SilencedSteps
    <2>6. VoiceBegins /\ Switches(x1')
      BY <1>2, <2>2, <2>5 DEF VoiceBegins, Switches
    <2> QED  BY <2>5, <2>6, VoiceKeeps
  <1>5. CASE x1' = V!BeginTurn(x) /\ UNCHANGED <<x8, V!lanes, x7>> /\ x1.state \notin {"thinking", "speaking"}
    <2>1. /\ x1' \in Session /\ x1'.token = x2 + 1 /\ x1'.turn = x1.turn /\ x1'.handsFree /\ ~x1'.ptt
      BY <1>1, <1>2, <1>5, Begun
    <2>2. x1'.token <= x2'
      BY <1>2, <2>1 DEF VoiceTyped
    <2>3. UNCHANGED <<x3, x4, x5, x6, x9, x8, x7>>
      BY <1>2, <1>5 DEF V!lanes
    <2>4. VoiceTyped'
      BY <1>3, <2>1, <2>2, <2>3 DEF VoiceTyped
    <2>5. ASSUME Sound
          PROVE  Sound'
      <3>1. x7 = <<>> /\ x1.turn = V!None
        BY <1>5, <2>5 DEF Sound, Tuned
      <3>2. VoiceBegins /\ Switches(x1')
        BY <1>2, <2>1, <2>3, <3>1 DEF VoiceBegins, Switches
      <3>3. VoiceFewer
        BY <2>3, SameLanes, SameChat DEF VoiceFewer
      <3> QED  BY <2>4, <2>5, <3>2, <3>3, VoiceKeeps
    <2> QED  BY <2>4, <2>5
  <1> QED  BY <1>2, <1>4, <1>5

LEMMA MicFailsStep ==
  ASSUME VoiceTyped, V!MicFails
  PROVE  VoiceTyped' /\ (Sound => Sound')
  <1>1. /\ x1.mic /\ UNCHANGED <<x2, x9, x10>>
        /\ \/ x1' = V!Off(V!Interrupted(x1)) /\ x8' = V!StoppedChat(x1.turn # V!None) /\ V!Silence
           \/ ~x1.handsFree /\ x1' = V!ResumeIdle(x1) /\ UNCHANGED <<x8, V!lanes, x7>>
    BY DEF V!MicFails
  <1>2. CASE x1' = V!Off(V!Interrupted(x1)) /\ x8' = V!StoppedChat(x1.turn # V!None) /\ V!Silence
    BY <1>1, <1>2, OffStep
  <1>3. CASE ~x1.handsFree /\ x1' = V!ResumeIdle(x1) /\ UNCHANGED <<x8, V!lanes, x7>>
    <2>1. x1 \in Session
      BY DEF VoiceTyped
    <2>2. x1' \in Session /\ x1'.token = x1.token
      BY <1>3, <2>1, Resumed
    <2>3. UNCHANGED <<x3, x4, x5, x6, x9, x8, x7>>
      BY <1>1, <1>3 DEF V!lanes
    <2>4. VoiceTyped'
      BY <1>1, <2>2, <2>3 DEF VoiceTyped
    <2>5. ASSUME Sound
          PROVE  Sound'
      <3>1. Switches(x1)
        BY <2>5 DEF Sound, Tuned
      <3>2. x7 = <<>> /\ x1.turn = V!None
        BY <1>1, <1>3, <2>5, <3>1, VoiceQuiet DEF Switches
      <3>3. GoesOn /\ Switches(x1')
        BY <1>1, <1>3, <2>1, <2>3, <3>1, <3>2, IdleStep
      <3>4. VoiceFewer
        BY <2>3, SameLanes, SameChat DEF VoiceFewer
      <3> QED  BY <2>4, <2>5, <3>3, <3>4, VoiceKeeps
    <2> QED  BY <2>4, <2>5
  <1> QED  BY <1>1, <1>2, <1>3

----------------------------------------
(* The workers. *)

\* The session, the chat and the playback are not disturbed by what happens in the lanes.
LEMMA LaneStep ==
  ASSUME VoiceTyped, VoiceTyped', UNCHANGED <<x1, x2, x7, x8>>,
         \A t \in Nat : /\ Transcribing(t)' => Transcribing(t)
                        /\ Synthesizing(t)' => Synthesizing(t)
                        /\ Once(t) => Once(t)'
  PROVE  Sound => Sound'
  <1> SUFFICES ASSUME Sound
               PROVE  Sound'
    OBVIOUS
  <1>1. VoiceFewer
    BY SameChat DEF VoiceFewer
  <1>2. Switches(x1')
    BY DEF Sound, Tuned
  <1>3. GoesOn
    <2>1. x2' >= x2
      BY DEF VoiceTyped
    <2> QED  BY <2>1 DEF Sound, Tuned, GoesOn
  <1> QED  BY <1>1, <1>2, <1>3, VoiceKeeps

LEMMA AsrEndsStep ==
  ASSUME VoiceTyped, V!AsrEnds
  PROVE  VoiceTyped' /\ (Sound => Sound')
  <1>1. PICK ev \in {"transcribed", "not_transcribed"} :
          x9' = IF x3.live THEN Append(x9, V!Event(ev, x3.token, 0)) ELSE x9
    BY DEF V!AsrEnds
  <1> DEFINE e == V!Event(ev, x3.token, 0)
  <1>2. e \in Signal /\ e.ev = ev /\ e.token = x3.token
    BY DEF VoiceTyped, Task, Signal, V!Event
  <1> HIDE DEF e
  <1>3. x3' \in Task /\ ~x3'.live /\ UNCHANGED <<x1, x2, x4, x5, x6, x7, x8, x10>>
    BY DEF V!AsrEnds, V!Idle, Task, V!None
  <1>4. x9 \in Seq(Signal)
    BY DEF VoiceTyped
  <1>5. CASE x3.live
    <2>1. x9' = Append(x9, e)
      BY <1>1, <1>5 DEF e
    <2>2. x9' \in Seq(Signal) /\ Elements(x9') = Elements(x9) \cup {e}
      BY <1>2, <1>4, <2>1, Appending
    <2>3. VoiceTyped'
      BY <1>3, <2>2 DEF VoiceTyped
    <2>4. ASSUME NEW t \in Nat
          PROVE  /\ Transcribing(t)' => Transcribing(t)
                 /\ Synthesizing(t)' => Synthesizing(t)
                 /\ Once(t) => Once(t)'
      <3>1. e \in Transcripts(t) <=> x3.token = t
        BY <1>1, <1>2 DEF Transcripts
      <3>2. e \notin Sentences(t)
        BY <1>1, <1>2 DEF Sentences
      <3>3. Transcripts(t)' = Transcripts(t) /\ Sentences(t)' = Sentences(t)
        BY DEF Transcripts, Sentences
      <3>4. Transcribing(t)' => Transcribing(t)
        BY <1>3, <1>5, <2>2, <3>1, <3>3 DEF Transcribing
      <3>5. Synthesizing(t)' => Synthesizing(t)
        BY <1>3, <2>2, <3>2, <3>3 DEF Synthesizing
      <3>6. ASSUME Once(t)
            PROVE  Once(t)'
        <4>1. e \in Transcripts(t) => \A d \in Elements(x9) : d \notin Transcripts(t)
          BY <1>5, <3>1, <3>6 DEF Once
        <4>2. Single(x9', Transcripts(t))
          BY <1>2, <1>4, <2>1, <3>6, <4>1, SingleAppend DEF Once
        <4> QED  BY <1>3, <3>3, <4>2 DEF Once
      <3> QED  BY <3>4, <3>5, <3>6
    <2> QED  BY <1>3, <2>3, <2>4, LaneStep
  <1>6. CASE ~x3.live
    <2>1. x9' = x9
      BY <1>1, <1>6
    <2>2. VoiceTyped'
      BY <1>3, <2>1 DEF VoiceTyped
    <2>3. \A t \in Nat : /\ Transcribing(t)' => Transcribing(t)
                         /\ Synthesizing(t)' => Synthesizing(t)
                         /\ Once(t) => Once(t)'
      BY <1>3, <2>1 DEF Transcribing, Synthesizing, Once, Transcripts, Sentences
    <2> QED  BY <1>3, <2>2, <2>3, LaneStep
  <1> QED  BY <1>5, <1>6

LEMMA TtsCompletesStep ==
  ASSUME VoiceTyped, V!TtsCompletes
  PROVE  VoiceTyped' /\ (Sound => Sound')
  <1>1. /\ x4' = V!Idle /\ x6 = V!Idle
        /\ x6' = [token |-> x4.token, live |-> x4.live, n |-> Len(x5)]
        /\ UNCHANGED <<x1, x2, x3, x5, x7, x8, x9, x10>>
    BY DEF V!TtsCompletes
  <1>2. x4 \in Task /\ Len(x5) \in Nat
    BY DEF VoiceTyped
  <1>3. /\ x6' \in Done /\ x6'.token = x4.token /\ x6'.live = x4.live
        /\ x4' \in Task /\ ~x4'.live
    BY <1>1, <1>2 DEF Done, Task, V!Idle, V!None
  <1>4. VoiceTyped'
    BY <1>1, <1>3 DEF VoiceTyped
  <1>5. \A t \in Nat : /\ Transcribing(t)' => Transcribing(t)
                       /\ Synthesizing(t)' => Synthesizing(t)
                       /\ Once(t) => Once(t)'
    BY <1>1, <1>3 DEF Transcribing, Synthesizing, Once, Transcripts, Sentences
  <1> QED  BY <1>1, <1>4, <1>5, LaneStep

\* Adding a queue of one element is appending it.
LEMMA AddLast ==
  ASSUME NEW S, NEW q \in Seq(S), NEW e \in S
  PROVE  q \o <<e>> = Append(q, e)
  OBVIOUS

LEMMA StartsNext ==
  ASSUME NEW q \in Seq(Task), V!StartNext(q), x4 \in Task
  PROVE  /\ x4' \in Task /\ x5' \in Seq(Task)
         /\ {x4'} \cup Elements(x5') \subseteq {x4} \cup Elements(q)
  <1>1. CASE x4 = V!Idle /\ q # <<>>
    <2>1. x4' = Head(q) /\ x5' = Tail(q)
      BY <1>1 DEF V!StartNext
    <2> QED  BY <1>1, <2>1, Taking
  <1>2. CASE ~(x4 = V!Idle /\ q # <<>>)
    BY <1>2 DEF V!StartNext
  <1> QED  BY <1>1, <1>2

LEMMA TtsSignalsStep ==
  ASSUME VoiceTyped, V!TtsSignals
  PROVE  VoiceTyped' /\ (Sound => Sound')
  <1>1. PICK ev \in {"synthesized", "not_synthesized"} :
          x9' = (IF x6.live THEN Append(x9, V!Event(ev, x6.token, 0)) ELSE x9)
                   \o <<V!Event("count", V!None, x6.n)>>
    BY DEF V!TtsSignals
  <1> DEFINE e == V!Event(ev, x6.token, 0)
             c == V!Event("count", V!None, x6.n)
             q == IF x6.live THEN Append(x9, e) ELSE x9
  <1>2. x6 \in Done /\ x9 \in Seq(Signal)
    BY DEF V!TtsSignals, VoiceTyped
  <1>3. e \in Signal /\ e.ev = ev /\ e.token = x6.token /\ c \in Signal /\ c.ev = "count"
    BY <1>2 DEF Done, Signal, V!Event, V!None
  <1>4. x9' = q \o <<c>>
    BY <1>1
  <1> HIDE DEF e, c
  <1>5. /\ q \in Seq(Signal) /\ Elements(x9) \subseteq Elements(q)
        /\ Elements(q) \subseteq Elements(x9) \cup (IF x6.live THEN {e} ELSE {})
    BY <1>2, <1>3, Appending
  <1>6. ASSUME NEW t, Single(x9, Transcripts(t))
        PROVE  Single(q, Transcripts(t))
    <2>1. e \notin Transcripts(t)
      BY <1>1, <1>3 DEF Transcripts
    <2> QED  BY <1>2, <1>3, <1>6, <2>1, SingleAppend
  <1> HIDE DEF q
  <1>7. x9' = Append(q, c)
    BY <1>3, <1>4, <1>5, AddLast
  <1>8. x9' \in Seq(Signal) /\ Elements(x9') = Elements(q) \cup {c}
    BY <1>3, <1>5, <1>7, Appending
  <1>9. /\ x6' = V!Idle /\ V!StartNext(x5) /\ x4 \in Task /\ x5 \in Seq(Task)
        /\ UNCHANGED <<x1, x2, x3, x7, x8, x10>>
    BY DEF V!TtsSignals, VoiceTyped
  <1>10. /\ x4' \in Task /\ x5' \in Seq(Task)
         /\ {x4'} \cup Elements(x5') \subseteq {x4} \cup Elements(x5)
    BY <1>9, StartsNext
  <1>11. VoiceTyped'
    BY <1>8, <1>9, <1>10 DEF VoiceTyped
  <1>12. ASSUME NEW t \in Nat
         PROVE  /\ Transcribing(t)' => Transcribing(t)
                /\ Synthesizing(t)' => Synthesizing(t)
                /\ Once(t) => Once(t)'
    <2>1. e \notin Transcripts(t) /\ c \notin Transcripts(t) /\ c \notin Sentences(t)
      BY <1>1, <1>3 DEF Transcripts, Sentences
    <2>2. e \in Sentences(t) => x6.token = t
      BY <1>3 DEF Sentences
    <2>3. Transcripts(t)' = Transcripts(t) /\ Sentences(t)' = Sentences(t)
      BY DEF Transcripts, Sentences
    <2>4. Elements(x9') \cap Transcripts(t) = Elements(x9) \cap Transcripts(t)
      BY <1>5, <1>8, <2>1
    <2>5. Transcribing(t)' => Transcribing(t)
      BY <1>9, <2>3, <2>4 DEF Transcribing
    <2>6. ASSUME Synthesizing(t)'
          PROVE  Synthesizing(t)
      <3>1. ~x6'.live
        BY <1>9 DEF V!Idle
      <3>2. CASE \E x \in {x4', x6'} \cup Elements(x5') : x.live /\ x.token = t
        BY <1>10, <3>1, <3>2 DEF Synthesizing
      <3>3. CASE Elements(x9') \cap Sentences(t) # {}
        <4>1. CASE Elements(x9) \cap Sentences(t) # {}
          BY <4>1 DEF Synthesizing
        <4>2. CASE x6.live /\ e \in Sentences(t)
          BY <2>2, <4>2 DEF Synthesizing
        <4> QED  BY <1>5, <1>8, <2>1, <3>3, <4>1, <4>2
      <3> QED  BY <2>3, <2>6, <3>2, <3>3 DEF Synthesizing
    <2>7. ASSUME Once(t)
          PROVE  Once(t)'
      <3>1. Single(q, Transcripts(t))
        BY <1>6, <2>7 DEF Once
      <3>2. Single(x9', Transcripts(t))
        BY <1>3, <1>5, <1>7, <2>1, <3>1, SingleAppend
      <3> QED  BY <1>9, <2>3, <2>4, <2>7, <3>2 DEF Once
    <2> QED  BY <2>5, <2>6, <2>7
  <1> QED  BY <1>9, <1>11, <1>12, LaneStep

----------------------------------------
(* Signals on the main thread. *)

LEMMA Takes ==
  ASSUME VoiceTyped, x9 # <<>>, x9' = Tail(x9), UNCHANGED <<x3, x4, x5, x6>>
  PROVE  /\ x9' \in Seq(Signal) /\ Head(x9) \in Signal
         /\ \A t \in Nat : /\ Transcribing(t)' => Transcribing(t)
                           /\ Synthesizing(t)' => Synthesizing(t)
                           /\ Once(t) => Once(t)'
                           /\ Head(x9) \in Transcripts(t)
                                => Transcribing(t) /\ (Once(t) => ~Transcribing(t)')
                           /\ Head(x9) \in Sentences(t) => Synthesizing(t)
  <1>1. x9 \in Seq(Signal)
    BY DEF VoiceTyped
  <1>2. /\ x9' \in Seq(Signal) /\ Head(x9) \in Signal
        /\ Elements(x9) = {Head(x9)} \cup Elements(x9')
    BY <1>1, Taking
  <1>3. ASSUME NEW t \in Nat
        PROVE  /\ Transcribing(t)' => Transcribing(t)
               /\ Synthesizing(t)' => Synthesizing(t)
               /\ Once(t) => Once(t)'
               /\ Head(x9) \in Transcripts(t) => Transcribing(t) /\ (Once(t) => ~Transcribing(t)')
               /\ Head(x9) \in Sentences(t) => Synthesizing(t)
    <2>1. Transcripts(t)' = Transcripts(t) /\ Sentences(t)' = Sentences(t)
      BY DEF Transcripts, Sentences
    <2>2. Transcribing(t)' => Transcribing(t)
      BY <1>2, <2>1 DEF Transcribing
    <2>3. Synthesizing(t)' => Synthesizing(t)
      BY <1>2, <2>1 DEF Synthesizing
    <2>4. Head(x9) \in Sentences(t) => Synthesizing(t)
      BY <1>2 DEF Synthesizing
    <2>5. Head(x9) \in Transcripts(t) => Transcribing(t)
      BY <1>2 DEF Transcribing
    <2>6. ASSUME Once(t)
          PROVE  /\ Single(x9', Transcripts(t))
                 /\ Head(x9) \in Transcripts(t) => \A d \in Elements(x9') : d \notin Transcripts(t)
      BY <1>1, <2>6, SingleTail DEF Once
    <2>7. ASSUME Once(t)
          PROVE  Once(t)'
      BY <1>2, <2>1, <2>6, <2>7 DEF Once
    <2>8. ASSUME Once(t), Head(x9) \in Transcripts(t)
          PROVE  ~Transcribing(t)'
      <3>1. ~(x3.live /\ x3.token = t)
        BY <1>2, <2>8 DEF Once
      <3> QED  BY <2>1, <2>6, <2>8, <3>1 DEF Transcribing
    <2> QED  BY <2>2, <2>3, <2>4, <2>5, <2>7, <2>8
  <1> QED  BY <1>2, <1>3

\* A signal that eases the session, or is late.
LEMMA EasingSignal ==
  ASSUME VoiceTyped, x9 # <<>>, x9' = Tail(x9),
         UNCHANGED <<x3, x4, x5, x6, x2, x10, x7, x8>>,
         Eases(x1, x1'), x7 = <<>> \/ Going(x1, x1')
  PROVE  VoiceTyped' /\ (Sound => Sound')
  <1>1. /\ x9' \in Seq(Signal)
        /\ \A t \in Nat : /\ Transcribing(t)' => Transcribing(t)
                          /\ Synthesizing(t)' => Synthesizing(t)
                          /\ Once(t) => Once(t)'
    BY Takes
  <1>2. x1' \in Session /\ x1'.token <= x2' /\ (Tuned => Switches(x1') /\ (GoesOn \/ Ends))
    BY EasedStep
  <1>3. VoiceTyped'
    BY <1>1, <1>2 DEF VoiceTyped
  <1>4. VoiceFewer
    BY <1>1, SameChat DEF VoiceFewer
  <1> QED  BY <1>2, <1>3, <1>4, VoiceKeeps DEF Sound

LEMMA OnTranscribedStep ==
  ASSUME VoiceTyped, x9 # <<>>, x9' = Tail(x9),
         UNCHANGED <<x3, x4, x5, x6, x2, x10>>, V!OnTranscribed(Head(x9))
  PROVE  VoiceTyped' /\ (Sound => Sound')
  <1> DEFINE e == Head(x9)
             x == [x1 EXCEPT !.turn = V!None, !.complete = FALSE, !.state = "thinking"]
  <1>0. PICK t \in Nat \ {V!None} : t = x1.token
    BY DEF V!OnTranscribed, V!Accepts, VoiceTyped, Session
  <1>1. e \in Signal /\ e.ev = "transcribed" /\ e.token = t /\ t \in Nat \ {V!None} /\ x7' = x7
    BY <1>0, Takes DEF V!OnTranscribed, V!Accepts, VoiceTyped, Session
  <1>2. /\ x9' \in Seq(Signal)
        /\ \A u \in Nat : /\ Transcribing(u)' => Transcribing(u)
                          /\ Synthesizing(u)' => Synthesizing(u)
                          /\ Once(u) => Once(u)'
        /\ Transcribing(t) /\ (Once(t) => ~Transcribing(t)')
    <2>1. e \in Transcripts(t) /\ t \in Nat
      BY <1>1 DEF Transcripts
    <2> QED  BY <2>1, Takes
  <1>3. /\ x \in Session /\ x.token = t /\ x.turn = V!None /\ x.handsFree = x1.handsFree
        /\ x.ptt = x1.ptt /\ x.vad = x1.vad /\ x.state = "thinking"
    BY <1>0 DEF VoiceTyped, Session, V!None
  <1>4. \/ /\ x8 = V!Idle /\ x8' = [token |-> e.token, phase |-> "preparing"]
           /\ x1' = [x EXCEPT !.mic = x.handsFree]
        \/ x1' = V!ResumeIdle(x) /\ x8' = x8
    BY DEF V!OnTranscribed
  <1>5. t <= x2 /\ x2 \in Nat
    BY <1>0 DEF VoiceTyped
  <1> HIDE DEF e, x
  <1>6. CASE /\ x8 = V!Idle /\ x8' = [token |-> e.token, phase |-> "preparing"]
             /\ x1' = [x EXCEPT !.mic = x.handsFree]
    <2>1. x8' \in Message /\ x8'.token = t /\ x8'.phase = "preparing"
      BY <1>1, <1>6 DEF Message
    <2>2. /\ x1' \in Session /\ x1'.token = t /\ x1'.turn = V!None /\ x1'.handsFree = x1.handsFree
          /\ x1'.ptt = x1.ptt /\ x1'.vad = x1.vad /\ x1'.state = "thinking" /\ x1'.mic = x1.handsFree
      BY <1>3, <1>6 DEF Session
    <2>3. VoiceTyped'
      BY <1>1, <1>2, <1>5, <2>1, <2>2 DEF VoiceTyped
    <2>4. ASSUME Sound
          PROVE  Sound'
      <3>1. Forward(t)
        BY <1>0, <1>1, <2>4 DEF Sound
      <3>2. ~x1.ptt /\ ~x1.vad /\ ~Synthesizing(t) /\ x7 = <<>> /\ Once(t)
        BY <1>2, <3>1 DEF Forward
      <3>3. Tuned'
        BY <1>1, <2>2, <3>2 DEF Tuned, Switches
      <3>4. Known'
        <4>1. ASSUME NEW u \in Nat, u > x2'
              PROVE  u > x2 /\ u # t
          BY <1>5, <4>1
        <4>2. \A u \in Nat : Chatting(u)' => u = t
          BY <2>1 DEF Chatting
        <4> QED  BY <1>2, <2>4, <4>1, <4>2 DEF Sound, Known
      <3>5. Forward(t)'
        BY <1>1, <1>2, <2>2, <3>2 DEF Forward
      <3> QED  BY <2>2, <3>3, <3>4, <3>5 DEF Sound
    <2> QED  BY <2>3, <2>4
  <1>7. CASE x1' = V!ResumeIdle(x) /\ x8' = x8
    <2>1. /\ x1' \in Session /\ x1'.token <= x2' /\ (Switches(x1) => Switches(x1'))
          /\ x7' = <<>> => GoesOn
      BY <1>0, <1>3, <1>7, IdleStep
    <2>2. VoiceTyped'
      BY <1>1, <1>2, <1>7, <2>1 DEF VoiceTyped
    <2>3. ASSUME Sound
          PROVE  Sound'
      <3>1. x7' = <<>>
        BY <1>0, <1>1, <1>2, <2>3 DEF Sound, Forward
      <3>2. VoiceFewer
        BY <1>2, <1>7, SameChat DEF VoiceFewer
      <3> QED  BY <2>1, <2>2, <2>3, <3>1, <3>2, VoiceKeeps DEF Sound, Tuned
    <2> QED  BY <2>2, <2>3
  <1> QED  BY <1>4, <1>6, <1>7

LEMMA OnNotTranscribedStep ==
  ASSUME VoiceTyped, x9 # <<>>, x9' = Tail(x9),
         UNCHANGED <<x3, x4, x5, x6, x2, x10>>, V!OnNotTranscribed(Head(x9))
  PROVE  VoiceTyped' /\ (Sound => Sound')
  <1> DEFINE e == Head(x9)
             t == x1.token
  <1>1. /\ e \in Signal /\ e.ev = "not_transcribed" /\ e.token = t /\ t \in Nat \ {V!None}
        /\ UNCHANGED <<x7, x8>> /\ x1' = V!ResumeIdle(x1)
    BY Takes DEF V!OnNotTranscribed, V!Accepts, VoiceTyped, Session
  <1>2. /\ x9' \in Seq(Signal)
        /\ \A u \in Nat : /\ Transcribing(u)' => Transcribing(u)
                          /\ Synthesizing(u)' => Synthesizing(u)
                          /\ Once(u) => Once(u)'
        /\ Transcribing(t)
    BY <1>1, Takes DEF Transcripts
  <1>3. x1 \in Session
    BY DEF VoiceTyped
  <1>4. x1' \in Session /\ x1'.token = x1.token
    BY <1>1, <1>3, Resumed
  <1>5. VoiceTyped'
    BY <1>1, <1>2, <1>4 DEF VoiceTyped
  <1>6. ASSUME Sound
        PROVE  Sound'
    <2>1. x7' = <<>> /\ x1.turn = V!None
      BY <1>1, <1>2, <1>6 DEF Sound, Forward
    <2>2. GoesOn /\ (Switches(x1) => Switches(x1'))
      BY <1>1, <1>3, <2>1, IdleStep
    <2>3. VoiceFewer
      BY <1>1, <1>2, SameChat DEF VoiceFewer
    <2> QED  BY <1>5, <1>6, <2>2, <2>3, VoiceKeeps DEF Sound, Tuned
  <1> QED  BY <1>5, <1>6

LEMMA OnSynthesizedStep ==
  ASSUME VoiceTyped, x9 # <<>>, x9' = Tail(x9),
         UNCHANGED <<x3, x4, x5, x6, x2, x10>>, V!OnSynthesized(Head(x9))
  PROVE  VoiceTyped' /\ (Sound => Sound')
  <1> DEFINE e == Head(x9)
             t == x1.token
  <1>1. e \in Signal /\ e.ev = "synthesized" /\ e.token = t /\ t \in Nat \ {V!None} /\ x8' = x8
    BY Takes DEF V!OnSynthesized, V!Heard, V!Accepts, VoiceTyped, Session
  <1>2. /\ x9' \in Seq(Signal)
        /\ \A u \in Nat : /\ Transcribing(u)' => Transcribing(u)
                          /\ Synthesizing(u)' => Synthesizing(u)
                          /\ Once(u) => Once(u)'
        /\ Synthesizing(t)
    BY <1>1, Takes DEF Sentences
  <1>3. \/ /\ x7' = Append(x7, t)
           /\ x1' = IF x7 = <<>> /\ V!Accepts(t) THEN [x1 EXCEPT !.state = "speaking"] ELSE x1
        \/ UNCHANGED <<x1, x7>>
    BY <1>1 DEF V!OnSynthesized
  <1>4. x1 \in Session /\ x7 \in Seq(Nat) /\ x2 \in Nat /\ t <= x2
    BY DEF VoiceTyped
  <1> HIDE DEF e
  <1>5. CASE /\ x7' = Append(x7, t)
             /\ x1' = IF x7 = <<>> /\ V!Accepts(t) THEN [x1 EXCEPT !.state = "speaking"] ELSE x1
    <2>1. /\ x7' \in Seq(Nat) /\ x7' # <<>> /\ Elements(x7') = Elements(x7) \cup {t}
      BY <1>1, <1>4, <1>5, Appending
    <2>2. V!Accepts(t)
      BY <1>1 DEF V!Accepts
    <2>3. /\ x1' \in Session /\ x1'.token = t /\ x1'.turn = x1.turn /\ x1'.handsFree = x1.handsFree
          /\ x1'.ptt = x1.ptt /\ x1'.vad = x1.vad /\ x1'.mic = x1.mic
          /\ IF x7 = <<>> THEN x1'.state = "speaking" ELSE x1'.state = x1.state
      <3>1. CASE x7 = <<>>
        BY <1>4, <1>5, <2>2, <3>1 DEF Session
      <3>2. CASE x7 # <<>>
        BY <1>4, <1>5, <3>2
      <3> QED  BY <3>1, <3>2
    <2>4. VoiceTyped'
      BY <1>1, <1>2, <1>4, <2>1, <2>3 DEF VoiceTyped
    <2>5. ASSUME Sound
          PROVE  Sound'
      <3>1. Forward(t)
        BY <1>1, <2>5 DEF Sound
      <3>2. ~x1.ptt /\ ~x1.vad /\ ~Transcribing(t) /\ ~Waiting(t) /\ Once(t)
        BY <1>2, <3>1 DEF Forward
      <3>3. Tuned'
        <4>1. x7 # <<>> => \A p \in Elements(x7) : p = t
          BY <2>5 DEF Sound, Tuned
        <4>2. x7 = <<>> => Elements(x7) = {}
          BY EmptyQueue
        <4>3. \A p \in Elements(x7') : p = t
          BY <2>1, <4>1, <4>2
        <4>4. x1'.state \in {"thinking", "speaking"}
          BY <2>3, <2>5 DEF Sound, Tuned
        <4> QED  BY <1>1, <2>3, <2>5, <4>3, <4>4 DEF Sound, Tuned, Switches
      <3>4. \A u \in Nat : (Chatting(u)' <=> Chatting(u)) /\ (Waiting(u)' <=> Waiting(u))
        BY <1>1, SameChat
      <3>5. Known'
        BY <1>2, <2>5, <3>4 DEF Sound, Known
      <3>6. Forward(t)'
        BY <1>1, <1>2, <2>3, <3>2, <3>4 DEF Forward
      <3> QED  BY <2>3, <3>3, <3>5, <3>6 DEF Sound
    <2> QED  BY <2>4, <2>5
  <1>6. CASE UNCHANGED <<x1, x7>>
    <2>1. Eases(x1, x1') /\ Going(x1, x1')
      BY <1>4, <1>6 DEF Eases, Going
    <2> QED  BY <1>1, <1>6, <2>1, EasingSignal
  <1> QED  BY <1>3, <1>5, <1>6

LEMMA HandleStep ==
  ASSUME VoiceTyped, V!Handle
  PROVE  VoiceTyped' /\ (Sound => Sound')
  <1> DEFINE e == Head(x9)
  <1>1. /\ x9 # <<>> /\ x9' = Tail(x9) /\ UNCHANGED <<x3, x4, x5, x6, x2, x10>>
        /\ \/ V!OnTranscribed(e) \/ V!OnNotTranscribed(e) \/ V!OnNotSynthesized(e) \/ V!OnCount(e) \/ V!OnLate(e)
           \/ V!OnSynthesized(e) \/ V!OnUnplayable(e)
    BY DEF V!Handle, V!lanes
  <1>2. e \in Signal /\ x1 \in Session /\ Len(x7) \in Nat /\ x7 \in Seq(Nat)
    BY <1>1, Takes DEF VoiceTyped
  <1>3. CASE V!OnTranscribed(e)
    BY <1>1, <1>3, OnTranscribedStep
  <1>4. CASE V!OnNotTranscribed(e)
    BY <1>1, <1>4, OnNotTranscribedStep
  <1>5. CASE V!OnSynthesized(e)
    BY <1>1, <1>5, OnSynthesizedStep
  <1>6. CASE V!OnLate(e)
    <2>1. Eases(x1, x1') /\ Going(x1, x1') /\ UNCHANGED <<x7, x8>>
      BY <1>2, <1>6 DEF Eases, Going, V!OnLate
    <2> QED  BY <1>1, <2>1, EasingSignal
  <1>7. CASE V!OnUnplayable(e)
    <2>1. Eases(x1, x1') /\ x7 = <<>> /\ UNCHANGED <<x7, x8>>
      BY <1>2, <1>7, ForceEases DEF V!OnUnplayable
    <2> QED  BY <1>1, <2>1, EasingSignal
  <1>8. x7 # <<>> => Len(x7) # 0
    BY <1>2
  <1>9. CASE V!OnNotSynthesized(e)
    <2>1. x1' = V!MaybeFinish(x1, Len(x7)) /\ UNCHANGED <<x7, x8>>
      BY <1>9 DEF V!OnNotSynthesized
    <2>2. Eases(x1, x1') /\ (x7 = <<>> \/ Going(x1, x1'))
      BY <1>2, <1>8, <2>1, FinishEases
    <2> QED  BY <1>1, <2>1, <2>2, EasingSignal
  <1>10. CASE V!OnCount(e)
    <2> DEFINE z == [x1 EXCEPT !.count = e.n]
    <2>1. x1' = V!MaybeFinish(z, Len(x7)) /\ UNCHANGED <<x7, x8>>
      BY <1>10 DEF V!OnCount, V!Counted
    <2>2. Eases(x1, z) /\ Going(x1, z) /\ z \in Session
      BY <1>2 DEF Eases, Going, Session, Signal, Switches
    <2> HIDE DEF z
    <2>3. Eases(z, x1') /\ (x7 = <<>> \/ Going(z, x1'))
      BY <1>2, <1>8, <2>1, <2>2, FinishEases
    <2>4. Eases(x1, x1') /\ (x7 = <<>> \/ Going(x1, x1'))
      BY <2>2, <2>3, EasesOn DEF Going
    <2> QED  BY <1>1, <2>1, <2>4, EasingSignal
  <1> QED  BY <1>1, <1>3, <1>4, <1>5, <1>6, <1>7, <1>9, <1>10

----------------------------------------
(* Playback. *)

LEMMA ItemEndsStep ==
  ASSUME VoiceTyped, V!ItemEnds
  PROVE  VoiceTyped' /\ (Sound => Sound')
  <1>1. /\ x7 # <<>> /\ x7' = Tail(x7)
        /\ UNCHANGED <<x2, x3, x4, x5, x6, x8, x9, x10>>
        /\ x1' = IF ~V!Accepts(Head(x7)) THEN x1
                ELSE IF Tail(x7) = <<>> THEN V!PlaybackEmpty(x1) ELSE [x1 EXCEPT !.state = "speaking"]
    BY DEF V!ItemEnds, V!lanes
  <1>2. x1 \in Session /\ x7 \in Seq(Nat)
    BY DEF VoiceTyped
  <1>3. x7' \in Seq(Nat) /\ Elements(x7') \subseteq Elements(x7)
    BY <1>1, <1>2, Taking
  <1>4. Eases(x1, x1') /\ (x7' = <<>> \/ Going(x1, x1'))
    <2>1. CASE x1' = x1
      BY <1>2, <2>1 DEF Eases, Going
    <2>2. CASE x1' = [x1 EXCEPT !.state = "speaking"]
      BY <1>2, <2>2 DEF Eases, Going, Session, Switches
    <2>3. CASE Tail(x7) = <<>> /\ x1' = V!PlaybackEmpty(x1)
      <3> DEFINE z == IF x1.complete THEN x1 ELSE [x1 EXCEPT !.state = "thinking"]
      <3>1. z \in Session /\ Eases(x1, z)
        <4>1. CASE x1.complete
          BY <1>2, <4>1 DEF Eases, Going
        <4>2. CASE ~x1.complete
          BY <1>2, <4>2 DEF Eases, Going, Session, Switches
        <4> QED  BY <4>1, <4>2
      <3>2. x1' = V!MaybeFinish(z, 0)
        BY <2>3 DEF V!PlaybackEmpty
      <3> HIDE DEF z
      <3>3. Eases(z, x1')
        BY <3>1, <3>2, FinishEases
      <3> QED  BY <1>1, <2>3, <3>1, <3>3, EasesOn
    <2>4. CASE ~V!Accepts(Head(x7))
      BY <1>1, <2>1, <2>4
    <2>5. CASE V!Accepts(Head(x7)) /\ Tail(x7) = <<>>
      BY <1>1, <2>3, <2>5
    <2>6. CASE V!Accepts(Head(x7)) /\ Tail(x7) # <<>>
      BY <1>1, <2>2, <2>6
    <2> QED  BY <2>4, <2>5, <2>6
  <1>5. x1' \in Session /\ x1'.token <= x2' /\ (Tuned => Switches(x1') /\ (GoesOn \/ Ends))
    BY <1>1, <1>3, <1>4, EasedStep
  <1>6. VoiceTyped'
    BY <1>1, <1>3, <1>5 DEF VoiceTyped
  <1>7. VoiceFewer
    BY <1>1, SameLanes, SameChat DEF VoiceFewer
  <1> QED  BY <1>5, <1>6, <1>7, VoiceKeeps DEF Sound

LEMMA PlaybackFailsStep ==
  ASSUME VoiceTyped, V!PlaybackFails
  PROVE  VoiceTyped' /\ (Sound => Sound')
  <1>1. /\ x7' = <<>> /\ x1' = V!ForceFinish(x1)
        /\ UNCHANGED <<x2, x3, x4, x5, x6, x8, x9, x10>>
    BY DEF V!PlaybackFails, V!lanes
  <1>2. x1 \in Session
    BY DEF VoiceTyped
  <1>3. Eases(x1, x1') /\ Elements(x7') = {} /\ x7' \in Seq(Nat)
    BY <1>1, <1>2, ForceEases, EmptyQueue
  <1>4. x1' \in Session /\ x1'.token <= x2' /\ (Tuned => Switches(x1') /\ (GoesOn \/ Ends))
    BY <1>1, <1>3, EasedStep
  <1>5. VoiceTyped'
    BY <1>1, <1>3, <1>4 DEF VoiceTyped
  <1>6. VoiceFewer
    BY <1>1, SameLanes, SameChat DEF VoiceFewer
  <1> QED  BY <1>4, <1>5, <1>6, VoiceKeeps DEF Sound

----------------------------------------
(* The chat. *)

LEMMA ChatStartsStep ==
  ASSUME VoiceTyped, V!ChatStarts
  PROVE  VoiceTyped' /\ (Sound => Sound')
  <1>0. PICK t \in Nat \ {V!None} : t = x8.token
    BY DEF V!ChatStarts, VoiceTyped, Message
  <1>1. /\ x8 # V!Idle /\ x8.phase = "preparing" /\ x8' = [x8 EXCEPT !.phase = "running"]
        /\ UNCHANGED <<x2, x9, x10>>
        /\ \/ V!Accepts(t) /\ x1' = [x1 EXCEPT !.turn = t] /\ UNCHANGED <<V!lanes, x7>> /\ x1.state = "thinking"
           \/ x1' = V!Off(V!Interrupted(x1)) /\ V!Silence
    BY <1>0 DEF V!ChatStarts
  <1>2. x8 \in Message /\ x1 \in Session /\ x2 \in Nat /\ x1.token <= x2 /\ x10 \in BOOLEAN
    BY <1>1 DEF VoiceTyped
  <1>3. x8' \in Message /\ x8'.token = t /\ x8'.phase = "running" /\ t \in Nat \ {V!None}
    BY <1>0, <1>1, <1>2 DEF Message
  <1>4. \A u \in Nat : (Chatting(u)' => Chatting(u)) /\ ~Waiting(u)'
    BY <1>0, <1>1, <1>3 DEF Chatting, Waiting
  <1>5. CASE V!Accepts(t) /\ x1' = [x1 EXCEPT !.turn = t] /\ UNCHANGED <<V!lanes, x7>> /\ x1.state = "thinking"
    <2>1. x1.token = t
      BY <1>5 DEF V!Accepts
    <2>2. /\ x1' \in Session /\ x1'.token = t /\ x1'.turn = t /\ x1'.handsFree = x1.handsFree
          /\ x1'.ptt = x1.ptt /\ x1'.vad = x1.vad /\ x1'.mic = x1.mic /\ x1'.state = x1.state
      BY <1>2, <1>3, <1>5, <2>1 DEF Session
    <2>3. UNCHANGED <<x3, x4, x5, x6, x9, x7>>
      BY <1>1, <1>5 DEF V!lanes
    <2>4. VoiceTyped'
      BY <1>1, <1>2, <1>3, <2>1, <2>2, <2>3 DEF VoiceTyped
    <2>5. ASSUME Sound
          PROVE  Sound'
      <3>1. Forward(t) /\ Waiting(t) /\ Chatting(t)
        BY <1>0, <1>1, <1>3, <2>1, <2>5 DEF Sound, Waiting, Chatting
      <3>2. ~x1.ptt /\ ~x1.vad /\ ~Synthesizing(t) /\ x7 = <<>> /\ Once(t) /\ ~Transcribing(t)
        BY <3>1 DEF Forward
      <3>3. \A u \in Nat : /\ Transcribing(u)' <=> Transcribing(u)
                           /\ Synthesizing(u)' <=> Synthesizing(u)
                           /\ Once(u)' <=> Once(u)
        BY <2>3, SameLanes
      <3>4. Tuned'
        <4>1. x7' = <<>>
          BY <2>3, <3>2
        <4> QED  BY <1>5, <2>1, <2>2, <2>5, <4>1 DEF Sound, Tuned, Switches
      <3>5. Known'
        BY <1>1, <1>4, <2>5, <3>3 DEF Sound, Known
      <3>6. Forward(t)'
        BY <1>3, <1>4, <2>2, <3>2, <3>3 DEF Forward
      <3> QED  BY <2>2, <3>4, <3>5, <3>6 DEF Sound
    <2> QED  BY <2>4, <2>5
  <1>6. CASE x1' = V!Off(V!Interrupted(x1)) /\ V!Silence
    <2>1. VoiceSilent(x1, V!Interrupted(x1))
      BY <1>2, InterruptedIs
    <2>2. /\ x1' \in Session /\ x1'.token = V!None /\ x1'.turn = V!None /\ ~x1'.ptt /\ ~x1'.vad /\ ~x1'.mic
      BY <1>6, <2>1, OffIs DEF VoiceSilent
    <2>3. x1'.token <= x2' /\ x2' \in Nat /\ x2' >= x2
      BY <1>1, <1>2, <2>2 DEF V!None
    <2>4. VoiceTyped' /\ VoiceFewer /\ x7' = <<>>
      BY <1>1, <1>2, <1>3, <1>4, <1>6, <2>2, <2>3, SilencedSteps
    <2>5. Ends /\ Switches(x1')
      BY <2>2, <2>3, <2>4 DEF Ends, Switches
    <2> QED  BY <2>4, <2>5, VoiceKeeps
  <1> QED  BY <1>1, <1>5, <1>6

LEMMA ChatRefusedStep ==
  ASSUME VoiceTyped, V!ChatRefused
  PROVE  VoiceTyped' /\ (Sound => Sound')
  <1> DEFINE t == x8.token
  <1>1. /\ x8 # V!Idle /\ x8.phase = "preparing" /\ x8' = V!Idle
        /\ UNCHANGED <<x2, x3, x4, x5, x6, x7, x9, x10>>
        /\ x1' = IF V!Accepts(t) THEN V!ResumeIdle(x1) ELSE x1
    BY DEF V!ChatRefused, V!lanes
  <1>2. x8 \in Message /\ x1 \in Session /\ x2 \in Nat
    BY <1>1 DEF VoiceTyped
  <1>3. VoiceFewer
    <2>1. \A u \in Nat : ~Chatting(u)' /\ ~Waiting(u)'
      BY <1>1 DEF Chatting, Waiting
    <2> QED  BY <1>1, <2>1, SameLanes DEF VoiceFewer
  <1>4. x1' \in Session /\ x1'.token = x1.token
    BY <1>1, <1>2, Resumed
  <1>5. VoiceTyped'
    BY <1>1, <1>4 DEF VoiceTyped
  <1>6. CASE V!Accepts(t)
    <2>1. x1' = V!ResumeIdle(x1) /\ x1.token = t /\ t \in Nat \ {V!None}
      BY <1>1, <1>2, <1>6 DEF V!Accepts, Message
    <2>2. ASSUME Sound
          PROVE  Sound'
      <3>1. Forward(t) /\ Waiting(t)
        BY <1>1, <2>1, <2>2 DEF Sound, Waiting, Chatting
      <3>2. x7' = <<>> /\ x1.turn = V!None
        BY <1>1, <3>1 DEF Forward
      <3>3. GoesOn /\ (Switches(x1) => Switches(x1'))
        BY <1>1, <1>2, <2>1, <3>2, IdleStep
      <3> QED  BY <1>3, <1>5, <2>2, <3>3, VoiceKeeps DEF Sound, Tuned
    <2> QED  BY <1>5, <2>2
  <1>7. CASE ~V!Accepts(t)
    <2>1. x1' = x1
      BY <1>1, <1>7
    <2>2. Eases(x1, x1') /\ Going(x1, x1')
      BY <1>2, <2>1 DEF Eases, Going
    <2>3. Tuned => Switches(x1') /\ (GoesOn \/ Ends)
      BY <1>1, <2>2, EasedStep
    <2> QED  BY <1>3, <1>5, <2>3, VoiceKeeps DEF Sound
  <1> QED  BY <1>6, <1>7

LEMMA SentenceStep ==
  ASSUME VoiceTyped, V!Sentence
  PROVE  VoiceTyped' /\ (Sound => Sound')
  <1>0. PICK t \in Nat : t = x1.token
    BY DEF VoiceTyped, Session
  <1>1. /\ x8 # V!Idle /\ x1.turn = x8.token /\ t # V!None /\ x8' = [x8 EXCEPT !.phase = "replying"]
        /\ V!Enqueue(x1) /\ UNCHANGED <<x2, x3, x6, x7, x9, x10>>
    BY <1>0 DEF V!Sentence, V!Listening
  <1>2. /\ x8 \in Message /\ x1 \in Session /\ x2 \in Nat /\ t <= x2 /\ t \in Nat
        /\ x4 \in Task /\ x5 \in Seq(Task)
    BY <1>0, <1>1 DEF VoiceTyped, Session
  <1>3. x8' \in Message /\ x8'.token = x8.token /\ x8'.phase = "replying" /\ x1.turn # V!None
    BY <1>1, <1>2 DEF Message
  <1>4. \A u \in Nat : (Chatting(u)' => Chatting(u)) /\ ~Waiting(u)'
    BY <1>1, <1>3 DEF Chatting, Waiting
  <1>5. V!Live(t) \in Task /\ V!Live(t).token = t
    BY <1>2 DEF V!Live, Task
  <1>6. /\ x4' \in Task /\ x5' \in Seq(Task)
        /\ {x4'} \cup Elements(x5') \subseteq {x4, V!Live(t)} \cup Elements(x5)
        /\ x1' = x1 \/ x1' = [x1 EXCEPT !.count = V!InLane + 1]
    <2>1. CASE x1' = x1 /\ UNCHANGED <<x4, x5>>
      BY <1>2, <2>1
    <2>2. CASE x1' = [x1 EXCEPT !.count = V!InLane + 1] /\ V!StartNext(Append(x5, V!Live(t)))
      <3>1. /\ Append(x5, V!Live(t)) \in Seq(Task)
            /\ Elements(Append(x5, V!Live(t))) = Elements(x5) \cup {V!Live(t)}
        BY <1>2, <1>5, Appending
      <3> QED  BY <1>2, <2>2, <3>1, StartsNext
    <2> QED  BY <1>1, <1>0, <2>1, <2>2 DEF V!Enqueue
  <1>7. V!InLane + 1 \in Nat
    BY <1>2 DEF V!InLane
  <1>8. Going(x1, x1') /\ x1' \in Session /\ x1'.handsFree = x1.handsFree /\ x1'.mic = x1.mic
        /\ x1'.ptt = x1.ptt /\ x1'.vad = x1.vad /\ x1'.state = x1.state
    BY <1>2, <1>6, <1>7 DEF Going, Session
  <1>9. VoiceTyped'
    BY <1>1, <1>2, <1>3, <1>6, <1>8 DEF VoiceTyped, Going
  <1>10. ASSUME Sound
         PROVE  Sound'
    <2>1. Forward(t) /\ x1.turn = t
      BY <1>0, <1>1, <1>2, <1>3, <1>10 DEF Sound, Tuned
    <2>2. ~x1.ptt /\ ~x1.vad /\ ~Transcribing(t) /\ Once(t)
      BY <1>3, <2>1 DEF Forward
    <2>3. \A u \in Nat : /\ Transcribing(u)' <=> Transcribing(u)
                         /\ Once(u)' <=> Once(u)
      BY <1>1 DEF Transcribing, Once, Transcripts
    <2>4. \A u \in Nat : Synthesizing(u)' => Synthesizing(u) \/ u = t
      BY <1>1, <1>5, <1>6 DEF Synthesizing, Sentences
    <2>5. Tuned'
      BY <1>1, <1>8, <1>10 DEF Sound, Tuned, Switches, Going
    <2>6. Known'
      <3>1. ASSUME NEW u \in Nat, u > x2'
            PROVE  u > x2 /\ u # t
        BY <1>1, <1>2, <3>1
      <3> QED  BY <1>4, <1>10, <2>3, <2>4, <3>1 DEF Sound, Known
    <2>7. Forward(t)'
      BY <1>2, <1>4, <1>8, <2>2, <2>3 DEF Forward
    <2> QED  BY <1>0, <1>8, <2>5, <2>6, <2>7 DEF Sound, Going
  <1> QED  BY <1>9, <1>10

LEMMA ChatCompletesStep ==
  ASSUME VoiceTyped, V!ChatCompletes
  PROVE  VoiceTyped' /\ (Sound => Sound')
  <1>1. /\ x8' = V!Idle
        /\ UNCHANGED <<x2, x3, x4, x5, x6, x7, x9, x10>>
        /\ x1' = x1 \/ x1' = V!MaybeFinish([x1 EXCEPT !.complete = TRUE], Len(x7))
    BY DEF V!ChatCompletes, V!lanes
  <1>2. x1 \in Session /\ Len(x7) \in Nat /\ x7 \in Seq(Nat)
    BY DEF VoiceTyped
  <1>3. VoiceFewer
    <2>1. \A u \in Nat : ~Chatting(u)' /\ ~Waiting(u)'
      BY <1>1 DEF Chatting, Waiting
    <2> QED  BY <1>1, <2>1, SameLanes DEF VoiceFewer
  <1>4. Eases(x1, x1') /\ (x7 = <<>> \/ Going(x1, x1'))
    <2> DEFINE z == [x1 EXCEPT !.complete = TRUE]
    <2>1. Eases(x1, z) /\ Going(x1, z) /\ z \in Session
      BY <1>2 DEF Eases, Going, Session, Switches
    <2>2. Eases(x1, x1) /\ Going(x1, x1)
      BY <1>2 DEF Eases, Going
    <2>3. x1' = x1 \/ x1' = V!MaybeFinish(z, Len(x7))
      BY <1>1
    <2> HIDE DEF z
    <2>4. x7 # <<>> => Len(x7) # 0
      BY <1>2
    <2>5. CASE x1' = V!MaybeFinish(z, Len(x7))
      <3>1. Eases(z, x1') /\ (x7 = <<>> \/ Going(z, x1'))
        BY <1>2, <2>1, <2>4, <2>5, FinishEases
      <3> QED  BY <2>1, <3>1, EasesOn DEF Going
    <2> QED  BY <2>2, <2>3, <2>5
  <1>5. x1' \in Session /\ x1'.token <= x2' /\ (Tuned => Switches(x1') /\ (GoesOn \/ Ends))
    BY <1>1, <1>4, EasedStep
  <1>6. VoiceTyped'
    BY <1>1, <1>5 DEF VoiceTyped
  <1> QED  BY <1>3, <1>5, <1>6, VoiceKeeps DEF Sound

LEMMA ChatFailsStep ==
  ASSUME VoiceTyped, V!ChatFails
  PROVE  VoiceTyped' /\ (Sound => Sound')
  <1>1. /\ x8' = V!Idle /\ UNCHANGED <<x2, x9, x10>>
        /\ \/ /\ x1' = V!MaybeFinish([V!Counted([x1 EXCEPT !.complete = TRUE], 0, Len(x7)) EXCEPT !.count = 0], 0)
              /\ V!Silence
           \/ UNCHANGED <<x1, V!lanes, x7>>
    BY DEF V!ChatFails
  <1>2. x1 \in Session /\ Len(x7) \in Nat /\ x2 \in Nat /\ x10 \in BOOLEAN
    BY DEF VoiceTyped
  <1>3. \A u \in Nat : ~Chatting(u)' /\ ~Waiting(u)'
    BY <1>1 DEF Chatting, Waiting
  <1>4. CASE /\ x1' = V!MaybeFinish([V!Counted([x1 EXCEPT !.complete = TRUE], 0, Len(x7)) EXCEPT !.count = 0], 0)
             /\ V!Silence
    <2> DEFINE y == [[x1 EXCEPT !.complete = TRUE] EXCEPT !.count = 0]
               w == V!MaybeFinish(y, Len(x7))
               z == [w EXCEPT !.count = 0]
    <2>1. Eases(x1, y) /\ y \in Session
      BY <1>2 DEF Eases, Going, Session, Switches
    <2>2. x1' = V!MaybeFinish(z, 0)
      BY <1>4 DEF V!Counted
    <2> HIDE DEF y
    <2>3. Eases(y, w)
      BY <1>2, <2>1, FinishEases
    <2> HIDE DEF w
    <2>4. Eases(w, z) /\ z \in Session
      BY <2>3 DEF Eases, Going, Session, Switches
    <2> HIDE DEF z
    <2>5. Eases(z, x1')
      BY <2>2, <2>4, FinishEases
    <2>6. Eases(x1, x1')
      BY <2>1, <2>3, <2>4, <2>5, EasesOn
    <2>7. x7' = <<>> /\ Elements(x7') = {}
      BY <1>4, EmptyQueue DEF V!Silence
    <2>8. x1' \in Session /\ x1'.token <= x2' /\ (Tuned => Switches(x1') /\ (GoesOn \/ Ends))
      BY <1>1, <2>6, <2>7, EasedStep
    <2>9. VoiceTyped' /\ VoiceFewer
      BY <1>1, <1>2, <1>3, <1>4, <2>8, SilencedSteps
    <2> QED  BY <2>8, <2>9, VoiceKeeps DEF Sound
  <1>5. CASE UNCHANGED <<x1, V!lanes, x7>>
    <2>1. UNCHANGED <<x3, x4, x5, x6, x7, x1, x9>>
      BY <1>1, <1>5 DEF V!lanes
    <2>2. Eases(x1, x1') /\ Going(x1, x1')
      BY <1>2, <2>1 DEF Eases, Going
    <2>3. x1' \in Session /\ x1'.token <= x2' /\ (Tuned => Switches(x1') /\ (GoesOn \/ Ends))
      BY <1>1, <2>1, <2>2, EasedStep
    <2>4. VoiceTyped'
      BY <1>1, <2>1 DEF VoiceTyped
    <2>5. VoiceFewer
      BY <1>3, <2>1, SameLanes DEF VoiceFewer
    <2> QED  BY <2>3, <2>4, <2>5, VoiceKeeps DEF Sound
  <1> QED  BY <1>1, <1>4, <1>5

----------------------------------------
(* Together. *)

LEMMA VoiceInitiallyIInv == V!Init => VoiceIInv
  <1> SUFFICES ASSUME V!Init
               PROVE  VoiceIInv
    OBVIOUS
  <1>1. VoiceTyped
    <2>1. x1 \in Session
      BY DEF V!Init, Session, V!None
    <2>2. x3 \in Task /\ x4 \in Task
      BY DEF V!Init, Task, V!Idle, V!None
    <2>3. x2 \in Nat /\ x1.token <= x2 /\ x8 = V!Idle /\ x6 = V!Idle
      BY DEF V!Init, V!None
    <2>5. x10 \in BOOLEAN
      BY DEF V!Init
    <2>4. x5 \in Seq(Task) /\ x7 \in Seq(Nat) /\ x9 \in Seq(Signal)
      BY DEF V!Init
    <2> QED  BY <2>1, <2>2, <2>3, <2>4, <2>5 DEF VoiceTyped
  <1>2. Elements(x9) = {} /\ Elements(x5) = {} /\ Elements(x7) = {}
        /\ ~x3.live /\ ~x4.live /\ ~x6.live /\ x8 = V!Idle /\ x7 = <<>>
    BY EmptyQueue DEF V!Init, V!Idle
  <1>3. \A t \in Nat : ~Transcribing(t) /\ ~Chatting(t) /\ ~Synthesizing(t)
    BY <1>2 DEF Transcribing, Chatting, Synthesizing
  <1>4. Known
    BY <1>3 DEF Known
  <1>5. Tuned /\ x1.token = V!None
    BY <1>2 DEF V!Init, Tuned, Switches
  <1> QED  BY <1>1, <1>4, <1>5 DEF VoiceIInv, Sound

LEMMA VoiceIInvStep == VoiceIInv /\ (V!Next \/ UNCHANGED V!vars) => VoiceIInv'
  <1> SUFFICES ASSUME VoiceIInv, (V!Next \/ UNCHANGED V!vars)
               PROVE  VoiceIInv'
    OBVIOUS
  <1>1. CASE UNCHANGED V!vars
    <2>1. UNCHANGED <<x1, x2, x3, x4, x5, x6, x7, x8, x9, x10>>
      BY <1>1 DEF V!vars, V!lanes
    <2>2. VoiceTyped'
      BY <2>1 DEF VoiceIInv, VoiceTyped
    <2>3. ~x10 => Sound'
      BY <2>1, <2>2, LaneStep, SameLanes DEF VoiceIInv
    <2> QED  BY <2>1, <2>2, <2>3 DEF VoiceIInv
  <1>2. CASE V!Next
    <2>1. x10 => x10'
      BY <1>2 DEF V!Next, V!StartHandsFree, V!StopSession, V!Press, V!Release, V!SpeechStart, V!SpeechEnd, V!MicFails,
            V!AsrEnds, V!TtsCompletes, V!TtsSignals, V!Handle, V!ItemEnds, V!PlaybackFails, V!ChatStarts,
            V!ChatRefused, V!Sentence, V!ChatCompletes, V!ChatFails
    <2>2. VoiceTyped' /\ (Sound /\ ~x10' => Sound')
      BY <1>2, StartHandsFreeStep, StopSessionStep, PressStep, ReleaseStep, SpeechStartStep,
         SpeechEndStep, MicFailsStep, AsrEndsStep, TtsCompletesStep, TtsSignalsStep, HandleStep,
         ItemEndsStep, PlaybackFailsStep, ChatStartsStep, ChatRefusedStep, SentenceStep,
         ChatCompletesStep, ChatFailsStep DEF V!Next, VoiceIInv
    <2>3. x10' \in BOOLEAN
      BY <2>2 DEF VoiceTyped
    <2> QED  BY <2>1, <2>2, <2>3 DEF VoiceIInv
  <1> QED  BY <1>1, <1>2

LEMMA PlaysReply == VoiceIInv => V!PlaysTheReply
  <1> SUFFICES ASSUME VoiceIInv, ~x10, NEW i \in DOMAIN x7
               PROVE  x7[i] = x1.token
    BY DEF V!PlaysTheReply
  <1>1. x7 \in Seq(Nat) /\ Tuned
    BY DEF VoiceIInv, VoiceTyped, Sound
  <1>2. x7 # <<>> /\ x7[i] \in Elements(x7)
    BY <1>1 DEF Elements
  <1> QED  BY <1>1, <1>2 DEF Tuned

VoiceInv == part = "voice" => VoiceIInv

LEMMA VoiceStart == Init => VoiceInv
  <1> SUFFICES ASSUME Init, part = "voice"
               PROVE  VoiceIInv
    BY DEF VoiceInv
  <1>1. V!Init
    BY DEF Init, InitOf
  <1> QED  BY <1>1, VoiceInitiallyIInv

LEMMA VoiceMoves ==
  ASSUME [Next]_vars, part = "voice"
  PROVE  V!Next \/ UNCHANGED V!vars
  <1>1. CASE Next
    BY <1>1 DEF Next, InR, InV, InX, InG, InH, InW, InT, InJ, InM, InP, InA, InC
  <1>2. CASE UNCHANGED vars
    BY <1>2 DEF vars, V!lanes, V!counts, V!vars
  <1> QED  BY <1>1, <1>2

LEMMA VoiceStep == VoiceInv /\ [Next]_vars => VoiceInv'
  <1> SUFFICES ASSUME VoiceInv, [Next]_vars, part' = "voice"
               PROVE  VoiceIInv'
    BY DEF VoiceInv
  <1>1. part = "voice" /\ VoiceIInv
    BY PartStays DEF VoiceInv
  <1> QED  BY <1>1, VoiceMoves, VoiceIInvStep

LEMMA VoiceInvariance == Spec => []VoiceInv
  BY VoiceStart, VoiceStep, PTL DEF Spec

\* voice_session.py: what is played belongs to the utterance the session is replying to,
\* for any number of utterances, sentences, interruptions, late signals and failures, in
\* whatever order the lanes, the playback queue and the chat end.
THEOREM ReplyPlayed == Spec => []PlaysTheReply
  <1>1. VoiceInv => PlaysTheReply
    BY PlaysReply DEF VoiceInv, PlaysTheReply
  <1> QED  BY <1>1, VoiceInvariance, PTL

----------------------------------------
(* Greetings. *)

\* A cue that a greeting was counted for is neither waiting for consent nor to be shown
\* (Spending).  While every opportunity began with the earlier ones over, one question,
\* generation or display at most is under way (Lone), so what the controller knows of the
\* ledger is still true when it shows a greeting (Wanting, Agreed).
\* Its variables: c x1, settings x2, quiet x3, away x4, today x5, bubble x6, runner x7,
\*   jobs x8, results x9, events x10, cue x11, backed x12, opened x13,
\*   refused x14, cycles x15, changes x16, rare x17

Days == 1..GreetingsMaxDay
Refs == (G!Cues \X Nat) \cup {G!NoCue}
Jobs == {j \in [op : {"count", "context", "display", "dismiss", "click"}, id : Nat, cue : Refs,
                trigger : G!Triggers, day : Days] :
           j.op \in {"display", "dismiss", "click"} => j.id \in G!Ids}
Answers == [job : Jobs, ok : BOOLEAN, count : Nat, cue : Refs]
Wish    == [trigger : G!Triggers, day : Days, count : Nat]
Shown   == [id : G!Ids, cue : Refs, trigger : G!Triggers, count : Nat]
Work    == [trigger : G!Triggers, day : Days, live : BOOLEAN]
Controllers == [running : BOOLEAN, startup : BOOLEAN, idle : BOOLEAN, pending : Wish \cup {G!None},
                active : Shown \cup {G!None}, lane : G!Runners \cup {"free"}, shown : Nat,
                late : BOOLEAN]
GreetingsLanes == [G!Runners -> Work \cup {G!None}]
Ledger == [G!Ids -> [st : {"absent", "displayed", "dismissed", "clicked"}, day : 0..GreetingsMaxDay, cue : Refs]]
CueRow == [st : G!Live \cup {"absent", "resolved", "rejected", "expired"}, keep : BOOLEAN,
           n : Nat]
CueRows == [G!Cues -> CueRow]

\* What the controller, the data thread and the runners hold, and that a lane that is
\* taken has its runner at work.
Core ==
  /\ x1 \in Controllers /\ x5 \in Days /\ x7 \in GreetingsLanes
  /\ x8 \in Seq(Jobs) /\ x9 \in Seq(Answers) /\ x10 \in Ledger
  /\ x1.lane # "free" => x7[x1.lane] \in Work
GreetingsRest ==
  /\ x2 \in [mode : {"off", "startup_only", "restrained"}, ai : BOOLEAN]
  /\ x11 \in CueRows /\ x12 \subseteq G!Cues /\ x14 \subseteq GreetingsMemoryCues
GreetingsTyped == Core /\ GreetingsRest

\* Nothing is of a day to come.
Dated ==
  /\ \A i \in G!Ids : x10[i].day <= x5
  /\ \A j \in Elements(x8) : j.day <= x5

\* A cue that a greeting was counted for is neither waiting for consent nor to be shown.
GreetingsPast(k, rows) ==
  /\ k[2] <= rows[k[1]].n
  /\ k[2] = rows[k[1]].n => rows[k[1]].st \notin {"proposed", "active"}
Spending == \A i \in G!Ids : x10[i].cue # G!NoCue => GreetingsPast(x10[i].cue, x11)

\* At most one question, generation or display is under way.
Open  == {j \in Jobs : G!Asked(j)}
Heard == {a \in Answers : G!Asked(a.job)}
Idly  == Elements(x8) \cap Open = {} /\ Elements(x9) \cap Heard = {}
GreetingsLone ==
  /\ Single(x8, Open) /\ Single(x9, Heard)
  /\ Elements(x8) \cap Open # {} => Elements(x9) \cap Heard = {}
  /\ ~G!LaneFree => Idly
  /\ x7["text"] = G!None \/ x7["visual"] = G!None

\* The greetings shown, per day.
Tally == [d \in Days |-> G!CountOf(d)]

\* The opportunity: its count is being asked for, or no less than the ledger's.
Counts == {j \in Jobs : j.op = "count"}
Displays == {j \in Jobs : j.op = "display"}
Wanting ==
  x1.pending # G!None =>
    /\ Elements(x8) \cap Displays = {}
    /\ \A a \in Elements(x9) : a.job \notin Displays
    /\ \A j \in Elements(x8) : j \in Counts => j.day = x1.pending.day
    /\ \A a \in Elements(x9) : a.job \in Counts => a.job.day = x1.pending.day
    /\ Elements(x8) \cap Counts = {} /\ (\A a \in Elements(x9) : a.job \notin Counts)
         => Tally[x1.pending.day] <= x1.pending.count

\* The answers, the displays and the greeting on show agree with the ledger.
Agreed ==
  /\ \A a \in Elements(x9) : a.ok /\ a.job \in Counts => Tally[a.job.day] <= a.count
  /\ \A j \in Elements(x8) : j \in Displays => Tally[j.day] < GreetingsLimit
  /\ x1.active # G!None =>
       \/ /\ Elements(x8) \cap Displays = {}
          /\ \A a \in Elements(x9) : a.job \in Displays => a.ok
       \/ Tally[x5] <= x1.active.count
  /\ \A d \in Days : Tally[d] <= GreetingsLimit

Limits == GreetingsLone /\ Wanting /\ Agreed

GreetingsIInv == GreetingsTyped /\ Dated /\ Spending /\ G!CueIsSpentOnce /\ (x1.late \/ Limits)
----------------------------------------
(* What the helpers of the controller do to it. *)

LEMMA NoneIsNothing == G!None \notin Wish /\ G!None \notin Shown /\ G!None \notin Work
  BY DEF G!None, Wish, Shown, Work

LEMMA ClearedIs ==
  ASSUME NEW x \in Controllers
  PROVE  /\ G!Cleared(x) \in Controllers /\ G!Cleared(x).pending = G!None
         /\ G!Cleared(x).active = x.active /\ G!Cleared(x).late = x.late
         /\ G!Cleared(x).lane = x.lane /\ G!Cleared(x).shown = x.shown /\ G!Cleared(x).running = x.running
  BY DEF G!Cleared, Controllers

LEMMA EndedIs ==
  ASSUME NEW x \in Controllers
  PROVE  /\ G!Ended(x) \in Controllers /\ G!Ended(x).active = G!None
         /\ G!Ended(x).pending = x.pending /\ G!Ended(x).late = x.late
         /\ G!Ended(x).lane = x.lane /\ G!Ended(x).shown = x.shown /\ G!Ended(x).running = x.running
  BY DEF G!Ended, Controllers

LEMMA FreeIs ==
  ASSUME NEW x \in Controllers
  PROVE  /\ G!Free(x) \in Controllers /\ G!Free(x).lane = "free"
         /\ G!Free(x).pending = x.pending /\ G!Free(x).late = x.late
         /\ G!Free(x).active = x.active /\ G!Free(x).shown = x.shown /\ G!Free(x).running = x.running
  BY DEF G!Free, Controllers

LEMMA JobIs ==
  ASSUME NEW op \in {"count", "context", "display", "dismiss", "click"}, NEW id \in Nat,
         NEW k \in Refs, NEW trigger \in G!Triggers, x5 \in Days,
         op \in {"display", "dismiss", "click"} => id \in G!Ids
  PROVE  /\ G!Job(op, id, k, trigger) \in Jobs
         /\ G!Job(op, id, k, trigger).op = op /\ G!Job(op, id, k, trigger).id = id
         /\ G!Job(op, id, k, trigger).cue = k /\ G!Job(op, id, k, trigger).day = x5
  BY DEF G!Job, Jobs

\* The display of a greeting: the opportunity is over, and the greeting is counted for it.
Displayed(x) ==
  /\ x1' \in Controllers /\ x1'.late = x.late /\ x1'.lane = x.lane /\ x1'.pending = G!None
  /\ \/ /\ x1'.active = x.active /\ x8' = x8
     \/ /\ x.pending.day = x5 /\ x.pending.count < GreetingsLimit
        /\ x1'.active \in Shown /\ x1'.active.count = x.pending.count
        /\ \E j \in Jobs : j \in Displays /\ j.day = x5 /\ x8' = Append(x8, j)

LEMMA DisplayIs ==
  ASSUME Core, NEW x \in Controllers, x.pending \in Wish, NEW k \in Refs, G!Display(x, k)
  PROVE  Displayed(x)
  <1>1. CASE G!Shows(x, k)
    <2>1. /\ x.running /\ x.pending.day = x5 /\ x.pending.count < GreetingsLimit /\ x.shown < GreetingsMaxShown
      BY <1>1 DEF G!Shows, G!Allowed
    <2>2. x.shown + 1 \in G!Ids /\ x.shown + 1 \in Nat /\ x.pending.trigger \in G!Triggers
          /\ x.pending.count \in Nat
      BY <2>1, ComponentsAssumption DEF Controllers, G!Ids, Wish
    <2> DEFINE a == [id |-> x.shown + 1, cue |-> k, trigger |-> x.pending.trigger,
                     count |-> x.pending.count]
    <2>3. a \in Shown /\ a.count = x.pending.count
      BY <2>2 DEF Shown
    <2>4. x1' = [G!Cleared(x) EXCEPT !.shown = @ + 1, !.active = a]
          /\ x8' = Append(x8, G!Job("display", x.shown + 1, k, x.pending.trigger))
      BY <1>1 DEF G!Display, G!Ask
    <2> HIDE DEF a
    <2>5. /\ x1' \in Controllers /\ x1'.late = x.late /\ x1'.lane = x.lane /\ x1'.pending = G!None
          /\ x1'.active = a
      BY <2>2, <2>3, <2>4, ClearedIs DEF Controllers
    <2>6. /\ G!Job("display", x.shown + 1, k, x.pending.trigger) \in Jobs
          /\ G!Job("display", x.shown + 1, k, x.pending.trigger).op = "display"
          /\ G!Job("display", x.shown + 1, k, x.pending.trigger).day = x5
      BY <2>2, JobIs DEF Core
    <2> QED  BY <2>1, <2>3, <2>4, <2>5, <2>6 DEF Displayed, Displays
  <1>2. CASE ~G!Shows(x, k)
    BY <1>2, ClearedIs DEF G!Display, Displayed
  <1> QED  BY <1>1, <1>2

\* A generation that begins: its runner is the only one at work.
Generates(x) ==
  /\ G!LaneFree /\ x1' \in Controllers /\ x1'.late = x.late /\ x1'.pending = x.pending
  /\ x1'.active = x.active /\ x8' = x8 /\ x7' \in GreetingsLanes
  /\ x1'.lane # "free" => x7'[x1'.lane] \in Work
  /\ x7'["text"] = G!None \/ x7'["visual"] = G!None

LEMMA GenerateIs ==
  ASSUME Core, NEW x \in Controllers, x.pending \in Wish, NEW r \in G!Runners, G!Generate(x, r)
  PROVE  Generates(x)
  <1> DEFINE w == [trigger |-> x.pending.trigger, day |-> x.pending.day, live |-> TRUE]
  <1>1. w \in Work
    BY DEF Work, Wish
  <1>2. G!LaneFree /\ x7' = [x7 EXCEPT ![r] = w] /\ x1' = [x EXCEPT !.lane = r] /\ x8' = x8
    BY DEF G!Generate
  <1> HIDE DEF w
  <1>3. x7' \in GreetingsLanes /\ x7'[r] \in Work /\ (\A o \in G!Runners \ {r} : x7'[o] = G!None)
    BY <1>1, <1>2 DEF Core, GreetingsLanes, G!LaneFree
  <1>4. /\ x1' \in Controllers /\ x1'.late = x.late /\ x1'.pending = x.pending
        /\ x1'.active = x.active /\ x1'.lane = r
    BY <1>2 DEF Controllers
  <1>5. "text" \in G!Runners /\ "visual" \in G!Runners
    BY DEF G!Runners
  <1>6. x7'["text"] = G!None \/ x7'["visual"] = G!None
    <2>1. CASE r = "text"
      BY <2>1, <1>3, <1>5
    <2>2. CASE r # "text"
      BY <2>2, <1>3, <1>5
    <2> QED  BY <2>1, <2>2
  <1> QED  BY <1>2, <1>3, <1>4, <1>6 DEF Generates

\* The opportunity goes on: to a generation, a display, or nothing.
Continues(x) ==
  \/ Generates(x)
  \/ Displayed(x) /\ x7' = x7

LEMMA ContinueIs ==
  ASSUME Core, NEW x \in Controllers, x.pending \in Wish, G!Continue(x)
  PROVE  Continues(x)
  <1>0. "text" \in G!Runners /\ "visual" \in G!Runners /\ G!NoCue \in Refs
    BY DEF G!Runners, Refs
  <1>1. CASE G!Generate(x, "visual") \/ G!Generate(x, "text")
    BY <1>0, <1>1, GenerateIs DEF Continues
  <1>2. CASE x1' = G!Cleared(x) /\ UNCHANGED <<x6, x8, x7>>
    BY <1>2, ClearedIs DEF Continues, Displayed
  <1>3. CASE G!Display(x, G!NoCue) /\ UNCHANGED x7
    BY <1>0, <1>3, DisplayIs DEF Continues
  <1> QED  BY <1>1, <1>2, <1>3 DEF G!Continue
----------------------------------------
(* The steps that take nothing on: they may only end an opportunity, a greeting  *)
(* or a generation, and report a click or a dismissal.                           *)

Quieter ==
  /\ x1' \in Controllers /\ x1'.late = x1.late
  /\ x1'.pending = x1.pending \/ x1'.pending = G!None
  /\ x1'.active = x1.active \/ x1'.active = G!None
  /\ x7' \in GreetingsLanes /\ (x1'.lane # "free" => x7'[x1'.lane] \in Work)
  /\ \A r \in G!Runners : x7[r] = G!None => x7'[r] = G!None
GreetingsReports == x8' = x8 \/ \E j \in Jobs : j.op \in {"dismiss", "click"} /\ j.day = x5 /\ x8' = Append(x8, j)
Calm == Quieter /\ GreetingsReports /\ x9' = x9 /\ x10' = x10 /\ x5' = x5

LEMMA CancelIs ==
  ASSUME Core, NEW x \in Controllers, x.lane = x1.lane, x.late = x1.late,
         x.active = x1.active \/ x.active = G!None, G!CancelAi(x)
  PROVE  Quieter
  <1>1. /\ G!Cleared(x) \in Controllers /\ G!Cleared(x).pending = G!None
        /\ G!Cleared(x).active = x.active /\ G!Cleared(x).late = x.late
    BY ClearedIs
  <1>2. x1' = [G!Cleared(x) EXCEPT !.lane = "free"]
    BY DEF G!CancelAi
  <1>3. /\ x1' \in Controllers /\ x1'.lane = "free" /\ x1'.pending = G!None
        /\ x1'.active = x.active /\ x1'.late = x1.late
    BY <1>1, <1>2 DEF Controllers
  <1>4. x7' \in GreetingsLanes /\ \A r \in G!Runners : x7[r] = G!None => x7'[r] = G!None
    <2>1. CASE x.lane = "free"
      BY <2>1 DEF G!CancelAi, Core
    <2>2. CASE x.lane # "free"
      <3>1. x.lane \in G!Runners /\ x7[x.lane] \in Work
        BY <2>2 DEF Core, Controllers
      <3>2. [x7[x.lane] EXCEPT !.live = FALSE] \in Work
        BY <3>1 DEF Work
      <3>3. \/ x7' = [x7 EXCEPT ![x.lane] = [x7[x.lane] EXCEPT !.live = FALSE]]
            \/ x7' = [x7 EXCEPT ![x.lane] = G!None]
        BY <2>2 DEF G!CancelAi
      <3>4. x7[x.lane] # G!None
        BY <3>1, NoneIsNothing
      <3> QED  BY <3>1, <3>2, <3>3, <3>4 DEF Core, GreetingsLanes
    <2> QED  BY <2>1, <2>2
  <1> QED  BY <1>3, <1>4 DEF Quieter

LEMMA GreetingsSameIs ==
  ASSUME Core, UNCHANGED <<x1, x7>>
  PROVE  Quieter
  BY DEF Core, Quieter

LEMMA ReportIs ==
  ASSUME Core, x1.active # G!None, NEW op \in {"dismiss", "click"}, G!Ask(G!Job(op, x1.active.id, G!NoCue, "idle"))
  PROVE  GreetingsReports
  <1>1. x1.active.id \in G!Ids /\ x1.active.id \in Nat /\ G!NoCue \in Refs /\ "idle" \in G!Triggers
    BY DEF Core, Controllers, Shown, G!Ids, Refs, G!Triggers
  <1>2. /\ G!Job(op, x1.active.id, G!NoCue, "idle") \in Jobs
        /\ G!Job(op, x1.active.id, G!NoCue, "idle").op = op
        /\ G!Job(op, x1.active.id, G!NoCue, "idle").day = x5
    BY <1>1, JobIs DEF Core
  <1> QED  BY <1>2 DEF G!Ask, GreetingsReports

LEMMA DismissIs ==
  ASSUME Core, G!Dismiss
  PROVE  GreetingsReports
  <1>1. CASE x6 /\ x1.active # G!None
    BY <1>1, ReportIs DEF G!Dismiss
  <1>2. CASE ~(x6 /\ x1.active # G!None)
    BY <1>2 DEF G!Dismiss, GreetingsReports
  <1> QED  BY <1>1, <1>2

MildStep ==
  \/ G!Start \/ G!Stop \/ G!Timeout \/ (G!Poll /\ ~x4) \/ G!UserLeaves \/ G!UserReturns
  \/ (\E m \in {"off", "startup_only", "restrained"} : G!SetMode(m))
  \/ G!SetAi \/ G!ChatBegins \/ G!PetHidden \/ G!QuietEnds \/ G!Click
CalmStep == MildStep \/ G!Interactive

LEMMA CalmIs ==
  ASSUME Core, CalmStep
  PROVE  Calm
  <1> USE DEF Calm, G!env, G!db
  <1>0. x1 \in Controllers /\ x7 \in GreetingsLanes /\ (x1.lane # "free" => x7[x1.lane] \in Work)
    BY DEF Core
  <1>1. CASE G!Start
    <2>1. x1' = [x1 EXCEPT !.running = TRUE] /\ UNCHANGED <<x7, x8, x9, x10, x5>>
      BY <1>1 DEF G!Start
    <2>2. /\ x1' \in Controllers /\ x1'.late = x1.late /\ x1'.pending = x1.pending
          /\ x1'.active = x1.active /\ x1'.lane = x1.lane
      BY <1>0, <2>1 DEF Controllers
    <2> QED  BY <1>0, <2>1, <2>2 DEF Quieter, GreetingsReports
  <1>2. CASE G!Stop
    <2> DEFINE x == [G!Ended(x1) EXCEPT !.running = FALSE]
    <2>1. /\ x \in Controllers /\ x.lane = x1.lane /\ x.late = x1.late /\ x.active = G!None
      BY <1>0, EndedIs DEF Controllers
    <2>2. G!CancelAi(x) /\ G!Dismiss /\ UNCHANGED <<x9, x10, x5>>
      BY <1>2 DEF G!Stop
    <2> HIDE DEF x
    <2> QED  BY <2>1, <2>2, CancelIs, DismissIs
  <1>3. CASE G!Timeout
    BY <1>3, GreetingsSameIs, DismissIs DEF G!Timeout
  <1>4. CASE G!Poll /\ ~x4
    <2>1. x1' = [x1 EXCEPT !.idle = FALSE] /\ UNCHANGED <<x7, x8, x9, x10, x5>>
      BY <1>4 DEF G!Poll
    <2>2. /\ x1' \in Controllers /\ x1'.late = x1.late /\ x1'.pending = x1.pending
          /\ x1'.active = x1.active /\ x1'.lane = x1.lane
      BY <1>0, <2>1 DEF Controllers
    <2> QED  BY <1>0, <2>1, <2>2 DEF Quieter, GreetingsReports
  <1>5. CASE G!UserLeaves \/ G!UserReturns \/ G!QuietEnds \/ G!Interactive
    BY <1>5, GreetingsSameIs DEF G!UserLeaves, G!UserReturns, G!QuietEnds, G!Interactive, GreetingsReports
  <1>6. ASSUME NEW m \in {"off", "startup_only", "restrained"}, G!SetMode(m)
        PROVE  Calm
    <2>1. G!CancelAi(x1) /\ UNCHANGED <<x9, x10, x5>>
      BY <1>6 DEF G!SetMode
    <2>2. GreetingsReports
      BY <1>6, DismissIs DEF G!SetMode, GreetingsReports
    <2> QED  BY <1>0, <2>1, <2>2, CancelIs
  <1>7. CASE G!SetAi
    <2>1. UNCHANGED <<x8, x9, x10, x5>> /\ (G!CancelAi(x1) \/ UNCHANGED <<x1, x7>>)
      BY <1>7 DEF G!SetAi
    <2> QED  BY <1>0, <2>1, CancelIs, GreetingsSameIs DEF GreetingsReports
  <1>8. CASE G!ChatBegins
    BY <1>0, <1>8, CancelIs DEF G!ChatBegins, GreetingsReports
  <1>9. CASE G!PetHidden
    BY <1>9, GreetingsSameIs, DismissIs DEF G!PetHidden
  <1>10. CASE G!Click
    <2>1. CASE x1.active # G!None
      BY <1>10, <2>1, GreetingsSameIs, ReportIs DEF G!Click
    <2>2. CASE x1.active = G!None
      BY <1>10, <2>2, GreetingsSameIs DEF G!Click, GreetingsReports
    <2> QED  BY <2>1, <2>2
  <1> QED  BY <1>1, <1>2, <1>3, <1>4, <1>5, <1>6, <1>7, <1>8, <1>9, <1>10 DEF CalmStep, MildStep
----------------------------------------
(* A calm step keeps everything. *)

LEMMA CalmCore ==
  ASSUME Core, Calm
  PROVE  Core'
  <1>1. x8' \in Seq(Jobs)
    BY Appending DEF Core, Calm, GreetingsReports
  <1> QED  BY <1>1 DEF Core, Calm, Quieter

LEMMA ReportsAre ==
  ASSUME Core, GreetingsReports
  PROVE  /\ \A j \in Elements(x8') : j \in Elements(x8) \/ (j \notin Open /\ j.day = x5)
         /\ Elements(x8) \subseteq Elements(x8')
         /\ Single(x8, Open) => Single(x8', Open)
  <1>1. CASE x8' = x8
    BY <1>1
  <1>2. ASSUME NEW j \in Jobs, j.op \in {"dismiss", "click"}, j.day = x5, x8' = Append(x8, j)
        PROVE  /\ \A i \in Elements(x8') : i \in Elements(x8) \/ (i \notin Open /\ i.day = x5)
               /\ Elements(x8) \subseteq Elements(x8')
               /\ Single(x8, Open) => Single(x8', Open)
    <2>1. j \notin Open
      BY <1>2 DEF Open, G!Asked
    <2>2. x8 \in Seq(Jobs)
      BY DEF Core
    <2>3. Elements(x8') = Elements(x8) \cup {j}
      BY <1>2, <2>2, Appending
    <2>4. Single(x8, Open) => Single(x8', Open)
      BY <1>2, <2>1, <2>2, SingleAppend
    <2> QED  BY <1>2, <2>1, <2>3, <2>4
  <1> QED  BY <1>1, <1>2 DEF GreetingsReports

LEMMA CalmDated ==
  ASSUME Core, Calm, Dated
  PROVE  Dated'
  <1>1. x5 \in Nat
    BY ComponentsAssumption DEF Core, Days
  <1>2. \A j \in Elements(x8') : j.day <= x5
    BY <1>1, ReportsAre DEF Calm, Dated
  <1> QED  BY <1>2 DEF Calm, Dated

LEMMA OpenAre ==
  /\ Counts \subseteq Open /\ Displays \subseteq Open
  /\ \A a \in Answers : a.job \in Counts \cup Displays => a \in Heard
  BY DEF Counts, Displays, Open, Heard, G!Asked, Answers

LEMMA CalmLimits ==
  ASSUME Core, Calm, Limits
  PROVE  Limits'
  <1>1. /\ \A j \in Elements(x8') : j \in Open => j \in Elements(x8)
        /\ Elements(x8) \subseteq Elements(x8')
        /\ Single(x8', Open)
    BY ReportsAre DEF Calm, Limits, GreetingsLone
  <1>2. Elements(x8') \cap Open = Elements(x8) \cap Open
    BY <1>1
  <1>3. ~G!LaneFree' => ~G!LaneFree
    BY DEF Calm, Quieter, G!LaneFree
  <1>4. "text" \in G!Runners /\ "visual" \in G!Runners
    BY DEF G!Runners
  <1>5. x9' = x9 /\ x5' = x5 /\ Tally' = Tally
    BY DEF Calm, Tally, G!CountOf
  <1>6. GreetingsLone'
    BY <1>1, <1>2, <1>3, <1>4, <1>5 DEF Limits, GreetingsLone, Idly, Calm, Quieter
  <1>7. Elements(x8') \cap Displays = Elements(x8) \cap Displays
        /\ Elements(x8') \cap Counts = Elements(x8) \cap Counts
    BY <1>2, OpenAre
  <1>8. Wanting'
    <2>1. CASE x1'.pending = G!None
      BY <2>1 DEF Wanting
    <2>2. CASE x1'.pending = x1.pending
      <3>1. \A j \in Elements(x8') : j \in Counts => j \in Elements(x8)
        BY <1>7
      <3> QED  BY <2>2, <1>5, <1>7, <3>1 DEF Limits, Wanting
    <2> QED  BY <2>1, <2>2 DEF Calm, Quieter
  <1>9. Agreed'
    <2>1. \A j \in Elements(x8') : j \in Displays => j \in Elements(x8)
      BY <1>7
    <2> QED  BY <1>5, <1>7, <2>1 DEF Limits, Agreed, Calm, Quieter
  <1> QED  BY <1>6, <1>8, <1>9 DEF Limits
----------------------------------------
(* A new opportunity. *)

LEMMA RequestKeeps ==
  ASSUME Core, Dated, NEW x \in Controllers, x.pending = x1.pending, x.active = x1.active,
         x.late = x1.late, x.lane = x1.lane, NEW trigger \in G!Triggers, G!Request(x, trigger),
         UNCHANGED <<x7, x9, x10, x5>>
  PROVE  Core' /\ Dated' /\ (x1.late \/ Limits => x1'.late \/ Limits')
  <1>1. CASE ~(x.pending = G!None /\ x.active = G!None)
    <2>1. x1' = x /\ x8' = x8
      BY <1>1 DEF G!Request
    <2>2. Calm
      BY <2>1 DEF Calm, Quieter, GreetingsReports, Core
    <2> QED  BY <2>2, <2>1, CalmCore, CalmDated, CalmLimits
  <1>2. CASE x.pending = G!None /\ x.active = G!None
    <2> DEFINE w == [trigger |-> trigger, day |-> x5, count |-> 0]
               l == x.late \/ G!StillOut
               j == G!Job("count", 0, G!NoCue, trigger)
    <2>1. w \in Wish /\ w.day = x5
      BY DEF Wish, Core
    <2>2. l \in BOOLEAN
      BY DEF Controllers
    <2>3. x1' = [x EXCEPT !.pending = w, !.late = l] /\ x8' = Append(x8, j)
      BY <1>2 DEF G!Request, G!Ask
    <2>4. j \in Jobs /\ j.op = "count" /\ j.day = x5
      <3>1. G!NoCue \in Refs /\ 0 \in Nat /\ x5 \in Days
        BY DEF Core, Refs
      <3> QED  BY <3>1, JobIs
    <2>5. x8' \in Seq(Jobs) /\ Elements(x8') = Elements(x8) \cup {j}
      BY <2>3, <2>4, Appending DEF Core
    <2> HIDE DEF w, j
    <2>6. l = (x1.late \/ G!StillOut)
      OBVIOUS
    <2> HIDE DEF l
    <2>7. /\ x1' \in Controllers /\ x1'.pending = w /\ x1'.active = G!None /\ x1'.late = l /\ x1'.lane = x1.lane
      BY <1>2, <2>1, <2>2, <2>3 DEF Controllers
    <2>8. Core'
      BY <2>5, <2>7 DEF Core
    <2>9. x5 \in Nat
      BY ComponentsAssumption DEF Core, Days
    <2>10. Dated'
      BY <2>4, <2>5, <2>9 DEF Dated
    <2>11. ASSUME x1.late \/ Limits, ~x1'.late
           PROVE  Limits'
      <3>1. Limits /\ ~G!StillOut
        BY <2>6, <2>7, <2>11
      <3>2. G!LaneFree /\ Elements(x8) \cap Open = {} /\ Elements(x9) \cap Heard = {}
        BY <3>1 DEF G!StillOut, Elements, Open, Heard
      <3>3. x8 \in Seq(Jobs) /\ x9 \in Seq(Answers) /\ Elements(x9) \subseteq Answers
        BY NotEmpty DEF Core
      <3>4. Single(x8', Open)
        BY <2>3, <2>4, <3>1, <3>2, <3>3, SingleAppend DEF Limits, GreetingsLone
      <3>5. G!LaneFree'
        BY <3>2 DEF G!LaneFree
      <3>6. GreetingsLone'
        BY <3>1, <3>2, <3>4, <3>5 DEF Limits, GreetingsLone
      <3>7. j \in Counts /\ j \notin Displays
        BY <2>4 DEF Counts, Displays
      <3>8. Elements(x8) \cap Counts = {} /\ Elements(x8) \cap Displays = {}
        BY <3>2, OpenAre
      <3>9. \A a \in Elements(x9) : a.job \notin Counts /\ a.job \notin Displays
        BY <3>2, <3>3, OpenAre
      <3>10. Tally' = Tally
        BY DEF Tally, G!CountOf
      <3>11. Wanting'
        BY <2>1, <2>4, <2>5, <2>7, <3>7, <3>8, <3>9 DEF Wanting
      <3>12. Agreed'
        BY <2>5, <2>7, <3>1, <3>7, <3>8, <3>9, <3>10 DEF Limits, Agreed
      <3> QED  BY <3>6, <3>11, <3>12 DEF Limits
    <2> QED  BY <2>8, <2>10, <2>11
  <1> QED  BY <1>1, <1>2

LEMMA OpportunityKeeps ==
  ASSUME Core, Dated, G!StartupDue \/ (G!Poll /\ x4)
  PROVE  Core' /\ Dated' /\ (x1.late \/ Limits => x1'.late \/ Limits')
  <1>0. "startup" \in G!Triggers /\ "idle" \in G!Triggers /\ x1 \in Controllers
    BY DEF G!Triggers, Core
  <1>1. CASE G!StartupDue
    <2> DEFINE x == [x1 EXCEPT !.startup = TRUE]
    <2>1. /\ x \in Controllers /\ x.pending = x1.pending /\ x.active = x1.active
          /\ x.late = x1.late /\ x.lane = x1.lane
      BY <1>0 DEF Controllers
    <2>2. G!Request(x, "startup") /\ UNCHANGED <<x7, x9, x10, x5>>
      BY <1>1 DEF G!StartupDue, G!env, G!db
    <2> HIDE DEF x
    <2> QED  BY <1>0, <2>1, <2>2, RequestKeeps
  <1>2. CASE G!Poll /\ x4
    <2> DEFINE x == [x1 EXCEPT !.idle = TRUE]
    <2>1. /\ x \in Controllers /\ x.pending = x1.pending /\ x.active = x1.active
          /\ x.late = x1.late /\ x.lane = x1.lane
      BY <1>0 DEF Controllers
    <2>2. G!Request(x, "idle") /\ UNCHANGED <<x7, x9, x10, x5>>
      BY <1>2 DEF G!Poll, G!env, G!db
    <2> HIDE DEF x
    <2> QED  BY <1>0, <2>1, <2>2, RequestKeeps
  <1> QED  BY <1>1, <1>2

\* What is counted.
LEMMA GreetingsCountIs ==
  ASSUME NEW d
  PROVE  /\ G!CountOf(d) = Cardinality({i \in G!Ids : x10[i].st # "absent" /\ x10[i].day = d})
         /\ G!CountOf(d)' = Cardinality({i \in G!Ids : x10'[i].st # "absent" /\ x10'[i].day = d})
  BY DEF G!CountOf, G!Cardinality, Cardinality

\* Midnight: of the new day the ledger knows nothing yet.
LEMMA NoneShown ==
  ASSUME NEW d \in Days, \A i \in G!Ids : x10[i].day # d
  PROVE  G!CountOf(d) = 0
  <1>1. {i \in G!Ids : x10[i].st # "absent" /\ x10[i].day = d} = {}
    OBVIOUS
  <1> QED  BY <1>1, FS_EmptySet, GreetingsCountIs

LEMMA MidnightKeeps ==
  ASSUME Core, Dated, G!Midnight
  PROVE  Core' /\ Dated' /\ (x1.late \/ Limits => x1'.late \/ Limits')
  <1>1. /\ x5 < GreetingsMaxDay /\ x5' = x5 + 1 /\ x5 \in Nat /\ GreetingsMaxDay \in Nat
        /\ UNCHANGED <<x1, x7, x8, x9, x10>>
    BY ComponentsAssumption DEF G!Midnight, Core, Days, G!db, G!bounds
  <1>2. x5' \in Days
    BY <1>1 DEF Core, Days
  <1>3. Core'
    BY <1>1, <1>2 DEF Core
  <1>4. \A i \in G!Ids : x10[i].day <= x5 /\ x10[i].day \in Nat
    BY DEF Dated, Core, Ledger
  <1>5. x8 \in Seq(Jobs) /\ \A j \in Elements(x8) : j.day \in Nat
    <2>1. \A j \in Jobs : j.day \in Nat
      BY DEF Jobs, Days
    <2> QED  BY <2>1, NotEmpty DEF Core
  <1>6. Dated'
    BY <1>1, <1>4, <1>5 DEF Dated
  <1>7. Tally' = Tally
    BY <1>1 DEF Tally, G!CountOf
  <1>8. Tally[x5 + 1] = 0
    <2>1. x5 + 1 \in Days /\ \A i \in G!Ids : x10[i].day # x5 + 1
      BY <1>1, <1>2, <1>4
    <2> QED  BY <2>1, NoneShown DEF Tally
  <1>9. ASSUME Limits
        PROVE  Limits'
    <2>1. GreetingsLone'
      BY <1>1, <1>9 DEF Limits, GreetingsLone, Idly, G!LaneFree
    <2>2. Wanting'
      BY <1>1, <1>7, <1>9 DEF Limits, Wanting
    <2>3. x1.active # G!None => Tally'[x5'] <= x1'.active.count
      BY <1>1, <1>7, <1>8 DEF Core, Controllers, Shown
    <2>4. Agreed'
      BY <1>1, <1>7, <1>9, <2>3 DEF Limits, Agreed
    <2> QED  BY <2>1, <2>2, <2>4 DEF Limits
  <1> QED  BY <1>1, <1>3, <1>6, <1>9
----------------------------------------
(* The data thread runs a job. *)

\* A row that is written anew adds one to its day at most.
LEMMA CountsAre ==
  ASSUME Core, NEW d \in Days
  PROVE  /\ G!CountOf(d) \in Nat /\ Tally[d] = G!CountOf(d)
         /\ \A S \in SUBSET {i \in G!Ids : x10[i].st # "absent" /\ x10[i].day = d} :
              Cardinality(S) <= G!CountOf(d)
         /\ \A k \in G!Ids : \A S \in SUBSET ({i \in G!Ids : x10[i].st # "absent" /\ x10[i].day = d} \cup {k}) :
              Cardinality(S) \in Nat /\ Cardinality(S) <= G!CountOf(d) + 1
  <1> DEFINE Z == {i \in G!Ids : x10[i].st # "absent" /\ x10[i].day = d}
  <1>1. IsFiniteSet(G!Ids)
    BY ComponentsAssumption, FS_Interval DEF G!Ids
  <1>2. Z \subseteq G!Ids
    OBVIOUS
  <1>3. IsFiniteSet(Z) /\ Cardinality(Z) \in Nat
    BY <1>1, <1>2, FS_Subset, FS_CardinalityType
  <1>4. G!CountOf(d) = Cardinality(Z)
    BY GreetingsCountIs
  <1> HIDE DEF Z
  <1>5. ASSUME NEW S \in SUBSET Z
        PROVE  Cardinality(S) <= Cardinality(Z)
    BY <1>3, FS_Subset
  <1>6. ASSUME NEW k \in G!Ids, NEW S \in SUBSET (Z \cup {k})
        PROVE  Cardinality(S) \in Nat /\ Cardinality(S) <= Cardinality(Z) + 1
    <2>1. IsFiniteSet(Z \cup {k}) /\ Cardinality(Z \cup {k}) \in {Cardinality(Z), Cardinality(Z) + 1}
      <3>1. CASE k \in Z
        <4>1. Z \cup {k} = Z
          BY <3>1
        <4> QED  BY <4>1, <1>3
      <3>2. CASE k \notin Z
        BY <3>2, <1>3, FS_AddElement
      <3> QED  BY <3>1, <3>2
    <2>2. IsFiniteSet(S) /\ Cardinality(S) <= Cardinality(Z \cup {k}) /\ Cardinality(S) \in Nat
      BY <2>1, <1>6, FS_Subset, FS_CardinalityType
    <2> QED  BY <2>1, <2>2, <1>3
  <1> QED  BY <1>3, <1>4, <1>5, <1>6 DEF Tally, Z

\* What a job leaves: its answer, and for the display that worked one greeting more.
Answered(a) ==
  /\ x8 # <<>> /\ x8' = Tail(x8) /\ a \in Answers /\ a.job = Head(x8)
  /\ x9' = Append(x9, a)
  /\ UNCHANGED <<x1, x7, x5>>
Stands(a) ==
  /\ x10' \in Ledger /\ Tally' = Tally
  /\ \A i \in G!Ids : x10'[i].day = x10[i].day
  /\ a.ok /\ a.job \in Counts => a.count = Tally[a.job.day]
Counted(a) ==
  /\ a.ok /\ a.job \in Displays
  /\ x10' = [x10 EXCEPT ![a.job.id] = [st |-> "displayed", day |-> a.job.day, cue |-> a.job.cue]]

LEMMA GreetingsAnswerIs ==
  ASSUME GreetingsTyped, G!RunJob
  PROVE  \E a \in Answers : Answered(a) /\ (Stands(a) \/ Counted(a))
  <1> DEFINE j == Head(x8)
  <1>1. /\ x8 # <<>> /\ x8' = Tail(x8) /\ UNCHANGED <<x1, x7, x5>> /\ j \in Jobs
        /\ G!NoCue \in Refs /\ 0 \in Nat
    BY Taking DEF G!RunJob, G!env, Refs, GreetingsTyped, Core
  <1>2. ASSUME NEW ok \in BOOLEAN, NEW n \in Nat, NEW k \in Refs, G!Answer(j, ok, n, k)
        PROVE  \E a \in Answers : Answered(a) /\ a.ok = ok /\ a.count = n /\ a.job = j
    <2> DEFINE a == [job |-> j, ok |-> ok, count |-> n, cue |-> k]
    <2>1. a \in Answers /\ a.job = j /\ a.ok = ok /\ a.count = n
      BY <1>1, <1>2 DEF Answers
    <2>2. x9' = Append(x9, a)
      BY <1>2 DEF G!Answer
    <2> HIDE DEF a
    <2> QED  BY <1>1, <2>1, <2>2 DEF Answered
  <1> HIDE DEF j
  <1>3. ASSUME x10' = x10
        PROVE  x10' \in Ledger /\ Tally' = Tally /\ \A i \in G!Ids : x10'[i].day = x10[i].day
    BY <1>3 DEF Tally, G!CountOf, GreetingsTyped, Core
  <1>4. ASSUME G!Fails(j)
        PROVE  \E a \in Answers : Answered(a) /\ Stands(a)
    <2>1. G!Answer(j, FALSE, 0, G!NoCue) /\ x10' = x10
      BY <1>4 DEF G!Fails, G!db
    <2> QED  BY <1>1, <1>2, <1>3, <2>1 DEF Stands
  <1>5. ASSUME j.op = "count", G!Answer(j, TRUE, G!CountOf(j.day), G!NoCue), UNCHANGED G!db
        PROVE  \E a \in Answers : Answered(a) /\ Stands(a)
    <2>1. j.day \in Days
      BY <1>1 DEF Jobs
    <2>2. G!CountOf(j.day) \in Nat /\ G!CountOf(j.day) = Tally[j.day] /\ x10' = x10
      BY <1>5, <2>1, CountsAre DEF G!db, GreetingsTyped
    <2>3. PICK a \in Answers : Answered(a) /\ a.ok = TRUE /\ a.count = G!CountOf(j.day) /\ a.job = j
      BY <1>1, <1>2, <1>5, <2>2
    <2>4. a.count = Tally[a.job.day]
      BY <2>2, <2>3
    <2> QED  BY <1>3, <2>2, <2>3, <2>4 DEF Stands
  <1>6. ASSUME j.op = "context", G!Select(j)
        PROVE  \E a \in Answers : Answered(a) /\ Stands(a)
    <2>1. j \notin Counts
      BY <1>6 DEF Counts
    <2>2. CASE G!Fails(j)
      BY <1>4, <2>2
    <2>3. CASE G!Answer(j, TRUE, 0, G!NoCue) /\ x10' = x10
      BY <1>1, <1>2, <1>3, <2>1, <2>3 DEF Stands
    <2>4. ASSUME NEW q \in G!Cues, G!Answer(j, TRUE, 0, <<q, x11[q].n>>), x10' = x10
          PROVE  \E a \in Answers : Answered(a) /\ Stands(a)
      <3>1. x11[q].n \in Nat
        BY DEF GreetingsTyped, GreetingsRest, CueRows, CueRow
      <3>2. <<q, x11[q].n>> \in Refs
        BY <3>1 DEF Refs
      <3> QED  BY <1>1, <1>2, <1>3, <2>1, <2>4, <3>2 DEF Stands
    <2> QED  BY <1>6, <2>2, <2>3, <2>4 DEF G!Select
  <1>7. ASSUME j.op = "display", G!Record(j)
        PROVE  \E a \in Answers : Answered(a) /\ (Stands(a) \/ Counted(a))
    <2>1. CASE G!Fails(j)
      BY <1>4, <2>1
    <2>2. CASE ~G!Fails(j)
      <3>1. /\ x10' = [x10 EXCEPT ![j.id] = [st |-> "displayed", day |-> j.day, cue |-> j.cue]]
            /\ G!Answer(j, TRUE, 0, G!NoCue)
        BY <1>7, <2>2 DEF G!Record
      <3>2. j \in Displays
        BY <1>1, <1>7 DEF Displays
      <3> QED  BY <1>1, <1>2, <3>1, <3>2 DEF Counted
    <2> QED  BY <2>1, <2>2
  <1>8. ASSUME j.op \in {"dismiss", "click"}, NEW st \in {"dismissed", "clicked"},
               x10[j.id].st \in {"displayed", "dismissed"},
               x10' = [x10 EXCEPT ![j.id].st = st], G!Answer(j, TRUE, 0, G!NoCue)
        PROVE  \E a \in Answers : Answered(a) /\ Stands(a)
    <2>1. j \notin Counts /\ j.id \in G!Ids
      BY <1>1, <1>8 DEF Counts, Jobs
    <2>2. x10 \in Ledger
      BY DEF GreetingsTyped, Core
    <2>3. /\ x10' \in Ledger
          /\ \A i \in G!Ids :
               /\ x10'[i].day = x10[i].day
               /\ x10'[i].st # "absent" <=> x10[i].st # "absent"
      BY <1>8, <2>1, <2>2 DEF Ledger
    <2>4. ASSUME NEW d \in Days
          PROVE  G!CountOf(d)' = G!CountOf(d)
      <3>1. {i \in G!Ids : x10'[i].st # "absent" /\ x10'[i].day = d}
              = {i \in G!Ids : x10[i].st # "absent" /\ x10[i].day = d}
        <4>1. ASSUME NEW i \in G!Ids
              PROVE  (x10'[i].st # "absent" /\ x10'[i].day = d)
                       <=> (x10[i].st # "absent" /\ x10[i].day = d)
          BY <2>3
        <4> QED  BY <4>1
      <3> QED  BY <3>1, GreetingsCountIs
    <2>5. Tally' = Tally
      BY <2>4 DEF Tally
    <2>6. PICK a \in Answers : Answered(a) /\ a.ok = TRUE /\ a.count = 0 /\ a.job = j
      BY <1>1, <1>2, <1>8
    <2>7. Stands(a)
      BY <2>1, <2>3, <2>5, <2>6 DEF Stands
    <2> QED  BY <2>6, <2>7
  <1>9. ASSUME j.op = "dismiss", G!Forget(j)
        PROVE  \E a \in Answers : Answered(a) /\ Stands(a)
    <2>1. CASE G!Fails(j)
      BY <1>4, <2>1
    <2>2. CASE ~G!Fails(j)
      BY <1>8, <1>9, <2>2 DEF G!Forget
    <2> QED  BY <2>1, <2>2
  <1>10. ASSUME j.op = "click", G!Persist(j)
        PROVE  \E a \in Answers : Answered(a) /\ Stands(a)
    <2>1. CASE G!Fails(j)
      BY <1>4, <2>1
    <2>2. CASE ~G!Fails(j)
      BY <1>8, <1>10, <2>2 DEF G!Persist
    <2> QED  BY <2>1, <2>2
  <1> QED  BY <1>4, <1>5, <1>6, <1>7, <1>9, <1>10 DEF G!RunJob, j

LEMMA AnswerCore ==
  ASSUME Core, Dated, NEW a \in Answers, Answered(a), Stands(a) \/ Counted(a)
  PROVE  Core' /\ Dated'
  <1>1. /\ x8' \in Seq(Jobs) /\ Head(x8) \in Jobs /\ Head(x8) = a.job
        /\ Elements(x8) = {a.job} \cup Elements(x8')
    BY Taking DEF Core, Answered
  <1>2. x9' \in Seq(Answers)
    BY Appending DEF Core, Answered
  <1>3. x10' \in Ledger /\ \A i \in G!Ids : x10'[i].day <= x5
    <2>1. CASE Stands(a)
      BY <2>1 DEF Stands, Dated
    <2>2. CASE Counted(a)
      <3>1. /\ a.job.id \in G!Ids /\ a.job.day \in 0..GreetingsMaxDay /\ a.job.cue \in Refs /\ a.job.day <= x5
        BY <1>1, <2>2 DEF Counted, Jobs, Displays, Days, Dated
      <3> QED  BY <2>2, <3>1 DEF Counted, Ledger, Core, Dated
    <2> QED  BY <2>1, <2>2
  <1> QED  BY <1>1, <1>2, <1>3 DEF Core, Dated, Answered

LEMMA CountedIs ==
  ASSUME Core, NEW a \in Answers, Counted(a)
  PROVE  \A d \in Days : /\ Tally'[d] \in Nat /\ Tally[d] \in Nat
                         /\ d # a.job.day => Tally'[d] <= Tally[d]
                         /\ Tally'[d] <= Tally[d] + 1
  <1>1. a.job.id \in G!Ids
    BY DEF Counted, Jobs, Displays, Answers
  <1> SUFFICES ASSUME NEW d \in Days
               PROVE  /\ Tally'[d] \in Nat /\ Tally[d] \in Nat
                      /\ d # a.job.day => Tally'[d] <= Tally[d]
                      /\ Tally'[d] <= Tally[d] + 1
    OBVIOUS
  <1> DEFINE Z == {i \in G!Ids : x10[i].st # "absent" /\ x10[i].day = d}
             U == {i \in G!Ids : x10'[i].st # "absent" /\ x10'[i].day = d}
  <1>2. Tally'[d] = Cardinality(U)
    BY GreetingsCountIs DEF Tally
  <1>3. x10 \in Ledger /\ \A i \in G!Ids \ {a.job.id} : x10'[i] = x10[i]
    BY <1>1 DEF Counted, Core, Ledger
  <1>4. x10'[a.job.id].day = a.job.day
    BY <1>1, <1>3 DEF Counted, Ledger
  <1>5. U \in SUBSET (Z \cup {a.job.id})
    BY <1>3
  <1>6. d # a.job.day => U \in SUBSET Z
    BY <1>3, <1>4
  <1> HIDE DEF U
  <1> QED  BY <1>1, <1>2, <1>5, <1>6, CountsAre

LEMMA AnswerLimits ==
  ASSUME Core, NEW a \in Answers, Answered(a), Stands(a) \/ Counted(a), Limits
  PROVE  Limits'
  <1>1. x8 \in Seq(Jobs) /\ x9 \in Seq(Answers) /\ UNCHANGED <<x1, x7, x5>>
    BY DEF Core, Answered
  <1>2. /\ x8' \in Seq(Jobs) /\ a.job \in Jobs /\ Elements(x8) = {a.job} \cup Elements(x8')
        /\ Elements(x9') = Elements(x9) \cup {a}
    BY <1>1, Taking, Appending DEF Answered
  <1>3. /\ Single(x8', Open)
        /\ a.job \in Open => \A i \in Elements(x8') : i \notin Open
    BY <1>1, SingleTail DEF Answered, Limits, GreetingsLone
  <1>4. a \in Heard <=> a.job \in Open
    BY <1>2 DEF Heard, Open
  <1>5. a.job \in Open => Elements(x9) \cap Heard = {}
    BY <1>2 DEF Limits, GreetingsLone
  <1>6. Single(x9', Heard)
    BY <1>1, <1>4, <1>5, SingleAppend DEF Answered, Limits, GreetingsLone
  <1>7. G!LaneFree' <=> G!LaneFree
    BY <1>1 DEF G!LaneFree
  <1>8. GreetingsLone'
    <2>1. Elements(x8') \cap Open # {} => Elements(x9') \cap Heard = {}
      BY <1>2, <1>3, <1>4 DEF Limits, GreetingsLone
    <2>2. ~G!LaneFree => Elements(x8') \cap Open = {} /\ Elements(x9') \cap Heard = {}
      BY <1>2, <1>4 DEF Limits, GreetingsLone, Idly
    <2> QED  BY <1>1, <1>3, <1>6, <1>7, <2>1, <2>2 DEF Limits, GreetingsLone, Idly
  <1>9. CASE Stands(a)
    <2>1. Tally' = Tally
      BY <1>9 DEF Stands
    <2>2. Wanting'
      <3>1. CASE x1.pending = G!None
        BY <1>1, <3>1 DEF Wanting
      <3>2. CASE x1.pending # G!None
        BY <1>1, <1>2, <2>1, <3>2 DEF Limits, Wanting
      <3> QED  BY <3>1, <3>2
    <2>3. a.ok /\ a.job \in Counts => Tally[a.job.day] <= a.count
      <3>1. \A d \in Days : Tally[d] \in Nat
        BY CountsAre
      <3>2. a.job.day \in Days
        BY <1>2 DEF Jobs
      <3> QED  BY <1>9, <3>1, <3>2 DEF Stands
    <2>4. Agreed'
      BY <1>1, <1>2, <2>1, <2>3 DEF Limits, Agreed
    <2> QED  BY <1>8, <2>2, <2>4 DEF Limits
  <1>10. CASE Counted(a)
    <2>1. a.job \in Displays /\ a.job \in Open /\ a.job \notin Counts /\ a.ok
      BY <1>10, OpenAre DEF Counted, Displays, Counts
    <2>2. x1.pending = G!None
      BY <1>2, <2>1 DEF Limits, Wanting
    <2>3. Wanting'
      BY <1>1, <2>2 DEF Wanting
    <2>4. Elements(x8') \cap Displays = {}
      BY <1>3, <2>1, OpenAre
    <2>5. \A b \in Elements(x9) : b.job \notin Counts /\ b.job \notin Displays
      <3>1. Elements(x9) \subseteq Answers
        BY <1>1, NotEmpty
      <3> QED  BY <1>5, <2>1, <3>1, OpenAre
    <2>6. \A d \in Days : Tally'[d] <= GreetingsLimit
      <3>1. a.job.day \in Days /\ Tally[a.job.day] < GreetingsLimit
        BY <1>2, <2>1 DEF Jobs, Limits, Agreed
      <3>2. \A d \in Days : Tally[d] <= GreetingsLimit
        BY DEF Limits, Agreed
      <3> QED  BY <1>10, <3>1, <3>2, CountedIs, ComponentsAssumption
    <2>7. Agreed'
      BY <1>1, <1>2, <2>1, <2>4, <2>5, <2>6 DEF Agreed
    <2> QED  BY <1>8, <2>3, <2>7 DEF Limits
  <1> QED  BY <1>9, <1>10
----------------------------------------
(* An opportunity goes on when nothing else is under way. *)

Clear == /\ Elements(x8) \cap Open = {} /\ Elements(x9') \cap Heard = {}
         /\ x9' \in Seq(Answers) /\ Single(x9', Heard)
         /\ UNCHANGED <<x10, x5>>

LEMMA ClearIs ==
  ASSUME Core, Limits, Clear
  PROVE  /\ Single(x8, Open) /\ Tally' = Tally
         /\ \A j \in Elements(x8) : j \notin Counts /\ j \notin Displays
         /\ \A a \in Elements(x9') : a.job \notin Counts /\ a.job \notin Displays
         /\ \A d \in Days : Tally[d] \in Nat /\ Tally[d] <= GreetingsLimit
  <1>1. \A j \in Elements(x8) : j \notin Counts /\ j \notin Displays
    BY OpenAre DEF Clear
  <1>2. Elements(x9') \subseteq Answers
    BY NotEmpty DEF Clear
  <1>3. \A a \in Elements(x9') : a.job \notin Counts /\ a.job \notin Displays
    BY <1>2, OpenAre DEF Clear
  <1> QED  BY <1>1, <1>3, CountsAre DEF Clear, Limits, GreetingsLone, Agreed, Tally, G!CountOf

LEMMA DisplayedKeeps ==
  ASSUME Core, Dated, NEW x \in Controllers, x.pending \in Wish, Displayed(x),
         x.active = x1.active \/ x.active = G!None, x9' \in Seq(Answers),
         UNCHANGED <<x10, x5>>, x7' \in GreetingsLanes,
         x.lane # "free" => x7'[x.lane] \in Work
  PROVE  /\ Core' /\ Dated'
         /\ Limits /\ Clear /\ G!LaneFree' /\ Tally[x.pending.day] <= x.pending.count => Limits'
  <1>1. x8 \in Seq(Jobs) /\ x5 \in Nat
    BY ComponentsAssumption DEF Core, Days
  <1>2. CASE x1'.active = x.active /\ x8' = x8
    <2>1. Core' /\ Dated'
      BY <1>2 DEF Displayed, Core, Dated
    <2>2. ASSUME Limits, Clear, G!LaneFree'
          PROVE  Limits'
      <3>1. GreetingsLone'
        BY <1>2, <2>2, ClearIs DEF GreetingsLone, Clear, G!LaneFree, G!Runners
      <3>2. Wanting'
        BY DEF Displayed, Wanting
      <3>3. Agreed'
        BY <1>2, <2>2, ClearIs DEF Agreed, Clear
      <3> QED  BY <3>1, <3>2, <3>3 DEF Limits
    <2> QED  BY <2>1, <2>2
  <1>3. ASSUME x.pending.day = x5, x.pending.count < GreetingsLimit, x1'.active \in Shown,
               x1'.active.count = x.pending.count,
               NEW j \in Jobs, j \in Displays, j.day = x5, x8' = Append(x8, j)
        PROVE  /\ Core' /\ Dated'
               /\ Limits /\ Clear /\ G!LaneFree' /\ Tally[x.pending.day] <= x.pending.count => Limits'
    <2>1. x8' \in Seq(Jobs) /\ Elements(x8') = Elements(x8) \cup {j}
      BY <1>1, <1>3, Appending
    <2>2. Core'
      BY <2>1 DEF Displayed, Core
    <2>3. Dated'
      BY <1>1, <1>3, <2>1 DEF Dated
    <2>4. ASSUME Limits, Clear, G!LaneFree', Tally[x.pending.day] <= x.pending.count
          PROVE  Limits'
      <3>1. Single(x8', Open)
        BY <1>1, <1>3, <2>4, ClearIs, SingleAppend DEF Clear
      <3>2. GreetingsLone'
        BY <2>4, <3>1 DEF GreetingsLone, Clear, G!LaneFree, G!Runners
      <3>3. Wanting'
        BY DEF Displayed, Wanting
      <3>4. Tally[x5] \in Nat /\ Tally[x5] <= x.pending.count /\ x.pending.count \in Nat
        BY <1>3, <2>4, ClearIs DEF Core, Wish
      <3>5. Tally'[x5'] <= x1'.active.count /\ Tally[x5] < GreetingsLimit
        BY <1>3, <2>4, <3>4, ClearIs, ComponentsAssumption
      <3>6. \A i \in Elements(x8') : i \in Displays => Tally'[i.day] < GreetingsLimit
        BY <1>3, <2>1, <2>4, <3>5, ClearIs
      <3>7. Agreed'
        BY <2>4, <3>5, <3>6, ClearIs DEF Agreed
      <3> QED  BY <3>2, <3>3, <3>7 DEF Limits
    <2> QED  BY <2>2, <2>3, <2>4
  <1> QED  BY <1>2, <1>3 DEF Displayed

LEMMA GeneratesKeeps ==
  ASSUME Core, Dated, NEW x \in Controllers, x.pending \in Wish, Generates(x),
         x.active = x1.active, x9' \in Seq(Answers), UNCHANGED <<x10, x5>>
  PROVE  /\ Core' /\ Dated'
         /\ Limits /\ Clear /\ Tally[x.pending.day] <= x.pending.count => Limits'
  <1>1. Core' /\ Dated'
    BY DEF Generates, Core, Dated
  <1>2. ASSUME Limits, Clear, Tally[x.pending.day] <= x.pending.count
        PROVE  Limits'
    <2>1. x8' = x8 /\ x1'.pending = x.pending /\ x1'.active = x1.active
      BY DEF Generates
    <2>2. GreetingsLone'
      BY <1>2, <2>1, ClearIs DEF GreetingsLone, Idly, Clear, Generates
    <2>3. Wanting'
      BY <1>2, <2>1, ClearIs DEF Wanting
    <2>4. Agreed'
      BY <1>2, <2>1, ClearIs DEF Agreed
    <2> QED  BY <2>2, <2>3, <2>4 DEF Limits
  <1> QED  BY <1>1, <1>2

----------------------------------------
(* A runner ends. *)

LEMMA RunsKeeps ==
  ASSUME Core, Dated, NEW r \in G!Runners, G!Runs(r)
  PROVE  Core' /\ Dated' /\ (x1.late \/ Limits => x1'.late \/ Limits')
  <1> DEFINE x == G!Free(x1)
  <1>1. /\ x7[r] # G!None /\ x7' = [x7 EXCEPT ![r] = G!None]
        /\ UNCHANGED <<x9, x10, x5>>
    BY DEF G!Runs, G!GenerationEnds, G!GenerationFails, G!env, G!db
  <1>2. /\ x \in Controllers /\ x.lane = "free" /\ x.pending = x1.pending /\ x.late = x1.late
        /\ x.active = x1.active
    BY FreeIs DEF Core
  <1>3. \/ x1' = G!Cleared(x) /\ x8' = x8
        \/ x1.pending # G!None /\ G!Display(x, G!NoCue)
    BY DEF G!Runs, G!GenerationEnds, G!GenerationFails, G!Wanted
  <1>4. x7 \in GreetingsLanes /\ x9 \in Seq(Answers)
    BY DEF Core
  <1>5. x7' \in GreetingsLanes /\ (\A o \in G!Runners : x7[o] = G!None => x7'[o] = G!None) /\ x7'[r] = G!None
    BY <1>1, <1>4 DEF GreetingsLanes
  <1> HIDE DEF x
  <1>6. CASE x1' = G!Cleared(x) /\ x8' = x8
    <2>1. Calm
      BY <1>1, <1>2, <1>5, <1>6, ClearedIs DEF Calm, Quieter, GreetingsReports
    <2>2. x1'.late = x1.late
      BY <1>2, <1>6, ClearedIs
    <2> QED  BY <2>1, <2>2, CalmCore, CalmDated, CalmLimits
  <1>7. CASE x1.pending # G!None /\ G!Display(x, G!NoCue)
    <2>1. x.pending \in Wish /\ G!NoCue \in Refs
      BY <1>2, <1>7 DEF Core, Controllers, Refs
    <2>2. Displayed(x)
      BY <1>2, <1>7, <2>1, DisplayIs
    <2>3. x1'.late = x1.late
      BY <1>2, <2>2 DEF Displayed
    <2>4. /\ Core' /\ Dated'
          /\ Limits /\ Clear /\ G!LaneFree' /\ Tally[x.pending.day] <= x.pending.count => Limits'
      BY <1>1, <1>2, <1>4, <1>5, <2>1, <2>2, DisplayedKeeps
    <2>5. ASSUME Limits
          PROVE  Clear /\ G!LaneFree' /\ Tally[x.pending.day] <= x.pending.count
      <3>1. ~G!LaneFree
        BY <1>1 DEF G!LaneFree
      <3>2. Elements(x8) \cap Open = {} /\ Elements(x9) \cap Heard = {}
        BY <2>5, <3>1 DEF Limits, GreetingsLone, Idly
      <3>3. Clear
        BY <1>1, <1>4, <2>5, <3>2 DEF Clear, Limits, GreetingsLone
      <3>4. Tally[x1.pending.day] <= x1.pending.count
        BY <1>1, <1>7, <2>5, <3>3, ClearIs DEF Limits, Wanting
      <3>5. "text" \in G!Runners /\ "visual" \in G!Runners /\ G!Runners = {"text", "visual"}
        BY DEF G!Runners
      <3>6. \A o \in G!Runners \ {r} : x7[o] = G!None
        <4>1. CASE r = "text"
          BY <1>1, <2>5, <3>5, <4>1 DEF Limits, GreetingsLone
        <4>2. CASE r = "visual"
          BY <1>1, <2>5, <3>5, <4>2 DEF Limits, GreetingsLone
        <4> QED  BY <3>5, <4>1, <4>2
      <3>7. G!LaneFree'
        BY <1>5, <3>6 DEF G!LaneFree
      <3> QED  BY <1>2, <3>3, <3>4, <3>7
    <2> QED  BY <2>3, <2>4, <2>5
  <1> QED  BY <1>3, <1>6, <1>7
----------------------------------------
(* The controller hears an answer. *)

\* The opportunity x that goes on is the one the answer is about, and knows the ledger.
Fits(x, r) ==
  \/ r.job.op = "context" /\ x1.pending # G!None /\ x.pending = x1.pending
  \/ r.job.op = "count" /\ r.ok /\ x.pending.day = r.job.day /\ x.pending.count = r.count
  \/ /\ r.job.op = "display" /\ ~r.ok /\ x1.active # G!None
     /\ x.pending.day = x5 /\ x.pending.count = x1.active.count
GreetingsGoesOn(r) ==
  \E x \in Controllers :
    /\ x.pending \in Wish /\ x.late = x1.late /\ x.lane = x1.lane /\ Fits(x, r)
    /\ \/ x.active = x1.active /\ Generates(x)
       \/ x.active \in {x1.active, G!None} /\ Displayed(x) /\ x7' = x7
\* The cue to show is asked for.
Inquires(r) ==
  /\ r.job.op = "count" /\ r.ok
  /\ x1' \in Controllers /\ x1'.late = x1.late /\ x1'.lane = x1.lane /\ x1'.active = x1.active
  /\ x1'.pending \in Wish /\ x1'.pending.day = r.job.day /\ x1'.pending.count = r.count
  /\ x7' = x7
  /\ \E j \in Jobs : j.op = "context" /\ j.day = x5 /\ x8' = Append(x8, j)
\* Or the answer ends something, or nothing.
GreetingsSettles(r) ==
  /\ Quieter /\ GreetingsReports
  /\ r.job.op = "count" => x1'.pending = G!None \/ (x1.pending # G!None /\ x1.pending.day # r.job.day)

LEMMA ClearingIs ==
  ASSUME Core, NEW x \in Controllers, x.late = x1.late, x.lane = x1.lane, x.active \in {x1.active, G!None},
         x1' = G!Cleared(x), UNCHANGED x7
  PROVE  Quieter /\ x1'.pending = G!None
  BY ClearedIs DEF Quieter, Core

LEMMA OnFailedIs ==
  ASSUME Core, NEW r \in Answers, ~r.ok, G!OnFailed(r)
  PROVE  GreetingsSettles(r) \/ GreetingsGoesOn(r)
  <1>0. x1 \in Controllers /\ G!NoCue \in Refs
    BY DEF Core, Refs
  <1>1. CASE r.job.op = "count" /\ x1' = G!Cleared(x1) /\ UNCHANGED <<x6, x7, x8>>
    BY <1>0, <1>1, ClearingIs DEF GreetingsSettles, GreetingsReports
  <1>2. CASE r.job.op = "dismiss" /\ x1' = G!Cleared(G!AfterFailure(x1)) /\ UNCHANGED <<x6, x7, x8>>
    <2>1. x1' = G!Cleared(G!Ended(x1))
      BY <1>2 DEF G!AfterFailure
    <2>2. Quieter
      BY <1>0, <1>2, <2>1, EndedIs, ClearingIs
    <2> QED  BY <1>2, <2>2 DEF GreetingsSettles, GreetingsReports
  <1>3. CASE /\ r.job.op = "click" /\ x1' = G!Cleared(G!AfterFailure(x1)) /\ UNCHANGED <<x6, x7>>
             /\ IF x1.active # G!None THEN G!Ask(G!Job("dismiss", x1.active.id, G!NoCue, "idle")) ELSE UNCHANGED x8
    <2>1. x1' = G!Cleared(G!Ended(x1))
      BY <1>3 DEF G!AfterFailure
    <2>2. Quieter
      BY <1>0, <1>3, <2>1, EndedIs, ClearingIs
    <2>3. GreetingsReports
      BY <1>3, ReportIs DEF GreetingsReports
    <2> QED  BY <1>3, <2>2, <2>3 DEF GreetingsSettles
  <1>4. CASE /\ r.job.op = "context"
             /\ IF x1.pending # G!None /\ x1.pending.day = x5 THEN G!Continue(x1)
                ELSE x1' = G!Cleared(x1) /\ UNCHANGED <<x6, x7, x8>>
    <2>1. CASE x1.pending # G!None /\ x1.pending.day = x5
      <3>1. x1.pending \in Wish
        BY <1>0, <2>1 DEF Controllers
      <3>2. Continues(x1)
        BY <1>0, <1>4, <2>1, <3>1, ContinueIs
      <3> QED  BY <1>0, <1>4, <2>1, <3>1, <3>2 DEF GreetingsGoesOn, Fits, Continues
    <2>2. CASE ~(x1.pending # G!None /\ x1.pending.day = x5)
      BY <1>0, <1>4, <2>2, ClearingIs DEF GreetingsSettles, GreetingsReports
    <2> QED  BY <2>1, <2>2
  <1>5. CASE r.job.op = "display" /\ G!OnDisplayFailed /\ UNCHANGED x7
    <2> DEFINE w == [trigger |-> x1.active.trigger, day |-> x5, count |-> x1.active.count]
               x == [G!Ended(x1) EXCEPT !.pending = w]
    <2>1. CASE x1.active # G!None /\ x1.active.cue # G!NoCue /\ x1.running
      <3>1. w \in Wish /\ w.day = x5 /\ w.count = x1.active.count
        BY <1>0, <2>1 DEF Core, Controllers, Shown, Wish
      <3>2. \/ G!Display(x, G!NoCue)
            \/ x1' = G!Cleared(x) /\ UNCHANGED x8
        BY <1>5, <2>1 DEF G!OnDisplayFailed
      <3> HIDE DEF w
      <3>3. /\ x \in Controllers /\ x.pending = w /\ x.late = x1.late /\ x.lane = x1.lane /\ x.active = G!None
        BY <1>0, <3>1, EndedIs DEF Controllers
      <3> HIDE DEF x
      <3>4. CASE G!Display(x, G!NoCue)
        <4>1. Displayed(x)
          BY <1>0, <3>1, <3>3, <3>4, DisplayIs
        <4> QED  BY <1>5, <2>1, <3>1, <3>3, <4>1 DEF GreetingsGoesOn, Fits
      <3>5. CASE x1' = G!Cleared(x) /\ UNCHANGED x8
        BY <1>5, <3>3, <3>5, ClearingIs DEF GreetingsSettles, GreetingsReports
      <3> QED  BY <3>2, <3>4, <3>5
    <2>2. CASE ~(x1.active # G!None /\ x1.active.cue # G!NoCue /\ x1.running)
      <3>1. x1' = G!Cleared(G!Ended(x1)) /\ UNCHANGED <<x8, x7>>
        BY <1>5, <2>2 DEF G!OnDisplayFailed
      <3> QED  BY <1>0, <1>5, <3>1, EndedIs, ClearingIs DEF GreetingsSettles, GreetingsReports
    <2> QED  BY <2>1, <2>2
  <1> QED  BY <1>1, <1>2, <1>3, <1>4, <1>5 DEF G!OnFailed

LEMMA OnCountIs ==
  ASSUME Core, NEW r \in Answers, r.ok, r.job.op = "count", G!OnCount(r)
  PROVE  GreetingsSettles(r) \/ GreetingsGoesOn(r) \/ Inquires(r)
  <1>0. x1 \in Controllers /\ r.count \in Nat
    BY DEF Core, Answers
  <1> DEFINE w == [x1.pending EXCEPT !.count = r.count]
             x == [x1 EXCEPT !.pending = w]
  <1>1. CASE x1.pending = G!None \/ x1.pending.day # r.job.day
    <2>1. UNCHANGED <<x1, x7, x8>>
      BY <1>1 DEF G!OnCount
    <2>2. Quieter
      BY <2>1, GreetingsSameIs
    <2> QED  BY <1>1, <2>1, <2>2 DEF GreetingsSettles, GreetingsReports
  <1>2. CASE ~(x1.pending = G!None \/ x1.pending.day # r.job.day)
    <2>1. \/ x1' = G!Cleared(x1) /\ UNCHANGED <<x7, x8>>
          \/ x1' = x /\ G!Ask(G!Job("context", 0, G!NoCue, x.pending.trigger)) /\ UNCHANGED x7
          \/ G!Continue(x)
      BY <1>2 DEF G!OnCount
    <2>2. x1.pending \in Wish
      BY <1>0, <1>2 DEF Controllers
    <2>3. w \in Wish /\ w.count = r.count /\ w.day = r.job.day
      BY <1>0, <1>2, <2>2 DEF Wish
    <2> HIDE DEF w
    <2>4. /\ x \in Controllers /\ x.pending = w /\ x.late = x1.late /\ x.lane = x1.lane
          /\ x.active = x1.active
      BY <1>0, <2>3 DEF Controllers
    <2> HIDE DEF x
    <2>5. CASE x1' = G!Cleared(x1) /\ UNCHANGED <<x7, x8>>
      BY <1>0, <2>5, ClearingIs DEF GreetingsSettles, GreetingsReports
    <2>6. CASE x1' = x /\ G!Ask(G!Job("context", 0, G!NoCue, x.pending.trigger)) /\ UNCHANGED x7
      <3>1. x.pending.trigger \in G!Triggers /\ G!NoCue \in Refs /\ 0 \in Nat /\ x5 \in Days
        BY <2>3, <2>4 DEF Wish, Refs, Core
      <3>2. /\ G!Job("context", 0, G!NoCue, x.pending.trigger) \in Jobs
            /\ G!Job("context", 0, G!NoCue, x.pending.trigger).op = "context"
            /\ G!Job("context", 0, G!NoCue, x.pending.trigger).day = x5
        BY <3>1, JobIs
      <3> QED  BY <2>3, <2>4, <2>6, <3>2 DEF Inquires, G!Ask
    <2>7. CASE G!Continue(x)
      <3>1. Continues(x)
        BY <2>3, <2>4, <2>7, ContinueIs
      <3> QED  BY <2>3, <2>4, <3>1 DEF GreetingsGoesOn, Fits, Continues
    <2> QED  BY <2>1, <2>5, <2>6, <2>7
  <1> QED  BY <1>1, <1>2

LEMMA OnContextIs ==
  ASSUME Core, NEW r \in Answers, r.job.op = "context", G!OnContext(r)
  PROVE  GreetingsSettles(r) \/ GreetingsGoesOn(r)
  <1>0. x1 \in Controllers /\ r.cue \in Refs
    BY DEF Core, Answers
  <1>1. CASE x1.pending = G!None
    <2>1. UNCHANGED <<x1, x7, x8>>
      BY <1>1 DEF G!OnContext
    <2>2. Quieter
      BY <2>1, GreetingsSameIs
    <2> QED  BY <2>1, <2>2 DEF GreetingsSettles, GreetingsReports
  <1>2. CASE x1.pending # G!None
    <2>1. \/ x1' = G!Cleared(x1) /\ UNCHANGED <<x7, x8>>
          \/ G!Display(x1, r.cue) /\ UNCHANGED x7
          \/ G!Continue(x1)
      BY <1>2 DEF G!OnContext
    <2>2. x1.pending \in Wish
      BY <1>0, <1>2 DEF Controllers
    <2>3. CASE x1' = G!Cleared(x1) /\ UNCHANGED <<x7, x8>>
      BY <1>0, <2>3, ClearingIs DEF GreetingsSettles, GreetingsReports
    <2>4. CASE G!Display(x1, r.cue) /\ UNCHANGED x7
      <3>1. Displayed(x1)
        BY <1>0, <2>2, <2>4, DisplayIs
      <3> QED  BY <1>0, <1>2, <2>2, <2>4, <3>1 DEF GreetingsGoesOn, Fits
    <2>5. CASE G!Continue(x1)
      <3>1. Continues(x1)
        BY <1>0, <2>2, <2>5, ContinueIs
      <3> QED  BY <1>0, <1>2, <2>2, <3>1 DEF GreetingsGoesOn, Fits, Continues
    <2> QED  BY <2>1, <2>3, <2>4, <2>5
  <1> QED  BY <1>1, <1>2

LEMMA GreetingsHandleIs ==
  ASSUME Core, G!Handle
  PROVE  LET r == Head(x9)
         IN  /\ x9 # <<>> /\ r \in Answers /\ x9' = Tail(x9)
             /\ UNCHANGED <<x10, x5>>
             /\ GreetingsSettles(r) \/ GreetingsGoesOn(r) \/ Inquires(r)
  <1> DEFINE r == Head(x9)
  <1>1. /\ x9 # <<>> /\ r \in Answers /\ x9' = Tail(x9) /\ UNCHANGED <<x10, x5>>
    BY Taking DEF G!Handle, Core, G!db, G!env
  <1>2. \/ ~r.ok /\ G!OnFailed(r)
        \/ r.ok /\ r.job.op = "count" /\ G!OnCount(r)
        \/ r.ok /\ r.job.op = "context" /\ G!OnContext(r)
        \/ r.ok /\ r.job.op = "display" /\ UNCHANGED <<x1, x7, x8>>
        \/ r.ok /\ r.job.op \in {"dismiss", "click"} /\ G!OnEnded(r)
    BY DEF G!Handle
  <1> HIDE DEF r
  <1>3. ASSUME ~r.ok /\ G!OnFailed(r)
        PROVE  GreetingsSettles(r) \/ GreetingsGoesOn(r) \/ Inquires(r)
    BY <1>1, <1>3, OnFailedIs
  <1>4. ASSUME r.ok /\ r.job.op = "count" /\ G!OnCount(r)
        PROVE  GreetingsSettles(r) \/ GreetingsGoesOn(r) \/ Inquires(r)
    BY <1>1, <1>4, OnCountIs
  <1>5. ASSUME r.ok /\ r.job.op = "context" /\ G!OnContext(r)
        PROVE  GreetingsSettles(r) \/ GreetingsGoesOn(r) \/ Inquires(r)
    BY <1>1, <1>5, OnContextIs
  <1>6. ASSUME r.ok /\ r.job.op = "display" /\ UNCHANGED <<x1, x7, x8>>
        PROVE  GreetingsSettles(r) \/ GreetingsGoesOn(r) \/ Inquires(r)
    <2>1. Quieter
      BY <1>6, GreetingsSameIs
    <2> QED  BY <1>6, <2>1 DEF GreetingsSettles, GreetingsReports
  <1>7. ASSUME r.ok /\ r.job.op \in {"dismiss", "click"} /\ G!OnEnded(r)
        PROVE  GreetingsSettles(r) \/ GreetingsGoesOn(r) \/ Inquires(r)
    <2>1. (x1' = x1 \/ x1' = G!Ended(x1)) /\ UNCHANGED <<x7, x8>>
      BY <1>7 DEF G!OnEnded
    <2>2. Quieter
      BY <2>1, EndedIs DEF Quieter, Core
    <2> QED  BY <1>7, <2>1, <2>2 DEF GreetingsSettles, GreetingsReports
  <1>8. GreetingsSettles(r) \/ GreetingsGoesOn(r) \/ Inquires(r)
    BY <1>2, <1>3, <1>4, <1>5, <1>6, <1>7
  <1> QED  BY <1>1, <1>8 DEF r
\* What the answers leave when the first one is taken.
LEMMA Left ==
  ASSUME Core, x9 # <<>>, x9' = Tail(x9)
  PROVE  /\ x9 \in Seq(Answers) /\ x9' \in Seq(Answers) /\ Head(x9) \in Answers
         /\ Elements(x9) = {Head(x9)} \cup Elements(x9')
         /\ Limits => Single(x9', Heard)
         /\ Limits /\ Head(x9) \in Heard
              => G!LaneFree /\ Elements(x8) \cap Open = {} /\ Elements(x9') \cap Heard = {}
  <1>1. /\ x9 \in Seq(Answers) /\ x9' \in Seq(Answers) /\ Head(x9) \in Answers
        /\ Elements(x9) = {Head(x9)} \cup Elements(x9')
    BY Taking DEF Core
  <1>2. ASSUME Limits
        PROVE  Single(x9', Heard)
    BY <1>1, <1>2, SingleTail DEF Limits, GreetingsLone
  <1>3. ASSUME Limits, Head(x9) \in Heard
        PROVE  G!LaneFree /\ Elements(x8) \cap Open = {} /\ Elements(x9') \cap Heard = {}
    <2>1. Elements(x9) \cap Heard # {}
      BY <1>1, <1>3
    <2>2. \A a \in Elements(x9') : a \notin Heard
      BY <1>1, <1>3, SingleTail DEF Limits, GreetingsLone
    <2> QED  BY <1>3, <2>1, <2>2 DEF Limits, GreetingsLone, Idly
  <1> QED  BY <1>1, <1>2, <1>3

LEMMA SettlesKeeps ==
  ASSUME Core, Dated, x9 # <<>>, x9' = Tail(x9), UNCHANGED <<x10, x5>>,
         GreetingsSettles(Head(x9))
  PROVE  Core' /\ Dated' /\ (Limits => Limits')
  <1> DEFINE r == Head(x9)
  <1>1. r \in Answers /\ x9' \in Seq(Answers) /\ Elements(x9) = {r} \cup Elements(x9')
    BY Left
  <1>2. /\ \A j \in Elements(x8') : j \in Elements(x8) \/ (j \notin Open /\ j.day = x5)
        /\ Elements(x8) \subseteq Elements(x8')
        /\ Single(x8, Open) => Single(x8', Open)
    BY ReportsAre DEF GreetingsSettles
  <1>3. x5 \in Nat /\ x8' \in Seq(Jobs)
    <2>1. x5 \in Nat
      BY ComponentsAssumption DEF Core, Days
    <2>2. GreetingsReports
      BY DEF GreetingsSettles
    <2>3. x8' \in Seq(Jobs)
      BY <2>2, Appending DEF Core, GreetingsReports
    <2> QED  BY <2>1, <2>3
  <1>4. Core'
    BY <1>1, <1>3 DEF Core, GreetingsSettles, Quieter
  <1>5. Dated'
    BY <1>2, <1>3 DEF Dated
  <1>6. ASSUME Limits
        PROVE  Limits'
    <2>1. Elements(x8') \cap Open = Elements(x8) \cap Open
      BY <1>2
    <2>2. Elements(x8') \cap Displays = Elements(x8) \cap Displays
          /\ Elements(x8') \cap Counts = Elements(x8) \cap Counts
      BY <2>1, OpenAre
    <2>3. G!LaneFree => G!LaneFree'
      BY DEF GreetingsSettles, Quieter, G!LaneFree
    <2>4. "text" \in G!Runners /\ "visual" \in G!Runners
      BY DEF G!Runners
    <2>5. Single(x8', Open) /\ Single(x9', Heard)
      BY <1>2, <1>6, Left DEF Limits, GreetingsLone
    <2>6. Elements(x9') \subseteq Elements(x9)
      BY <1>1
    <2>7. GreetingsLone'
      <3>1. Elements(x8') \cap Open # {} => Elements(x9') \cap Heard = {}
        BY <1>6, <2>1, <2>6 DEF Limits, GreetingsLone
      <3>2. ~G!LaneFree' => Elements(x8') \cap Open = {} /\ Elements(x9') \cap Heard = {}
        BY <1>6, <2>1, <2>3, <2>6 DEF Limits, GreetingsLone, Idly
      <3> QED  BY <1>6, <2>4, <2>5, <3>1, <3>2 DEF Limits, GreetingsLone, Idly, GreetingsSettles, Quieter
    <2>8. Tally' = Tally
      BY DEF Tally, G!CountOf
    <2>9. \A j \in Elements(x8') : j \in Counts \cup Displays => j \in Elements(x8)
      BY <2>2
    <2>10. Wanting'
      <3>1. CASE x1'.pending = G!None
        BY <3>1 DEF Wanting
      <3>2. CASE x1'.pending = x1.pending /\ x1.pending # G!None
        <4>1. r.job \in Counts => r.job.day = x1.pending.day
          BY <1>1, <1>6, <3>2 DEF Limits, Wanting
        <4>2. r.job \notin Counts
          BY <3>2, <4>1 DEF Counts, GreetingsSettles
        <4>3. (\A a \in Elements(x9') : a.job \notin Counts) => \A a \in Elements(x9) : a.job \notin Counts
          BY <1>1, <4>2
        <4> QED  BY <1>6, <2>2, <2>6, <2>8, <2>9, <3>2, <4>3 DEF Limits, Wanting
      <3> QED  BY <3>1, <3>2 DEF GreetingsSettles, Quieter
    <2>11. Agreed'
      <3>1. x1'.active # G!None => x1'.active = x1.active /\ x1.active # G!None
        BY DEF GreetingsSettles, Quieter
      <3> QED  BY <1>6, <2>2, <2>6, <2>8, <2>9, <3>1 DEF Limits, Agreed
    <2> QED  BY <2>7, <2>10, <2>11 DEF Limits
  <1> QED  BY <1>4, <1>5, <1>6

LEMMA GoesOnKeeps ==
  ASSUME Core, Dated, x9 # <<>>, x9' = Tail(x9), UNCHANGED <<x10, x5>>,
         GreetingsGoesOn(Head(x9))
  PROVE  Core' /\ Dated' /\ (Limits => Limits')
  <1> DEFINE r == Head(x9)
  <1>1. r \in Answers /\ x9' \in Seq(Answers) /\ Elements(x9) = {r} \cup Elements(x9')
    BY Left
  <1> HIDE DEF r
  <1>2. PICK x \in Controllers :
          /\ x.pending \in Wish /\ x.late = x1.late /\ x.lane = x1.lane /\ Fits(x, r)
          /\ \/ x.active = x1.active /\ Generates(x)
             \/ x.active \in {x1.active, G!None} /\ Displayed(x) /\ x7' = x7
    BY DEF GreetingsGoesOn, r
  <1>3. ASSUME Limits
        PROVE  Clear /\ G!LaneFree /\ Tally[x.pending.day] <= x.pending.count
    <2>1. r \in Heard
      BY <1>1, <1>2 DEF Heard, G!Asked, Fits
    <2>2. G!LaneFree /\ Clear
      BY <1>1, <1>3, <2>1, Left DEF Clear, r
    <2>3. r \in Elements(x9) /\ (\A j \in Elements(x8) : j \notin Counts /\ j \notin Displays)
      BY <1>1, <1>3, <2>2, ClearIs
    <2>4. CASE r.job.op = "context" /\ x1.pending # G!None /\ x.pending = x1.pending
      <3>1. r.job \notin Counts
        BY <2>4 DEF Counts
      <3>2. \A a \in Elements(x9) : a.job \notin Counts
        BY <1>1, <1>3, <2>2, <3>1, ClearIs
      <3>3. Elements(x8) \cap Counts = {}
        BY <2>3
      <3> QED  BY <1>3, <2>2, <2>4, <3>2, <3>3 DEF Limits, Wanting
    <2>5. CASE r.job.op = "count" /\ r.ok /\ x.pending.day = r.job.day /\ x.pending.count = r.count
      <3>1. r.job \in Counts
        BY <1>1, <2>5 DEF Counts, Answers
      <3> QED  BY <1>3, <2>2, <2>3, <2>5, <3>1 DEF Limits, Agreed
    <2>6. CASE /\ r.job.op = "display" /\ ~r.ok /\ x1.active # G!None
               /\ x.pending.day = x5 /\ x.pending.count = x1.active.count
      <3>1. r.job \in Displays
        BY <1>1, <2>6 DEF Displays, Answers
      <3>2. Tally[x5] <= x1.active.count
        BY <1>3, <2>3, <2>6, <3>1 DEF Limits, Agreed
      <3> QED  BY <2>2, <2>6, <3>2
    <2> QED  BY <1>2, <2>4, <2>5, <2>6 DEF Fits
  <1>4. CASE x.active = x1.active /\ Generates(x)
    BY <1>1, <1>2, <1>3, <1>4, GeneratesKeeps
  <1>5. CASE x.active \in {x1.active, G!None} /\ Displayed(x) /\ x7' = x7
    <2>1. x7' \in GreetingsLanes /\ (x.lane # "free" => x7'[x.lane] \in Work)
      BY <1>2, <1>5 DEF Core
    <2>2. G!LaneFree => G!LaneFree'
      BY <1>5 DEF G!LaneFree
    <2>3. /\ Core' /\ Dated'
          /\ Limits /\ Clear /\ G!LaneFree' /\ Tally[x.pending.day] <= x.pending.count => Limits'
      BY <1>1, <1>2, <1>5, <2>1, DisplayedKeeps
    <2> QED  BY <1>3, <2>2, <2>3
  <1> QED  BY <1>2, <1>4, <1>5

LEMMA InquiresKeeps ==
  ASSUME Core, Dated, x9 # <<>>, x9' = Tail(x9), UNCHANGED <<x10, x5>>,
         Inquires(Head(x9))
  PROVE  Core' /\ Dated' /\ (Limits => Limits')
  <1> DEFINE r == Head(x9)
  <1>1. r \in Answers /\ x9' \in Seq(Answers) /\ Elements(x9) = {r} \cup Elements(x9')
    BY Left
  <1> HIDE DEF r
  <1>2. /\ r.job.op = "count" /\ r.ok
        /\ x1' \in Controllers /\ x1'.lane = x1.lane /\ x1'.active = x1.active
        /\ x1'.pending \in Wish /\ x1'.pending.day = r.job.day /\ x1'.pending.count = r.count
        /\ x7' = x7
    BY DEF Inquires, r
  <1>3. PICK j \in Jobs : j.op = "context" /\ j.day = x5 /\ x8' = Append(x8, j)
    BY DEF Inquires
  <1>4. x8 \in Seq(Jobs) /\ x8' \in Seq(Jobs) /\ Elements(x8') = Elements(x8) \cup {j} /\ x5 \in Nat
    BY <1>3, Appending, ComponentsAssumption DEF Core, Days
  <1>5. Core'
    BY <1>1, <1>2, <1>4 DEF Core
  <1>6. Dated'
    BY <1>3, <1>4 DEF Dated
  <1>7. ASSUME Limits
        PROVE  Limits'
    <2>1. r \in Heard /\ r.job \in Counts
      BY <1>1, <1>2 DEF Heard, G!Asked, Counts, Answers
    <2>2. G!LaneFree /\ Clear
      BY <1>1, <1>7, <2>1, Left DEF Clear, r
    <2>3. G!LaneFree'
      BY <1>2, <2>2 DEF G!LaneFree
    <2>4. Single(x8', Open)
      BY <1>3, <1>4, <1>7, <2>2, ClearIs, SingleAppend DEF Clear
    <2>5. GreetingsLone'
      BY <1>2, <1>7, <2>2, <2>3, <2>4 DEF Limits, GreetingsLone, Clear
    <2>6. j \notin Counts /\ j \notin Displays
      BY <1>3 DEF Counts, Displays
    <2>7. Tally[r.job.day] <= r.count
      BY <1>1, <1>2, <1>7, <2>1 DEF Limits, Agreed
    <2>8. Wanting'
      BY <1>2, <1>4, <1>7, <2>2, <2>6, <2>7, ClearIs DEF Wanting
    <2>9. Agreed'
      BY <1>2, <1>4, <1>7, <2>2, <2>6, ClearIs DEF Agreed
    <2> QED  BY <2>5, <2>8, <2>9 DEF Limits
  <1> QED  BY <1>5, <1>6, <1>7

LEMMA HandleKeeps ==
  ASSUME Core, Dated, G!Handle
  PROVE  Core' /\ Dated' /\ (x1.late \/ Limits => x1'.late \/ Limits')
  <1>1. /\ x9 # <<>> /\ x9' = Tail(x9) /\ UNCHANGED <<x10, x5>>
        /\ GreetingsSettles(Head(x9)) \/ GreetingsGoesOn(Head(x9)) \/ Inquires(Head(x9))
    BY GreetingsHandleIs
  <1>2. CASE GreetingsSettles(Head(x9))
    <2>1. x1'.late = x1.late
      BY <1>2 DEF GreetingsSettles, Quieter
    <2> QED  BY <1>1, <1>2, <2>1, SettlesKeeps
  <1>3. CASE GreetingsGoesOn(Head(x9))
    <2>1. x1'.late = x1.late
      BY <1>3 DEF GreetingsGoesOn, Generates, Displayed
    <2> QED  BY <1>1, <1>3, <2>1, GoesOnKeeps
  <1>4. CASE Inquires(Head(x9))
    <2>1. x1'.late = x1.late
      BY <1>4 DEF Inquires
    <2> QED  BY <1>1, <1>4, <2>1, InquiresKeeps
  <1> QED  BY <1>1, <1>2, <1>3, <1>4
----------------------------------------
(* The cues. *)

\* A row grows older: another proposal, or no nearer to being shown.
Ages(q) ==
  \/ x11'[q].n > x11[q].n
  \/ x11'[q].n = x11[q].n /\ (x11'[q].st \in {"proposed", "active"} => x11[q].st \in {"proposed", "active"})

LEMMA PastStays ==
  ASSUME GreetingsRest, GreetingsRest', \A q \in G!Cues : Ages(q), NEW k \in Refs, k # G!NoCue, GreetingsPast(k, x11)
  PROVE  GreetingsPast(k, x11')
  <1>1. k[1] \in G!Cues /\ k[2] \in Nat
    BY DEF Refs
  <1>2. x11[k[1]].n \in Nat /\ x11'[k[1]].n \in Nat
    BY <1>1 DEF GreetingsRest, CueRows, CueRow
  <1>3. Ages(k[1])
    BY <1>1
  <1> QED  BY <1>2, <1>1, <1>3 DEF Ages, GreetingsPast

LEMMA SpendingStays ==
  ASSUME Core, GreetingsRest, GreetingsRest', Spending, G!CueIsSpentOnce, \A q \in G!Cues : Ages(q),
         \A i \in G!Ids : x10'[i].cue = x10[i].cue
  PROVE  Spending' /\ G!CueIsSpentOnce'
  <1>1. \A i \in G!Ids : x10[i].cue \in Refs
    BY DEF Core, Ledger
  <1>2. Spending'
    BY <1>1, PastStays DEF Spending
  <1> QED  BY <1>2 DEF G!CueIsSpentOnce

LEMMA ExpiredIs ==
  ASSUME GreetingsRest, NEW Q, x11' = G!Expired(Q)
  PROVE  x11' \in CueRows /\ \A q \in G!Cues : Ages(q)
  <1> USE DEF G!Live
  <1>1. x11 \in CueRows
    BY DEF GreetingsRest
  <1>2. ASSUME NEW q \in G!Cues
        PROVE  /\ x11'[q] \in CueRow
               /\ Ages(q)
    <2>1. x11[q] \in CueRow
      BY <1>1 DEF CueRows, CueRow
    <2>2. CASE x11'[q] = x11[q]
      BY <2>1, <2>2 DEF Ages
    <2>3. CASE x11'[q] = [x11[q] EXCEPT !.st = "expired"]
      BY <2>1, <2>3 DEF Ages, CueRow
    <2> QED  BY <1>2, <2>2, <2>3 DEF G!Expired
  <1> QED  BY <1>2 DEF CueRows, CueRow, G!Expired

LEMMA SameCues ==
  ASSUME GreetingsRest, x11' = x11
  PROVE  x11' \in CueRows /\ \A q \in G!Cues : Ages(q)
  BY DEF GreetingsRest, CueRows, CueRow, Ages

\* What the user does to a cue or to what is behind it.
CueStep(q) ==
  \/ G!Propose(q) \/ G!Confirm(q) \/ G!End(q) \/ G!SetKeep(q) \/ G!ManualOpen(q)
  \/ G!LoseConversation(q) \/ G!ChangeMemory(q)

LEMMA RowChanges ==
  ASSUME GreetingsRest, NEW q \in G!Cues, NEW row \in CueRow,
         x11' = [x11 EXCEPT ![q] = row],
         \/ row.n > x11[q].n
         \/ row.n = x11[q].n /\ (row.st \in {"proposed", "active"} => x11[q].st \in {"proposed", "active"})
  PROVE  x11' \in CueRows /\ \A k \in G!Cues : Ages(k)
  <1>1. x11' \in CueRows /\ x11'[q] = row /\ \A k \in G!Cues \ {q} : x11'[k] = x11[k]
    BY DEF GreetingsRest, CueRows, CueRow
  <1> QED  BY <1>1 DEF Ages

LEMMA CueStepIs ==
  ASSUME GreetingsRest, NEW q \in G!Cues, CueStep(q)
  PROVE  /\ G!Interactive
         /\ x11' \in CueRows /\ (\A k \in G!Cues : Ages(k))
         /\ x12' \subseteq G!Cues /\ x14' \subseteq GreetingsMemoryCues
  <1> DEFINE Row == CueRow
  <1>1. x11[q] \in Row /\ x12 \subseteq G!Cues /\ x14 \subseteq GreetingsMemoryCues
    BY DEF GreetingsRest, CueRows, CueRow
  <1>2. CASE G!Propose(q)
    <2> DEFINE row == [st |-> "proposed", keep |-> FALSE, n |-> x11[q].n + 1]
    <2>1. row \in Row /\ row.n > x11[q].n
      BY <1>1 DEF G!Live, CueRow
    <2>2. x11' = [x11 EXCEPT ![q] = row] /\ G!Interactive /\ UNCHANGED <<x12, x14>>
      BY <1>2 DEF G!Propose
    <2> HIDE DEF row
    <2> QED  BY <1>1, <2>1, <2>2, RowChanges
  <1>3. ASSUME NEW keep \in BOOLEAN, x11[q].st = "proposed", G!Interactive, UNCHANGED <<x12, x14>>,
               x11' = [x11 EXCEPT ![q] = [x11[q] EXCEPT !.st = "active", !.keep = keep]]
        PROVE  /\ x11' \in CueRows /\ (\A k \in G!Cues : Ages(k))
               /\ x12' \subseteq G!Cues /\ x14' \subseteq GreetingsMemoryCues
    <2> DEFINE row == [x11[q] EXCEPT !.st = "active", !.keep = keep]
    <2>1. row \in Row /\ row.n = x11[q].n
      BY <1>1 DEF G!Live, CueRow
    <2>2. x11' = [x11 EXCEPT ![q] = row]
      BY <1>3
    <2> HIDE DEF row
    <2> QED  BY <1>1, <1>3, <2>1, <2>2, RowChanges
  <1>4. ASSUME NEW st \in G!Live \cup {"absent", "resolved", "rejected", "expired"},
               st \notin {"proposed", "active"}, x11' = [x11 EXCEPT ![q].st = st]
        PROVE  x11' \in CueRows /\ (\A k \in G!Cues : Ages(k))
    <2> DEFINE row == [x11[q] EXCEPT !.st = st]
    <2>1. row \in Row /\ row.n = x11[q].n /\ row.st = st
      BY <1>1 DEF CueRow
    <2>2. x11' = [x11 EXCEPT ![q] = row]
      BY <1>4
    <2> HIDE DEF row
    <2> QED  BY <1>4, <2>1, <2>2, RowChanges
  <1>5. CASE G!End(q)
    <2>1. PICK st \in {"rejected", "resolved", "absent", "expired"} : x11' = [x11 EXCEPT ![q].st = st]
      BY <1>5 DEF G!End, G!Moved
    <2> QED  BY <1>1, <1>4, <1>5, <2>1 DEF G!End
  <1>6. CASE G!SetKeep(q)
    <2> DEFINE row == [x11[q] EXCEPT !.keep = ~@]
    <2>1. row \in Row /\ row.n = x11[q].n /\ row.st = x11[q].st
      BY <1>1 DEF CueRow
    <2>2. x11' = [x11 EXCEPT ![q] = row]
      BY <1>6 DEF G!SetKeep
    <2> HIDE DEF row
    <2> QED  BY <1>1, <1>6, <2>1, <2>2, RowChanges DEF G!SetKeep
  <1>7. CASE G!LoseConversation(q)
    <2>1. G!Interactive /\ x12' = x12 \ {q} /\ UNCHANGED x14
          /\ (x11' = [x11 EXCEPT ![q].st = "absent"] \/ x11' = x11)
      BY <1>7 DEF G!LoseConversation
    <2> QED  BY <1>1, <1>4, <2>1, SameCues
  <1>8. CASE G!ChangeMemory(q)
    <2>1. /\ G!Interactive /\ q \in GreetingsMemoryCues
          /\ \/ x11' = G!Expired({q}) /\ x12' = x12 \ {q} /\ UNCHANGED x14
             \/ x11' = x11 /\ UNCHANGED x12 /\ x14' = x14 \cup {q}
      BY <1>8 DEF G!ChangeMemory
    <2> QED  BY <1>1, <2>1, ExpiredIs, SameCues
  <1>9. CASE G!ManualOpen(q)
    BY <1>1, <1>9, SameCues DEF G!ManualOpen
  <1>10. CASE G!Confirm(q)
    BY <1>1, <1>3, <1>10 DEF G!Confirm
  <1> QED  BY <1>2, <1>5, <1>6, <1>7, <1>8, <1>9, <1>10 DEF CueStep

\* The data thread spends a cue with the row that counts it, or only expires cues.
LEMMA JobCues ==
  ASSUME GreetingsTyped, Spending, G!CueIsSpentOnce, G!RunJob
  PROVE  GreetingsRest' /\ Spending' /\ G!CueIsSpentOnce'
  <1> DEFINE j == Head(x8)
  <1>1. j \in Jobs /\ UNCHANGED x2
    BY Taking DEF GreetingsTyped, Core, G!RunJob, G!env
  <1>2. \/ UNCHANGED <<x10, x11, x12, x14>>
        \/ (\E Q : x11' = G!Expired(Q)) /\ UNCHANGED <<x10, x12, x14>>
        \/ \E st \in {"dismissed", "clicked"} :
              x10' = [x10 EXCEPT ![j.id].st = st] /\ UNCHANGED <<x11, x12, x14>>
        \/ j.op = "display" /\ ~G!Fails(j) /\ G!Record(j)
    BY DEF G!RunJob, G!Fails, G!Select, G!Record, G!Forget, G!Persist, G!db
  <1> HIDE DEF j
  <1>3. ASSUME x11' \in CueRows, \A q \in G!Cues : Ages(q), UNCHANGED <<x12, x14>>,
               \A i \in G!Ids : x10'[i].cue = x10[i].cue
        PROVE  GreetingsRest' /\ Spending' /\ G!CueIsSpentOnce'
    <2>1. GreetingsRest'
      BY <1>1, <1>3 DEF GreetingsTyped, GreetingsRest
    <2> QED  BY <1>3, <2>1, SpendingStays DEF GreetingsTyped
  <1>4. CASE UNCHANGED <<x10, x11, x12, x14>>
    BY <1>3, <1>4, SameCues DEF GreetingsTyped
  <1>5. CASE (\E Q : x11' = G!Expired(Q)) /\ UNCHANGED <<x10, x12, x14>>
    BY <1>3, <1>5, ExpiredIs DEF GreetingsTyped
  <1>6. ASSUME NEW st \in {"dismissed", "clicked"}, x10' = [x10 EXCEPT ![j.id].st = st],
               UNCHANGED <<x11, x12, x14>>
        PROVE  GreetingsRest' /\ Spending' /\ G!CueIsSpentOnce'
    <2>1. \A i \in G!Ids : x10'[i].cue = x10[i].cue
      BY <1>6 DEF GreetingsTyped, Core, Ledger
    <2> QED  BY <1>3, <1>6, <2>1, SameCues DEF GreetingsTyped
  <1>7. CASE j.op = "display" /\ ~G!Fails(j) /\ G!Record(j)
    <2> DEFINE k == j.cue
               row == [st |-> "displayed", day |-> j.day, cue |-> k]
    <2>1. j.id \in G!Ids /\ k \in Refs
      BY <1>1, <1>7 DEF Jobs
    <2>2. /\ x10' = [x10 EXCEPT ![j.id] = row] /\ UNCHANGED <<x12, x14>>
          /\ \/ k = G!NoCue /\ x11' = x11
             \/ k # G!NoCue /\ G!MaySurface(k) /\ x11' = G!Spent(k)
      BY <1>7 DEF G!Record
    <2>3. x10'[j.id].cue = k /\ \A i \in G!Ids \ {j.id} : x10'[i] = x10[i]
      BY <2>1, <2>2 DEF GreetingsTyped, Core, Ledger
    <2> HIDE DEF k, row
    <2>4. \A i \in G!Ids : x10[i].cue \in Refs
      BY DEF GreetingsTyped, Core, Ledger
    <2>5. CASE k = G!NoCue /\ x11' = x11
      <3>1. GreetingsRest'
        BY <1>1, <2>2, <2>5 DEF GreetingsTyped, GreetingsRest
      <3>2. Spending'
        BY <2>3, <2>5 DEF Spending
      <3>3. G!CueIsSpentOnce'
        BY <2>3, <2>5 DEF G!CueIsSpentOnce
      <3> QED  BY <3>1, <3>2, <3>3
    <2>6. CASE k # G!NoCue /\ G!MaySurface(k) /\ x11' = G!Spent(k)
      <3> DEFINE new == [x11[k[1]] EXCEPT !.st = "surfaced"]
      <3>1. k[1] \in G!Cues /\ k[2] \in Nat /\ x11[k[1]].n = k[2] /\ x11[k[1]].st = "active"
        BY <2>1, <2>6 DEF Refs, G!MaySurface, G!Names
      <3>2. /\ new \in CueRow
            /\ new.n = k[2] /\ new.st = "surfaced"
        BY <3>1 DEF GreetingsTyped, GreetingsRest, CueRows, CueRow, G!Live
      <3>3. x11' = [x11 EXCEPT ![k[1]] = new]
        BY <2>6 DEF G!Spent
      <3> HIDE DEF new
      <3>4. x11' \in CueRows /\ \A q \in G!Cues : Ages(q)
        BY <3>1, <3>2, <3>3, RowChanges DEF GreetingsTyped
      <3>5. GreetingsRest'
        BY <1>1, <2>2, <3>4 DEF GreetingsTyped, GreetingsRest
      <3>6. x11'[k[1]] = new
        BY <3>1, <3>3 DEF GreetingsTyped, GreetingsRest, CueRows, CueRow
      <3>7. GreetingsPast(k, x11')
        BY <3>1, <3>2, <3>6 DEF GreetingsPast
      <3>8. Spending'
        BY <2>3, <2>4, <3>4, <3>5, <3>7, PastStays DEF Spending, GreetingsTyped
      <3>9. \A i \in G!Ids : x10[i].cue # k
        BY <2>6, <3>1 DEF Spending, GreetingsPast
      <3>10. G!CueIsSpentOnce'
        BY <2>3, <3>9 DEF G!CueIsSpentOnce
      <3> QED  BY <3>5, <3>8, <3>10
    <2> QED  BY <2>2, <2>5, <2>6
  <1> QED  BY <1>2, <1>4, <1>5, <1>6, <1>7

----------------------------------------
(* The invariant. *)

LEMMA StillSpent ==
  ASSUME GreetingsTyped, Spending, G!CueIsSpentOnce, UNCHANGED <<x10, x11, x12, x14>>,
         x2' \in [mode : {"off", "startup_only", "restrained"}, ai : BOOLEAN]
  PROVE  GreetingsRest' /\ Spending' /\ G!CueIsSpentOnce'
  BY DEF GreetingsTyped, GreetingsRest, Spending, G!CueIsSpentOnce

LEMMA CalmSpent ==
  ASSUME GreetingsTyped, Spending, G!CueIsSpentOnce, MildStep
  PROVE  GreetingsRest' /\ Spending' /\ G!CueIsSpentOnce'
  <1> USE DEF G!env, G!db
  <1>0. x2 \in [mode : {"off", "startup_only", "restrained"}, ai : BOOLEAN]
    BY DEF GreetingsTyped, GreetingsRest
  <1>1. ASSUME NEW m \in {"off", "startup_only", "restrained"}, G!SetMode(m)
        PROVE  GreetingsRest' /\ Spending' /\ G!CueIsSpentOnce'
    <2>1. x2' = [x2 EXCEPT !.mode = m] /\ UNCHANGED <<x10, x11, x12, x14>>
      BY <1>1 DEF G!SetMode
    <2> QED  BY <1>0, <2>1, StillSpent
  <1>2. CASE G!SetAi
    <2>1. x2' = [x2 EXCEPT !.ai = ~@] /\ UNCHANGED <<x10, x11, x12, x14>>
      BY <1>2 DEF G!SetAi
    <2> QED  BY <1>0, <2>1, StillSpent
  <1>3. CASE G!Start \/ G!Stop \/ G!Timeout \/ (G!Poll /\ ~x4)
    BY <1>0, <1>3, StillSpent DEF G!Start, G!Stop, G!Timeout, G!Poll
  <1>4. CASE G!UserLeaves \/ G!UserReturns \/ G!QuietEnds
    BY <1>0, <1>4, StillSpent DEF G!UserLeaves, G!UserReturns, G!QuietEnds
  <1>5. CASE G!ChatBegins \/ G!PetHidden \/ G!Click
    BY <1>0, <1>5, StillSpent DEF G!ChatBegins, G!PetHidden, G!Click
  <1> QED  BY <1>1, <1>2, <1>3, <1>4, <1>5 DEF MildStep

LEMMA GreetingsIInvStep ==
  ASSUME GreetingsIInv, (G!Next \/ UNCHANGED G!vars)
  PROVE  GreetingsIInv'
  <1> USE DEF GreetingsIInv
  <1>0. GreetingsTyped /\ Core /\ GreetingsRest /\ Dated /\ Spending /\ G!CueIsSpentOnce /\ (x1.late \/ Limits)
    BY DEF GreetingsTyped
  <1>1. ASSUME CalmStep, GreetingsRest', Spending', G!CueIsSpentOnce'
        PROVE  GreetingsIInv'
    <2>1. Calm
      BY <1>0, <1>1, CalmIs
    <2>2. x1'.late = x1.late
      BY <2>1 DEF Calm, Quieter
    <2> QED  BY <1>0, <1>1, <2>1, <2>2, CalmCore, CalmDated, CalmLimits DEF GreetingsTyped
  <1>2. CASE MildStep
    BY <1>0, <1>1, <1>2, CalmSpent DEF CalmStep
  <1>3. ASSUME NEW q \in G!Cues, CueStep(q)
        PROVE  GreetingsIInv'
    <2>1. /\ G!Interactive
          /\ x11' \in CueRows /\ (\A k \in G!Cues : Ages(k))
          /\ x12' \subseteq G!Cues /\ x14' \subseteq GreetingsMemoryCues
      BY <1>0, <1>3, CueStepIs
    <2>2. UNCHANGED <<x2, x10>>
      BY <2>1 DEF G!Interactive, G!env
    <2>3. GreetingsRest'
      BY <1>0, <2>1, <2>2 DEF GreetingsRest
    <2>4. Spending' /\ G!CueIsSpentOnce'
      BY <1>0, <2>1, <2>2, <2>3, SpendingStays
    <2> QED  BY <1>1, <2>1, <2>3, <2>4 DEF CalmStep
  <1>4. CASE G!RunJob
    <2>1. GreetingsRest' /\ Spending' /\ G!CueIsSpentOnce'
      BY <1>0, <1>4, JobCues
    <2>2. PICK a \in Answers : Answered(a) /\ (Stands(a) \/ Counted(a))
      BY <1>0, <1>4, GreetingsAnswerIs
    <2>3. Core' /\ Dated'
      BY <1>0, <2>2, AnswerCore
    <2>4. x1.late \/ Limits => x1'.late \/ Limits'
      BY <1>0, <2>2, AnswerLimits DEF Answered
    <2> QED  BY <1>0, <2>1, <2>3, <2>4 DEF GreetingsTyped
  <1>5. ASSUME Core', Dated', x1'.late \/ Limits', UNCHANGED <<x2, x10, x11, x12, x14>>
        PROVE  GreetingsIInv'
    <2>1. GreetingsRest' /\ Spending' /\ G!CueIsSpentOnce'
      BY <1>0, <1>5, StillSpent DEF GreetingsRest
    <2> QED  BY <1>5, <2>1 DEF GreetingsTyped
  <1>6. CASE G!Handle
    <2>1. UNCHANGED <<x2, x10, x11, x12, x14>>
      BY <1>6 DEF G!Handle, G!env, G!db
    <2> QED  BY <1>0, <1>5, <1>6, <2>1, HandleKeeps
  <1>7. ASSUME NEW r \in G!Runners, G!Runs(r)
        PROVE  GreetingsIInv'
    <2>1. UNCHANGED <<x2, x10, x11, x12, x14>>
      BY <1>7 DEF G!Runs, G!GenerationEnds, G!GenerationFails, G!env, G!db
    <2> QED  BY <1>0, <1>5, <1>7, <2>1, RunsKeeps
  <1>8. CASE G!StartupDue \/ (G!Poll /\ x4)
    <2>1. UNCHANGED <<x2, x10, x11, x12, x14>>
      BY <1>8 DEF G!StartupDue, G!Poll, G!env, G!db
    <2> QED  BY <1>0, <1>5, <1>8, <2>1, OpportunityKeeps
  <1>9. CASE G!Midnight
    <2>1. UNCHANGED <<x2, x10, x11, x12, x14>>
      BY <1>9 DEF G!Midnight, G!db
    <2> QED  BY <1>0, <1>5, <1>9, <2>1, MidnightKeeps
  <1>10. CASE UNCHANGED G!vars
    <2>1. UNCHANGED <<x1, x2, x5, x7, x8, x9, x10, x11, x12, x14>>
      BY <1>10 DEF G!vars, G!env, G!db
    <2>2. Core' /\ Dated'
      BY <1>0, <2>1 DEF Core, Dated
    <2>3. Calm
      BY <1>0, <2>1 DEF Calm, GreetingsReports, Quieter, Core
    <2>4. x1'.late \/ Limits'
      BY <1>0, <2>1, <2>3, CalmLimits
    <2> QED  BY <1>5, <2>1, <2>2, <2>4
  <1>11. \/ MildStep \/ (\E q \in G!Cues : CueStep(q)) \/ G!RunJob \/ G!Handle
         \/ (\E r \in G!Runners : G!Runs(r)) \/ G!StartupDue \/ (G!Poll /\ x4) \/ G!Midnight \/ UNCHANGED G!vars
    <2>1. CASE G!User
      BY <2>1 DEF G!User, CueStep, MildStep
    <2> QED  BY <2>1 DEF G!Next, MildStep
  <1> QED  BY <1>2, <1>3, <1>4, <1>6, <1>7, <1>8, <1>9, <1>10, <1>11
LEMMA GreetingsInitiallyIInv ==
  ASSUME G!Init
  PROVE  GreetingsIInv
  <1>1. /\ x1 = [running |-> FALSE, startup |-> FALSE, idle |-> FALSE, pending |-> G!None,
                active |-> G!None, lane |-> "free", shown |-> 0, late |-> FALSE]
        /\ x2 = [mode |-> "restrained", ai |-> TRUE] /\ x5 = 1
        /\ x7 = [r \in G!Runners |-> G!None] /\ x8 = <<>> /\ x9 = <<>>
        /\ x10 = [i \in G!Ids |-> G!NoEvent] /\ x12 = G!Cues /\ x14 = {}
    BY DEF G!Init
  <1>2. x1 \in Controllers /\ x1.lane = "free" /\ x1.pending = G!None /\ x1.active = G!None
    BY <1>1 DEF Controllers
  <1>3. G!NoEvent \in [st : {"absent", "displayed", "dismissed", "clicked"}, day : 0..GreetingsMaxDay, cue : Refs]
        /\ G!NoEvent.st = "absent" /\ G!NoEvent.day = 0 /\ G!NoEvent.cue = G!NoCue
    BY ComponentsAssumption DEF G!NoEvent, Refs
  <1>4. x10 \in Ledger /\ \A i \in G!Ids : x10[i] = G!NoEvent
    BY <1>1, <1>3 DEF Ledger
  <1>5. x7 \in GreetingsLanes /\ x5 \in Days /\ x8 \in Seq(Jobs) /\ x9 \in Seq(Answers)
    BY <1>1, ComponentsAssumption DEF GreetingsLanes, Days
  <1>6. Core
    BY <1>2, <1>4, <1>5 DEF Core
  <1>7. GreetingsRest
    <2> DEFINE Row == [st : {"absent", "active"}, keep : {FALSE}, n : {0}]
    <2>0. ASSUME NEW row \in Row
          PROVE  row \in CueRow
      <3>1. row = [st |-> row.st, keep |-> FALSE, n |-> 0] /\ row.st \in G!Live \cup {"absent"}
        BY DEF G!Live
      <3>2. \A st \in G!Live \cup {"absent"} : [st |-> st, keep |-> FALSE, n |-> 0]
              \in CueRow
        BY DEF CueRow
      <3> QED  BY <3>1, <3>2
    <2>2. x11 \in [G!Cues -> Row]
      BY DEF G!Init
    <2> HIDE DEF Row
    <2>1. x11 \in CueRows
      BY <2>0, <2>2 DEF CueRows, CueRow
    <2> QED  BY <1>1, <2>1 DEF GreetingsRest
  <1>8. Elements(x8) = {} /\ Elements(x9) = {} /\ Single(x8, Open) /\ Single(x9, Heard)
    BY <1>1, EmptyQueue
  <1>9. Dated
    BY <1>1, <1>3, <1>4, <1>8 DEF Dated
  <1>10. Spending /\ G!CueIsSpentOnce
    BY <1>3, <1>4 DEF Spending, G!CueIsSpentOnce
  <1>11. GreetingsLone
    BY <1>1, <1>8 DEF GreetingsLone, G!LaneFree, G!Runners
  <1>12. Wanting
    BY <1>2 DEF Wanting
  <1>13. \A d \in Days : Tally[d] = 0
    <2>1. ASSUME NEW d \in Days
          PROVE  G!CountOf(d) = 0
      <3>1. \A i \in G!Ids : x10[i].day # d
        BY <1>3, <1>4 DEF Days
      <3> QED  BY <3>1, NoneShown
    <2> QED  BY <2>1 DEF Tally
  <1>14. Agreed
    BY <1>2, <1>8, <1>13, ComponentsAssumption DEF Agreed
  <1> QED  BY <1>6, <1>7, <1>9, <1>10, <1>11, <1>12, <1>14 DEF GreetingsIInv, GreetingsTyped, Limits

LEMMA CueSpent == GreetingsIInv => G!CueIsSpentOnce
  BY DEF GreetingsIInv

LEMMA LimitHolds == GreetingsIInv => G!DailyLimit
  <1> SUFFICES ASSUME GreetingsIInv, ~x1.late, NEW d \in 1..GreetingsMaxDay
               PROVE  G!CountOf(d) <= GreetingsLimit
    BY DEF G!DailyLimit, G!CountOf
  <1>1. Tally[d] <= GreetingsLimit
    BY DEF GreetingsIInv, Limits, Agreed, Days
  <1> QED  BY <1>1 DEF Tally, Days

GreetingsInv == part = "greetings" => GreetingsIInv

LEMMA GreetingsStart == Init => GreetingsInv
  <1> SUFFICES ASSUME Init, part = "greetings"
               PROVE  GreetingsIInv
    BY DEF GreetingsInv
  <1>1. G!Init
    BY DEF Init, InitOf
  <1> QED  BY <1>1, GreetingsInitiallyIInv

LEMMA GreetingsMoves ==
  ASSUME [Next]_vars, part = "greetings"
  PROVE  G!Next \/ UNCHANGED G!vars
  <1>1. CASE Next
    BY <1>1 DEF Next, InR, InV, InX, InG, InH, InW, InT, InJ, InM, InP, InA, InC
  <1>2. CASE UNCHANGED vars
    BY <1>2 DEF vars, G!env, G!db, G!bounds, G!vars
  <1> QED  BY <1>1, <1>2

LEMMA GreetingsStep == GreetingsInv /\ [Next]_vars => GreetingsInv'
  <1> SUFFICES ASSUME GreetingsInv, [Next]_vars, part' = "greetings"
               PROVE  GreetingsIInv'
    BY DEF GreetingsInv
  <1>1. part = "greetings" /\ GreetingsIInv
    BY PartStays DEF GreetingsInv
  <1> QED  BY <1>1, GreetingsMoves, GreetingsIInvStep

LEMMA GreetingsInvariance == Spec => []GreetingsInv
  BY GreetingsStart, GreetingsStep, PTL DEF Spec

\* proactive_controller.py, companion_cues.py: no two greetings of the ledger were counted
\* for one consent to a cue, for any cues, opportunities, changes and failures, however
\* selection, confirmation, display and renewal of a cue interleave.
THEOREM SpentOnce == Spec => []CueIsSpentOnce
  <1>1. GreetingsInv => CueIsSpentOnce
    BY CueSpent DEF GreetingsInv, CueIsSpentOnce
  <1> QED  BY <1>1, GreetingsInvariance, PTL

\* proactive_controller.py: as long as each opportunity began with every earlier one over,
\* no day sees more greetings than the daily limit, whatever is cancelled, fails or is
\* answered late, and over any number of days and opportunities.
THEOREM LimitKept == Spec => []DailyLimit
  <1>1. GreetingsInv => DailyLimit
    BY LimitHolds DEF GreetingsInv, DailyLimit
  <1> QED  BY <1>1, GreetingsInvariance, PTL
=============================================================================

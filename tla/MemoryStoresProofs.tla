------------------------ MODULE MemoryStoresProofs ------------------------
(***************************************************************************)
(* The proofs about MemoryStores: what a reflection or an impression rests  *)
(* on in every state, also between the two transactions of an operation.    *)
(***************************************************************************)
EXTENDS MemoryStores, FiniteSetTheorems, TLAPS

\* What holds of the constants: a reflection takes a fact, an item has a first
\* version, and no reflection is an impression.
Parameters ==
  /\ MinFacts \in Nat \ {0} /\ MaxVersions \in Nat \ {0}
  /\ Reflections \cap Impressions = {}

Statuses == {None, "deleted", "tentative", "confirmed", "disputed", "denied", "archived",
             "promoted", "merged"}
ImpStatuses == {None, "deleted", "active", "disputed", "denied", "archived"}
Source(S) == Nat \X S \X Nat
FactRow == [st : {None, "active", "archived", "deleted"},
            cur : Nat, top : 0..MaxVersions, inc : Nat, chal : Nat]
ReflRow == [st : Statuses, cur : Nat, src : SUBSET Source(Facts), live : SUBSET Facts,
            score : Int, key : SUBSET FactVersions, knows : SUBSET Facts]
ImpRow  == [st : ImpStatuses, cur : Nat, src : SUBSET Source(Reflections), score : Int,
            knows : SUBSET Facts]

\* A fact that exists has a current version, and an open conflict an incumbent one.
Bounded(x) ==
  /\ x.cur <= x.top /\ x.chal <= x.top /\ x.inc <= x.top
  /\ Exists(x) => x.cur # 0 /\ (x.chal # 0 => x.inc # 0)

Typed ==
  /\ Parameters
  /\ fact \in [Facts -> FactRow]
  /\ \A f \in Facts : Bounded(fact[f])
  /\ sourced \subseteq FactVersions /\ eligible \subseteq FactVersions
  /\ offer \subseteq FactVersions
  /\ refl \in [Reflections -> ReflRow] /\ imp \in [Impressions -> ImpRow]
  /\ clash \subseteq Reflections \X Impressions
  /\ asked \subseteq Reflections \X (Impressions \cup {None})
  /\ \/ second = Done
     \/ second.op \in {"suppress", "restore"} /\ second.f \in Facts
     \/ second.op = "clear"
  /\ vouched \subseteq Reflections \cup Impressions

\* A source may be relied on, or the second transaction is about to act on it.
Held(s) == Current(s) \/ (second.op = "suppress" /\ s[2] = second.f)
Rests(r) == \A s \in refl[r].src : Held(s)
RestsOn(p) == \A s \in imp[p].src : \A t \in refl[s[2]].src : t[1] = s[3] => Held(t)

\* What may come to be recalled without being restored or confirmed rests on what holds.
Supported ==
  /\ \A r \in Reflections : refl[r].st \in {"tentative", "confirmed"} /\ r \notin vouched => Rests(r)
  /\ \A p \in Impressions : imp[p].st = "active" /\ p \notin vouched => RestsOn(p)

\* What an impression rests on exists, and so does every fact below.
Linked ==
  /\ \A p \in Impressions : Exists(imp[p]) => \A s \in imp[p].src : Exists(refl[s[2]])
  /\ \A r \in Reflections : Exists(refl[r]) => \A s \in refl[r].src : fact[s[2]].st # "deleted"

\* What a text may know comes from its sources.
Sourced ==
  /\ \A r \in Reflections : Exists(refl[r]) =>
       \A f \in refl[r].knows : \E s \in refl[r].src : s[2] = f
  /\ \A p \in Impressions : Exists(imp[p]) =>
       \A f \in imp[p].knows : \E s \in imp[p].src : \E t \in refl[s[2]].src : t[2] = f

Clearing ==
  second.op = "clear" =>
    /\ \A r \in Reflections : ~Exists(refl[r])
    /\ \A p \in Impressions : ~Exists(imp[p])

IInv == Typed /\ Supported /\ Linked /\ Sourced /\ Clearing
----------------------------------------
LEMMA Assumed == (IInv => Parameters) /\ (Typed => Parameters)
  BY DEF IInv, Typed

LEMMA Constants ==
  ASSUME Parameters
  PROVE  None # "deleted" /\ 1 \in Versions /\ Versions \subseteq Nat /\ None # "suppress"
  BY DEF Parameters, None, Versions

LEMMA BornFact ==
  ASSUME Parameters
  PROVE  LET row == [NoFact EXCEPT !.st = "active", !.cur = 1, !.top = 1] IN
         /\ row \in FactRow /\ row.st = "active" /\ row.cur = 1 /\ row.top = 1
         /\ row.inc = 0 /\ row.chal = 0
  <1>1. 1 \in 0..MaxVersions /\ 0 \in 0..MaxVersions
    BY DEF Parameters
  <1>2. NoFact \in FactRow
    BY <1>1 DEF NoFact, FactRow
  <1>3. [NoFact EXCEPT !.st = "active", !.cur = 1, !.top = 1] \in FactRow
    BY <1>1, <1>2 DEF FactRow
  <1>4. NoFact.inc = 0 /\ NoFact.chal = 0
    BY DEF NoFact
  <1> QED  BY <1>2, <1>3, <1>4 DEF FactRow

LEMMA InitiallyIInv ==
  ASSUME Parameters, Init
  PROVE  IInv
  <1>1. PICK over \in [Facts -> Reflections \cup {None}] :
          refl = [r \in Reflections |->
            LET fs == {f \in Facts : over[f] = r} IN
            IF Cardinality(fs) < MinFacts THEN NoRefl ELSE
              [st |-> "confirmed", cur |-> 1, src |-> {<<1, f, 1>> : f \in fs},
               live |-> fs, score |-> 2, key |-> fs \X {1}, knows |-> fs]]
    BY DEF Init
  <1> DEFINE under(r) == {f \in Facts : over[f] = r}
             born(r) == [st |-> "confirmed", cur |-> 1, src |-> {<<1, f, 1>> : f \in under(r)},
                         live |-> under(r), score |-> 2, key |-> under(r) \X {1}, knows |-> under(r)]
  <1>2. /\ fact = [f \in Facts |-> [NoFact EXCEPT !.st = "active", !.cur = 1, !.top = 1]]
        /\ sourced = Facts \X {1} /\ eligible = sourced /\ imp = [p \in Impressions |-> NoImp]
        /\ clash = {} /\ offer = {} /\ asked = {} /\ second = Done /\ vouched = {} /\ untold = {}
    BY DEF Init
  <1>3. \A r \in Reflections : refl[r] = NoRefl \/ (refl[r] = born(r) /\ under(r) # {})
    <2> SUFFICES ASSUME NEW r \in Reflections, ~(Cardinality(under(r)) < MinFacts)
                 PROVE  refl[r] = born(r) /\ under(r) # {}
      BY <1>1
    <2>1. under(r) # {}
      <3> HIDE DEF under
      <3>1. Cardinality({}) = 0
        BY FS_EmptySet
      <3> QED  BY <3>1 DEF Parameters
    <2> QED  BY <1>1, <2>1
  <1>4. DOMAIN refl = Reflections /\ refl = [r \in Reflections |-> refl[r]]
    BY <1>1
  <1>5. \A f \in Facts : /\ fact[f] \in FactRow /\ fact[f].st = "active" /\ fact[f].cur = 1
                         /\ fact[f].top = 1 /\ fact[f].chal = 0 /\ fact[f].inc = 0
    BY <1>2, BornFact
  <1>6. NoRefl \in ReflRow /\ NoImp \in ImpRow
    BY DEF NoRefl, NoImp, ReflRow, ImpRow, Statuses, ImpStatuses
  <1>7. \A r \in Reflections : under(r) \in SUBSET Facts /\ under(r) \X {1} \in SUBSET FactVersions
                               /\ {<<1, f, 1>> : f \in under(r)} \in SUBSET Source(Facts)
    BY Constants DEF FactVersions, Source
  <1>8. \A r \in Reflections : born(r) \in ReflRow
    <2> SUFFICES ASSUME NEW r \in Reflections
                 PROVE  born(r) \in ReflRow
      OBVIOUS
    <2> HIDE DEF under
    <2> QED  BY <1>7 DEF ReflRow, Statuses
  <1>9. Typed
    <2>1. refl \in [Reflections -> ReflRow]
      BY <1>3, <1>4, <1>6, <1>8
    <2>2. Facts \X {1} \subseteq FactVersions
      BY Constants DEF FactVersions
    <2>3. fact \in [Facts -> FactRow] /\ \A f \in Facts : Bounded(fact[f])
      BY <1>2, <1>5 DEF Bounded
    <2>4. imp \in [Impressions -> ImpRow]
      BY <1>2, <1>6
    <2> QED  BY <1>2, <2>1, <2>2, <2>3, <2>4 DEF Typed
  <1>20. /\ NoRefl.src = {} /\ NoRefl.st = None
         /\ \A r \in Reflections :
              /\ born(r).src = {<<1, f, 1>> : f \in under(r)} /\ born(r).knows = under(r)
              /\ born(r).key = under(r) \X {1}
    BY DEF NoRefl
  <1>21. \A r \in Reflections : under(r) \subseteq Facts
    OBVIOUS
  <1> HIDE DEF born, under
  <1>10. \A r \in Reflections : \A s \in refl[r].src : s[2] \in Facts /\ s[3] = 1
    <2> SUFFICES ASSUME NEW r \in Reflections, NEW s \in refl[r].src
                 PROVE  s[2] \in Facts /\ s[3] = 1
      OBVIOUS
    <2>1. refl[r].src = {} \/ refl[r].src = {<<1, f, 1>> : f \in under(r)}
      BY <1>3, <1>20
    <2>2. PICK f \in under(r) : s = <<1, f, 1>>
      BY <2>1
    <2> QED  BY <1>21, <2>2
  <1>11. \A r \in Reflections : Rests(r)
    BY <1>5, <1>10 DEF Rests, Held, Current, Valid
  <1>12. \A p \in Impressions : imp[p].st = None /\ ~Exists(imp[p])
    BY <1>2 DEF NoImp, Exists
  <1>13. Supported
    BY <1>11, <1>12, Constants DEF Supported, None
  <1>14. Linked
    BY <1>5, <1>10, <1>12 DEF Linked
  <1>15. \A r \in Reflections : Exists(refl[r]) =>
           refl[r].knows = under(r) /\ refl[r].src = {<<1, f, 1>> : f \in under(r)}
           /\ refl[r].key = under(r) \X {1} /\ under(r) # {}
    BY <1>3, <1>20 DEF Exists
  <1>16. Sourced
    <2> SUFFICES ASSUME NEW r \in Reflections, Exists(refl[r]), NEW f \in refl[r].knows
                 PROVE  \E s \in refl[r].src : s[2] = f
      BY <1>12 DEF Sourced
    <2>1. <<1, f, 1>> \in refl[r].src
      BY <1>15
    <2> QED  BY <2>1
  <1>18. Clearing
    BY <1>2 DEF Clearing, Done, None
  <1> QED  BY <1>9, <1>13, <1>14, <1>16, <1>18 DEF IInv
----------------------------------------
(* Steps that write no reflection and no source of an impression *)

LEMMA ShrinkStep ==
  ASSUME IInv, Typed',
         \A r \in Reflections : Exists(refl[r])' =>
           /\ Exists(refl[r]) /\ refl'[r].src = refl[r].src
           /\ refl'[r].knows = refl[r].knows,
         \A p \in Impressions : Exists(imp[p])' =>
           /\ Exists(imp[p]) /\ imp'[p].src = imp[p].src /\ imp'[p].knows = imp[p].knows
           /\ \A s \in imp[p].src : Exists(refl[s[2]])',
         \A r \in Reflections : refl'[r].st \in {"tentative", "confirmed"} /\ r \notin vouched' =>
           \A s \in refl[r].src : Held(s)',
         \A p \in Impressions : imp'[p].st = "active" /\ p \notin vouched' =>
           \A s \in imp[p].src : \A t \in refl[s[2]].src : t[1] = s[3] => Held(t)',
         \A f \in Facts : fact'[f].st = "deleted" =>
           \/ fact[f].st = "deleted"
           \/ \A r \in Reflections : Exists(refl[r])' => \A s \in refl[r].src : s[2] # f,
         Clearing'
  PROVE  IInv'
  <1>1. \A r \in Reflections : \A s \in refl[r].src : s[2] \in Facts
    BY DEF IInv, Typed, ReflRow, Source
  <1>2. \A p \in Impressions : \A s \in imp[p].src : s[2] \in Reflections
    BY DEF IInv, Typed, ImpRow, Source
  <1>3. \A r \in Reflections : refl'[r].st \in {"tentative", "confirmed"} => Exists(refl[r])'
    BY DEF Exists, None
  <1>4. \A p \in Impressions : imp'[p].st = "active" => Exists(imp[p])'
    BY DEF Exists, None
  <1>5. \A r \in Reflections :
          refl'[r].st \in {"tentative", "confirmed"} /\ r \notin vouched' => Rests(r)'
    BY <1>3 DEF Rests
  <1>6. \A p \in Impressions : imp'[p].st = "active" /\ p \notin vouched' => RestsOn(p)'
    <2> SUFFICES ASSUME NEW p \in Impressions, imp'[p].st = "active", p \notin vouched',
                        NEW s \in imp'[p].src, NEW t \in refl'[s[2]].src, t[1] = s[3]
                 PROVE  Held(t)'
      BY DEF RestsOn
    <2>1. s \in imp[p].src /\ Exists(refl[s[2]])' /\ s[2] \in Reflections
      BY <1>2, <1>4
    <2>2. t \in refl[s[2]].src
      BY <2>1
    <2> QED  BY <2>1, <2>2
  <1>7. Supported'
    BY <1>5, <1>6 DEF Supported
  <1>8. Linked'
    <2>1. \A p \in Impressions : Exists(imp[p])' => \A s \in imp'[p].src : Exists(refl[s[2]])'
      OBVIOUS
    <2>2. ASSUME NEW r \in Reflections, Exists(refl[r])', NEW s \in refl'[r].src
          PROVE  fact'[s[2]].st # "deleted"
      <3>1. s \in refl[r].src /\ Exists(refl[r]) /\ s[2] \in Facts
        BY <1>1, <2>2
      <3>2. fact[s[2]].st # "deleted"
        BY <3>1 DEF IInv, Linked
      <3> QED  BY <2>2, <3>1, <3>2
    <2> QED  BY <2>1, <2>2 DEF Linked
  <1>9. Sourced'
    <2>1. ASSUME NEW r \in Reflections, Exists(refl[r])', NEW f \in refl'[r].knows
          PROVE  \E s \in refl'[r].src : s[2] = f
      BY <2>1 DEF IInv, Sourced
    <2>2. ASSUME NEW p \in Impressions, Exists(imp[p])', NEW f \in imp'[p].knows
          PROVE  \E s \in imp'[p].src : \E t \in refl'[s[2]].src : t[2] = f
      <3>1. PICK s \in imp[p].src : \E t \in refl[s[2]].src : t[2] = f
        BY <2>2 DEF IInv, Sourced
      <3>2. s[2] \in Reflections /\ Exists(refl[s[2]])' /\ s \in imp'[p].src
        BY <1>2, <2>2, <3>1
      <3>3. refl'[s[2]].src = refl[s[2]].src
        BY <3>2
      <3> QED  BY <3>1, <3>2, <3>3
    <2> QED  BY <2>1, <2>2 DEF Sourced
  <1> QED  BY <1>7, <1>8, <1>9 DEF IInv

\* Steps that leave what is derived alone
LEMMA FactStep ==
  ASSUME IInv, refl' = refl, imp' = imp, vouched' = vouched, clash' = clash,
         offer' \subseteq FactVersions,
         asked' \subseteq Reflections \X (Impressions \cup {None}),
         fact' \in [Facts -> FactRow], \A f \in Facts : Bounded(fact'[f]),
         sourced' \subseteq FactVersions, eligible' \subseteq FactVersions,
         second' = Done \/ (second'.op \in {"suppress", "restore"} /\ second'.f \in Facts),
         \A f \in Facts, v \in Nat, n \in Nat : Held(<<n, f, v>>) => Held(<<n, f, v>>)',
         \A f \in Facts : fact'[f].st = "deleted" => fact[f].st = "deleted"
  PROVE  IInv'
  <1>1. Typed'
    BY DEF IInv, Typed
  <1>2. Clearing'
    BY DEF Clearing, Done, None
  <1>3. \A r \in Reflections : \A s \in refl[r].src : Held(s) => Held(s)'
    <2> SUFFICES ASSUME NEW r \in Reflections, NEW s \in refl[r].src, Held(s)
                 PROVE  Held(s)'
      OBVIOUS
    <2>1. s \in Nat \X Facts \X Nat
      BY DEF IInv, Typed, ReflRow, Source
    <2>2. s = <<s[1], s[2], s[3]>> /\ s[1] \in Nat /\ s[2] \in Facts /\ s[3] \in Nat
      BY <2>1
    <2> DEFINE n == s[1]  f == s[2]  v == s[3]
    <2>3. s = <<n, f, v>> /\ n \in Nat /\ f \in Facts /\ v \in Nat
      BY <2>2
    <2> HIDE DEF n, f, v
    <2> QED  BY <2>3
  <1>4. \A p \in Impressions : \A s \in imp[p].src : s[2] \in Reflections
    BY DEF IInv, Typed, ImpRow, Source
  <1>5. \A r \in Reflections : refl'[r].st \in {"tentative", "confirmed"} /\ r \notin vouched' =>
          \A s \in refl[r].src : Held(s)'
    BY <1>3 DEF IInv, Supported, Rests
  <1>6. \A p \in Impressions : imp'[p].st = "active" /\ p \notin vouched' =>
          \A s \in imp[p].src : \A t \in refl[s[2]].src : t[1] = s[3] => Held(t)'
    BY <1>3, <1>4 DEF IInv, Supported, RestsOn
  <1>7. \A p \in Impressions : Exists(imp[p]) => \A s \in imp[p].src : Exists(refl[s[2]])
    BY DEF IInv, Linked
  <1>8. /\ \A r \in Reflections : Exists(refl[r])' <=> Exists(refl[r])
        /\ \A p \in Impressions : Exists(imp[p])' <=> Exists(imp[p])
    BY DEF Exists
  <1> QED  BY <1>1, <1>2, <1>4, <1>5, <1>6, <1>7, <1>8, ShrinkStep

\* Steps of one fact that leave what is derived alone
LEMMA OneFact ==
  ASSUME IInv, refl' = refl, imp' = imp, vouched' = vouched, clash' = clash, offer' = offer,
         asked' = asked, untold' = untold, second = Done, NEW f \in Facts,
         fact' \in [Facts -> FactRow], Bounded(fact'[f]),
         \A g \in Facts \ {f} : fact'[g] = fact[g],
         sourced' \subseteq FactVersions, eligible' \subseteq FactVersions,
         second' \in {Done, [op |-> "suppress", f |-> f], [op |-> "restore", f |-> f]},
         second' = [op |-> "suppress", f |-> f] \/ (\A v \in Nat : Valid(fact, f, v) => Valid(fact', f, v)),
         fact'[f].st = "deleted" => fact[f].st = "deleted"
  PROVE  IInv'
  <1>1. \A g \in Facts : Bounded(fact'[g])
    BY DEF IInv, Typed
  <1>2. second' = Done \/ (second'.op \in {"suppress", "restore"} /\ second'.f \in Facts)
    OBVIOUS
  <1>3. ASSUME NEW g \in Facts, NEW v \in Nat, NEW n \in Nat, Held(<<n, g, v>>)
        PROVE  Held(<<n, g, v>>)'
    <2>1. g \in untold \/ Valid(fact, g, v)
      BY <1>3 DEF Held, Current, Done, None
    <2>2. CASE g # f
      BY <2>1, <2>2 DEF Held, Current, Valid
    <2>3. CASE g = f /\ second' = [op |-> "suppress", f |-> f]
      BY <2>3 DEF Held
    <2>4. CASE g = f /\ \A w \in Nat : Valid(fact, f, w) => Valid(fact', f, w)
      <3>1. g \in untold' \/ Valid(fact', g, v)
        BY <2>1, <2>4
      <3> QED  BY <3>1 DEF Held, Current, Valid
    <2> QED  BY <2>2, <2>3, <2>4
  <1>4. /\ offer \subseteq FactVersions /\ asked \subseteq Reflections \X (Impressions \cup {None})
    BY DEF IInv, Typed
  <1>5. \A g \in Facts : fact'[g].st = "deleted" => fact[g].st = "deleted"
    OBVIOUS
  <1> QED  BY <1>1, <1>2, <1>3, <1>4, <1>5, FactStep

\* A version of a fact that is one of its own
LEMMA OwnVersion ==
  ASSUME Typed, NEW f \in Facts, Exists(fact[f])
  PROVE  fact[f] \in FactRow /\ fact[f].cur \in Versions /\ fact[f].top \in Versions
  BY Assumed DEF Parameters, Typed, Bounded, FactRow, Versions

LEMMA CreateStep ==
  ASSUME IInv, NEW f \in Facts, Create(f)
  PROVE  IInv'
  <1> DEFINE row == [NoFact EXCEPT !.st = "active", !.cur = 1, !.top = 1]
  <1>1. /\ fact' = [fact EXCEPT ![f] = row] /\ fact[f].st = None
        /\ sourced' = sourced \cup {<<f, 1>>} /\ eligible' = eligible \cup {<<f, 1>>}
        /\ second = Done /\ second' = Done
        /\ UNCHANGED <<refl, imp, clash, vouched, untold, offer, asked>>
    BY DEF Create, Free, NoDeep, deepVars, jobs
  <1>2. /\ row \in FactRow /\ row.st = "active" /\ row.cur = 1 /\ row.top = 1
        /\ row.inc = 0 /\ row.chal = 0
    BY Assumed, BornFact
  <1> HIDE DEF row
  <1>3. fact \in [Facts -> FactRow] /\ sourced \subseteq FactVersions /\ eligible \subseteq FactVersions
    BY DEF IInv, Typed
  <1>4. fact' \in [Facts -> FactRow] /\ fact'[f] = row /\ \A g \in Facts \ {f} : fact'[g] = fact[g]
    BY <1>1, <1>2, <1>3
  <1>5. Bounded(fact'[f])
    BY <1>2, <1>4 DEF Bounded
  <1>6. <<f, 1>> \in FactVersions
    BY Assumed, Constants DEF FactVersions
  <1>7. \A v \in Nat : ~Valid(fact, f, v)
    BY <1>1 DEF Valid, None
  <1> QED  BY <1>1, <1>2, <1>3, <1>4, <1>5, <1>6, <1>7, OneFact

LEMMA RepeatStep ==
  ASSUME IInv, NEW f \in Facts, Repeat(f)
  PROVE  IInv'
  <1>1. /\ fact' = fact /\ Exists(fact[f])
        /\ sourced' = sourced \cup {<<f, fact[f].cur>>} /\ eligible' = eligible
        /\ second = Done /\ second' = Done
        /\ UNCHANGED <<refl, imp, clash, vouched, untold, offer, asked>>
    BY DEF Repeat, Free, NoDeep, deepVars, jobs
  <1>2. /\ fact \in [Facts -> FactRow] /\ sourced \subseteq FactVersions /\ eligible \subseteq FactVersions
        /\ Bounded(fact[f])
    BY DEF IInv, Typed
  <1>3. <<f, fact[f].cur>> \in FactVersions
    BY <1>1, OwnVersion DEF FactVersions, IInv
  <1> QED  BY <1>1, <1>2, <1>3, OneFact

\* A new version of a fact, and what rests on the one before about to be suppressed
LEMMA AdvanceStep ==
  ASSUME IInv, NEW f \in Facts, Advance(f), second = Done,
         second' = [op |-> "suppress", f |-> f],
         sourced' \subseteq sourced \cup {<<f, NextVersion(f)>>},
         eligible' \subseteq eligible \cup {<<f, NextVersion(f)>>},
         UNCHANGED <<refl, imp, clash, vouched, untold, offer, asked>>
  PROVE  IInv'
  <1> DEFINE v == NextVersion(f)
  <1>1. v \in Versions /\ Exists(fact[f]) /\ fact' = [fact EXCEPT ![f].cur = v, ![f].top = v]
    BY DEF Advance
  <1>2. v = fact[f].top + 1
    BY DEF NextVersion
  <1>3. /\ fact \in [Facts -> FactRow] /\ sourced \subseteq FactVersions /\ eligible \subseteq FactVersions
        /\ Bounded(fact[f]) /\ fact[f] \in FactRow
    BY DEF IInv, Typed
  <1> HIDE DEF v
  <1>4. /\ fact'[f].st = fact[f].st /\ fact'[f].cur = v /\ fact'[f].top = v
        /\ fact'[f].chal = fact[f].chal /\ fact'[f].inc = fact[f].inc
    BY <1>1, <1>3 DEF FactRow
  <1>5. v \in Nat /\ v \in 0..MaxVersions /\ v # 0
    BY <1>1, Assumed DEF Parameters, Versions
  <1>6. fact' \in [Facts -> FactRow] /\ \A g \in Facts \ {f} : fact'[g] = fact[g]
    BY <1>1, <1>3, <1>5 DEF FactRow
  <1>7. Bounded(fact'[f])
    BY <1>1, <1>2, <1>3, <1>4, <1>5 DEF Bounded, Exists, FactRow
  <1>8. <<f, v>> \in FactVersions
    BY <1>1 DEF FactVersions
  <1>9. sourced' \subseteq FactVersions /\ eligible' \subseteq FactVersions
    BY <1>3, <1>8 DEF v
  <1> QED  BY <1>4, <1>6, <1>7, <1>9, OneFact

LEMMA SupplementStep ==
  ASSUME IInv, NEW f \in Facts, Supplement(f)
  PROVE  IInv'
  BY AdvanceStep DEF Supplement, Free, NoDeep, deepVars, jobs

LEMMA EditStep ==
  ASSUME IInv, NEW f \in Facts, Edit(f)
  PROVE  IInv'
  BY AdvanceStep DEF Edit, Free, NoDeep, deepVars, jobs

\* A status that is not worse, or what rests on the fact about to be suppressed
LEMMA SetFactStep ==
  ASSUME IInv, NEW f \in Facts, NEW st \in {"active", "archived"}, NEW then \in {"suppress", "restore"},
         st = "active" \/ then = "suppress", SetFact(f, st, then)
  PROVE  IInv'
  <1>1. /\ fact' = [fact EXCEPT ![f].st = st] /\ Exists(fact[f])
        /\ sourced' = sourced /\ eligible' = eligible
        /\ second = Done /\ second' = [op |-> then, f |-> f]
        /\ UNCHANGED <<refl, imp, clash, vouched, untold, offer, asked>>
    BY DEF SetFact, Free, NoDeep, deepVars, jobs
  <1>2. /\ fact \in [Facts -> FactRow] /\ sourced \subseteq FactVersions /\ eligible \subseteq FactVersions
        /\ Bounded(fact[f]) /\ fact[f] \in FactRow
    BY DEF IInv, Typed
  <1>3. /\ fact'[f].st = st /\ fact'[f].cur = fact[f].cur /\ fact'[f].top = fact[f].top
        /\ fact'[f].chal = fact[f].chal /\ fact'[f].inc = fact[f].inc
    BY <1>1, <1>2 DEF FactRow
  <1>4. fact' \in [Facts -> FactRow] /\ \A g \in Facts \ {f} : fact'[g] = fact[g]
    BY <1>1, <1>2 DEF FactRow
  <1>5. Bounded(fact'[f])
    BY <1>1, <1>2, <1>3 DEF Bounded
  <1>6. then = "suppress" \/ \A v \in Nat : Valid(fact, f, v) => Valid(fact', f, v)
    BY <1>3 DEF Valid
  <1>7. st # "deleted"
    OBVIOUS
  <1> QED  BY <1>1, <1>2, <1>3, <1>4, <1>5, <1>6, <1>7, OneFact

\* Maintenance archives a fact, and its descendants are excepted from now on.
LEMMA ArchiveDecayedStep ==
  ASSUME IInv, NEW f \in Facts, ArchiveDecayed(f)
  PROVE  IInv'
  <1>1. /\ fact' = [fact EXCEPT ![f].st = "archived"] /\ fact[f].st = "active"
        /\ untold' = untold \cup {f} /\ second = Done /\ second' = Done
        /\ UNCHANGED <<sourced, eligible, refl, imp, clash, vouched, offer, asked>>
    BY DEF ArchiveDecayed, Free, deepVars, jobs
  <1>2. /\ fact \in [Facts -> FactRow] /\ sourced \subseteq FactVersions /\ eligible \subseteq FactVersions
        /\ offer \subseteq FactVersions /\ asked \subseteq Reflections \X (Impressions \cup {None})
        /\ fact[f] \in FactRow /\ \A g \in Facts : Bounded(fact[g])
    BY DEF IInv, Typed
  <1>3. /\ fact'[f].st = "archived" /\ fact'[f].cur = fact[f].cur /\ fact'[f].top = fact[f].top
        /\ fact'[f].chal = fact[f].chal /\ fact'[f].inc = fact[f].inc
    BY <1>1, <1>2 DEF FactRow
  <1>4. fact' \in [Facts -> FactRow] /\ \A g \in Facts \ {f} : fact'[g] = fact[g]
    BY <1>1, <1>2 DEF FactRow
  <1>5. Bounded(fact'[f])
    BY <1>1, <1>2, <1>3 DEF Bounded, Exists, None
  <1>6. \A g \in Facts : Bounded(fact'[g])
    BY <1>2, <1>4, <1>5
  <1>7. \A g \in Facts, v \in Nat, n \in Nat : Held(<<n, g, v>>) => Held(<<n, g, v>>)'
    BY <1>1, <1>4 DEF Held, Current, Valid, Done
  <1>8. \A g \in Facts : fact'[g].st = "deleted" => fact[g].st = "deleted"
    BY <1>3, <1>4
  <1> QED  BY <1>1, <1>2, <1>4, <1>6, <1>7, <1>8, FactStep

LEMMA SecondIsLostStep ==
  ASSUME IInv, SecondIsLost
  PROVE  IInv'
  <1>1. /\ second' = Done
        /\ untold' = IF second.op = "suppress" THEN untold \cup {second.f} ELSE untold
        /\ UNCHANGED <<fact, sourced, eligible, refl, imp, clash, vouched, offer, asked>>
    BY DEF SecondIsLost, factVars, deepVars, jobs
  <1>2. /\ fact \in [Facts -> FactRow] /\ sourced \subseteq FactVersions /\ eligible \subseteq FactVersions
        /\ offer \subseteq FactVersions /\ asked \subseteq Reflections \X (Impressions \cup {None})
        /\ \A g \in Facts : Bounded(fact[g])
    BY DEF IInv, Typed
  <1>3. \A g \in Facts, v \in Nat, n \in Nat : Held(<<n, g, v>>) => Held(<<n, g, v>>)'
    BY <1>1 DEF Held, Current, Valid
  <1> QED  BY <1>1, <1>2, <1>3, FactStep

\* The jobs ask for facts and impressions, and write nothing yet.
LEMMA JobsAskStep ==
  ASSUME IInv, UNCHANGED <<factVars, deepVars, vouched, untold>>, second = Done, second' = Done,
         offer' \subseteq FactVersions, asked' \subseteq Reflections \X (Impressions \cup {None})
  PROVE  IInv'
  <1>1. UNCHANGED <<fact, sourced, eligible, refl, imp, clash, vouched, untold, second>>
    BY DEF factVars, deepVars
  <1>2. /\ fact \in [Facts -> FactRow] /\ sourced \subseteq FactVersions /\ eligible \subseteq FactVersions
        /\ \A g \in Facts : Bounded(fact[g])
    BY DEF IInv, Typed
  <1>3. \A g \in Facts, v \in Nat, n \in Nat : Held(<<n, g, v>>) => Held(<<n, g, v>>)'
    BY <1>1 DEF Held, Current, Valid
  <1> QED  BY <1>1, <1>2, <1>3, FactStep

LEMMA PrepareStep ==
  ASSUME IInv, Prepare
  PROVE  IInv'
  <1>1. /\ offer' = Offered /\ asked' = asked /\ second = Done /\ second' = Done
        /\ UNCHANGED <<factVars, deepVars, vouched, untold>>
    BY DEF Prepare, Free, NoFacts
  <1>2. eligible \subseteq FactVersions /\ asked \subseteq Reflections \X (Impressions \cup {None})
    BY DEF IInv, Typed
  <1>3. Offered \subseteq eligible
    BY DEF Offered
  <1> QED  BY <1>1, <1>2, <1>3, JobsAskStep

LEMMA JobEndsStep ==
  ASSUME IInv, JobEnds
  PROVE  IInv'
  <1>1. asked \subseteq Reflections \X (Impressions \cup {None})
    BY DEF IInv, Typed
  <1> QED  BY <1>1, JobsAskStep DEF JobEnds

LEMMA NoPromotionStep ==
  ASSUME IInv, NoPromotion
  PROVE  IInv'
  <1>1. offer \subseteq FactVersions
    BY DEF IInv, Typed
  <1> QED  BY <1>1, JobsAskStep DEF NoPromotion

LEMMA AskPromotionStep ==
  ASSUME IInv, NEW r \in Reflections, AskPromotion(r)
  PROVE  IInv'
  <1>1. /\ asked' = {<<r, None>>} \cup {<<r, p>> : p \in {q \in Impressions : imp[q].st = "active"}}
        /\ offer' = offer /\ second = Done /\ second' = Done
        /\ UNCHANGED <<factVars, deepVars, vouched, untold>>
    BY DEF AskPromotion, Free, NoFacts
  <1>2. offer \subseteq FactVersions
    BY DEF IInv, Typed
  <1>3. asked' \subseteq Reflections \X (Impressions \cup {None})
    BY <1>1
  <1> QED  BY <1>1, <1>2, <1>3, JobsAskStep

\* The conflict over a fact is closed with another version than the one before.
LEMMA ResolvedStep ==
  ASSUME IInv, NEW f \in Facts, NEW v \in Versions, Exists(fact[f]), Conflicted(f),
         fact' = Resolved(f, v), second = Done, second' = Done,
         sourced' = sourced, eligible' \subseteq eligible \cup {<<f, v>>},
         UNCHANGED <<refl, imp, clash, vouched, untold, offer, asked>>
  PROVE  IInv'
  <1>1. /\ fact \in [Facts -> FactRow] /\ sourced \subseteq FactVersions /\ eligible \subseteq FactVersions
        /\ Bounded(fact[f]) /\ fact[f] \in FactRow
    BY DEF IInv, Typed
  <1>2. /\ fact'[f].st = fact[f].st /\ fact'[f].cur = v /\ fact'[f].chal = 0
        /\ fact'[f].top = (IF v > fact[f].top THEN v ELSE fact[f].top)
        /\ fact'[f].inc = fact[f].inc
    BY <1>1 DEF FactRow, Resolved
  <1>3. v \in Nat /\ v \in 0..MaxVersions /\ v # 0
    BY Assumed DEF Parameters, Versions
  <1>4. fact' \in [Facts -> FactRow] /\ \A g \in Facts \ {f} : fact'[g] = fact[g]
    BY <1>1, <1>3 DEF FactRow, Resolved
  <1>5. Bounded(fact'[f])
    BY <1>1, <1>2, <1>3 DEF Bounded, FactRow
  <1>6. eligible' \subseteq FactVersions
    BY <1>1 DEF FactVersions
  <1>7. \A w \in Nat : ~Valid(fact, f, w)
    BY DEF Valid, Conflicted
  <1> QED  BY <1>1, <1>2, <1>4, <1>5, <1>6, <1>7, OneFact

LEMMA ResolveAcceptStep ==
  ASSUME IInv, NEW f \in Facts, ResolveAccept(f)
  PROVE  IInv'
  <1>1. /\ Exists(fact[f]) /\ Conflicted(f) /\ fact' = Resolved(f, fact[f].chal)
        /\ second = Done /\ second' = Done /\ sourced' = sourced /\ eligible' = eligible
        /\ UNCHANGED <<refl, imp, clash, vouched, untold, offer, asked>>
    BY DEF ResolveAccept, Free, NoDeep, deepVars, jobs
  <1>2. fact[f] \in FactRow /\ Bounded(fact[f])
    BY DEF IInv, Typed
  <1>3. fact[f].chal \in Versions
    BY <1>1, <1>2, Assumed DEF Parameters, Conflicted, Bounded, FactRow, Versions
  <1> QED  BY <1>1, <1>3, ResolvedStep

LEMMA ResolveMergeStep ==
  ASSUME IInv, NEW f \in Facts, ResolveMerge(f)
  PROVE  IInv'
  BY ResolvedStep DEF ResolveMerge, Free, NoDeep, deepVars, jobs
----------------------------------------
(* What is derived, when it is suppressed, restored or deleted *)

LEMMA SuppressedRows ==
  ASSUME Typed, NEW rs \in SUBSET Reflections
  PROVE  /\ SuppressedRefl(rs) \in [Reflections -> ReflRow]
         /\ SuppressedImp(rs) \in [Impressions -> ImpRow]
         /\ \A r \in Reflections :
              /\ SuppressedRefl(rs)[r].src = refl[r].src
              /\ SuppressedRefl(rs)[r].knows = refl[r].knows
              /\ Exists(SuppressedRefl(rs)[r]) <=> Exists(refl[r])
              /\ SuppressedRefl(rs)[r].st \in {"tentative", "confirmed"} =>
                   r \notin rs /\ SuppressedRefl(rs)[r] = refl[r]
         /\ \A p \in Impressions :
              /\ SuppressedImp(rs)[p].src = imp[p].src
              /\ SuppressedImp(rs)[p].knows = imp[p].knows
              /\ Exists(SuppressedImp(rs)[p]) <=> Exists(imp[p])
              /\ SuppressedImp(rs)[p].st = "active" => p \notin From(rs) /\ SuppressedImp(rs)[p] = imp[p]
  <1> DEFINE now == SuppressedRefl(rs)  then == SuppressedImp(rs)
  <1>1. refl \in [Reflections -> ReflRow] /\ imp \in [Impressions -> ImpRow]
    BY DEF Typed
  <1>2. ASSUME NEW r \in Reflections
        PROVE  /\ now[r] \in ReflRow /\ now[r].src = refl[r].src
               /\ now[r].knows = refl[r].knows
               /\ Exists(now[r]) <=> Exists(refl[r])
               /\ now[r].st \in {"tentative", "confirmed"} => r \notin rs /\ now[r] = refl[r]
    <2>1. refl[r] \in ReflRow
      BY <1>1
    <2>2. CASE r \in rs /\ refl[r].st \in {"tentative", "confirmed", "disputed"}
      <3>1. now[r] = [refl[r] EXCEPT !.st = "disputed"]
        BY <2>2 DEF SuppressedRefl
      <3> HIDE DEF now
      <3>2. /\ now[r] \in ReflRow /\ now[r].src = refl[r].src /\ now[r].st = "disputed"
            /\ now[r].knows = refl[r].knows
        BY <2>1, <3>1 DEF ReflRow, Statuses
      <3> QED  BY <2>2, <3>2 DEF Exists, None
    <2>3. CASE ~(r \in rs /\ refl[r].st \in {"tentative", "confirmed", "disputed"})
      <3>1. now[r] = refl[r]
        BY <2>3 DEF SuppressedRefl
      <3> HIDE DEF now
      <3> QED  BY <2>1, <2>3, <3>1
    <2> QED  BY <2>2, <2>3
  <1>3. ASSUME NEW p \in Impressions
        PROVE  /\ then[p] \in ImpRow /\ then[p].src = imp[p].src /\ then[p].knows = imp[p].knows
               /\ Exists(then[p]) <=> Exists(imp[p])
               /\ then[p].st = "active" => p \notin From(rs) /\ then[p] = imp[p]
    <2>1. imp[p] \in ImpRow
      BY <1>1
    <2>2. CASE p \in From(rs) /\ imp[p].st = "active"
      <3>1. then[p] = [imp[p] EXCEPT !.st = "disputed"]
        BY <2>2 DEF SuppressedImp
      <3> HIDE DEF then
      <3>2. /\ then[p] \in ImpRow /\ then[p].src = imp[p].src /\ then[p].st = "disputed"
            /\ then[p].knows = imp[p].knows
        BY <2>1, <3>1 DEF ImpRow, ImpStatuses
      <3> QED  BY <2>2, <3>2 DEF Exists, None
    <2>3. CASE ~(p \in From(rs) /\ imp[p].st = "active")
      <3>1. then[p] = imp[p]
        BY <2>3 DEF SuppressedImp
      <3> HIDE DEF then
      <3> QED  BY <2>1, <2>3, <3>1
    <2> QED  BY <2>2, <2>3
  <1>4. now \in [Reflections -> ReflRow]
    BY <1>2 DEF SuppressedRefl
  <1>5. then \in [Impressions -> ImpRow]
    BY <1>3 DEF SuppressedImp
  <1> QED  BY <1>2, <1>3, <1>4, <1>5

LEMMA RestoredRows ==
  ASSUME Typed, NEW rs, NEW t
  PROVE  /\ RestoredRefl(rs, t) \in [Reflections -> ReflRow]
         /\ \A r \in Reflections :
              /\ RestoredRefl(rs, t)[r].src = refl[r].src
              /\ RestoredRefl(rs, t)[r].knows = refl[r].knows
              /\ Exists(RestoredRefl(rs, t)[r]) <=> Exists(refl[r])
              /\ RestoredRefl(rs, t)[r] # refl[r] => \A s \in refl[r].src : Valid(t, s[2], s[3])
  <1> DEFINE now == RestoredRefl(rs, t)
  <1>1. refl \in [Reflections -> ReflRow]
    BY DEF Typed
  <1>2. ASSUME NEW r \in Reflections
        PROVE  /\ now[r] \in ReflRow /\ now[r].src = refl[r].src
               /\ now[r].knows = refl[r].knows
               /\ Exists(now[r]) <=> Exists(refl[r])
               /\ now[r] # refl[r] => \A s \in refl[r].src : Valid(t, s[2], s[3])
    <2>1. refl[r] \in ReflRow
      BY <1>1
    <2>2. CASE now[r] = refl[r]
      <3> HIDE DEF now
      <3> QED  BY <2>1, <2>2
    <2>3. CASE now[r] # refl[r]
      <3>1. /\ refl[r].st = "disputed" /\ \A s \in refl[r].src : Valid(t, s[2], s[3])
            /\ now[r] = [refl[r] EXCEPT !.st = IF refl[r].score >= 1 THEN "confirmed" ELSE "tentative"]
        BY <2>3 DEF RestoredRefl
      <3> HIDE DEF now
      <3>2. PICK st \in {"confirmed", "tentative"} : now[r] = [refl[r] EXCEPT !.st = st]
        BY <3>1
      <3>3. /\ now[r] \in ReflRow /\ now[r].src = refl[r].src /\ now[r].st = st
            /\ now[r].knows = refl[r].knows
        BY <2>1, <3>2 DEF ReflRow, Statuses
      <3> QED  BY <3>1, <3>3 DEF Exists, None
    <2> QED  BY <2>2, <2>3
  <1>3. now \in [Reflections -> ReflRow]
    BY <1>2 DEF RestoredRefl
  <1> QED  BY <1>2, <1>3

LEMMA RestoredImps ==
  ASSUME Typed, NEW rs, NEW now, NEW t
  PROVE  /\ RestoredImp(rs, now, t) \in [Impressions -> ImpRow]
         /\ \A p \in Impressions :
              /\ RestoredImp(rs, now, t)[p].src = imp[p].src
              /\ RestoredImp(rs, now, t)[p].knows = imp[p].knows
              /\ Exists(RestoredImp(rs, now, t)[p]) <=> Exists(imp[p])
              /\ RestoredImp(rs, now, t)[p] # imp[p] => \A s \in imp[p].src : Holds(s[2], s[3], now, t)
  <1> DEFINE then == RestoredImp(rs, now, t)
  <1>1. imp \in [Impressions -> ImpRow]
    BY DEF Typed
  <1>2. ASSUME NEW p \in Impressions
        PROVE  /\ then[p] \in ImpRow /\ then[p].src = imp[p].src /\ then[p].knows = imp[p].knows
               /\ Exists(then[p]) <=> Exists(imp[p])
               /\ then[p] # imp[p] => \A s \in imp[p].src : Holds(s[2], s[3], now, t)
    <2>1. imp[p] \in ImpRow
      BY <1>1
    <2>2. CASE then[p] = imp[p]
      <3> HIDE DEF then
      <3> QED  BY <2>1, <2>2
    <2>3. CASE then[p] # imp[p]
      <3>1. /\ imp[p].st = "disputed" /\ \A s \in imp[p].src : Holds(s[2], s[3], now, t)
            /\ then[p] = [imp[p] EXCEPT !.st = "active"]
        BY <2>3 DEF RestoredImp
      <3> HIDE DEF then
      <3>2. /\ then[p] \in ImpRow /\ then[p].src = imp[p].src /\ then[p].st = "active"
            /\ then[p].knows = imp[p].knows
        BY <2>1, <3>1 DEF ImpRow, ImpStatuses
      <3> QED  BY <3>1, <3>2 DEF Exists, None
    <2> QED  BY <2>2, <2>3
  <1>3. then \in [Impressions -> ImpRow]
    BY <1>2 DEF RestoredImp
  <1> QED  BY <1>2, <1>3

LEMMA OverFact ==
  ASSUME Typed, NEW f \in Facts
  PROVE  /\ Over(f) \in SUBSET Reflections
         /\ \A r \in Reflections \ Over(f) : \A s \in refl[r].src : s[2] # f
         /\ \A rs : From(rs) \subseteq Impressions
         /\ \A rs : \A p \in Impressions \ From(rs) : \A s \in imp[p].src : s[2] \notin rs
  BY DEF Over, From

LEMMA SourceNames ==
  ASSUME Typed
  PROVE  /\ \A r \in Reflections : \A s \in refl[r].src :
              s[1] \in Nat /\ s[2] \in Facts /\ s[3] \in Nat
         /\ \A p \in Impressions : \A s \in imp[p].src :
              s[1] \in Nat /\ s[2] \in Reflections /\ s[3] \in Nat
  <1>1. \A r \in Reflections : refl[r].src \in SUBSET (Nat \X Facts \X Nat)
    BY DEF Typed, ReflRow, Source
  <1>2. \A p \in Impressions : imp[p].src \in SUBSET (Nat \X Reflections \X Nat)
    BY DEF Typed, ImpRow, Source
  <1> QED  BY <1>1, <1>2

\* What rests on a fact that has changed is suppressed.
LEMMA SuppressStep ==
  ASSUME IInv, NEW f \in Facts, Suppress(Over(f)), Typed',
         untold' = untold \ {f}, second' = Done,
         second = Done \/ (second.op = "suppress" /\ second.f = f),
         \A g \in Facts \ {f} : fact'[g] = fact[g],
         fact'[f].st = "deleted" => fact[f].st = "deleted"
  PROVE  IInv'
  <1> DEFINE rs == Over(f)
  <1>1. refl' = SuppressedRefl(rs) /\ imp' = SuppressedImp(rs) /\ vouched' = vouched \ (rs \cup From(rs))
    BY DEF Suppress
  <1>2. /\ Typed /\ rs \in SUBSET Reflections
        /\ \A r \in Reflections \ rs : \A s \in refl[r].src : s[2] # f
        /\ From(rs) \subseteq Impressions
        /\ \A p \in Impressions \ From(rs) : \A s \in imp[p].src : s[2] \notin rs
    BY OverFact DEF IInv
  <1> HIDE DEF rs
  <1>3. /\ \A r \in Reflections :
             /\ refl'[r].src = refl[r].src /\ refl'[r].knows = refl[r].knows
             /\ (Exists(refl[r])' <=> Exists(refl[r]))
             /\ refl'[r].st \in {"tentative", "confirmed"} => r \notin rs /\ refl'[r] = refl[r]
        /\ \A p \in Impressions :
             /\ imp'[p].src = imp[p].src /\ imp'[p].knows = imp[p].knows
             /\ Exists(imp[p])' <=> Exists(imp[p])
             /\ imp'[p].st = "active" => p \notin From(rs) /\ imp'[p] = imp[p]
    BY <1>1, <1>2, SuppressedRows DEF Exists
  <1>4. Reflections \cap Impressions = {}
    BY Assumed DEF Parameters
  <1>5. /\ \A r \in Reflections : \A s \in refl[r].src : s[2] \in Facts
        /\ \A p \in Impressions : \A s \in imp[p].src : s[2] \in Reflections
    BY <1>2, SourceNames
  <1>6. \A s : Held(s) /\ s[2] \in Facts \ {f} => Held(s)'
    BY DEF Held, Current, Valid, Done
  <1>7. ASSUME NEW r \in Reflections, refl'[r].st \in {"tentative", "confirmed"}, r \notin vouched',
               NEW s \in refl[r].src
        PROVE  Held(s)'
    <2>1. r \notin rs /\ refl'[r] = refl[r] /\ r \notin From(rs)
      BY <1>2, <1>3, <1>4, <1>7
    <2>2. r \notin vouched
      BY <1>1, <1>7, <2>1
    <2>3. Held(s)
      BY <1>7, <2>1, <2>2 DEF IInv, Supported, Rests
    <2> QED  BY <1>2, <1>5, <1>6, <2>1, <2>3
  <1>8. ASSUME NEW p \in Impressions, imp'[p].st = "active", p \notin vouched',
               NEW s \in imp[p].src, NEW t \in refl[s[2]].src, t[1] = s[3]
        PROVE  Held(t)'
    <2>1. p \notin From(rs) /\ imp'[p] = imp[p] /\ p \notin rs
      BY <1>2, <1>3, <1>4, <1>8
    <2>2. p \notin vouched
      BY <1>1, <1>8, <2>1
    <2>3. Held(t)
      BY <1>8, <2>1, <2>2 DEF IInv, Supported, RestsOn
    <2>4. s[2] \in Reflections \ rs
      BY <1>2, <1>5, <2>1
    <2> QED  BY <1>2, <1>5, <1>6, <2>3, <2>4
  <1>9. \A p \in Impressions : Exists(imp[p]) => \A s \in imp[p].src : Exists(refl[s[2]])'
    BY <1>3, <1>5 DEF IInv, Linked
  <1>10. Clearing'
    BY DEF Clearing, Done, None
  <1>11. \A g \in Facts : fact'[g].st = "deleted" => fact[g].st = "deleted"
    OBVIOUS
  <1>20. \A r \in Reflections : Exists(refl[r])' =>
           /\ Exists(refl[r]) /\ refl'[r].src = refl[r].src
           /\ refl'[r].knows = refl[r].knows
    BY <1>3
  <1>21. \A p \in Impressions : Exists(imp[p])' =>
           /\ Exists(imp[p]) /\ imp'[p].src = imp[p].src /\ imp'[p].knows = imp[p].knows
           /\ \A s \in imp[p].src : Exists(refl[s[2]])'
    BY <1>3, <1>9
  <1>22. \A g \in Facts : fact'[g].st = "deleted" =>
           \/ fact[g].st = "deleted"
           \/ \A r \in Reflections : Exists(refl[r])' => \A s \in refl[r].src : s[2] # g
    BY <1>11
  <1> QED  BY <1>7, <1>8, <1>10, <1>20, <1>21, <1>22, ShrinkStep

\* What rests on a fact that is valid again is given back.
LEMMA RestoreStep ==
  ASSUME IInv, NEW f \in Facts, RestoreOver(f, fact'), Typed',
         vouched' = vouched, second' = Done, clash' = clash,
         \A s : s[2] \in Facts /\ Held(s) => Held(s)',
         \A g \in Facts : fact'[g].st = "deleted" => fact[g].st = "deleted"
  PROVE  IInv'
  <1> DEFINE rs == Over(f)
  <1>1. refl' = RestoredRefl(rs, fact') /\ imp' = RestoredImp(rs, refl', fact')
    BY DEF RestoreOver
  <1>2. Typed
    BY DEF IInv
  <1> HIDE DEF rs
  <1>3. \A r \in Reflections :
          /\ refl'[r].src = refl[r].src /\ refl'[r].knows = refl[r].knows
          /\ (Exists(refl[r])' <=> Exists(refl[r]))
          /\ refl'[r] # refl[r] => \A s \in refl[r].src : Valid(fact', s[2], s[3])
    BY <1>1, <1>2, RestoredRows DEF Exists
  <1>4. \A p \in Impressions :
          /\ imp'[p].src = imp[p].src /\ imp'[p].knows = imp[p].knows
          /\ Exists(imp[p])' <=> Exists(imp[p])
          /\ imp'[p] # imp[p] => \A s \in imp[p].src : Holds(s[2], s[3], refl', fact')
    BY <1>1, <1>2, RestoredImps DEF Exists
  <1>5. /\ \A r \in Reflections : \A s \in refl[r].src : s[2] \in Facts
        /\ \A p \in Impressions : \A s \in imp[p].src : s[2] \in Reflections
    BY <1>2, SourceNames
  <1>6. \A s : Valid(fact', s[2], s[3]) => Held(s)'
    BY DEF Held, Current, Valid
  <1>7. ASSUME NEW r \in Reflections, refl'[r].st \in {"tentative", "confirmed"}, r \notin vouched',
               NEW s \in refl[r].src
        PROVE  Held(s)'
    <2>1. CASE refl'[r] # refl[r]
      BY <1>3, <1>6, <2>1
    <2>2. CASE refl'[r] = refl[r]
      BY <1>5, <1>7, <2>2 DEF IInv, Supported, Rests
    <2> QED  BY <2>1, <2>2
  <1>8. ASSUME NEW p \in Impressions, imp'[p].st = "active", p \notin vouched',
               NEW s \in imp[p].src, NEW t \in refl[s[2]].src, t[1] = s[3]
        PROVE  Held(t)'
    <2>1. s[2] \in Reflections /\ t[2] \in Facts /\ t \in refl'[s[2]].src
      BY <1>3, <1>5
    <2>2. CASE imp'[p] # imp[p]
      <3>1. Holds(s[2], s[3], refl', fact')
        BY <1>4, <2>2
      <3>2. Valid(fact', t[2], t[3])
        BY <1>8, <2>1, <3>1 DEF Holds
      <3> QED  BY <1>6, <3>2
    <2>3. CASE imp'[p] = imp[p]
      <3>1. Held(t)
        BY <1>8, <2>3 DEF IInv, Supported, RestsOn
      <3> QED  BY <2>1, <3>1
    <2> QED  BY <2>2, <2>3
  <1>9. \A p \in Impressions : Exists(imp[p]) => \A s \in imp[p].src : Exists(refl[s[2]])'
    BY <1>3, <1>5 DEF IInv, Linked
  <1>10. Clearing'
    BY DEF Clearing, Done, None
  <1>20. \A r \in Reflections : Exists(refl[r])' =>
           /\ Exists(refl[r]) /\ refl'[r].src = refl[r].src
           /\ refl'[r].knows = refl[r].knows
    BY <1>3
  <1>21. \A p \in Impressions : Exists(imp[p])' =>
           /\ Exists(imp[p]) /\ imp'[p].src = imp[p].src /\ imp'[p].knows = imp[p].knows
           /\ \A s \in imp[p].src : Exists(refl[s[2]])'
    BY <1>4, <1>9
  <1> QED  BY <1>7, <1>8, <1>10, <1>20, <1>21, ShrinkStep

LEMMA SuppressDescendantsStep ==
  ASSUME IInv, SuppressDescendants
  PROVE  IInv'
  <1>1. /\ second.op = "suppress" /\ Suppress(Over(second.f)) /\ untold' = untold \ {second.f}
        /\ second' = Done /\ UNCHANGED <<fact, sourced, eligible, clash, offer, asked>>
    BY DEF SuppressDescendants, factVars, jobs
  <1>2. second.f \in Facts
    BY <1>1 DEF IInv, Typed, Done, None
  <1>3. Over(second.f) \in SUBSET Reflections /\ Typed
    BY <1>2, OverFact DEF IInv
  <1>4. /\ refl' = SuppressedRefl(Over(second.f)) /\ imp' = SuppressedImp(Over(second.f))
        /\ vouched' \subseteq vouched
    BY <1>1 DEF Suppress
  <1>5. refl' \in [Reflections -> ReflRow] /\ imp' \in [Impressions -> ImpRow]
    BY <1>3, <1>4, SuppressedRows
  <1>6. Typed'
    BY <1>1, <1>3, <1>4, <1>5 DEF Typed
  <1> QED  BY <1>1, <1>2, <1>6, SuppressStep

LEMMA ReevaluateDescendantsStep ==
  ASSUME IInv, ReevaluateDescendants
  PROVE  IInv'
  <1>1. /\ second.op = "restore" /\ RestoreOver(second.f, fact)
        /\ second' = Done
        /\ UNCHANGED <<fact, sourced, eligible, clash, vouched, untold, offer, asked>>
    BY DEF ReevaluateDescendants, factVars, jobs
  <1>2. second.f \in Facts /\ Typed
    BY <1>1 DEF IInv, Typed, Done, None
  <1>3. /\ refl' = RestoredRefl(Over(second.f), fact)
        /\ imp' = RestoredImp(Over(second.f), refl', fact)
    BY <1>1 DEF RestoreOver
  <1>4. refl' \in [Reflections -> ReflRow] /\ imp' \in [Impressions -> ImpRow]
    BY <1>2, <1>3, RestoredRows, RestoredImps
  <1>5. Typed'
    BY <1>1, <1>2, <1>4 DEF Typed
  <1>6. \A s : Held(s) => Held(s)'
    BY <1>1 DEF Held, Current, Valid
  <1>7. RestoreOver(second.f, fact')
    BY <1>1
  <1> QED  BY <1>1, <1>2, <1>5, <1>6, <1>7, RestoreStep

LEMMA OpenConflictStep ==
  ASSUME IInv, NEW f \in Facts, OpenConflict(f)
  PROVE  IInv'
  <1> DEFINE v == NextVersion(f)
  <1>1. /\ Exists(fact[f]) /\ v \in Versions /\ second = Done /\ second' = Done
        /\ fact' = [fact EXCEPT ![f].top = v, ![f].chal = v, ![f].inc = fact[f].cur]
        /\ sourced' = sourced \cup {<<f, v>>} /\ eligible' = eligible \cup {<<f, v>>}
        /\ Suppress(Over(f)) /\ untold' = untold \ {f}
        /\ UNCHANGED <<clash, offer, asked>>
    BY DEF OpenConflict, Free, jobs
  <1>2. v = fact[f].top + 1
    BY DEF NextVersion
  <1> HIDE DEF v
  <1>3. /\ fact \in [Facts -> FactRow] /\ sourced \subseteq FactVersions /\ eligible \subseteq FactVersions
        /\ Bounded(fact[f]) /\ fact[f] \in FactRow /\ Typed
    BY DEF IInv, Typed
  <1>4. /\ fact'[f].st = fact[f].st /\ fact'[f].cur = fact[f].cur /\ fact'[f].top = v
        /\ fact'[f].chal = v /\ fact'[f].inc = fact[f].cur
    BY <1>1, <1>3 DEF FactRow
  <1>5. v \in Nat /\ v \in 0..MaxVersions /\ v # 0
    BY <1>1, Assumed DEF Parameters, Versions
  <1>6. fact' \in [Facts -> FactRow] /\ \A g \in Facts \ {f} : fact'[g] = fact[g]
    BY <1>1, <1>3, <1>5 DEF FactRow
  <1>7. Bounded(fact'[f])
    BY <1>1, <1>2, <1>3, <1>4, <1>5 DEF Bounded, Exists, FactRow
  <1>8. \A g \in Facts : Bounded(fact'[g])
    BY <1>3, <1>6, <1>7 DEF Typed
  <1>9. <<f, v>> \in FactVersions
    BY <1>1 DEF FactVersions
  <1>10. Over(f) \in SUBSET Reflections
    BY <1>3, OverFact
  <1>11. /\ refl' = SuppressedRefl(Over(f)) /\ imp' = SuppressedImp(Over(f)) /\ vouched' \subseteq vouched
    BY <1>1 DEF Suppress
  <1>12. refl' \in [Reflections -> ReflRow] /\ imp' \in [Impressions -> ImpRow]
    BY <1>3, <1>10, <1>11, SuppressedRows
  <1>13. Typed'
    BY <1>1, <1>3, <1>6, <1>8, <1>9, <1>11, <1>12 DEF Typed
  <1> QED  BY <1>1, <1>4, <1>6, <1>13, SuppressStep

LEMMA ResolveKeepStep ==
  ASSUME IInv, NEW f \in Facts, ResolveKeep(f)
  PROVE  IInv'
  <1> DEFINE v == fact[f].inc
  <1>1. /\ Exists(fact[f]) /\ Conflicted(f) /\ second = Done /\ second' = Done
        /\ fact' = Resolved(f, v) /\ RestoreOver(f, fact')
        /\ UNCHANGED <<sourced, eligible, clash, vouched, untold, offer, asked>>
    BY DEF ResolveKeep, Free, jobs
  <1>2. /\ fact \in [Facts -> FactRow] /\ Bounded(fact[f]) /\ fact[f] \in FactRow /\ Typed
    BY DEF IInv, Typed
  <1>3. v \in Nat /\ v <= fact[f].top /\ v # 0
    BY <1>1, <1>2 DEF Bounded, Conflicted, FactRow
  <1>4. v \in 0..MaxVersions
    BY <1>2, <1>3, Assumed DEF Parameters, FactRow
  <1> HIDE DEF v
  <1>5. /\ fact'[f].st = fact[f].st /\ fact'[f].cur = v /\ fact'[f].chal = 0
        /\ fact'[f].top = (IF v > fact[f].top THEN v ELSE fact[f].top)
        /\ fact'[f].inc = fact[f].inc
    BY <1>1, <1>2 DEF FactRow, Resolved
  <1>6. fact' \in [Facts -> FactRow] /\ \A g \in Facts \ {f} : fact'[g] = fact[g]
    BY <1>1, <1>2, <1>4 DEF FactRow, Resolved
  <1>7. Bounded(fact'[f])
    BY <1>1, <1>2, <1>3, <1>5 DEF Bounded, FactRow
  <1>8. \A g \in Facts : Bounded(fact'[g])
    BY <1>2, <1>6, <1>7 DEF Typed
  <1>9. refl' = RestoredRefl(Over(f), fact') /\ imp' = RestoredImp(Over(f), refl', fact')
    BY <1>1 DEF RestoreOver
  <1>10. refl' \in [Reflections -> ReflRow] /\ imp' \in [Impressions -> ImpRow]
    BY <1>2, <1>9, RestoredRows, RestoredImps
  <1>11. Typed'
    BY <1>1, <1>2, <1>6, <1>8, <1>10 DEF Typed
  <1>12. \A s : s[2] \in Facts /\ Held(s) => Held(s)'
    <2> SUFFICES ASSUME NEW s, s[2] \in Facts, Held(s)
                 PROVE  Held(s)'
      OBVIOUS
    <2>1. s[2] \in untold \/ Valid(fact, s[2], s[3])
      BY <1>1 DEF Held, Current, Done, None
    <2>2. CASE s[2] = f
      BY <1>1, <2>1, <2>2 DEF Held, Current, Valid, Conflicted
    <2>3. CASE s[2] # f
      BY <1>1, <1>6, <2>1, <2>3 DEF Held, Current, Valid
    <2> QED  BY <2>2, <2>3
  <1>13. \A g \in Facts : fact'[g].st = "deleted" => fact[g].st = "deleted"
    BY <1>5, <1>6
  <1> QED  BY <1>1, <1>11, <1>12, <1>13, RestoreStep
----------------------------------------
(* Steps of one reflection or impression *)

\* The facts, and what the jobs hold, stay as they are.
LEMMA FactsFrame ==
  ASSUME IInv, UNCHANGED <<fact, sourced, eligible, offer, untold>>, second = Done, second' = Done,
         refl' \in [Reflections -> ReflRow], imp' \in [Impressions -> ImpRow],
         clash' \subseteq Reflections \X Impressions,
         asked' \subseteq Reflections \X (Impressions \cup {None}),
         vouched' \subseteq Reflections \cup Impressions
  PROVE  /\ Typed' /\ Clearing'
         /\ \A s : Held(s) => Held(s)'
  <1>1. Typed'
    BY DEF IInv, Typed
  <1>2. Clearing'
    BY DEF Clearing, Done, None
  <1>3. \A s : Held(s) => Held(s)'
    BY DEF Held, Current, Valid
  <1> QED  BY <1>1, <1>2, <1>3

\* A reflection changes its status, score or version; who makes it one that
\* may be recalled stands for it.
LEMMA ReflStep ==
  ASSUME IInv, NEW r \in Reflections, Exists(refl[r]), Exists(refl'[r]),
         UNCHANGED <<fact, sourced, eligible, offer, asked, untold, clash, imp>>,
         second = Done, second' = Done,
         refl' \in [Reflections -> ReflRow], \A q \in Reflections \ {r} : refl'[q] = refl[q],
         refl'[r].src = refl[r].src, refl'[r].knows = refl[r].knows,
         vouched \subseteq vouched', vouched' \subseteq vouched \cup {r},
         refl'[r].st \in {"tentative", "confirmed"} =>
           refl[r].st \in {"tentative", "confirmed"} \/ r \in vouched'
  PROVE  IInv'
  <1>1. /\ Typed /\ imp \in [Impressions -> ImpRow] /\ clash \subseteq Reflections \X Impressions
        /\ asked \subseteq Reflections \X (Impressions \cup {None})
        /\ vouched' \subseteq Reflections \cup Impressions
    BY DEF IInv, Typed
  <1>2. Typed' /\ Clearing' /\ \A s : Held(s) => Held(s)'
    BY <1>1, FactsFrame
  <1>3. \A q \in Reflections : /\ refl'[q].src = refl[q].src /\ refl'[q].knows = refl[q].knows
                               /\ (Exists(refl[q])' <=> Exists(refl[q]))
    BY DEF Exists
  <1>4. /\ \A q \in Reflections : \A s \in refl[q].src : s[2] \in Facts
        /\ \A p \in Impressions : \A s \in imp[p].src : s[2] \in Reflections
    BY <1>1, SourceNames
  <1>5. \A q \in Reflections : Exists(refl[q])' =>
          /\ Exists(refl[q]) /\ refl'[q].src = refl[q].src
          /\ refl'[q].knows = refl[q].knows
    BY <1>3
  <1>6. \A p \in Impressions : Exists(imp[p])' => Exists(imp[p])
    BY DEF Exists
  <1>7. \A p \in Impressions : Exists(imp[p]) => \A s \in imp[p].src : Exists(refl[s[2]])'
    BY <1>3, <1>4 DEF IInv, Linked
  <1>8. \A q \in Reflections : refl'[q].st \in {"tentative", "confirmed"} /\ q \notin vouched' =>
          \A s \in refl[q].src : Held(s)'
    BY <1>2 DEF IInv, Supported, Rests
  <1>9. \A p \in Impressions : imp'[p].st = "active" /\ p \notin vouched' =>
          \A s \in imp[p].src : \A t \in refl[s[2]].src : t[1] = s[3] => Held(t)'
    BY <1>2 DEF IInv, Supported, RestsOn
  <1> QED  BY <1>2, <1>5, <1>6, <1>7, <1>8, <1>9, ShrinkStep

LEMMA ImpStep ==
  ASSUME IInv, NEW p \in Impressions, Exists(imp[p]),
         UNCHANGED <<fact, sourced, eligible, offer, asked, untold, clash, refl>>,
         second = Done, second' = Done,
         imp' \in [Impressions -> ImpRow], \A q \in Impressions \ {p} : imp'[q] = imp[q],
         imp'[p].src = imp[p].src, imp'[p].knows = imp[p].knows,
         vouched \subseteq vouched', vouched' \subseteq vouched \cup {p},
         imp'[p].st = "active" => imp[p].st = "active" \/ p \in vouched'
  PROVE  IInv'
  <1>1. /\ Typed /\ refl \in [Reflections -> ReflRow] /\ clash \subseteq Reflections \X Impressions
        /\ asked \subseteq Reflections \X (Impressions \cup {None})
        /\ vouched' \subseteq Reflections \cup Impressions
    BY DEF IInv, Typed
  <1>2. Typed' /\ Clearing' /\ \A s : Held(s) => Held(s)'
    BY <1>1, FactsFrame
  <1>3. \A q \in Impressions : imp'[q].src = imp[q].src /\ imp'[q].knows = imp[q].knows
    OBVIOUS
  <1>4. /\ \A q \in Impressions : Exists(imp[q])' => Exists(imp[q])
        /\ \A r \in Reflections : Exists(refl[r])' <=> Exists(refl[r])
    BY DEF Exists
  <1>5. \A q \in Impressions : \A s \in imp[q].src : s[2] \in Reflections
    BY <1>1, SourceNames
  <1>6. \A q \in Impressions : Exists(imp[q])' =>
          /\ Exists(imp[q]) /\ imp'[q].src = imp[q].src /\ imp'[q].knows = imp[q].knows
          /\ \A s \in imp[q].src : Exists(refl[s[2]])'
    BY <1>3, <1>4, <1>5 DEF IInv, Linked
  <1>7. \A r \in Reflections : refl'[r].st \in {"tentative", "confirmed"} /\ r \notin vouched' =>
          \A s \in refl[r].src : Held(s)'
    BY <1>2 DEF IInv, Supported, Rests
  <1>8. \A q \in Impressions : imp'[q].st = "active" /\ q \notin vouched' =>
          \A s \in imp[q].src : \A t \in refl[s[2]].src : t[1] = s[3] => Held(t)'
    BY <1>2 DEF IInv, Supported, RestsOn
  <1> QED  BY <1>2, <1>4, <1>6, <1>7, <1>8, ShrinkStep

LEMMA ReflRows ==
  ASSUME Typed, NEW r \in Reflections
  PROVE  refl[r] \in ReflRow /\ refl[r].st \in Statuses /\ refl[r].score \in Int /\ refl[r].cur \in Nat
  BY DEF Typed, ReflRow

LEMMA ImpRows ==
  ASSUME Typed, NEW p \in Impressions
  PROVE  imp[p] \in ImpRow /\ imp[p].st \in ImpStatuses /\ imp[p].score \in Int /\ imp[p].cur \in Nat
  BY DEF Typed, ImpRow

LEMMA ScoredIsInt ==
  ASSUME NEW score \in Int, NEW kind, NEW after \in Scored(kind, score)
  PROVE  after \in Int
  BY DEF Scored, Up, Down

\* One status or score of a row is set.
LEMMA SetRefl ==
  ASSUME Typed, NEW r \in Reflections, NEW st \in Statuses, NEW score \in Int,
         refl' = [refl EXCEPT ![r].score = score, ![r].st = st]
  PROVE  /\ refl' \in [Reflections -> ReflRow] /\ \A q \in Reflections \ {r} : refl'[q] = refl[q]
         /\ refl'[r].src = refl[r].src /\ refl'[r].knows = refl[r].knows
         /\ refl'[r].st = st
  <1>1. refl \in [Reflections -> ReflRow] /\ refl[r] \in ReflRow
    BY DEF Typed
  <1> QED  BY <1>1 DEF ReflRow

LEMMA SetImp ==
  ASSUME Typed, NEW p \in Impressions, NEW st \in ImpStatuses, NEW score \in Int,
         imp' = [imp EXCEPT ![p].score = score, ![p].st = st]
  PROVE  /\ imp' \in [Impressions -> ImpRow] /\ \A q \in Impressions \ {p} : imp'[q] = imp[q]
         /\ imp'[p].src = imp[p].src /\ imp'[p].knows = imp[p].knows /\ imp'[p].st = st
  <1>1. imp \in [Impressions -> ImpRow] /\ imp[p] \in ImpRow
    BY DEF Typed
  <1> QED  BY <1>1 DEF ImpRow

LEMMA SignalReflStep ==
  ASSUME IInv, NEW r \in Reflections, NEW kind \in Kinds, SignalRefl(r, kind)
  PROVE  IInv'
  <1>1. /\ Exists(refl[r]) /\ second = Done /\ second' = Done
        /\ UNCHANGED <<fact, sourced, eligible, offer, asked, untold, clash, imp>>
    BY DEF SignalRefl, Free, NoFacts, factVars, jobs
  <1>2. PICK score \in Scored(kind, refl[r].score), deny \in BOOLEAN :
          LET st == IF deny THEN "denied" ELSE AfterSignal(refl[r], kind, score, "confirmed") IN
          /\ refl' = [refl EXCEPT ![r].score = score, ![r].st = st]
          /\ Vouch(r, refl[r].st, st)
    BY DEF SignalRefl
  <1> DEFINE st == IF deny THEN "denied" ELSE AfterSignal(refl[r], kind, score, "confirmed")
  <1>3. Typed
    BY DEF IInv
  <1>4. refl[r].st \in Statuses /\ score \in Int
    BY <1>3, ReflRows, ScoredIsInt
  <1>5. /\ st \in Statuses /\ st \notin {None, "deleted"}
        /\ st \in {"tentative", "confirmed"} =>
             refl[r].st \in {"tentative", "confirmed"} \/ (refl[r].st = "disputed" /\ st # "disputed")
    BY <1>1, <1>4 DEF AfterSignal, Statuses, Exists, None, Kinds
  <1>6. refl' = [refl EXCEPT ![r].score = score, ![r].st = st] /\ Vouch(r, refl[r].st, st)
    BY <1>2
  <1> HIDE DEF st
  <1>7. /\ vouched \subseteq vouched' /\ vouched' \subseteq vouched \cup {r}
        /\ refl[r].st = "disputed" /\ st # "disputed" => r \in vouched'
    BY <1>6 DEF Vouch
  <1>8. /\ refl' \in [Reflections -> ReflRow] /\ \A q \in Reflections \ {r} : refl'[q] = refl[q]
        /\ refl'[r].src = refl[r].src /\ refl'[r].knows = refl[r].knows
        /\ refl'[r].st = st
    BY <1>3, <1>4, <1>5, <1>6, SetRefl
  <1>9. Exists(refl'[r])
    BY <1>5, <1>8 DEF Exists
  <1> QED  BY <1>1, <1>5, <1>7, <1>8, <1>9, ReflStep

LEMMA SignalImpStep ==
  ASSUME IInv, NEW p \in Impressions, NEW kind \in Kinds, SignalImp(p, kind)
  PROVE  IInv'
  <1>1. /\ Exists(imp[p]) /\ second = Done /\ second' = Done
        /\ UNCHANGED <<fact, sourced, eligible, offer, asked, untold, clash, refl>>
    BY DEF SignalImp, Free, NoFacts, factVars, jobs
  <1>2. PICK score \in Scored(kind, imp[p].score), deny \in BOOLEAN :
          LET st == IF deny THEN "denied" ELSE AfterSignal(imp[p], kind, score, "active") IN
          /\ imp' = [imp EXCEPT ![p].score = score, ![p].st = st]
          /\ Vouch(p, imp[p].st, st)
    BY DEF SignalImp
  <1> DEFINE st == IF deny THEN "denied" ELSE AfterSignal(imp[p], kind, score, "active")
  <1>3. Typed
    BY DEF IInv
  <1>4. imp[p].st \in ImpStatuses /\ score \in Int
    BY <1>3, ImpRows, ScoredIsInt
  <1>5. /\ st \in ImpStatuses
        /\ st = "active" => imp[p].st = "active" \/ (imp[p].st = "disputed" /\ st # "disputed")
    BY <1>1, <1>4 DEF AfterSignal, ImpStatuses, Exists, None, Kinds
  <1>6. imp' = [imp EXCEPT ![p].score = score, ![p].st = st] /\ Vouch(p, imp[p].st, st)
    BY <1>2
  <1> HIDE DEF st
  <1>7. /\ vouched \subseteq vouched' /\ vouched' \subseteq vouched \cup {p}
        /\ imp[p].st = "disputed" /\ st # "disputed" => p \in vouched'
    BY <1>6 DEF Vouch
  <1>8. /\ imp' \in [Impressions -> ImpRow] /\ \A q \in Impressions \ {p} : imp'[q] = imp[q]
        /\ imp'[p].src = imp[p].src /\ imp'[p].knows = imp[p].knows /\ imp'[p].st = st
    BY <1>3, <1>4, <1>5, <1>6, SetImp
  <1> QED  BY <1>1, <1>5, <1>7, <1>8, ImpStep

LEMMA FadeReflStep ==
  ASSUME IInv, NEW r \in Reflections, FadeRefl(r)
  PROVE  IInv'
  <1>1. /\ Exists(refl[r]) /\ second = Done /\ second' = Done
        /\ UNCHANGED <<fact, sourced, eligible, offer, asked, untold, clash, imp>>
        /\ refl' = [refl EXCEPT ![r].score = Toward0(@)]
        /\ vouched' = vouched
    BY DEF FadeRefl, Free, NoFacts, factVars, jobs
  <1>2. refl \in [Reflections -> ReflRow] /\ refl[r] \in ReflRow /\ refl[r].score \in Int
    BY ReflRows DEF IInv, Typed
  <1>3. Toward0(refl[r].score) \in Int
    BY <1>2 DEF Toward0
  <1>4. /\ refl' \in [Reflections -> ReflRow] /\ \A q \in Reflections \ {r} : refl'[q] = refl[q]
        /\ refl'[r].src = refl[r].src /\ refl'[r].knows = refl[r].knows
        /\ refl'[r].st = refl[r].st
    BY <1>1, <1>2, <1>3 DEF ReflRow, Statuses
  <1>5. Exists(refl'[r])
    BY <1>1, <1>4 DEF Exists, None
  <1> QED  BY <1>1, <1>4, <1>5, ReflStep

LEMMA FadeImpStep ==
  ASSUME IInv, NEW p \in Impressions, FadeImp(p)
  PROVE  IInv'
  <1>1. /\ Exists(imp[p]) /\ second = Done /\ second' = Done
        /\ UNCHANGED <<fact, sourced, eligible, offer, asked, untold, clash, refl>>
        /\ imp' = [imp EXCEPT ![p].score = Toward0(@)]
        /\ vouched' = vouched
    BY DEF FadeImp, Free, NoFacts, factVars, jobs
  <1>2. imp \in [Impressions -> ImpRow] /\ imp[p] \in ImpRow /\ imp[p].score \in Int
    BY ImpRows DEF IInv, Typed
  <1>3. Toward0(imp[p].score) \in Int
    BY <1>2 DEF Toward0
  <1>4. /\ imp' \in [Impressions -> ImpRow] /\ \A q \in Impressions \ {p} : imp'[q] = imp[q]
        /\ imp'[p].src = imp[p].src /\ imp'[p].knows = imp[p].knows /\ imp'[p].st = imp[p].st
    BY <1>1, <1>2, <1>3 DEF ImpRow, ImpStatuses
  <1> QED  BY <1>1, <1>4, ImpStep

LEMMA ArchiveReflStep ==
  ASSUME IInv, NEW r \in Reflections, ArchiveRefl(r)
  PROVE  IInv'
  <1>1. /\ Exists(refl[r]) /\ second = Done /\ second' = Done
        /\ UNCHANGED <<fact, sourced, eligible, offer, asked, untold, clash, imp>>
        /\ refl' = [refl EXCEPT ![r].st = "archived"]
        /\ vouched' = vouched
    BY DEF ArchiveRefl, Free, NoFacts, factVars, jobs
  <1>2. refl \in [Reflections -> ReflRow] /\ refl[r] \in ReflRow /\ refl[r].score \in Int
    BY ReflRows DEF IInv, Typed
  <1>4. /\ refl' \in [Reflections -> ReflRow] /\ \A q \in Reflections \ {r} : refl'[q] = refl[q]
        /\ refl'[r].src = refl[r].src /\ refl'[r].knows = refl[r].knows
        /\ refl'[r].st = "archived"
    BY <1>1, <1>2 DEF ReflRow, Statuses
  <1>5. Exists(refl'[r])
    BY <1>1, <1>4 DEF Exists, None
  <1> QED  BY <1>1, <1>4, <1>5, ReflStep

LEMMA ArchiveImpStep ==
  ASSUME IInv, NEW p \in Impressions, ArchiveImp(p)
  PROVE  IInv'
  <1>1. /\ Exists(imp[p]) /\ second = Done /\ second' = Done
        /\ UNCHANGED <<fact, sourced, eligible, offer, asked, untold, clash, refl>>
        /\ imp' = [imp EXCEPT ![p].st = "archived"]
        /\ vouched' = vouched
    BY DEF ArchiveImp, Free, NoFacts, factVars, jobs
  <1>2. imp \in [Impressions -> ImpRow] /\ imp[p] \in ImpRow /\ imp[p].score \in Int
    BY ImpRows DEF IInv, Typed
  <1>4. /\ imp' \in [Impressions -> ImpRow] /\ \A q \in Impressions \ {p} : imp'[q] = imp[q]
        /\ imp'[p].src = imp[p].src /\ imp'[p].knows = imp[p].knows /\ imp'[p].st = "archived"
    BY <1>1, <1>2 DEF ImpRow, ImpStatuses
  <1> QED  BY <1>1, <1>4, ImpStep

LEMMA RestoreReflStep ==
  ASSUME IInv, NEW r \in Reflections, RestoreRefl(r)
  PROVE  IInv'
  <1>1. /\ Exists(refl[r]) /\ second = Done /\ second' = Done
        /\ UNCHANGED <<fact, sourced, eligible, offer, asked, untold, clash, imp>>
        /\ refl' = [refl EXCEPT ![r].st = IF refl[r].score >= 1 THEN "confirmed" ELSE "tentative"]
        /\ vouched' = vouched \cup {r}
    BY DEF RestoreRefl, Free, NoFacts, factVars, jobs
  <1>2. refl \in [Reflections -> ReflRow] /\ refl[r] \in ReflRow /\ refl[r].score \in Int
    BY ReflRows DEF IInv, Typed
  <1>4. /\ refl' \in [Reflections -> ReflRow] /\ \A q \in Reflections \ {r} : refl'[q] = refl[q]
        /\ refl'[r].src = refl[r].src /\ refl'[r].knows = refl[r].knows
        /\ refl'[r].st \in {"tentative", "confirmed"}
    BY <1>1, <1>2 DEF ReflRow, Statuses
  <1>5. Exists(refl'[r])
    BY <1>1, <1>4 DEF Exists, None
  <1> QED  BY <1>1, <1>4, <1>5, ReflStep

LEMMA RestoreImpStep ==
  ASSUME IInv, NEW p \in Impressions, RestoreImp(p)
  PROVE  IInv'
  <1>1. /\ Exists(imp[p]) /\ second = Done /\ second' = Done
        /\ UNCHANGED <<fact, sourced, eligible, offer, asked, untold, clash, refl>>
        /\ imp' = [imp EXCEPT ![p].st = "active"]
        /\ vouched' = vouched \cup {p}
    BY DEF RestoreImp, Free, NoFacts, factVars, jobs
  <1>2. imp \in [Impressions -> ImpRow] /\ imp[p] \in ImpRow /\ imp[p].score \in Int
    BY ImpRows DEF IInv, Typed
  <1>4. /\ imp' \in [Impressions -> ImpRow] /\ \A q \in Impressions \ {p} : imp'[q] = imp[q]
        /\ imp'[p].src = imp[p].src /\ imp'[p].knows = imp[p].knows /\ imp'[p].st = "active"
    BY <1>1, <1>2 DEF ImpRow, ImpStatuses
  <1> QED  BY <1>1, <1>4, ImpStep

LEMMA EditedImp ==
  ASSUME NEW row \in ImpRow, NEW n \in Nat
  PROVE  LET new == [row EXCEPT !.cur = n, !.score = 0] IN
         new \in ImpRow /\ new.src = row.src /\ new.knows = row.knows /\ new.st = row.st
  <1> DEFINE mid == [row EXCEPT !.cur = n]
             new == [mid EXCEPT !.score = 0]
  <1>1. mid \in ImpRow /\ mid.src = row.src /\ mid.knows = row.knows /\ mid.st = row.st
    BY DEF ImpRow
  <1> HIDE DEF mid
  <1>2. new \in ImpRow /\ new.src = mid.src /\ new.knows = mid.knows /\ new.st = mid.st
    BY <1>1 DEF ImpRow
  <1>3. new = [row EXCEPT !.cur = n, !.score = 0]
    BY Zenon DEF mid
  <1> QED  BY <1>1, <1>2, <1>3

LEMMA EditedRefl ==
  ASSUME NEW row \in ReflRow, NEW n \in Nat
  PROVE  LET new == [row EXCEPT !.cur = n, !.score = 0, !.live = {}] IN
         /\ new \in ReflRow /\ new.src = row.src /\ new.knows = row.knows
         /\ new.st = row.st
  <1> DEFINE mid == [row EXCEPT !.cur = n]
             then == [mid EXCEPT !.score = 0]
             new == [then EXCEPT !.live = {}]
  <1>1. /\ mid \in ReflRow /\ mid.src = row.src /\ mid.knows = row.knows
        /\ mid.st = row.st
    BY DEF ReflRow
  <1>2. new = [row EXCEPT !.cur = n, !.score = 0, !.live = {}]
    BY Zenon DEF mid, then
  <1> HIDE DEF mid
  <1>3. /\ then \in ReflRow /\ then.src = mid.src /\ then.knows = mid.knows
        /\ then.st = mid.st
    BY <1>1 DEF ReflRow
  <1> HIDE DEF then
  <1>4. /\ new \in ReflRow /\ new.src = then.src /\ new.knows = then.knows
        /\ new.st = then.st
    BY <1>3 DEF ReflRow
  <1> HIDE DEF new
  <1> QED  BY <1>1, <1>2, <1>3, <1>4

LEMMA EditImpStep ==
  ASSUME IInv, NEW p \in Impressions, EditImp(p)
  PROVE  IInv'
  <1>1. /\ Exists(imp[p]) /\ second = Done /\ second' = Done
        /\ UNCHANGED <<fact, sourced, eligible, offer, asked, untold, clash, refl>>
        /\ imp' = [imp EXCEPT ![p].cur = @ + 1, ![p].score = 0]
        /\ vouched' = vouched
    BY DEF EditImp, Free, NoFacts, factVars, jobs
  <1>2. imp \in [Impressions -> ImpRow] /\ imp[p] \in ImpRow /\ imp[p].score \in Int
    BY ImpRows DEF IInv, Typed
  <1>3. imp[p].cur + 1 \in Nat
    BY ImpRows DEF IInv
  <1>5. imp' = [imp EXCEPT ![p] = [imp[p] EXCEPT !.cur = imp[p].cur + 1, !.score = 0]]
    BY <1>1, <1>2
  <1>4. /\ imp' \in [Impressions -> ImpRow] /\ \A q \in Impressions \ {p} : imp'[q] = imp[q]
        /\ imp'[p].src = imp[p].src /\ imp'[p].knows = imp[p].knows /\ imp'[p].st = imp[p].st
    <2> DEFINE row == [imp[p] EXCEPT !.cur = imp[p].cur + 1, !.score = 0]
    <2>1. row.src = imp[p].src /\ row.knows = imp[p].knows /\ row.st = imp[p].st /\ row \in ImpRow
      BY <1>2, <1>3, EditedImp
    <2>2. imp' = [imp EXCEPT ![p] = row]
      BY <1>5
    <2> HIDE DEF row
    <2> QED  BY <1>2, <2>1, <2>2
  <1> QED  BY <1>1, <1>4, ImpStep

\* The user edits a reflection: what rests on it is suppressed with it.
LEMMA EditReflStep ==
  ASSUME IInv, NEW r \in Reflections, EditRefl(r)
  PROVE  IInv'
  <1> DEFINE now == SuppressedRefl({r})
  <1>1. /\ Exists(refl[r]) /\ second = Done /\ second' = Done
        /\ refl' = [now EXCEPT ![r].cur = @ + 1, ![r].score = 0, ![r].live = {}]
        /\ imp' = SuppressedImp({r}) /\ vouched' = vouched \ ({r} \cup From({r}))
        /\ UNCHANGED <<fact, sourced, eligible, offer, asked, untold, clash>>
    BY DEF EditRefl, Free, NoFacts, factVars, jobs
  <1>2. Typed /\ {r} \in SUBSET Reflections
    BY DEF IInv
  <1>3. /\ now \in [Reflections -> ReflRow] /\ imp' \in [Impressions -> ImpRow]
        /\ \A q \in Reflections :
             /\ now[q].src = refl[q].src /\ now[q].knows = refl[q].knows
             /\ (Exists(now[q]) <=> Exists(refl[q]))
             /\ now[q].st \in {"tentative", "confirmed"} => q # r /\ now[q] = refl[q]
        /\ \A p \in Impressions :
             /\ imp'[p].src = imp[p].src /\ imp'[p].knows = imp[p].knows
             /\ (Exists(imp[p])' <=> Exists(imp[p]))
             /\ imp'[p].st = "active" => p \notin From({r}) /\ imp'[p] = imp[p]
    <2> DEFINE then == SuppressedImp({r})
    <2>1. /\ now \in [Reflections -> ReflRow]
          /\ \A q \in Reflections :
               /\ now[q].src = refl[q].src /\ now[q].knows = refl[q].knows
               /\ (Exists(now[q]) <=> Exists(refl[q]))
               /\ now[q].st \in {"tentative", "confirmed"} => q # r /\ now[q] = refl[q]
      BY <1>2, SuppressedRows
    <2>2. /\ then \in [Impressions -> ImpRow]
          /\ \A p \in Impressions :
               /\ then[p].src = imp[p].src /\ then[p].knows = imp[p].knows
               /\ (Exists(then[p]) <=> Exists(imp[p]))
               /\ then[p].st = "active" => p \notin From({r}) /\ then[p] = imp[p]
      BY <1>2, SuppressedRows
    <2>3. imp' = then
      BY <1>1
    <2> HIDE DEF now, then
    <2> QED  BY <2>1, <2>2, <2>3 DEF Exists
  <1> HIDE DEF now
  <1>4. now[r] \in ReflRow /\ now[r].cur + 1 \in Nat
    BY <1>3 DEF ReflRow
  <1>5. /\ refl' \in [Reflections -> ReflRow] /\ \A q \in Reflections \ {r} : refl'[q] = now[q]
        /\ refl'[r].src = now[r].src /\ refl'[r].knows = now[r].knows
        /\ refl'[r].st = now[r].st
    <2> DEFINE row == [now[r] EXCEPT !.cur = now[r].cur + 1, !.score = 0, !.live = {}]
    <2>1. refl' = [now EXCEPT ![r] = row]
      BY <1>1, <1>3
    <2>2. row \in ReflRow
      BY <1>4, EditedRefl
    <2>3. /\ row.src = now[r].src /\ row.knows = now[r].knows
          /\ row.st = now[r].st
      BY <1>4, EditedRefl
    <2> HIDE DEF row
    <2> QED  BY <1>3, <2>1, <2>2, <2>3
  <1>6. \A q \in Reflections :
          /\ refl'[q].src = refl[q].src /\ refl'[q].knows = refl[q].knows
          /\ (Exists(refl[q])' <=> Exists(refl[q]))
          /\ refl'[q].st \in {"tentative", "confirmed"} => q # r /\ refl'[q] = refl[q]
    <2> SUFFICES ASSUME NEW q \in Reflections
                 PROVE  /\ refl'[q].src = refl[q].src /\ refl'[q].knows = refl[q].knows
                        /\ refl'[q].st = now[q].st
                        /\ (refl'[q].st \in {"tentative", "confirmed"} => q # r /\ refl'[q] = refl[q])
      BY <1>3 DEF Exists
    <2> QED  BY <1>3, <1>5
  <1>7. clash' \subseteq Reflections \X Impressions /\ vouched' \subseteq Reflections \cup Impressions
        /\ asked' \subseteq Reflections \X (Impressions \cup {None})
    BY <1>1, <1>2 DEF Typed
  <1>8. Typed' /\ Clearing' /\ \A s : Held(s) => Held(s)'
    BY <1>1, <1>3, <1>5, <1>7, FactsFrame
  <1>9. /\ \A p \in Impressions : \A s \in imp[p].src : s[2] \in Reflections
        /\ Reflections \cap Impressions = {}
    BY <1>2, SourceNames, Assumed DEF Parameters
  <1>10. \A q \in Reflections : refl'[q].st \in {"tentative", "confirmed"} /\ q \notin vouched' =>
           \A s \in refl[q].src : Held(s)'
    <2> SUFFICES ASSUME NEW q \in Reflections, refl'[q].st \in {"tentative", "confirmed"},
                        q \notin vouched', NEW s \in refl[q].src
                 PROVE  Held(s)
      BY <1>8
    <2>1. q # r /\ refl'[q] = refl[q] /\ q \notin From({r})
      BY <1>6, <1>9 DEF From
    <2>2. q \notin vouched
      BY <1>1, <2>1
    <2> QED  BY <2>1, <2>2 DEF IInv, Supported, Rests
  <1>11. \A p \in Impressions : imp'[p].st = "active" /\ p \notin vouched' =>
           \A s \in imp[p].src : \A t \in refl[s[2]].src : t[1] = s[3] => Held(t)'
    <2> SUFFICES ASSUME NEW p \in Impressions, imp'[p].st = "active", p \notin vouched',
                        NEW s \in imp[p].src, NEW t \in refl[s[2]].src, t[1] = s[3]
                 PROVE  Held(t)
      BY <1>8
    <2>1. p # r /\ imp'[p] = imp[p] /\ p \notin From({r})
      BY <1>3, <1>9
    <2>2. p \notin vouched
      BY <1>1, <2>1
    <2> QED  BY <2>1, <2>2 DEF IInv, Supported, RestsOn
  <1>12. \A q \in Reflections : Exists(refl[q])' =>
           /\ Exists(refl[q]) /\ refl'[q].src = refl[q].src
           /\ refl'[q].knows = refl[q].knows
    BY <1>6
  <1>13. \A p \in Impressions : Exists(imp[p])' =>
           /\ Exists(imp[p]) /\ imp'[p].src = imp[p].src /\ imp'[p].knows = imp[p].knows
           /\ \A s \in imp[p].src : Exists(refl[s[2]])'
    BY <1>3, <1>6, <1>9 DEF IInv, Linked
  <1> QED  BY <1>1, <1>8, <1>10, <1>11, <1>12, <1>13, ShrinkStep

\* The answer is that a reflection contradicts an impression: both are disputed.
LEMMA PromotionConflictStep ==
  ASSUME IInv, NEW r \in Reflections, NEW p \in Impressions, PromotionConflict(r, p)
  PROVE  IInv'
  <1>1. /\ Exists(refl[r]) /\ Exists(imp[p]) /\ second = Done /\ second' = Done
        /\ clash' = clash \cup {<<r, p>>} /\ asked' = {} /\ vouched' = vouched \ {r, p}
        /\ refl' = [refl EXCEPT ![r].st = "disputed"] /\ imp' = [imp EXCEPT ![p].st = "disputed"]
        /\ UNCHANGED <<fact, sourced, eligible, offer, untold>>
    BY DEF PromotionConflict, Free, NoFacts, Answered, factVars
  <1>2. /\ refl \in [Reflections -> ReflRow] /\ refl[r] \in ReflRow
        /\ imp \in [Impressions -> ImpRow] /\ imp[p] \in ImpRow /\ Typed
    BY DEF IInv, Typed
  <1>3. /\ refl' \in [Reflections -> ReflRow] /\ \A q \in Reflections \ {r} : refl'[q] = refl[q]
        /\ refl'[r].src = refl[r].src /\ refl'[r].knows = refl[r].knows
        /\ refl'[r].st = "disputed"
    BY <1>1, <1>2 DEF ReflRow, Statuses
  <1>4. /\ imp' \in [Impressions -> ImpRow] /\ \A q \in Impressions \ {p} : imp'[q] = imp[q]
        /\ imp'[p].src = imp[p].src /\ imp'[p].knows = imp[p].knows /\ imp'[p].st = "disputed"
    BY <1>1, <1>2 DEF ImpRow, ImpStatuses
  <1>5. clash' \subseteq Reflections \X Impressions /\ vouched' \subseteq Reflections \cup Impressions
        /\ asked' \subseteq Reflections \X (Impressions \cup {None})
    BY <1>1, <1>2 DEF Typed
  <1>6. Typed' /\ Clearing' /\ \A s : Held(s) => Held(s)'
    BY <1>1, <1>3, <1>4, <1>5, FactsFrame
  <1>7. /\ \A q \in Impressions : \A s \in imp[q].src : s[2] \in Reflections
        /\ Reflections \cap Impressions = {}
    BY <1>2, SourceNames, Assumed DEF Parameters
  <1>8. /\ \A q \in Reflections : Exists(refl[q])' <=> Exists(refl[q])
        /\ \A q \in Impressions : Exists(imp[q])' <=> Exists(imp[q])
    BY <1>1, <1>3, <1>4 DEF Exists, None
  <1>9. \A q \in Reflections : Exists(refl[q])' =>
           /\ Exists(refl[q]) /\ refl'[q].src = refl[q].src
           /\ refl'[q].knows = refl[q].knows
    BY <1>3, <1>8
  <1>10. \A q \in Impressions : Exists(imp[q])' =>
           /\ Exists(imp[q]) /\ imp'[q].src = imp[q].src /\ imp'[q].knows = imp[q].knows
           /\ \A s \in imp[q].src : Exists(refl[s[2]])'
    BY <1>4, <1>7, <1>8 DEF IInv, Linked
  <1>11. \A q \in Reflections : refl'[q].st \in {"tentative", "confirmed"} /\ q \notin vouched' =>
           \A s \in refl[q].src : Held(s)'
    <2> SUFFICES ASSUME NEW q \in Reflections, refl'[q].st \in {"tentative", "confirmed"},
                        q \notin vouched', NEW s \in refl[q].src
                 PROVE  Held(s)
      BY <1>6
    <2>1. q # r /\ q # p
      BY <1>3, <1>7
    <2> QED  BY <1>1, <1>3, <2>1 DEF IInv, Supported, Rests
  <1>12. \A q \in Impressions : imp'[q].st = "active" /\ q \notin vouched' =>
           \A s \in imp[q].src : \A t \in refl[s[2]].src : t[1] = s[3] => Held(t)'
    <2> SUFFICES ASSUME NEW q \in Impressions, imp'[q].st = "active", q \notin vouched',
                        NEW s \in imp[q].src, NEW t \in refl[s[2]].src, t[1] = s[3]
                 PROVE  Held(t)
      BY <1>6
    <2>1. q # r /\ q # p
      BY <1>4, <1>7
    <2> QED  BY <1>1, <1>4, <2>1 DEF IInv, Supported, RestsOn
  <1> QED  BY <1>1, <1>6, <1>9, <1>10, <1>11, <1>12, ShrinkStep
----------------------------------------
(* Deletions *)

LEMMA DeletedRows ==
  ASSUME Typed, NEW rs, NEW ps, Deleted(rs, ps)
  PROVE  /\ refl' \in [Reflections -> ReflRow] /\ imp' \in [Impressions -> ImpRow]
         /\ \A r \in Reflections : IF r \in rs THEN refl'[r].st = "deleted" ELSE refl'[r] = refl[r]
         /\ \A p \in Impressions : IF p \in ps THEN imp'[p].st = "deleted" ELSE imp'[p] = imp[p]
  <1> DEFINE noRefl == [NoRefl EXCEPT !.st = "deleted"]
             noImp == [NoImp EXCEPT !.st = "deleted"]
  <1>1. NoRefl \in ReflRow /\ NoImp \in ImpRow
    BY DEF NoRefl, NoImp, ReflRow, ImpRow, Statuses, ImpStatuses
  <1>2. /\ noRefl \in ReflRow /\ noRefl.st = "deleted" /\ noImp \in ImpRow /\ noImp.st = "deleted"
    BY <1>1 DEF ReflRow, ImpRow, Statuses, ImpStatuses
  <1>3. /\ refl' = [r \in Reflections |-> IF r \in rs THEN noRefl ELSE refl[r]]
        /\ imp' = [p \in Impressions |-> IF p \in ps THEN noImp ELSE imp[p]]
    BY DEF Deleted
  <1>4. refl \in [Reflections -> ReflRow] /\ imp \in [Impressions -> ImpRow]
    BY DEF Typed
  <1> HIDE DEF noRefl, noImp
  <1> QED  BY <1>2, <1>3, <1>4

\* Reflections go, and with them at least what rests on them.
LEMMA DeleteStep ==
  ASSUME IInv, NEW rs \in SUBSET Reflections, NEW ps \in SUBSET Impressions,
         From(rs) \subseteq ps, Deleted(rs, ps), Typed', Clearing', vouched' = vouched,
         \A r \in Reflections \ rs : Exists(refl[r]) => \A s \in refl[r].src : Held(s) => Held(s)',
         \A f \in Facts : fact'[f].st = "deleted" =>
           \/ fact[f].st = "deleted"
           \/ \A r \in Reflections \ rs : Exists(refl[r]) => \A s \in refl[r].src : s[2] # f
  PROVE  IInv'
  <1>1. Typed
    BY DEF IInv
  <1>2. /\ \A r \in Reflections : IF r \in rs THEN refl'[r].st = "deleted" ELSE refl'[r] = refl[r]
        /\ \A p \in Impressions : IF p \in ps THEN imp'[p].st = "deleted" ELSE imp'[p] = imp[p]
    BY <1>1, DeletedRows
  <1>3. /\ \A r \in Reflections : Exists(refl[r])' => r \notin rs /\ refl'[r] = refl[r] /\ Exists(refl[r])
        /\ \A p \in Impressions : Exists(imp[p])' => p \notin ps /\ imp'[p] = imp[p] /\ Exists(imp[p])
    BY <1>2 DEF Exists
  <1>4. \A p \in Impressions \ ps : \A s \in imp[p].src : s[2] \in Reflections \ rs
    BY <1>1, SourceNames DEF From
  <1>5. \A r \in Reflections : Exists(refl[r])' =>
           /\ Exists(refl[r]) /\ refl'[r].src = refl[r].src
           /\ refl'[r].knows = refl[r].knows
    BY <1>3
  <1>6. \A p \in Impressions : Exists(imp[p])' =>
           /\ Exists(imp[p]) /\ imp'[p].src = imp[p].src /\ imp'[p].knows = imp[p].knows
           /\ \A s \in imp[p].src : Exists(refl[s[2]])'
    <2> SUFFICES ASSUME NEW p \in Impressions, Exists(imp[p])', NEW s \in imp[p].src
                 PROVE  Exists(refl[s[2]])'
      BY <1>3
    <2>1. Exists(refl[s[2]]) /\ s[2] \in Reflections \ rs
      BY <1>3, <1>4 DEF IInv, Linked
    <2>2. refl'[s[2]] = refl[s[2]]
      BY <1>2, <2>1
    <2> QED  BY <2>1, <2>2 DEF Exists
  <1>7. \A r \in Reflections : refl'[r].st \in {"tentative", "confirmed"} /\ r \notin vouched' =>
           \A s \in refl[r].src : Held(s)'
    <2> SUFFICES ASSUME NEW r \in Reflections, refl'[r].st \in {"tentative", "confirmed"},
                        r \notin vouched', NEW s \in refl[r].src
                 PROVE  Held(s)'
      OBVIOUS
    <2>1. r \notin rs /\ refl'[r] = refl[r] /\ Exists(refl[r])
      BY <1>3 DEF Exists, None
    <2>2. Held(s)
      BY <2>1 DEF IInv, Supported, Rests
    <2> QED  BY <2>1, <2>2
  <1>8. \A p \in Impressions : imp'[p].st = "active" /\ p \notin vouched' =>
           \A s \in imp[p].src : \A t \in refl[s[2]].src : t[1] = s[3] => Held(t)'
    <2> SUFFICES ASSUME NEW p \in Impressions, imp'[p].st = "active", p \notin vouched',
                        NEW s \in imp[p].src, NEW t \in refl[s[2]].src, t[1] = s[3]
                 PROVE  Held(t)'
      OBVIOUS
    <2>1. p \notin ps /\ imp'[p] = imp[p] /\ Exists(imp[p])
      BY <1>3 DEF Exists, None
    <2>2. Exists(refl[s[2]]) /\ s[2] \in Reflections \ rs
      BY <1>4, <2>1 DEF IInv, Linked
    <2>3. Held(t)
      BY <2>1 DEF IInv, Supported, RestsOn
    <2> QED  BY <2>2, <2>3
  <1>9. \A f \in Facts : fact'[f].st = "deleted" =>
           \/ fact[f].st = "deleted"
           \/ \A r \in Reflections : Exists(refl[r])' => \A s \in refl[r].src : s[2] # f
    BY <1>3
  <1> QED  BY <1>5, <1>6, <1>7, <1>8, <1>9, ShrinkStep

\* No rows are left of the facts.
LEMMA NoRowsTyped ==
  ASSUME Typed, NEW fs, NoRows(fs)
  PROVE  /\ fact' \in [Facts -> FactRow] /\ sourced' \subseteq FactVersions
         /\ eligible' \subseteq FactVersions
         /\ \A f \in Facts : Bounded(fact'[f])
         /\ \A f \in Facts : IF f \in fs THEN fact'[f].st = "deleted" ELSE fact'[f] = fact[f]
  <1> DEFINE row == [NoFact EXCEPT !.st = "deleted"]
  <1>1. NoFact \in FactRow
    BY Assumed DEF Parameters, NoFact, FactRow
  <1>2. NoFact.cur = 0 /\ NoFact.top = 0 /\ NoFact.inc = 0 /\ NoFact.chal = 0
    BY DEF NoFact
  <1>3. /\ row \in FactRow /\ row.st = "deleted"
        /\ row.cur = 0 /\ row.top = 0 /\ row.inc = 0 /\ row.chal = 0
    BY <1>1, <1>2 DEF FactRow
  <1>4. /\ fact' = [f \in Facts |-> IF f \in fs THEN row ELSE fact[f]]
        /\ sourced' \subseteq sourced /\ eligible' \subseteq eligible
    BY DEF NoRows
  <1>5. /\ fact \in [Facts -> FactRow] /\ \A f \in Facts : Bounded(fact[f])
        /\ sourced \subseteq FactVersions /\ eligible \subseteq FactVersions
    BY DEF Typed
  <1>6. Bounded(row)
    BY <1>3 DEF Bounded, Exists
  <1> HIDE DEF row
  <1> QED  BY <1>3, <1>4, <1>5, <1>6

LEMMA DeleteFactStep ==
  ASSUME IInv, NEW f \in Facts, DeleteFact(f)
  PROVE  IInv'
  <1> DEFINE rs == Over(f)
  <1>1. /\ NoRows({f}) /\ Deleted(rs, From(rs)) /\ clash' \subseteq clash
        /\ second = Done /\ second' = Done
        /\ UNCHANGED <<offer, asked, vouched, untold>>
    BY DEF DeleteFact, Free, jobs
  <1>2. /\ Typed /\ rs \in SUBSET Reflections /\ From(rs) \in SUBSET Impressions
        /\ \A r \in Reflections \ rs : \A s \in refl[r].src : s[2] # f
    BY OverFact DEF IInv
  <1> HIDE DEF rs
  <1>3. /\ fact' \in [Facts -> FactRow] /\ sourced' \subseteq FactVersions
        /\ eligible' \subseteq FactVersions /\ \A g \in Facts : Bounded(fact'[g])
        /\ \A g \in Facts : IF g \in {f} THEN fact'[g].st = "deleted" ELSE fact'[g] = fact[g]
    BY <1>1, <1>2, NoRowsTyped
  <1>4. refl' \in [Reflections -> ReflRow] /\ imp' \in [Impressions -> ImpRow]
    BY <1>1, <1>2, DeletedRows
  <1>5. Typed'
    BY <1>1, <1>2, <1>3, <1>4 DEF Typed
  <1>6. Clearing'
    BY <1>1 DEF Clearing, Done, None
  <1>7. \A r \in Reflections \ rs : \A s \in refl[r].src : s[2] \in Facts \ {f}
    BY <1>2, SourceNames
  <1>8. \A s : s[2] \in Facts \ {f} /\ Held(s) => Held(s)'
    BY <1>1, <1>3 DEF Held, Current, Valid
  <1>9. \A r \in Reflections \ rs : Exists(refl[r]) => \A s \in refl[r].src : Held(s) => Held(s)'
    BY <1>7, <1>8
  <1>10. \A g \in Facts : fact'[g].st = "deleted" =>
           \/ fact[g].st = "deleted"
           \/ \A r \in Reflections \ rs : Exists(refl[r]) => \A s \in refl[r].src : s[2] # g
    BY <1>2, <1>3
  <1>11. vouched' = vouched /\ From(rs) \subseteq From(rs)
    BY <1>1
  <1> QED  BY <1>1, <1>2, <1>5, <1>6, <1>9, <1>10, <1>11, DeleteStep

\* The user deletes a reflection and what rests on it, or an impression.
LEMMA DeleteDerivedStep ==
  ASSUME IInv, NEW rs \in SUBSET Reflections, NEW ps \in SUBSET Impressions, From(rs) \subseteq ps,
         Deleted(rs, ps), clash' \subseteq clash, second = Done, second' = Done,
         UNCHANGED <<fact, sourced, eligible, offer, asked, vouched, untold>>
  PROVE  IInv'
  <1>1. Typed
    BY DEF IInv
  <1>2. refl' \in [Reflections -> ReflRow] /\ imp' \in [Impressions -> ImpRow]
    BY <1>1, DeletedRows
  <1>3. /\ clash' \subseteq Reflections \X Impressions /\ vouched' \subseteq Reflections \cup Impressions
        /\ asked' \subseteq Reflections \X (Impressions \cup {None})
    BY <1>1 DEF Typed
  <1>4. Typed' /\ Clearing' /\ \A s : Held(s) => Held(s)'
    BY <1>2, <1>3, FactsFrame
  <1>5. \A r \in Reflections \ rs : Exists(refl[r]) => \A s \in refl[r].src : Held(s) => Held(s)'
    BY <1>4
  <1> QED  BY <1>4, <1>5, DeleteStep

LEMMA DeleteReflStep ==
  ASSUME IInv, NEW r \in Reflections, DeleteRefl(r)
  PROVE  IInv'
  <1>1. /\ Deleted({r}, From({r})) /\ clash' \subseteq clash /\ second = Done /\ second' = Done
        /\ UNCHANGED <<fact, sourced, eligible, offer, asked, vouched, untold>>
    BY DEF DeleteRefl, Free, NoFacts, factVars, jobs
  <1>2. {r} \in SUBSET Reflections /\ From({r}) \in SUBSET Impressions /\ From({r}) \subseteq From({r})
    BY DEF From
  <1> QED  BY <1>1, <1>2, DeleteDerivedStep

LEMMA DeleteImpStep ==
  ASSUME IInv, NEW p \in Impressions, DeleteImp(p)
  PROVE  IInv'
  <1>1. /\ Deleted({}, {p}) /\ clash' \subseteq clash /\ second = Done /\ second' = Done
        /\ UNCHANGED <<fact, sourced, eligible, offer, asked, vouched, untold>>
    BY DEF DeleteImp, Free, NoFacts, factVars, jobs
  <1>2. {} \in SUBSET Reflections /\ {p} \in SUBSET Impressions /\ From({}) \subseteq {p}
    BY DEF From
  <1> QED  BY <1>1, <1>2, DeleteDerivedStep

\* The messages a fact was drawn from go; the fact stays.
LEMMA DeleteMessagesStep ==
  ASSUME IInv, NEW f \in Facts, DeleteMessages(f)
  PROVE  IInv'
  <1>1. /\ sourced' \subseteq sourced /\ second = Done /\ second' = Done
        /\ refl' = [r \in Reflections |-> [refl[r] EXCEPT !.live = @ \ {f}]]
        /\ UNCHANGED <<fact, eligible, imp, clash, offer, asked, vouched, untold>>
    BY DEF DeleteMessages, Free, jobs
  <1>2. Typed /\ refl \in [Reflections -> ReflRow]
    BY DEF IInv, Typed
  <1>3. ASSUME NEW r \in Reflections
        PROVE  /\ refl'[r] \in ReflRow /\ refl'[r].src = refl[r].src /\ refl'[r].st = refl[r].st
               /\ refl'[r].knows = refl[r].knows
    <2>1. refl[r] \in ReflRow /\ refl'[r] = [refl[r] EXCEPT !.live = @ \ {f}]
      BY <1>1, <1>2
    <2> QED  BY <2>1 DEF ReflRow
  <1>4. refl' \in [Reflections -> ReflRow]
    BY <1>1, <1>3
  <1>5. Typed'
    BY <1>1, <1>2, <1>4 DEF Typed
  <1>6. Clearing'
    BY <1>1 DEF Clearing, Done, None
  <1>7. \A s : Held(s) => Held(s)'
    BY <1>1 DEF Held, Current, Valid
  <1>8. \A p \in Impressions : \A s \in imp[p].src : s[2] \in Reflections
    BY <1>2, SourceNames
  <1>9. \A r \in Reflections : Exists(refl[r])' =>
           /\ Exists(refl[r]) /\ refl'[r].src = refl[r].src
           /\ refl'[r].knows = refl[r].knows
    BY <1>3 DEF Exists
  <1>10. \A p \in Impressions : Exists(imp[p])' =>
           /\ Exists(imp[p]) /\ imp'[p].src = imp[p].src /\ imp'[p].knows = imp[p].knows
           /\ \A s \in imp[p].src : Exists(refl[s[2]])'
    BY <1>1, <1>3, <1>8 DEF IInv, Linked, Exists
  <1>11. \A r \in Reflections : refl'[r].st \in {"tentative", "confirmed"} /\ r \notin vouched' =>
           \A s \in refl[r].src : Held(s)'
    BY <1>1, <1>3, <1>7 DEF IInv, Supported, Rests
  <1>12. \A p \in Impressions : imp'[p].st = "active" /\ p \notin vouched' =>
           \A s \in imp[p].src : \A t \in refl[s[2]].src : t[1] = s[3] => Held(t)'
    BY <1>1, <1>7 DEF IInv, Supported, RestsOn
  <1> QED  BY <1>1, <1>5, <1>6, <1>9, <1>10, <1>11, <1>12, ShrinkStep

\* Nothing derived is left: whatever happens to the facts is right.
LEMMA NothingDerived ==
  ASSUME IInv, Typed', \A r \in Reflections : ~Exists(refl[r])',
         \A p \in Impressions : ~Exists(imp[p])'
  PROVE  IInv'
  <1>1. /\ \A r \in Reflections : refl'[r].st \notin {"tentative", "confirmed"}
        /\ \A p \in Impressions : imp'[p].st # "active"
    BY DEF Exists, None
  <1>2. Supported'
    BY <1>1 DEF Supported
  <1>3. Linked' /\ Sourced' /\ Clearing'
    BY DEF Linked, Sourced, Clearing
  <1> QED  BY <1>2, <1>3 DEF IInv

LEMMA ClearDerivedStep ==
  ASSUME IInv, ClearDerived
  PROVE  IInv'
  <1> DEFINE rs == {r \in Reflections : Exists(refl[r])}
             ps == {p \in Impressions : Exists(imp[p])}
  <1>1. /\ Deleted(rs, ps) /\ clash' = {} /\ fact' = [f \in Facts |-> [fact[f] EXCEPT !.chal = 0]]
        /\ second' = [op |-> "clear", f |-> None]
        /\ UNCHANGED <<sourced, eligible, offer, asked, vouched, untold>>
    BY DEF ClearDerived, jobs
  <1>2. Typed /\ fact \in [Facts -> FactRow] /\ \A f \in Facts : Bounded(fact[f])
    BY DEF IInv, Typed
  <1>3. /\ refl' \in [Reflections -> ReflRow] /\ imp' \in [Impressions -> ImpRow]
        /\ \A r \in Reflections : IF r \in rs THEN refl'[r].st = "deleted" ELSE refl'[r] = refl[r]
        /\ \A p \in Impressions : IF p \in ps THEN imp'[p].st = "deleted" ELSE imp'[p] = imp[p]
    BY <1>1, <1>2, DeletedRows
  <1>4. ASSUME NEW f \in Facts
        PROVE  fact'[f] \in FactRow /\ Bounded(fact'[f])
    <2>1. fact[f] \in FactRow /\ fact'[f] = [fact[f] EXCEPT !.chal = 0] /\ Bounded(fact[f])
      BY <1>1, <1>2
    <2>2. /\ fact'[f] \in FactRow /\ fact'[f].st = fact[f].st /\ fact'[f].cur = fact[f].cur
          /\ fact'[f].top = fact[f].top /\ fact'[f].inc = fact[f].inc /\ fact'[f].chal = 0
      BY <2>1 DEF FactRow
    <2> QED  BY <2>1, <2>2 DEF Bounded, Exists, FactRow
  <1>5. fact' \in [Facts -> FactRow]
    BY <1>1, <1>4
  <1>6. Typed'
    BY <1>1, <1>2, <1>3, <1>4, <1>5 DEF Typed
  <1>7. \A r \in Reflections : ~Exists(refl'[r])
    BY <1>3 DEF Exists
  <1>8. \A p \in Impressions : ~Exists(imp'[p])
    BY <1>3 DEF Exists
  <1>9. /\ \A r \in Reflections : ~Exists(refl[r])'
        /\ \A p \in Impressions : ~Exists(imp[p])'
    BY <1>7, <1>8 DEF Exists
  <1> QED  BY <1>6, <1>9, NothingDerived

LEMMA ClearFactsStep ==
  ASSUME IInv, ClearFacts
  PROVE  IInv'
  <1> DEFINE fs == {f \in Facts : Exists(fact[f])}
  <1>1. /\ second.op = "clear" /\ NoRows(fs) /\ second' = Done
        /\ UNCHANGED <<refl, imp, clash, offer, asked, vouched, untold>>
    BY DEF ClearFacts, deepVars, jobs
  <1>2. Typed
    BY DEF IInv
  <1>3. /\ fact' \in [Facts -> FactRow] /\ sourced' \subseteq FactVersions
        /\ eligible' \subseteq FactVersions /\ \A f \in Facts : Bounded(fact'[f])
    BY <1>1, <1>2, NoRowsTyped
  <1>4. Typed'
    BY <1>1, <1>2, <1>3 DEF Typed
  <1>5. /\ \A r \in Reflections : ~Exists(refl[r])'
        /\ \A p \in Impressions : ~Exists(imp[p])'
    BY <1>1 DEF IInv, Clearing, Exists
  <1> QED  BY <1>4, <1>5, NothingDerived
----------------------------------------
(* What is written anew *)

\* A reflection over facts that are valid as it is written
LEMMA SynthesizeStep ==
  ASSUME IInv, NEW r \in Reflections, Synthesize(r)
  PROVE  IInv'
  <1>1. PICK cited \in Answers, key \in {offer, NoKey} : Persist(r, cited, key)
    BY DEF Synthesize
  <1> DEFINE row == [st |-> "tentative", cur |-> 1, src |-> {<<1, fv[1], fv[2]>> : fv \in cited},
                     live |-> {fv[1] : fv \in cited}, score |-> 0, key |-> key,
                     knows |-> {fv[1] : fv \in cited}]
  <1>2. /\ refl[r].st = None /\ MayCite(cited)
        /\ refl' = [refl EXCEPT ![r] = row] /\ second = Done /\ second' = Done
        /\ UNCHANGED <<fact, sourced, eligible, imp, clash, offer, asked, vouched, untold>>
    BY <1>1 DEF Persist, Free, NoFacts, factVars, jobs
  <1>3. /\ Typed /\ refl \in [Reflections -> ReflRow] /\ imp \in [Impressions -> ImpRow]
        /\ clash \subseteq Reflections \X Impressions /\ vouched \subseteq Reflections \cup Impressions
        /\ asked \subseteq Reflections \X (Impressions \cup {None}) /\ offer \subseteq FactVersions
    BY DEF IInv, Typed
  <1>4. cited \subseteq FactVersions
    BY <1>3 DEF Answers
  <1>5. {<<1, fv[1], fv[2]>> : fv \in cited} \in SUBSET Source(Facts)
    <2> SUFFICES ASSUME NEW fv \in cited
                 PROVE  <<1, fv[1], fv[2]>> \in Nat \X Facts \X Nat
      BY DEF Source
    <2>1. fv \in Facts \X Versions /\ Versions \subseteq Nat
      BY <1>4, Assumed, Constants DEF FactVersions
    <2> QED  BY <2>1
  <1>6. {fv[1] : fv \in cited} \in SUBSET Facts
    BY <1>4 DEF FactVersions
  <1>7. row \in ReflRow
    <2> DEFINE srcs == {<<1, fv[1], fv[2]>> : fv \in cited}  fs == {fv[1] : fv \in cited}
    <2>1. srcs \in SUBSET Source(Facts) /\ fs \in SUBSET Facts
      BY <1>5, <1>6
    <2> HIDE DEF srcs, fs
    <2>2. [st |-> "tentative", cur |-> 1, src |-> srcs, live |-> fs, score |-> 0, key |-> key,
           knows |-> fs] \in ReflRow
      BY <1>3, <2>1 DEF ReflRow, Statuses, NoKey
    <2> QED  BY <2>2 DEF srcs, fs
  <1>8. /\ row.st = "tentative" /\ row.src = {<<1, fv[1], fv[2]>> : fv \in cited}
        /\ row.knows = {fv[1] : fv \in cited}
    OBVIOUS
  <1> HIDE DEF row
  <1>9. /\ refl' \in [Reflections -> ReflRow] /\ refl'[r] = row
        /\ \A q \in Reflections \ {r} : refl'[q] = refl[q]
    BY <1>2, <1>3, <1>7
  <1>10. Typed' /\ Clearing' /\ \A s : Held(s) => Held(s)'
    BY <1>2, <1>3, <1>9, FactsFrame
  <1>11. \A s \in row.src : Valid(fact, s[2], s[3])
    BY <1>2, <1>8 DEF MayCite
  <1>12. \A s \in row.src : Held(s)' /\ fact'[s[2]].st # "deleted"
    BY <1>2, <1>11 DEF Held, Current, Valid
  <1>13. ~Exists(refl[r])
    BY <1>2 DEF Exists
  <1>14. /\ \A p \in Impressions : \A s \in imp[p].src : s[2] \in Reflections
         /\ \A p \in Impressions : Exists(imp[p])' <=> Exists(imp[p])
    BY <1>2, <1>3, SourceNames DEF Exists
  <1>15. \A p \in Impressions : Exists(imp[p]) => \A s \in imp[p].src : s[2] \in Reflections \ {r}
    BY <1>13, <1>14 DEF IInv, Linked
  <1>16. Supported'
    <2>1. ASSUME NEW q \in Reflections, refl'[q].st \in {"tentative", "confirmed"}, q \notin vouched',
                 NEW s \in refl'[q].src
          PROVE  Held(s)'
      <3>1. CASE q = r
        BY <1>9, <1>12, <2>1, <3>1
      <3>2. CASE q # r
        BY <1>2, <1>9, <1>10, <2>1, <3>2 DEF IInv, Supported, Rests
      <3> QED  BY <3>1, <3>2
    <2>2. ASSUME NEW p \in Impressions, imp'[p].st = "active", p \notin vouched',
                 NEW s \in imp'[p].src, NEW t \in refl'[s[2]].src, t[1] = s[3]
          PROVE  Held(t)'
      <3>1. Exists(imp[p])
        BY <1>2, <2>2 DEF Exists, None
      <3>2. s[2] \in Reflections \ {r} /\ s \in imp[p].src
        BY <1>2, <1>15, <2>2, <3>1
      <3>3. t \in refl[s[2]].src
        BY <1>9, <2>2, <3>2
      <3> QED  BY <1>2, <1>10, <2>2, <3>2, <3>3 DEF IInv, Supported, RestsOn
    <2>3. /\ \A q \in Reflections : refl'[q].st \in {"tentative", "confirmed"} /\ q \notin vouched' => Rests(q)'
          /\ \A p \in Impressions : imp'[p].st = "active" /\ p \notin vouched' => RestsOn(p)'
      BY <2>1, <2>2 DEF Rests, RestsOn
    <2> QED  BY <2>3 DEF Supported
  <1>17. Linked'
    <2>1. ASSUME NEW p \in Impressions, Exists(imp[p])', NEW s \in imp'[p].src
          PROVE  Exists(refl[s[2]])'
      <3>1. s \in imp[p].src /\ Exists(imp[p])
        BY <1>2, <1>14, <2>1
      <3>2. s[2] \in Reflections \ {r} /\ Exists(refl[s[2]])
        BY <1>15, <3>1 DEF IInv, Linked
      <3> QED  BY <1>9, <3>2 DEF Exists
    <2>2. ASSUME NEW q \in Reflections, Exists(refl[q])', NEW s \in refl'[q].src
          PROVE  fact'[s[2]].st # "deleted"
      <3>1. CASE q = r
        BY <1>9, <1>12, <2>2, <3>1
      <3>2. CASE q # r
        BY <1>2, <1>9, <2>2, <3>2 DEF IInv, Linked, Exists
      <3> QED  BY <3>1, <3>2
    <2> QED  BY <2>1, <2>2 DEF Linked
  <1>18. Sourced'
    <2>1. ASSUME NEW q \in Reflections, Exists(refl[q])', NEW f \in refl'[q].knows
          PROVE  \E s \in refl'[q].src : s[2] = f
      <3>1. CASE q = r
        <4>1. PICK fv \in cited : f = fv[1]
          BY <1>8, <1>9, <2>1, <3>1
        <4>2. <<1, fv[1], fv[2]>> \in refl'[q].src
          BY <1>8, <1>9, <3>1
        <4> QED  BY <4>1, <4>2
      <3>2. CASE q # r
        BY <1>9, <2>1, <3>2 DEF IInv, Sourced, Exists
      <3> QED  BY <3>1, <3>2
    <2>2. ASSUME NEW p \in Impressions, Exists(imp[p])', NEW f \in imp'[p].knows
          PROVE  \E s \in imp'[p].src : \E t \in refl'[s[2]].src : t[2] = f
      <3>1. PICK s \in imp[p].src : \E t \in refl[s[2]].src : t[2] = f
        BY <1>2, <1>14, <2>2 DEF IInv, Sourced
      <3>2. s[2] \in Reflections \ {r}
        BY <1>14, <1>15, <2>2
      <3> QED  BY <1>2, <1>9, <3>1, <3>2
    <2> QED  BY <2>1, <2>2 DEF Sourced
  <1> QED  BY <1>10, <1>16, <1>17, <1>18 DEF IInv

\* An impression is written from a reflection that is confirmed, or one
\* that is active takes the reflection in: it rests on it from then on.
LEMMA PromoteStep ==
  ASSUME IInv, NEW r \in Reflections, NEW p \in Impressions, NEW st \in {"promoted", "merged"},
         NEW s0 \in Source(Reflections), s0[2] = r,
         refl[r].st = "confirmed", second = Done, second' = Done,
         refl' = [refl EXCEPT ![r].st = st], imp' \in [Impressions -> ImpRow],
         \A q \in Impressions \ {p} : imp'[q] = imp[q], imp'[p].st = "active",
         \/ /\ imp[p].st = "active" /\ imp'[p].src = imp[p].src \cup {s0}
            /\ imp'[p].knows = imp[p].knows \cup refl[r].knows
         \/ imp[p].st = None /\ imp'[p].src = {s0} /\ imp'[p].knows = refl[r].knows,
         vouched' = IF r \in vouched THEN vouched \cup {p} ELSE vouched,
         asked' = {}, UNCHANGED <<fact, sourced, eligible, offer, untold, clash>>
  PROVE  IInv'
  <1>1. /\ Typed /\ refl \in [Reflections -> ReflRow] /\ refl[r] \in ReflRow
        /\ clash \subseteq Reflections \X Impressions /\ vouched \subseteq Reflections \cup Impressions
    BY DEF IInv, Typed
  <1>2. /\ refl' \in [Reflections -> ReflRow] /\ \A q \in Reflections \ {r} : refl'[q] = refl[q]
        /\ refl'[r].src = refl[r].src /\ refl'[r].knows = refl[r].knows
        /\ refl'[r].st = st
    BY <1>1 DEF ReflRow, Statuses
  <1>3. /\ clash' \subseteq Reflections \X Impressions /\ vouched' \subseteq Reflections \cup Impressions
        /\ asked' \subseteq Reflections \X (Impressions \cup {None})
    BY <1>1
  <1>4. Typed' /\ Clearing' /\ \A s : Held(s) => Held(s)'
    BY <1>2, <1>3, FactsFrame
  <1>5. /\ \A q \in Reflections : refl'[q].src = refl[q].src /\ refl'[q].knows = refl[q].knows
        /\ \A q \in Reflections : Exists(refl[q])' <=> Exists(refl[q])
        /\ Exists(refl[r])
    BY <1>2 DEF Exists, None
  <1>6. \A q \in Impressions : \A s \in imp[q].src : s[2] \in Reflections
    BY <1>1, SourceNames
  <1>7. \A q \in Impressions \ {p} : Exists(imp[q])' <=> Exists(imp[q])
    BY DEF Exists
  <1>8. imp[p].st = "active" => Exists(imp[p])
    BY DEF Exists, None
  <1>9. \A q \in Reflections :
          refl'[q].st \in {"tentative", "confirmed"} /\ q \notin vouched' => Rests(q)'
    <2> SUFFICES ASSUME NEW q \in Reflections, refl'[q].st \in {"tentative", "confirmed"},
                        q \notin vouched', NEW s \in refl[q].src
                 PROVE  Held(s)
      BY <1>4, <1>5 DEF Rests
    <2>1. q # r /\ refl'[q] = refl[q] /\ q \notin vouched
      BY <1>2
    <2> QED  BY <2>1 DEF IInv, Supported, Rests
  <1>10. \A q \in Impressions : imp'[q].st = "active" /\ q \notin vouched' => RestsOn(q)'
    <2> SUFFICES ASSUME NEW q \in Impressions, imp'[q].st = "active", q \notin vouched',
                        NEW s \in imp'[q].src, NEW t \in refl'[s[2]].src, t[1] = s[3]
                 PROVE  Held(t)
      BY <1>4 DEF RestsOn
    <2>1. q \notin vouched
      OBVIOUS
    <2>2. CASE s \in imp[q].src /\ imp[q].st = "active"
      <3>1. t \in refl[s[2]].src
        BY <1>5, <1>6, <2>2
      <3> QED  BY <2>1, <2>2, <3>1 DEF IInv, Supported, RestsOn
    <2>3. CASE q = p /\ s = s0
      <3>1. r \notin vouched
        BY <2>3
      <3>2. t \in refl[r].src
        BY <1>2, <2>3
      <3> QED  BY <3>1, <3>2 DEF IInv, Supported, Rests
    <2> QED  BY <2>2, <2>3
  <1>11. Linked'
    <2>1. ASSUME NEW q \in Impressions, Exists(imp[q])', NEW s \in imp'[q].src
          PROVE  Exists(refl[s[2]])'
      <3>1. CASE s = s0
        BY <1>5, <3>1
      <3>2. CASE s \in imp[q].src /\ Exists(imp[q])
        <4>1. s[2] \in Reflections /\ Exists(refl[s[2]])
          BY <1>6, <3>2 DEF IInv, Linked
        <4> QED  BY <1>5, <4>1
      <3> QED  BY <1>7, <1>8, <2>1, <3>1, <3>2
    <2>2. ASSUME NEW q \in Reflections, Exists(refl[q])', NEW s \in refl'[q].src
          PROVE  fact'[s[2]].st # "deleted"
      BY <1>5, <2>2 DEF IInv, Linked
    <2> QED  BY <2>1, <2>2 DEF Linked
  <1>12. Sourced'
    <2>1. ASSUME NEW q \in Reflections, Exists(refl[q])', NEW f \in refl'[q].knows
          PROVE  \E s \in refl'[q].src : s[2] = f
      BY <1>5, <2>1 DEF IInv, Sourced
    <2>2. ASSUME NEW q \in Impressions, Exists(imp[q])', NEW f \in imp'[q].knows
          PROVE  \E s \in imp'[q].src : \E t \in refl'[s[2]].src : t[2] = f
      <3>1. CASE f \in imp[q].knows /\ Exists(imp[q])
        <4>1. PICK s \in imp[q].src : \E t \in refl[s[2]].src : t[2] = f
          BY <3>1 DEF IInv, Sourced
        <4>2. s \in imp'[q].src
          BY <3>1, <4>1 DEF Exists
        <4> QED  BY <1>5, <1>6, <4>1, <4>2
      <3>2. CASE q = p /\ f \in refl[r].knows
        <4>1. PICK t \in refl[r].src : t[2] = f
          BY <1>5, <3>2 DEF IInv, Sourced
        <4>2. s0 \in imp'[q].src /\ t \in refl'[s0[2]].src
          BY <1>5, <3>2, <4>1
        <4> QED  BY <4>1, <4>2
      <3> QED  BY <1>7, <1>8, <2>2, <3>1, <3>2
    <2> QED  BY <2>1, <2>2 DEF Sourced
  <1>14. Supported'
    BY <1>9, <1>10 DEF Supported
  <1> QED  BY <1>4, <1>11, <1>12, <1>14 DEF IInv

LEMMA PromoteNewStep ==
  ASSUME IInv, NEW r \in Reflections, NEW p \in Impressions, PromoteNew(r, p)
  PROVE  IInv'
  <1> DEFINE s0 == <<1, r, refl[r].cur>>
             row == [st |-> "active", cur |-> 1, src |-> {s0},
                     score |-> refl[r].score, knows |-> refl[r].knows]
  <1>1. /\ imp[p].st = None /\ refl[r].st = "confirmed" /\ second = Done /\ second' = Done
        /\ imp' = [imp EXCEPT ![p] = row] /\ refl' = [refl EXCEPT ![r].st = "promoted"]
        /\ vouched' = IF r \in vouched THEN vouched \cup {p} ELSE vouched
        /\ asked' = {} /\ UNCHANGED <<fact, sourced, eligible, offer, untold, clash>>
    BY DEF PromoteNew, Promotable, Free, Inherit, Answered, NoFacts, factVars
  <1>2. /\ imp \in [Impressions -> ImpRow] /\ refl[r].score \in Int /\ refl[r].cur \in Nat
        /\ refl[r].knows \in SUBSET Facts
    BY DEF IInv, Typed, ReflRow
  <1>3. s0 \in Source(Reflections) /\ s0[2] = r
    BY <1>2 DEF Source
  <1> HIDE DEF s0
  <1>4. row \in ImpRow /\ row.st = "active" /\ row.src = {s0} /\ row.knows = refl[r].knows
    BY <1>2, <1>3 DEF ImpRow, ImpStatuses
  <1> HIDE DEF row
  <1>5. /\ imp' \in [Impressions -> ImpRow] /\ \A q \in Impressions \ {p} : imp'[q] = imp[q]
        /\ imp'[p] = row
    BY <1>1, <1>2, <1>4
  <1> QED  BY <1>1, <1>3, <1>4, <1>5, PromoteStep

LEMMA PromoteMergeStep ==
  ASSUME IInv, NEW r \in Reflections, NEW p \in Impressions, PromoteMerge(r, p)
  PROVE  IInv'
  <1> DEFINE s0 == <<imp[p].cur + 1, r, refl[r].cur>>
             row == [imp[p] EXCEPT !.cur = @ + 1, !.score = refl[r].score,
                                   !.src = @ \cup {s0}, !.knows = @ \cup refl[r].knows]
  <1>1. /\ imp[p].st = "active" /\ refl[r].st = "confirmed" /\ second = Done /\ second' = Done
        /\ refl' = [refl EXCEPT ![r].st = "merged"]
        /\ vouched' = IF r \in vouched THEN vouched \cup {p} ELSE vouched
        /\ asked' = {} /\ UNCHANGED <<fact, sourced, eligible, offer, untold, clash>>
    BY DEF PromoteMerge, Promotable, Free, Inherit, Answered, NoFacts, factVars
  <1>2. /\ imp \in [Impressions -> ImpRow] /\ refl[r].score \in Int /\ refl[r].cur \in Nat
        /\ refl[r].knows \in SUBSET Facts /\ imp[p] \in ImpRow /\ imp[p].cur \in Nat
    BY DEF IInv, Typed, ReflRow, ImpRow
  <1>3. imp' = [imp EXCEPT ![p] = row]
    BY Zenon DEF PromoteMerge
  <1>4. s0 \in Source(Reflections) /\ s0[2] = r
    BY <1>2 DEF Source
  <1>5. /\ row \in ImpRow /\ row.st = imp[p].st /\ row.src = imp[p].src \cup {s0}
        /\ row.knows = imp[p].knows \cup refl[r].knows
    <2> DEFINE a == [imp[p] EXCEPT !.cur = @ + 1]
               b == [a EXCEPT !.score = refl[r].score]
               c == [b EXCEPT !.src = @ \cup {s0}]
               d == [c EXCEPT !.knows = @ \cup refl[r].knows]
    <2>1. row = d
      BY Zenon
    <2> HIDE DEF s0, row
    <2>2. a \in ImpRow /\ a.st = imp[p].st /\ a.src = imp[p].src /\ a.knows = imp[p].knows
      BY <1>2 DEF ImpRow
    <2> HIDE DEF a
    <2>3. b \in ImpRow /\ b.st = a.st /\ b.src = a.src /\ b.knows = a.knows
      BY <1>2, <2>2 DEF ImpRow
    <2> HIDE DEF b
    <2>4. c \in ImpRow /\ c.st = b.st /\ c.src = b.src \cup {s0} /\ c.knows = b.knows
      BY <1>4, <2>3 DEF ImpRow
    <2> HIDE DEF c
    <2>5. d \in ImpRow /\ d.st = c.st /\ d.src = c.src /\ d.knows = c.knows \cup refl[r].knows
      BY <1>2, <2>4 DEF ImpRow
    <2> HIDE DEF d
    <2> QED  BY <2>1, <2>2, <2>3, <2>4, <2>5
  <1> HIDE DEF row, s0
  <1>6. /\ imp' \in [Impressions -> ImpRow] /\ \A q \in Impressions \ {p} : imp'[q] = imp[q]
        /\ imp'[p] = row
    BY <1>2, <1>3, <1>5
  <1>7. /\ imp'[p].st = "active" /\ imp'[p].src = imp[p].src \cup {s0}
        /\ imp'[p].knows = imp[p].knows \cup refl[r].knows
    BY <1>1, <1>5, <1>6
  <1>8. "merged" \in {"promoted", "merged"}
    OBVIOUS
  <1> QED  BY <1>1, <1>4, <1>6, <1>7, <1>8, PromoteStep
----------------------------------------
(* The invariant *)

LEMMA OfFactStep ==
  ASSUME IInv, NEW f \in Facts, OfFact(f)
  PROVE  IInv'
  <1>1. CASE Archive(f) \/ Restore(f)
    BY <1>1, SetFactStep DEF Archive, Restore
  <1> QED  BY <1>1, CreateStep, RepeatStep, SupplementStep, EditStep, ArchiveDecayedStep,
             OpenConflictStep, ResolveAcceptStep, ResolveMergeStep, ResolveKeepStep,
             DeleteMessagesStep, DeleteFactStep
       DEF OfFact

LEMMA OfReflStep ==
  ASSUME IInv, NEW r \in Reflections, OfRefl(r)
  PROVE  IInv'
  BY SynthesizeStep, FadeReflStep, ArchiveReflStep, RestoreReflStep, EditReflStep,
     DeleteReflStep, AskPromotionStep, SignalReflStep DEF OfRefl

LEMMA OfImpStep ==
  ASSUME IInv, NEW p \in Impressions, OfImp(p)
  PROVE  IInv'
  BY FadeImpStep, ArchiveImpStep, RestoreImpStep, EditImpStep, DeleteImpStep, SignalImpStep DEF OfImp

LEMMA StutterStep ==
  ASSUME IInv, UNCHANGED vars
  PROVE  IInv'
  <1>1. UNCHANGED <<fact, sourced, eligible, refl, imp, clash, offer, asked, second, vouched, untold>>
    BY DEF vars, factVars, deepVars, jobs
  <1>2. Typed'
    BY <1>1 DEF IInv, Typed
  <1>3. /\ \A r \in Reflections : Rests(r)' <=> Rests(r)
        /\ \A p \in Impressions : RestsOn(p)' <=> RestsOn(p)
    BY <1>1 DEF Rests, RestsOn, Held, Current, Valid
  <1>4. Supported'
    BY <1>1, <1>3 DEF IInv, Supported
  <1>5. Linked' /\ Sourced' /\ Clearing'
    BY <1>1 DEF IInv, Linked, Sourced, Clearing, Exists
  <1> QED  BY <1>2, <1>4, <1>5 DEF IInv

LEMMA IInvStep == IInv /\ [Next]_vars => IInv'
  <1> SUFFICES ASSUME IInv, [Next]_vars
               PROVE  IInv'
    OBVIOUS
  <1>1. CASE \E f \in Facts : OfFact(f)
    BY <1>1, OfFactStep
  <1>2. CASE \E r \in Reflections : OfRefl(r)
    BY <1>2, OfReflStep
  <1>3. CASE \E p \in Impressions : OfImp(p)
    BY <1>3, OfImpStep
  <1>4. CASE \E r \in Reflections, p \in Impressions : Promotion(r, p)
    BY <1>4, PromoteNewStep, PromoteMergeStep, PromotionConflictStep DEF Promotion
  <1>5. CASE \/ SuppressDescendants \/ ReevaluateDescendants \/ SecondIsLost
             \/ ClearDerived \/ ClearFacts \/ Prepare \/ JobEnds \/ NoPromotion
    BY <1>5, SuppressDescendantsStep, ReevaluateDescendantsStep, SecondIsLostStep,
       ClearDerivedStep, ClearFactsStep, PrepareStep, JobEndsStep, NoPromotionStep
  <1>6. CASE UNCHANGED vars
    BY <1>6, StutterStep
  <1> QED  BY <1>1, <1>2, <1>3, <1>4, <1>5, <1>6 DEF Next

\* What is derived from facts rests on what holds, or the second transaction
\* that suppresses it is about to run; what it rests on exists, and what it
\* may tell comes from there: in every state, whatever operations the data
\* thread runs in between, and whichever second transactions are lost.
THEOREM Invariance ==
  ASSUME Parameters
  PROVE  Spec => []IInv
  BY InitiallyIInv, IInvStep, PTL DEF Spec

LEMMA TypedIsTypeOK == IInv => TypeOK
  <1> SUFFICES ASSUME IInv
               PROVE  TypeOK
    OBVIOUS
  <1>1. Typed
    BY DEF IInv
  <1>2. \A f \in Facts : /\ fact[f].st \in {None, "active", "archived", "deleted"}
                         /\ fact[f].cur \in 0..fact[f].top /\ fact[f].top \in 0..MaxVersions
                         /\ fact[f].chal \in 0..fact[f].top
    <2> SUFFICES ASSUME NEW f \in Facts
                 PROVE  /\ fact[f].st \in {None, "active", "archived", "deleted"}
                        /\ fact[f].cur \in 0..fact[f].top /\ fact[f].top \in 0..MaxVersions
                        /\ fact[f].chal \in 0..fact[f].top
      OBVIOUS
    <2>1. fact[f] \in FactRow /\ Bounded(fact[f])
      BY <1>1 DEF Typed
    <2> QED  BY <2>1 DEF FactRow, Bounded
  <1>3. \A r \in Reflections : refl[r].st \in Statuses
    BY <1>1, ReflRows
  <1>4. \A p \in Impressions : imp[p].st \in ImpStatuses
    BY <1>1, ImpRows
  <1> QED  BY <1>1, <1>2, <1>3, <1>4 DEF TypeOK, Typed, Statuses, ImpStatuses

LEMMA SupportHolds == IInv => SupportIsCurrent
  <1> SUFFICES ASSUME IInv, second = Done
               PROVE  /\ \A r \in Reflections : Recalled(r) /\ r \notin vouched =>
                           \A s \in refl[r].src : Current(s)
                      /\ \A p \in Impressions : imp[p].st = "active" /\ p \notin vouched =>
                           \A s \in imp[p].src : \A t \in refl[s[2]].src : t[1] = s[3] => Current(t)
    BY DEF SupportIsCurrent
  <1>1. \A s : Held(s) => Current(s)
    BY DEF Held, Done, None
  <1> QED  BY <1>1 DEF IInv, Supported, Rests, RestsOn, Recalled

LEMMA NothingOutlives == IInv => DeletedLeavesNothing
  <1> SUFFICES ASSUME IInv, NEW f \in Facts, fact[f].st = "deleted"
               PROVE  /\ \A r \in Reflections : Exists(refl[r]) => f \notin refl[r].knows
                      /\ \A p \in Impressions : Exists(imp[p]) => f \notin imp[p].knows
    BY DEF DeletedLeavesNothing
  <1>1. \A r \in Reflections : Exists(refl[r]) => \A s \in refl[r].src : s[2] # f
    BY DEF IInv, Linked
  <1>2. \A p \in Impressions : \A s \in imp[p].src : s[2] \in Reflections
    BY SourceNames DEF IInv
  <1>3. \A p \in Impressions : Exists(imp[p]) =>
          \A s \in imp[p].src : \A t \in refl[s[2]].src : t[2] # f
    BY <1>1, <1>2 DEF IInv, Linked
  <1> QED  BY <1>1, <1>3 DEF IInv, Sourced
=============================================================================

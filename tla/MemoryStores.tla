---------------------------- MODULE MemoryStores ----------------------------
(***************************************************************************)
(* Facts, and the reflections and persona impressions derived from them:   *)
(* the tables of MemoryStore and DeepMemoryStore as the operations of       *)
(* LocalDataService and of the background jobs change them.                 *)
(*                                                                         *)
(* The data thread runs one operation at a time.  An operation is one       *)
(* transaction, except those that change a fact and then, in a second       *)
(* transaction, what is derived from it: between the two the process may    *)
(* die or the second may fail.  What a background job asked the model and   *)
(* what it wrote are separate operations, with others in between.           *)
(*                                                                         *)
(* A version is a number; its text is not modelled.  The evidence score is  *)
(* kept in whole units (thresholds 1, 2 and -2); half units, the bonus of   *)
(* repeated support and the half-lives are choices between two neighbours.  *)
(***************************************************************************)
EXTENDS Integers, FiniteSets

CONSTANTS Facts, Reflections, Impressions,
          MinFacts,     \* MIN_FACTS_FOR_REFLECTION
          MaxVersions,  \* bound on the versions of one item
          MaxOps,       \* bound on the operations
          MaxFaults     \* bound on second transactions that are lost

VARIABLES
  fact,     \* memory_groups: [st, cur, top, inc, chal]; chal # 0: an open conflict
  sourced,  \* versions <<f, v>> with a live automatic source
  eligible, \* versions with deep_memory_eligible
  refl,     \* memory_reflections: [st, cur, src, live, score, key, knows]
  imp,      \* memory_persona_impressions: [st, cur, src, score, knows]
  clash,    \* open promotion conflicts <<r, p>>
  offer,    \* the fact versions a synthesis job was given, or {}
  asked,    \* what a promotion job was given: <<r, None>> and the <<r, p>>, or {}
  second,   \* the second transaction of the operation that runs, or Done
  vouched,  \* history: derived items that were confirmed or restored since they were
            \* suppressed, by a person or in a message that the evidence job read so
  untold,   \* history: changed facts whose descendants were not suppressed
  ops, faults

factVars == <<fact, sourced, eligible>>
deepVars == <<refl, imp, clash>>
jobs     == <<offer, asked>>
vars == <<factVars, deepVars, jobs, second, vouched, untold, ops, faults>>

None == "none"
Done == [op |-> None, f |-> None]
Versions == 1..MaxVersions
FactVersions == Facts \X Versions

NoFact == [st |-> None, cur |-> 0, top |-> 0, inc |-> 0, chal |-> 0]
NoRefl == [st |-> None, cur |-> 0, src |-> {}, live |-> {}, score |-> 0, key |-> {}, knows |-> {}]
NoImp  == [st |-> None, cur |-> 0, src |-> {}, score |-> 0, knows |-> {}]
Exists(x) == x.st \notin {None, "deleted"}

TypeOK ==
  /\ \A f \in Facts : /\ fact[f].st \in {None, "active", "archived", "deleted"}
                      /\ fact[f].cur \in 0..fact[f].top /\ fact[f].top \in 0..MaxVersions
                      /\ fact[f].chal \in 0..fact[f].top
  /\ sourced \subseteq FactVersions /\ eligible \subseteq FactVersions /\ offer \subseteq FactVersions
  /\ \A r \in Reflections : refl[r].st \in
       {None, "deleted", "tentative", "confirmed", "disputed", "denied", "archived", "promoted", "merged"}
  /\ \A p \in Impressions : imp[p].st \in {None, "deleted", "active", "disputed", "denied", "archived"}
  /\ clash \subseteq Reflections \X Impressions

\* Every fact has been extracted from a user's message; some may have gone
\* into reflections that have enough evidence to be promoted.
Init ==
  /\ fact = [f \in Facts |-> [NoFact EXCEPT !.st = "active", !.cur = 1, !.top = 1]]
  /\ sourced = Facts \X {1} /\ eligible = sourced
  /\ \E over \in [Facts -> Reflections \cup {None}] :
       refl = [r \in Reflections |->
         LET fs == {f \in Facts : over[f] = r} IN
         IF Cardinality(fs) < MinFacts THEN NoRefl ELSE
           [st |-> "confirmed", cur |-> 1, src |-> {<<1, f, 1>> : f \in fs},
            live |-> fs, score |-> 2, key |-> fs \X {1}, knows |-> fs]]
  /\ imp = [p \in Impressions |-> NoImp]
  /\ clash = {} /\ offer = {} /\ asked = {} /\ second = Done /\ vouched = {} /\ untold = {}
  /\ ops = 0 /\ faults = 0

\* The data thread is free for an operation.
Free == second = Done /\ ops < MaxOps /\ ops' = ops + 1 /\ faults' = faults
-----------------------------------------------------------------------------
(* What rests on what.                                                     *)

Conflicted(f) == fact[f].chal # 0
\* The version is what the fact now says, and it may be used.
Valid(t, f, v) == t[f].st = "active" /\ t[f].cur = v /\ t[f].chal = 0
Blocked(r) == \E p \in Impressions : <<r, p>> \in clash

\* Mutant: only current versions count.
OverCurrent(f) == {r \in Reflections : \E s \in refl[r].src : s[2] = f /\ s[1] = refl[r].cur}
\* Reflections with a version over a version of f, and the impressions over
\* a version of one of rs.
Over(f) == {r \in Reflections : \E s \in refl[r].src : s[2] = f}
From(rs) == {p \in Impressions : \E s \in imp[p].src : s[2] \in rs}

\* UPDATE ... SET status = 'disputed' over reflections and impressions
SuppressedRefl(rs) == [r \in Reflections |->
  IF r \in rs /\ refl[r].st \in {"tentative", "confirmed", "disputed"}
  THEN [refl[r] EXCEPT !.st = "disputed"] ELSE refl[r]]
SuppressedImp(rs) == [p \in Impressions |->
  IF p \in From(rs) /\ imp[p].st = "active" THEN [imp[p] EXCEPT !.st = "disputed"] ELSE imp[p]]

Suppress(rs) ==
  /\ refl' = SuppressedRefl(rs) /\ imp' = SuppressedImp(rs)
  /\ vouched' = vouched \ (rs \cup From(rs))

\* _restore_fact_descendants: what is disputed and wholly valid again.
\* t is the table of facts it sees.
RestoredRefl(rs, t) == [r \in Reflections |->
  IF r \in rs /\ refl[r].st = "disputed" /\ \A s \in refl[r].src : Valid(t, s[2], s[3])
  THEN [refl[r] EXCEPT !.st = IF refl[r].score >= 1 THEN "confirmed" ELSE "tentative"] ELSE refl[r]]

\* An impression may rest on version rv of r, as the reflections are now.
\* Mutant: the facts under the reflection are not looked at again.
ReflectionHolds(r, rv, now, t) ==
  now[r].cur = rv /\ now[r].st \in {"confirmed", "promoted"} /\ ~Blocked(r)
Holds(r, rv, now, t) ==
  /\ now[r].cur = rv /\ now[r].st \in {"confirmed", "promoted"} /\ ~Blocked(r)
  /\ \A s \in now[r].src : s[1] = rv => Valid(t, s[2], s[3])

RestoredImp(rs, now, t) == [p \in Impressions |->
  IF p \in From(rs) /\ imp[p].st = "disputed" /\ \A s \in imp[p].src : Holds(s[2], s[3], now, t)
  THEN [imp[p] EXCEPT !.st = "active"] ELSE imp[p]]
RestoreOver(f, t) ==
  /\ refl' = RestoredRefl(Over(f), t) /\ imp' = RestoredImp(Over(f), refl', t)

Deleted(rs, ps) ==
  /\ refl' = [r \in Reflections |-> IF r \in rs THEN [NoRefl EXCEPT !.st = "deleted"] ELSE refl[r]]
  /\ imp' = [p \in Impressions |-> IF p \in ps THEN [NoImp EXCEPT !.st = "deleted"] ELSE imp[p]]
-----------------------------------------------------------------------------
(* Facts.                                                                  *)

NoDeep == UNCHANGED <<deepVars, vouched, untold, jobs>>

Create(f) ==
  /\ Free /\ fact[f].st = None
  /\ fact' = [fact EXCEPT ![f] = [NoFact EXCEPT !.st = "active", !.cur = 1, !.top = 1]]
  /\ sourced' = sourced \cup {<<f, 1>>} /\ eligible' = eligible \cup {<<f, 1>>}
  /\ second' = Done /\ NoDeep

\* The user says the same again: one more source of the current version.
Repeat(f) ==
  /\ Free /\ Exists(fact[f])
  /\ sourced' = sourced \cup {<<f, fact[f].cur>>}
  /\ second' = Done /\ NoDeep /\ UNCHANGED <<fact, eligible>>

NextVersion(f) == fact[f].top + 1
Advance(f) ==
  /\ Exists(fact[f]) /\ NextVersion(f) \in Versions
  /\ fact' = [fact EXCEPT ![f].cur = NextVersion(f), ![f].top = NextVersion(f)]

\* An extracted candidate supplements or explicitly corrects the fact.
Supplement(f) ==
  /\ Free /\ Advance(f)
  /\ sourced' = sourced \cup {<<f, NextVersion(f)>>}
  /\ eligible' = eligible \cup {<<f, NextVersion(f)>>}
  /\ second' = [op |-> "suppress", f |-> f] /\ NoDeep

\* The user edits the fact, or rolls it back to the text of an old version:
\* a manual version, with the live sources of the one before.
Edit(f) ==
  /\ Free /\ Advance(f)
  /\ LET heir == IF <<f, fact[f].cur>> \in sourced THEN {<<f, NextVersion(f)>>} ELSE {}
     IN sourced' = sourced \cup heir /\ eligible' = eligible \cup heir
  /\ second' = [op |-> "suppress", f |-> f] /\ NoDeep

SetFact(f, st, then) ==
  /\ Free /\ Exists(fact[f]) /\ fact' = [fact EXCEPT ![f].st = st]
  /\ second' = [op |-> then, f |-> f]
  /\ NoDeep /\ UNCHANGED <<sourced, eligible>>
Archive(f) == SetFact(f, "archived", "suppress")
Restore(f) == SetFact(f, "active", "restore")

\* Maintenance archives an old event; nothing derived is looked at.
ArchiveDecayed(f) ==
  /\ Free /\ fact[f].st = "active" /\ fact' = [fact EXCEPT ![f].st = "archived"]
  /\ untold' = untold \cup {f} /\ second' = Done
  /\ UNCHANGED <<sourced, eligible, deepVars, vouched, jobs>>

\* The second transaction of an operation on a fact
SuppressDescendants ==
  /\ second.op = "suppress"
  /\ Suppress(Over(second.f)) /\ untold' = untold \ {second.f}
  /\ second' = Done /\ UNCHANGED <<factVars, clash, jobs, ops, faults>>
ReevaluateDescendants ==
  /\ second.op = "restore"
  /\ RestoreOver(second.f, fact)
  /\ second' = Done /\ UNCHANGED <<factVars, clash, vouched, untold, jobs, ops, faults>>
\* It fails, or the process dies first.
SecondIsLost ==
  /\ second # Done /\ faults < MaxFaults /\ faults' = faults + 1
  /\ untold' = IF second.op = "suppress" THEN untold \cup {second.f} ELSE untold
  /\ second' = Done /\ UNCHANGED <<factVars, deepVars, vouched, jobs, ops>>

\* An ambiguous correction is kept beside the fact, which nobody recalls.
OpenConflict(f) ==
  /\ Free /\ Exists(fact[f]) /\ ~Conflicted(f) /\ NextVersion(f) \in Versions
  /\ LET v == NextVersion(f) IN
       /\ fact' = [fact EXCEPT ![f].top = v, ![f].chal = v, ![f].inc = fact[f].cur]
       /\ sourced' = sourced \cup {<<f, v>>} /\ eligible' = eligible \cup {<<f, v>>}
  /\ Suppress(Over(f)) /\ untold' = untold \ {f}
  /\ second' = Done /\ UNCHANGED <<clash, jobs>>

Resolved(f, v) == [fact EXCEPT ![f].cur = v, ![f].chal = 0, ![f].top = IF v > @ THEN v ELSE @]
ResolveAccept(f) ==
  /\ Free /\ Exists(fact[f]) /\ Conflicted(f) /\ fact' = Resolved(f, fact[f].chal)
  /\ second' = Done /\ NoDeep /\ UNCHANGED <<sourced, eligible>>
ResolveMerge(f) ==
  /\ Free /\ Exists(fact[f]) /\ Conflicted(f) /\ NextVersion(f) \in Versions
  /\ fact' = Resolved(f, NextVersion(f)) /\ eligible' = eligible \cup {<<f, NextVersion(f)>>}
  /\ second' = Done /\ NoDeep /\ UNCHANGED sourced
ResolveKeep(f) ==
  /\ Free /\ Exists(fact[f]) /\ Conflicted(f)
  /\ fact' = Resolved(f, fact[f].inc) /\ RestoreOver(f, fact')
  /\ second' = Done /\ UNCHANGED <<sourced, eligible, clash, vouched, untold, jobs>>

\* A conversation is deleted, and with it the messages f was drawn from.
DeleteMessages(f) ==
  /\ Free /\ \E v \in Versions : <<f, v>> \in sourced
  /\ sourced' = sourced \ ({f} \X Versions)
  /\ refl' = [r \in Reflections |-> [refl[r] EXCEPT !.live = @ \ {f}]]
  /\ second' = Done /\ UNCHANGED <<fact, eligible, imp, clash, jobs, vouched, untold>>

NoRows(fs) ==
  /\ fact' = [f \in Facts |-> IF f \in fs THEN [NoFact EXCEPT !.st = "deleted"] ELSE fact[f]]
  /\ sourced' = sourced \ (fs \X Versions) /\ eligible' = eligible \ (fs \X Versions)
DeleteFact(f) ==
  /\ Free /\ Exists(fact[f]) /\ NoRows({f})
  /\ Deleted(Over(f), From(Over(f)))
  /\ clash' = {c \in clash : c[1] \notin Over(f)}
  /\ second' = Done /\ UNCHANGED <<jobs, vouched, untold>>

\* All memory is cleared: first what is derived, and every conflict.
ClearDerived ==
  /\ Free /\ Deleted({r \in Reflections : Exists(refl[r])}, {p \in Impressions : Exists(imp[p])})
  /\ clash' = {} /\ fact' = [f \in Facts |-> [fact[f] EXCEPT !.chal = 0]]
  /\ second' = [op |-> "clear", f |-> None] /\ UNCHANGED <<sourced, eligible, jobs, vouched, untold>>
ClearFacts ==
  /\ second.op = "clear"
  /\ NoRows({f \in Facts : Exists(fact[f])})
  /\ second' = Done /\ UNCHANGED <<deepVars, jobs, vouched, untold, ops, faults>>
-----------------------------------------------------------------------------
(* Reflections: the synthesis job.                                         *)

NoFacts == UNCHANGED <<factVars, untold>> /\ second' = Done
Absorbed == {<<s[2], s[3]>> : s \in UNION {refl[r].src : r \in Reflections}}
\* list_unabsorbed_fact_versions
Offered == {fv \in eligible \ Absorbed : Valid(fact, fv[1], fv[2])}

Prepare ==
  /\ Free /\ offer = {} /\ Cardinality(Offered) >= MinFacts /\ offer' = Offered
  /\ NoFacts /\ UNCHANGED <<deepVars, asked, vouched>>

\* The row of the batch; of it only one reflection is modelled.
Batch(key) == {r \in Reflections : Exists(refl[r]) /\ refl[r].key = key}
\* _eligible_fact_sources: the job fails on any that is not.
MayCite(cited) == \A fv \in cited : fv \in eligible \cap sourced /\ Valid(fact, fv[1], fv[2])

\* The answer of the model is written; after a crash, or with a second job of the same
\* kind, it is written again.  An answer whose structure had to be repaired forgets its
\* batch and is written under the identifier of its job, which no other job finds
\* (its own would, after a crash: that is left open).
NoKey == {}
Persist(r, cited, key) ==
  /\ Free /\ refl[r].st = None /\ (key # NoKey => Batch(key) = {}) /\ MayCite(cited)
  /\ refl' = [refl EXCEPT ![r] =
       [st |-> "tentative", cur |-> 1, src |-> {<<1, fv[1], fv[2]>> : fv \in cited},
        live |-> {fv[1] : fv \in cited}, score |-> 0, key |-> key,
        knows |-> {fv[1] : fv \in cited}]]
  /\ NoFacts /\ UNCHANGED <<imp, clash, jobs, vouched>>
\* What the model may answer: enough of the facts it was offered.
Answers == {cited \in SUBSET offer : Cardinality(cited) >= MinFacts}
Synthesize(r) == \E cited \in Answers, key \in {offer, NoKey} : Persist(r, cited, key)
JobEnds ==
  /\ second = Done /\ offer # {} /\ offer' = {}
  /\ UNCHANGED <<factVars, deepVars, asked, second, vouched, untold, ops, faults>>
-----------------------------------------------------------------------------
(* Evidence and status, of reflections and of impressions.                 *)

Up(score)   == IF score < 2 THEN score + 1 ELSE score
Down(score) == IF score > -2 THEN score - 1 ELSE score
Kinds == {"support", "refute", "direct_confirm", "direct_rebut"}
Scored(kind, score) ==
  CASE kind = "support" -> {score, Up(score)}
    [] kind = "direct_confirm" -> {Up(score)}
    [] OTHER -> {Down(score)}

\* What a signal makes of an item: good is the status a confirmed one has.
AfterSignal(x, kind, score, good) ==
  LET st == IF x.st = "tentative" /\ score >= 1 THEN good ELSE x.st
  IN CASE kind = "direct_rebut" /\ st \notin {"denied", "archived"} -> "disputed"
       [] kind = "direct_confirm" /\ score >= 1 /\ st = "disputed" -> good
       [] OTHER -> st

Vouch(x, before, after) ==
  vouched' = IF before = "disputed" /\ after # before THEN vouched \cup {x} ELSE vouched

\* apply_signal, by the user or by the evidence job; deny() then denies.
SignalRefl(r, kind) ==
  /\ Free /\ Exists(refl[r])
  /\ \E score \in Scored(kind, refl[r].score), deny \in BOOLEAN :
       LET st == IF deny THEN "denied" ELSE AfterSignal(refl[r], kind, score, "confirmed") IN
       /\ deny => kind = "direct_rebut"
       /\ refl' = [refl EXCEPT ![r].score = score, ![r].st = st]
       /\ Vouch(r, refl[r].st, st)
  /\ NoFacts /\ UNCHANGED <<imp, clash, jobs>>
SignalImp(p, kind) ==
  /\ Free /\ Exists(imp[p])
  /\ \E score \in Scored(kind, imp[p].score), deny \in BOOLEAN :
       LET st == IF deny THEN "denied" ELSE AfterSignal(imp[p], kind, score, "active") IN
       /\ deny => kind = "direct_rebut"
       /\ imp' = [imp EXCEPT ![p].score = score, ![p].st = st]
       /\ Vouch(p, imp[p].st, st)
  /\ NoFacts /\ UNCHANGED <<refl, clash, jobs>>

\* Time passes over the evidence of an item.
Toward0(score) == IF score > 0 THEN score - 1 ELSE IF score < 0 THEN score + 1 ELSE 0
FadeRefl(r) ==
  /\ Free /\ Exists(refl[r]) /\ refl' = [refl EXCEPT ![r].score = Toward0(@)]
  /\ NoFacts /\ UNCHANGED <<imp, clash, jobs, vouched>>
FadeImp(p) ==
  /\ Free /\ Exists(imp[p]) /\ imp' = [imp EXCEPT ![p].score = Toward0(@)]
  /\ NoFacts /\ UNCHANGED <<refl, clash, jobs, vouched>>

\* The user archives an item, or maintenance does at a score of -2 for long.
ArchiveRefl(r) ==
  /\ Free /\ Exists(refl[r]) /\ refl' = [refl EXCEPT ![r].st = "archived"]
  /\ NoFacts /\ UNCHANGED <<imp, clash, jobs, vouched>>
ArchiveImp(p) ==
  /\ Free /\ Exists(imp[p]) /\ imp' = [imp EXCEPT ![p].st = "archived"]
  /\ NoFacts /\ UNCHANGED <<refl, clash, jobs, vouched>>

RestoreRefl(r) ==
  /\ Free /\ Exists(refl[r]) /\ refl[r].st # "denied"
  /\ refl' = [refl EXCEPT ![r].st = IF refl[r].score >= 1 THEN "confirmed" ELSE "tentative"]
  /\ vouched' = vouched \cup {r} /\ NoFacts /\ UNCHANGED <<imp, clash, jobs>>
RestoreImp(p) ==
  /\ Free /\ Exists(imp[p]) /\ imp[p].st # "denied"
  /\ imp' = [imp EXCEPT ![p].st = "active"]
  /\ vouched' = vouched \cup {p} /\ NoFacts /\ UNCHANGED <<refl, clash, jobs>>

\* The user edits an item or rolls it back: a new version without evidence
\* and without sources; what rests on a reflection is suppressed with it.
EditRefl(r) ==
  /\ Free /\ Exists(refl[r]) /\ refl[r].cur + 1 \in Versions
  /\ refl' = [SuppressedRefl({r}) EXCEPT ![r].cur = @ + 1, ![r].score = 0, ![r].live = {}]
  /\ imp' = SuppressedImp({r}) /\ vouched' = vouched \ ({r} \cup From({r}))
  /\ NoFacts /\ UNCHANGED <<clash, jobs>>
EditImp(p) ==
  /\ Free /\ Exists(imp[p]) /\ imp[p].cur + 1 \in Versions
  /\ imp' = [imp EXCEPT ![p].cur = @ + 1, ![p].score = 0]
  /\ NoFacts /\ UNCHANGED <<refl, clash, jobs, vouched>>

DeleteRefl(r) ==
  /\ Free /\ Exists(refl[r]) /\ Deleted({r}, From({r}))
  /\ clash' = {c \in clash : c[1] # r} /\ NoFacts /\ UNCHANGED <<jobs, vouched>>
DeleteImp(p) ==
  /\ Free /\ Exists(imp[p]) /\ Deleted({}, {p})
  /\ NoFacts /\ UNCHANGED <<clash, jobs, vouched>>
-----------------------------------------------------------------------------
(* Persona impressions: the promotion job.                                 *)

Promotable(r) == refl[r].st = "confirmed" /\ ~Blocked(r) /\ refl[r].score >= 2
AskPromotion(r) ==
  /\ Free /\ asked = {} /\ Promotable(r)
  /\ asked' = {<<r, None>>} \cup {<<r, p>> : p \in {q \in Impressions : imp[q].st = "active"}}
  /\ NoFacts /\ UNCHANGED <<deepVars, offer, vouched>>

Inherit(r, p) == vouched' = IF r \in vouched THEN vouched \cup {p} ELSE vouched
Answered == asked' = {} /\ NoFacts /\ UNCHANGED offer

PromoteNew(r, p) ==
  /\ Free /\ <<r, None>> \in asked /\ imp[p].st = None
  /\ Promotable(r) /\ refl[r].live # {}
  /\ imp' = [imp EXCEPT ![p] = [st |-> "active", cur |-> 1, src |-> {<<1, r, refl[r].cur>>},
                                score |-> refl[r].score, knows |-> refl[r].knows]]
  /\ refl' = [refl EXCEPT ![r].st = "promoted"]
  /\ Inherit(r, p) /\ Answered /\ UNCHANGED clash

PromoteMerge(r, p) ==
  /\ Free /\ <<r, p>> \in asked /\ imp[p].st = "active" /\ imp[p].cur + 1 \in Versions
  /\ Promotable(r) /\ refl[r].live # {}
  /\ LET merged == [imp[p] EXCEPT !.cur = @ + 1, !.score = refl[r].score,
                                  !.src = @ \cup {<<imp[p].cur + 1, r, refl[r].cur>>},
                                  !.knows = @ \cup refl[r].knows]
     IN imp' = [imp EXCEPT ![p] = merged]
  /\ refl' = [refl EXCEPT ![r].st = "merged"]
  /\ Inherit(r, p) /\ Answered /\ UNCHANGED clash

\* The answer is that r contradicts p; neither is looked at again.
PromotionConflict(r, p) ==
  /\ Free /\ <<r, p>> \in asked /\ Exists(refl[r]) /\ Exists(imp[p]) /\ ~Blocked(r)
  /\ clash' = clash \cup {<<r, p>>}
  /\ refl' = [refl EXCEPT ![r].st = "disputed"] /\ imp' = [imp EXCEPT ![p].st = "disputed"]
  /\ vouched' = vouched \ {r, p} /\ Answered

\* The answer is to reject, or it cannot be applied any more.
NoPromotion ==
  /\ second = Done /\ asked # {} /\ asked' = {}
  /\ UNCHANGED <<factVars, deepVars, offer, second, vouched, untold, ops, faults>>
-----------------------------------------------------------------------------
OfFact(f) ==
  \/ Create(f) \/ Repeat(f) \/ Supplement(f) \/ Edit(f) \/ Archive(f) \/ Restore(f)
  \/ ArchiveDecayed(f) \/ OpenConflict(f) \/ ResolveAccept(f) \/ ResolveMerge(f)
  \/ ResolveKeep(f) \/ DeleteMessages(f) \/ DeleteFact(f)
OfRefl(r) ==
  \/ Synthesize(r) \/ FadeRefl(r) \/ ArchiveRefl(r) \/ RestoreRefl(r) \/ EditRefl(r)
  \/ DeleteRefl(r) \/ AskPromotion(r) \/ \E kind \in Kinds : SignalRefl(r, kind)
OfImp(p) ==
  \/ FadeImp(p) \/ ArchiveImp(p) \/ RestoreImp(p) \/ EditImp(p) \/ DeleteImp(p)
  \/ \E kind \in Kinds : SignalImp(p, kind)
Promotion(r, p) == PromoteNew(r, p) \/ PromoteMerge(r, p) \/ PromotionConflict(r, p)

Next ==
  \/ \E f \in Facts : OfFact(f)
  \/ \E r \in Reflections : OfRefl(r)
  \/ \E p \in Impressions : OfImp(p)
  \/ \E r \in Reflections, p \in Impressions : Promotion(r, p)
  \/ SuppressDescendants \/ ReevaluateDescendants \/ SecondIsLost
  \/ ClearDerived \/ ClearFacts \/ Prepare \/ JobEnds \/ NoPromotion

Spec == Init /\ [][Next]_vars
-----------------------------------------------------------------------------
Recalled(r) == refl[r].st = "confirmed" /\ ~Blocked(r)
Current(s)  == s[2] \in untold \/ Valid(fact, s[2], s[3])

\* Between operations, a reflection or an impression that is put in prompts
\* rests on facts that are active, current and undisputed, unless it was restored
\* or confirmed since it lost that: every way a fact can change reaches everything
\* derived from it, and what becomes valid again is only what is wholly valid.
\* (Facts archived by decay, and those whose second transaction was lost,
\* are excepted: the code leaves their descendants alone.)
SupportIsCurrent ==
  second = Done =>
    /\ \A r \in Reflections : Recalled(r) /\ r \notin vouched => \A s \in refl[r].src : Current(s)
    /\ \A p \in Impressions : imp[p].st = "active" /\ p \notin vouched =>
         \A s \in imp[p].src : \A t \in refl[s[2]].src : t[1] = s[3] => Current(t)

\* Nothing that a deleted fact went into outlives it, through whichever
\* versions and merges it came (delete_cascade).
DeletedLeavesNothing ==
  \A f \in Facts : fact[f].st = "deleted" =>
    /\ \A r \in Reflections : Exists(refl[r]) => f \notin refl[r].knows
    /\ \A p \in Impressions : Exists(imp[p]) => f \notin imp[p].knows

\* mark_promotion_conflict: "Block both sides when promotion finds an
\* unresolved semantic conflict."  The impression's side is only a status.
ConflictBlocksBothSides ==
  \A c \in clash : c[2] \notin vouched => imp[c[2]].st # "active"

\* Facts offered to a synthesis are ones that its answer may cite.
OfferedMayBeCited ==
  second = Done /\ Cardinality(Offered) >= MinFacts => MayCite(Offered)

\* Restoring a fact gives back the impressions it had suppressed, when the
\* reflections below them are in place and all their facts are valid.
InPlace(s) ==
  /\ refl[s[2]].cur = s[3] /\ refl[s[2]].st \in {"promoted", "merged"} /\ ~Blocked(s[2])
  /\ \A t \in refl[s[2]].src : Valid(fact, t[2], t[3])
RestoreGivesBack ==
  [][ReevaluateDescendants => \A p \in From(Over(second.f)) :
       imp[p].st = "disputed" /\ (\A s \in imp[p].src : InPlace(s)) => imp'[p].st = "active"]_vars
=============================================================================

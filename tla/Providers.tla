----------------------------- MODULE Providers -----------------------------
(***************************************************************************)
(* Model profiles, their keys and the tasks they are assigned to: the       *)
(* provider page with its connection test, the two save transactions of     *)
(* ApplicationController (_save_model_provider_settings and                 *)
(* _save_voice_configuration), the settings file, the credential store and  *)
(* ProviderRouter.                                                         *)
(*                                                                         *)
(* A transaction runs on the main thread, so nothing but a crash comes      *)
(* between its steps.  Each step that touches the file or the store may     *)
(* fail.  Every profile has its dynamic slot: a key lives in the domain     *)
(* <<profile, url>>.  A model stands for everything else its test covers.   *)
(***************************************************************************)
EXTENDS Naturals, FiniteSets

CONSTANTS Profiles, Urls, Models, Keys,
          Shipped, ShippedUrl, ShippedModel, FirstKey,  \* the profiles set up at the start
          MaxEdits, MaxSaves, MaxFaults, MaxCrashes     \* bounds

VARIABLES
  disk,     \* settings.json: profiles, and the voice section
  store,    \* the credential store: a key per domain and the key of the voice
  live,     \* what the running application uses: model_provider_settings, router
  page,     \* the provider page: profiles, new keys, those tested, the saved base
  test,     \* the connection test in flight
  request,  \* a generation: the profile captured by the router and the key it read
  tx,       \* the save in progress
  paired,   \* history: the keys in the store when the file was last enabled
  passed,   \* history: the combinations that passed a connection test
  report,   \* what the user was told of the last save
  edits, saves, faults, crashes

bounds == <<edits, saves, faults, crashes>>
durable == <<disk, store, paired>>
vars == <<durable, live, page, test, request, tx, passed, report, bounds>>

NoKey == "none"
NoTest == <<>>
NoRequest == [none |-> TRUE]
NoTx == NoRequest
Voice == <<"voice", "independent">>  \* the domain of the voice's own key
Domains == (Profiles \X Urls) \cup {Voice}
Gone == [here |-> FALSE, url |-> ShippedUrl, model |-> ShippedModel,
         on |-> FALSE, ok |-> FALSE, role |-> FALSE]
Profile == [here : BOOLEAN, url : Urls, model : Models, on : BOOLEAN, ok : BOOLEAN, role : BOOLEAN]
Document == [of : [Profiles -> Profile], voice : BOOLEAN]
DomainOf(d, p) == <<p, d.of[p].url>>

TypeOK ==
  /\ disk \in Document /\ live \in Document
  /\ store \in [Domains -> Keys \cup {NoKey}] /\ paired \in [Domains -> Keys \cup {NoKey}]
  /\ page.doc \in Document /\ page.base \in Document /\ page.proved \subseteq Profiles
  /\ page.keys \in [Profiles -> Keys \cup {NoKey}]
  /\ tx = NoTx \/ (tx.doc \in Document /\ tx.touched \subseteq Domains)
  /\ report \in {"none", "refused", "saved", "kept", "closed"}

Fresh(d) == [doc |-> d, base |-> d, keys |-> [p \in Profiles |-> NoKey], proved |-> {}]

Init ==
  /\ disk = [of |-> [p \in Profiles |-> IF p \in Shipped
                       THEN [Gone EXCEPT !.here = TRUE, !.on = TRUE, !.ok = TRUE, !.role = TRUE]
                       ELSE Gone],
             voice |-> TRUE]
  /\ store = [d \in Domains |-> IF d \in (Shipped \X {ShippedUrl}) \cup {Voice} THEN FirstKey ELSE NoKey]
  /\ paired = store /\ live = disk
  /\ page = Fresh(disk) /\ test = NoTest /\ request = NoRequest /\ tx = NoTx
  /\ passed = {<<p, ShippedUrl, ShippedModel, FirstKey>> : p \in Shipped}
  /\ report = "none"
  /\ edits = 0 /\ saves = 0 /\ faults = 0 /\ crashes = 0
-----------------------------------------------------------------------------
(* The page.  Nothing here is durable.                                     *)

Edits(p, new) == /\ tx = NoTx /\ edits < MaxEdits /\ edits' = edits + 1
                 /\ page' = [page EXCEPT !.doc.of[p] = new]
                 /\ UNCHANGED <<durable, live, test, request, tx, passed, report,
                                saves, faults, crashes>>

\* _candidate: a changed request contract invalidates the test
Configure(p) ==
  \E u \in Urls, m \in Models :
    LET now == page.doc.of[p] IN
    /\ now.here /\ <<u, m>> # <<now.url, now.model>>
    /\ Edits(p, [now EXCEPT !.url = u, !.model = m, !.ok = FALSE])

Toggle(p) == page.doc.of[p].here /\ Edits(p, [page.doc.of[p] EXCEPT !.on = ~@])
Assign(p) == page.doc.of[p].here /\ Edits(p, [page.doc.of[p] EXCEPT !.role = ~@])
\* _add_profile takes a fresh profile id: one that was never in the file.
AddProfile(p) == /\ ~page.doc.of[p].here /\ ~page.base.of[p].here
                 /\ Edits(p, [Gone EXCEPT !.here = TRUE])
DeleteProfile(p) ==
  /\ page.doc.of[p].here /\ ~page.doc.of[p].role
  /\ tx = NoTx /\ edits < MaxEdits /\ edits' = edits + 1
  /\ page' = [page EXCEPT !.doc.of[p] = Gone, !.keys[p] = NoKey, !.proved = @ \ {p}]
  /\ UNCHANGED <<durable, live, test, request, tx, passed, report, saves, faults, crashes>>

\* _editor_changed: typing a key, or typing and clearing it again
TypeKey(p) ==
  /\ page.doc.of[p].here /\ tx = NoTx /\ edits < MaxEdits /\ edits' = edits + 1
  /\ \E k \in Keys \cup {NoKey} :
       page' = [page EXCEPT !.doc.of[p].ok = FALSE, !.keys[p] = k, !.proved = @ \ {p}]
  /\ UNCHANGED <<durable, live, test, request, tx, passed, report, saves, faults, crashes>>

\* _effective_secret
KeyFor(p) == IF page.keys[p] # NoKey THEN page.keys[p] ELSE store[DomainOf(page.doc, p)]
Tuple(p) == <<p, page.doc.of[p].url, page.doc.of[p].model, KeyFor(p)>>

StartTest(p) ==
  /\ tx = NoTx /\ test = NoTest
  /\ page.doc.of[p].here /\ KeyFor(p) # NoKey
  /\ test' = Tuple(p)
  /\ UNCHANGED <<durable, live, page, request, tx, passed, report, bounds>>

\* Mutant: the answer is taken for whatever the page shows by now.
AcceptsAny(p) == page.doc.of[p].here
\* _test_succeeded compares the request and the key the test was started with.
Accepts(p) == page.doc.of[p].here /\ Tuple(p) = test

\* mark_tested: a typed key is proved with the profile.
Marked(p) ==
  [page EXCEPT !.doc.of[p].ok = TRUE,
               !.proved = IF page.keys[p] # NoKey THEN @ \cup {p} ELSE @ \ {p}]

\* The worker reports on the profile and the key it was started with.
TestPasses(p) ==
  /\ test # NoTest /\ test[1] = p /\ tx = NoTx
  /\ passed' = passed \cup {test}
  /\ test' = NoTest
  /\ page' = IF Accepts(p) THEN Marked(p) ELSE page
  /\ UNCHANGED <<durable, live, request, tx, report, bounds>>

TestFails ==
  /\ test # NoTest /\ tx = NoTx /\ test' = NoTest
  /\ UNCHANGED <<durable, live, page, request, tx, passed, report, bounds>>
-----------------------------------------------------------------------------
(* The router: a request captures a profile and later reads the key.       *)

Capture(p) ==
  /\ tx = NoTx /\ request = NoRequest
  /\ live.of[p].role /\ live.of[p].on /\ live.of[p].ok
  /\ request' = [p |-> p, url |-> live.of[p].url, pair |-> paired[DomainOf(live, p)], key |-> NoKey]
  /\ UNCHANGED <<durable, live, page, test, tx, passed, report, bounds>>

ReadKey ==
  /\ request # NoRequest /\ request.key = NoKey
  /\ request' = [request EXCEPT !.key = store[<<request.p, request.url>>]]
  /\ UNCHANGED <<durable, live, page, test, tx, passed, report, bounds>>

RequestEnds ==
  /\ request # NoRequest /\ request' = NoRequest
  /\ UNCHANGED <<durable, live, page, test, tx, passed, report, bounds>>
-----------------------------------------------------------------------------
(* Saving the profiles.                                                    *)

Fault == faults < MaxFaults /\ faults' = faults + 1
NoFault == UNCHANGED faults

Assigned(d) == {p \in Profiles : d.of[p].role}
Off(d) == [of |-> [p \in Profiles |-> [d.of[p] EXCEPT !.on = FALSE]], voice |-> FALSE]

\* Mutant: a save does not wait for the reply in progress.
NobodyAsks == TRUE
\* A save is refused while a conversation or a background generation runs.
Quiet == request = NoRequest

\* _save of the page, and the validation of the controller
Saveable ==
  /\ \A p \in Assigned(page.doc) : page.doc.of[p].on /\ page.doc.of[p].ok /\ KeyFor(p) # NoKey
  /\ \A p \in Assigned(page.doc) : page.keys[p] # NoKey => p \in page.proved

\* The domains no profile of the new document uses any more.
Retired(old, new) ==
  {DomainOf(old, p) : p \in {q \in Profiles : /\ old.of[q].here
                                              /\ ~new.of[q].here \/ DomainOf(old, q) # DomainOf(new, q)}}

\* The snapshots of the file and of the keys that the transaction is about to
\* change, and what it has to do.
Transaction ==
  [kind |-> "profiles", at |-> "marker", doc |-> [page.doc EXCEPT !.voice = live.voice],
   writes |-> {p \in Profiles : page.keys[p] # NoKey},
   deletes |-> Retired(live, page.doc), touched |-> {},
   disk |-> disk, store |-> store, paired |-> paired, live |-> live,
   marked |-> FALSE, whole |-> TRUE]

\* The submission
Save ==
  /\ tx = NoTx /\ test = NoTest /\ saves < MaxSaves /\ saves' = saves + 1
  /\ Saveable
  /\ IF Quiet
     THEN \/ tx' = Transaction /\ UNCHANGED <<report, faults>>
          \/ /\ faults < MaxFaults /\ faults' = faults + 1  \* a snapshot fails
             /\ report' = "refused" /\ UNCHANGED tx
     ELSE report' = "refused" /\ UNCHANGED <<tx, faults>>
  /\ UNCHANGED <<durable, live, page, test, request, passed, edits, crashes>>

At(kind, where) == tx # NoTx /\ tx.kind = kind /\ tx.at = where
Goes(where) == tx' = [tx EXCEPT !.at = where]
world == <<passed, test, request, edits, saves, crashes>>
\* The settings file is replaced as a whole, a key of the store by itself.
File(d) == disk' = d
Put(d, k) == store' = [store EXCEPT ![d] = k]

\* The document with everything disabled goes to the file first.
Mark ==
  /\ At("profiles", "marker")
  /\ \/ File(Off(tx.doc)) /\ tx' = [tx EXCEPT !.at = "keys", !.marked = TRUE] /\ NoFault
     \/ Goes("undo") /\ UNCHANGED disk /\ Fault
  /\ UNCHANGED <<store, paired, live, page, report, world>>

WriteKey(p) ==
  /\ At("profiles", "keys") /\ p \in tx.writes
  /\ LET d == DomainOf(tx.doc, p)
         tried == [tx EXCEPT !.writes = @ \ {p}, !.touched = @ \cup {d}] IN
     \/ Put(d, page.keys[p]) /\ tx' = tried /\ NoFault
     \/ tx' = [tried EXCEPT !.at = "undo"] /\ UNCHANGED store /\ Fault
  /\ UNCHANGED <<disk, paired, live, page, report, world>>

HasKeys == \A p \in Assigned(tx.doc) : store[DomainOf(tx.doc, p)] # NoKey

KeysWritten ==
  /\ At("profiles", "keys") /\ tx.writes = {}
  /\ Goes(IF HasKeys THEN "retire" ELSE "undo")
  /\ UNCHANGED <<durable, live, page, report, faults, world>>

Retire(d) ==
  /\ At("profiles", "retire") /\ d \in tx.deletes
  /\ LET tried == [tx EXCEPT !.deletes = @ \ {d}, !.touched = @ \cup {d}] IN
     \/ Put(d, NoKey) /\ tx' = tried /\ NoFault
     \/ tx' = [tried EXCEPT !.at = "undo"] /\ UNCHANGED store /\ Fault
  /\ UNCHANGED <<disk, paired, live, page, report, world>>

\* The candidate is enabled in the file, then in the router.
Commit ==
  /\ At("profiles", "retire") /\ tx.deletes = {}
  /\ \/ /\ HasKeys
        /\ File(tx.doc) /\ live' = tx.doc
        /\ paired' = [store EXCEPT ![Voice] = paired[Voice]]
        /\ page' = Fresh(page.doc)
        /\ tx' = NoTx /\ report' = "saved" /\ NoFault
     \/ /\ Goes("undo") /\ Fault
        /\ UNCHANGED <<disk, paired, live, page, report>>
  /\ UNCHANGED <<store, world>>

\* Mutant: the rollback removes the key it wrote and forgets the old one.
Erased(d) == NoKey
\* The key of the domain before the transaction.
Previous(d) == tx.store[d]

\* The keys go back first.
UndoKey(d) ==
  /\ At("profiles", "undo") /\ d \in tx.touched
  /\ LET tried == [tx EXCEPT !.touched = @ \ {d}] IN
     \/ Put(d, Previous(d)) /\ tx' = tried /\ NoFault
     \/ tx' = [tried EXCEPT !.whole = FALSE] /\ UNCHANGED store /\ Fault
  /\ UNCHANGED <<disk, paired, live, page, report, world>>

\* Mutant: the file is enabled again although a key could not be put back.
RestoreAnyway == TRUE
\* The old file is enabled again only when every key is back.
MayRestore == tx.whole

\* The end of a rollback: either everything is as before, or the profiles
\* stay disabled in the file, in memory and on the page.
Restore ==
  /\ At("profiles", "undo") /\ tx.touched = {}
  /\ \/ /\ MayRestore
        /\ IF tx.marked THEN File(tx.disk) /\ paired' = tx.paired ELSE UNCHANGED <<disk, paired>>
        /\ report' = "kept" /\ NoFault /\ UNCHANGED <<live, page>>
     \/ /\ IF MayRestore THEN tx.marked /\ Fault ELSE NoFault
        /\ File(Off(tx.doc)) /\ UNCHANGED paired
        /\ live' = Off(tx.doc) /\ page' = Fresh(Off(tx.doc)) /\ report' = "closed"
  /\ tx' = NoTx
  /\ UNCHANGED <<store, world>>
-----------------------------------------------------------------------------
(* Saving the voice section, with a key of its own.                        *)

SaveVoice ==
  /\ tx = NoTx /\ saves < MaxSaves /\ saves' = saves + 1
  /\ \E on \in BOOLEAN, k \in Keys \cup {NoKey}, before \in {store[Voice], NoKey} :
       /\ IF before = store[Voice] THEN NoFault ELSE Fault  \* the old key could not be read
       /\ tx' = [kind |-> "voice", at |-> "marker", doc |-> [live EXCEPT !.voice = on],
                 key |-> k, before |-> before, wrote |-> FALSE, touched |-> {},
                 disk |-> disk, store |-> store, paired |-> paired, live |-> live]
  /\ UNCHANGED <<durable, live, page, test, request, passed, report, edits, crashes>>

MarkVoice ==
  /\ At("voice", "marker")
  /\ \/ File([tx.doc EXCEPT !.voice = FALSE]) /\ Goes("key") /\ NoFault
     \/ Goes("restore") /\ UNCHANGED disk /\ Fault
  /\ UNCHANGED <<store, paired, live, page, report, world>>

WriteVoiceKey ==
  /\ At("voice", "key")
  /\ \/ /\ tx.key # NoKey /\ Put(Voice, tx.key)
        /\ tx' = [tx EXCEPT !.wrote = TRUE, !.at = "services"] /\ NoFault
     \/ tx.key # NoKey /\ Goes("restore") /\ UNCHANGED store /\ Fault
     \/ /\ tx.key = NoKey /\ UNCHANGED store /\ NoFault
        /\ Goes(IF tx.doc.voice /\ store[Voice] = NoKey THEN "restore" ELSE "services")
  /\ UNCHANGED <<disk, paired, live, page, report, world>>

\* set_services, then the file is enabled.
CommitVoice ==
  /\ At("voice", "services")
  /\ \/ /\ File(tx.doc) /\ live' = tx.doc /\ paired' = [paired EXCEPT ![Voice] = store[Voice]]
        /\ tx' = NoTx /\ report' = "saved" /\ NoFault
     \/ /\ Goes("restore") /\ Fault
        /\ UNCHANGED <<disk, paired, live, report>>
  /\ UNCHANGED <<store, page, world>>

\* The rollback of the voice restores the file first; what fails is ignored.
RestoreVoiceFile ==
  /\ At("voice", "restore") /\ Goes("keyback")
  /\ \/ File(tx.disk) /\ paired' = tx.paired /\ NoFault
     \/ UNCHANGED <<disk, paired>> /\ Fault
  /\ UNCHANGED <<store, live, page, report, world>>

RestoreVoiceKey ==
  /\ At("voice", "keyback") /\ tx' = NoTx /\ report' = "kept"
  /\ \/ ~tx.wrote /\ UNCHANGED store /\ NoFault
     \/ tx.wrote /\ Put(Voice, tx.before) /\ NoFault
     \/ tx.wrote /\ UNCHANGED store /\ Fault
  /\ UNCHANGED <<disk, paired, live, page, world>>
-----------------------------------------------------------------------------
(* A crash, and the start after it.                                        *)

\* _reconcile_model_provider_credentials
Reconciled ==
  [disk EXCEPT !.of = [p \in Profiles |->
     [disk.of[p] EXCEPT !.on = /\ @
                               /\ disk.of[p].role => disk.of[p].ok
                               /\ store[DomainOf(disk, p)] # NoKey]]]

Crash ==
  /\ crashes < MaxCrashes /\ crashes' = crashes + 1
  /\ live' = Reconciled /\ page' = Fresh(Reconciled)
  /\ \/ File(Reconciled) /\ NoFault
     \/ UNCHANGED disk /\ Reconciled # disk /\ Fault
  /\ test' = NoTest /\ request' = NoRequest /\ tx' = NoTx /\ report' = "none"
  /\ UNCHANGED <<store, paired, passed, edits, saves>>

Next ==
  \/ \E p \in Profiles : \/ Configure(p) \/ Toggle(p) \/ Assign(p) \/ AddProfile(p)
                         \/ DeleteProfile(p) \/ TypeKey(p)
                         \/ StartTest(p) \/ TestPasses(p) \/ Capture(p) \/ WriteKey(p)
  \/ TestFails \/ ReadKey \/ RequestEnds
  \/ Save \/ Mark \/ KeysWritten \/ Commit \/ Restore
  \/ \E d \in Domains : Retire(d) \/ UndoKey(d)
  \/ SaveVoice \/ MarkVoice \/ WriteVoiceKey \/ CommitVoice
  \/ RestoreVoiceFile \/ RestoreVoiceKey
  \/ Crash

-----------------------------------------------------------------------------
(* Properties.                                                             *)

\* Whatever a save did and wherever it failed or the application died: a
\* profile that the settings file enables has the key in its domain that was
\* there when the file was enabled.
DiskIsPaired ==
  \A p \in Profiles : disk.of[p].on => store[DomainOf(disk, p)] = paired[DomainOf(disk, p)]

\* A request reads the key that belongs to the configuration it captured.
RequestReadsItsKey == request # NoRequest /\ request.key # NoKey => request.key = request.pair

\* What runs a task passed a connection test with the key it uses, as long as
\* nothing failed.
Tested == \A p \in Assigned(live) :
            live.of[p].on => <<p, live.of[p].url, live.of[p].model, store[DomainOf(live, p)]>> \in passed
TestedUnlessFaults == tx = NoTx /\ faults = 0 /\ crashes = 0 => Tested

\* Keys and configurations belong together: the three above.
KeysArePaired == DiskIsPaired /\ RequestReadsItsKey /\ TestedUnlessFaults

\* "Changed configuration or keys must be tested again" also after a fault.
EnabledWasTested == tx = NoTx => Tested

\* When the user is told that the old profiles, keys and routes are kept,
\* they are.
Kept == tx # NoTx /\ tx' = NoTx /\ report' = "kept" /\ tx.kind = "profiles" =>
          disk' = tx.disk /\ store' = tx.store /\ live' = tx.live
KeptIsTrue == [][Kept]_vars

\* The same message of a voice save.
VoiceKeptIsTrue ==
  [][(tx # NoTx /\ tx' = NoTx /\ report' = "kept" /\ tx.kind = "voice") =>
       disk' = tx.disk /\ store' = tx.store]_vars

Spec == Init /\ [][Next]_vars
=============================================================================

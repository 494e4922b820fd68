----------------------------- MODULE OwnerAlerts -----------------------------
(***************************************************************************)
(* Whose validators a block slashes or lets exit, and who hears of it: the *)
(* handlers of src/handlers/slashing.py and src/handlers/exit.py, with the *)
(* two tables of the watcher they look into while its updater threads      *)
(* change them: `indexed_validators_keys` (`_update_validators`, and       *)
(* `parse_validators` of src/providers/consensus/client.py, which adds to  *)
(* the table in place while the answer streams in) and `user_keys`         *)
(* (`_update_user_keys`, which replaces it).                               *)
(*                                                                         *)
(* An attempt at a head may fail, between two alerts or in a request, and  *)
(* the head is tried again, with the tables as they are by then.           *)
(*                                                                         *)
(* Abstracted: a validator's index stands for its key; what the tasks of a *)
(* failed attempt still do is HeadLoop's; what VEBO and the                *)
(* ConsolidationBus requested is known (ExitRequests, BusRequests); a      *)
(* validator is looked up in both tables in one step, since neither ever   *)
(* loses an entry.                                                         *)
(***************************************************************************)
EXTENDS Naturals, FiniteSets, FiniteSetsExt

CONSTANTS Validators,     \* validator indexes
          SlotsPerEpoch,  \* SLOTS_PER_EPOCH
          Requested,      \* validators VEBO asked to exit
          Consolidated,   \* validators of a requested consolidation
          Muted,          \* validators of a module without exit alerts
          MaxEvents,      \* bound: validators a block is about
          MaxSlot,        \* bound: length of a run
          MaxFailures     \* bound: attempts that fail

VARIABLES slot,       \* wall clock, in slots
          registry,   \* validators of the beacon chain
          ours,       \* keys the keys source knows
          head,       \* newest block: its slot and what happens in it
          polled,     \* slot of the last head the loop started on
          handled,    \* slot of the last head in handled_headers
          index,      \* indexed_validators_keys
          indexer,    \* the thread of `_update_validators`
          userKeys,   \* user_keys
          keysUpdater,  \* the thread of `_update_user_keys`
          task,       \* the threads of the two handlers
          known,      \* history: in both tables when the head was first tried
          iterated,   \* history: the loop got round in this slot, an epoch's first
          asked,      \* history: the index was asked for in this slot, likewise
          reported,   \* alerts for this head: kind and validator
          failures    \* history: attempts that failed

clock == <<slot, registry, ours, head>>
loop == <<polled, handled, known, failures>>
tables == <<index, indexer, userKeys, keysUpdater>>
history == <<iterated, asked>>
vars == <<slot, registry, ours, head, polled, handled, index, indexer,
          userKeys, keysUpdater, task, known, iterated, asked, reported,
          failures>>

Handlers == {"slashings", "exits"}
NoTask == [pc |-> "idle", todo |-> {}, user |-> {}, unknown |-> {},
           other |-> {}]

Init ==
    /\ slot = 1
    /\ registry \in SUBSET Validators
    /\ ours \in SUBSET Validators
    /\ head = [slot |-> 0, slashings |-> {}, exits |-> {}]
    /\ polled = 0
    /\ handled = 0
    /\ index = {}
    /\ indexer = [pc |-> "idle", todo |-> {}]
    /\ userKeys = {}
    /\ keysUpdater = "idle"
    /\ task = [h \in Handlers |-> NoTask]
    /\ known = {}
    /\ iterated = FALSE
    /\ asked = FALSE
    /\ reported = {}
    /\ failures = 0

-----------------------------------------------------------------------------
(* The chain and the keys source.                                          *)

\* A slot passes; an epoch begins with validators added to the registry.
Tick(added) ==
    /\ slot < MaxSlot
    /\ slot' = slot + 1
    /\ added # {} => (slot + 1) % SlotsPerEpoch = 0
    /\ registry' = registry \union added
    /\ iterated' = FALSE
    /\ asked' = FALSE
    /\ UNCHANGED <<ours, head, loop, tables, task, reported>>

\* A key is submitted before its validator is on the chain.
KeySubmitted(v) ==
    /\ v \notin ours \union registry
    /\ ours' = ours \union {v}
    /\ UNCHANGED <<slot, registry, head, loop, tables, task, history, reported>>

\* Attesters are slashed for what two attestations have in common.
Slashings(proposers, attesters1, attesters2) ==
    proposers \union (attesters1 \intersect attesters2)

SlashedSets == {Slashings(p, a1, a2) : p, a1, a2 \in SUBSET registry}

NewBlock(slashings, exits) ==
    /\ Cardinality(slashings) + Cardinality(exits) <= MaxEvents
    /\ head' = [slot |-> slot, slashings |-> slashings, exits |-> exits]
    /\ UNCHANGED <<slot, registry, ours, loop, tables, task, history, reported>>

-----------------------------------------------------------------------------
(* The main loop and the updaters.                                         *)

EpochBegins == slot % SlotsPerEpoch = 0

AtRest == \A h \in Handlers : task[h].pc = "idle"

\* A head that is not the one handled last starts the updaters that do not run,
\* then the handlers.
Poll ==
    /\ AtRest
    /\ handled # head.slot
    /\ polled' = head.slot
    /\ iterated' = EpochBegins
    /\ keysUpdater' = "running"
    /\ indexer' = IF indexer.pc = "idle" THEN [indexer EXCEPT !.pc = "look"]
                                         ELSE indexer
    /\ task' = [h \in Handlers |->
                   [NoTask EXCEPT !.pc = "run", !.todo = head[h]]]
    /\ known' = IF polled = head.slot THEN known ELSE index \intersect userKeys
    /\ reported' = IF polled = head.slot THEN reported ELSE {}
    /\ UNCHANGED <<clock, handled, index, userKeys, asked, failures>>

\* No new head: the iteration ends before it comes to the updaters.
PollNothing ==
    /\ AtRest
    /\ handled = head.slot
    /\ iterated' = EpochBegins
    /\ UNCHANGED <<clock, loop, tables, task, asked, reported>>

\* Both handlers have ended: the head is recorded.
Complete ==
    /\ \A h \in Handlers : task[h].pc = "done"
    /\ handled' = polled
    /\ task' = [h \in Handlers |-> NoTask]
    /\ UNCHANGED <<clock, polled, tables, known, history, reported, failures>>

\* Mutated form of KeysTaken: the two tables are mixed up.
KeysMixedUp(new) == IF new # {} THEN index ELSE userKeys

\* `if new_keys:`; no new keys, or a failure, leaves the table alone.
KeysTaken(new) == IF new # {} THEN new ELSE userKeys

KeysUpdated(new) ==
    /\ keysUpdater = "running"
    /\ keysUpdater' = "idle"
    /\ userKeys' = KeysTaken(new)
    /\ UNCHANGED <<clock, loop, index, indexer, task, history, reported>>

\* A filled index is left alone but for the first slot of an epoch.
IndexIsDue == index = {} \/ EpochBegins

\* The clock is read in the thread.
IndexLook ==
    /\ indexer.pc = "look"
    /\ asked' = (asked \/ (EpochBegins /\ IndexIsDue))
    /\ indexer' = [indexer EXCEPT !.pc = IF IndexIsDue THEN "request"
                                                       ELSE "idle"]
    /\ UNCHANGED <<clock, loop, index, userKeys, keysUpdater, task, iterated,
                   reported>>

IndexRequest ==
    /\ indexer.pc = "request"
    /\ indexer' = [pc |-> "stream", todo |-> registry]
    /\ UNCHANGED <<clock, loop, index, userKeys, keysUpdater, task, history,
                   reported>>

\* The next validator of the stream.
IndexOne ==
    /\ indexer.pc = "stream"
    /\ indexer.todo # {}
    /\ LET v == Min(indexer.todo) IN
          /\ index' = index \union {v}
          /\ indexer' = [indexer EXCEPT !.todo = @ \ {v}]
    /\ UNCHANGED <<clock, loop, userKeys, keysUpdater, task, history, reported>>

\* The stream is at its end, or broken: what it brought stays.
IndexEnds ==
    /\ indexer.pc \in {"request", "stream"}
    /\ indexer' = [pc |-> "idle", todo |-> {}]
    /\ UNCHANGED <<clock, loop, index, userKeys, keysUpdater, task, history,
                   reported>>

-----------------------------------------------------------------------------
(* The two handlers.                                                       *)

Owner(v) ==
    IF v \notin index THEN "unknown"
    ELSE IF v \in userKeys THEN "user" ELSE "other"

Classify(h, v) ==
    /\ task[h].pc = "run"
    /\ v \in task[h].todo
    /\ task' = [task EXCEPT ![h].todo = @ \ {v},
                            ![h][Owner(v)] = @ \union {v}]
    /\ UNCHANGED <<clock, loop, tables, history, reported>>

\* Mutated form of Unexpected: who exits for a consolidation is not reported
\* as unexpected.
UnexpectedAlone(v) == v \notin Requested \union Muted \union Consolidated

\* Not asked to exit by VEBO, and its module has exit alerts.
Unexpected(v) == v \notin Requested /\ v \notin Muted

SlashingAlerts(t) == {<<"user", v>> : v \in t.user}
                        \union {<<"unknown", v>> : v \in t.unknown}
                        \union {<<"other", v>> : v \in t.other}

\* Other people's exits are no one's concern.
ExitAlerts(t) ==
    {<<"unexpected_exit", v>> : v \in {u \in t.user : Unexpected(u)}}
        \union {<<"consolidation_exit", v>> :
                    v \in t.user \intersect Consolidated}
        \union {<<"unknown_exit", v>> : v \in t.unknown}

AlertsOf(h) == IF h = "exits" THEN ExitAlerts(task[h])
                              ELSE SlashingAlerts(task[h])

\* `_send_alerts` of both handlers.
SendAlerts(h) ==
    /\ task[h].pc = "run"
    /\ task[h].todo = {}
    /\ reported' = reported \union AlertsOf(h)
    /\ task' = [task EXCEPT ![h].pc = "done"]
    /\ UNCHANGED <<clock, loop, tables, history>>

\* The kinds of alerts in the order they are sent, one POST for each.
Order(h) ==
    IF h = "exits" THEN <<"unexpected_exit", "consolidation_exit", "unknown_exit">>
                   ELSE <<"user", "unknown", "other">>

\* A POST, or a request before it, fails after some of the alerts.
SendFails(h) ==
    /\ task[h].pc = "run"
    /\ task[h].todo = {}
    /\ failures < MaxFailures
    /\ failures' = failures + 1
    /\ \E n \in 0 .. 2 :
          reported' = reported \union
              {a \in AlertsOf(h) : \E i \in 1 .. n : a[1] = Order(h)[i]}
    /\ task' = [g \in Handlers |-> NoTask]
    /\ UNCHANGED <<clock, polled, handled, tables, known, history>>

Next ==
    \/ \E added \in SUBSET (Validators \ registry) : Tick(added)
    \/ \E v \in Validators : KeySubmitted(v)
    \/ /\ head.slot < slot
       /\ \E slashings \in SlashedSets, exits \in SUBSET registry :
             NewBlock(slashings, exits)
    \/ Poll
    \/ PollNothing
    \/ Complete
    \/ \E new \in {{}, ours} : KeysUpdated(new)
    \/ IndexLook
    \/ IndexRequest
    \/ IndexOne
    \/ IndexEnds
    \/ \E h \in Handlers :
          \/ \E v \in task[h].todo : Classify(h, v)
          \/ SendAlerts(h)
          \/ SendFails(h)

Spec == Init /\ [][Next]_vars

-----------------------------------------------------------------------------
(* Properties.                                                             *)

\* Types; the two tables hold validators of the registry and keys of the source,
\* and neither is filled with what belongs in the other (`_update_validators`,
\* `_update_user_keys`).
TypeOK ==
    /\ slot \in 1 .. MaxSlot
    /\ registry \subseteq Validators /\ ours \subseteq Validators
    /\ head \in [slot : 0 .. slot, slashings : SUBSET registry,
                 exits : SUBSET registry]
    /\ polled \in 0 .. head.slot /\ handled \in 0 .. polled
    /\ index \subseteq registry
    /\ indexer \in [pc : {"idle", "look", "request", "stream"},
                    todo : SUBSET registry]
    /\ userKeys \subseteq ours
    /\ keysUpdater \in {"idle", "running"}
    /\ task \in [Handlers -> [pc : {"idle", "run", "done"},
                              todo : SUBSET registry, user : SUBSET registry,
                              unknown : SUBSET registry,
                              other : SUBSET registry]]
    /\ known \subseteq index \intersect userKeys
    /\ failures \in 0 .. MaxFailures
    /\ iterated \in BOOLEAN /\ asked \in BOOLEAN

\* A head counts as handled only when what both tables held as it was first
\* tried is reported as ours, although attempts failed and updaters replaced
\* one table and filled the other meanwhile: its slashing always, its exit
\* unless it was asked for or muted, and an exit for a requested consolidation
\* in any case.  It is never called unknown or somebody else's.
KnownUsersReported ==
    polled # 0 /\ polled = head.slot =>
        /\ \A v \in known : \A a \in reported :
              a[2] = v => a[1] \notin {"unknown", "other", "unknown_exit"}
        /\ handled = polled =>
              /\ \A v \in head.slashings \intersect known :
                    <<"user", v>> \in reported
              /\ \A v \in head.exits \intersect known :
                    /\ v \in Requested \union Muted
                          \/ <<"unexpected_exit", v>> \in reported
                    /\ v \in Consolidated =>
                          <<"consolidation_exit", v>> \in reported

\* When the loop gets round in the first slot of an epoch, and it is not its
\* first time, the index is asked for, block or no block (watcher.py,
\* `_update_validators`: "At this moment there is no new head, but we should
\* get validators by slot anyway").
EpochRefreshed ==
    iterated /\ polled # 0 => asked \/ indexer.pc # "idle"
=============================================================================

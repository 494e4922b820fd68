---------------------------- MODULE ExitRequests ----------------------------
(***************************************************************************)
(* The cache of validators the Validators Exit Bus Oracle (VEBO) asked to  *)
(* exit: src/utils/exit.py `get_last_requested_validator_exit_indexes`, as *)
(* `ExitsHandler._update_last_requested_exit_indexes` calls it, and the    *)
(* ranged event reader it uses, src/utils/events.py `get_events_in_range`. *)
(*                                                                         *)
(* The cache maps a block to the requests in it.  An update reads the      *)
(* processed total, fetches the events since the newest cached block in    *)
(* steps of EVENTS_SEARCH_STEP, prunes what left the lookback window and   *)
(* writes the total back.  The events of a fetch are added one by one, an  *)
(* entry for their block first.  Any request to the node and any event may *)
(* fail, which leaves what was added so far in the cache, the last entry   *)
(* perhaps half-filled.  A task abandoned by the main loop runs on next to *)
(* its retry: both share the cache and the total.                          *)
(*                                                                         *)
(* Abstracted: the look for an entry and its creation are one step, so is  *)
(* the pruning; blocks are numbered from 1, the window keeps its length    *)
(* and the chain does not reorganise.                                      *)
(***************************************************************************)
EXTENDS Integers, Sequences, FiniteSets, FiniteSetsExt, Functions

CONSTANTS Validators,  \* validators VEBO may ask to exit
          Tasks,       \* handler tasks that may run at the same time
          LookBack,    \* EXIT_EVENTS_LOOKBACK_WINDOW_IN_SLOTS
          Step,        \* EVENTS_SEARCH_STEP
          MaxBlock,    \* bound: blocks of the execution chain
          MaxRequests  \* bound: requests on it

ASSUME ValidatorsAssumption == IsFiniteSet(Validators)
ASSUME LookBackAssumption == LookBack \in Nat
ASSUME StepAssumption == Step \in Nat
ASSUME BoundsAssumption == MaxBlock \in Nat /\ MaxRequests \in Nat

VARIABLES requests,    \* requests[b]: validators asked to exit in block b
          total,       \* total[b]: getTotalRequestsProcessed at block b
          cache,       \* ExitsHandler.last_requested_exit_indexes
          lastTotal,   \* ExitsHandler.last_total_vebo_requests_processed
          pc,          \* where each task is
          cur,         \* the block of the head each task handles
          seen,        \* each task's copy of lastTotal (ValidatorExitsInfo)
          from,        \* each task's next block to fetch
          ahead,       \* each task's events fetched and not yet added
          newest,      \* history: the newest block a task was started for
          covered,     \* history: the block lastTotal was read at
          skipped      \* history: blocks skipped with an entry not whole

chain == <<requests, total>>
vars == <<requests, total, cache, lastTotal, pc, cur, seen, from, ahead,
          newest, covered, skipped>>

Blocks == 1 .. MaxBlock
Height == Len(requests)

\* The oracle has processed nothing before the first block.
TotalAt(n) == IF n = 0 THEN 0 ELSE total[n]

\* What `cached_block < current_block_number - lookup_window` keeps.
InWindow(b, n) == b >= n - LookBack

Init ==
    /\ requests = <<>>
    /\ total = <<>>
    /\ cache = [b \in {} |-> {}]
    /\ lastTotal = 0
    /\ pc = [t \in Tasks |-> "idle"]
    /\ cur = [t \in Tasks |-> 0]
    /\ seen = [t \in Tasks |-> [total |-> 0, at |-> 0]]
    /\ from = [t \in Tasks |-> 0]
    /\ ahead = [t \in Tasks |-> {}]
    /\ newest = 0
    /\ covered = 0
    /\ skipped = {}

\* The chain grows: an oracle report may ask validators to exit.
NewBlock(asked) ==
    /\ Height < MaxBlock
    /\ TotalAt(Height) + Cardinality(asked) <= MaxRequests
    /\ requests' = Append(requests, asked)
    /\ total' = Append(total, TotalAt(Height) + Cardinality(asked))
    /\ UNCHANGED <<cache, lastTotal, pc, cur, seen, from, ahead, newest,
                   covered, skipped>>

\* A head is handled, the newest one or the same again; the task copies the
\* last total into its ValidatorExitsInfo.
Begin(t, n) ==
    /\ pc[t] \in {"idle", "answered", "empty_range"}
    /\ n >= newest
    /\ pc' = [pc EXCEPT ![t] = "total"]
    /\ cur' = [cur EXCEPT ![t] = n]
    /\ seen' = [seen EXCEPT ![t] = [total |-> lastTotal, at |-> covered]]
    /\ newest' = n
    /\ UNCHANGED <<chain, cache, lastTotal, from, ahead, covered, skipped>>

\* A call to the node raises, an event is out of range (InconsistentEvents) or
\* cannot be decoded: the task fails, the cache keeps what it has.
Fails(t) ==
    /\ pc[t] \in {"total", "open", "fetch", "add"}
    /\ pc' = [pc EXCEPT ![t] = "idle"]
    /\ ahead' = [ahead EXCEPT ![t] = {}]
    /\ UNCHANGED <<chain, cache, lastTotal, cur, seen, from, newest, covered,
                   skipped>>

\* `total_requests_processed <= exits_info.last_total_requests_processed`.
NothingNew(t) == total[cur[t]] <= seen[t].total

\* Early return: the caller writes the total it had copied back.
EarlyReturn(t) ==
    /\ pc[t] = "total"
    /\ NothingNew(t)
    /\ pc' = [pc EXCEPT ![t] = "answered"]
    /\ lastTotal' = seen[t].total
    /\ covered' = seen[t].at
    /\ UNCHANGED <<chain, cache, cur, seen, from, ahead, newest, skipped>>

ReadTotal(t) ==
    /\ pc[t] = "total"
    /\ ~NothingNew(t)
    /\ pc' = [pc EXCEPT ![t] = "open"]
    /\ UNCHANGED <<chain, cache, lastTotal, cur, seen, from, ahead, newest,
                   covered, skipped>>

LastCached == IF DOMAIN cache = {} THEN -1 ELSE Max(DOMAIN cache)

\* Mutated form of FirstToFetch: one block is left out.
FirstAfterNext(t) ==
    LET l == LastCached + 2  r == cur[t] - LookBack
    IN  IF l > r THEN l ELSE r

\* `l_block`: the block after the newest cached one, or the window's first.
FirstToFetch(t) ==
    LET l == LastCached + 1  r == cur[t] - LookBack
    IN  IF l > r THEN l ELSE r

\* The range is computed and the event reader opened on it.  It starts behind
\* the newest entry, whole or not.
Open(t) ==
    /\ pc[t] = "open"
    /\ FirstToFetch(t) <= cur[t]
    /\ pc' = [pc EXCEPT ![t] = "fetch"]
    /\ from' = [from EXCEPT ![t] = FirstToFetch(t)]
    /\ skipped' = skipped \union {b \in DOMAIN cache : cache[b] # requests[b]}
    /\ UNCHANGED <<chain, cache, lastTotal, cur, seen, ahead, newest, covered>>

\* `raise ValueError` when the range is empty: the task fails.
EmptyRange(t) ==
    /\ pc[t] = "open"
    /\ FirstToFetch(t) > cur[t]
    /\ pc' = [pc EXCEPT ![t] = "empty_range"]
    /\ UNCHANGED <<chain, cache, lastTotal, cur, seen, from, ahead, newest,
                   covered, skipped>>

\* `to_block`: the last block of this step.
LastOfStep(t) ==
    IF from[t] + Step < cur[t] THEN from[t] + Step ELSE cur[t]

\* Mutated form of Logs: the events of the block after the step, too.
LogsPastStep(t) ==
    {e \in (1 .. Height) \X Validators :
        /\ from[t] <= e[1] /\ e[1] <= LastOfStep(t) + 1
        /\ e[2] \in requests[e[1]]}

\* The events of this step, each with its block.
Logs(t) ==
    {e \in (1 .. Height) \X Validators :
        from[t] <= e[1] /\ e[1] <= LastOfStep(t) /\ e[2] \in requests[e[1]]}

\* `get_logs`.
Fetch(t) ==
    /\ pc[t] = "fetch"
    /\ ahead' = [ahead EXCEPT ![t] = Logs(t)]
    /\ pc' = [pc EXCEPT ![t] = "add"]
    /\ UNCHANGED <<chain, cache, lastTotal, cur, seen, from, newest, covered,
                   skipped>>

\* Events come in the order of their blocks.
NextBlock(t) == Min({e[1] : e \in ahead[t]})

\* An entry for the block of the next event.
NewEntry(t) ==
    /\ pc[t] = "add" /\ ahead[t] # {}
    /\ NextBlock(t) \notin DOMAIN cache
    /\ cache' = [b \in DOMAIN cache \union {NextBlock(t)} |->
                    IF b \in DOMAIN cache THEN cache[b] ELSE {}]
    /\ UNCHANGED <<chain, lastTotal, pc, cur, seen, from, ahead, newest,
                   covered, skipped>>

\* The next event's validator into the entry of its block.
AddRequest(t, v) ==
    /\ pc[t] = "add" /\ <<NextBlock(t), v>> \in ahead[t]
    /\ NextBlock(t) \in DOMAIN cache
    /\ cache' = [cache EXCEPT ![NextBlock(t)] = @ \union {v}]
    /\ ahead' = [ahead EXCEPT ![t] = @ \ {<<NextBlock(t), v>>}]
    /\ UNCHANGED <<chain, lastTotal, pc, cur, seen, from, newest, covered,
                   skipped>>

\* The events of the step are added; another step follows.
StepAdded(t) ==
    /\ pc[t] = "add" /\ ahead[t] = {}
    /\ LastOfStep(t) < cur[t]
    /\ pc' = [pc EXCEPT ![t] = "fetch"]
    /\ from' = [from EXCEPT ![t] = LastOfStep(t) + 1]
    /\ UNCHANGED <<chain, cache, lastTotal, cur, seen, ahead, newest, covered,
                   skipped>>

Pruned(c, n) == [b \in {x \in DOMAIN c : InWindow(x, n)} |-> c[b]]

\* The range is added: the pruning and the new total, back in the handler.
AllAdded(t) ==
    /\ pc[t] = "add" /\ ahead[t] = {}
    /\ LastOfStep(t) = cur[t]
    /\ cache' = Pruned(cache, cur[t])
    /\ lastTotal' = total[cur[t]]
    /\ covered' = cur[t]
    /\ pc' = [pc EXCEPT ![t] = "answered"]
    /\ UNCHANGED <<chain, cur, seen, from, ahead, newest, skipped>>

Next ==
    \/ \E asked \in SUBSET Validators : NewBlock(asked)
    \/ \E t \in Tasks :
          \/ \E n \in 1 .. Height : Begin(t, n)
          \/ Fails(t)
          \/ EarlyReturn(t)
          \/ ReadTotal(t)
          \/ Open(t)
          \/ EmptyRange(t)
          \/ Fetch(t)
          \/ NewEntry(t)
          \/ \E v \in Validators : ahead[t] # {} /\ AddRequest(t, v)
          \/ StepAdded(t)
          \/ AllAdded(t)

Spec == Init /\ [][Next]_vars

-----------------------------------------------------------------------------
(* Properties.                                                             *)

\* Types; a block has an entry only when it has requests, and the entry holds
\* nothing else; what a task has ahead is of the step it fetched
\* (`get_last_requested_validator_exit_indexes`, `get_events_in_range`).
TypeOK ==
    /\ requests \in Seq(SUBSET Validators) /\ Height <= MaxBlock
    /\ total \in Seq(Nat) /\ Len(total) = Height
    /\ DOMAIN cache \subseteq 1 .. Height
    /\ \A b \in DOMAIN cache :
          cache[b] \subseteq requests[b] /\ requests[b] # {}
    /\ lastTotal \in Nat
    /\ pc \in [Tasks -> {"idle", "total", "open", "fetch", "add", "answered",
                         "empty_range"}]
    /\ cur \in [Tasks -> 0 .. Height]
    /\ seen \in [Tasks -> [total : Nat, at : 0 .. Height]]
    /\ from \in [Tasks -> Int]
    /\ ahead \in [Tasks -> SUBSET ((1 .. Height) \X Validators)]
    /\ \A t \in Tasks : \A e \in ahead[t] :
          /\ pc[t] = "add"
          /\ e[1] \in from[t] .. LastOfStep(t) /\ e[2] \in requests[e[1]]
    /\ newest \in 0 .. Height
    /\ covered \in 0 .. Height
    /\ skipped \subseteq 1 .. Height

\* The cache has validator v in the entry of block b, or an update has found
\* that entry not whole and begun behind it.
Known(b, v) == b \in DOMAIN cache /\ (b \in skipped \/ v \in cache[b])

\* Every request of the lookback window up to block n is known.
Gapfree(n) ==
    \A b \in 1 .. Height :
        b <= n /\ InWindow(b, newest) => \A v \in requests[b] : Known(b, v)

\* When the update for the newest head has returned, every validator asked to
\* exit in the window is known, so none of their exits is reported as
\* unexpected: whatever failed half-way before, however the range was cut into
\* steps, and although an older task adds, prunes and writes totals back beside
\* it (the cache `ExitsHandler._send_alerts` consults).  Only a block some
\* update skipped while its entry was half-filled may lack a validator, and
\* none lacks its entry.
ExpectedExitsKnown ==
    \A t \in Tasks :
        pc[t] = "answered" /\ cur[t] = newest => Gapfree(cur[t])
=============================================================================

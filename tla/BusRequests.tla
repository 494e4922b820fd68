----------------------------- MODULE BusRequests -----------------------------
(***************************************************************************)
(* The cache of consolidation batches requested in the ConsolidationBus:   *)
(* `ExitsHandler._update_last_consolidations` of src/handlers/exit.py, and *)
(* the ranged event reader it uses, src/utils/events.py                    *)
(* `get_events_in_range`.                                                  *)
(*                                                                         *)
(* Unlike the cache of exit requests (ExitRequests) no processed total     *)
(* tells whether there is anything new: every update fetches from the      *)
(* block after the newest cached one up to the block of its head.          *)
(*                                                                         *)
(* The events of a fetch are added one by one, an entry for the block      *)
(* first: a task that is abandoned, or fails between two of them, leaves   *)
(* an entry that is not whole but counts as the newest cached block.       *)
(*                                                                         *)
(* Abstracted: a bus is configured and the operators are loaded, or the    *)
(* update returns at once; the look for an entry and its creation are one  *)
(* step, so is the pruning; blocks are numbered from 1; a reorganisation   *)
(* replaces the newest block only.                                         *)
(***************************************************************************)
EXTENDS Integers, Sequences, FiniteSets, FiniteSetsExt

CONSTANTS Batches,   \* consolidation batches, each of them requested once
          Tasks,     \* handler tasks that may run at the same time
          LookBack,  \* EXIT_EVENTS_LOOKBACK_WINDOW_IN_SLOTS
          Step,      \* EVENTS_SEARCH_STEP
          MaxBlock,  \* bound: blocks of the execution chain
          MaxReorgs  \* bound: reorganisations

VARIABLES requested,  \* requested[b]: batches requested in block b
          reorgs,     \* history: reorganisations so far
          cache,      \* ExitsHandler.last_requested_consolidations
          pc,         \* where each task is
          cur,        \* the block of the head each task handles
          from,       \* each task's next block to fetch
          pending,    \* each task's events fetched and not yet added
          newest,     \* history: the newest block a task was started for
          latest,     \* history: tasks started for the newest head
          torn        \* history: blocks skipped with an entry not whole

chain == <<requested, reorgs>>
vars == <<requested, reorgs, cache, pc, cur, from, pending, newest, latest,
          torn>>

Height == Len(requested)

Everything == UNION {requested[b] : b \in 1 .. Height}

InWindow(b, n) == b >= n - LookBack

Init ==
    /\ requested = <<>>
    /\ reorgs = 0
    /\ cache = [b \in {} |-> {}]
    /\ pc = [t \in Tasks |-> "idle"]
    /\ cur = [t \in Tasks |-> 0]
    /\ from = [t \in Tasks |-> 0]
    /\ pending = [t \in Tasks |-> {}]
    /\ newest = 0
    /\ latest = {}
    /\ torn = {}

NewBlock(added) ==
    /\ Height < MaxBlock
    /\ added \intersect Everything = {}
    /\ requested' = Append(requested, added)
    /\ UNCHANGED <<reorgs, cache, pc, cur, from, pending, newest, latest, torn>>

\* Another block takes the place of the newest one; tasks that handle the old
\* one go on.
Reorg(added) ==
    /\ reorgs < MaxReorgs
    /\ Height > 0
    /\ added # requested[Height]
    /\ added \intersect Everything \subseteq requested[Height]
    /\ requested' = [requested EXCEPT ![Height] = added]
    /\ reorgs' = reorgs + 1
    /\ latest' = {t \in latest : cur[t] # Height}
    /\ UNCHANGED <<cache, pc, cur, from, pending, newest, torn>>

\* A head with exits of our validators is handled: the newest one or, after a
\* failed attempt, the same again.
Begin(t, n) ==
    /\ pc[t] \in {"idle", "answered", "empty_range"}
    /\ n >= newest
    /\ pc' = [pc EXCEPT ![t] = "open"]
    /\ cur' = [cur EXCEPT ![t] = n]
    /\ newest' = n
    /\ latest' = (IF n = newest THEN latest ELSE {}) \union {t}
    /\ UNCHANGED <<chain, cache, from, pending, torn>>

\* A call to the node raises, an event is out of range (InconsistentEvents) or
\* cannot be decoded: the task fails, the cache keeps what it has.
Fails(t) ==
    /\ pc[t] \in {"open", "fetch", "add"}
    /\ pc' = [pc EXCEPT ![t] = "idle"]
    /\ pending' = [pending EXCEPT ![t] = {}]
    /\ UNCHANGED <<chain, cache, cur, from, newest, latest, torn>>

LastCached == IF DOMAIN cache = {} THEN -1 ELSE Max(DOMAIN cache)

\* Mutated form of FirstToFetch: the window's first block is left out.
FirstAfterWindow(t) ==
    LET l == LastCached + 1  r == cur[t] - LookBack + 1
    IN  IF l > r THEN l ELSE r

\* `l_block`.
FirstToFetch(t) ==
    LET l == LastCached + 1  r == cur[t] - LookBack
    IN  IF l > r THEN l ELSE r

Open(t) ==
    /\ pc[t] = "open"
    /\ FirstToFetch(t) <= cur[t]
    /\ pc' = [pc EXCEPT ![t] = "fetch"]
    /\ from' = [from EXCEPT ![t] = FirstToFetch(t)]
    /\ torn' = torn \union {b \in DOMAIN cache : cache[b] # requested[b]}
    /\ UNCHANGED <<chain, cache, cur, pending, newest, latest>>

\* `raise ValueError` when the range is empty: the task fails.
EmptyRange(t) ==
    /\ pc[t] = "open"
    /\ FirstToFetch(t) > cur[t]
    /\ pc' = [pc EXCEPT ![t] = "empty_range"]
    /\ UNCHANGED <<chain, cache, cur, from, pending, newest, latest, torn>>

LastOfStep(t) ==
    IF from[t] + Step < cur[t] THEN from[t] + Step ELSE cur[t]

\* Mutated form of Logs: the events of the block after the step, too.
LogsPastStep(t) ==
    {e \in (1 .. Height) \X Batches :
        /\ from[t] <= e[1] /\ e[1] <= LastOfStep(t) + 1
        /\ e[2] \in requested[e[1]]}

\* The events of this step, each with its block.
Logs(t) ==
    {e \in (1 .. Height) \X Batches :
        from[t] <= e[1] /\ e[1] <= LastOfStep(t) /\ e[2] \in requested[e[1]]}

\* `get_logs`.
Fetch(t) ==
    /\ pc[t] = "fetch"
    /\ pending' = [pending EXCEPT ![t] = Logs(t)]
    /\ pc' = [pc EXCEPT ![t] = "add"]
    /\ UNCHANGED <<chain, cache, cur, from, newest, latest, torn>>

\* Events come in the order of their blocks.
NextBlock(t) == Min({e[1] : e \in pending[t]})

\* An entry for the block of the next event.
NewEntry(t) ==
    /\ pc[t] = "add" /\ pending[t] # {}
    /\ NextBlock(t) \notin DOMAIN cache
    /\ cache' = [b \in DOMAIN cache \union {NextBlock(t)} |->
                    IF b \in DOMAIN cache THEN cache[b] ELSE {}]
    /\ UNCHANGED <<chain, pc, cur, from, pending, newest, latest, torn>>

\* The next event's batch into the entry of its block.
AddBatch(t, g) ==
    /\ pc[t] = "add" /\ <<NextBlock(t), g>> \in pending[t]
    /\ NextBlock(t) \in DOMAIN cache
    /\ cache' = [cache EXCEPT ![NextBlock(t)] = @ \union {g}]
    /\ pending' = [pending EXCEPT ![t] = @ \ {<<NextBlock(t), g>>}]
    /\ UNCHANGED <<chain, pc, cur, from, newest, latest, torn>>

\* The events of the step are added; another step follows.
StepAdded(t) ==
    /\ pc[t] = "add" /\ pending[t] = {}
    /\ LastOfStep(t) < cur[t]
    /\ pc' = [pc EXCEPT ![t] = "fetch"]
    /\ from' = [from EXCEPT ![t] = LastOfStep(t) + 1]
    /\ UNCHANGED <<chain, cache, cur, pending, newest, latest, torn>>

\* The range is added: what left the window is pruned.
AllAdded(t) ==
    /\ pc[t] = "add" /\ pending[t] = {}
    /\ LastOfStep(t) = cur[t]
    /\ cache' = [b \in {x \in DOMAIN cache : InWindow(x, cur[t])} |-> cache[b]]
    /\ pc' = [pc EXCEPT ![t] = "answered"]
    /\ UNCHANGED <<chain, cur, from, pending, newest, latest, torn>>

Next ==
    \/ \E added \in SUBSET Batches : NewBlock(added) \/ Reorg(added)
    \/ \E t \in Tasks :
          \/ \E n \in 1 .. Height : Begin(t, n)
          \/ Fails(t)
          \/ Open(t)
          \/ EmptyRange(t)
          \/ Fetch(t)
          \/ NewEntry(t)
          \/ \E g \in Batches : pending[t] # {} /\ AddBatch(t, g)
          \/ StepAdded(t)
          \/ AllAdded(t)

Spec == Init /\ [][Next]_vars

-----------------------------------------------------------------------------
(* Properties.                                                             *)

\* Types; a task adds events of the step it fetched, and of no other block
\* (`get_events_in_range`).
TypeOK ==
    /\ requested \in Seq(SUBSET Batches) /\ Height <= MaxBlock
    /\ reorgs \in 0 .. MaxReorgs
    /\ DOMAIN cache \subseteq 1 .. Height
    /\ \A b \in DOMAIN cache : cache[b] \subseteq Batches
    /\ pc \in [Tasks -> {"idle", "open", "fetch", "add", "answered",
                         "empty_range"}]
    /\ cur \in [Tasks -> 0 .. Height]
    /\ from \in [Tasks -> Int]
    /\ \A t \in Tasks : \A e \in pending[t] :
          e \in (from[t] .. LastOfStep(t)) \X Batches
    /\ newest \in 0 .. Height
    /\ latest \subseteq {t \in Tasks : cur[t] = newest}
    /\ torn \subseteq 1 .. Height

\* When the update for the newest head has returned, every batch requested in
\* the lookback window is known, so an exit of one of its validators is
\* reported as an exit for a requested consolidation: whatever failed half-way
\* before, and although older tasks add and prune beside it.  Only blocks some
\* update skipped while their entry was not whole, half-added or of a block
\* since replaced, may lack a batch, and none lacks its entry.
BatchesKnown ==
    \A t \in latest :
        pc[t] = "answered" =>
            \A b \in 1 .. cur[t] :
                InWindow(b, cur[t]) /\ requested[b] # {} =>
                    /\ b \in DOMAIN cache
                    /\ b \in torn \/ requested[b] \subseteq cache[b]

\* The event reader is never asked for an empty range, which it answers with a
\* ValueError that fails the handler (events.py, "Fetch all the events in the
\* given blocks range (closed interval)").
RangeNotEmpty == \A t \in Tasks : pc[t] # "empty_range"
=============================================================================

------------------------------ MODULE MCCaches ------------------------------
(***************************************************************************)
(* The two caches ExitsHandler fills from events of the execution layer:   *)
(* ExitRequests, extended, and BusRequests, whose names begin with Bus!.   *)
(* They share the node and nothing else, so one is chosen at the start and *)
(* the other one rests.                                                    *)
(***************************************************************************)
EXTENDS ExitRequests, TLC

CONSTANTS Batches, MaxReorgs,
          MaxBusBlock  \* bound: blocks of the chain the ConsolidationBus is on

ASSUME BusBoundsAssumption == MaxBusBlock \in Nat /\ MaxReorgs \in Nat

VARIABLES part,  \* "exits" or "bus"
          requested, reorgs, busCache, busPc, busCur, busFrom, pending,
          busNewest, latest, torn

Bus == INSTANCE BusRequests WITH MaxBlock <- MaxBusBlock, cache <- busCache,
    pc <- busPc, cur <- busCur, from <- busFrom, newest <- busNewest

busVars == <<requested, reorgs, busCache, busPc, busCur, busFrom, pending,
             busNewest, latest, torn>>

MCInit == part \in {"exits", "bus"} /\ Init /\ Bus!Init

MCNext ==
    \/ part = "exits" /\ Next /\ UNCHANGED <<part, busVars>>
    \/ part = "bus" /\ Bus!Next /\ UNCHANGED <<part, vars>>

MCSpec == MCInit /\ [][MCNext]_<<part, vars, busVars>>

\* Nothing tells tasks, validators or batches from one another.
Symmetry ==
    Permutations(Tasks) \union Permutations(Validators)
        \union Permutations(Batches)

-----------------------------------------------------------------------------
\* Types of BusRequests (`_update_last_consolidations`).
BusTypeOK == Bus!TypeOK

\* BatchesKnown of BusRequests: when the update for the newest head has
\* returned, every batch requested in the lookback window is known but those of
\* blocks that were skipped with an entry not whole.
BatchesKnown == Bus!BatchesKnown
=============================================================================

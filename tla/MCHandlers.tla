----------------------------- MODULE MCHandlers -----------------------------
(***************************************************************************)
(* The handlers that ask whose a validator is: Consolidations, extended,   *)
(* ElWithdrawals, whose names begin with El!, and OwnerAlerts (Owner!).    *)
(* They share the watcher's tables and nothing else, and none writes them, *)
(* so one is chosen at the start and the others rest.                      *)
(***************************************************************************)
EXTENDS Consolidations

CONSTANTS ElValidators, Amounts,
          OwnerValidators, SlotsPerEpoch, Consolidated, Muted, MaxEvents,
          MaxSlot

\* Amounts are in gwei, validators have indexes.
ASSUME AmountsAssumption == Amounts \subseteq Nat
ASSUME OwnerAssumption == OwnerValidators \subseteq Nat /\ MaxSlot \in Nat \ {0}

VARIABLES part,  \* "consolidations", "withdrawals" or "owners"
          elRequests, elKeys, elKnown, pass, elTodo, elLists, elOutbox,
          elSent, elFailures,
          slot, registry, ours, head, polled, handled, index, indexer,
          ownerKeys, keysUpdater, task, ownerKnown, iterated, asked, reported,
          ownerFailures

El == INSTANCE ElWithdrawals WITH Validators <- ElValidators,
    requests <- elRequests, userKeys <- elKeys, known <- elKnown,
    todo <- elTodo, lists <- elLists, outbox <- elOutbox, sent <- elSent,
    failures <- elFailures

\* VEBO asked none of these validators to exit.
Owner == INSTANCE OwnerAlerts WITH Validators <- OwnerValidators,
    Requested <- {}, userKeys <- ownerKeys, known <- ownerKnown,
    failures <- ownerFailures

elVars == <<elRequests, elKeys, elKnown, pass, elTodo, elLists, elOutbox,
            elSent, elFailures>>
ownerVars == <<slot, registry, ours, head, polled, handled, index, indexer,
               ownerKeys, keysUpdater, task, ownerKnown, iterated, asked,
               reported, ownerFailures>>

\* Of three validators of ours, 1 may be consolidated into 2; 3 has not reached
\* the beacon chain.
MCBalance == [v \in Validators |-> IF v = 1 THEN 1 ELSE 2]
MCStatus == [v \in Validators |->
                IF v = 1 THEN "active_exiting" ELSE "active_ongoing"]
MCPending == {<<1, 2>>}

\* A handler at rest has some block in hand, always the same one.
Rests == requests = {CHOOSE w \in Request : TRUE} /\ userKeys = {}
ElRests == elRequests = {CHOOSE w \in El!Request : TRUE} /\ elKeys = {}
OwnerRests == registry = {} /\ ours = {}

MCInit ==
    /\ part \in {"consolidations", "withdrawals", "owners"}
    /\ part # "consolidations" => Rests
    /\ part # "withdrawals" => ElRests
    /\ part # "owners" => OwnerRests
    /\ Init /\ El!Init /\ Owner!Init

MCNext ==
    \/ part = "consolidations" /\ Next /\ UNCHANGED <<part, elVars, ownerVars>>
    \/ part = "withdrawals" /\ El!Next /\ UNCHANGED <<part, vars, ownerVars>>
    \/ part = "owners" /\ Owner!Next /\ UNCHANGED <<part, vars, elVars>>

MCSpec == MCInit /\ [][MCNext]_<<part, vars, elVars, ownerVars>>

-----------------------------------------------------------------------------
\* Types of ElWithdrawals (`ElTriggeredExitHandler.handle`) and of OwnerAlerts
\* (the handlers for slashings and exits, and the updaters).
ElTypeOK == El!TypeOK
OwnerTypeOK == Owner!TypeOK

\* KnownRequestsReported of ElWithdrawals: a request about a validator of ours
\* is reported by its kind when its key was there as the attempt began.
KnownRequestsReported == El!KnownRequestsReported

\* OneVerdict of ElWithdrawals: no request counts as ours and a stranger's.
OneVerdict == El!OneVerdict

\* KnownUsersReported of OwnerAlerts: a slashed or exited validator both tables
\* held when its head was first tried is reported as ours.
KnownUsersReported == Owner!KnownUsersReported
=============================================================================

------------------------------ MODULE Startup ------------------------------
(***************************************************************************)
(* How the watcher comes up and what it may then ask: src/main.py,         *)
(* src/variables.py `check_uri_required_variables`, the loading of the     *)
(* contracts in src/web3py/extensions/contracts.py, and the guards by      *)
(* which the handlers keep to what is configured.                          *)
(*                                                                         *)
(* Whatever goes wrong ends the process, and docker-compose.yml starts it  *)
(* again ("restart: unless-stopped"); only contracts without a proper      *)
(* implementation are waited for, by a recursion of `_load_contracts` and  *)
(* `_check_contracts` as deep as Python lets it grow.                      *)
(*                                                                         *)
(* Abstracted: a variable is set or not; the calls of one step of loading  *)
(* are one step; what has been asked is kept by service, not by call.      *)
(***************************************************************************)
EXTENDS Naturals

CONSTANTS MaxDepth,     \* loads before Python's RecursionError
          MaxOutages    \* bound: requests to a node that fail

\* The variables that name a service, and the two that are optional.
Uris == {"CONSENSUS_CLIENT_URI", "ALERTMANAGER_URI", "KEYS_API_URI",
         "LIDO_LOCATOR_ADDRESS", "EXECUTION_CLIENT_URI"}
Optional == {"LIDO_CONSOLIDATION_BUS_ADDRESS", "VALID_WITHDRAWAL_ADDRESSES"}

\* What LidoLocator answers: nothing, addresses of something else, the oracles.
Answers == {"nothing", "wrong", "right"}

VARIABLES config,     \* the environment: keys source, dry run, what is not set
          locator,    \* what LidoLocator answers now
          pc,         \* where main() is
          execution,  \* Watcher.execution: "None", or "web3"
          loaded,     \* the addresses `_load_contracts` has got
          depth,      \* loads under way, one within the other
          outages,    \* history: requests to a node that failed
          asked       \* history: services the running watcher has asked

vars == <<config, locator, pc, execution, loaded, depth, outages, asked>>

Init ==
    /\ config \in [source : {"keys_api", "file", "other"}, dryRun : BOOLEAN,
                   unset : SUBSET (Uris \union Optional)]
    /\ locator \in Answers
    /\ pc = "check"
    /\ execution = "None"
    /\ loaded = "nothing"
    /\ depth = 0
    /\ outages = 0
    /\ asked = {}

\* Lido deploys or upgrades its contracts.
Deploy(answer) ==
    /\ locator # "right"
    /\ answer # locator
    /\ locator' = answer
    /\ UNCHANGED <<config, pc, execution, loaded, depth, outages, asked>>

KeysApi == config.source = "keys_api"

Required == {"CONSENSUS_CLIENT_URI"}
    \union (IF config.dryRun THEN {} ELSE {"ALERTMANAGER_URI"})
    \union (IF KeysApi THEN {"KEYS_API_URI", "LIDO_LOCATOR_ADDRESS",
                             "EXECUTION_CLIENT_URI"} ELSE {})

\* An exception nothing catches.
Exit == pc' = "exited"

\* `check_uri_required_variables`, `raise_from_errors`.
Check ==
    /\ pc = "check"
    /\ pc' = IF Required \intersect config.unset = {} THEN "main" ELSE "exited"
    /\ UNCHANGED <<config, locator, execution, loaded, depth, outages, asked>>

\* The keys source is chosen; only with the Keys API there is a web3.
ChooseSource ==
    /\ pc = "main"
    /\ pc' = CASE KeysApi -> "load"
               [] config.source = "file" -> "watcher"
               [] OTHER -> "exited"
    /\ UNCHANGED <<config, locator, execution, loaded, depth, outages, asked>>

\* `_load_contracts` asks the locator for three addresses; when there is no
\* locator, that is an exception nobody expects here.
Load ==
    /\ pc = "load"
    /\ loaded' = locator
    /\ pc' = IF locator = "nothing" THEN "exited" ELSE "versions"
    /\ UNCHANGED <<config, locator, execution, depth, outages, asked>>

\* `_check_contracts`: both oracles tell their version; other contracts answer
\* without data, which is waited for, or revert, which is not.
Versions ==
    /\ pc = "versions"
    /\ pc' \in IF loaded = "right" THEN {"watcher"} ELSE {"sleep", "exited"}
    /\ execution' = IF loaded = "right" THEN "web3" ELSE "None"
    /\ UNCHANGED <<config, locator, loaded, depth, outages, asked>>

\* Mutated form of Sleep: a loop around the versions, with the addresses as
\* they were.
SleepAndAsk ==
    /\ pc = "sleep"
    /\ pc' = "versions"
    /\ UNCHANGED <<config, locator, execution, loaded, depth, outages, asked>>

\* Mutated form of Deeper: no end to it.
DeeperAlways == TRUE

\* Does the stack bear one load more?
Deeper == depth < MaxDepth

\* A minute later everything is loaded anew, one call deeper.
Sleep ==
    /\ pc = "sleep"
    /\ \/ Deeper /\ pc' = "load" /\ depth' = depth + 1
       \/ ~Deeper /\ Exit /\ UNCHANGED depth
    /\ UNCHANGED <<config, locator, execution, loaded, outages, asked>>

\* `Watcher.__init__` asks for the genesis time, and `run` begins.
Run ==
    /\ pc = "watcher"
    /\ pc' = "running"
    /\ asked' = asked \union {"CONSENSUS_CLIENT_URI"}
    /\ UNCHANGED <<config, locator, execution, loaded, depth, outages>>

\* No node answers a request of the start.
Outage ==
    /\ pc \in {"load", "versions", "watcher"}
    /\ outages < MaxOutages
    /\ outages' = outages + 1
    /\ Exit
    /\ UNCHANGED <<config, locator, execution, loaded, depth, asked>>

\* Docker starts the container again.
Restart ==
    /\ pc = "exited"
    /\ pc' = "check"
    /\ execution' = "None"
    /\ loaded' = "nothing"
    /\ depth' = 0
    /\ UNCHANGED <<config, locator, outages, asked>>

-----------------------------------------------------------------------------
(* The running watcher.                                                    *)

\* `watcher.execution. ...`: a request to a node, or an attribute of None.
Deref == IF execution = "None" THEN {"None"} ELSE {"EXECUTION_CLIENT_URI"}

Unset(variable) == variable \in config.unset

\* Mutated form of ExitAsks: the guard in `_send_alerts` is left out.
AnyExitAsks == Deref

\* An exit of a validator of ours: VEBO and the ConsolidationBus are asked.
ExitAsks ==
    IF ~KeysApi THEN {}
    ELSE Deref \union (IF Unset("LIDO_CONSOLIDATION_BUS_ADDRESS") THEN {}
                       ELSE {"LIDO_CONSOLIDATION_BUS_ADDRESS"})

\* A consolidation between validators of ours: beacon node and VEBO.
ConsolidationAsks ==
    {"CONSENSUS_CLIENT_URI"} \union (IF KeysApi THEN Deref ELSE {})

\* `valid_withdrawal_addresses`: the vault is asked for when none are given.
AddressesAsk ==
    IF Unset("VALID_WITHDRAWAL_ADDRESSES") /\ execution # "None" THEN Deref
                                                                 ELSE {}

AlertAsks == IF config.dryRun THEN {} ELSE {"ALERTMANAGER_URI"}

KeysAsk == IF KeysApi THEN {"KEYS_API_URI"} ELSE {}

Ask(services) ==
    /\ pc = "running"
    /\ asked' = asked \union services
    /\ UNCHANGED <<config, locator, pc, execution, loaded, depth, outages>>

Next ==
    \/ \E answer \in Answers : Deploy(answer)
    \/ Check
    \/ ChooseSource
    \/ Load
    \/ Versions
    \/ Sleep
    \/ Run
    \/ Outage
    \/ Restart
    \/ \E services \in {ExitAsks, ConsolidationAsks, AddressesAsk, AlertAsks,
                        KeysAsk} : Ask(services)

Spec == Init /\ [][Next]_vars

\* main() runs, and Docker restarts what has exited.
Start == Check \/ ChooseSource \/ Load \/ Versions \/ Sleep \/ Run \/ Restart

Fairness == WF_vars(Start)

-----------------------------------------------------------------------------
(* Properties.                                                             *)

TypeOK ==
    /\ locator \in Answers /\ loaded \in Answers
    /\ pc \in {"check", "main", "load", "versions", "sleep", "watcher",
               "running", "exited"}
    /\ execution \in {"None", "web3"}
    /\ depth \in 0 .. MaxDepth
    /\ outages \in 0 .. MaxOutages
    /\ asked \subseteq Uris \union Optional \union {"None"}

\* Nothing is asked that is not configured, and no handler reaches for the
\* execution client of a watcher that has none: the variables checked at the
\* start and the guards spread over the handlers fit each other, in every mode.
OnlyConfigured == asked \intersect (config.unset \union {"None"}) = {}

\* With what is required set and contracts that are there in the end, the
\* watcher comes to run, with these contracts: it loads the addresses anew
\* instead of waiting for the old ones to work, and what ends the process is
\* started again.
ComesUp ==
    /\ config.source # "other" /\ Required \intersect config.unset = {}
    /\ <>[](locator = "right")
    => <>[](pc = "running" /\ (KeysApi => loaded = "right"))
=============================================================================

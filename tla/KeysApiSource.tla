---------------------------- MODULE KeysApiSource ----------------------------
(***************************************************************************)
(* How the watcher keeps its copy of the users' keys in step with the Keys *)
(* API: src/keys_source/keys_api_source.py `update_keys`, the parsers of   *)
(* src/providers/keys_api/client.py, and `Watcher._update_user_keys`, the  *)
(* only writer of `user_keys`, which runs one update at a time.            *)
(*                                                                         *)
(* An update is four requests (status, modules, operators, keys).  Each    *)
(* goes through the list of hosts on its own (src/providers/               *)
(* http_provider.py `get`, `get_stream`) and is answered by the first that *)
(* serves it, so any host may answer any of them; a host may refresh       *)
(* between any two, and one may lag behind another.                        *)
(*                                                                         *)
(* Abstracted: a snapshot is what a host may know of one block, and a host *)
(* never goes back to an older one; the sum of the module nonces stands    *)
(* for the keys and operators of a snapshot, since it grows whenever       *)
(* either changes; an operator has a key from the nonce it appears at.     *)
(***************************************************************************)
EXTENDS Naturals, Sequences

CONSTANTS KeysHosts,     \* KEYS_API_URI
          NoHost,
          MaxSnapshots,  \* bound: blocks the Keys API knows of
          MaxFailures,   \* bound: failed requests
          NewOperatorAt  \* nonces at which an operator appears

ASSUME BoundsAssumption == MaxSnapshots \in Nat \ {0} /\ MaxFailures \in Nat
ASSUME NewOperatorAssumption == NewOperatorAt \subseteq Nat

VARIABLES snapshots,  \* nonce of each snapshot; its index is its timestamp
          serves,     \* the snapshot each host serves
          status,     \* keys_api_status: timestamp, 0 for None
          nonce,      \* keys_api_nonce
          userKeys,   \* Watcher.user_keys: nonce of the keys, 0 when empty
          pc,         \* next request of the running update
          current,    \* current_keys_status of the running update
          operators,  \* nonce of the operators the running update fetched
          keys,       \* nonce of the keys the running update fetched
          statusFrom, \* history: the host that answered with current
          mixed,      \* history: did another host answer with the keys
          mixedTaken, \* history: mixed, of the keys the watcher has
          failures    \* history: failed requests

api == <<snapshots, serves>>
source == <<status, nonce>>
answers == <<current, operators, keys>>
history == <<statusFrom, mixed, mixedTaken, failures>>
vars == <<snapshots, serves, status, nonce, userKeys, pc, current, operators,
          keys, statusFrom, mixed, mixedTaken, failures>>

Now == Len(snapshots)
Latest == snapshots[Now]

\* The nonce of what host k serves.
Served(k) == snapshots[serves[k]]

Init ==
    /\ snapshots = <<1>>
    /\ serves = [k \in KeysHosts |-> 1]
    /\ status = 0
    /\ nonce = 0
    /\ userKeys = 0
    /\ pc = "idle"
    /\ current = 0
    /\ operators = 0
    /\ keys = 0
    /\ statusFrom = NoHost
    /\ mixed = FALSE
    /\ mixedTaken = FALSE
    /\ failures = 0

\* The chain has a new block; the keys may have changed.
NewBlock ==
    /\ Now < MaxSnapshots
    /\ \E n \in {Latest, Latest + 1} : snapshots' = Append(snapshots, n)
    /\ UNCHANGED <<serves, source, userKeys, pc, answers, history>>

\* A host of the Keys API catches up with the chain, or comes nearer to it.
Refresh(k) ==
    /\ \E i \in (serves[k] + 1) .. Now : serves' = [serves EXCEPT ![k] = i]
    /\ UNCHANGED <<snapshots, source, userKeys, pc, answers, history>>

\* A head is handled and no update is running.
Begin ==
    /\ pc \in {"idle", "same_nonce"}
    /\ pc' = "status"
    /\ UNCHANGED <<api, source, userKeys, answers, history>>

\* A request fails on every host; the update raises.
Fails ==
    /\ pc \in {"status", "modules", "operators", "keys", "parse"}
    /\ failures < MaxFailures
    /\ failures' = failures + 1
    /\ pc' = "idle"
    /\ UNCHANGED <<api, source, userKeys, answers, statusFrom, mixed,
                   mixedTaken>>

\* `keys_api_status is None` or older than the status just read.
StatusIsNewer(k) == status = 0 \/ serves[k] > status

GetStatus(k) ==
    /\ pc = "status"
    /\ current' = serves[k]
    /\ statusFrom' = k
    /\ pc' = IF StatusIsNewer(k) THEN "modules" ELSE "idle"
    /\ UNCHANGED <<api, source, userKeys, operators, keys, mixed, mixedTaken,
                   failures>>

\* The nonce is stored before the keys it stands for are fetched.
GetModules(k) ==
    /\ pc = "modules"
    /\ pc' = IF nonce = Served(k) THEN "same_nonce" ELSE "operators"
    /\ nonce' = Served(k)
    /\ UNCHANGED <<api, status, userKeys, answers, history>>

GetOperators(k) ==
    /\ pc = "operators"
    /\ operators' = Served(k)
    /\ pc' = "keys"
    /\ UNCHANGED <<api, source, userKeys, current, keys, history>>

\* Nothing compares the snapshot of this answer with the one of the status.
GetKeys(k) ==
    /\ pc = "keys"
    /\ keys' = Served(k)
    /\ mixed' = (k # statusFrom)
    /\ pc' = "parse"
    /\ UNCHANGED <<api, source, userKeys, current, operators, statusFrom,
                   mixedTaken, failures>>

\* `parse_keys` knows the operator of every key; KeyError otherwise.
OperatorsKnown == \A n \in NewOperatorAt : n <= keys => n <= operators

\* Mutated form of StatusRead: the status of that host once the keys are there.
StatusNow == serves[statusFrom]

\* Mutated form of StatusRead: the status of the refresh to come.
StatusNext == current + 1

\* The status stored is the one read before the keys.
StatusRead == current

\* The keys are parsed, the status is stored and the watcher takes the keys.
TakeKeys ==
    /\ pc = "parse"
    /\ pc' = "idle"
    /\ IF OperatorsKnown
         THEN status' = StatusRead /\ userKeys' = keys /\ mixedTaken' = mixed
         ELSE UNCHANGED <<status, userKeys, mixedTaken>>
    /\ UNCHANGED <<api, nonce, answers, statusFrom, mixed, failures>>

Next ==
    \/ NewBlock
    \/ Begin
    \/ Fails
    \/ \E k \in KeysHosts :
          \/ Refresh(k)
          \/ GetStatus(k)
          \/ GetModules(k)
          \/ GetOperators(k)
          \/ GetKeys(k)
    \/ TakeKeys

Spec == Init /\ [][Next]_vars

-----------------------------------------------------------------------------
(* Properties.                                                             *)

\* Types; nothing the source remembers, and no key the watcher holds, is ahead
\* of the API, and neither is a host (`update_keys` stores what it was answered,
\* nothing later).
TypeOK ==
    /\ snapshots \in Seq(Nat) /\ Now \in 1 .. MaxSnapshots
    /\ serves \in [KeysHosts -> 1 .. Now]
    /\ status \in 0 .. Now
    /\ nonce \in 0 .. Latest
    /\ userKeys \in 0 .. Latest
    /\ pc \in {"idle", "status", "modules", "operators", "keys", "parse",
              "same_nonce"}
    /\ current \in 0 .. Now
    /\ operators \in 0 .. Latest
    /\ keys \in 0 .. Latest
    /\ statusFrom \in KeysHosts \union {NoHost}
    /\ mixed \in BOOLEAN /\ mixedTaken \in BOOLEAN
    /\ failures \in 0 .. MaxFailures

\* Keys are not used that are older than the block whose status is remembered
\* for them: "latest fetched block in meta field is greater than the block we
\* are fetching on" (providers/keys_api/client.py, docstring of KeysAPIClient).
KeysNotOutdated == status # 0 => snapshots[status] <= userKeys

\* That goes wrong only when one host answered with the status and another with
\* the keys.  As long as one answers both, "nothing changed since" is never said
\* of keys that are older, whatever failed, whichever hosts answered between
\* the two or to earlier updates, and whenever a host was refreshed
\* (keys_api_source.py stores the status last, and the one read first).
StatusCovered == ~mixedTaken => KeysNotOutdated

\* An update that stops because the nonce is the one remembered leaves the
\* watcher with the keys of that nonce (keys_api_source.py, "If nonce is not
\* changed - we don't need to update keys").
SameNonceSameKeys == pc = "same_nonce" => nonce <= userKeys
=============================================================================

--------------------------- MODULE Consolidations ---------------------------
(***************************************************************************)
(* The consolidation requests of a block: `handle` and                     *)
(* `_process_user_withdrawal_address_user_source_target_pubkey` of         *)
(* src/handlers/consolidation.py, next to the thread that replaces         *)
(* `Watcher.user_keys`.                                                    *)
(*                                                                         *)
(* The handler asks `user_keys` about the source and the target of each    *)
(* request, and for requests from our withdrawal address about both once   *)
(* more.  Those between validators of ours are judged by what the beacon   *)
(* node and VEBO say.  Any request or POST may fail, and a validator the   *)
(* beacon node does not know fails the handler: it is then tried again.    *)
(*                                                                         *)
(* Abstracted: `user_keys` only grows; VEBO's requests are ExitRequests'   *)
(* and known here; an alert is told by its name and the requests in it.    *)
(***************************************************************************)
EXTENDS Naturals, Sequences

CONSTANTS Validators,
          OnBeacon,      \* validators the beacon node knows
          Balance,       \* Balance[v]
          Status,        \* Status[v]
          Pending,       \* pairs in the beacon node's pending consolidations
          Requested,     \* validators VEBO asked to exit
          MaxTotal,      \* the total balance a consolidation may come to
          MaxRequests,   \* bound: consolidation requests of the block
          MaxFailures    \* bound: failed requests and POSTs

ASSUME DataAssumption ==
    /\ OnBeacon \subseteq Validators /\ Requested \subseteq Validators
    /\ Balance \in [Validators -> Nat]
    /\ Status \in [Validators -> {"active_exiting", "active_ongoing", "other"}]
    /\ Pending \subseteq Validators \X Validators
ASSUME BoundsAssumption ==
    MaxTotal \in Nat /\ MaxRequests \in Nat /\ MaxFailures \in Nat

Request == [fromOurs : BOOLEAN, source : Validators, target : Validators]

VARIABLES requests,  \* the block's consolidation requests
          userKeys,  \* Watcher.user_keys
          known,     \* history: user_keys when the attempt began
          pc,        \* "lists", "send", "judge", "send_judged" or "returned"
          todo,      \* requests to look at, with the step they are at
          lists,     \* list name to requests
          passed,    \* how many alerts of this stage are behind
          sent,      \* alerts Alertmanager has accepted
          failures   \* history: what has failed

vars == <<requests, userKeys, known, pc, todo, lists, passed, sent, failures>>

\* Mutated form of FirstLists: one alert is forgotten.
ShortLists == <<"ours", "foreign_source", "foreign_target", "user_source">>

\* The alerts of `handle`, in the order they are sent.
FirstLists == <<"ours", "foreign_source", "foreign_target", "user_source",
                "user_target">>

\* Those about requests among our validators.
JudgedLists == <<"over_deposit", "invalid_status", "rejected",
                 "requested_to_exit">>

Names == {"ours", "foreign_source", "foreign_target", "user_source",
          "user_target", "over_deposit", "invalid_status", "rejected",
          "requested_to_exit"}

Empty == [n \in Names \union {"both"} |-> {}]

Start(set) == [w \in set |-> 1]

Init ==
    /\ \E all \in [1 .. MaxRequests -> Request] :
          requests = {all[i] : i \in 1 .. MaxRequests}
    /\ userKeys \in SUBSET Validators
    /\ known = userKeys
    /\ pc = "lists"
    /\ todo = Start(requests)
    /\ lists = Empty
    /\ passed = 0
    /\ sent = {}
    /\ failures = 0

\* `_update_user_keys`: new keys are there.
KeysUpdated(more) ==
    /\ more # {}
    /\ userKeys' = userKeys \union more
    /\ UNCHANGED <<requests, known, pc, todo, lists, passed, sent, failures>>

\* Mutated form of Reads: the two together are looked at first.
BothFirst == <<"both", "source", "target">>

\* The order in which a request's keys are looked up.
Reads == <<"source", "target", "both">>

\* The lists a lookup adds the request to, by the keys of this moment.
Added(w, read) ==
    CASE read = "source" /\ w.fromOurs ->
            {"ours"} \union (IF w.source \in userKeys THEN {}
                                                     ELSE {"foreign_source"})
      [] read = "source" /\ ~w.fromOurs ->
            IF w.source \in userKeys THEN {"user_source"} ELSE {}
      [] read = "target" /\ w.fromOurs ->
            IF w.target \in userKeys THEN {} ELSE {"foreign_target"}
      [] read = "target" /\ ~w.fromOurs ->
            IF w.target \in userKeys THEN {"user_target"} ELSE {}
      [] read = "both" ->
            IF w.fromOurs /\ {w.source, w.target} \subseteq userKeys
              THEN {"both"} ELSE {}

\* The next lookup of a request; one request after the other.
LookAt(w) ==
    /\ pc = "lists"
    /\ w \in DOMAIN todo
    /\ \A v \in DOMAIN todo \ {w} : todo[v] = 1
    /\ lists' = [n \in DOMAIN lists |->
                    IF n \in Added(w, Reads[todo[w]]) THEN lists[n] \union {w}
                                                      ELSE lists[n]]
    /\ todo' = IF todo[w] < Len(Reads)
                 THEN [todo EXCEPT ![w] = @ + 1]
                 ELSE [v \in DOMAIN todo \ {w} |-> todo[v]]
    /\ UNCHANGED <<requests, userKeys, known, pc, passed, sent, failures>>

Listed ==
    /\ pc = "lists"
    /\ DOMAIN todo = {}
    /\ pc' = "send"
    /\ UNCHANGED <<requests, userKeys, known, todo, lists, passed, sent,
                   failures>>

OverDeposit(w) == Balance[w.source] + Balance[w.target] > MaxTotal

\* Mutated form of InvalidStatus: one bad status is let pass.
BothInvalid(w) == /\ Status[w.source] # "active_exiting"
                  /\ Status[w.target] # "active_ongoing"

InvalidStatus(w) == \/ Status[w.source] # "active_exiting"
                    \/ Status[w.target] # "active_ongoing"

Rejected(w) == <<w.source, w.target>> \notin Pending

RequestedToExit(w) == w.source \in Requested \/ w.target \in Requested

Judged ==
    [over_deposit |-> {w \in lists.both : OverDeposit(w)},
     invalid_status |-> {w \in lists.both : InvalidStatus(w)},
     rejected |-> {w \in lists.both : Rejected(w)},
     requested_to_exit |-> {w \in lists.both : RequestedToExit(w)}]

\* The requests of an alert.
About(name) == IF name \in DOMAIN Judged THEN Judged[name] ELSE lists[name]

\* Mutated form of ToTell: sent although there is nothing to tell.
AnyName(name) == TRUE

\* The `if` before each of the alerts.
ToTell(name) == About(name) # {}

Stage == IF pc = "send" THEN FirstLists ELSE JudgedLists

\* The alert that is next.
Upcoming == Stage[passed + 1]

Sending == pc \in {"send", "send_judged"} /\ passed < Len(Stage)

\* The next alert is sent when there is something to tell.
Send ==
    /\ Sending
    /\ passed' = passed + 1
    /\ sent' = IF ToTell(Upcoming)
                 THEN sent \union {[name |-> Upcoming, about |-> About(Upcoming)]}
                 ELSE sent
    /\ UNCHANGED <<requests, userKeys, known, pc, todo, lists, failures>>

\* The first alerts are out; what is left is to judge, or nothing.
Sent ==
    /\ pc = "send" /\ ~Sending
    /\ pc' = IF lists.both = {} THEN "returned" ELSE "judge"
    /\ passed' = 0
    /\ UNCHANGED <<requests, userKeys, known, todo, lists, sent, failures>>

AllOnBeacon ==
    \A w \in lists.both : {w.source, w.target} \subseteq OnBeacon

\* Validators and pending consolidations are fetched and VEBO's requests
\* updated: the requests are judged.
Judge ==
    /\ pc = "judge"
    /\ AllOnBeacon
    /\ pc' = "send_judged"
    /\ UNCHANGED <<requests, userKeys, known, todo, lists, passed, sent,
                   failures>>

Return ==
    /\ pc = "send_judged" /\ ~Sending
    /\ pc' = "returned"
    /\ passed' = 0
    /\ UNCHANGED <<requests, userKeys, known, todo, lists, sent, failures>>

\* A new attempt, with the keys there are by then.
Begin ==
    /\ pc' = "lists"
    /\ todo' = Start(requests)
    /\ lists' = Empty
    /\ passed' = 0
    /\ known' = userKeys
    /\ UNCHANGED <<requests, userKeys, sent>>

\* A POST, or a request to a node, fails.
Fails ==
    /\ pc = "judge" \/ (Sending /\ ToTell(Upcoming))
    /\ failures < MaxFailures
    /\ failures' = failures + 1
    /\ Begin

\* `raise ValueError`: a validator the beacon node does not know.
UnknownValidator ==
    /\ pc = "judge"
    /\ ~AllOnBeacon
    /\ Begin
    /\ UNCHANGED failures

Next ==
    \/ \E more \in SUBSET (Validators \ userKeys) : KeysUpdated(more)
    \/ \E w \in DOMAIN todo : LookAt(w)
    \/ Listed
    \/ Send
    \/ Sent
    \/ Judge
    \/ Return
    \/ Fails
    \/ UnknownValidator

Spec == Init /\ [][Next]_vars

-----------------------------------------------------------------------------
(* Properties.                                                             *)

\* Types; no alert is sent about nothing (the `if` before each of the sends of
\* `handle`).
TypeOK ==
    /\ requests \subseteq Request
    /\ userKeys \subseteq Validators
    /\ known \subseteq userKeys
    /\ pc \in {"lists", "send", "judge", "send_judged", "returned"}
    /\ DOMAIN todo \subseteq requests
    /\ \A w \in DOMAIN todo : todo[w] \in 1 .. 3
    /\ lists \in [Names \union {"both"} -> SUBSET requests]
    /\ passed \in 0 .. 5
    /\ sent \subseteq [name : Names, about : (SUBSET requests) \ {{}}]
    /\ failures \in 0 .. MaxFailures

Returned == pc = "returned"

Told(w, name) == \E a \in sent : a.name = name /\ w \in a.about

\* A request from our withdrawal address is told of as such and is then either
\* told of as one for a stranger's validator or judged: no moment at which the
\* keys change lets it slip between the two (consolidation.py reads the keys
\* one by one before it reads them together).
ForeignOrJudged ==
    Returned =>
        \A w \in requests :
            w.fromOurs =>
                /\ Told(w, "ours")
                /\ \/ Told(w, "foreign_source") \/ Told(w, "foreign_target")
                   \/ w \in lists.both

\* What the last attempt judged is told of in full, although an attempt before
\* it may have stopped between any two of its alerts.
JudgedIsTold ==
    Returned =>
        \A w \in lists.both :
            /\ OverDeposit(w) => Told(w, "over_deposit")
            /\ Status[w.source] # "active_exiting"
                  \/ Status[w.target] # "active_ongoing"
                  => Told(w, "invalid_status")
            /\ Rejected(w) => Told(w, "rejected")
            /\ RequestedToExit(w) => Told(w, "requested_to_exit")

\* A stranger's request about a validator whose key was there when the attempt
\* began is told of, for each of its two validators.
StrangersTold ==
    Returned =>
        \A w \in requests :
            ~w.fromOurs =>
                /\ w.source \in known => Told(w, "user_source")
                /\ w.target \in known => Told(w, "user_target")
=============================================================================

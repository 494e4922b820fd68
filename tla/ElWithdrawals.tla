---------------------------- MODULE ElWithdrawals ----------------------------
(***************************************************************************)
(* The withdrawal requests of a block: `handle` of                         *)
(* src/handlers/el_triggered_exit.py, next to the thread that replaces     *)
(* `Watcher.user_keys`.                                                    *)
(*                                                                         *)
(* The handler goes over the requests three times, and asks `user_keys`    *)
(* about each of them anew each time.  A POST that fails ends the attempt, *)
(* which the main loop repeats.                                            *)
(*                                                                         *)
(* Abstracted: `user_keys` only grows; an alert is told by its name and    *)
(* the requests it describes.                                              *)
(***************************************************************************)
EXTENDS Naturals, Sequences

CONSTANTS Validators, Amounts,
          MaxRequests,  \* bound: withdrawal requests of the block
          MaxFailures   \* bound: failed POSTs

\* Is the source address one of `valid_withdrawal_addresses`?
Request == [fromOurs : BOOLEAN, validator : Validators, amount : Amounts]

VARIABLES requests,  \* the block's withdrawal requests
          userKeys,  \* Watcher.user_keys
          known,     \* history: user_keys when the attempt began
          pass,      \* which of the three lists is being made, 4 afterwards
          todo,      \* requests that pass has still to look at
          lists,     \* the lists made so far
          outbox,    \* alerts that are not behind yet, in order
          sent,      \* alerts Alertmanager has accepted
          failures   \* history: failed POSTs

vars == <<requests, userKeys, known, pass, todo, lists, outbox, sent, failures>>

Empty == [user |-> {}, foreign |-> {}, unknown |-> {}]

Begin ==
    /\ pass' = 1
    /\ todo' = requests
    /\ lists' = Empty
    /\ outbox' = <<>>
    /\ known' = userKeys

Init ==
    /\ \E all \in [1 .. MaxRequests -> Request] :
          requests = {all[i] : i \in 1 .. MaxRequests}
    /\ userKeys \in SUBSET Validators
    /\ known = userKeys
    /\ pass = 1
    /\ todo = requests
    /\ lists = Empty
    /\ outbox = <<>>
    /\ sent = {}
    /\ failures = 0

\* `_update_user_keys`: new keys are there.
KeysUpdated(more) ==
    /\ more # {}
    /\ userKeys' = userKeys \union more
    /\ UNCHANGED <<requests, known, pass, todo, lists, outbox, sent, failures>>

\* Mutated form of Passes: strangers' validators are looked for first.
ForeignFirst == <<"foreign", "user", "unknown">>

\* The order of the three comprehensions.
Passes == <<"user", "foreign", "unknown">>

\* Does the request belong in this list, by the keys of this moment?
Belongs(w, list) ==
    CASE list = "user" -> w.fromOurs /\ w.validator \in userKeys
      [] list = "foreign" -> w.fromOurs /\ w.validator \notin userKeys
      [] list = "unknown" -> ~w.fromOurs /\ w.validator \in userKeys

LookAt(w) ==
    /\ pass <= 3
    /\ w \in todo
    /\ todo' = todo \ {w}
    /\ lists' = IF Belongs(w, Passes[pass])
                  THEN [lists EXCEPT ![Passes[pass]] = @ \union {w}]
                  ELSE lists
    /\ UNCHANGED <<requests, userKeys, known, pass, outbox, sent, failures>>

IsFull(w) == w.amount = 0

\* Mutated form of IsPartial: off by one.
MoreThanOne(w) == w.amount > 1

IsPartial(w) == w.amount > 0

\* The alerts in the order of the code.
Alerts ==
    LET user == lists.user IN
    << [name |-> "full", about |-> {w \in user : IsFull(w)}],
       [name |-> "partial", about |-> {w \in user : IsPartial(w)}],
       [name |-> "foreign", about |-> lists.foreign],
       [name |-> "unknown", about |-> lists.unknown] >>

\* Mutated form of ToTell: sent although there is nothing to tell.
AnyAlert(a) == TRUE

\* The `if` before each of the alerts.
ToTell(a) == a.about # {}

NextPass ==
    /\ pass <= 3
    /\ todo = {}
    /\ pass' = pass + 1
    /\ todo' = IF pass < 3 THEN requests ELSE {}
    /\ outbox' = IF pass < 3 THEN <<>> ELSE Alerts
    /\ UNCHANGED <<requests, userKeys, known, lists, sent, failures>>

\* The next alert is sent when there is something to tell.
Send ==
    /\ outbox # <<>>
    /\ sent' = IF ToTell(Head(outbox)) THEN sent \union {Head(outbox)} ELSE sent
    /\ outbox' = Tail(outbox)
    /\ UNCHANGED <<requests, userKeys, known, pass, todo, lists, failures>>

\* The head is tried again, as long as it stays the head.
SendFails ==
    /\ outbox # <<>>
    /\ ToTell(Head(outbox))
    /\ failures < MaxFailures
    /\ failures' = failures + 1
    /\ Begin
    /\ UNCHANGED <<requests, userKeys, sent>>

Next ==
    \/ \E more \in SUBSET (Validators \ userKeys) : KeysUpdated(more)
    \/ \E w \in todo : LookAt(w)
    \/ NextPass
    \/ Send
    \/ SendFails

Spec == Init /\ [][Next]_vars

-----------------------------------------------------------------------------
(* Properties.                                                             *)

\* Types; no alert is sent about nothing (the `if` before each of the sends of
\* `handle`).
TypeOK ==
    /\ requests \subseteq Request
    /\ userKeys \subseteq Validators
    /\ known \subseteq userKeys
    /\ pass \in 1 .. 4
    /\ todo \subseteq requests
    /\ lists \in [{"user", "foreign", "unknown"} -> SUBSET requests]
    /\ outbox \in Seq([name : {"full", "partial", "foreign", "unknown"},
                       about : SUBSET requests])
    /\ sent \subseteq [name : {"full", "partial", "foreign", "unknown"},
                       about : (SUBSET requests) \ {{}}]
    /\ failures \in 0 .. MaxFailures

Returned == pass = 4 /\ outbox = <<>>

Told(w, names) == \E a \in sent : a.name \in names /\ w \in a.about

\* A request about a validator of ours is reported, by its kind or as one from
\* an unknown source, whenever its key was there when the attempt began.
KnownRequestsReported ==
    Returned =>
        \A w \in requests :
            w.validator \in known =>
                Told(w, IF ~w.fromOurs THEN {"unknown"}
                        ELSE IF w.amount = 0 THEN {"full"} ELSE {"partial"})

\* No attempt takes the same request for one about a validator of ours and for
\* one about a stranger's.
OneVerdict == lists.user \intersect lists.foreign = {}

\* A request from our source is reported in any case, be it about a validator
\* of ours or about a stranger's (test_withdrawals.py expects one alert for
\* either).
OurSourceReported ==
    Returned =>
        \A w \in requests :
            w.fromOurs => Told(w, {"full", "partial", "foreign"})
=============================================================================

--------------------------- MODULE Handlers_proofs ---------------------------
(***************************************************************************)
(* Proofs about the handlers for withdrawal requests (ElWithdrawals) and   *)
(* for slashings and exits (OwnerAlerts), which MCHandlers runs beside     *)
(* Consolidations: for any requests, amounts, keys and validators, any     *)
(* length of an epoch, and however often an attempt fails.                 *)
(***************************************************************************)
EXTENDS MCHandlers, WellFoundedInduction, TLAPS

USE DataAssumption, BoundsAssumption, AmountsAssumption, OwnerAssumption

-----------------------------------------------------------------------------
(* Withdrawal requests: the inductive invariant.  A request is taken for   *)
(* ours by keys that stay, so the pass for strangers' requests does not    *)
(* take it; the alerts behind are out, and those ahead are about the lists *)
(* as they are.                                                            *)

ElBehind == 4 - Len(elOutbox)

\* What the passes so far have made of a request.
ElLooked(w) ==
    /\ w \in elLists.user => w.fromOurs /\ w.validator \in elKeys
    /\ w.validator \in elKnown =>
          /\ w.fromOurs /\ (pass > 1 \/ w \notin elTodo) => w \in elLists.user
          /\ ~w.fromOurs /\ (pass > 3 \/ (pass = 3 /\ w \notin elTodo))
                => w \in elLists.unknown

ElAlertsInOrder ==
    IF pass < 4 THEN elOutbox = <<>>
    ELSE /\ Len(elOutbox) <= 4
         /\ \A i \in 1 .. Len(elOutbox) : elOutbox[i] = El!Alerts[ElBehind + i]
         /\ \A i \in 1 .. ElBehind :
               El!ToTell(El!Alerts[i]) => El!Alerts[i] \in elSent

ElInv ==
    /\ ElTypeOK
    /\ pass = 1 => elLists.foreign = {}
    /\ OneVerdict
    /\ \A w \in elRequests : ElLooked(w)
    /\ ElAlertsInOrder

-----------------------------------------------------------------------------
(* Slashings and exits: the inductive invariant.  Neither table loses an   *)
(* entry, so what both hold as a head is first tried is classified as ours *)
(* in every attempt at it; and each such validator is still to classify,   *)
(* classified, or reported, as long as its block is the head.              *)

\* What the handlers' last word on a known validator of this head must be.
Reported(h, v) ==
    IF h = "slashings" THEN <<"user", v>> \in reported
    ELSE /\ v \in Muted \/ <<"unexpected_exit", v>> \in reported
         /\ v \in Consolidated => <<"consolidation_exit", v>> \in reported

WrongKinds == {"unknown", "other", "unknown_exit"}

TaskOnCourse(h) ==
    /\ task[h].unknown \intersect ownerKnown = {}
    /\ task[h].other \intersect ownerKnown = {}
    /\ polled = head.slot => \A v \in head[h] \intersect ownerKnown :
          /\ task[h].pc = "run" => v \in task[h].todo \union task[h].user
          /\ task[h].pc = "done" => Reported(h, v)
          /\ handled = polled => Reported(h, v)

OwnerInv ==
    /\ OwnerTypeOK
    /\ \A a \in reported : a[2] \in ownerKnown => a[1] \notin WrongKinds
    /\ \A h \in Owner!Handlers : TaskOnCourse(h)

-----------------------------------------------------------------------------
(* Withdrawal requests: the steps.                                         *)

\* What is left of a list when its head is taken.
LEMMA TailElements ==
    ASSUME NEW S, NEW s \in Seq(S), s # <<>>
    PROVE  /\ Len(s) \in Nat \ {0} /\ Head(s) = s[1] /\ s[1] \in S
           /\ Tail(s) \in Seq(S) /\ Len(Tail(s)) = Len(s) - 1
           /\ \A i \in 1 .. Len(Tail(s)) : Tail(s)[i] = s[i + 1]
OBVIOUS

ElListNames == {"user", "foreign", "unknown"}
ElAlertNames == {"full", "partial", "foreign", "unknown"}

\* The lists, and the alerts made of them.
LEMMA ElListsAndAlerts ==
    ASSUME ElTypeOK
    PROVE  /\ elLists.user \in SUBSET elRequests
           /\ elLists.foreign \in SUBSET elRequests
           /\ elLists.unknown \in SUBSET elRequests
           /\ Len(El!Alerts) = 4
           /\ \A i \in 1 .. 4 : El!Alerts[i] \in
                 [name : ElAlertNames, about : SUBSET elRequests]
           /\ El!Alerts \in
                 Seq([name : ElAlertNames, about : SUBSET elRequests])
<1>1. /\ elLists.user \in SUBSET elRequests
      /\ elLists.foreign \in SUBSET elRequests
      /\ elLists.unknown \in SUBSET elRequests
  BY DEF ElTypeOK, El!TypeOK
<1>2. /\ {w \in elLists.user : El!IsFull(w)} \in SUBSET elRequests
      /\ {w \in elLists.user : El!IsPartial(w)} \in SUBSET elRequests
  BY <1>1
<1>3. QED
  BY <1>1, <1>2 DEF El!Alerts, ElAlertNames

\* An attempt begins with nothing looked at.
LEMMA ElBegins ==
    ASSUME ElTypeOK', pass' = 1, elTodo' = elRequests', elLists' = El!Empty,
           elOutbox' = <<>>
    PROVE  ElInv'
<1>1. /\ elLists'.user = {} /\ elLists'.foreign = {}
      /\ elLists'.unknown = {}
  BY DEF El!Empty
<1>2. \A w \in elRequests' : ElLooked(w)'
  BY <1>1 DEF ElLooked
<1>3. QED
  BY <1>1, <1>2 DEF ElInv, OneVerdict, El!OneVerdict, ElAlertsInOrder

LEMMA ElInit == El!Init => ElInv
<1> SUFFICES ASSUME El!Init PROVE ElInv
  OBVIOUS
<1>1. elRequests \subseteq El!Request
  <2>1. PICK all \in [1 .. MaxRequests -> El!Request] :
            elRequests = {all[i] : i \in 1 .. MaxRequests}
    BY DEF El!Init
  <2>2. QED
    BY <2>1
<1>2. /\ elLists.user = {} /\ elLists.foreign = {} /\ elLists.unknown = {}
      /\ elLists \in [ElListNames -> SUBSET elRequests]
  BY DEF El!Init, El!Empty, ElListNames
<1>3. ElTypeOK
  BY <1>1, <1>2 DEF El!Init, ElTypeOK, El!TypeOK, ElListNames
<1>4. \A w \in elRequests : ElLooked(w)
  BY <1>2 DEF El!Init, ElLooked
<1>5. QED
  BY <1>2, <1>3, <1>4
     DEF El!Init, ElInv, OneVerdict, El!OneVerdict, ElAlertsInOrder

\* Keys that come do not change what was found.
LEMMA ElKeysStep ==
    ASSUME ElInv, NEW more \in SUBSET (ElValidators \ elKeys),
           El!KeysUpdated(more)
    PROVE  ElInv'
<1>1. /\ elKeys' = elKeys \union more
      /\ UNCHANGED <<elRequests, elKnown, pass, elTodo, elLists, elOutbox,
                     elSent, elFailures>>
  BY DEF El!KeysUpdated
<1>2. ElTypeOK'
  BY <1>1 DEF ElInv, ElTypeOK, El!TypeOK
<1>3. \A w \in elRequests' : ElLooked(w)'
  BY <1>1 DEF ElInv, ElLooked
<1>4. ElAlertsInOrder'
  BY <1>1 DEF ElInv, ElAlertsInOrder, ElBehind, El!Alerts, El!ToTell
<1>5. QED
  BY <1>1, <1>2, <1>3, <1>4 DEF ElInv, OneVerdict, El!OneVerdict

\* One more request in the pass for a list.
LEMMA ElLookStep ==
    ASSUME ElInv, NEW w \in elTodo, El!LookAt(w)
    PROVE  ElInv'
<1> DEFINE n == El!Passes[pass]
<1>1. /\ pass \in 1 .. 3 /\ w \in elRequests
      /\ elTodo' = elTodo \ {w}
      /\ elLists' = IF El!Belongs(w, n)
                      THEN [elLists EXCEPT ![n] = @ \union {w}] ELSE elLists
      /\ UNCHANGED <<elRequests, elKeys, elKnown, pass, elOutbox, elSent,
                     elFailures>>
  BY DEF El!LookAt, ElInv, ElTypeOK, El!TypeOK
<1>2. /\ pass = 1 => n = "user"
      /\ pass = 2 => n = "foreign"
      /\ pass = 3 => n = "unknown"
      /\ n \in ElListNames
  BY <1>1 DEF El!Passes, ElListNames
<1>3. /\ n = "user" => (El!Belongs(w, n) <=>
                           w.fromOurs /\ w.validator \in elKeys)
      /\ n = "foreign" => (El!Belongs(w, n) <=>
                              w.fromOurs /\ w.validator \notin elKeys)
      /\ n = "unknown" => (El!Belongs(w, n) <=>
                              ~w.fromOurs /\ w.validator \in elKeys)
  BY DEF El!Belongs
<1> HIDE DEF n
<1>4. elLists \in [ElListNames -> SUBSET elRequests]
  BY DEF ElInv, ElTypeOK, El!TypeOK, ElListNames
<1>5. /\ elLists' \in [ElListNames -> SUBSET elRequests]
      /\ \A k \in ElListNames :
            elLists'[k] = IF k = n /\ El!Belongs(w, n)
                            THEN elLists[k] \union {w} ELSE elLists[k]
  BY <1>1, <1>2, <1>4
<1>6. /\ elLists'.user = IF pass = 1 /\ w.fromOurs /\ w.validator \in elKeys
                            THEN elLists.user \union {w} ELSE elLists.user
      /\ elLists'.foreign = IF pass = 2 /\ w.fromOurs /\ w.validator \notin elKeys
                               THEN elLists.foreign \union {w}
                               ELSE elLists.foreign
      /\ elLists'.unknown = IF pass = 3 /\ ~w.fromOurs /\ w.validator \in elKeys
                               THEN elLists.unknown \union {w}
                               ELSE elLists.unknown
  BY <1>1, <1>2, <1>3, <1>5 DEF ElListNames
<1>7. ElTypeOK'
  BY <1>1, <1>5 DEF ElInv, ElTypeOK, El!TypeOK, ElListNames
<1>8. pass' = 1 => elLists'.foreign = {}
  BY <1>1, <1>6 DEF ElInv
<1>9. OneVerdict'
  <2>1. w \in elLists.user => w.validator \in elKeys
    BY <1>1 DEF ElInv, ElLooked
  <2>2. elLists.user \intersect elLists.foreign = {}
    BY DEF ElInv, OneVerdict, El!OneVerdict
  <2>3. elLists'.user \intersect elLists'.foreign = {}
    BY <1>6, <2>1, <2>2 DEF ElInv
  <2>4. QED
    BY <2>3 DEF OneVerdict, El!OneVerdict
<1>10. ASSUME NEW v \in elRequests PROVE ElLooked(v)'
  <2>1. elKnown \subseteq elKeys
    BY DEF ElInv, ElTypeOK, El!TypeOK
  <2>2. ElLooked(v)
    BY DEF ElInv
  <2>3. QED
    BY <1>1, <1>6, <2>1, <2>2 DEF ElLooked
<1>11. ElAlertsInOrder'
  BY <1>1 DEF ElInv, ElAlertsInOrder
<1>12. QED
  BY <1>1, <1>7, <1>8, <1>9, <1>10, <1>11 DEF ElInv

\* A pass has ended; after the third the alerts are made.
LEMMA ElPassStep ==
    ASSUME ElInv, El!NextPass
    PROVE  ElInv'
<1>1. /\ pass \in 1 .. 3 /\ pass' = pass + 1 /\ elTodo = {}
      /\ elTodo' = IF pass < 3 THEN elRequests ELSE {}
      /\ elOutbox' = IF pass < 3 THEN <<>> ELSE El!Alerts
      /\ UNCHANGED <<elRequests, elKeys, elKnown, elLists, elSent, elFailures>>
  BY DEF El!NextPass, ElInv, ElTypeOK, El!TypeOK
<1>2. ElTypeOK'
  <2>1. elOutbox' \in Seq([name : ElAlertNames, about : SUBSET elRequests])
    BY <1>1, ElListsAndAlerts DEF ElInv
  <2>2. QED
    BY <1>1, <2>1 DEF ElInv, ElTypeOK, El!TypeOK, ElAlertNames
<1>3. OneVerdict' /\ pass' # 1
  BY <1>1 DEF ElInv, OneVerdict, El!OneVerdict
<1>4. \A w \in elRequests' : ElLooked(w)'
  BY <1>1 DEF ElInv, ElLooked
<1>5. ElAlertsInOrder'
  <2>1. CASE pass < 3
    BY <1>1, <2>1 DEF ElAlertsInOrder
  <2>2. CASE pass = 3
    <3>1. El!Alerts' = El!Alerts /\ elOutbox' = El!Alerts
      BY <1>1, <2>2 DEF El!Alerts
    <3>2. Len(elOutbox') = 4 /\ ElBehind' = 0
      BY <3>1, ElListsAndAlerts DEF ElInv, ElBehind
    <3>3. \A i \in 1 .. 4 : elOutbox'[i] = El!Alerts'[ElBehind' + i]
      BY <3>1, <3>2
    <3>4. ~(pass' < 4) /\ 1 .. ElBehind' = {}
      BY <1>1, <2>2, <3>2
    <3>5. QED
      BY <3>2, <3>3, <3>4 DEF ElAlertsInOrder
  <2>3. QED
    BY <1>1, <2>1, <2>2
<1>6. QED
  BY <1>2, <1>3, <1>4, <1>5 DEF ElInv

\* One more alert is behind.
LEMMA ElSendStep ==
    ASSUME ElInv, El!Send
    PROVE  ElInv'
<1> DEFINE T == [name : ElAlertNames, about : SUBSET elRequests]
<1>1. /\ elOutbox # <<>> /\ elOutbox' = Tail(elOutbox)
      /\ elSent' = IF El!ToTell(Head(elOutbox))
                     THEN elSent \union {Head(elOutbox)} ELSE elSent
      /\ UNCHANGED <<elRequests, elKeys, elKnown, pass, elTodo, elLists,
                     elFailures>>
  BY DEF El!Send
<1>2. elOutbox \in Seq(T) /\ pass \in 1 .. 4
  BY DEF ElInv, ElTypeOK, El!TypeOK, ElAlertNames
<1>3. /\ Len(elOutbox) \in Nat \ {0} /\ Head(elOutbox) = elOutbox[1]
      /\ elOutbox[1] \in T /\ elOutbox' \in Seq(T)
      /\ Len(elOutbox') = Len(elOutbox) - 1
      /\ \A i \in 1 .. Len(elOutbox') : elOutbox'[i] = elOutbox[i + 1]
  BY <1>1, <1>2, TailElements
<1>4. ElTypeOK'
  <2>1. El!ToTell(Head(elOutbox)) =>
           Head(elOutbox) \in [name : ElAlertNames,
                               about : (SUBSET elRequests) \ {{}}]
    BY <1>3 DEF El!ToTell
  <2>2. elSent' \subseteq [name : ElAlertNames,
                           about : (SUBSET elRequests) \ {{}}]
    BY <1>1, <2>1 DEF ElInv, ElTypeOK, El!TypeOK, ElAlertNames
  <2>3. QED
    BY <1>1, <1>3, <2>2 DEF ElInv, ElTypeOK, El!TypeOK, ElAlertNames
<1>5. El!Alerts' = El!Alerts
  BY <1>1 DEF El!Alerts
<1>6. ElAlertsInOrder'
  <2>1. pass = 4
    BY <1>1, <1>2 DEF ElInv, ElAlertsInOrder
  <2>2. /\ Len(elOutbox) <= 4
        /\ \A i \in 1 .. Len(elOutbox) :
              elOutbox[i] = El!Alerts[ElBehind + i]
        /\ \A i \in 1 .. ElBehind :
              El!ToTell(El!Alerts[i]) => El!Alerts[i] \in elSent
    BY <2>1 DEF ElInv, ElAlertsInOrder
  <2>3. ElBehind' = ElBehind + 1 /\ ElBehind \in 0 .. 3
    BY <1>3, <2>2 DEF ElBehind
  <2>4. Head(elOutbox) = El!Alerts[ElBehind + 1]
    BY <1>3, <2>2
  <2>5. ASSUME NEW i \in 1 .. Len(elOutbox')
        PROVE  elOutbox'[i] = El!Alerts[ElBehind' + i]
    <3>1. i + 1 \in 1 .. Len(elOutbox) /\ ElBehind + (i + 1) = ElBehind' + i
      BY <1>3, <2>3
    <3>2. QED
      BY <1>3, <2>2, <3>1
  <2>6. ASSUME NEW i \in 1 .. ElBehind', El!ToTell(El!Alerts[i])
        PROVE  El!Alerts[i] \in elSent'
    <3>1. i \in 1 .. ElBehind \/ i = ElBehind + 1
      BY <2>3
    <3>2. QED
      BY <1>1, <2>2, <2>4, <2>6, <3>1
  <2>7. Len(elOutbox') <= 4
    BY <1>3, <2>2
  <2>8. \A a : El!ToTell(a)' = El!ToTell(a)
    BY DEF El!ToTell
  <2>9. QED
    BY <1>1, <1>5, <2>1, <2>5, <2>6, <2>7 DEF ElAlertsInOrder, El!ToTell
<1>7. QED
  BY <1>1, <1>4, <1>6 DEF ElInv, OneVerdict, El!OneVerdict, ElLooked

\* A failed POST: everything is done again.
LEMMA ElFailsStep ==
    ASSUME ElInv, El!SendFails
    PROVE  ElInv'
<1>1. /\ pass' = 1 /\ elTodo' = elRequests /\ elLists' = El!Empty
      /\ elOutbox' = <<>> /\ elKnown' = elKeys
      /\ elFailures' = elFailures + 1 /\ elFailures < MaxFailures
      /\ UNCHANGED <<elRequests, elKeys, elSent>>
  BY DEF El!SendFails, El!Begin
<1>2. El!Empty \in [ElListNames -> SUBSET elRequests]
  BY DEF El!Empty, ElListNames
<1>3. elFailures' \in 0 .. MaxFailures
  BY <1>1 DEF ElInv, ElTypeOK, El!TypeOK
<1>4. elOutbox' \in Seq([name : ElAlertNames, about : SUBSET elRequests])
  BY <1>1
<1>5. ElTypeOK'
  BY <1>1, <1>2, <1>3, <1>4
     DEF ElInv, ElTypeOK, El!TypeOK, ElListNames, ElAlertNames
<1>6. QED
  BY <1>1, <1>5, ElBegins

LEMMA ElStep == ElInv /\ [El!Next]_elVars => ElInv'
<1> SUFFICES ASSUME ElInv, [El!Next]_elVars PROVE ElInv'
  OBVIOUS
<1>1. CASE UNCHANGED elVars
  <2>1. El!Alerts' = El!Alerts
    BY <1>1 DEF elVars, El!Alerts
  <2>2. ElTypeOK' /\ OneVerdict'
    BY <1>1 DEF elVars, ElInv, ElTypeOK, El!TypeOK, OneVerdict, El!OneVerdict
  <2>3. \A w \in elRequests' : ElLooked(w)'
    BY <1>1 DEF elVars, ElInv, ElLooked
  <2>4. ElAlertsInOrder'
    BY <1>1, <2>1 DEF elVars, ElInv, ElAlertsInOrder, ElBehind, El!ToTell
  <2>5. QED
    BY <1>1, <2>2, <2>3, <2>4 DEF elVars, ElInv
<1>2. QED
  BY <1>1, ElKeysStep, ElLookStep, ElPassStep, ElSendStep, ElFailsStep
     DEF El!Next

LEMMA ElInductive == MCSpec => []ElInv
<1>1. MCInit => ElInv
  BY ElInit DEF MCInit
<1>2. ElInv /\ [MCNext]_<<part, vars, elVars, ownerVars>> => ElInv'
  BY ElStep DEF MCNext
<1>3. QED
  BY <1>1, <1>2, PTL DEF MCSpec

\* Lists are made of the block's requests, and no alert is sent about nothing.
THEOREM ElTypeCorrect == MCSpec => []ElTypeOK
<1>1. ElInv => ElTypeOK
  BY DEF ElInv
<1>2. QED
  BY <1>1, ElInductive, PTL

\* No attempt takes a request for one about a validator of ours and for one
\* about a stranger's, whenever the keys change.
THEOREM VerdictsAreOne == MCSpec => []OneVerdict
<1>1. ElInv => OneVerdict
  BY DEF ElInv
<1>2. QED
  BY <1>1, ElInductive, PTL

\* A request about a validator of ours whose key was there when the attempt
\* began is reported by its kind once the handler has returned, whatever keys
\* come and whatever failed before.
THEOREM RequestsAreReported == MCSpec => []KnownRequestsReported
<1>1. ElInv => KnownRequestsReported
  <2> SUFFICES ASSUME ElInv, pass = 4, elOutbox = <<>>,
                      NEW w \in elRequests, w.validator \in elKnown
               PROVE  El!Told(w, IF ~w.fromOurs THEN {"unknown"}
                                 ELSE IF w.amount = 0 THEN {"full"}
                                 ELSE {"partial"})
    BY DEF KnownRequestsReported, El!KnownRequestsReported, El!Returned
  <2>1. ElBehind = 4
    BY DEF ElBehind
  <2>2. \A i \in 1 .. 4 : El!ToTell(El!Alerts[i]) => El!Alerts[i] \in elSent
    BY <2>1 DEF ElInv, ElAlertsInOrder
  <2>3. ASSUME NEW i \in 1 .. 4, w \in El!Alerts[i].about,
               NEW n, n = El!Alerts[i].name
        PROVE  El!Told(w, {n})
    BY <2>2, <2>3 DEF El!ToTell, El!Told
  <2>4. w.amount \in Nat /\ w.fromOurs \in BOOLEAN
    BY DEF ElInv, ElTypeOK, El!TypeOK, El!Request
  <2>5. CASE ~w.fromOurs
    <3>1. w \in elLists.unknown
      BY <2>5 DEF ElInv, ElLooked
    <3>2. El!Alerts[4].name = "unknown" /\ w \in El!Alerts[4].about
      BY <3>1 DEF El!Alerts
    <3>3. El!Told(w, {"unknown"})
      BY <2>3, <3>2
    <3>4. QED
      BY <2>5, <3>3
  <2>6. CASE w.fromOurs
    <3>1. w \in elLists.user
      BY <2>6 DEF ElInv, ElLooked
    <3>2. CASE w.amount = 0
      <4>1. El!Alerts[1].name = "full" /\ w \in El!Alerts[1].about
        BY <3>1, <3>2 DEF El!Alerts, El!IsFull
      <4>2. El!Told(w, {"full"})
        BY <2>3, <4>1
      <4>3. QED
        BY <2>6, <3>2, <4>2
    <3>3. CASE w.amount # 0
      <4>1. w.amount > 0
        BY <2>4, <3>3
      <4>2. El!Alerts[2].name = "partial" /\ w \in El!Alerts[2].about
        BY <3>1, <4>1 DEF El!Alerts, El!IsPartial
      <4>3. El!Told(w, {"partial"})
        BY <2>3, <4>2
      <4>4. QED
        BY <2>6, <3>3, <4>3
    <3>4. QED
      BY <3>2, <3>3
  <2>7. QED
    BY <2>4, <2>5, <2>6
<1>2. QED
  BY <1>1, ElInductive, PTL
-----------------------------------------------------------------------------
(* Slashings and exits: the steps.                                         *)

OwnerTask == [pc : {"idle", "run", "done"}, todo : SUBSET registry,
              user : SUBSET registry, unknown : SUBSET registry,
              other : SUBSET registry]

\* The parts of the types.
LEMMA OwnerTypes ==
    ASSUME OwnerTypeOK
    PROVE  /\ slot \in Nat /\ slot <= MaxSlot /\ slot >= 1
           /\ head.slot \in Nat /\ head.slot <= slot
           /\ polled \in Nat /\ polled <= head.slot
           /\ handled \in Nat /\ handled <= polled
           /\ ownerKeys \subseteq ours /\ index \subseteq registry
           /\ ownerKnown \subseteq index \intersect ownerKeys
           /\ task \in [Owner!Handlers -> OwnerTask]
           /\ \A h \in Owner!Handlers : head[h] \in SUBSET registry
<1>1. /\ slot \in 1 .. MaxSlot
      /\ head \in [slot : 0 .. slot, slashings : SUBSET registry,
                   exits : SUBSET registry]
      /\ polled \in 0 .. head.slot /\ handled \in 0 .. polled
  BY DEF OwnerTypeOK, Owner!TypeOK
<1>2. head.slot \in Nat /\ head.slot <= slot
  BY <1>1
<1>3. /\ polled \in Nat /\ polled <= head.slot
      /\ handled \in Nat /\ handled <= polled
  BY <1>1, <1>2
<1>4. \A h \in Owner!Handlers : head[h] \in SUBSET registry
  BY <1>1 DEF Owner!Handlers
<1>5. QED
  BY <1>1, <1>2, <1>3, <1>4 DEF OwnerTypeOK, Owner!TypeOK, OwnerTask

\* A step that keeps the head, the tasks and what was said.
LEMMA OwnerStays ==
    ASSUME OwnerInv, OwnerTypeOK',
           UNCHANGED <<head, polled, handled, task, ownerKnown, reported>>
    PROVE  OwnerInv'
<1>1. \A h \in Owner!Handlers : TaskOnCourse(h)'
  BY DEF OwnerInv, TaskOnCourse, Reported
<1>2. QED
  BY <1>1 DEF OwnerInv

LEMMA OwnerInit == Owner!Init => OwnerInv
<1> SUFFICES ASSUME Owner!Init PROVE OwnerInv
  OBVIOUS
<1>1. Owner!NoTask \in OwnerTask /\ {} \in SUBSET registry
  BY DEF Owner!NoTask, OwnerTask
<1>2. task \in [Owner!Handlers -> OwnerTask]
  BY <1>1 DEF Owner!Init
<1>3. /\ head \in [slot : 0 .. slot, slashings : SUBSET registry,
                   exits : SUBSET registry]
      /\ polled \in 0 .. head.slot /\ handled \in 0 .. polled
      /\ slot \in 1 .. MaxSlot /\ ownerFailures \in 0 .. MaxFailures
  BY DEF Owner!Init
<1>4. OwnerTypeOK
  BY <1>2, <1>3 DEF Owner!Init, OwnerTypeOK, Owner!TypeOK, OwnerTask
<1>5. QED
  BY <1>4 DEF Owner!Init, OwnerInv, TaskOnCourse, Owner!NoTask

\* The clock and the keys source go on.
LEMMA OwnerTickStep ==
    ASSUME OwnerInv, NEW added \in SUBSET (OwnerValidators \ registry),
           Owner!Tick(added)
    PROVE  OwnerInv'
<1>1. /\ slot < MaxSlot /\ slot' = slot + 1
      /\ registry' = registry \union added
      /\ iterated' = FALSE /\ asked' = FALSE
      /\ UNCHANGED <<ours, head, polled, handled, ownerKnown, ownerFailures,
                     index, indexer, ownerKeys, keysUpdater, task, reported>>
  BY DEF Owner!Tick, Owner!loop, Owner!tables
<1>2. slot' \in 1 .. MaxSlot /\ head.slot \in 0 .. slot'
  BY <1>1, OwnerTypes DEF OwnerInv
<1>3. OwnerTypeOK'
  BY <1>1, <1>2 DEF OwnerInv, OwnerTypeOK, Owner!TypeOK
<1>4. QED
  BY <1>1, <1>3, OwnerStays

LEMMA OwnerKeyStep ==
    ASSUME OwnerInv, NEW v \in OwnerValidators, Owner!KeySubmitted(v)
    PROVE  OwnerInv'
<1>1. /\ ours' = ours \union {v}
      /\ UNCHANGED <<slot, registry, head, polled, handled, ownerKnown,
                     ownerFailures, index, indexer, ownerKeys, keysUpdater,
                     task, iterated, asked, reported>>
  BY DEF Owner!KeySubmitted, Owner!loop, Owner!tables, Owner!history
<1>2. OwnerTypeOK'
  BY <1>1 DEF OwnerInv, OwnerTypeOK, Owner!TypeOK
<1>3. QED
  BY <1>1, <1>2, OwnerStays

\* A new block is not yet the head that was tried.
LEMMA OwnerBlockStep ==
    ASSUME OwnerInv, head.slot < slot, NEW s \in SUBSET registry,
           NEW x \in SUBSET registry, Owner!NewBlock(s, x)
    PROVE  OwnerInv'
<1>1. /\ head' = [slot |-> slot, slashings |-> s, exits |-> x]
      /\ UNCHANGED <<slot, registry, ours, polled, handled, ownerKnown,
                     ownerFailures, index, indexer, ownerKeys, keysUpdater,
                     task, iterated, asked, reported>>
  BY DEF Owner!NewBlock, Owner!loop, Owner!tables, Owner!history
<1>2. /\ head'.slot = slot /\ polled < slot
      /\ head' \in [slot : 0 .. slot, slashings : SUBSET registry,
                    exits : SUBSET registry]
      /\ polled \in 0 .. slot
  BY <1>1, OwnerTypes DEF OwnerInv
<1>3. OwnerTypeOK'
  BY <1>1, <1>2 DEF OwnerInv, OwnerTypeOK, Owner!TypeOK
<1>4. \A h \in Owner!Handlers : TaskOnCourse(h)'
  <2>1. polled' # head'.slot
    BY <1>1, <1>2, OwnerTypes DEF OwnerInv
  <2>2. QED
    BY <1>1, <2>1 DEF OwnerInv, TaskOnCourse
<1>5. QED
  BY <1>1, <1>3, <1>4 DEF OwnerInv

\* The block's slashed validators are in the registry.
LEMMA SlashedAreRegistered == Owner!SlashedSets \subseteq SUBSET registry
BY DEF Owner!SlashedSets, Owner!Slashings

\* The updaters.  The keys they bring are those of before and more.
LEMMA OwnerUpdaterStep ==
    ASSUME OwnerInv,
           \/ \E new \in {{}, ours} : Owner!KeysUpdated(new)
           \/ Owner!IndexLook \/ Owner!IndexRequest
           \/ Owner!IndexOne \/ Owner!IndexEnds \/ Owner!PollNothing
    PROVE  OwnerInv'
<1>1. UNCHANGED <<slot, registry, ours, head, polled, handled, ownerKnown,
                  ownerFailures, task, reported>>
  BY DEF Owner!KeysUpdated, Owner!IndexLook, Owner!IndexRequest,
         Owner!IndexOne, Owner!IndexEnds, Owner!PollNothing, Owner!clock,
         Owner!loop, Owner!tables
<1>2. /\ ownerKeys \subseteq ownerKeys' /\ ownerKeys' \subseteq ours
      /\ keysUpdater' \in {"idle", "running"}
  <2>1. ownerKeys \subseteq ours /\ keysUpdater \in {"idle", "running"}
    BY DEF OwnerInv, OwnerTypeOK, Owner!TypeOK
  <2>2. CASE \E new \in {{}, ours} : Owner!KeysUpdated(new)
    BY <2>1, <2>2 DEF Owner!KeysUpdated, Owner!KeysTaken
  <2>3. CASE ~ \E new \in {{}, ours} : Owner!KeysUpdated(new)
    BY <2>1, <2>3
       DEF Owner!IndexLook, Owner!IndexRequest, Owner!IndexOne,
           Owner!IndexEnds, Owner!PollNothing, Owner!tables
  <2>4. QED
    BY <2>2, <2>3
<1>3. /\ index \subseteq index' /\ index' \subseteq registry
      /\ indexer' \in [pc : {"idle", "look", "request", "stream"},
                       todo : SUBSET registry]
  <2>1. /\ index \subseteq registry /\ registry \subseteq Nat
        /\ indexer \in [pc : {"idle", "look", "request", "stream"},
                        todo : SUBSET registry]
    BY DEF OwnerInv, OwnerTypeOK, Owner!TypeOK
  <2>2. CASE Owner!IndexOne
    <3>1. PICK x \in indexer.todo :
             \A b \in indexer.todo : ~ (<<b, x>> \in OpToRel(<, Nat))
      <4>1. indexer.todo \subseteq Nat /\ indexer.todo # {}
        BY <2>1, <2>2 DEF Owner!IndexOne
      <4>2. QED
        BY <4>1, NatLessThanWellFounded, WFMin
    <3>2. ASSUME NEW b \in indexer.todo PROVE x <= b
      <4>1. b \in Nat /\ x \in Nat
        BY <2>1
      <4>2. ~ (b < x)
        BY <3>1, <4>1 DEF OpToRel
      <4>3. QED
        BY <4>1, <4>2
    <3>3. Owner!Min(indexer.todo) \in indexer.todo
      BY <3>2 DEF Owner!Min
    <3>4. /\ index' = index \union {Owner!Min(indexer.todo)}
          /\ indexer' = [indexer EXCEPT
                            !.todo = @ \ {Owner!Min(indexer.todo)}]
      BY <2>2 DEF Owner!IndexOne
    <3>5. QED
      BY <2>1, <3>3, <3>4
  <2>3. CASE ~Owner!IndexOne
    BY <2>1, <2>3
       DEF Owner!KeysUpdated, Owner!IndexLook, Owner!IndexRequest,
           Owner!IndexEnds, Owner!PollNothing, Owner!tables
  <2>4. QED
    BY <2>2, <2>3
<1>4. iterated' \in BOOLEAN /\ asked' \in BOOLEAN
  <2>1. iterated \in BOOLEAN /\ asked \in BOOLEAN
    BY DEF OwnerInv, OwnerTypeOK, Owner!TypeOK
  <2>2. Owner!EpochBegins \in BOOLEAN
    BY DEF Owner!EpochBegins
  <2>3. iterated' = iterated \/ iterated' = Owner!EpochBegins
    BY DEF Owner!KeysUpdated, Owner!IndexLook, Owner!IndexRequest,
           Owner!IndexOne, Owner!IndexEnds, Owner!PollNothing, Owner!history
  <2>4. asked' = asked
           \/ asked' = (asked \/ (Owner!EpochBegins /\ Owner!IndexIsDue))
    BY DEF Owner!KeysUpdated, Owner!IndexLook, Owner!IndexRequest,
           Owner!IndexOne, Owner!IndexEnds, Owner!PollNothing, Owner!history
  <2>5. QED
    BY <2>1, <2>2, <2>3, <2>4
<1>5. OwnerTypeOK'
  BY <1>1, <1>2, <1>3, <1>4 DEF OwnerInv, OwnerTypeOK, Owner!TypeOK
<1>6. QED
  BY <1>1, <1>5, OwnerStays
\* A step of the loop or of a handler, by what it makes of the tasks.
LEMMA OwnerTaskTypes ==
    ASSUME OwnerInv, NEW h \in Owner!Handlers, NEW k \in OwnerTask,
           UNCHANGED <<slot, registry, ours, head, polled, handled, index,
                       indexer, ownerKeys, keysUpdater, ownerKnown, iterated,
                       asked>>,
           task' = [task EXCEPT ![h] = k],
           ownerFailures' \in 0 .. MaxFailures
    PROVE  /\ OwnerTypeOK' /\ task'[h] = k
           /\ \A g \in Owner!Handlers \ {h} : task'[g] = task[g]
<1>1. task \in [Owner!Handlers -> OwnerTask]
  BY OwnerTypes DEF OwnerInv
<1>2. task' \in [Owner!Handlers -> OwnerTask]
  BY <1>1
<1>3. OwnerTypeOK'
  BY <1>2 DEF OwnerInv, OwnerTypeOK, Owner!TypeOK, OwnerTask
<1>4. QED
  BY <1>1, <1>3

\* A validator both tables held is classified as ours.
LEMMA OwnerClassifyStep ==
    ASSUME OwnerInv, NEW h \in Owner!Handlers, NEW v \in task[h].todo,
           Owner!Classify(h, v)
    PROVE  OwnerInv'
<1> DEFINE o == Owner!Owner(v)
           k == [task[h] EXCEPT !.todo = @ \ {v}, ![o] = @ \union {v}]
<1>1. /\ task[h].pc = "run" /\ o \in {"user", "unknown", "other"}
      /\ v \in ownerKnown => o = "user"
      /\ task[h] \in OwnerTask /\ v \in registry
      /\ task \in [Owner!Handlers -> OwnerTask]
  BY OwnerTypes DEF Owner!Classify, Owner!Owner, OwnerInv, OwnerTask
<1> HIDE DEF o
<1>2. /\ k \in OwnerTask /\ k.pc = "run" /\ k.todo = task[h].todo \ {v}
      /\ k.user = IF o = "user" THEN task[h].user \union {v} ELSE task[h].user
      /\ k.unknown = IF o = "unknown" THEN task[h].unknown \union {v}
                                      ELSE task[h].unknown
      /\ k.other = IF o = "other" THEN task[h].other \union {v}
                                  ELSE task[h].other
  <2>1. CASE o = "user"
    BY <1>1, <2>1 DEF OwnerTask
  <2>2. CASE o = "unknown"
    BY <1>1, <2>2 DEF OwnerTask
  <2>3. CASE o = "other"
    BY <1>1, <2>3 DEF OwnerTask
  <2>4. QED
    BY <1>1, <2>1, <2>2, <2>3
<1>3. task' = [task EXCEPT ![h] = k]
  BY <1>1 DEF Owner!Classify, o
<1> HIDE DEF k
<1>4. UNCHANGED <<slot, registry, ours, head, polled, handled, index, indexer,
                  ownerKeys, keysUpdater, ownerKnown, iterated, asked,
                  reported, ownerFailures>>
  BY DEF Owner!Classify, Owner!clock, Owner!loop, Owner!tables, Owner!history
<1>5. ownerFailures' \in 0 .. MaxFailures
  BY <1>4 DEF OwnerInv, OwnerTypeOK, Owner!TypeOK
<1>6. /\ OwnerTypeOK' /\ task'[h] = k
      /\ \A g \in Owner!Handlers \ {h} : task'[g] = task[g]
  BY <1>2, <1>3, <1>4, <1>5, OwnerTaskTypes
<1>7. ASSUME NEW g \in Owner!Handlers PROVE TaskOnCourse(g)'
  <2>1. CASE g = h
    BY <1>1, <1>2, <1>4, <1>6, <2>1 DEF OwnerInv, TaskOnCourse, Reported
  <2>2. CASE g # h
    BY <1>4, <1>6, <2>2 DEF OwnerInv, TaskOnCourse, Reported
  <2>3. QED
    BY <2>1, <2>2
<1>8. QED
  BY <1>4, <1>6, <1>7 DEF OwnerInv

\* What the alerts of a handler say, and of whom.
LEMMA AlertsAreRight ==
    ASSUME OwnerInv, NEW h \in Owner!Handlers
    PROVE  /\ \A a \in Owner!AlertsOf(h) :
                 a[2] \in ownerKnown => a[1] \notin WrongKinds
           /\ \A v \in task[h].user :
                 IF h = "slashings" THEN <<"user", v>> \in Owner!AlertsOf(h)
                 ELSE /\ v \in Muted \/ <<"unexpected_exit", v>>
                                           \in Owner!AlertsOf(h)
                      /\ v \in Consolidated => <<"consolidation_exit", v>>
                                                   \in Owner!AlertsOf(h)
<1>1. /\ task[h].unknown \intersect ownerKnown = {}
      /\ task[h].other \intersect ownerKnown = {}
  BY DEF OwnerInv, TaskOnCourse
<1>2. CASE h = "slashings"
  <2>1. Owner!AlertsOf(h) = {<<"user", v>> : v \in task[h].user}
                               \union {<<"unknown", v>> : v \in task[h].unknown}
                               \union {<<"other", v>> : v \in task[h].other}
    BY <1>2 DEF Owner!AlertsOf, Owner!SlashingAlerts
  <2>2. ASSUME NEW a \in Owner!AlertsOf(h), a[2] \in ownerKnown
        PROVE  a[1] \notin WrongKinds
    BY <1>1, <2>1, <2>2 DEF WrongKinds
  <2>3. QED
    BY <1>2, <2>1, <2>2
<1>3. CASE h = "exits"
  <2>1. Owner!AlertsOf(h) =
           {<<"unexpected_exit", v>> :
                v \in {u \in task[h].user : Owner!Unexpected(u)}}
              \union {<<"consolidation_exit", v>> :
                        v \in task[h].user \intersect Consolidated}
              \union {<<"unknown_exit", v>> : v \in task[h].unknown}
    BY <1>3 DEF Owner!AlertsOf, Owner!ExitAlerts
  <2>2. ASSUME NEW a \in Owner!AlertsOf(h), a[2] \in ownerKnown
        PROVE  a[1] \notin WrongKinds
    BY <1>1, <2>1, <2>2 DEF WrongKinds
  <2>3. ASSUME NEW v \in task[h].user
        PROVE  /\ v \in Muted \/ <<"unexpected_exit", v>>
                                     \in Owner!AlertsOf(h)
               /\ v \in Consolidated => <<"consolidation_exit", v>>
                                            \in Owner!AlertsOf(h)
    BY <2>1 DEF Owner!Unexpected
  <2>4. QED
    BY <1>3, <2>2, <2>3
<1>4. QED
  BY <1>2, <1>3 DEF Owner!Handlers

\* A handler that has sent its alerts has reported what it knew.
LEMMA OwnerSendStep ==
    ASSUME OwnerInv, NEW h \in Owner!Handlers, Owner!SendAlerts(h)
    PROVE  OwnerInv'
<1> DEFINE k == [task[h] EXCEPT !.pc = "done"]
<1>1. /\ task[h] \in OwnerTask /\ task[h].pc = "run" /\ task[h].todo = {}
      /\ task \in [Owner!Handlers -> OwnerTask]
      /\ reported' = reported \union Owner!AlertsOf(h)
      /\ UNCHANGED <<slot, registry, ours, head, polled, handled, index,
                     indexer, ownerKeys, keysUpdater, ownerKnown, iterated,
                     asked, ownerFailures>>
  BY OwnerTypes
     DEF OwnerInv, Owner!SendAlerts, Owner!clock, Owner!loop, Owner!tables,
         Owner!history
<1>2. /\ k \in OwnerTask /\ k.pc = "done" /\ k.user = task[h].user
      /\ k.unknown = task[h].unknown /\ k.other = task[h].other
  BY <1>1 DEF OwnerTask
<1>3. task' = [task EXCEPT ![h] = k]
  BY <1>1 DEF Owner!SendAlerts
<1> HIDE DEF k
<1>4. ownerFailures' \in 0 .. MaxFailures
  BY <1>1 DEF OwnerInv, OwnerTypeOK, Owner!TypeOK
<1>5. /\ OwnerTypeOK' /\ task'[h] = k
      /\ \A g \in Owner!Handlers \ {h} : task'[g] = task[g]
  BY <1>1, <1>2, <1>3, <1>4, OwnerTaskTypes
<1>6. \A g, v : Reported(g, v) => Reported(g, v)'
  BY <1>1 DEF Reported
<1>7. ASSUME NEW g \in Owner!Handlers PROVE TaskOnCourse(g)'
  <2>1. CASE g = h
    <3>1. ASSUME polled = head.slot, NEW v \in head[h] \intersect ownerKnown
          PROVE  Reported(h, v)'
      <4>1. v \in task[h].user
        BY <1>1, <3>1 DEF OwnerInv, TaskOnCourse
      <4>2. QED
        BY <1>1, <4>1, AlertsAreRight DEF Reported
    <3>2. QED
      BY <1>1, <1>2, <1>5, <2>1, <3>1 DEF OwnerInv, TaskOnCourse
  <2>2. CASE g # h
    BY <1>1, <1>5, <1>6, <2>2 DEF OwnerInv, TaskOnCourse
  <2>3. QED
    BY <2>1, <2>2
<1>8. \A a \in reported' : a[2] \in ownerKnown' => a[1] \notin WrongKinds
  BY <1>1, AlertsAreRight DEF OwnerInv
<1>9. QED
  BY <1>5, <1>7, <1>8 DEF OwnerInv

\* The loop starts the tasks, records the head or gives up the attempt: the
\* handlers are all at their beginning.
LEMMA OwnerLoopStep ==
    ASSUME OwnerInv,
           Owner!Poll \/ Owner!Complete
              \/ \E h \in Owner!Handlers : Owner!SendFails(h)
    PROVE  OwnerInv'
<1>1. /\ UNCHANGED <<slot, registry, ours, head, index, ownerKeys>>
      /\ asked' = asked
  BY DEF Owner!Poll, Owner!Complete, Owner!SendFails, Owner!clock,
         Owner!tables, Owner!history
<1>2. /\ slot \in Nat /\ head.slot \in Nat /\ polled \in Nat
      /\ handled \in Nat /\ handled <= polled /\ polled <= head.slot
      /\ task \in [Owner!Handlers -> OwnerTask]
      /\ \A h \in Owner!Handlers : head[h] \in SUBSET registry
      /\ ownerKnown \subseteq index \intersect ownerKeys
      /\ iterated \in BOOLEAN /\ asked \in BOOLEAN
      /\ ownerFailures \in 0 .. MaxFailures
      /\ indexer \in [pc : {"idle", "look", "request", "stream"},
                      todo : SUBSET registry]
      /\ keysUpdater \in {"idle", "running"}
  BY OwnerTypes DEF OwnerInv, OwnerTypeOK, Owner!TypeOK
<1>3. Owner!NoTask \in OwnerTask
  BY DEF Owner!NoTask, OwnerTask
<1>4. CASE Owner!Poll
  <2> DEFINE begun(h) == [Owner!NoTask EXCEPT !.pc = "run", !.todo = head[h]]
  <2>1. /\ handled # head.slot /\ polled' = head.slot
        /\ keysUpdater' = "running"
        /\ indexer' = IF indexer.pc = "idle"
                        THEN [indexer EXCEPT !.pc = "look"] ELSE indexer
        /\ task' = [h \in Owner!Handlers |-> begun(h)]
        /\ ownerKnown' = IF polled = head.slot THEN ownerKnown
                          ELSE index \intersect ownerKeys
        /\ reported' = IF polled = head.slot THEN reported ELSE {}
        /\ UNCHANGED <<handled, ownerFailures>>
    BY <1>4 DEF Owner!Poll
  <2>2. iterated' \in BOOLEAN
    BY <1>4 DEF Owner!Poll, Owner!EpochBegins
  <2>3. \A h \in Owner!Handlers :
           /\ begun(h) \in OwnerTask /\ begun(h).pc = "run"
           /\ begun(h).todo = head[h] /\ begun(h).unknown = {}
           /\ begun(h).other = {}
    BY <1>2 DEF Owner!NoTask, OwnerTask
  <2> HIDE DEF begun
  <2>4. /\ task' \in [Owner!Handlers -> OwnerTask]
        /\ \A h \in Owner!Handlers : task'[h] = begun(h)
    BY <2>1, <2>3
  <2>5. /\ polled' \in 0 .. head.slot /\ handled' \in 0 .. polled'
        /\ ownerKnown' \subseteq index \intersect ownerKeys
        /\ indexer' \in [pc : {"idle", "look", "request", "stream"},
                         todo : SUBSET registry]
    BY <1>2, <2>1
  <2>6. OwnerTypeOK'
    BY <1>1, <1>2, <2>1, <2>2, <2>4, <2>5
       DEF OwnerInv, OwnerTypeOK, Owner!TypeOK, OwnerTask
  <2>7. ASSUME NEW h \in Owner!Handlers PROVE TaskOnCourse(h)'
    <3>1. handled' # polled'
      BY <2>1
    <3>2. QED
      BY <1>1, <2>3, <2>4, <3>1 DEF TaskOnCourse
  <2>8. \A a \in reported' : a[2] \in ownerKnown' => a[1] \notin WrongKinds
    BY <2>1 DEF OwnerInv
  <2>9. QED
    BY <2>6, <2>7, <2>8 DEF OwnerInv
<1>5. CASE Owner!Complete \/ \E h \in Owner!Handlers : Owner!SendFails(h)
  <2>1. /\ task' = [h \in Owner!Handlers |-> Owner!NoTask]
        /\ UNCHANGED <<polled, indexer, keysUpdater, ownerKnown, iterated>>
        /\ reported \subseteq reported'
    BY <1>5 DEF Owner!Complete, Owner!SendFails, Owner!tables, Owner!history
  <2>2. \/ handled' = handled
        \/ handled' = polled /\ \A h \in Owner!Handlers : task[h].pc = "done"
    BY <1>5 DEF Owner!Complete, Owner!SendFails
  <2>3. ownerFailures' \in 0 .. MaxFailures
    <3>1. \/ ownerFailures' = ownerFailures
          \/ ownerFailures < MaxFailures /\ ownerFailures' = ownerFailures + 1
      BY <1>5 DEF Owner!Complete, Owner!SendFails
    <3>2. QED
      BY <1>2, <3>1
  <2>4. /\ task' \in [Owner!Handlers -> OwnerTask]
        /\ \A h \in Owner!Handlers :
              /\ task'[h].pc = "idle" /\ task'[h].unknown = {}
              /\ task'[h].other = {}
    BY <1>3, <2>1 DEF Owner!NoTask
  <2>5. handled' \in 0 .. polled
    BY <1>2, <2>2
  <2>6. OwnerTypeOK'
    BY <1>1, <1>2, <2>1, <2>3, <2>4, <2>5
       DEF OwnerInv, OwnerTypeOK, Owner!TypeOK, OwnerTask
  <2>7. \A h, v : Reported(h, v) => Reported(h, v)'
    BY <2>1 DEF Reported
  <2>8. ASSUME NEW h \in Owner!Handlers PROVE TaskOnCourse(h)'
    <3>1. ASSUME polled = head.slot, handled' = polled,
                 NEW v \in head[h] \intersect ownerKnown
          PROVE  Reported(h, v)
      BY <2>2, <3>1 DEF OwnerInv, TaskOnCourse
    <3>2. QED
      BY <1>1, <2>1, <2>4, <2>7, <3>1 DEF TaskOnCourse
  <2>9. \A a \in reported' : a[2] \in ownerKnown' => a[1] \notin WrongKinds
    <3>1. \A a \in reported' : a \in reported
             \/ \E h \in Owner!Handlers : a \in Owner!AlertsOf(h)
      BY <1>5 DEF Owner!Complete, Owner!SendFails
    <3>2. QED
      BY <2>1, <3>1, AlertsAreRight DEF OwnerInv
  <2>10. QED
    BY <2>6, <2>8, <2>9 DEF OwnerInv
<1>6. QED
  BY <1>4, <1>5
LEMMA OwnerStep == OwnerInv /\ [Owner!Next]_ownerVars => OwnerInv'
<1> SUFFICES ASSUME OwnerInv, [Owner!Next]_ownerVars PROVE OwnerInv'
  OBVIOUS
<1>1. CASE UNCHANGED ownerVars
  <2>1. OwnerTypeOK'
    BY <1>1 DEF ownerVars, OwnerInv, OwnerTypeOK, Owner!TypeOK
  <2>2. QED
    BY <1>1, <2>1, OwnerStays DEF ownerVars
<1>2. CASE /\ head.slot < slot
           /\ \E slashings \in Owner!SlashedSets, exits \in SUBSET registry :
                 Owner!NewBlock(slashings, exits)
  BY <1>2, SlashedAreRegistered, OwnerBlockStep
<1>3. CASE \E added \in SUBSET (OwnerValidators \ registry) :
            Owner!Tick(added)
  BY <1>3, OwnerTickStep
<1>4. CASE \E v \in OwnerValidators : Owner!KeySubmitted(v)
  BY <1>4, OwnerKeyStep
<1>5. CASE \/ \E new \in {{}, ours} : Owner!KeysUpdated(new)
           \/ Owner!IndexLook \/ Owner!IndexRequest
           \/ Owner!IndexOne \/ Owner!IndexEnds \/ Owner!PollNothing
  BY <1>5, OwnerUpdaterStep
<1>6. CASE \E h \in Owner!Handlers : \E v \in task[h].todo :
            Owner!Classify(h, v)
  BY <1>6, OwnerClassifyStep
<1>7. CASE \E h \in Owner!Handlers : Owner!SendAlerts(h)
  BY <1>7, OwnerSendStep
<1>8. CASE \/ Owner!Poll \/ Owner!Complete
           \/ \E h \in Owner!Handlers : Owner!SendFails(h)
  BY <1>8, OwnerLoopStep
<1>9. QED
  BY <1>1, <1>2, <1>3, <1>4, <1>5, <1>6, <1>7, <1>8 DEF Owner!Next

LEMMA OwnerInductive == MCSpec => []OwnerInv
<1>1. MCInit => OwnerInv
  BY OwnerInit DEF MCInit
<1>2. OwnerInv /\ [MCNext]_<<part, vars, elVars, ownerVars>> => OwnerInv'
  BY OwnerStep DEF MCNext
<1>3. QED
  BY <1>1, <1>2, PTL DEF MCSpec

\* The two tables stay within the registry and the keys source, each filled
\* with its own, and no head is recorded ahead of the one tried.
THEOREM OwnerTypeCorrect == MCSpec => []OwnerTypeOK
<1>1. OwnerInv => OwnerTypeOK
  BY DEF OwnerInv
<1>2. QED
  BY <1>1, OwnerInductive, PTL

\* What both tables held as a head was first tried is reported as ours by the
\* time the head is recorded, and is never called unknown or somebody else's,
\* however the attempts fail and the tables grow.
THEOREM UsersAreReported == MCSpec => []KnownUsersReported
<1>1. OwnerInv => KnownUsersReported
  <2> SUFFICES ASSUME OwnerInv, polled = head.slot
               PROVE  /\ \A v \in ownerKnown : \A a \in reported :
                            a[2] = v => a[1] \notin WrongKinds
                      /\ handled = polled =>
                            /\ \A v \in head.slashings \intersect ownerKnown :
                                  Reported("slashings", v)
                            /\ \A v \in head.exits \intersect ownerKnown :
                                  Reported("exits", v)
    BY DEF KnownUsersReported, Owner!KnownUsersReported, Reported, WrongKinds
  <2>1. \A a \in reported : a[2] \in ownerKnown => a[1] \notin WrongKinds
    BY DEF OwnerInv
  <2>2. TaskOnCourse("slashings") /\ TaskOnCourse("exits")
    BY DEF OwnerInv, Owner!Handlers
  <2>3. QED
    BY <2>1, <2>2 DEF TaskOnCourse
<1>2. QED
  BY <1>1, OwnerInductive, PTL
=============================================================================

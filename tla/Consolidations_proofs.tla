------------------------ MODULE Consolidations_proofs ------------------------
(***************************************************************************)
(* Proofs about the consolidation requests of a block, for any requests,   *)
(* validators, balances, statuses and keys, however often the handler      *)
(* fails.                                                                  *)
(***************************************************************************)
EXTENDS Consolidations, TLAPS

USE DataAssumption, BoundsAssumption

-----------------------------------------------------------------------------
(* The inductive invariant.  Keys are only ever added, so what one lookup  *)
(* finds of a request, a later one finds too: a request whose two          *)
(* validators were both found one by one is found when they are looked up  *)
(* together.  An alert is due once its list is complete, and those behind  *)
(* are out.                                                                *)

\* The n-th lookup of a request is done.
Done(w, n) == w \notin DOMAIN todo \/ todo[w] > n

\* What the lookups of a request have led to.
SourceLooked(w) ==
    IF w.fromOurs
      THEN /\ w \in lists["ours"]
           /\ w \in lists["foreign_source"] \/ w.source \in userKeys
      ELSE w.source \in known => w \in lists["user_source"]

TargetLooked(w) ==
    IF w.fromOurs
      THEN w \in lists["foreign_target"] \/ w.target \in userKeys
      ELSE w.target \in known => w \in lists["user_target"]

BothLooked(w) ==
    w.fromOurs =>
        \/ w \in lists["foreign_source"]
        \/ w \in lists["foreign_target"]
        \/ w \in lists["both"]

LookedUp ==
    \A w \in requests :
        /\ Done(w, 1) => SourceLooked(w)
        /\ Done(w, 2) => TargetLooked(w)
        /\ Done(w, 3) => BothLooked(w)

\* The first k of these alerts are out, where there was something to tell.
Out(names, k) ==
    \A i \in 1 .. k :
        ToTell(names[i]) => [name |-> names[i], about |-> About(names[i])] \in sent

StagesInOrder ==
    /\ pc # "lists" => DOMAIN todo = {}
    /\ pc \in {"lists", "judge", "returned"} => passed = 0
    /\ pc = "send" => passed \in 0 .. 5 /\ Out(FirstLists, passed)
    /\ pc \in {"judge", "send_judged", "returned"} => Out(FirstLists, 5)
    /\ pc = "send_judged" => passed \in 0 .. 4 /\ Out(JudgedLists, passed)
    /\ pc = "returned" => Out(JudgedLists, 4)

IInv ==
    /\ TypeOK
    /\ LookedUp
    /\ StagesInOrder

-----------------------------------------------------------------------------
\* The names of the alerts, and the length of their lists.
LEMMA NamesOfLists ==
    /\ Len(FirstLists) = 5 /\ \A i \in 1 .. 5 : FirstLists[i] \in Names
    /\ Len(JudgedLists) = 4 /\ \A i \in 1 .. 4 : JudgedLists[i] \in Names
    /\ \A i \in 1 .. 5 : FirstLists[i] \notin DOMAIN Judged
    /\ DOMAIN Judged \subseteq Names
BY DEF FirstLists, JudgedLists, Names, Judged

\* An alert is about requests of the block.
LEMMA AboutRequests ==
    ASSUME TypeOK, NEW name \in Names
    PROVE  About(name) \in SUBSET requests
<1>1. lists \in [Names \union {"both"} -> SUBSET requests]
  BY DEF TypeOK
<1>2. lists.both \subseteq requests
  BY <1>1
<1>3. CASE name \in DOMAIN Judged
  BY <1>2, <1>3 DEF About, Judged
<1>4. CASE name \notin DOMAIN Judged
  BY <1>1, <1>4 DEF About
<1>5. QED
  BY <1>3, <1>4

\* The start of an attempt, the first one or another.
LEMMA AttemptBegins ==
    ASSUME TypeOK', pc' = "lists", todo' = Start(requests'), lists' = Empty,
           passed' = 0
    PROVE  LookedUp' /\ StagesInOrder'
<1>1. LookedUp'
  BY DEF LookedUp, Done, Start
<1>2. StagesInOrder'
  BY DEF StagesInOrder
<1>3. QED
  BY <1>1, <1>2

\* The invariant holds at the start.
LEMMA InvInit == Init => IInv
<1> SUFFICES ASSUME Init PROVE IInv
  OBVIOUS
<1>1. requests \subseteq Request
  <2>1. PICK all \in [1 .. MaxRequests -> Request] :
            requests = {all[i] : i \in 1 .. MaxRequests}
    BY DEF Init
  <2>2. QED
    BY <2>1
<1>2. TypeOK
  BY <1>1 DEF Init, TypeOK, Start, Empty, Names
<1>3. LookedUp
  BY DEF Init, LookedUp, Done, Start
<1>4. StagesInOrder
  BY DEF Init, StagesInOrder
<1>5. QED
  BY <1>2, <1>3, <1>4 DEF IInv

-----------------------------------------------------------------------------
(* The steps.                                                              *)

\* New keys undo no lookup.
LEMMA KeysStep ==
    ASSUME IInv, NEW more \in SUBSET (Validators \ userKeys), KeysUpdated(more)
    PROVE  IInv'
<1>1. /\ UNCHANGED <<requests, known, pc, todo, lists, passed, sent, failures>>
      /\ userKeys' = userKeys \union more
  BY DEF KeysUpdated
<1>2. TypeOK'
  BY <1>1 DEF IInv, TypeOK
<1>3. LookedUp'
  BY <1>1 DEF IInv, LookedUp, Done, SourceLooked, TargetLooked, BothLooked
<1>4. StagesInOrder'
  BY <1>1 DEF IInv, StagesInOrder, Out, ToTell, About, Judged
<1>5. QED
  BY <1>2, <1>3, <1>4 DEF IInv

\* A lookup adds its request where it belongs, by the keys of this moment.
LEMMA LookStep ==
    ASSUME IInv, NEW w \in DOMAIN todo, LookAt(w)
    PROVE  IInv'
<1>1. /\ TypeOK /\ LookedUp /\ StagesInOrder /\ w \in requests
      /\ todo[w] \in 1 .. 3 /\ pc = "lists"
      /\ UNCHANGED <<requests, userKeys, known, pc, passed, sent, failures>>
  BY DEF IInv, TypeOK, LookAt
<1>2. /\ Len(Reads) = 3 /\ Reads[1] = "source" /\ Reads[2] = "target"
      /\ Reads[3] = "both"
  BY DEF Reads
<1>3. PICK added : added = Added(w, Reads[todo[w]])
  OBVIOUS
<1>4. /\ lists \in [Names \union {"both"} -> SUBSET requests]
      /\ lists' \in [Names \union {"both"} -> SUBSET requests]
      /\ \A n \in Names \union {"both"} :
            lists'[n] = IF n \in added THEN lists[n] \union {w} ELSE lists[n]
  <2>1. lists' = [n \in DOMAIN lists |->
                    IF n \in added THEN lists[n] \union {w} ELSE lists[n]]
    BY <1>3 DEF LookAt
  <2>2. QED
    BY <1>1, <2>1 DEF TypeOK
<1>5. /\ \A v \in requests \ {w} : /\ v \in DOMAIN todo' <=> v \in DOMAIN todo
                                   /\ v \in DOMAIN todo => todo'[v] = todo[v]
      /\ DOMAIN todo' \subseteq DOMAIN todo
      /\ todo[w] < 3 => w \in DOMAIN todo' /\ todo'[w] = todo[w] + 1
      /\ todo[w] = 3 => w \notin DOMAIN todo'
  BY <1>1, <1>2 DEF LookAt
<1>6. TypeOK'
  <2>1. DOMAIN todo' \subseteq requests
    BY <1>1, <1>5 DEF TypeOK
  <2>2. ASSUME NEW v \in DOMAIN todo' PROVE todo'[v] \in 1 .. 3
    <3>1. CASE v = w
      BY <1>1, <1>5, <3>1
    <3>2. CASE v # w
      BY <1>1, <1>5, <2>1, <3>2 DEF TypeOK
    <3>3. QED
      BY <3>1, <3>2
  <2>3. QED
    BY <1>1, <1>4, <2>1, <2>2 DEF TypeOK
<1>7. ASSUME NEW v \in requests, NEW n \in 1 .. 3, Done(v, n)'
      PROVE  Done(v, n) \/ (v = w /\ n = todo[w])
  BY <1>1, <1>5, <1>7 DEF Done
<1>8. \A v \in requests : /\ SourceLooked(v) => SourceLooked(v)'
                          /\ TargetLooked(v) => TargetLooked(v)'
                          /\ BothLooked(v) => BothLooked(v)'
  <2>1. \A n \in Names \union {"both"} : lists[n] \subseteq lists'[n]
    BY <1>4
  <2>2. {"ours", "foreign_source", "foreign_target", "user_source",
         "user_target"} \subseteq Names
    BY DEF Names
  <2>3. QED
    BY <1>1, <2>1, <2>2 DEF SourceLooked, TargetLooked, BothLooked
<1>9. known \subseteq userKeys
  BY <1>1 DEF TypeOK
<1>10. todo[w] = 1 => SourceLooked(w)'
  <2> SUFFICES ASSUME todo[w] = 1 PROVE SourceLooked(w)'
    OBVIOUS
  <2>1. added = Added(w, "source")
    BY <1>2, <1>3
  <2>2. {"ours", "foreign_source", "user_source"} \subseteq Names
    BY DEF Names
  <2>3. CASE w.fromOurs
    <3>1. added = {"ours"} \union (IF w.source \in userKeys
                                     THEN {} ELSE {"foreign_source"})
      BY <2>1, <2>3 DEF Added
    <3>2. QED
      BY <1>1, <1>4, <2>2, <2>3, <3>1 DEF SourceLooked
  <2>4. CASE ~w.fromOurs
    <3>1. added = IF w.source \in userKeys THEN {"user_source"} ELSE {}
      BY <2>1, <2>4 DEF Added
    <3>2. QED
      BY <1>1, <1>4, <1>9, <2>2, <2>4, <3>1 DEF SourceLooked
  <2>5. QED
    BY <2>3, <2>4
<1>11. todo[w] = 2 => TargetLooked(w)'
  <2> SUFFICES ASSUME todo[w] = 2 PROVE TargetLooked(w)'
    OBVIOUS
  <2>1. added = Added(w, "target")
    BY <1>2, <1>3
  <2>2. {"foreign_target", "user_target"} \subseteq Names
    BY DEF Names
  <2>3. CASE w.fromOurs
    <3>1. added = IF w.target \in userKeys THEN {} ELSE {"foreign_target"}
      BY <2>1, <2>3 DEF Added
    <3>2. QED
      BY <1>1, <1>4, <2>2, <2>3, <3>1 DEF TargetLooked
  <2>4. CASE ~w.fromOurs
    <3>1. added = IF w.target \in userKeys THEN {"user_target"} ELSE {}
      BY <2>1, <2>4 DEF Added
    <3>2. QED
      BY <1>1, <1>4, <1>9, <2>2, <2>4, <3>1 DEF TargetLooked
  <2>5. QED
    BY <2>3, <2>4
<1>12. todo[w] = 3 => BothLooked(w)'
  <2> SUFFICES ASSUME todo[w] = 3, w.fromOurs PROVE BothLooked(w)'
    BY <1>1 DEF BothLooked
  <2>1. added = IF w.fromOurs /\ {w.source, w.target} \subseteq userKeys
                  THEN {"both"} ELSE {}
    BY <1>2, <1>3 DEF Added
  <2>2. SourceLooked(w) /\ TargetLooked(w)
    BY <1>1 DEF LookedUp, Done
  <2>3. CASE {w.source, w.target} \subseteq userKeys
    BY <1>4, <2>1, <2>3 DEF BothLooked
  <2>4. CASE ~ ({w.source, w.target} \subseteq userKeys)
    <3>1. w \in lists["foreign_source"] \/ w \in lists["foreign_target"]
      BY <2>2, <2>4 DEF SourceLooked, TargetLooked
    <3>2. BothLooked(w)
      BY <3>1 DEF BothLooked
    <3>3. QED
      BY <1>1, <1>8, <3>2
  <2>5. QED
    BY <2>3, <2>4
<1>13. LookedUp'
  <2> SUFFICES ASSUME NEW v \in requests
               PROVE  /\ Done(v, 1)' => SourceLooked(v)'
                      /\ Done(v, 2)' => TargetLooked(v)'
                      /\ Done(v, 3)' => BothLooked(v)'
    BY <1>1 DEF LookedUp
  <2>1. /\ Done(v, 1) => SourceLooked(v)
        /\ Done(v, 2) => TargetLooked(v)
        /\ Done(v, 3) => BothLooked(v)
    BY <1>1 DEF LookedUp
  <2>2. QED
    BY <1>7, <1>8, <1>10, <1>11, <1>12, <2>1
<1>14. StagesInOrder'
  BY <1>1 DEF StagesInOrder
<1>15. QED
  BY <1>6, <1>13, <1>14 DEF IInv

\* One alert more is behind.
LEMMA SendStep ==
    ASSUME IInv, Send
    PROVE  IInv'
<1>1. /\ TypeOK /\ LookedUp /\ StagesInOrder
      /\ UNCHANGED <<requests, userKeys, known, pc, todo, lists, failures>>
      /\ pc \in {"send", "send_judged"} /\ passed < Len(Stage)
      /\ passed' = passed + 1 /\ passed \in Nat
      /\ sent' = IF ToTell(Upcoming)
                   THEN sent \union
                            {[name |-> Upcoming, about |-> About(Upcoming)]}
                   ELSE sent
  BY DEF IInv, TypeOK, Send, Sending
<1>2. \A name : About(name)' = About(name) /\ (ToTell(name)' <=> ToTell(name))
  BY <1>1 DEF About, Judged, ToTell
<1>3. /\ passed + 1 \in 1 .. 5 /\ Upcoming \in Names
      /\ pc = "send" => Stage = FirstLists
      /\ pc = "send_judged" => Stage = JudgedLists /\ passed + 1 \in 0 .. 4
  <2>1. /\ pc = "send" => Stage = FirstLists
        /\ pc = "send_judged" => Stage = JudgedLists
    BY DEF Stage
  <2>2. CASE pc = "send"
    <3>1. Len(Stage) = 5
      BY <2>1, <2>2, NamesOfLists
    <3>2. passed < 5
      BY <1>1, <3>1
    <3>3. passed + 1 \in 1 .. 5
      BY <1>1, <3>2
    <3>4. QED
      BY <2>1, <2>2, <3>3, NamesOfLists DEF Upcoming
  <2>3. CASE pc = "send_judged"
    <3>1. Len(Stage) = 4
      BY <2>1, <2>3, NamesOfLists
    <3>2. passed < 4
      BY <1>1, <3>1
    <3>3. passed + 1 \in 0 .. 4 /\ passed + 1 \in 1 .. 4
          /\ passed + 1 \in 1 .. 5
      BY <1>1, <3>2
    <3>4. QED
      BY <2>1, <2>3, <3>3, NamesOfLists DEF Upcoming
  <2>4. QED
    BY <1>1, <2>1, <2>2, <2>3
<1>4. TypeOK'
  <2>1. sent' \subseteq [name : Names, about : (SUBSET requests) \ {{}}]
    <3>1. About(Upcoming) \in SUBSET requests
      BY <1>1, <1>3, AboutRequests
    <3>2. QED
      BY <1>1, <1>3, <3>1 DEF TypeOK, ToTell
  <2>2. passed' \in 0 .. 5
    BY <1>1, <1>3
  <2>3. QED
    BY <1>1, <2>1, <2>2 DEF TypeOK
<1>5. LookedUp'
  BY <1>1 DEF LookedUp, Done, SourceLooked, TargetLooked, BothLooked
<1>6. sent \subseteq sent'
  BY <1>1
<1>7. ASSUME NEW names, NEW k, Out(names, k) PROVE Out(names, k)'
  BY <1>2, <1>6, <1>7 DEF Out
<1>8. Out(Stage, passed) => Out(Stage, passed)'
  <2> SUFFICES ASSUME Out(Stage, passed), NEW i \in 1 .. (passed + 1),
                      ToTell(Stage[i])
               PROVE  [name |-> Stage[i], about |-> About(Stage[i])] \in sent'
    <3>1. Stage' = Stage
      BY <1>1 DEF Stage
    <3>2. QED
      BY <1>1, <1>2, <3>1 DEF Out
  <2>1. CASE i \in 1 .. passed
    BY <1>6, <2>1 DEF Out
  <2>2. CASE i = passed + 1
    BY <1>1, <2>2 DEF Upcoming
  <2>3. QED
    BY <1>1, <2>1, <2>2
<1>9. StagesInOrder'
  <2>1. CASE pc = "send"
    <3>1. Out(FirstLists, passed)'
      BY <1>1, <1>3, <1>8, <2>1 DEF StagesInOrder, Stage
    <3>2. QED
      BY <1>1, <1>3, <2>1, <3>1, NamesOfLists DEF StagesInOrder
  <2>2. CASE pc = "send_judged"
    <3>1. Out(JudgedLists, passed)' /\ Out(FirstLists, 5)'
      BY <1>1, <1>3, <1>7, <1>8, <2>2 DEF StagesInOrder, Stage
    <3>2. QED
      BY <1>1, <1>3, <2>2, <3>1 DEF StagesInOrder
  <2>3. QED
    BY <1>1, <2>1, <2>2
<1>10. QED
  BY <1>4, <1>5, <1>9 DEF IInv

\* The handler moves on to its next stage.
LEMMA MoveStep ==
    ASSUME IInv, Listed \/ Sent \/ Judge \/ Return
    PROVE  IInv'
<1>1. /\ TypeOK /\ LookedUp /\ StagesInOrder
      /\ UNCHANGED <<requests, userKeys, known, todo, lists, sent, failures>>
      /\ passed \in Nat
  BY DEF IInv, TypeOK, Listed, Sent, Judge, Return
<1>2. /\ LookedUp'
      /\ \A names, k : Out(names, k)' <=> Out(names, k)
  BY <1>1 DEF LookedUp, Done, SourceLooked, TargetLooked, BothLooked, Out,
     ToTell, About, Judged
<1>3. \A names : Out(names, 0)
  BY DEF Out
<1>4. CASE Listed
  <2>1. pc = "lists" /\ pc' = "send" /\ DOMAIN todo = {} /\ passed' = passed
    BY <1>4 DEF Listed
  <2>2. QED
    BY <1>1, <1>2, <1>3, <2>1 DEF IInv, TypeOK, StagesInOrder
<1>5. CASE Sent
  <2>1. /\ pc = "send" /\ passed = 5 /\ passed' = 0
        /\ pc' = IF lists.both = {} THEN "returned" ELSE "judge"
    <3>1. pc = "send" /\ ~ (passed < Len(FirstLists)) /\ passed \in 0 .. 5
      BY <1>1, <1>5 DEF Sent, Sending, Stage, StagesInOrder
    <3>2. QED
      BY <1>5, <3>1, NamesOfLists DEF Sent
  <2>2. Out(FirstLists, 5)
    BY <1>1, <2>1 DEF StagesInOrder
  <2>3. lists.both = {} => Out(JudgedLists, 4)
    BY DEF Out, ToTell, About, Judged, JudgedLists
  <2>4. QED
    BY <1>1, <1>2, <2>1, <2>2, <2>3 DEF IInv, TypeOK, StagesInOrder
<1>6. CASE Judge
  <2>1. pc = "judge" /\ pc' = "send_judged" /\ passed' = passed
    BY <1>6 DEF Judge
  <2>2. QED
    BY <1>1, <1>2, <1>3, <2>1 DEF IInv, TypeOK, StagesInOrder
<1>7. CASE Return
  <2>1. pc = "send_judged" /\ passed = 4 /\ passed' = 0 /\ pc' = "returned"
    <3>1. /\ pc = "send_judged" /\ ~ (passed < Len(JudgedLists))
          /\ passed \in 0 .. 4
      BY <1>1, <1>7 DEF Return, Sending, Stage, StagesInOrder
    <3>2. QED
      BY <1>7, <3>1, NamesOfLists DEF Return
  <2>2. QED
    BY <1>1, <1>2, <2>1 DEF IInv, TypeOK, StagesInOrder
<1>8. QED
  BY <1>4, <1>5, <1>6, <1>7

\* A new attempt knows nothing of the last one but what was sent.
LEMMA BeginStep ==
    ASSUME IInv, Fails \/ UnknownValidator
    PROVE  IInv'
<1>1. /\ UNCHANGED <<requests, userKeys, sent>> /\ pc' = "lists"
      /\ todo' = Start(requests') /\ lists' = Empty /\ passed' = 0
      /\ known' = userKeys /\ failures' \in 0 .. MaxFailures
  BY DEF IInv, TypeOK, Fails, UnknownValidator, Begin
<1>2. TypeOK'
  BY <1>1 DEF IInv, TypeOK, Start, Empty, Names
<1>3. QED
  BY <1>1, <1>2, AttemptBegins DEF IInv

\* Every step keeps the invariant.
LEMMA InvStep == IInv /\ [Next]_vars => IInv'
<1> SUFFICES ASSUME IInv, [Next]_vars PROVE IInv'
  OBVIOUS
<1>1. CASE UNCHANGED vars
  BY <1>1 DEF vars, IInv, TypeOK, LookedUp, StagesInOrder, Done, SourceLooked,
     TargetLooked, BothLooked, Out, ToTell, About, Judged
<1>2. CASE Next
  BY <1>2, KeysStep, LookStep, SendStep, MoveStep, BeginStep DEF Next
<1>3. QED
  BY <1>1, <1>2

\* The invariant holds at all times.
LEMMA Inductive == Spec => []IInv
<1>1. QED
  BY InvInit, InvStep, PTL DEF Spec

-----------------------------------------------------------------------------
(* The results.                                                            *)

\* A request in a list is told of once the alert of that list is out.
LEMMA ToldOnceOut ==
    ASSUME IInv, Returned, NEW i \in 1 .. 5, NEW w \in lists[FirstLists[i]]
    PROVE  Told(w, FirstLists[i])
<1>1. Out(FirstLists, 5) /\ About(FirstLists[i]) = lists[FirstLists[i]]
  BY NamesOfLists DEF IInv, StagesInOrder, Returned, About
<1>2. QED
  BY <1>1 DEF Out, ToTell, Told

\* The handler keeps its types, and sends no alert about nothing.
THEOREM TypeCorrect == Spec => []TypeOK
<1>1. IInv => TypeOK
  BY DEF IInv
<1>2. QED
  BY <1>1, Inductive, PTL

\* A request from our withdrawal address is told of, and is judged or called a
\* stranger's, whenever keys arrive and however often the handler fails.
THEOREM OursAreForeignOrJudged == Spec => []ForeignOrJudged
<1>1. ASSUME IInv PROVE ForeignOrJudged
  <2> SUFFICES ASSUME Returned, NEW w \in requests, w.fromOurs
               PROVE  /\ Told(w, "ours")
                      /\ \/ Told(w, "foreign_source")
                         \/ Told(w, "foreign_target")
                         \/ w \in lists.both
    BY DEF ForeignOrJudged
  <2>1. SourceLooked(w) /\ BothLooked(w)
    BY <1>1 DEF IInv, LookedUp, StagesInOrder, Returned, Done
  <2>2. /\ FirstLists[1] = "ours" /\ FirstLists[2] = "foreign_source"
        /\ FirstLists[3] = "foreign_target"
    BY DEF FirstLists
  <2>3. /\ w \in lists["ours"] => Told(w, "ours")
        /\ w \in lists["foreign_source"] => Told(w, "foreign_source")
        /\ w \in lists["foreign_target"] => Told(w, "foreign_target")
    BY <1>1, <2>2, ToldOnceOut
  <2>4. QED
    BY <2>1, <2>3 DEF SourceLooked, BothLooked
<1>2. QED
  BY <1>1, Inductive, PTL

\* A stranger's request about a validator known as the attempt began is told
\* of.
THEOREM StrangersAreTold == Spec => []StrangersTold
<1>1. ASSUME IInv PROVE StrangersTold
  <2> SUFFICES ASSUME Returned, NEW w \in requests, ~w.fromOurs
               PROVE  /\ w.source \in known => Told(w, "user_source")
                      /\ w.target \in known => Told(w, "user_target")
    BY DEF StrangersTold
  <2>1. SourceLooked(w) /\ TargetLooked(w)
    BY <1>1 DEF IInv, LookedUp, StagesInOrder, Returned, Done
  <2>2. FirstLists[4] = "user_source" /\ FirstLists[5] = "user_target"
    BY DEF FirstLists
  <2>3. /\ w \in lists["user_source"] => Told(w, "user_source")
        /\ w \in lists["user_target"] => Told(w, "user_target")
    BY <1>1, <2>2, ToldOnceOut
  <2>4. QED
    BY <2>1, <2>3 DEF SourceLooked, TargetLooked
<1>2. QED
  BY <1>1, Inductive, PTL

\* What the last attempt judged is told of in full.
THEOREM JudgementsAreTold == Spec => []JudgedIsTold
<1>1. ASSUME IInv PROVE JudgedIsTold
  <2> SUFFICES ASSUME Returned, NEW w \in lists.both
               PROVE  /\ OverDeposit(w) => Told(w, "over_deposit")
                      /\ InvalidStatus(w) => Told(w, "invalid_status")
                      /\ Rejected(w) => Told(w, "rejected")
                      /\ RequestedToExit(w) => Told(w, "requested_to_exit")
    BY DEF JudgedIsTold, InvalidStatus
  <2>1. ASSUME NEW i \in 1 .. 4, w \in Judged[JudgedLists[i]]
        PROVE  Told(w, JudgedLists[i])
    <3>1. Out(JudgedLists, 4)
      BY <1>1 DEF IInv, StagesInOrder, Returned
    <3>2. About(JudgedLists[i]) = Judged[JudgedLists[i]]
      BY DEF About, Judged, JudgedLists
    <3>3. QED
      BY <2>1, <3>1, <3>2 DEF Out, ToTell, Told
  <2>2. /\ JudgedLists[1] = "over_deposit" /\ JudgedLists[2] = "invalid_status"
        /\ JudgedLists[3] = "rejected" /\ JudgedLists[4] = "requested_to_exit"
    BY DEF JudgedLists
  <2>3. /\ OverDeposit(w) => w \in Judged["over_deposit"]
        /\ InvalidStatus(w) => w \in Judged["invalid_status"]
        /\ Rejected(w) => w \in Judged["rejected"]
        /\ RequestedToExit(w) => w \in Judged["requested_to_exit"]
    BY DEF Judged
  <2>4. QED
    BY <2>1, <2>2, <2>3
<1>2. QED
  BY <1>1, Inductive, PTL
=============================================================================

--------------------------- MODULE ForkWatch_proofs ---------------------------
(***************************************************************************)
(* Proofs about the fork handler, the reorg listener and the main loop     *)
(* around them, for any tree of blocks, any number of overlapping tasks    *)
(* and any number of failures, broken streams and reorganisations.         *)
(***************************************************************************)
EXTENDS ForkWatch, SequenceTheorems, WellFoundedInduction, TLAPS

-----------------------------------------------------------------------------
(* Lists.                                                                  *)

\* Append adds its argument and nothing else.
LEMMA RangeAppend ==
    ASSUME NEW S, NEW s \in Seq(S), NEW e \in S
    PROVE  /\ Append(s, e) \in Seq(S)
           /\ Len(Append(s, e)) = Len(s) + 1
           /\ Range(Append(s, e)) = Range(s) \union {e}
           /\ Append(s, e)[Len(s) + 1] = e
           /\ Append(s, e) # <<>>
<1>1. /\ Len(s) \in Nat /\ DOMAIN s = 1 .. Len(s)
      /\ Append(s, e) \in Seq(S) /\ Len(Append(s, e)) = Len(s) + 1
      /\ DOMAIN Append(s, e) = 1 .. (Len(s) + 1)
      /\ \A i \in 1 .. Len(s) : Append(s, e)[i] = s[i]
      /\ Append(s, e)[Len(s) + 1] = e
  OBVIOUS
<1>2. Range(Append(s, e)) \subseteq Range(s) \union {e}
  BY <1>1 DEF Range
<1>3. Range(s) \union {e} \subseteq Range(Append(s, e))
  BY <1>1 DEF Range
<1>4. Append(s, e) # <<>>
  <2>1. Len(Append(s, e)) # 0
    BY <1>1
  <2>2. QED
    BY <1>1, <2>1, EmptySeq
<1>5. QED
  BY <1>1, <1>2, <1>3, <1>4

\* The head of a list is one of its elements, and so are those of its rest.
LEMMA RangeTail ==
    ASSUME NEW S, NEW s \in Seq(S), s # <<>>
    PROVE  /\ Head(s) \in S /\ Head(s) \in Range(s)
           /\ Tail(s) \in Seq(S)
           /\ Range(s) \subseteq Range(Tail(s)) \union {Head(s)}
           /\ Range(Tail(s)) \subseteq Range(s)
<1>1. Len(s) \in Nat \ {0} /\ DOMAIN s = 1 .. Len(s)
  OBVIOUS
<1>2. /\ Head(s) = s[1] /\ Head(s) \in S
      /\ Tail(s) \in Seq(S) /\ DOMAIN Tail(s) = 1 .. (Len(s) - 1)
      /\ \A i \in 1 .. (Len(s) - 1) : Tail(s)[i] = s[i + 1]
  BY <1>1
<1>3. ASSUME NEW i \in 1 .. (Len(s) - 1) PROVE Tail(s)[i] \in Range(s)
  <2>1. i + 1 \in DOMAIN s /\ Tail(s)[i] = s[i + 1]
    BY <1>1, <1>2
  <2>2. QED
    BY <2>1 DEF Range
<1>4. Head(s) \in Range(s)
  BY <1>1, <1>2 DEF Range
<1>5. Range(Tail(s)) \subseteq Range(s)
  BY <1>2, <1>3 DEF Range
<1>6. ASSUME NEW i \in 1 .. Len(s)
      PROVE  s[i] \in Range(Tail(s)) \union {Head(s)}
  <2>1. CASE i = 1
    BY <1>2, <2>1
  <2>2. CASE i # 1
    <3>1. i - 1 \in 1 .. (Len(s) - 1) /\ Tail(s)[i - 1] = s[i]
      BY <1>1, <1>2, <2>2
    <3>2. i - 1 \in DOMAIN Tail(s)
      BY <1>2, <3>1
    <3>3. Tail(s)[i - 1] \in Range(Tail(s))
      BY <3>2 DEF Range
    <3>4. QED
      BY <3>1, <3>3
  <2>3. QED
    BY <2>1, <2>2
<1>7. Range(s) \subseteq Range(Tail(s)) \union {Head(s)}
  BY <1>1, <1>6 DEF Range
<1>8. QED
  BY <1>2, <1>4, <1>5, <1>7

\* Trimming after one append restores the bound, invents nothing and keeps the
\* newest head.
LEMMA TrimBounds ==
    ASSUME NEW s \in Seq(Blocks), s # <<>>, Len(s) <= KeepHeaders + 1
    PROVE  /\ Trim(s) \in Seq(Blocks) /\ Len(Trim(s)) <= KeepHeaders
           /\ Range(Trim(s)) \subseteq Range(s)
           /\ Trim(s) # <<>>
           /\ Trim(s)[Len(Trim(s))] = s[Len(s)]
<1>1. CASE Len(s) > KeepHeaders
  <2>1. Trim(s) = Tail(s) /\ Len(s) \in Nat /\ Len(s) > 1
    BY <1>1, KeepHeadersAssumption DEF Trim
  <2>2. Tail(s) \in Seq(Blocks) /\ Len(Tail(s)) = Len(s) - 1
    OBVIOUS
  <2>3. Tail(s)[Len(s) - 1] = s[Len(s)]
    BY <2>1, <2>2
  <2>4. Tail(s) # <<>>
    <3>1. Len(Tail(s)) # 0
      BY <2>1, <2>2
    <3>2. QED
      BY <3>1, EmptySeq
  <2>5. Range(Tail(s)) \subseteq Range(s)
    BY RangeTail
  <2>6. Len(s) - 1 <= KeepHeaders
    BY <2>1, KeepHeadersAssumption
  <2>7. QED
    BY <2>1, <2>2, <2>3, <2>4, <2>5, <2>6
<1>2. CASE ~(Len(s) > KeepHeaders)
  <2>1. Trim(s) = s
    BY <1>2 DEF Trim
  <2>2. Len(s) <= KeepHeaders
    BY <1>2, KeepHeadersAssumption
  <2>3. QED
    BY <2>1, <2>2
<1>3. QED
  BY <1>1, <1>2
-----------------------------------------------------------------------------
(* Slots.                                                                  *)

USE SlotAssumption, ParentAssumption, AncestorsAssumption, NamesAssumption,
    KeepHeadersAssumption, BoundsAssumption

\* A non-empty set of slots with an upper bound has a greatest one.
LEMMA GreatestSlot ==
    ASSUME NEW n \in Nat, NEW S \in SUBSET Nat, S # {}, \A s \in S : s <= n
    PROVE  \E m \in S : \A s \in S : s <= m
<1> DEFINE T == {n - s : s \in S}
<1>1. T \subseteq Nat /\ T # {}
  <2>1. ASSUME NEW s \in S PROVE n - s \in Nat
    <3>1. s \in Nat /\ s <= n
      OBVIOUS
    <3>2. QED
      BY <3>1
  <2>2. T \subseteq Nat
    BY <2>1
  <2>3. PICK s \in S : TRUE
    OBVIOUS
  <2>4. n - s \in T
    OBVIOUS
  <2>5. QED
    BY <2>2, <2>4
<1> HIDE DEF T
<1>2. PICK x \in T : \A y \in T : ~ (<<y, x>> \in OpToRel(<, Nat))
  BY <1>1, NatLessThanWellFounded, WFMin
<1>3. PICK m \in S : x = n - m
  BY DEF T
<1>4. ASSUME NEW s \in S PROVE s <= m
  <2>1. n - s \in T
    BY DEF T
  <2>2. ~ (n - s < n - m)
    BY <1>1, <1>2, <1>3, <2>1 DEF OpToRel
  <2>3. QED
    BY <2>2
<1>5. QED
  BY <1>4

\* Where two forks meet: no block they share is newer, and one is as new.
LEMMA ForkSlotBounds ==
    ASSUME NEW b \in Blocks, NEW c \in Blocks
    PROVE  /\ ForkSlot(b, c) \in Nat
           /\ ForkSlot(b, c) <= Slot[b] /\ ForkSlot(b, c) <= Slot[c]
           /\ \A a \in (Ancestors[b] \union {b})
                            \intersect (Ancestors[c] \union {c}) :
                 Slot[a] <= ForkSlot(b, c)
           /\ \/ ForkSlot(b, c) = 0
              \/ \E a \in (Ancestors[b] \union {b})
                               \intersect (Ancestors[c] \union {c}) :
                    Slot[a] = ForkSlot(b, c)
<1> DEFINE shared == (Ancestors[b] \union {b})
                        \intersect (Ancestors[c] \union {c})
           common == {Slot[a] : a \in shared}
<1>1. /\ shared \subseteq Blocks
      /\ \A a \in shared : Slot[a] <= Slot[b] /\ Slot[a] <= Slot[c]
  OBVIOUS
<1>2. /\ common \subseteq Nat
      /\ \A s \in common : s <= Slot[b] /\ s <= Slot[c]
  BY <1>1
<1>3. CASE common = {}
  <2>1. ForkSlot(b, c) = 0
    BY <1>3 DEF ForkSlot
  <2>2. ASSUME NEW a \in shared PROVE FALSE
    <3>1. Slot[a] \in common
      OBVIOUS
    <3>2. QED
      BY <1>3, <3>1
  <2>3. QED
    BY <1>1, <2>1, <2>2
<1>4. CASE common # {}
  <2>1. \E m \in common : \A s \in common : s <= m
    <3>1. Slot[b] \in Nat
      OBVIOUS
    <3>2. common \in SUBSET Nat /\ \A s \in common : s <= Slot[b]
      BY <1>2
    <3> HIDE DEF common
    <3>3. QED
      BY <1>4, <3>1, <3>2, GreatestSlot
  <2>2. ForkSlot(b, c) = CHOOSE s \in common : \A r \in common : r <= s
    BY <1>4 DEF ForkSlot
  <2>3. /\ ForkSlot(b, c) \in common
        /\ \A s \in common : s <= ForkSlot(b, c)
    BY <2>1, <2>2
  <2>4. QED
    BY <1>2, <2>3
<1>5. QED
  BY <1>3, <1>4

-----------------------------------------------------------------------------
(* Tasks.                                                                  *)

Places == {"idle", "snapshot", "events", "post_event", "delete", "post_head",
           "ok", "failed"}

\* Every task but t is left alone.
Kept(t) == \A o \in Tasks : o # t => task'[o] = task[o]

\* An idle task is a task.
LEMMA IdleType ==
    /\ Idle \in TaskType
    /\ Idle.pc = "idle" /\ Idle.parentAlerted = FALSE /\ Idle.todo = {}
BY DEF Idle, TaskType, Alert, NoEvent, NoAlert

\* What a task is made of.
LEMMA TaskFields ==
    ASSUME NEW k \in TaskType
    PROVE  /\ k.pc \in Places /\ k.head \in Blocks \union {NoBlock}
           /\ k.todo \subseteq Event /\ k.event \in Event \union {NoEvent}
           /\ k.alert \in Alert /\ k.parentAlerted \in BOOLEAN
           /\ k = [pc |-> k.pc, head |-> k.head, todo |-> k.todo,
                   event |-> k.event, alert |-> k.alert,
                   parentAlerted |-> k.parentAlerted]
BY DEF TaskType, Places

\* A step of a task replaces it and no other.
LEMMA OneTask ==
    ASSUME task \in [Tasks -> TaskType], NEW t \in Tasks, NEW k \in TaskType,
           task' = [task EXCEPT ![t] = k]
    PROVE  task' \in [Tasks -> TaskType] /\ Kept(t) /\ task'[t] = k
BY DEF Kept

\* A task that goes on elsewhere, and is otherwise the same.
LEMMA TaskMoves ==
    ASSUME NEW k \in TaskType, NEW p \in Places
    PROVE  LET u == [k EXCEPT !.pc = p]
           IN  /\ u \in TaskType /\ u.pc = p /\ u.head = k.head
               /\ u.todo = k.todo /\ u.event = k.event /\ u.alert = k.alert
               /\ u.parentAlerted = k.parentAlerted
BY TaskFields DEF TaskType, Places

\* What an ended task leaves behind.
LEMMA EndedTask ==
    ASSUME task \in [Tasks -> TaskType], NEW t \in Tasks,
           NEW outcome \in {"ok", "failed"}
    PROVE  LET u == Ended(t, outcome)
           IN  /\ u \in TaskType
               /\ t = current =>
                     /\ u.pc = outcome /\ u.head = task[t].head
                     /\ u.todo = task[t].todo /\ u.event = task[t].event
                     /\ u.parentAlerted = task[t].parentAlerted
               /\ t # current => u = Idle
<1>1. task[t] \in TaskType /\ outcome \in Places
  BY DEF Places
<1>2. CASE t = current
  BY <1>1, <1>2, TaskMoves DEF Ended
<1>3. CASE t # current
  BY <1>3, IdleType DEF Ended
<1>4. QED
  BY <1>2, <1>3

\* A new attempt's task.
LEMMA PollTask ==
    ASSUME TypeOK, NEW t \in Tasks, Poll(t)
    PROVE  /\ task' \in [Tasks -> TaskType] /\ Kept(t)
           /\ task'[t].pc = "snapshot" /\ task'[t].head = nodeHead
           /\ task'[t].todo = {} /\ task'[t].parentAlerted = FALSE
<1> DEFINE k == [Idle EXCEPT !.pc = "snapshot", !.head = nodeHead]
<1>1. /\ k \in TaskType /\ k.pc = "snapshot" /\ k.head = nodeHead
      /\ k.todo = {} /\ k.parentAlerted = FALSE
  BY DEF TypeOK, Idle, TaskType, Alert, NoEvent, NoAlert
<1>2. task' = [task EXCEPT ![t] = k]
  BY DEF Poll
<1> HIDE DEF k
<1>3. QED
  BY <1>1, <1>2, OneTask DEF TypeOK

\* The events of chain_reorgs are events.
LEMMA StoredEvents == TypeOK => Range(chainReorgs) \subseteq Event
BY DEF TypeOK, Range

LEMMA SnapshotTask ==
    ASSUME TypeOK, NEW t \in Tasks, Snapshot(t)
    PROVE  /\ task' \in [Tasks -> TaskType] /\ Kept(t)
           /\ task'[t].pc = "events" /\ task'[t].head = task[t].head
           /\ task'[t].todo = Range(chainReorgs)
           /\ task'[t].parentAlerted = task[t].parentAlerted
<1> DEFINE k == [task[t] EXCEPT !.pc = "events", !.todo = Range(chainReorgs)]
<1>1. task[t] \in TaskType /\ Range(chainReorgs) \subseteq Event
  BY StoredEvents DEF TypeOK
<1>2. /\ k \in TaskType /\ k.pc = "events" /\ k.head = task[t].head
      /\ k.todo = Range(chainReorgs)
      /\ k.parentAlerted = task[t].parentAlerted
  BY <1>1, TaskFields DEF TaskType
<1>3. task' = [task EXCEPT ![t] = k]
  BY DEF Snapshot, TypeOK
<1> HIDE DEF k
<1>4. QED
  BY <1>2, <1>3, OneTask DEF TypeOK

LEMMA JudgeTask ==
    ASSUME TypeOK, NEW t \in Tasks, NEW e, Judge(t, e)
    PROVE  LET alert == [slot |-> e.slot, depth |-> e.depth]
               send == HeadOrParentUnknown(t, e)
           IN  /\ e \in Event
               /\ task' \in [Tasks -> TaskType] /\ Kept(t)
               /\ task'[t].pc = IF send /\ alert \notin delivered
                                  THEN "post_event" ELSE "delete"
               /\ task'[t].head = task[t].head
               /\ task'[t].todo = task[t].todo \ {e}
               /\ task'[t].event = e
               /\ send => task'[t].alert = alert
               /\ task'[t].parentAlerted =
                     (task[t].parentAlerted \/ (send /\ alert \in delivered
                                                     /\ NamesParent(t, e)))
<1> DEFINE alert == [slot |-> e.slot, depth |-> e.depth]
           send == HeadOrParentUnknown(t, e)
           tell == IF send THEN alert ELSE NoAlert
           place == IF send /\ alert \notin delivered THEN "post_event"
                    ELSE "delete"
           told == task[t].parentAlerted \/ (send /\ alert \in delivered
                                                  /\ NamesParent(t, e))
           k == [task[t] EXCEPT !.event = e, !.todo = @ \ {e}, !.alert = tell,
                                !.pc = place, !.parentAlerted = told]
<1>1. task[t] \in TaskType
  BY DEF TypeOK
<1>2. e \in Event
  BY <1>1, TaskFields DEF Judge
<1>3. tell \in Alert /\ (send => tell = alert)
  BY <1>2 DEF Alert, NoAlert, Event
<1>4. place \in Places /\ told \in BOOLEAN
  BY <1>1, TaskFields DEF Places
<1>5. task' = [task EXCEPT ![t] = k]
  BY DEF Judge, TypeOK
<1> HIDE DEF tell, place, told, send, alert
<1>6. /\ k \in TaskType /\ k.pc = place /\ k.head = task[t].head
      /\ k.todo = task[t].todo \ {e} /\ k.event = e /\ k.alert = tell
      /\ k.parentAlerted = told
  BY <1>1, <1>2, <1>3, <1>4, TaskFields DEF TaskType, Places
<1> HIDE DEF k
<1>7. task' \in [Tasks -> TaskType] /\ Kept(t) /\ task'[t] = k
  BY <1>5, <1>6, OneTask DEF TypeOK
<1>8. QED
  BY <1>2, <1>3, <1>6, <1>7 DEF place, told, send, alert

LEMMA EventPostedTask ==
    ASSUME TypeOK, NEW t \in Tasks, EventPosted(t)
    PROVE  /\ task' \in [Tasks -> TaskType] /\ Kept(t)
           /\ task'[t].pc = "delete" /\ task'[t].head = task[t].head
           /\ task'[t].todo = task[t].todo /\ task'[t].event = task[t].event
           /\ task'[t].parentAlerted =
                 (task[t].parentAlerted \/ NamesParent(t, task[t].event))
<1> DEFINE told == task[t].parentAlerted \/ NamesParent(t, task[t].event)
           k == [task[t] EXCEPT !.pc = "delete", !.parentAlerted = told]
<1>1. task[t] \in TaskType
  BY DEF TypeOK
<1>2. told \in BOOLEAN
  BY <1>1, TaskFields
<1>3. task' = [task EXCEPT ![t] = k]
  BY DEF EventPosted, TypeOK
<1> HIDE DEF told
<1>4. /\ k \in TaskType /\ k.pc = "delete" /\ k.head = task[t].head
      /\ k.todo = task[t].todo /\ k.event = task[t].event
      /\ k.parentAlerted = told
  BY <1>1, <1>2, TaskFields DEF TaskType
<1> HIDE DEF k
<1>5. task' \in [Tasks -> TaskType] /\ Kept(t) /\ task'[t] = k
  BY <1>3, <1>4, OneTask DEF TypeOK
<1>6. QED
  BY <1>4, <1>5 DEF told

LEMMA DeleteTask ==
    ASSUME TypeOK, NEW t \in Tasks, Delete(t)
    PROVE  /\ task' \in [Tasks -> TaskType] /\ Kept(t)
           /\ \/ /\ task'[t].pc = "events" /\ task'[t].head = task[t].head
                 /\ task'[t].todo = task[t].todo
                 /\ task'[t].parentAlerted = task[t].parentAlerted
              \/ task'[t] = Ended(t, "failed")
<1> DEFINE k == [task[t] EXCEPT !.pc = "events", !.event = NoEvent,
                                !.alert = NoAlert]
<1>1. task[t] \in TaskType /\ task \in [Tasks -> TaskType]
  BY DEF TypeOK
<1>2. /\ k \in TaskType /\ k.pc = "events" /\ k.head = task[t].head
      /\ k.todo = task[t].todo /\ k.parentAlerted = task[t].parentAlerted
  BY <1>1, TaskFields DEF TaskType, Alert, NoAlert
<1>3. Ended(t, "failed") \in TaskType
  BY <1>1, EndedTask
<1>4. CASE task[t].event.slot \in DOMAIN chainReorgs
  <2>1. task' = [task EXCEPT ![t] = k]
    BY <1>4 DEF Delete, TypeOK
  <2> HIDE DEF k
  <2>2. QED
    BY <1>1, <1>2, <2>1, OneTask
<1>5. CASE task[t].event.slot \notin DOMAIN chainReorgs
  <2>1. task' = [task EXCEPT ![t] = Ended(t, "failed")]
    BY <1>5 DEF Delete
  <2>2. QED
    BY <1>1, <1>3, <2>1, OneTask
<1>6. QED
  BY <1>4, <1>5

LEMMA CheckParentTask ==
    ASSUME TypeOK, NEW t \in Tasks, CheckParent(t), task[t].head \in Blocks
    PROVE  /\ task' \in [Tasks -> TaskType] /\ Kept(t)
           /\ ParentUnreported(t) =>
                 /\ task'[t].pc = "post_head" /\ task'[t].head = task[t].head
                 /\ task'[t].todo = {} /\ task'[t].alert = HeadAlert(t)
                 /\ task'[t].parentAlerted = task[t].parentAlerted
           /\ ~ParentUnreported(t) => task'[t] = Ended(t, "ok")
<1> DEFINE k == [task[t] EXCEPT !.pc = "post_head", !.alert = HeadAlert(t)]
<1>1. task[t] \in TaskType /\ task \in [Tasks -> TaskType]
  BY DEF TypeOK
<1>2. CASE ParentUnreported(t)
  <2>1. LastHandled \in Blocks
    <3>1. handled \in Seq(Blocks) /\ handled # <<>>
      BY <1>2 DEF TypeOK, ParentUnreported
    <3>2. Len(handled) \in 1 .. Len(handled)
      BY <3>1
    <3>3. QED
      BY <3>1, <3>2 DEF LastHandled
  <2>2. HeadAlert(t) \in Alert
    <3>1. Slot[task[t].head] - Slot[LastHandled] - 2 \in Int
      BY <2>1
    <3>2. Parent[task[t].head] \in Blocks \union {NoBlock}
      OBVIOUS
    <3>3. QED
      BY <3>1, <3>2 DEF HeadAlert, Alert
  <2>3. /\ k \in TaskType /\ k.pc = "post_head" /\ k.head = task[t].head
        /\ k.todo = task[t].todo /\ k.alert = HeadAlert(t)
        /\ k.parentAlerted = task[t].parentAlerted
    BY <1>1, <2>2, TaskFields DEF TaskType
  <2>4. task' = [task EXCEPT ![t] = k] /\ task[t].todo = {}
    BY <1>2 DEF CheckParent, TypeOK
  <2> HIDE DEF k
  <2>5. QED
    BY <1>1, <1>2, <2>3, <2>4, OneTask
<1>3. CASE ~ParentUnreported(t)
  <2>1. task' = [task EXCEPT ![t] = Ended(t, "ok")]
    BY <1>3 DEF CheckParent
  <2>2. QED
    BY <1>1, <1>3, <2>1, OneTask, EndedTask
<1>4. QED
  BY <1>2, <1>3

\* A POST that ends the task, or a failed one.
LEMMA PostTask ==
    ASSUME TypeOK, NEW t \in Tasks, HeadPosted(t) \/ PostFails(t)
    PROVE  /\ task' \in [Tasks -> TaskType] /\ Kept(t)
           /\ HeadPosted(t) => task'[t] = Ended(t, "ok")
           /\ PostFails(t) => task'[t] = Ended(t, "failed")
<1>1. task \in [Tasks -> TaskType]
  BY DEF TypeOK
<1>2. CASE HeadPosted(t)
  BY <1>1, <1>2, OneTask, EndedTask DEF HeadPosted, PostFails
<1>3. CASE PostFails(t)
  BY <1>1, <1>3, OneTask, EndedTask DEF HeadPosted, PostFails
<1>4. QED
  BY <1>2, <1>3

\* The loop has done with an attempt: its task is idle, or left as it is.
LEMMA LoopTask ==
    ASSUME TypeOK, Complete \/ Raise \/ OtherRaises
    PROVE  /\ task' \in [Tasks -> TaskType] /\ current \in Tasks
           /\ Kept(current)
           /\ \/ task'[current] = Idle
              \/ OtherRaises /\ Running(current) /\ task' = task
<1>1. task \in [Tasks -> TaskType] /\ Idle \in TaskType
  BY IdleType DEF TypeOK
<1>2. current \in Tasks
  BY DEF TypeOK, Complete, Raise, OtherRaises
<1>3. \/ task' = [task EXCEPT ![current] = Idle]
      \/ OtherRaises /\ Running(current) /\ task' = task
  BY DEF Complete, Raise, OtherRaises
<1>4. QED
  BY <1>1, <1>2, <1>3, OneTask DEF Kept
-----------------------------------------------------------------------------
(* The inductive invariant for HandledParentCovered.  A head is recorded   *)
(* when its task is "ok", which says that its parent was looked after; a   *)
(* reorg alert stands for the parent only because the event it was sent    *)
(* for is genuine, and an alert that waits to be posted must name it.      *)

\* The event is stored under the slot of its head.
Genuine(e) == e \in Event /\ e.slot = Slot[e.newHead]

EventsGenuine ==
    /\ \A e \in Range(stream) : Genuine(e)
    /\ \A e \in Range(chainReorgs) : Genuine(e)

\* The trimmed list ends like the full one.
ListsAgree ==
    /\ Range(handled) \subseteq Range(everHandled)
    /\ handled = <<>> <=> everHandled = <<>>
    /\ handled # <<>> => LastHandled = everHandled[Len(everHandled)]

Covered(p) == p = NoBlock \/ p \in Range(everHandled) \/ Reported(p)

TaskSound(t) ==
    LET k == task[t] IN
    /\ k.pc # "idle" => k.head \in Blocks
    /\ k.pc \in {"ok", "failed"} => t = current
    /\ \A e \in k.todo : Genuine(e)
    /\ k.pc \in {"post_event", "delete"} => Genuine(k.event)
    /\ k.pc = "post_event" =>
          k.alert = [slot |-> k.event.slot, depth |-> k.event.depth]
    /\ k.pc = "post_head" =>
          /\ k.alert.before \in Int
          /\ k.alert = [block |-> Parent[k.head], before |-> k.alert.before]
    /\ k.parentAlerted => k.head \in Blocks /\ Covered(Parent[k.head])
    /\ k.pc = "ok" => everHandled = <<>> \/ Covered(Parent[k.head])

IInv ==
    /\ TypeOK
    /\ EventsGenuine
    /\ ListsAgree
    /\ \A t \in Tasks : TaskSound(t)
    /\ HandledParentCovered

\* The task that ends keeps its head and what is left of its snapshot.
LEMMA EndedSound ==
    ASSUME task \in [Tasks -> TaskType], NEW t \in Tasks,
           NEW outcome \in {"ok", "failed"}, task'[t] = Ended(t, outcome),
           current' = current, task[t].head \in Blocks,
           \A e \in task[t].todo : Genuine(e),
           NEW p, p = Parent[task[t].head],
           task[t].parentAlerted => Covered(p)',
           outcome = "ok" => (everHandled = <<>>)' \/ Covered(p)'
    PROVE  TaskSound(t)'
<1>1. CASE t = current
  <2>1. /\ task'[t].pc = outcome /\ task'[t].head = task[t].head
        /\ task'[t].todo = task[t].todo
        /\ task'[t].parentAlerted = task[t].parentAlerted
    BY <1>1, EndedTask
  <2>2. t = current'
    BY <1>1
  <2>3. (\A e \in task[t].todo : Genuine(e))'
    BY <2>1 DEF Genuine
  <2>4. Parent[task'[t].head] = p
    BY <2>1
  <2>5. QED
    BY <2>1, <2>2, <2>3, <2>4 DEF TaskSound
<1>2. CASE t # current
  <2>1. task'[t] = Idle
    BY <1>2, EndedTask
  <2>2. QED
    BY <2>1, IdleType DEF TaskSound
<1>3. QED
  BY <1>1, <1>2

\* The watcher starts with nothing handled and nothing to judge.
LEMMA InvInit == Init => IInv
<1> SUFFICES ASSUME Init PROVE IInv
  OBVIOUS
<1>1. task = [t \in Tasks |-> Idle] /\ Idle \in TaskType
  BY IdleType DEF Init
<1>2. \A t \in Tasks : task[t] = Idle
  BY <1>1
<1>3. /\ Range(<<>>) = {} /\ Len(<<>>) = 0
      /\ Range(EmptyMap) = {} /\ DOMAIN EmptyMap = {}
  BY DEF Range, EmptyMap
<1>4. <<>> \in Seq(Nat) /\ <<>> \in Seq(Event) /\ <<>> \in Seq(Blocks)
  OBVIOUS
<1>5. TypeOK
  <2>1. /\ reorgSlots \in Seq(Nat) /\ Len(reorgSlots) <= MaxReorgs
        /\ handled \in Seq(Blocks) /\ Len(handled) <= KeepHeaders
        /\ everHandled \in Seq(Blocks) /\ stream \in Seq(Event)
        /\ drops \in 0 .. MaxDrops /\ failures \in 0 .. MaxFailures
    BY <1>3, <1>4 DEF Init
  <2>2. task \in [Tasks -> TaskType]
    BY <1>1
  <2>3. QED
    BY <1>3, <2>1, <2>2 DEF Init, TypeOK
<1>6. \A t \in Tasks : TaskSound(t)
  BY <1>2, IdleType DEF TaskSound
<1>7. EventsGenuine /\ ListsAgree
  BY <1>3 DEF Init, EventsGenuine, ListsAgree
<1>8. HandledParentCovered
  BY <1>3 DEF Init, HandledParentCovered
<1>9. QED
  BY <1>5, <1>6, <1>7, <1>8 DEF IInv

\* What is covered stays covered: alerts are not taken back.
LEMMA CoveredStays ==
    ASSUME delivered \subseteq delivered',
           Range(everHandled) \subseteq Range(everHandled)',
           NEW p, Covered(p)
    PROVE  Covered(p)'
BY DEF Covered, Reported

\* A task a step leaves alone stays sound.
LEMMA SoundStays ==
    ASSUME delivered \subseteq delivered', everHandled' = everHandled,
           NEW t \in Tasks, TaskSound(t), task'[t] = task[t],
           task[t].pc \in {"ok", "failed"} => current' = current
    PROVE  TaskSound(t)'
<1>1. \A p : Covered(p) => Covered(p)'
  BY CoveredStays
<1>2. QED
  BY <1>1 DEF TaskSound, Genuine

\* A list of handled heads without gaps keeps none.
LEMMA ParentsStay ==
    ASSUME HandledParentCovered, delivered \subseteq delivered',
           everHandled' = everHandled
    PROVE  HandledParentCovered'
BY CoveredStays DEF HandledParentCovered, Covered

\* A step of one task that leaves chain, loop and stream alone keeps the
\* invariant when it keeps its own part of it.
LEMMA TaskStep ==
    ASSUME IInv, NEW t \in Tasks, task' \in [Tasks -> TaskType], Kept(t),
           UNCHANGED <<node, stream, listener, drops, loop>>,
           delivered \subseteq delivered', delivered' \subseteq Alert,
           misjudged' \subseteq Event, failures' \in 0 .. MaxFailures,
           \A s \in DOMAIN chainReorgs' :
              s \in DOMAIN chainReorgs /\ chainReorgs'[s] = chainReorgs[s],
           TaskSound(t)'
    PROVE  IInv'
<1>1. TypeOK'
  BY DEF IInv, TypeOK, node, loop
<1>2. EventsGenuine'
  BY DEF IInv, EventsGenuine, Genuine, Range
<1>3. ListsAgree'
  BY DEF IInv, ListsAgree, loop, LastHandled
<1>4. ASSUME NEW o \in Tasks PROVE TaskSound(o)'
  <2>1. CASE o = t
    BY <2>1
  <2>2. CASE o # t
    BY <2>2, SoundStays DEF IInv, Kept, loop
  <2>3. QED
    BY <2>1, <2>2
<1>5. HandledParentCovered'
  BY ParentsStay DEF IInv, loop
<1>6. QED
  BY <1>1, <1>2, <1>3, <1>4, <1>5 DEF IInv
\* An alert about a block names it, and so does a reorg alert about its slot.
LEMMA AlertNames ==
    ASSUME NEW b \in Blocks
    PROVE  /\ \A n \in Int : Names([block |-> b, before |-> n], b)
           /\ \A d \in Nat : Names([slot |-> Slot[b], depth |-> d], b)
<1>1. ASSUME NEW n \in Int PROVE Names([block |-> b, before |-> n], b)
  BY DEF Names
<1>2. ASSUME NEW d \in Nat PROVE Names([slot |-> Slot[b], depth |-> d], b)
  BY DEF Names
<1>3. QED
  BY <1>1, <1>2

\* Once the reorg alert of an event is sent, the new head is covered.
LEMMA EventCovers ==
    ASSUME NEW e, Genuine(e), [slot |-> e.slot, depth |-> e.depth] \in delivered
    PROVE  Covered(e.newHead)
<1>1. e.newHead \in Blocks /\ e.depth \in Nat /\ e.slot = Slot[e.newHead]
  BY DEF Genuine, Event
<1>2. Names([slot |-> e.slot, depth |-> e.depth], e.newHead)
  BY <1>1, AlertNames
<1>3. QED
  BY <1>2 DEF Covered, Reported

-----------------------------------------------------------------------------
(* One lemma for each action.                                              *)

LEMMA NodeStep ==
    ASSUME IInv, NEW b \in Blocks, NodeMoves(b)
    PROVE  IInv'
<1>1. ReorgEvent(b) \in Event /\ Genuine(ReorgEvent(b))
  <2> DEFINE high == IF Slot[nodeHead] > Slot[b] THEN Slot[nodeHead]
                     ELSE Slot[b]
  <2>1. nodeHead \in Blocks
    BY DEF IInv, TypeOK
  <2>2. ForkSlot(nodeHead, b) \in Nat /\ ForkSlot(nodeHead, b) <= Slot[b]
    BY <2>1, ForkSlotBounds
  <2>3. high \in Nat /\ high >= Slot[b]
    BY <2>1
  <2>4. high - ForkSlot(nodeHead, b) \in Nat
    BY <2>2, <2>3
  <2>5. ReorgEvent(b) = [slot |-> Slot[b],
                         depth |-> high - ForkSlot(nodeHead, b),
                         newHead |-> b]
    BY DEF ReorgEvent
  <2> HIDE DEF high
  <2>6. QED
    BY <2>4, <2>5 DEF Event, Genuine
<1>2. /\ stream' \in Seq(Event)
      /\ Range(stream') \subseteq Range(stream) \union {ReorgEvent(b)}
  BY <1>1, RangeAppend DEF NodeMoves, IInv, TypeOK
<1>3. reorgSlots' \in Seq(Nat) /\ Len(reorgSlots') <= MaxReorgs
  <2>1. CASE IsReorg(b)
    <3>1. reorgSlots \in Seq(Nat) /\ Slot[b] \in Nat
      BY DEF IInv, TypeOK
    <3>2. /\ reorgSlots' = Append(reorgSlots, Slot[b])
          /\ Len(reorgSlots) < MaxReorgs
      BY <2>1 DEF NodeMoves
    <3>3. Len(reorgSlots') = Len(reorgSlots) + 1 /\ reorgSlots' \in Seq(Nat)
      BY <3>1, <3>2, RangeAppend
    <3>4. Len(reorgSlots) \in Nat
      BY <3>1
    <3>5. QED
      BY <3>2, <3>3, <3>4
  <2>2. CASE ~IsReorg(b)
    BY <2>2 DEF NodeMoves, IInv, TypeOK
  <2>3. QED
    BY <2>1, <2>2
<1>4. UNCHANGED <<listener, drops, chainReorgs, loop, task, delivered,
                  history>>
  BY DEF NodeMoves
<1>5. TypeOK'
  BY <1>2, <1>3, <1>4 DEF NodeMoves, IInv, TypeOK, loop, history
<1>6. EventsGenuine'
  BY <1>1, <1>2, <1>4 DEF IInv, EventsGenuine, Genuine
<1>7. ListsAgree' /\ HandledParentCovered'
  BY <1>4, ParentsStay DEF IInv, ListsAgree, LastHandled, loop
<1>8. \A t \in Tasks : TaskSound(t)'
  BY <1>4, SoundStays DEF IInv, loop
<1>9. QED
  BY <1>5, <1>6, <1>7, <1>8 DEF IInv

LEMMA ListenerStep ==
    ASSUME IInv, Subscribe \/ ListenerStores \/ ListenerDies \/ PollNothing
    PROVE  IInv'
<1>1. /\ stream' \in Seq(Event)
      /\ Range(stream') \subseteq Range(stream)
      /\ \A s \in DOMAIN chainReorgs' :
            /\ chainReorgs'[s] \in Event /\ chainReorgs'[s].slot = s
            /\ chainReorgs'[s] \in Range(stream) \union Range(chainReorgs)
  <2>1. CASE ListenerStores
    <3>1. /\ stream \in Seq(Event) /\ stream # <<>>
          /\ stream' = Tail(stream)
          /\ chainReorgs' = Stored(chainReorgs, Head(stream))
      BY <2>1 DEF ListenerStores, IInv, TypeOK
    <3>2. /\ Head(stream) \in Event /\ Head(stream) \in Range(stream)
          /\ Tail(stream) \in Seq(Event)
          /\ Range(Tail(stream)) \subseteq Range(stream)
      BY <3>1, RangeTail
    <3>3. ASSUME NEW s \in DOMAIN chainReorgs'
          PROVE  \/ s = Head(stream).slot /\ chainReorgs'[s] = Head(stream)
                 \/ s \in DOMAIN chainReorgs /\ chainReorgs'[s] = chainReorgs[s]
      BY <3>1 DEF Stored
    <3>4. ASSUME NEW s \in DOMAIN chainReorgs
          PROVE  /\ chainReorgs[s] \in Event /\ chainReorgs[s].slot = s
                 /\ chainReorgs[s] \in Range(chainReorgs)
      BY DEF IInv, TypeOK, Range
    <3>5. QED
      BY <3>1, <3>2, <3>3, <3>4
  <2>2. CASE ListenerDies
    <3>1. <<>> \in Seq(Event) /\ Range(<<>>) = {}
      BY DEF Range
    <3>2. QED
      BY <2>2, <3>1 DEF ListenerDies, IInv, TypeOK, Range
  <2>3. CASE PollNothing \/ Subscribe
    BY <2>3 DEF PollNothing, Subscribe, IInv, TypeOK, Range
  <2>4. QED
    BY <2>1, <2>2, <2>3
<1>2. /\ UNCHANGED <<node, loop, task, delivered, history>>
      /\ (listener \in {"dead", "started", "subscribed"})'
      /\ drops' \in 0 .. MaxDrops
  <2>1. /\ drops \in 0 .. MaxDrops
        /\ listener \in {"dead", "started", "subscribed"}
    BY DEF IInv, TypeOK
  <2>2. CASE ListenerStores
    BY <2>1, <2>2 DEF ListenerStores
  <2>3. CASE ListenerDies
    <3>1. drops' = drops + 1 /\ drops < MaxDrops
      BY <2>3 DEF ListenerDies
    <3>2. drops' \in 0 .. MaxDrops
      BY <2>1, <3>1
    <3>3. QED
      BY <2>3, <3>2 DEF ListenerDies
  <2>4. CASE PollNothing \/ Subscribe
    BY <2>1, <2>4 DEF PollNothing, Listen, Subscribe
  <2>5. QED
    BY <2>2, <2>3, <2>4
<1>3. TypeOK'
  BY <1>1, <1>2 DEF IInv, TypeOK, node, loop, history
<1>4. EventsGenuine'
  <2>1. Range(chainReorgs') \subseteq Range(stream) \union Range(chainReorgs)
    BY <1>1 DEF Range
  <2>2. QED
    BY <1>1, <2>1 DEF IInv, EventsGenuine, Genuine
<1>5. ListsAgree' /\ HandledParentCovered'
  BY <1>2, ParentsStay DEF IInv, ListsAgree, LastHandled, loop
<1>6. \A t \in Tasks : TaskSound(t)'
  BY <1>2, SoundStays DEF IInv, loop
<1>7. QED
  BY <1>3, <1>4, <1>5, <1>6 DEF IInv

LEMMA PollStep ==
    ASSUME IInv, NEW t \in Tasks, Poll(t)
    PROVE  IInv'
<1>1. /\ task' \in [Tasks -> TaskType] /\ Kept(t)
      /\ task'[t].pc = "snapshot" /\ task'[t].head = nodeHead
      /\ task'[t].todo = {} /\ task'[t].parentAlerted = FALSE
  BY PollTask DEF IInv
<1>2. /\ UNCHANGED <<node, stream, drops, chainReorgs, handled, everHandled,
                     delivered, history>>
      /\ current = NoTask /\ current' = t
      /\ (listener \in {"dead", "started", "subscribed"})'
  BY DEF Poll, Listen, IInv, TypeOK
<1>3. TypeOK'
  BY <1>1, <1>2 DEF IInv, TypeOK, node, history
<1>4. EventsGenuine' /\ ListsAgree' /\ HandledParentCovered'
  BY <1>2, ParentsStay
     DEF IInv, EventsGenuine, Genuine, ListsAgree, LastHandled
<1>5. ASSUME NEW o \in Tasks PROVE TaskSound(o)'
  <2>1. CASE o = t
    BY <1>1, <2>1 DEF TaskSound, IInv, TypeOK
  <2>2. CASE o # t
    <3>1. task'[o] = task[o] /\ task[o].pc \notin {"ok", "failed"}
      BY <1>1, <1>2, <2>2 DEF Kept, IInv, TaskSound
    <3>2. QED
      BY <1>2, <3>1, SoundStays DEF IInv
  <2>3. QED
    BY <2>1, <2>2
<1>6. QED
  BY <1>3, <1>4, <1>5 DEF IInv

\* The loop moves on: a recorded head's parent is covered, since its task was
\* "ok".
LEMMA LoopStep ==
    ASSUME IInv, Complete \/ Raise \/ OtherRaises
    PROVE  IInv'
<1> DEFINE h == task[current].head
<1>1. /\ task' \in [Tasks -> TaskType] /\ current \in Tasks
      /\ Kept(current)
      /\ \/ task'[current] = Idle
         \/ OtherRaises /\ Running(current) /\ task' = task
  BY LoopTask DEF IInv
<1>2. /\ UNCHANGED <<node, stream, listener, drops, chainReorgs, delivered,
                     misjudged>>
      /\ current' = NoTask /\ failures' \in 0 .. MaxFailures
  BY DEF Complete, Raise, OtherRaises, history, IInv, TypeOK
<1>3. EventsGenuine'
  BY <1>2 DEF IInv, EventsGenuine, Genuine
<1>4. CASE Complete
  <2>1. h \in Blocks /\ (everHandled = <<>> \/ Covered(Parent[h]))
    BY <1>1, <1>4 DEF Complete, IInv, TaskSound
  <2>2. /\ handled \in Seq(Blocks) /\ everHandled \in Seq(Blocks)
        /\ Len(handled) <= KeepHeaders
    BY DEF IInv, TypeOK
  <2>3. /\ handled' = Trim(Append(handled, h))
        /\ everHandled' = Append(everHandled, h)
    BY <1>4 DEF Complete
  <2>4. /\ everHandled' \in Seq(Blocks)
        /\ Len(everHandled') = Len(everHandled) + 1
        /\ Range(everHandled)' = Range(everHandled) \union {h}
    BY <2>1, <2>2, <2>3, RangeAppend
  <2>5. /\ Append(handled, h) \in Seq(Blocks)
        /\ Len(Append(handled, h)) = Len(handled) + 1
        /\ Range(Append(handled, h)) = Range(handled) \union {h}
        /\ Append(handled, h) # <<>>
        /\ Append(handled, h)[Len(handled) + 1] = h
    <3>1. handled \in Seq(Blocks) /\ h \in Blocks
      BY <2>1, <2>2
    <3>2. QED
      BY <3>1, RangeAppend
  <2>6. Len(handled) \in Nat /\ Len(handled) + 1 <= KeepHeaders + 1
    BY <2>2
  <2>7. /\ handled' \in Seq(Blocks) /\ Len(handled') <= KeepHeaders
        /\ Range(handled)' \subseteq Range(handled) \union {h}
        /\ handled' # <<>> /\ handled'[Len(handled')] = h
    BY <2>3, <2>5, <2>6, TrimBounds
  <2>8. TypeOK'
    BY <1>1, <1>2, <2>4, <2>7 DEF IInv, TypeOK, node
  <2>9. everHandled'[Len(everHandled')] = h /\ everHandled' # <<>>
    BY <2>1, <2>2, <2>3
  <2>10. ListsAgree'
    BY <2>4, <2>7, <2>9 DEF IInv, ListsAgree, LastHandled
  <2>11. \A p : Covered(p) => Covered(p)'
    BY <1>2, <2>4, CoveredStays
  <2>12. ASSUME NEW i \in 2 .. Len(everHandled'), NEW p,
                p = Parent[everHandled'[i]]
         PROVE  Covered(p)'
    <3>1. CASE i \in 2 .. Len(everHandled)
      <4>1. everHandled'[i] = everHandled[i]
        BY <2>1, <2>2, <2>3, <3>1
      <4>2. Covered(Parent[everHandled[i]])
        BY <3>1 DEF IInv, HandledParentCovered, Covered
      <4>3. QED
        BY <2>11, <2>12, <4>1, <4>2
    <3>2. CASE i \notin 2 .. Len(everHandled)
      <4>1. Len(everHandled) \in Nat
        BY <2>2
      <4>2. i = Len(everHandled) + 1 /\ Len(everHandled) # 0
        BY <2>4, <3>2, <4>1
      <4>3. everHandled'[i] = h /\ everHandled # <<>>
        BY <2>4, <2>9, <4>2
      <4>4. QED
        BY <2>1, <2>11, <2>12, <4>3
    <3>3. QED
      BY <3>1, <3>2
  <2>13. HandledParentCovered'
    BY <2>12 DEF HandledParentCovered, Covered
  <2>14. ASSUME NEW o \in Tasks PROVE TaskSound(o)'
    <3>1. CASE o = current
      BY <1>1, <1>4, <3>1, IdleType DEF TaskSound, Complete, Running
    <3>2. CASE o # current
      <4>1. task'[o] = task[o] /\ task[o].pc \notin {"ok", "failed"}
        BY <1>1, <3>2 DEF Kept, IInv, TaskSound
      <4>2. QED
        BY <2>11, <4>1 DEF IInv, TaskSound, Genuine
    <3>3. QED
      BY <3>1, <3>2
  <2>15. QED
    BY <1>3, <2>8, <2>10, <2>13, <2>14 DEF IInv
<1>5. CASE Raise \/ OtherRaises
  <2>1. UNCHANGED <<handled, everHandled>>
    BY <1>5 DEF Raise, OtherRaises
  <2>2. TypeOK'
    BY <1>1, <1>2, <2>1 DEF IInv, TypeOK, node
  <2>3. ListsAgree' /\ HandledParentCovered'
    BY <1>2, <2>1, ParentsStay DEF IInv, ListsAgree, LastHandled
  <2>4. ASSUME NEW o \in Tasks PROVE TaskSound(o)'
    <3>1. CASE task'[o] = Idle
      BY <3>1, IdleType DEF TaskSound
    <3>2. CASE task'[o] # Idle
      <4>1. task'[o] = task[o] /\ task[o].pc \notin {"ok", "failed"}
        BY <1>1, <3>2 DEF Kept, IInv, TaskSound, Running
      <4>2. QED
        BY <1>2, <2>1, <4>1, SoundStays DEF IInv
    <3>3. QED
      BY <3>1, <3>2
  <2>5. QED
    BY <1>3, <2>2, <2>3, <2>4 DEF IInv
<1>6. QED
  BY <1>4, <1>5
LEMMA SnapshotStep ==
    ASSUME IInv, NEW t \in Tasks, Snapshot(t)
    PROVE  IInv'
<1>1. /\ task' \in [Tasks -> TaskType] /\ Kept(t)
      /\ task'[t].pc = "events" /\ task'[t].head = task[t].head
      /\ task'[t].todo = Range(chainReorgs)
      /\ task'[t].parentAlerted = task[t].parentAlerted
  BY SnapshotTask DEF IInv
<1>2. UNCHANGED <<node, stream, listener, drops, chainReorgs, loop,
                  delivered, history>>
  BY DEF Snapshot
<1>3. \A p : Covered(p) => Covered(p)'
  BY <1>2, CoveredStays DEF loop
<1>4. TaskSound(t)'
  BY <1>1, <1>2, <1>3
     DEF IInv, TaskSound, EventsGenuine, Genuine, Snapshot
<1>5. QED
  BY <1>1, <1>2, <1>4, TaskStep DEF IInv, TypeOK, history

LEMMA JudgeStep ==
    ASSUME IInv, NEW t \in Tasks, NEW e \in task[t].todo, Judge(t, e)
    PROVE  IInv'
<1> DEFINE alert == [slot |-> e.slot, depth |-> e.depth]
           send == HeadOrParentUnknown(t, e)
<1>1. /\ e \in Event
      /\ task' \in [Tasks -> TaskType] /\ Kept(t)
      /\ task'[t].pc = IF send /\ alert \notin delivered
                         THEN "post_event" ELSE "delete"
      /\ task'[t].head = task[t].head
      /\ task'[t].todo = task[t].todo \ {e}
      /\ task'[t].event = e
      /\ send => task'[t].alert = alert
      /\ task'[t].parentAlerted =
            (task[t].parentAlerted \/ (send /\ alert \in delivered
                                            /\ NamesParent(t, e)))
  BY JudgeTask DEF IInv
<1>2. /\ UNCHANGED <<node, stream, listener, drops, chainReorgs, loop,
                     delivered, failures>>
      /\ misjudged' \subseteq misjudged \union {e}
      /\ task[t].pc = "events"
  BY DEF Judge
<1>3. Genuine(e) /\ task[t].head \in Blocks
  BY <1>2 DEF IInv, TaskSound
<1>4. \A p : Covered(p) => Covered(p)'
  BY <1>2, CoveredStays DEF loop
<1>5. task'[t].parentAlerted => Covered(Parent[task[t].head])
  <2>1. CASE task[t].parentAlerted
    BY <2>1 DEF IInv, TaskSound
  <2>2. CASE alert \in delivered /\ NamesParent(t, e)
    BY <1>3, <2>2, EventCovers DEF NamesParent
  <2>3. QED
    BY <1>1, <2>1, <2>2
<1>6. TaskSound(t)'
  <2>1. /\ task'[t].pc \in {"post_event", "delete"}
        /\ task'[t].pc = "post_event" => task'[t].alert = alert
    BY <1>1
  <2>2. \A f \in task'[t].todo : Genuine(f)
    BY <1>1 DEF IInv, TaskSound
  <2>3. QED
    BY <1>1, <1>3, <1>4, <1>5, <2>1, <2>2 DEF TaskSound, Genuine
<1>7. QED
  BY <1>1, <1>2, <1>6, TaskStep DEF IInv, TypeOK

LEMMA EventPostedStep ==
    ASSUME IInv, NEW t \in Tasks, EventPosted(t)
    PROVE  IInv'
<1> DEFINE e == task[t].event
<1>1. /\ task' \in [Tasks -> TaskType] /\ Kept(t)
      /\ task'[t].pc = "delete" /\ task'[t].head = task[t].head
      /\ task'[t].todo = task[t].todo /\ task'[t].event = e
      /\ task'[t].parentAlerted =
            (task[t].parentAlerted \/ NamesParent(t, e))
  BY EventPostedTask DEF IInv
<1>2. /\ UNCHANGED <<node, stream, listener, drops, chainReorgs, loop,
                     history>>
      /\ delivered' = delivered \union {task[t].alert}
      /\ task[t].pc = "post_event"
  BY DEF EventPosted
<1>3. /\ Genuine(e) /\ task[t].head \in Blocks
      /\ task[t].alert = [slot |-> e.slot, depth |-> e.depth]
  BY <1>2 DEF IInv, TaskSound
<1>4. task[t].alert \in Alert
  BY TaskFields DEF IInv, TypeOK
<1>5. \A p : Covered(p) => Covered(p)'
  BY <1>2, CoveredStays DEF loop
<1>6. Covered(e.newHead)'
  <2>1. /\ e.newHead \in Blocks /\ e.depth \in Nat
        /\ e.slot = Slot[e.newHead]
    BY <1>3 DEF Genuine, Event
  <2>2. Names(task[t].alert, e.newHead)
    BY <1>3, <2>1, AlertNames
  <2>3. \E a \in delivered' : Names(a, e.newHead)
    BY <1>2, <2>2
  <2>4. ASSUME NEW p, \E a \in delivered' : Names(a, p) PROVE Covered(p)'
    BY <2>4 DEF Covered, Reported
  <2>5. PICK p : p = e.newHead
    OBVIOUS
  <2>6. QED
    BY <1>1, <2>3, <2>4, <2>5 DEF Covered, Reported
<1>7. TaskSound(t)'
  BY <1>1, <1>3, <1>5, <1>6 DEF IInv, TaskSound, Genuine, NamesParent
<1>8. QED
  BY <1>1, <1>2, <1>4, <1>7, TaskStep DEF IInv, TypeOK, history

LEMMA DeleteStep ==
    ASSUME IInv, NEW t \in Tasks, Delete(t)
    PROVE  IInv'
<1>1. /\ task' \in [Tasks -> TaskType] /\ Kept(t)
      /\ \/ /\ task'[t].pc = "events" /\ task'[t].head = task[t].head
            /\ task'[t].todo = task[t].todo
            /\ task'[t].parentAlerted = task[t].parentAlerted
         \/ task'[t] = Ended(t, "failed")
  BY DeleteTask DEF IInv
<1>2. /\ UNCHANGED <<node, stream, listener, drops, loop, delivered, history>>
      /\ task[t].pc = "delete"
      /\ chainReorgs' = [r \in DOMAIN chainReorgs \ {task[t].event.slot} |->
                            chainReorgs[r]]
  BY DEF Delete
<1>3. \A p : Covered(p) => Covered(p)'
  BY <1>2, CoveredStays DEF loop
<1>4. TaskSound(t)'
  <2>1. CASE task'[t] = Ended(t, "failed")
    <3>1. PICK p : p = Parent[task[t].head]
      OBVIOUS
    <3>2. /\ task[t].head \in Blocks
          /\ \A e \in task[t].todo : Genuine(e)
          /\ task[t].parentAlerted => Covered(p)'
      BY <1>2, <1>3, <3>1 DEF IInv, TaskSound
    <3>3. task \in [Tasks -> TaskType] /\ current' = current
      BY <1>2 DEF IInv, TypeOK, loop
    <3>4. QED
      BY <2>1, <3>1, <3>2, <3>3, EndedSound
  <2>2. CASE task'[t] # Ended(t, "failed")
    BY <1>1, <1>2, <1>3, <2>2 DEF IInv, TaskSound, Genuine
  <2>3. QED
    BY <2>1, <2>2
<1>5. QED
  BY <1>1, <1>2, <1>4, TaskStep DEF IInv, TypeOK, history

\* A task that ends well has looked after the parent.
LEMMA CheckParentStep ==
    ASSUME IInv, NEW t \in Tasks, CheckParent(t)
    PROVE  IInv'
<1>1. task[t].head \in Blocks /\ task[t].pc = "events"
  BY DEF CheckParent, IInv, TaskSound
<1>2. /\ task' \in [Tasks -> TaskType] /\ Kept(t)
      /\ ParentUnreported(t) =>
            /\ task'[t].pc = "post_head" /\ task'[t].head = task[t].head
            /\ task'[t].todo = {} /\ task'[t].alert = HeadAlert(t)
            /\ task'[t].parentAlerted = task[t].parentAlerted
      /\ ~ParentUnreported(t) => task'[t] = Ended(t, "ok")
  BY <1>1, CheckParentTask DEF IInv
<1>3. UNCHANGED <<node, stream, listener, drops, chainReorgs, loop,
                  delivered, history>>
  BY DEF CheckParent
<1>4. \A p : Covered(p) => Covered(p)'
  BY <1>3, CoveredStays DEF loop
<1>5. CASE ParentUnreported(t)
  <2>1. task'[t].alert.before \in Int
        /\ task'[t].alert = [block |-> Parent[task[t].head],
                             before |-> task'[t].alert.before]
    <3>1. LastHandled \in Blocks
      <4>1. handled \in Seq(Blocks) /\ handled # <<>>
        BY <1>5 DEF IInv, TypeOK, ParentUnreported
      <4>2. Len(handled) \in 1 .. Len(handled)
        BY <4>1
      <4>3. QED
        BY <4>1, <4>2 DEF LastHandled
    <3>2. Slot[task[t].head] - Slot[LastHandled] - 2 \in Int
      BY <1>1, <3>1
    <3>3. QED
      BY <1>2, <1>5, <3>2 DEF HeadAlert
  <2>2. TaskSound(t)'
    BY <1>1, <1>2, <1>4, <1>5, <2>1 DEF IInv, TaskSound
  <2>3. QED
    BY <1>2, <1>3, <2>2, TaskStep DEF IInv, TypeOK, history
<1>6. CASE ~ParentUnreported(t)
  <2>1. everHandled = <<>> \/ Covered(Parent[task[t].head])
    <3>1. CASE handled = <<>>
      BY <3>1 DEF IInv, ListsAgree
    <3>2. CASE task[t].parentAlerted
      BY <3>2 DEF IInv, TaskSound
    <3>3. CASE Known(t, Parent[task[t].head])
      <4>1. Parent[task[t].head] # task[t].head
        <5>1. Parent[task[t].head] # NoBlock =>
                 Slot[Parent[task[t].head]] < Slot[task[t].head]
          BY <1>1
        <5>2. QED
          BY <1>1, <5>1
      <4>2. QED
        BY <3>3, <4>1 DEF Known, Covered, IInv, ListsAgree
    <3>4. CASE HeadAlert(t) \in delivered
      <4>1. CASE Parent[task[t].head] = NoBlock
        BY <4>1 DEF Covered
      <4>2. CASE Parent[task[t].head] # NoBlock
        <5>1. Parent[task[t].head] \in Blocks
          BY <1>1, <4>2
        <5>2. Names(HeadAlert(t), Parent[task[t].head])
          BY <5>1 DEF HeadAlert, Names
        <5>3. QED
          BY <3>4, <5>2 DEF Covered, Reported
      <4>3. QED
        BY <4>1, <4>2
    <3>5. QED
      BY <1>6, <3>1, <3>2, <3>3, <3>4 DEF ParentUnreported
  <2>2. TaskSound(t)'
    <3>1. PICK p : p = Parent[task[t].head]
      OBVIOUS
    <3>2. /\ \A e \in task[t].todo : Genuine(e)
          /\ task[t].parentAlerted => Covered(p)'
      BY <1>4, <3>1 DEF IInv, TaskSound
    <3>3. /\ task \in [Tasks -> TaskType] /\ current' = current
          /\ everHandled' = everHandled
      BY <1>3 DEF IInv, TypeOK, loop
    <3>4. everHandled' = <<>> \/ Covered(p)'
      BY <1>4, <2>1, <3>1, <3>3
    <3>5. QED
      BY <1>1, <1>2, <1>6, <3>1, <3>2, <3>3, <3>4, EndedSound
  <2>3. QED
    BY <1>2, <1>3, <2>2, TaskStep DEF IInv, TypeOK, history
<1>7. QED
  BY <1>5, <1>6

LEMMA HeadPostedStep ==
    ASSUME IInv, NEW t \in Tasks, HeadPosted(t)
    PROVE  IInv'
<1>1. task' \in [Tasks -> TaskType] /\ Kept(t) /\ task'[t] = Ended(t, "ok")
  BY PostTask DEF IInv
<1>2. /\ UNCHANGED <<node, stream, listener, drops, chainReorgs, loop,
                     history>>
      /\ delivered' = delivered \union {task[t].alert}
      /\ task[t].pc = "post_head"
  BY DEF HeadPosted
<1>3. /\ task[t].head \in Blocks
      /\ task[t].alert = [block |-> Parent[task[t].head],
                          before |-> task[t].alert.before]
      /\ task[t].alert.before \in Int
  BY <1>2 DEF IInv, TaskSound
<1>4. task[t].alert \in Alert
  BY TaskFields DEF IInv, TypeOK
<1>5. \A p : Covered(p) => Covered(p)'
  BY <1>2, CoveredStays DEF loop
<1>6. ASSUME NEW p, p = Parent[task[t].head] PROVE Covered(p)'
  <2>1. p = NoBlock \/ p \in Blocks
    BY <1>3, <1>6
  <2>2. CASE p = NoBlock
    BY <2>2 DEF Covered
  <2>3. CASE p \in Blocks
    <3>1. Names(task[t].alert, p)
      BY <1>3, <1>6, <2>3, AlertNames
    <3>2. QED
      BY <1>2, <3>1 DEF Covered, Reported
  <2>4. QED
    BY <2>1, <2>2, <2>3
<1>7. TaskSound(t)'
  <2>1. PICK p : p = Parent[task[t].head]
    OBVIOUS
  <2>2. /\ \A e \in task[t].todo : Genuine(e)
        /\ task \in [Tasks -> TaskType] /\ current' = current
    BY <1>2 DEF IInv, TypeOK, TaskSound, loop
  <2>3. Covered(p)'
    BY <1>6, <2>1
  <2>4. QED
    BY <1>1, <1>3, <2>1, <2>2, <2>3, EndedSound
<1>8. QED
  BY <1>1, <1>2, <1>4, <1>7, TaskStep DEF IInv, TypeOK, history

LEMMA PostFailsStep ==
    ASSUME IInv, NEW t \in Tasks, PostFails(t)
    PROVE  IInv'
<1>1. /\ task' \in [Tasks -> TaskType] /\ Kept(t)
      /\ task'[t] = Ended(t, "failed")
  BY PostTask DEF IInv
<1>2. /\ UNCHANGED <<node, stream, listener, drops, chainReorgs, loop,
                     delivered, misjudged>>
      /\ task[t].pc # "idle" /\ failures' \in 0 .. MaxFailures
  BY DEF PostFails, IInv, TypeOK
<1>3. \A p : Covered(p) => Covered(p)'
  BY <1>2, CoveredStays DEF loop
<1>4. TaskSound(t)'
  <2>1. PICK p : p = Parent[task[t].head]
    OBVIOUS
  <2>2. /\ task[t].head \in Blocks
        /\ \A e \in task[t].todo : Genuine(e)
        /\ task[t].parentAlerted => Covered(p)'
    BY <1>2, <1>3, <2>1 DEF IInv, TaskSound
  <2>3. task \in [Tasks -> TaskType] /\ current' = current
    BY <1>2 DEF IInv, TypeOK, loop
  <2>4. QED
    BY <1>1, <2>1, <2>2, <2>3, EndedSound
<1>5. QED
  BY <1>1, <1>2, <1>4, TaskStep DEF IInv, TypeOK

LEMMA InvStep == IInv /\ [Next]_vars => IInv'
<1> SUFFICES ASSUME IInv, [Next]_vars PROVE IInv'
  OBVIOUS
<1>1. CASE UNCHANGED vars
  <2>1. \A p : Covered(p) => Covered(p)'
    BY <1>1, CoveredStays DEF vars
  <2>2. \A t \in Tasks : TaskSound(t)'
    BY <1>1, SoundStays DEF IInv, vars
  <2>3. TypeOK' /\ EventsGenuine' /\ ListsAgree' /\ HandledParentCovered'
    BY <1>1, ParentsStay
       DEF IInv, vars, TypeOK, EventsGenuine, Genuine, ListsAgree, LastHandled
  <2>4. QED
    BY <2>2, <2>3 DEF IInv
<1>2. QED
  BY <1>1, NodeStep, ListenerStep, PollStep, LoopStep, SnapshotStep, JudgeStep,
     EventPostedStep, DeleteStep, CheckParentStep, HeadPostedStep,
     PostFailsStep DEF Next

LEMMA Inductive == Spec => []IInv
<1>1. QED
  BY InvInit, InvStep, PTL DEF Spec

\* Listener, handler and loop keep their types, and chain_reorgs its slots.
THEOREM TypeCorrect == Spec => []TypeOK
<1>1. IInv => TypeOK
  BY DEF IInv
<1>2. QED
  BY <1>1, Inductive, PTL

\* The parent of every handled head was handled or is named by an alert, for
\* any tree, and whatever fails, breaks or overlaps.
THEOREM ParentsAreCovered == Spec => []HandledParentCovered
<1>1. IInv => HandledParentCovered
  BY DEF IInv
<1>2. QED
  BY <1>1, Inductive, PTL
=============================================================================

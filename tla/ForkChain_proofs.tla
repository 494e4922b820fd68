--------------------------- MODULE ForkChain_proofs ---------------------------
(***************************************************************************)
(* Proof that no block of a handled chain stays untold, for any tree of    *)
(* blocks, any number of overlapping tasks, failures and reorganisations.  *)
(*                                                                         *)
(* What a handled head makes the watcher owe its reader is owed block by   *)
(* block: a block is told of, or an event on its way to the handler names  *)
(* it.  Such an event is lost only when a task deletes it, and a task that *)
(* does has told of the event, or has seen that the chain below it is      *)
(* accounted for by older events.                                          *)
(***************************************************************************)
EXTENDS ForkWatch_proofs

-----------------------------------------------------------------------------
(* The inductive invariant, beside IInv of ForkWatch_proofs.               *)

Line(b) == Ancestors[b] \union {b}

\* Events stored or still to be read, and those a task holds.
InFlight == Range(stream) \union Range(chainReorgs)

HeldBy(t) ==
    task[t].todo \union IF task[t].pc \in {"post_event", "delete"}
                          THEN {task[t].event} ELSE {}

Events == InFlight \union UNION {HeldBy(t) : t \in Tasks}

Started == everHandled # <<>>
NewestHandled == everHandled[Len(everHandled)]

\* The blocks the property is about.
After(b) == Started /\ Slot[b] > Slot[everHandled[1]]

\* What tells of a block, or excuses that nothing does.
Told(b) == b \in Range(everHandled) \/ Reported(b) \/ Hidden(b) \/ Misjudged(b)

\* A task takes its own head for known, so an event about that head may be
\* deleted without a word.
Untried(b) == \A t \in Tasks : task[t].pc # "idle" => task[t].head # b

\* The event will make some task tell of the block.
Awaits(e, b) ==
    /\ b \in Line(e.newHead) /\ e.slot - e.depth <= Slot[b]
    /\ b = e.newHead => Untried(b)

\* Told of, or named by an event on its way; by one no newer than slot s.
Accounted(b) == Told(b) \/ \E e \in InFlight : Awaits(e, b)

AccountedBy(b, s) ==
    Told(b) \/ \E e \in InFlight : e.slot <= s /\ Awaits(e, b)

\* Slots of the node's head do not fall.
SlotsBelow ==
    /\ \A h \in Range(everHandled) : Slot[h] <= Slot[nodeHead]
    /\ \A s \in Range(reorgSlots) : s <= Slot[nodeHead]
    /\ \A t \in Tasks : task[t].pc # "idle" =>
          /\ Slot[task[t].head] <= Slot[nodeHead]
          /\ task[t].head # nodeHead /\ Slot[task[t].head] = Slot[nodeHead] =>
                Slot[nodeHead] \in Range(reorgSlots)

\* One event for each reorganisation.
EventsApart ==
    /\ \A e \in Events : e.slot \in Range(reorgSlots)
    /\ \A e, f \in Events : e.slot = f.slot => e = f

Listens == Started \/ current # NoTask => listener # "dead"

\* The chain of a handled head, of the node's head as far as handling got, and
\* of the head the loop has at hand.
HandledLine ==
    \A h \in Range(everHandled) : \A b \in Ancestors[h] :
        After(b) => AccountedBy(b, Slot[h])

NodeLine ==
    \A n \in {nodeHead} : \A b \in Line(n) :
        After(b) /\ Slot[b] <= Slot[NewestHandled] => Accounted(b)

HeadLine(h) ==
    /\ \A n \in {nodeHead} : \A b \in Line(n) :
          After(b) /\ Slot[b] <= Slot[h] => b \in Line(h) \/ Accounted(b)
    /\ \A b \in Ancestors[h] :
          After(b) /\ Slot[b] <= Slot[NewestHandled] => AccountedBy(b, Slot[h])

\* An event that a task with head h is about to delete has been told of, or
\* tells nothing more.
Settled(e, h) ==
    \/ [slot |-> e.slot, depth |-> e.depth] \in delivered
    \/ e \in misjudged
    \/ /\ Started /\ e.newHead \in Range(everHandled) \union {h}
       /\ \A b \in Ancestors[e.newHead] :
             After(b) => AccountedBy(b, e.slot - 1)

\* A reorg alert ends at the slot of h's parent.
ParentAlerted(h) ==
    \E alert \in delivered :
        "slot" \in DOMAIN alert /\ alert.slot = Slot[Parent[h]]

\* A head's alert names every slot since the head handled before it.
Reaches(alert, h) ==
    \A b \in Ancestors[h] : Slot[b] > Slot[NewestHandled] => Names(alert, b)

\* What a task that ended well knows of the parent of its head.
ParentSeen(h) ==
    \/ Parent[h] = NoBlock
    \/ Parent[h] \in Range(everHandled)
    \/ ParentAlerted(h)
    \/ \E alert \in delivered : Reaches(alert, h)

TaskChain(t) ==
    \A h \in {task[t].head} :
        /\ task[t].pc = "delete" => \A e \in {task[t].event} : Settled(e, h)
        /\ task[t].parentAlerted => ParentAlerted(h)
        /\ t = current /\ task[t].pc # "idle" =>
              /\ HeadLine(h)
              /\ task[t].pc = "post_head" /\ Started =>
                    \A alert \in {task[t].alert} : Reaches(alert, h)
              /\ task[t].pc = "ok" /\ Started => ParentSeen(h)

ChainInv ==
    /\ SlotsBelow
    /\ Calm =>
          /\ EventsApart /\ Listens /\ HandledLine /\ NodeLine
          /\ \A t \in Tasks : TaskChain(t)

-----------------------------------------------------------------------------
(* The tree.                                                               *)

USE SlotAssumption, ParentAssumption, AncestorsAssumption, NamesAssumption,
    KeepHeadersAssumption, BoundsAssumption

\* Where b has a parent, its ancestors are the parent's line.
LEMMA ParentLine ==
    ASSUME NEW b \in Blocks
    PROVE  /\ Parent[b] = NoBlock => Ancestors[b] = {}
           /\ Parent[b] # NoBlock =>
                 /\ Parent[b] \in Blocks /\ Parent[b] \in Ancestors[b]
                 /\ Ancestors[b] = Line(Parent[b])
                 /\ Slot[Parent[b]] < Slot[b]
<1>1. Ancestors[b] = IF Parent[b] = NoBlock THEN {}
                     ELSE Ancestors[Parent[b]] \union {Parent[b]}
  OBVIOUS
<1>2. Parent[b] \in Blocks \union {NoBlock}
  OBVIOUS
<1>3. QED
  BY <1>1, <1>2 DEF Line

\* Blocks of a line are no newer than its end, and older unless they are it.
LEMMA LineSlots ==
    ASSUME NEW b \in Blocks
    PROVE  /\ Line(b) \subseteq Blocks /\ Slot[b] \in Nat
           /\ \A a \in Line(b) : Slot[a] \in Nat /\ Slot[a] <= Slot[b]
           /\ \A a \in Ancestors[b] : Slot[a] \in Nat /\ Slot[a] < Slot[b]
<1>1. Ancestors[b] \subseteq Blocks /\ Slot[b] \in Nat
  OBVIOUS
<1>2. \A a \in Ancestors[b] : Slot[a] \in Nat /\ Slot[a] < Slot[b]
  BY <1>1
<1>3. QED
  BY <1>1, <1>2 DEF Line

\* A set of blocks has an oldest one.
LEMMA OldestBlock ==
    ASSUME NEW B \in SUBSET Blocks, B # {}
    PROVE  \E b \in B : \A c \in B : Slot[b] <= Slot[c]
<1> DEFINE S == {Slot[b] : b \in B}
<1>1. S \subseteq Nat /\ S # {}
  OBVIOUS
<1> HIDE DEF S
<1>2. PICK x \in S : \A y \in S : ~ (<<y, x>> \in OpToRel(<, Nat))
  BY <1>1, NatLessThanWellFounded, WFMin
<1>3. PICK b \in B : x = Slot[b]
  BY DEF S
<1>4. ASSUME NEW c \in B PROVE Slot[b] <= Slot[c]
  <2>1. Slot[c] \in S
    BY DEF S
  <2>2. ~ (Slot[c] < x) /\ Slot[c] \in Nat /\ x \in Nat
    BY <1>1, <1>2, <2>1 DEF OpToRel
  <2>3. QED
    BY <1>3, <2>2
<1>5. QED
  BY <1>4

\* An ancestor's ancestors are ancestors: no block is the oldest at which this
\* goes wrong.
LEMMA AncestorsOfAncestors ==
    ASSUME NEW y \in Blocks, NEW c \in Ancestors[y]
    PROVE  Line(c) \subseteq Ancestors[y]
<1> DEFINE Bad == {b \in Blocks : \E a \in Ancestors[b] :
                                      ~ (Line(a) \subseteq Ancestors[b])}
<1>1. ASSUME Bad # {} PROVE FALSE
  <2>1. PICK b \in Bad : \A o \in Bad : Slot[b] <= Slot[o]
    BY <1>1, OldestBlock
  <2>2. PICK a \in Ancestors[b] : ~ (Line(a) \subseteq Ancestors[b])
    OBVIOUS
  <2>3. /\ b \in Blocks /\ Parent[b] \in Blocks
        /\ Ancestors[b] = Line(Parent[b]) /\ Slot[Parent[b]] < Slot[b]
    BY <2>2, ParentLine
  <2>4. Parent[b] \notin Bad
    BY <2>1, <2>3, LineSlots
  <2>5. CASE a = Parent[b]
    BY <2>2, <2>3, <2>5
  <2>6. CASE a \in Ancestors[Parent[b]]
    BY <2>2, <2>3, <2>4, <2>6 DEF Line
  <2>7. QED
    BY <2>2, <2>3, <2>5, <2>6 DEF Line
<1>2. QED
  BY <1>1

\* Two blocks of a line are on one another's.
LEMMA LineOrdered ==
    ASSUME NEW y \in Blocks, NEW a \in Line(y), NEW c \in Line(y)
    PROVE  a \in Line(c) \/ c \in Ancestors[a]
<1> DEFINE Apart(b) == \E d \in Line(b), e \in Line(b) :
                          d \notin Line(e) /\ e \notin Ancestors[d]
           Bad == {b \in Blocks : Apart(b)}
<1>1. ASSUME Bad # {} PROVE FALSE
  <2>1. PICK b \in Bad : \A o \in Bad : Slot[b] <= Slot[o]
    BY <1>1, OldestBlock
  <2>2. PICK d \in Line(b), e \in Line(b) :
             d \notin Line(e) /\ e \notin Ancestors[d]
    OBVIOUS
  <2>3. d # b /\ e # b
    BY <2>2 DEF Line
  <2>4. d \in Ancestors[b] /\ e \in Ancestors[b] /\ b \in Blocks
    BY <2>2, <2>3 DEF Line
  <2>5. /\ Parent[b] \in Blocks /\ Ancestors[b] = Line(Parent[b])
        /\ Slot[Parent[b]] < Slot[b]
    BY <2>4, ParentLine
  <2>6. Parent[b] \in Bad
    BY <2>2, <2>4, <2>5
  <2>7. QED
    BY <2>1, <2>4, <2>5, <2>6, LineSlots
<1>2. QED
  BY <1>1

\* What a new head brings that was not on the line before: newer blocks, when
\* the head moves up, and else blocks behind the fork, which the event of the
\* reorganisation names.
LEMMA NewOnLine ==
    ASSUME NEW x \in Blocks, NEW y \in Blocks, x # y,
           NEW b \in Line(y), b \notin Line(x)
    PROVE  /\ x \in Ancestors[y] => Slot[x] < Slot[b]
           /\ ForkSlot(x, y) <= Slot[b]
<1>1. CASE x \in Ancestors[y]
  <2>1. x \in Line(y)
    BY <1>1 DEF Line
  <2>2. x \in Ancestors[b] /\ b \in Blocks
    BY <2>1, LineOrdered, LineSlots
  <2>3. Slot[x] < Slot[b]
    BY <2>2, LineSlots
  <2>4. QED
    BY <2>3, ForkSlotBounds, LineSlots
<1>2. CASE x \notin Ancestors[y]
  <2>1. b \in Blocks /\ Slot[b] \in Nat
    BY LineSlots
  <2>2. CASE ForkSlot(x, y) = 0
    BY <1>2, <2>1, <2>2
  <2>3. CASE ForkSlot(x, y) # 0
    <3>1. PICK f \in Line(x) \intersect Line(y) : Slot[f] = ForkSlot(x, y)
      BY <2>3, ForkSlotBounds DEF Line
    <3>2. f \in Blocks
      BY <3>1, LineSlots
    <3>3. b \notin Line(f)
      BY <3>1, AncestorsOfAncestors DEF Line
    <3>4. f \in Ancestors[b]
      BY <3>1, <3>3, LineOrdered
    <3>5. QED
      BY <1>2, <2>1, <3>1, <3>4, LineSlots
  <2>4. QED
    BY <2>2, <2>3
<1>3. QED
  BY <1>1, <1>2

-----------------------------------------------------------------------------
(* What no step takes back.                                                *)

\* What is accounted for stays so.
Remembers(b) ==
    /\ Accounted(b) => Accounted(b)'
    /\ \A s \in Int : AccountedBy(b, s) => AccountedBy(b, s)'

\* Heads are added at the end, alerts and misjudged events are not taken back.
Grows ==
    /\ everHandled' \in Seq(Blocks)
    /\ Len(everHandled) <= Len(everHandled')
    /\ \A i \in 1 .. Len(everHandled) : everHandled'[i] = everHandled[i]
    /\ delivered \subseteq delivered' /\ misjudged \subseteq misjudged'

\* A step that adds no head.
LEMMA SameHeadsGrow ==
    ASSUME TypeOK, everHandled' = everHandled, delivered \subseteq delivered',
           misjudged \subseteq misjudged'
    PROVE  /\ Grows /\ Started' = Started /\ NewestHandled' = NewestHandled
           /\ \A b : After(b)' = After(b)
<1>1. everHandled \in Seq(Blocks) /\ Len(everHandled) \in Nat
  BY DEF TypeOK
<1>2. QED
  BY <1>1 DEF Grows, Started, NewestHandled, After

\* What was told, or excused, is not untold.
LEMMA ToldStays ==
    ASSUME TypeOK, Grows
    PROVE  /\ Range(everHandled) \subseteq Range(everHandled)'
           /\ \A b : Told(b) => Told(b)'
<1>1. /\ everHandled \in Seq(Blocks) /\ Len(everHandled) \in Nat
      /\ DOMAIN everHandled = 1 .. Len(everHandled)
      /\ Len(everHandled') \in Nat
      /\ DOMAIN everHandled' = 1 .. Len(everHandled')
  BY DEF TypeOK, Grows
<1>2. Range(everHandled) \subseteq Range(everHandled)'
  BY <1>1 DEF Grows, Range
<1>3. ASSUME NEW b, Reported(b) PROVE Reported(b)'
  BY <1>3 DEF Reported, Grows
<1>4. ASSUME NEW b, Misjudged(b) PROVE Misjudged(b)'
  BY <1>4 DEF Misjudged, Grows
<1>5. ASSUME NEW b, Hidden(b) PROVE Hidden(b)'
  <2>1. PICK i \in 2 .. Len(everHandled) :
             /\ b \in Ancestors[everHandled[i]]
             /\ Slot[everHandled[i - 1]] < Slot[b]
             /\ \E alert \in delivered :
                   /\ "slot" \in DOMAIN alert
                   /\ alert.slot = Slot[Parent[everHandled[i]]]
                   /\ Slot[b] < alert.slot - alert.depth
    BY <1>5 DEF Hidden
  <2>2. /\ i \in 2 .. Len(everHandled')
        /\ everHandled'[i] = everHandled[i]
        /\ everHandled'[i - 1] = everHandled[i - 1]
    <3>1. i \in 1 .. Len(everHandled) /\ i - 1 \in 1 .. Len(everHandled)
      BY <1>1
    <3>2. Len(everHandled) <= Len(everHandled')
      BY DEF Grows
    <3>3. i \in 2 .. Len(everHandled')
      BY <1>1, <3>2
    <3>4. QED
      BY <3>1, <3>3 DEF Grows
  <2>3. QED
    BY <2>1, <2>2 DEF Hidden, Grows
<1>6. QED
  BY <1>2, <1>3, <1>4, <1>5 DEF Told

\* A step that takes no event off its way.
LEMMA NothingLost ==
    ASSUME NEW b, Told(b) => Told(b)', InFlight \subseteq InFlight',
           Untried(b) => Untried(b)'
    PROVE  Remembers(b)
<1>1. ASSUME NEW e, Awaits(e, b) PROVE Awaits(e, b)'
  BY <1>1 DEF Awaits
<1>2. Accounted(b) => Accounted(b)'
  BY <1>1 DEF Accounted
<1>3. ASSUME NEW s \in Int, AccountedBy(b, s) PROVE AccountedBy(b, s)'
  BY <1>1, <1>3 DEF AccountedBy
<1>4. QED
  BY <1>2, <1>3 DEF Remembers

\* Tasks only take up a head in Poll.
LEMMA UntriedStays ==
    ASSUME \A t \in Tasks : task'[t].pc # "idle" =>
               task[t].pc # "idle" /\ task'[t].head = task[t].head
    PROVE  \A b : Untried(b) => Untried(b)'
BY DEF Untried

\* What is settled stays so while nothing it counts on is lost.
LEMMA SettledStays ==
    ASSUME TypeOK, Grows, Started => \A b : After(b)' => After(b),
           NEW e \in Event, NEW h, Settled(e, h),
           \A b \in Ancestors[e.newHead] : After(b) => Remembers(b)
    PROVE  Settled(e, h)'
<1>1. e.newHead \in Blocks /\ e.slot - 1 \in Int
  BY DEF Event
<1>2. Started => Started'
  <2>1. Started => 1 \in 1 .. Len(everHandled)
    <3>1. everHandled \in Seq(Blocks)
      BY DEF TypeOK
    <3>2. everHandled # <<>> => Len(everHandled) \in Nat \ {0}
      BY <3>1
    <3>3. QED
      BY <3>2 DEF Started
  <2>2. Len(everHandled) \in Nat /\ Len(everHandled') \in Nat
    BY DEF TypeOK, Grows
  <2>3. Started => Len(everHandled') # 0
    BY <2>1, <2>2 DEF Grows
  <2>4. QED
    BY <2>3 DEF Started
<1>3. CASE Started /\ \A b \in Ancestors[e.newHead] :
                          After(b) => AccountedBy(b, e.slot - 1)
  <2>1. ASSUME NEW b \in Ancestors[e.newHead], After(b)'
        PROVE  AccountedBy(b, e.slot - 1)'
    BY <1>1, <1>3, <2>1 DEF Remembers
  <2>2. QED
    BY <1>2, <1>3, <2>1, ToldStays DEF Settled, Grows
<1>4. QED
  BY <1>3 DEF Settled, Grows

\* Nor does a head owe more while the node stays where it is.
LEMMA HeadLineStays ==
    ASSUME TypeOK, nodeHead' = nodeHead, everHandled' = everHandled,
           NEW h \in Blocks, HeadLine(h),
           \A b \in Blocks : After(b) => Remembers(b)
    PROVE  HeadLine(h)'
<1>1. nodeHead \in Blocks /\ Slot[h] \in Int
  BY DEF TypeOK
<1>2. /\ NewestHandled' = NewestHandled
      /\ \A b : After(b)' = After(b)
  BY DEF NewestHandled, After, Started
<1>3. ASSUME NEW b \in Line(nodeHead), After(b), Slot[b] <= Slot[h],
             b \notin Line(h)
      PROVE  Accounted(b)'
  <2>1. b \in Blocks /\ Accounted(b)
    BY <1>1, <1>3, LineSlots DEF HeadLine
  <2>2. QED
    BY <1>3, <2>1 DEF Remembers
<1>4. ASSUME NEW b \in Ancestors[h], After(b),
             Slot[b] <= Slot[NewestHandled]
      PROVE  AccountedBy(b, Slot[h])'
  <2>1. b \in Blocks /\ AccountedBy(b, Slot[h])
    BY <1>4, LineSlots DEF HeadLine, Line
  <2>2. QED
    BY <1>1, <1>4, <2>1 DEF Remembers
<1>5. QED
  BY <1>2, <1>3, <1>4 DEF HeadLine

\* A task that the step leaves alone, while the head of the node stays.
LEMMA OtherTaskChain ==
    ASSUME IInv, UNCHANGED <<nodeHead, everHandled>>,
           delivered \subseteq delivered', misjudged \subseteq misjudged',
           \A b \in Blocks : After(b) => Remembers(b),
           NEW o \in Tasks, TaskChain(o), task'[o] = task[o],
           o = current' => o = current
    PROVE  TaskChain(o)'
<1>1. PICK h : h = task[o].head
  OBVIOUS
<1>2. /\ Grows /\ Started' = Started /\ NewestHandled' = NewestHandled
      /\ \A b : After(b)' = After(b)
  BY SameHeadsGrow DEF IInv
<1>3. task[o].pc # "idle" => h \in Blocks
  BY <1>1 DEF IInv, TaskSound
<1>4. ASSUME task[o].pc = "delete", NEW e, e = task[o].event
      PROVE  Settled(e, h)'
  <2>1. e \in Event /\ Settled(e, h)
    BY <1>1, <1>4 DEF IInv, TaskSound, Genuine, TaskChain
  <2>2. Ancestors[e.newHead] \subseteq Blocks
    BY <2>1 DEF Event
  <2>3. QED
    BY <1>2, <2>1, <2>2, SettledStays DEF IInv
<1>5. task[o].parentAlerted => ParentAlerted(h)'
  BY <1>1 DEF TaskChain, ParentAlerted
<1>6. ASSUME o = current, task[o].pc # "idle" PROVE HeadLine(h)'
  <2>1. HeadLine(h) /\ h \in Blocks
    BY <1>1, <1>3, <1>6 DEF TaskChain
  <2>2. QED
    BY <2>1, HeadLineStays DEF IInv
<1>7. \A alert : Reaches(alert, h) => Reaches(alert, h)'
  BY <1>2 DEF Reaches
<1>8. ParentSeen(h) => ParentSeen(h)'
  BY <1>7 DEF ParentSeen, ParentAlerted
<1>9. o = current' /\ task[o].pc = "post_head" /\ Started =>
         \A alert : alert = task[o].alert => Reaches(alert, h)'
  BY <1>1, <1>7 DEF TaskChain
<1>10. o = current' /\ task[o].pc = "ok" /\ Started => ParentSeen(h)'
  BY <1>1, <1>8 DEF TaskChain
<1>11. QED
  BY <1>1, <1>2, <1>4, <1>5, <1>6, <1>9, <1>10 DEF TaskChain

\* A task that goes on with its head, or ends.
LEMMA OwnTaskChain ==
    ASSUME IInv, UNCHANGED <<nodeHead, everHandled, current>>,
           delivered \subseteq delivered', misjudged \subseteq misjudged',
           \A b \in Blocks : After(b) => Remembers(b),
           NEW t \in Tasks, TaskChain(t), task[t].pc # "idle",
           NEW h, h = task[t].head, NEW e, NEW alert,
           task'[t].pc # "idle" => task'[t].head = h,
           task'[t].pc = "delete" => task'[t].event = e /\ Settled(e, h)',
           task'[t].parentAlerted => task'[t].head = h /\ ParentAlerted(h)',
           task'[t].pc = "post_head" =>
               task'[t].alert = alert /\ (Started => Reaches(alert, h)),
           task'[t].pc = "ok" /\ t = current /\ Started => ParentSeen(h)'
    PROVE  TaskChain(t)'
<1>1. /\ Started' = Started /\ NewestHandled' = NewestHandled
  BY SameHeadsGrow DEF IInv
<1>2. h \in Blocks
  BY DEF IInv, TaskSound
<1>3. t = current => HeadLine(h)'
  <2>1. t = current => HeadLine(h)
    BY DEF TaskChain
  <2>2. QED
    BY <1>2, <2>1, HeadLineStays DEF IInv
<1>4. Reaches(alert, h) => Reaches(alert, h)'
  BY <1>1 DEF Reaches
<1>5. QED
  BY <1>1, <1>3, <1>4 DEF TaskChain

\* A step that moves neither the node nor the list of handled heads: no task
\* takes up a head, and no event comes up that is not on its way.
LEMMA SameHeadsStep ==
    ASSUME IInv, IInv', ChainInv,
           UNCHANGED <<nodeHead, reorgSlots, unheard, everHandled, drops>>,
           listener # "dead" => listener' # "dead",
           current' # NoTask => current # NoTask,
           delivered \subseteq delivered', misjudged \subseteq misjudged',
           \A o \in Tasks : task'[o].pc # "idle" =>
               task[o].pc # "idle" /\ task'[o].head = task[o].head,
           Calm => Events' \subseteq Events,
           Calm => \A b \in Blocks : After(b) => Remembers(b),
           Calm => \A o \in Tasks : TaskChain(o)'
    PROVE  ChainInv'
<1>1. /\ Grows /\ Started' = Started /\ NewestHandled' = NewestHandled
      /\ \A b : After(b)' = After(b)
  BY SameHeadsGrow DEF IInv
<1>2. SlotsBelow'
  <2>1. SlotsBelow
    BY DEF ChainInv
  <2>2. QED
    BY <2>1 DEF SlotsBelow
<1>3. Calm' = Calm
  BY DEF Calm, IsInjective
<1>4. ASSUME Calm PROVE EventsApart' /\ Listens' /\ HandledLine' /\ NodeLine'
  <2>1. /\ EventsApart /\ Listens /\ HandledLine /\ NodeLine
        /\ \A b \in Blocks : After(b) => Remembers(b)
    BY <1>4 DEF ChainInv
  <2>2. EventsApart'
    BY <1>4, <2>1 DEF EventsApart
  <2>3. Listens'
    BY <1>1, <2>1 DEF Listens
  <2>4. HandledLine'
    <3>1. ASSUME NEW h \in Range(everHandled), NEW b \in Ancestors[h], After(b)
          PROVE  AccountedBy(b, Slot[h])'
      <4>1. h \in Blocks /\ b \in Blocks /\ Slot[h] \in Int
        BY <3>1 DEF IInv, TypeOK, Range
      <4>2. QED
        BY <2>1, <3>1, <4>1 DEF HandledLine, Remembers
    <3>2. QED
      BY <1>1, <3>1 DEF HandledLine
  <2>5. NodeLine'
    <3>1. ASSUME NEW b \in Line(nodeHead), After(b),
                 Slot[b] <= Slot[NewestHandled]
          PROVE  Accounted(b)'
      <4>1. b \in Blocks
        BY LineSlots DEF IInv, TypeOK
      <4>2. QED
        BY <2>1, <3>1, <4>1 DEF NodeLine, Remembers
    <3>2. QED
      BY <1>1, <3>1 DEF NodeLine
  <2>6. QED
    BY <2>2, <2>3, <2>4, <2>5
<1>5. QED
  BY <1>2, <1>3, <1>4 DEF ChainInv

\* A step of one task: it takes no new event, but from those on their way.
LEMMA TaskChainStep ==
    ASSUME IInv, IInv', ChainInv, NEW t \in Tasks, Kept(t),
           UNCHANGED <<node, stream, listener, drops, loop>>,
           delivered \subseteq delivered', misjudged \subseteq misjudged',
           task'[t].pc # "idle" =>
               task[t].pc # "idle" /\ task'[t].head = task[t].head,
           HeldBy(t)' \subseteq HeldBy(t) \union InFlight,
           InFlight' \subseteq InFlight,
           Calm => \A b \in Blocks : After(b) => Remembers(b),
           Calm => TaskChain(t)'
    PROVE  ChainInv'
<1>1. /\ UNCHANGED <<nodeHead, reorgSlots, unheard, listener, drops, current,
                     everHandled>>
      /\ \A o \in Tasks : o # t => task'[o] = task[o]
  BY DEF node, loop, Kept
<1>2. Events' \subseteq Events
  <2>1. ASSUME NEW o \in Tasks, o # t PROVE HeldBy(o)' = HeldBy(o)
    BY <1>1, <2>1 DEF HeldBy
  <2>2. QED
    BY <2>1 DEF Events
<1>3. ASSUME Calm, NEW o \in Tasks PROVE TaskChain(o)'
  <2>1. CASE o = t
    BY <1>3, <2>1
  <2>2. CASE o # t
    BY <1>1, <1>3, <2>2, OtherTaskChain DEF ChainInv
  <2>3. QED
    BY <2>1, <2>2
<1>4. \A o \in Tasks : task'[o].pc # "idle" =>
          task[o].pc # "idle" /\ task'[o].head = task[o].head
  BY <1>1
<1>5. QED
  BY <1>1, <1>2, <1>3, <1>4, SameHeadsStep

-----------------------------------------------------------------------------
(* The steps of a task.                                                    *)

\* A step of one task that leaves events and heads where they are.
LEMMA QuietStep ==
    ASSUME IInv, UNCHANGED <<stream, chainReorgs, everHandled>>,
           NEW t \in Tasks, Kept(t), delivered \subseteq delivered',
           misjudged \subseteq misjudged',
           task'[t].pc # "idle" =>
               task[t].pc # "idle" /\ task'[t].head = task[t].head
    PROVE  InFlight' = InFlight /\ \A b \in Blocks : Remembers(b)
<1>1. InFlight' = InFlight
  BY DEF InFlight
<1>2. Grows
  BY SameHeadsGrow DEF IInv
<1>3. \A b : Told(b) => Told(b)'
  BY <1>2, ToldStays DEF IInv
<1>4. \A b : Untried(b) => Untried(b)'
  BY UntriedStays DEF Kept
<1>5. QED
  BY <1>1, <1>3, <1>4, NothingLost

\* A task that ends holds no more than before.
LEMMA EndedHolds ==
    ASSUME IInv, NEW t \in Tasks, NEW outcome \in {"ok", "failed"},
           task'[t] = Ended(t, outcome)
    PROVE  /\ task'[t].pc # "idle" =>
                 /\ t = current /\ task'[t].pc = outcome
                 /\ task'[t].head = task[t].head
           /\ task'[t].parentAlerted =>
                 task'[t].head = task[t].head /\ task[t].parentAlerted
           /\ HeldBy(t)' \subseteq HeldBy(t)
<1>1. CASE t = current
  <2>1. /\ task'[t].pc = outcome /\ task'[t].head = task[t].head
        /\ task'[t].todo = task[t].todo
        /\ task'[t].parentAlerted = task[t].parentAlerted
    BY <1>1, EndedTask DEF IInv, TypeOK
  <2>2. QED
    BY <1>1, <2>1 DEF HeldBy
<1>2. CASE t # current
  <2>1. task'[t] = Idle
    BY <1>2, EndedTask DEF IInv, TypeOK
  <2>2. QED
    BY <2>1, IdleType DEF HeldBy
<1>3. QED
  BY <1>1, <1>2

\* The snapshot takes only events that are on their way.
LEMMA SnapshotChain ==
    ASSUME IInv, ChainInv, NEW t \in Tasks, Snapshot(t)
    PROVE  ChainInv'
<1>1. /\ Kept(t) /\ task'[t].pc = "events" /\ task'[t].head = task[t].head
      /\ task'[t].todo = Range(chainReorgs)
      /\ task'[t].parentAlerted = task[t].parentAlerted
  BY SnapshotTask DEF IInv
<1>2. /\ UNCHANGED <<node, stream, listener, drops, chainReorgs, loop,
                     delivered, misjudged>>
      /\ UNCHANGED <<nodeHead, everHandled, current>>
      /\ task[t].pc = "snapshot"
  BY DEF Snapshot, node, loop, history
<1>3. InFlight' = InFlight /\ \A b \in Blocks : Remembers(b)
  BY <1>1, <1>2, QuietStep
<1>4. HeldBy(t)' \subseteq InFlight
  BY <1>1 DEF HeldBy, InFlight
<1>5. ASSUME Calm PROVE TaskChain(t)'
  <2>1. PICK h : h = task[t].head
    OBVIOUS
  <2>2. TaskChain(t)
    BY <1>5 DEF ChainInv
  <2>3. task'[t].parentAlerted => ParentAlerted(h)'
    BY <1>1, <1>2, <2>1, <2>2 DEF TaskChain, ParentAlerted
  <2>4. QED
    BY <1>1, <1>2, <1>3, <2>1, <2>2, <2>3, OwnTaskChain
<1>6. IInv'
  BY SnapshotStep
<1>7. QED
  BY <1>1, <1>2, <1>3, <1>4, <1>5, <1>6, TaskChainStep

\* The alert of an event about the parent's slot.
LEMMA EventAlertsParent ==
    ASSUME NEW e, Genuine(e), NEW h \in Blocks, e.newHead = Parent[h],
           [slot |-> e.slot, depth |-> e.depth] \in delivered
    PROVE  ParentAlerted(h)
<1> DEFINE alert == [slot |-> e.slot, depth |-> e.depth]
<1>1. "slot" \in DOMAIN alert /\ alert.slot = Slot[Parent[h]]
  BY DEF Genuine
<1>2. QED
  BY <1>1 DEF ParentAlerted

\* An event whose new head and its parent are known tells nothing more: what it
\* names is handled, or accounted for below the parent.
LEMMA KnownIsSettled ==
    ASSUME IInv, HandledLine, NEW t \in Tasks, NEW e, Genuine(e),
           NEW h \in Blocks, h = task[t].head,
           ~HeadOrParentUnknown(t, e), ~KnownByOwnHead(t, e)
    PROVE  Settled(e, h)
<1>1. PICK p : p = Parent[e.newHead]
  OBVIOUS
<1>2. /\ e.newHead \in Blocks /\ e.slot = Slot[e.newHead]
      /\ e.newHead \in Range(handled) \union {h}
      /\ p \in Range(handled) \union {h}
      /\ Range(handled) \subseteq Range(everHandled)
      /\ Range(everHandled) \subseteq Blocks
  <2>1. e.newHead \in Blocks /\ e.slot = Slot[e.newHead]
    BY DEF Genuine, Event
  <2>2. /\ e.newHead \in Range(handled) \union {h}
        /\ p \in Range(handled) \union {h}
    BY <1>1 DEF HeadOrParentUnknown, Known
  <2>3. Range(everHandled) \subseteq Blocks
    BY DEF IInv, TypeOK, Range
  <2>4. QED
    BY <2>1, <2>2, <2>3 DEF IInv, ListsAgree
<1>3. p \in Range(everHandled)
  BY <1>1, <1>2 DEF KnownByOwnHead, Known
<1>4. Started
  <2>1. Range(<<>>) = {}
    BY DEF Range
  <2>2. QED
    BY <1>3, <2>1 DEF Started
<1>5. p \in Blocks /\ p # NoBlock
  BY <1>2, <1>3
<1>6. /\ Ancestors[e.newHead] = Line(p) /\ Slot[p] < e.slot
      /\ Slot[p] \in Nat /\ e.slot \in Nat
  BY <1>1, <1>2, <1>5, ParentLine, LineSlots
<1>7. ASSUME NEW b \in Ancestors[e.newHead], After(b)
      PROVE  AccountedBy(b, e.slot - 1)
  <2>1. CASE b = p
    BY <1>3, <2>1 DEF AccountedBy, Told
  <2>2. CASE b \in Ancestors[p]
    <3>1. AccountedBy(b, Slot[p])
      BY <1>3, <1>7, <2>2 DEF HandledLine
    <3>2. ASSUME NEW f \in InFlight, f.slot <= Slot[p]
          PROVE  f.slot <= e.slot - 1
      <4>1. f.slot \in Nat
        BY <3>2 DEF InFlight, IInv, EventsGenuine, Genuine, Event
      <4>2. QED
        BY <1>6, <3>2, <4>1
    <3>3. QED
      BY <3>1, <3>2 DEF AccountedBy
  <2>3. QED
    BY <1>6, <1>7, <2>1, <2>2 DEF Line
<1>8. QED
  BY <1>2, <1>4, <1>7 DEF Settled

\* An event is deleted unsaid only when it is settled.
LEMMA JudgeChain ==
    ASSUME IInv, ChainInv, NEW t \in Tasks, NEW e \in task[t].todo, Judge(t, e)
    PROVE  ChainInv'
<1> DEFINE alert == [slot |-> e.slot, depth |-> e.depth]
           send == HeadOrParentUnknown(t, e)
<1>1. /\ Kept(t) /\ e \in Event
      /\ task'[t].pc = IF send /\ alert \notin delivered
                         THEN "post_event" ELSE "delete"
      /\ task'[t].head = task[t].head
      /\ task'[t].todo = task[t].todo \ {e}
      /\ task'[t].event = e
      /\ task'[t].parentAlerted =
            (task[t].parentAlerted \/ (send /\ alert \in delivered
                                            /\ NamesParent(t, e)))
  BY JudgeTask DEF IInv
<1>2. /\ UNCHANGED <<node, stream, listener, drops, chainReorgs, loop,
                     delivered>>
      /\ UNCHANGED <<nodeHead, everHandled, current>>
      /\ task[t].pc = "events"
      /\ misjudged' = IF KnownByOwnHead(t, e) THEN misjudged \union {e}
                                              ELSE misjudged
  BY DEF Judge, node, loop
<1>3. InFlight' = InFlight /\ \A b \in Blocks : Remembers(b)
  BY <1>1, <1>2, QuietStep
<1>4. HeldBy(t)' \subseteq HeldBy(t)
  BY <1>1 DEF HeldBy
<1>5. ASSUME Calm PROVE TaskChain(t)'
  <2>1. PICK h : h = task[t].head
    OBVIOUS
  <2>2. TaskChain(t) /\ HandledLine
    BY <1>5 DEF ChainInv
  <2>3. Genuine(e) /\ h \in Blocks
    BY <1>2, <2>1 DEF IInv, TaskSound
  <2>4. task'[t].pc = "delete" => Settled(e, h)'
    <3>1. CASE alert \in delivered
      BY <1>2, <3>1 DEF Settled
    <3>2. CASE KnownByOwnHead(t, e)
      BY <1>2, <3>2 DEF Settled
    <3>3. CASE ~send /\ ~KnownByOwnHead(t, e)
      <4>1. Settled(e, h)
        BY <2>1, <2>2, <2>3, <3>3, KnownIsSettled
      <4>2. Ancestors[e.newHead] \subseteq Blocks
        BY <1>1 DEF Event
      <4>3. Grows /\ \A b : After(b)' = After(b)
        BY <1>2, SameHeadsGrow DEF IInv
      <4>4. QED
        BY <1>1, <1>3, <4>1, <4>2, <4>3, SettledStays DEF IInv
    <3>4. QED
      BY <1>1, <3>1, <3>2, <3>3
  <2>5. task'[t].parentAlerted => ParentAlerted(h)'
    <3>1. CASE task[t].parentAlerted
      BY <1>2, <2>1, <2>2, <3>1 DEF TaskChain, ParentAlerted
    <3>2. CASE alert \in delivered /\ NamesParent(t, e)
      <4>1. ParentAlerted(h)
        BY <2>1, <2>3, <3>2, EventAlertsParent DEF NamesParent
      <4>2. QED
        BY <1>2, <4>1 DEF ParentAlerted
    <3>3. QED
      BY <1>1, <3>1, <3>2
  <2>6. task'[t].pc \notin {"post_head", "ok"}
    BY <1>1
  <2>7. misjudged \subseteq misjudged' /\ delivered \subseteq delivered'
    BY <1>2
  <2>8. QED
    BY <1>1, <1>2, <1>3, <2>1, <2>2, <2>4, <2>5, <2>6, <2>7, OwnTaskChain
<1>6. IInv'
  BY JudgeStep
<1>7. QED
  BY <1>1, <1>2, <1>3, <1>4, <1>5, <1>6, TaskChainStep

\* A posted event is settled.
LEMMA EventPostedChain ==
    ASSUME IInv, ChainInv, NEW t \in Tasks, EventPosted(t)
    PROVE  ChainInv'
<1>1. PICK e : e = task[t].event
  OBVIOUS
<1>2. /\ Kept(t) /\ task'[t].pc = "delete" /\ task'[t].head = task[t].head
      /\ task'[t].todo = task[t].todo /\ task'[t].event = e
      /\ task'[t].parentAlerted =
            (task[t].parentAlerted \/ NamesParent(t, e))
  BY <1>1, EventPostedTask DEF IInv
<1>3. /\ UNCHANGED <<node, stream, listener, drops, chainReorgs, loop,
                     misjudged>>
      /\ UNCHANGED <<nodeHead, everHandled, current>>
      /\ task[t].pc = "post_event"
      /\ delivered' = delivered \union {task[t].alert}
  BY DEF EventPosted, node, loop, history
<1>4. /\ Genuine(e)
      /\ [slot |-> e.slot, depth |-> e.depth] \in delivered'
  BY <1>1, <1>3 DEF IInv, TaskSound
<1>5. InFlight' = InFlight /\ \A b \in Blocks : Remembers(b)
  BY <1>2, <1>3, QuietStep
<1>6. HeldBy(t)' \subseteq HeldBy(t)
  BY <1>1, <1>2, <1>3 DEF HeldBy
<1>7. ASSUME Calm PROVE TaskChain(t)'
  <2>1. PICK h : h = task[t].head
    OBVIOUS
  <2>2. TaskChain(t) /\ h \in Blocks
    BY <1>3, <1>7, <2>1 DEF ChainInv, IInv, TaskSound
  <2>3. Settled(e, h)'
    BY <1>4 DEF Settled
  <2>4. task'[t].parentAlerted => ParentAlerted(h)'
    <3>1. CASE task[t].parentAlerted
      BY <1>3, <2>1, <2>2, <3>1 DEF TaskChain, ParentAlerted
    <3>2. CASE NamesParent(t, e)
      <4>1. e.newHead = Parent[h] /\ e.slot = Slot[Parent[h]]
        BY <1>4, <2>1, <3>2 DEF NamesParent, Genuine
      <4>2. PICK alert : alert = [slot |-> e.slot, depth |-> e.depth]
        OBVIOUS
      <4>3. "slot" \in DOMAIN alert /\ alert.slot = Slot[Parent[h]]
        BY <4>1, <4>2
      <4>4. QED
        BY <1>4, <4>2, <4>3 DEF ParentAlerted
    <3>3. QED
      BY <1>2, <3>1, <3>2
  <2>5. task'[t].pc \notin {"post_head", "ok"}
    BY <1>2
  <2>6. QED
    BY <1>2, <1>3, <1>5, <2>1, <2>2, <2>3, <2>4, <2>5, OwnTaskChain
<1>8. IInv'
  BY EventPostedStep
<1>9. QED
  BY <1>2, <1>3, <1>5, <1>6, <1>7, <1>8, TaskChainStep

\* What a settled event waited to have told is accounted for without it.
LEMMA SettledIsAccounted ==
    ASSUME NEW t \in Tasks, NEW e, Genuine(e), task[t].pc # "idle",
           Settled(e, task[t].head), NEW b \in Blocks, After(b), Awaits(e, b)
    PROVE  AccountedBy(b, e.slot - 1)
<1>1. /\ e.newHead \in Blocks /\ e.slot = Slot[e.newHead]
      /\ e.slot \in Nat /\ e.depth \in Nat /\ Slot[b] \in Nat
  BY DEF Genuine, Event
<1>2. /\ b \in Line(e.newHead) /\ e.slot - e.depth <= Slot[b]
      /\ Slot[b] <= e.slot
      /\ b = e.newHead => Untried(b)
  BY <1>1, LineSlots DEF Awaits
<1>3. CASE [slot |-> e.slot, depth |-> e.depth] \in delivered
  <2>1. Names([slot |-> e.slot, depth |-> e.depth], b)
    BY <1>2 DEF Names
  <2>2. QED
    BY <1>3, <2>1 DEF Reported, Told, AccountedBy
<1>4. CASE e \in misjudged
  BY <1>2, <1>4 DEF Misjudged, Told, AccountedBy
<1>5. CASE /\ e.newHead \in Range(everHandled) \union {task[t].head}
           /\ \A a \in Ancestors[e.newHead] :
                 After(a) => AccountedBy(a, e.slot - 1)
  <2>1. CASE b = e.newHead
    <3>1. b # task[t].head
      BY <1>2, <2>1 DEF Untried
    <3>2. QED
      BY <1>5, <2>1, <3>1 DEF Told, AccountedBy
  <2>2. CASE b \in Ancestors[e.newHead]
    BY <1>5, <2>2
  <2>3. QED
    BY <1>2, <2>1, <2>2 DEF Line
<1>6. QED
  BY <1>3, <1>4, <1>5 DEF Settled

\* Only the event the task has settled is taken from its slot.
LEMMA DeleteLosesOne ==
    ASSUME IInv, EventsApart, NEW t \in Tasks, Delete(t)
    PROVE  /\ InFlight' \subseteq InFlight
           /\ InFlight \subseteq InFlight' \union {task[t].event}
<1> DEFINE s == task[t].event.slot
<1>1. /\ stream' = stream
      /\ chainReorgs' = [r \in DOMAIN chainReorgs \ {s} |-> chainReorgs[r]]
      /\ task[t].pc = "delete"
  BY DEF Delete
<1>2. Range(chainReorgs') \subseteq Range(chainReorgs)
  BY <1>1 DEF Range
<1>3. ASSUME NEW f \in Range(chainReorgs), f \notin Range(chainReorgs')
      PROVE  f = task[t].event
  <2>1. PICK r \in DOMAIN chainReorgs : f = chainReorgs[r]
    BY DEF Range
  <2>2. r = s
    BY <1>1, <1>3, <2>1 DEF Range
  <2>3. f.slot = s
    BY <2>1, <2>2 DEF IInv, TypeOK
  <2>4. task[t].event \in Events /\ f \in Events
    BY <1>1 DEF Events, InFlight, HeldBy
  <2>5. QED
    BY <2>3, <2>4 DEF EventsApart
<1>4. QED
  BY <1>1, <1>2, <1>3 DEF InFlight

\* A deleted event takes nothing away that is not told or named elsewhere.
LEMMA DeleteChain ==
    ASSUME IInv, ChainInv, NEW t \in Tasks, Delete(t)
    PROVE  ChainInv'
<1>1. PICK e : e = task[t].event
  OBVIOUS
<1>2. PICK h : h = task[t].head
  OBVIOUS
<1>3. /\ UNCHANGED <<node, stream, listener, drops, loop, delivered,
                     misjudged>>
      /\ UNCHANGED <<nodeHead, everHandled, current>>
      /\ chainReorgs' =
            [r \in DOMAIN chainReorgs \ {e.slot} |-> chainReorgs[r]]
      /\ task[t].pc = "delete"
  BY <1>1 DEF Delete, node, loop, history
<1>4. Genuine(e) /\ h \in Blocks
  BY <1>1, <1>2, <1>3 DEF IInv, TaskSound
<1>5. /\ Kept(t)
      /\ task'[t].pc # "idle" =>
            /\ task'[t].pc \in {"events", "failed"}
            /\ task'[t].head = h
      /\ task'[t].parentAlerted => task'[t].head = h /\ task[t].parentAlerted
      /\ HeldBy(t)' \subseteq HeldBy(t)
  <2>1. Kept(t) /\ \/ /\ task'[t].pc = "events" /\ task'[t].head = h
                       /\ task'[t].todo = task[t].todo
                       /\ task'[t].parentAlerted = task[t].parentAlerted
                    \/ task'[t] = Ended(t, "failed")
    BY <1>2, DeleteTask DEF IInv
  <2>2. CASE task'[t] = Ended(t, "failed")
    BY <1>2, <2>1, <2>2, EndedHolds
  <2>3. CASE task'[t] # Ended(t, "failed")
    BY <2>1, <2>3 DEF HeldBy
  <2>4. QED
    BY <2>2, <2>3
<1>6. InFlight' \subseteq InFlight
  <2>1. Range(chainReorgs') \subseteq Range(chainReorgs)
    BY <1>3 DEF Range
  <2>2. QED
    BY <1>3, <2>1 DEF InFlight
<1>7. ASSUME Calm, NEW b \in Blocks, After(b) PROVE Remembers(b)
  <2>1. Settled(e, h) /\ EventsApart
    BY <1>1, <1>2, <1>3, <1>7 DEF ChainInv, TaskChain
  <2>2. InFlight \subseteq InFlight' \union {e}
    BY <1>1, <2>1, DeleteLosesOne
  <2>3. Told(b) => Told(b)'
    BY <1>3, SameHeadsGrow, ToldStays DEF IInv
  <2>4. Untried(b) => Untried(b)'
    BY <1>2, <1>3, <1>5, UntriedStays DEF Kept
  <2>5. ASSUME NEW f, Awaits(f, b) PROVE Awaits(f, b)'
    BY <2>4, <2>5 DEF Awaits
  <2>6. e.slot \in Nat /\ \A f \in InFlight : f.slot \in Nat
    BY <1>4 DEF InFlight, IInv, EventsGenuine, Genuine, Event
  <2>7. ASSUME NEW s \in Int, AccountedBy(b, s) PROVE AccountedBy(b, s)'
    <3>1. CASE Told(b)
      BY <2>3, <3>1 DEF AccountedBy
    <3>2. CASE \E f \in InFlight : f # e /\ f.slot <= s /\ Awaits(f, b)
      BY <2>2, <2>5, <3>2 DEF AccountedBy
    <3>3. CASE Awaits(e, b) /\ e.slot <= s
      <4>1. AccountedBy(b, e.slot - 1)
        BY <1>2, <1>3, <1>4, <1>7, <2>1, <3>3, SettledIsAccounted
      <4>2. ASSUME NEW f \in InFlight, f.slot <= e.slot - 1
            PROVE  f # e /\ f.slot <= s
        BY <2>6, <3>3, <4>2
      <4>3. QED
        BY <2>2, <2>3, <2>5, <4>1, <4>2 DEF AccountedBy
    <3>4. QED
      BY <2>7, <3>1, <3>2, <3>3 DEF AccountedBy
  <2>8. ASSUME Accounted(b) PROVE Accounted(b)'
    <3>1. CASE Told(b)
      BY <2>3, <3>1 DEF Accounted
    <3>2. CASE \E f \in InFlight : Awaits(f, b)
      <4>1. PICK f \in InFlight : Awaits(f, b)
        BY <3>2
      <4>2. AccountedBy(b, f.slot) /\ f.slot \in Int
        BY <2>6, <4>1 DEF AccountedBy
      <4>3. AccountedBy(b, f.slot)'
        BY <2>7, <4>2
      <4>4. QED
        BY <4>3 DEF Accounted, AccountedBy
    <3>3. QED
      BY <2>8, <3>1, <3>2 DEF Accounted
  <2>9. QED
    BY <2>7, <2>8 DEF Remembers
<1>8. ASSUME Calm PROVE TaskChain(t)'
  <2>1. TaskChain(t)
    BY <1>8 DEF ChainInv
  <2>2. task'[t].parentAlerted => task'[t].head = h /\ ParentAlerted(h)'
    BY <1>2, <1>3, <1>5, <2>1 DEF TaskChain, ParentAlerted
  <2>3. task'[t].pc \notin {"delete", "post_head", "ok"}
    BY <1>5
  <2>4. QED
    BY <1>2, <1>3, <1>5, <1>7, <1>8, <2>1, <2>2, <2>3, OwnTaskChain
<1>9. IInv'
  BY DeleteStep
<1>10. QED
  BY <1>2, <1>3, <1>5, <1>6, <1>7, <1>8, <1>9, TaskChainStep

\* The alert about a head's parent reaches back to the head handled last.
LEMMA HeadAlertReaches ==
    ASSUME IInv, NEW t \in Tasks, NEW h \in Blocks, h = task[t].head, Started
    PROVE  Reaches(HeadAlert(t), h)
<1>1. /\ NewestHandled = LastHandled /\ LastHandled \in Blocks
  <2>1. handled # <<>> /\ handled \in Seq(Blocks)
    BY DEF IInv, ListsAgree, TypeOK, Started
  <2>2. Len(handled) \in 1 .. Len(handled)
    BY <2>1
  <2>3. LastHandled \in Blocks
    BY <2>1, <2>2 DEF LastHandled
  <2>4. QED
    BY <2>1, <2>3 DEF IInv, ListsAgree, NewestHandled
<1> DEFINE diff == Slot[h] - Slot[LastHandled] - 2
           before == IF diff > 0 THEN diff ELSE 0
<1>2. HeadAlert(t) = [block |-> Parent[h], before |-> before]
  BY DEF HeadAlert
<1>3. ASSUME NEW b \in Ancestors[h], Slot[b] > Slot[LastHandled]
      PROVE  Names(HeadAlert(t), b)
  <2>1. /\ Parent[h] \in Blocks /\ Parent[h] # NoBlock
        /\ b \in Line(Parent[h]) /\ Slot[Parent[h]] < Slot[h]
    BY <1>3, ParentLine
  <2>2. /\ Slot[b] \in Nat /\ Slot[b] <= Slot[Parent[h]]
        /\ Slot[h] \in Nat /\ Slot[LastHandled] \in Nat
        /\ Slot[Parent[h]] \in Nat
    BY <1>1, <2>1, LineSlots
  <2>3. Slot[Parent[h]] - before <= Slot[b]
    BY <1>3, <2>1, <2>2
  <2> HIDE DEF before
  <2>4. QED
    BY <1>2, <2>1, <2>2, <2>3 DEF Names
<1>4. QED
  BY <1>1, <1>3 DEF Reaches

\* The task ends well only when the parent of its head was looked after.
LEMMA CheckParentChain ==
    ASSUME IInv, ChainInv, NEW t \in Tasks, CheckParent(t)
    PROVE  ChainInv'
<1>1. PICK h : h = task[t].head
  OBVIOUS
<1>2. PICK alert : alert = HeadAlert(t)
  OBVIOUS
<1>3. /\ UNCHANGED <<node, stream, listener, drops, chainReorgs, loop,
                     delivered, misjudged>>
      /\ UNCHANGED <<nodeHead, everHandled, current>>
      /\ task[t].pc = "events"
  BY DEF CheckParent, node, loop, history
<1>4. h \in Blocks
  BY <1>1, <1>3 DEF IInv, TaskSound
<1>5. /\ Kept(t)
      /\ ParentUnreported(t) =>
            /\ task'[t].pc = "post_head" /\ task'[t].head = h
            /\ task'[t].todo = {} /\ task'[t].alert = alert
            /\ task'[t].parentAlerted = task[t].parentAlerted
      /\ ~ParentUnreported(t) => task'[t] = Ended(t, "ok")
  BY <1>1, <1>2, <1>4, CheckParentTask DEF IInv
<1>6. /\ task'[t].pc # "idle" =>
            task'[t].pc \in {"post_head", "ok"} /\ task'[t].head = h
      /\ task'[t].parentAlerted => task'[t].head = h /\ task[t].parentAlerted
      /\ HeldBy(t)' \subseteq HeldBy(t)
  <2>1. CASE ParentUnreported(t)
    BY <1>5, <2>1 DEF HeldBy
  <2>2. CASE ~ParentUnreported(t)
    BY <1>1, <1>5, <2>2, EndedHolds
  <2>3. QED
    BY <2>1, <2>2
<1>7. InFlight' = InFlight /\ \A b \in Blocks : Remembers(b)
  BY <1>1, <1>3, <1>5, <1>6, QuietStep
<1>8. Started => Reaches(alert, h)
  BY <1>1, <1>2, <1>4, HeadAlertReaches
<1>9. ASSUME TaskChain(t), task'[t].pc = "ok", Started PROVE ParentSeen(h)
  <2>1. ~ParentUnreported(t) /\ handled # <<>>
    BY <1>5, <1>9 DEF IInv, ListsAgree, Started
  <2>2. CASE task[t].parentAlerted
    BY <1>1, <1>9, <2>2 DEF TaskChain, ParentSeen
  <2>3. CASE Known(t, Parent[h])
    <3>1. Parent[h] # NoBlock => Parent[h] # h
      BY <1>4, ParentLine
    <3>2. QED
      BY <1>1, <2>3, <3>1 DEF Known, ParentSeen, IInv, ListsAgree
  <2>4. CASE HeadAlert(t) \in delivered
    BY <1>2, <1>8, <1>9, <2>4 DEF ParentSeen
  <2>5. QED
    BY <1>1, <2>1, <2>2, <2>3, <2>4 DEF ParentUnreported
<1>10. ASSUME Calm PROVE TaskChain(t)'
  <2>1. TaskChain(t)
    BY <1>10 DEF ChainInv
  <2>2. task'[t].parentAlerted => task'[t].head = h /\ ParentAlerted(h)'
    BY <1>1, <1>3, <1>6, <2>1 DEF TaskChain, ParentAlerted
  <2>3. task'[t].pc = "post_head" => task'[t].alert = alert
    <3>1. Ended(t, "ok").pc # "post_head"
      BY EndedTask, IdleType DEF IInv, TypeOK
    <3>2. QED
      BY <1>5, <3>1
  <2>4. task'[t].pc = "ok" /\ Started => ParentSeen(h)'
    BY <1>3, <1>9, <2>1 DEF ParentSeen, ParentAlerted, Reaches, NewestHandled
  <2>5. task'[t].pc # "delete"
    BY <1>6
  <2>6. QED
    BY <1>1, <1>3, <1>6, <1>7, <1>8, <2>1, <2>2, <2>3, <2>4, <2>5,
       OwnTaskChain
<1>11. IInv'
  BY CheckParentStep
<1>12. QED
  BY <1>1, <1>3, <1>5, <1>6, <1>7, <1>10, <1>11, TaskChainStep

\* A POST that ends the task.
LEMMA PostChain ==
    ASSUME IInv, ChainInv, NEW t \in Tasks, HeadPosted(t) \/ PostFails(t)
    PROVE  ChainInv'
<1>1. PICK h : h = task[t].head
  OBVIOUS
<1>2. PICK alert : alert = task[t].alert
  OBVIOUS
<1>3. /\ UNCHANGED <<node, stream, listener, drops, chainReorgs, loop,
                     misjudged>>
      /\ UNCHANGED <<nodeHead, everHandled, current>>
      /\ delivered \subseteq delivered' /\ task[t].pc # "idle"
  BY DEF HeadPosted, PostFails, node, loop, history
<1>4. PICK outcome \in {"ok", "failed"} :
           /\ task'[t] = Ended(t, outcome)
           /\ outcome = "ok" =>
                 task[t].pc = "post_head" /\ alert \in delivered'
  BY <1>2, PostTask DEF IInv, HeadPosted
<1>5. /\ Kept(t)
      /\ task'[t].pc # "idle" =>
            task'[t].pc = outcome /\ task'[t].head = h /\ t = current
      /\ task'[t].parentAlerted => task'[t].head = h /\ task[t].parentAlerted
      /\ HeldBy(t)' \subseteq HeldBy(t)
  BY <1>1, <1>4, PostTask, EndedHolds DEF IInv
<1>6. InFlight' = InFlight /\ \A b \in Blocks : Remembers(b)
  BY <1>1, <1>3, <1>5, QuietStep
<1>7. ASSUME Calm PROVE TaskChain(t)'
  <2>1. TaskChain(t)
    BY <1>7 DEF ChainInv
  <2>2. task'[t].parentAlerted => task'[t].head = h /\ ParentAlerted(h)'
    BY <1>1, <1>3, <1>5, <2>1 DEF TaskChain, ParentAlerted
  <2>3. task'[t].pc = "ok" /\ Started => ParentSeen(h)'
    <3>1. ASSUME task'[t].pc = "ok", Started PROVE Reaches(alert, h)
      BY <1>1, <1>2, <1>3, <1>4, <1>5, <2>1, <3>1 DEF TaskChain
    <3>2. Reaches(alert, h) => Reaches(alert, h)'
      BY <1>3 DEF Reaches, NewestHandled
    <3>3. QED
      BY <1>4, <1>5, <3>1, <3>2 DEF ParentSeen
  <2>4. task'[t].pc \notin {"delete", "post_head"}
    BY <1>5
  <2>5. QED
    BY <1>1, <1>3, <1>5, <1>6, <2>1, <2>2, <2>3, <2>4, OwnTaskChain
<1>8. IInv'
  BY HeadPostedStep, PostFailsStep
<1>9. QED
  BY <1>1, <1>3, <1>5, <1>6, <1>7, <1>8, TaskChainStep

-----------------------------------------------------------------------------
(* The steps of the loop, the listener and the node.                       *)

\* An event that is stored over another replaces one of the same slot: itself.
LEMMA StoredIsKept ==
    ASSUME IInv, EventsApart, ListenerStores
    PROVE  InFlight' = InFlight
<1> DEFINE e == Head(stream)
<1>1. /\ stream # <<>> /\ stream \in Seq(Event)
      /\ stream' = Tail(stream) /\ chainReorgs' = Stored(chainReorgs, e)
  BY DEF ListenerStores, IInv, TypeOK
<1>2. /\ e \in Range(stream) /\ Range(stream') \subseteq Range(stream)
      /\ Range(stream) \subseteq Range(stream') \union {e}
  BY <1>1, RangeTail
<1>3. Range(chainReorgs') \subseteq Range(chainReorgs) \union {e}
  BY <1>1 DEF Stored, Range
<1>4. e \in Range(chainReorgs')
  BY <1>1 DEF Stored, Range
<1>5. ASSUME NEW f \in Range(chainReorgs), f # e
      PROVE  f \in Range(chainReorgs')
  <2>1. PICK s \in DOMAIN chainReorgs : f = chainReorgs[s]
    BY DEF Range
  <2>2. f.slot = s
    BY <2>1 DEF IInv, TypeOK
  <2>3. f \in Events /\ e \in Events
    BY <1>2 DEF Events, InFlight
  <2>4. s # e.slot
    BY <1>5, <2>2, <2>3 DEF EventsApart
  <2>5. QED
    BY <1>1, <2>1, <2>4 DEF Stored, Range
<1>6. QED
  BY <1>2, <1>3, <1>4, <1>5 DEF InFlight

\* The listener reads, dies or is started: a broken stream ends the calm.
LEMMA ListenerChain ==
    ASSUME IInv, ChainInv,
           Subscribe \/ ListenerStores \/ ListenerDies \/ PollNothing
    PROVE  ChainInv'
<1>1. UNCHANGED <<nodeHead, reorgSlots, unheard, everHandled, current, task,
                  delivered, misjudged>>
  BY DEF Subscribe, ListenerStores, ListenerDies, PollNothing, node, loop,
         history
<1>2. IInv'
  BY ListenerStep
<1>3. CASE ListenerDies
  <2>1. ~Calm'
    <3>1. drops \in Nat /\ drops' = drops + 1
      BY <1>3 DEF ListenerDies, IInv, TypeOK
    <3>2. QED
      BY <3>1 DEF Calm
  <2>2. SlotsBelow'
    BY <1>1 DEF ChainInv, SlotsBelow
  <2>3. QED
    BY <2>1, <2>2 DEF ChainInv
<1>4. CASE ListenerStores \/ PollNothing \/ Subscribe
  <2>1. drops' = drops /\ (listener # "dead" => listener' # "dead")
    BY <1>4 DEF ListenerStores, PollNothing, Listen, Subscribe
  <2>2. Calm => InFlight' = InFlight
    <3>1. CASE PollNothing \/ Subscribe
      BY <3>1 DEF PollNothing, Subscribe, InFlight
    <3>2. CASE ListenerStores
      BY <3>2, StoredIsKept DEF ChainInv
    <3>3. QED
      BY <1>4, <3>1, <3>2
  <2>3. \A o \in Tasks : HeldBy(o)' = HeldBy(o)
    BY <1>1 DEF HeldBy
  <2>4. Calm => Events' \subseteq Events
    BY <2>2, <2>3 DEF Events
  <2>5. ASSUME Calm, NEW b \in Blocks PROVE Remembers(b)
    <3>1. Told(b) => Told(b)'
      BY <1>1, SameHeadsGrow, ToldStays DEF IInv
    <3>2. Untried(b) => Untried(b)'
      BY <1>1, UntriedStays
    <3>3. QED
      BY <2>2, <2>5, <3>1, <3>2, NothingLost
  <2>6. ASSUME Calm, NEW o \in Tasks PROVE TaskChain(o)'
    BY <1>1, <2>5, <2>6, OtherTaskChain DEF ChainInv
  <2>7. QED
    BY <1>1, <1>2, <2>1, <2>4, <2>5, <2>6, SameHeadsStep
<1>5. QED
  BY <1>3, <1>4

\* A task that is idle owes nothing.
LEMMA IdleChain ==
    ASSUME NEW o \in Tasks, task'[o] = Idle
    PROVE  TaskChain(o)'
BY IdleType DEF TaskChain

\* A task given up keeps what it holds, and is not the loop's any more.
LEMMA RaiseChain ==
    ASSUME IInv, ChainInv, Raise \/ OtherRaises
    PROVE  ChainInv'
<1>1. /\ UNCHANGED <<nodeHead, reorgSlots, unheard, everHandled, drops,
                     listener, stream, chainReorgs, delivered, misjudged>>
      /\ current' = NoTask
  BY DEF Raise, OtherRaises, node, loop, history
<1>2. /\ current \in Tasks /\ current # NoTask
      /\ \A o \in Tasks : task'[o] = task[o] \/ task'[o] = Idle
  BY LoopTask DEF Kept, IInv
<1>3. /\ \A o \in Tasks : task'[o].pc # "idle" => task'[o] = task[o]
      /\ \A o \in Tasks : HeldBy(o)' \subseteq HeldBy(o)
  <2>1. ASSUME NEW o \in Tasks, task'[o] = Idle
        PROVE  task'[o].pc = "idle" /\ HeldBy(o)' = {}
    BY <2>1, IdleType DEF HeldBy
  <2>2. ASSUME NEW o \in Tasks, task'[o] = task[o] PROVE HeldBy(o)' = HeldBy(o)
    BY <2>2 DEF HeldBy
  <2>3. QED
    BY <1>2, <2>1, <2>2
<1>4. InFlight' = InFlight /\ Events' \subseteq Events
  BY <1>1, <1>3 DEF InFlight, Events
<1>5. ASSUME NEW b \in Blocks PROVE Remembers(b)
  <2>1. Told(b) => Told(b)'
    BY <1>1, SameHeadsGrow, ToldStays DEF IInv
  <2>2. Untried(b) => Untried(b)'
    BY <1>3, UntriedStays
  <2>3. QED
    BY <1>4, <2>1, <2>2, NothingLost
<1>6. ASSUME Calm, NEW o \in Tasks PROVE TaskChain(o)'
  <2>1. CASE task'[o] = Idle
    BY <2>1, IdleChain
  <2>2. CASE task'[o] = task[o]
    <3>1. o # current'
      BY <1>1
    <3>2. QED
      BY <1>1, <1>5, <1>6, <2>2, <3>1, OtherTaskChain DEF ChainInv
  <2>3. QED
    BY <1>2, <2>1, <2>2
<1>7. IInv'
  BY LoopStep
<1>8. QED
  BY <1>1, <1>2, <1>3, <1>4, <1>5, <1>6, <1>7, SameHeadsStep

\* The loop takes up the node's head.  No line that is to be accounted for has
\* got as far as this head, so nothing relied on an event about it.
LEMMA PollChain ==
    ASSUME IInv, ChainInv, NEW t \in Tasks, Poll(t)
    PROVE  ChainInv'
<1>1. /\ UNCHANGED <<nodeHead, reorgSlots, unheard, everHandled, handled, drops,
                     stream, chainReorgs, delivered, misjudged>>
      /\ listener' # "dead" /\ current = NoTask /\ current' = t
      /\ IsNewHead
  BY DEF Poll, Listen, node, history
<1>2. /\ Kept(t) /\ task'[t].pc = "snapshot" /\ task'[t].head = nodeHead
      /\ task'[t].todo = {} /\ task'[t].parentAlerted = FALSE
  BY PollTask DEF IInv
<1>3. /\ Grows /\ Started' = Started /\ NewestHandled' = NewestHandled
      /\ \A b : After(b)' = After(b)
  BY <1>1, SameHeadsGrow DEF IInv
<1>4. /\ nodeHead \in Blocks /\ Slot[nodeHead] \in Nat
      /\ Range(everHandled) \subseteq Blocks
  BY DEF IInv, TypeOK, Range
<1>5. SlotsBelow
  BY DEF ChainInv
<1>6. SlotsBelow'
  <2>1. ASSUME NEW o \in Tasks, task'[o].pc # "idle"
        PROVE  /\ Slot[task'[o].head] <= Slot[nodeHead]
               /\ task'[o].head # nodeHead
                     /\ Slot[task'[o].head] = Slot[nodeHead] =>
                     Slot[nodeHead] \in Range(reorgSlots)
    <3>1. CASE o = t
      BY <1>2, <1>4, <3>1
    <3>2. CASE o # t
      BY <1>2, <1>5, <2>1, <3>2 DEF SlotsBelow, Kept
    <3>3. QED
      BY <3>1, <3>2
  <2>2. QED
    BY <1>1, <1>5, <2>1 DEF SlotsBelow
<1>7. InFlight' = InFlight /\ Events' \subseteq Events
  <2>1. HeldBy(t)' = {} /\ \A o \in Tasks : o # t => HeldBy(o)' = HeldBy(o)
    BY <1>2 DEF HeldBy, Kept
  <2>2. QED
    BY <1>1, <2>1 DEF InFlight, Events
<1>8. Calm' = Calm
  BY <1>1 DEF Calm, IsInjective
<1>9. ASSUME NEW b, b # nodeHead PROVE Remembers(b)
  <2>1. Told(b) => Told(b)'
    BY <1>3, ToldStays DEF IInv
  <2>2. Untried(b) => Untried(b)'
    BY <1>2, <1>9 DEF Untried, Kept
  <2>3. QED
    BY <1>7, <2>1, <2>2, NothingLost
<1>10. ASSUME Calm
       PROVE  /\ EventsApart' /\ Listens' /\ HandledLine' /\ NodeLine'
              /\ \A o \in Tasks : TaskChain(o)'
  <2>1. /\ EventsApart /\ Listens /\ HandledLine /\ NodeLine
        /\ \A o \in Tasks : TaskChain(o)
    BY <1>10 DEF ChainInv
  <2>2. EventsApart'
    BY <1>1, <1>7, <2>1 DEF EventsApart
  <2>3. Listens'
    BY <1>1 DEF Listens
  <2>4. HandledLine'
    <3>1. ASSUME NEW h \in Range(everHandled), NEW b \in Ancestors[h], After(b)
          PROVE  AccountedBy(b, Slot[h])'
      <4>1. h \in Blocks /\ Slot[h] <= Slot[nodeHead] /\ Slot[h] \in Int
        BY <1>4, <1>5 DEF SlotsBelow
      <4>2. b # nodeHead
        BY <1>4, <4>1, LineSlots
      <4>3. AccountedBy(b, Slot[h])
        BY <2>1, <3>1 DEF HandledLine
      <4>4. QED
        BY <1>9, <4>1, <4>2, <4>3 DEF Remembers
    <3>2. QED
      BY <1>1, <1>3, <3>1 DEF HandledLine
  <2>5. ASSUME NEW b \in Line(nodeHead), After(b),
               Slot[b] <= Slot[NewestHandled]
        PROVE  Accounted(b)'
    <3>1. /\ handled # <<>> /\ LastHandled = NewestHandled
          /\ NewestHandled \in Range(everHandled)
      <4>1. everHandled # <<>> /\ everHandled \in Seq(Blocks)
        BY <2>5 DEF After, Started, IInv, TypeOK
      <4>2. Len(everHandled) \in DOMAIN everHandled
        BY <4>1
      <4>3. NewestHandled \in Range(everHandled)
        BY <4>2 DEF NewestHandled, Range
      <4>4. QED
        BY <4>1, <4>3 DEF NewestHandled, IInv, ListsAgree
    <3>2. /\ Slot[NewestHandled] # Slot[nodeHead]
          /\ Slot[NewestHandled] <= Slot[nodeHead]
          /\ Slot[NewestHandled] \in Nat
      BY <1>1, <1>4, <1>5, <3>1 DEF IsNewHead, SlotsBelow
    <3>3. b # nodeHead
      BY <1>4, <2>5, <3>2
    <3>4. Accounted(b)
      BY <2>1, <2>5 DEF NodeLine
    <3>5. QED
      BY <1>9, <3>3, <3>4 DEF Remembers
  <2>6. NodeLine'
    BY <1>1, <1>3, <2>5 DEF NodeLine
  <2>7. TaskChain(t)'
    <3>1. PICK h : h = nodeHead
      OBVIOUS
    <3>2. ASSUME NEW b \in Ancestors[h], After(b),
                 Slot[b] <= Slot[NewestHandled]
          PROVE  AccountedBy(b, Slot[h])'
      <4>1. Accounted(b)'
        BY <2>5, <3>1, <3>2 DEF Line
      <4>2. \A f \in InFlight' : f.slot <= Slot[h]
        BY <1>5, <1>7, <2>1, <3>1 DEF EventsApart, Events, SlotsBelow
      <4>3. QED
        BY <4>1, <4>2 DEF Accounted, AccountedBy
    <3>3. HeadLine(h)'
      BY <1>1, <1>3, <3>1, <3>2 DEF HeadLine
    <3>4. QED
      BY <1>2, <3>1, <3>3 DEF TaskChain
  <2>8. ASSUME NEW o \in Tasks, o # t PROVE TaskChain(o)'
    <3>1. PICK h : h = task[o].head
      OBVIOUS
    <3>2. PICK e : e = task[o].event
      OBVIOUS
    <3>3. task'[o] = task[o] /\ o # current'
      BY <1>1, <1>2, <2>8 DEF Kept
    <3>4. task[o].parentAlerted => ParentAlerted(h)'
      BY <1>1, <2>1, <3>1 DEF TaskChain, ParentAlerted
    <3>5. ASSUME task[o].pc = "delete" PROVE Settled(e, h)'
      <4>1. Settled(e, h) /\ Genuine(e) /\ e \in Events
        <5>1. Settled(e, h)
          BY <2>1, <3>1, <3>2, <3>5 DEF TaskChain
        <5>2. Genuine(e)
          BY <3>2, <3>5 DEF IInv, TaskSound
        <5>3. e \in HeldBy(o)
          BY <3>2, <3>5 DEF HeldBy
        <5>4. QED
          BY <5>1, <5>2, <5>3 DEF Events
      <4>2. /\ e \in Event /\ e.newHead \in Blocks
            /\ Slot[e.newHead] <= Slot[nodeHead]
        BY <1>5, <2>1, <4>1 DEF Genuine, Event, EventsApart, SlotsBelow
      <4>3. \A b \in Ancestors[e.newHead] : b # nodeHead
        BY <1>4, <4>2, LineSlots
      <4>4. QED
        BY <1>3, <1>9, <4>1, <4>2, <4>3, SettledStays DEF IInv
    <3>6. QED
      BY <3>1, <3>2, <3>3, <3>4, <3>5 DEF TaskChain
  <2>9. QED
    BY <2>2, <2>3, <2>4, <2>6, <2>7, <2>8
<1>11. QED
  BY <1>6, <1>8, <1>10 DEF ChainInv

\* What a task that ended well adds to the list of handled heads: what its head
\* owes is accounted for.
LEMMA NewLine ==
    ASSUME IInv, HandledLine, Started, NEW h \in Blocks, HeadLine(h),
           ParentSeen(h), everHandled' = Append(everHandled, h),
           delivered' = delivered,
           \A b \in Blocks : Remembers(b),
           NEW b \in Ancestors[h], After(b)
    PROVE  AccountedBy(b, Slot[h])'
<1>1. /\ everHandled \in Seq(Blocks) /\ Len(everHandled) \in Nat \ {0}
      /\ NewestHandled \in Blocks
  <2>1. everHandled \in Seq(Blocks) /\ everHandled # <<>>
    BY DEF IInv, TypeOK, Started
  <2>2. Len(everHandled) \in Nat \ {0}
    BY <2>1
  <2>3. QED
    BY <2>1, <2>2 DEF NewestHandled
<1>2. /\ b \in Blocks /\ Slot[b] \in Nat /\ Slot[h] \in Nat
      /\ Slot[NewestHandled] \in Nat
  BY <1>1, LineSlots
<1>3. AccountedBy(b, Slot[h]) => AccountedBy(b, Slot[h])'
  BY <1>2 DEF Remembers
<1>4. CASE Slot[b] <= Slot[NewestHandled]
  BY <1>3, <1>4 DEF HeadLine
<1>5. PICK p : p = Parent[h]
  OBVIOUS
<1>6. p \in Blocks /\ p # NoBlock /\ b \in Line(p) /\ Slot[p] < Slot[h]
  BY <1>5, ParentLine
<1>7. Slot[p] \in Nat /\ Slot[b] <= Slot[p]
  BY <1>6, LineSlots
<1>8. CASE p \in Range(everHandled)
  <2>1. CASE b = p
    BY <1>3, <1>8, <2>1 DEF Told, AccountedBy
  <2>2. CASE b \in Ancestors[p]
    <3>1. AccountedBy(b, Slot[p])
      BY <1>8, <2>2 DEF HandledLine
    <3>2. \A f \in InFlight : f.slot \in Nat
      BY DEF InFlight, IInv, EventsGenuine, Genuine, Event
    <3>3. \A f \in InFlight : f.slot <= Slot[p] => f.slot <= Slot[h]
      BY <1>2, <1>6, <1>7, <3>2
    <3>4. AccountedBy(b, Slot[h])
      BY <3>1, <3>3 DEF AccountedBy
    <3>5. QED
      BY <1>3, <3>4
  <2>3. QED
    BY <1>6, <2>1, <2>2 DEF Line
<1>9. CASE ParentAlerted(h) /\ Slot[b] > Slot[NewestHandled]
  <2>1. PICK alert \in delivered :
             "slot" \in DOMAIN alert /\ alert.slot = Slot[p]
    BY <1>5, <1>9 DEF ParentAlerted
  <2>2. alert.slot \in Nat /\ alert.depth \in Nat
    <3>1. alert \in Alert
      BY <2>1 DEF IInv, TypeOK
    <3>2. ASSUME alert \in [block : Blocks \union {NoBlock}, before : Int]
          PROVE  FALSE
      <4>1. DOMAIN alert = {"block", "before"}
        BY <3>2
      <4>2. "slot" \in {"block", "before"}
        BY <2>1, <4>1
      <4>3. QED
        BY <4>2
    <3>3. alert \in [slot : Nat, depth : Nat]
      BY <2>1, <3>1, <3>2 DEF Alert
    <3>4. QED
      BY <3>3
  <2>3. CASE alert.slot - alert.depth <= Slot[b]
    <3>1. Names(alert, b)
      BY <1>7, <2>1, <2>3 DEF Names
    <3>2. QED
      BY <1>3, <3>1 DEF Reported, Told, AccountedBy
  <2>4. CASE Slot[b] < alert.slot - alert.depth
    <3>1. PICK i : i = Len(everHandled) + 1
      OBVIOUS
    <3>2. /\ i \in 2 .. Len(everHandled') /\ everHandled'[i] = h
          /\ everHandled'[i - 1] = NewestHandled
      BY <1>1, <3>1 DEF NewestHandled
    <3>3. Hidden(b)'
      BY <1>5, <1>9, <2>1, <2>4, <3>2 DEF Hidden
    <3>4. QED
      BY <3>3 DEF Told, AccountedBy
  <2>5. QED
    BY <1>2, <2>2, <2>3, <2>4
<1>10. CASE \E alert \in delivered : Reaches(alert, h)
  <2>1. CASE Slot[b] > Slot[NewestHandled]
    BY <1>3, <1>10, <2>1 DEF Reaches, Reported, Told, AccountedBy
  <2>2. QED
    BY <1>2, <1>4, <2>1
<1>11. QED
  BY <1>2, <1>4, <1>5, <1>6, <1>8, <1>9, <1>10 DEF ParentSeen

\* The head is recorded, and what it owes moves from its task to the list.
LEMMA CompleteChain ==
    ASSUME IInv, ChainInv, Complete
    PROVE  ChainInv'
<1>1. PICK h : h = task[current].head
  OBVIOUS
<1>2. /\ UNCHANGED <<nodeHead, reorgSlots, unheard, drops, listener, stream,
                     chainReorgs, delivered, misjudged>>
      /\ current' = NoTask /\ current # NoTask /\ task[current].pc = "ok"
      /\ everHandled' = Append(everHandled, h)
  BY <1>1 DEF Complete, node, history
<1>3. /\ current \in Tasks /\ task'[current] = Idle
      /\ \A o \in Tasks : o # current => task'[o] = task[o]
      /\ h \in Blocks
  BY <1>1, <1>2, LoopTask DEF Kept, OtherRaises, Complete, IInv, TaskSound,
                              Running
<1>4. /\ everHandled \in Seq(Blocks) /\ Len(everHandled) \in Nat
      /\ everHandled' \in Seq(Blocks)
      /\ Len(everHandled') = Len(everHandled) + 1
      /\ Range(everHandled') = Range(everHandled) \union {h}
      /\ everHandled'[Len(everHandled) + 1] = h /\ everHandled' # <<>>
      /\ \A i \in 1 .. Len(everHandled) : everHandled'[i] = everHandled[i]
  <2>1. everHandled \in Seq(Blocks) /\ h \in Blocks
    BY <1>3 DEF IInv, TypeOK
  <2>2. QED
    BY <1>2, <2>1, RangeAppend
<1>5. Grows /\ Started' /\ NewestHandled' = h
  BY <1>2, <1>4 DEF Grows, Started, NewestHandled
<1>6. IF Started THEN \A b : After(b)' = After(b)
                 ELSE /\ Range(everHandled') = {h}
                      /\ \A b : After(b)' => Slot[b] > Slot[h]
  <2>1. CASE Started
    <3>1. Len(everHandled) # 0
      BY <1>4, <2>1, EmptySeq DEF Started
    <3>2. everHandled'[1] = everHandled[1]
      BY <1>4, <3>1
    <3>3. QED
      BY <1>5, <2>1, <3>2 DEF After
  <2>2. CASE ~Started
    <3>1. everHandled = <<>> /\ Len(<<>>) = 0 /\ Range(<<>>) = {}
      BY <2>2 DEF Started, Range
    <3>2. Range(everHandled') = {h} /\ everHandled'[1] = h
      BY <1>4, <3>1
    <3>3. QED
      BY <2>2, <3>2 DEF After
  <2>3. QED
    BY <2>1, <2>2
<1>7. /\ \A o \in Tasks : task'[o].pc # "idle" => task'[o] = task[o]
      /\ \A o \in Tasks : HeldBy(o)' \subseteq HeldBy(o)
  <2>1. task'[current].pc = "idle"
    BY <1>3, IdleType
  <2>2. ASSUME NEW o \in Tasks, o # current PROVE HeldBy(o)' = HeldBy(o)
    BY <1>3, <2>2 DEF HeldBy
  <2>3. ASSUME NEW o \in Tasks PROVE HeldBy(o)' \subseteq HeldBy(o)
    <3>1. PICK c : c = current
      OBVIOUS
    <3>2. HeldBy(c)' = {}
      BY <1>3, <3>1, IdleType DEF HeldBy
    <3>3. QED
      BY <2>2, <3>1, <3>2
  <2>4. QED
    BY <1>3, <2>1, <2>3
<1>8. InFlight' = InFlight /\ Events' \subseteq Events
  BY <1>2, <1>7 DEF InFlight, Events
<1>9. ASSUME NEW b \in Blocks PROVE Remembers(b)
  <2>1. Told(b) => Told(b)'
    BY <1>5, ToldStays DEF IInv
  <2>2. Untried(b) => Untried(b)'
    BY <1>7, UntriedStays
  <2>3. QED
    BY <1>8, <2>1, <2>2, NothingLost
<1>10. SlotsBelow'
  <2>1. SlotsBelow /\ Slot[h] <= Slot[nodeHead]
    BY <1>1, <1>2, <1>3 DEF ChainInv, SlotsBelow
  <2>2. QED
    BY <1>2, <1>4, <1>7, <2>1 DEF SlotsBelow
<1>11. Calm' = Calm
  BY <1>2 DEF Calm, IsInjective
<1>12. ASSUME Calm
       PROVE  /\ EventsApart' /\ Listens' /\ HandledLine' /\ NodeLine'
              /\ \A o \in Tasks : TaskChain(o)'
  <2>1. /\ EventsApart /\ Listens /\ HandledLine /\ NodeLine
        /\ \A o \in Tasks : TaskChain(o)
    BY <1>12 DEF ChainInv
  <2>2. HeadLine(h) /\ (Started => ParentSeen(h))
    BY <1>1, <1>2, <1>3, <2>1 DEF TaskChain
  <2>3. EventsApart'
    BY <1>2, <1>8, <2>1 DEF EventsApart
  <2>4. Listens'
    BY <1>2, <2>1 DEF Listens
  <2>5. ASSUME Started, NEW b \in Ancestors[h], After(b)
        PROVE  AccountedBy(b, Slot[h])'
    BY <1>2, <1>3, <1>9, <2>1, <2>2, <2>5, NewLine
  <2>6. ASSUME NEW g \in Range(everHandled'), NEW b \in Ancestors[g], After(b)'
        PROVE  AccountedBy(b, Slot[g])'
    <3>1. CASE ~Started
      <4>1. g = h /\ Slot[b] > Slot[h]
        BY <1>6, <2>6, <3>1
      <4>2. QED
        BY <1>3, <4>1, LineSlots
    <3>2. CASE Started /\ g = h
      BY <1>6, <2>5, <2>6, <3>2
    <3>3. CASE Started /\ g # h
      <4>1. g \in Range(everHandled) /\ After(b)
        BY <1>4, <1>6, <2>6, <3>3
      <4>2. g \in Blocks /\ b \in Blocks /\ Slot[g] \in Int
        BY <4>1 DEF IInv, TypeOK, Range
      <4>3. AccountedBy(b, Slot[g])
        BY <2>1, <4>1 DEF HandledLine
      <4>4. QED
        BY <1>9, <4>2, <4>3 DEF Remembers
    <3>4. QED
      BY <3>1, <3>2, <3>3
  <2>7. HandledLine'
    BY <2>6 DEF HandledLine
  <2>8. ASSUME NEW b \in Line(nodeHead), After(b)', Slot[b] <= Slot[h]
        PROVE  Accounted(b)'
    <3>1. b \in Blocks /\ Slot[b] \in Nat /\ Slot[h] \in Nat
      BY <1>3, LineSlots DEF IInv, TypeOK
    <3>2. Started /\ After(b)
      BY <1>6, <2>8, <3>1
    <3>3. CASE b = h
      BY <1>4, <3>3 DEF Told, Accounted
    <3>4. CASE b \in Ancestors[h]
      BY <2>5, <3>2, <3>4 DEF Accounted, AccountedBy
    <3>5. CASE b \notin Line(h)
      BY <1>9, <2>2, <2>8, <3>1, <3>2, <3>5 DEF HeadLine, Remembers
    <3>6. QED
      BY <3>3, <3>4, <3>5 DEF Line
  <2>9. NodeLine'
    BY <1>2, <1>5, <2>8 DEF NodeLine
  <2>10. ASSUME NEW o \in Tasks PROVE TaskChain(o)'
    <3>1. CASE o = current
      BY <1>3, <3>1, IdleChain
    <3>2. CASE o # current
      <4>1. PICK g : g = task[o].head
        OBVIOUS
      <4>2. PICK e : e = task[o].event
        OBVIOUS
      <4>3. task'[o] = task[o] /\ o # current'
        BY <1>2, <1>3, <3>2
      <4>4. task[o].parentAlerted => ParentAlerted(g)'
        BY <1>2, <2>1, <4>1 DEF TaskChain, ParentAlerted
      <4>5. ASSUME task[o].pc = "delete" PROVE Settled(e, g)'
        <5>1. Settled(e, g)
          BY <2>1, <4>1, <4>2, <4>5 DEF TaskChain
        <5>2. e \in Event
          BY <4>2, <4>5 DEF IInv, TaskSound, Genuine
        <5>3. Ancestors[e.newHead] \subseteq Blocks
          BY <5>2 DEF Event
        <5>4. QED
          BY <1>5, <1>6, <1>9, <5>1, <5>2, <5>3, SettledStays DEF IInv
      <4>6. QED
        BY <4>1, <4>2, <4>3, <4>4, <4>5 DEF TaskChain
    <3>3. QED
      BY <3>1, <3>2
  <2>11. QED
    BY <2>3, <2>4, <2>7, <2>9, <2>10
<1>13. QED
  BY <1>10, <1>11, <1>12 DEF ChainInv

\* What the node's move adds to what is on its way.
LEMMA NodeTells ==
    ASSUME IInv, NEW y \in Blocks, NodeMoves(y), NEW e, e = ReorgEvent(y)
    PROVE  /\ e.slot = Slot[y] /\ e.newHead = y
           /\ e.slot - e.depth = ForkSlot(nodeHead, y)
           /\ IF IsReorg(y)
                THEN Range(reorgSlots') = Range(reorgSlots) \union {Slot[y]}
                ELSE reorgSlots' = reorgSlots
           /\ IF IsReorg(y) /\ listener = "subscribed"
                THEN InFlight' = InFlight \union {e}
                ELSE InFlight' = InFlight
<1>1. nodeHead \in Blocks /\ Slot[nodeHead] <= Slot[y]
  BY DEF NodeMoves, IInv, TypeOK
<1>2. /\ Slot[nodeHead] \in Nat /\ Slot[y] \in Nat
      /\ ForkSlot(nodeHead, y) \in Nat /\ ForkSlot(nodeHead, y) <= Slot[y]
  BY <1>1, ForkSlotBounds
<1>3. e = [slot |-> Slot[y], depth |-> Slot[y] - ForkSlot(nodeHead, y),
           newHead |-> y]
  <2>1. (IF Slot[nodeHead] > Slot[y] THEN Slot[nodeHead] ELSE Slot[y])
           = Slot[y]
    BY <1>1, <1>2
  <2>2. QED
    BY <2>1 DEF ReorgEvent
<1>4. e \in Event /\ e.slot - e.depth = ForkSlot(nodeHead, y)
  BY <1>2, <1>3 DEF Event
<1>5. /\ reorgSlots \in Seq(Nat) /\ stream \in Seq(Event)
      /\ chainReorgs' = chainReorgs
  BY DEF NodeMoves, IInv, TypeOK
<1>6. IF IsReorg(y)
        THEN Range(reorgSlots') = Range(reorgSlots) \union {Slot[y]}
        ELSE reorgSlots' = reorgSlots
  BY <1>2, <1>5, RangeAppend DEF NodeMoves
<1>7. IF IsReorg(y) /\ listener = "subscribed"
        THEN Range(stream') = Range(stream) \union {e}
        ELSE stream' = stream
  BY <1>4, <1>5, RangeAppend DEF NodeMoves
<1>8. QED
  BY <1>3, <1>4, <1>5, <1>6, <1>7 DEF InFlight

\* Two reorganisations do not end at one slot, so neither does this one; and a
\* listener that is alive hears of it.
LEMMA StillCalm ==
    ASSUME IInv, NEW y \in Blocks, NodeMoves(y), Calm'
    PROVE  /\ Calm /\ (IsReorg(y) => Slot[y] \notin Range(reorgSlots))
           /\ IsReorg(y) /\ listener # "dead" => listener = "subscribed"
<1>1. /\ drops = 0 /\ ~unheard /\ IsInjective(reorgSlots')
      /\ ~(IsReorg(y) /\ listener = "started")
      /\ listener \in {"dead", "started", "subscribed"}
  BY DEF NodeMoves, Calm, IInv, TypeOK
<1>2. CASE ~IsReorg(y)
  BY <1>1, <1>2 DEF NodeMoves, Calm
<1>3. CASE IsReorg(y)
  <2>1. /\ reorgSlots \in Seq(Nat) /\ Slot[y] \in Nat
        /\ Len(reorgSlots) \in Nat
    BY DEF IInv, TypeOK
  <2>2. /\ reorgSlots' = Append(reorgSlots, Slot[y])
        /\ DOMAIN reorgSlots' = 1 .. Len(reorgSlots) + 1
        /\ DOMAIN reorgSlots = 1 .. Len(reorgSlots)
        /\ \A i \in 1 .. Len(reorgSlots) : reorgSlots'[i] = reorgSlots[i]
        /\ reorgSlots'[Len(reorgSlots) + 1] = Slot[y]
    BY <1>3, <2>1 DEF NodeMoves
  <2>3. IsInjective(reorgSlots)
    <3>1. DOMAIN reorgSlots \subseteq DOMAIN reorgSlots'
      BY <2>1, <2>2
    <3>2. QED
      BY <1>1, <2>2, <3>1 DEF IsInjective
  <2>4. ASSUME NEW i \in DOMAIN reorgSlots, reorgSlots[i] = Slot[y]
        PROVE  FALSE
    <3>1. /\ i \in DOMAIN reorgSlots'
          /\ Len(reorgSlots) + 1 \in DOMAIN reorgSlots'
          /\ i # Len(reorgSlots) + 1
      BY <2>1, <2>2
    <3>2. reorgSlots'[i] = reorgSlots'[Len(reorgSlots) + 1]
      BY <2>2, <2>4
    <3>3. QED
      BY <1>1, <3>1, <3>2 DEF IsInjective
  <2>5. QED
    BY <1>1, <2>3, <2>4 DEF Calm, Range
<1>4. QED
  BY <1>2, <1>3

\* What the new head brings to the line is newer than any head the watcher has
\* seen, or an event tells of it that no task was started too early for.
LEMMA NewIsTold ==
    ASSUME IInv, SlotsBelow, Listens, NEW y \in Blocks, NodeMoves(y), Calm',
           NEW b \in Line(y), b \notin Line(nodeHead), After(b),
           Slot[b] <= Slot[nodeHead]
    PROVE  Accounted(b)'
<1>1. PICK x : x = nodeHead
  OBVIOUS
<1>2. PICK e : e = ReorgEvent(y)
  OBVIOUS
<1>3. x \in Blocks /\ x # y /\ Slot[x] <= Slot[y]
  BY <1>1 DEF NodeMoves, IInv, TypeOK
<1>4. Slot[b] \in Nat /\ Slot[x] \in Nat /\ Slot[y] \in Nat
  BY <1>3, LineSlots
<1>5. IsReorg(y) /\ ForkSlot(x, y) <= Slot[b]
  BY <1>1, <1>3, <1>4, NewOnLine DEF IsReorg
<1>6. e \in InFlight'
  <2>1. listener = "subscribed"
    BY <1>5, StillCalm DEF Listens, After
  <2>2. QED
    BY <1>2, <1>5, <2>1, NodeTells
<1>7. e.newHead = y /\ e.slot - e.depth <= Slot[b]
  BY <1>1, <1>2, <1>5, NodeTells
<1>8. ASSUME b = y PROVE Untried(b)'
  <2>1. Slot[y] = Slot[x]
    BY <1>1, <1>3, <1>4, <1>8
  <2>2. Slot[x] \notin Range(reorgSlots)
    BY <1>5, <2>1, StillCalm
  <2>3. ASSUME NEW o \in Tasks, task[o].pc # "idle" PROVE task[o].head # y
    BY <1>1, <1>3, <2>1, <2>2, <2>3 DEF SlotsBelow
  <2>4. QED
    BY <1>8, <2>3 DEF Untried, NodeMoves
<1>9. QED
  BY <1>6, <1>7, <1>8 DEF Awaits, Accounted

\* The node's new head: what the lines owed is still accounted for, and what
\* the new line adds is named by the event of the reorganisation.
LEMMA NodeChain ==
    ASSUME IInv, ChainInv, NEW y \in Blocks, NodeMoves(y)
    PROVE  ChainInv'
<1>1. PICK x : x = nodeHead
  OBVIOUS
<1>2. PICK e : e = ReorgEvent(y)
  OBVIOUS
<1>3. /\ UNCHANGED <<everHandled, current, task, delivered, misjudged,
                     listener, drops, chainReorgs>>
      /\ nodeHead' = y /\ x # y /\ x \in Blocks
      /\ Slot[x] <= Slot[y] /\ Slot[x] \in Nat /\ Slot[y] \in Nat
  BY <1>1 DEF NodeMoves, loop, history, IInv, TypeOK
<1>4. /\ Grows /\ Started' = Started /\ NewestHandled' = NewestHandled
      /\ \A b : After(b)' = After(b)
  BY <1>3, SameHeadsGrow DEF IInv
<1>5. /\ Range(everHandled) \subseteq Blocks
      /\ \A o \in Tasks : task[o].pc # "idle" => task[o].head \in Blocks
  <2>1. Range(everHandled) \subseteq Blocks
    BY DEF IInv, TypeOK, Range
  <2>2. \A o \in Tasks : task[o].pc # "idle" => task[o].head \in Blocks
    BY DEF IInv, TaskSound
  <2>3. QED
    BY <2>1, <2>2
<1>6. SlotsBelow
  BY DEF ChainInv
<1>7. SlotsBelow'
  <2>1. /\ Range(reorgSlots) \subseteq Range(reorgSlots')
        /\ IsReorg(y) => Slot[y] \in Range(reorgSlots')
        /\ \A s \in Range(reorgSlots') : s \in Range(reorgSlots) \/ s = Slot[y]
    BY NodeTells
  <2>2. Range(reorgSlots) \subseteq Nat
    BY DEF IInv, TypeOK, Range
  <2>3. \A s \in Range(reorgSlots') : s <= Slot[y]
    BY <1>1, <1>3, <1>6, <2>1, <2>2 DEF SlotsBelow
  <2>4. \A h \in Range(everHandled) : Slot[h] <= Slot[y]
    BY <1>1, <1>3, <1>5, <1>6 DEF SlotsBelow
  <2>5. ASSUME NEW o \in Tasks, task[o].pc # "idle"
        PROVE  /\ Slot[task[o].head] <= Slot[y]
               /\ Slot[task[o].head] = Slot[y] =>
                     Slot[y] \in Range(reorgSlots')
    <3>1. PICK h : h = task[o].head
      OBVIOUS
    <3>2. h \in Blocks /\ Slot[h] <= Slot[x] /\ Slot[h] \in Nat
      BY <1>1, <1>5, <1>6, <2>5, <3>1 DEF SlotsBelow
    <3>3. Slot[h] = Slot[y] => IsReorg(y)
      BY <1>1, <1>3, <3>2, LineSlots DEF IsReorg
    <3>4. QED
      BY <1>3, <2>1, <3>1, <3>2, <3>3
  <2>6. QED
    BY <1>3, <2>3, <2>4, <2>5 DEF SlotsBelow
<1>8. ASSUME NEW b \in Blocks PROVE Remembers(b)
  <2>1. Told(b) => Told(b)'
    BY <1>4, ToldStays DEF IInv
  <2>2. Untried(b) => Untried(b)'
    BY <1>3, UntriedStays
  <2>3. InFlight \subseteq InFlight'
    BY NodeTells
  <2>4. QED
    BY <2>1, <2>2, <2>3, NothingLost
<1>9. ASSUME Calm'
      PROVE  /\ EventsApart' /\ Listens' /\ HandledLine' /\ NodeLine'
             /\ \A o \in Tasks : TaskChain(o)'
  <2>1. /\ Calm /\ (IsReorg(y) => Slot[y] \notin Range(reorgSlots))
        /\ EventsApart /\ Listens /\ HandledLine /\ NodeLine
        /\ \A o \in Tasks : TaskChain(o)
    BY <1>9, StillCalm DEF ChainInv
  <2>2. EventsApart'
    <3>1. \A o \in Tasks : HeldBy(o)' = HeldBy(o)
      BY <1>3 DEF HeldBy
    <3>2. CASE IsReorg(y) /\ listener = "subscribed"
      <4>1. /\ e.slot = Slot[y] /\ InFlight' = InFlight \union {e}
            /\ Range(reorgSlots') = Range(reorgSlots) \union {Slot[y]}
        BY <1>2, <3>2, NodeTells
      <4>2. Events' = Events \union {e}
        BY <3>1, <4>1 DEF Events
      <4>3. QED
        BY <2>1, <3>2, <4>1, <4>2 DEF EventsApart
    <3>3. CASE ~(IsReorg(y) /\ listener = "subscribed")
      <4>1. /\ InFlight' = InFlight
            /\ Range(reorgSlots) \subseteq Range(reorgSlots')
        BY <1>2, <3>3, NodeTells
      <4>2. Events' = Events
        BY <3>1, <4>1 DEF Events
      <4>3. QED
        BY <2>1, <4>1, <4>2 DEF EventsApart
    <3>4. QED
      BY <3>2, <3>3
  <2>3. Listens'
    BY <1>3, <1>4, <2>1 DEF Listens
  <2>4. HandledLine'
    <3>1. ASSUME NEW h \in Range(everHandled), NEW b \in Ancestors[h], After(b)
          PROVE  AccountedBy(b, Slot[h])'
      <4>1. h \in Blocks /\ b \in Blocks /\ Slot[h] \in Int
        BY <1>5
      <4>2. QED
        BY <1>8, <2>1, <3>1, <4>1 DEF HandledLine, Remembers
    <3>2. QED
      BY <1>3, <1>4, <3>1 DEF HandledLine
  <2>5. ASSUME NEW b \in Line(y), After(b), b \notin Line(x),
               NEW h \in Blocks, Slot[h] <= Slot[x], Slot[b] <= Slot[h]
        PROVE  Accounted(b)'
    <3>1. Slot[b] <= Slot[x]
      BY <1>3, <2>5, LineSlots
    <3>2. QED
      BY <1>1, <1>6, <1>9, <2>1, <2>5, <3>1, NewIsTold
  <2>6. ASSUME NEW b \in Line(y), After(b), Slot[b] <= Slot[NewestHandled]
        PROVE  Accounted(b)'
    <3>1. NewestHandled \in Range(everHandled)
      <4>1. everHandled # <<>> /\ everHandled \in Seq(Blocks)
        BY <2>6 DEF After, Started, IInv, TypeOK
      <4>2. Len(everHandled) \in DOMAIN everHandled
        BY <4>1
      <4>3. QED
        BY <4>2 DEF NewestHandled, Range
    <3>2. NewestHandled \in Blocks /\ Slot[NewestHandled] <= Slot[x]
      BY <1>1, <1>5, <1>6, <3>1 DEF SlotsBelow
    <3>3. CASE b \in Line(x)
      <4>1. Accounted(b) /\ b \in Blocks
        BY <1>1, <2>1, <2>6, <3>3, LineSlots DEF NodeLine
      <4>2. QED
        BY <1>8, <4>1 DEF Remembers
    <3>4. CASE b \notin Line(x)
      BY <2>5, <2>6, <3>2, <3>4
    <3>5. QED
      BY <3>3, <3>4
  <2>7. NodeLine'
    BY <1>3, <1>4, <2>6 DEF NodeLine
  <2>8. ASSUME NEW h \in Blocks, HeadLine(h), Slot[h] <= Slot[x]
        PROVE  HeadLine(h)'
    <3>1. ASSUME NEW b \in Line(y), After(b), Slot[b] <= Slot[h],
                 b \notin Line(h)
          PROVE  Accounted(b)'
      <4>1. CASE b \in Line(x)
        <5>1. Accounted(b) /\ b \in Blocks
          BY <1>1, <2>8, <3>1, <4>1, LineSlots DEF HeadLine
        <5>2. QED
          BY <1>8, <5>1 DEF Remembers
      <4>2. CASE b \notin Line(x)
        BY <2>5, <2>8, <3>1, <4>2
      <4>3. QED
        BY <4>1, <4>2
    <3>2. ASSUME NEW b \in Ancestors[h], After(b),
                 Slot[b] <= Slot[NewestHandled]
          PROVE  AccountedBy(b, Slot[h])'
      <4>1. b \in Blocks /\ AccountedBy(b, Slot[h]) /\ Slot[h] \in Int
        BY <2>8, <3>2, LineSlots DEF HeadLine
      <4>2. QED
        BY <1>8, <4>1 DEF Remembers
    <3>3. QED
      BY <1>3, <1>4, <3>1, <3>2 DEF HeadLine
  <2>9. ASSUME NEW o \in Tasks PROVE TaskChain(o)'
    <3>1. PICK h : h = task[o].head
      OBVIOUS
    <3>2. PICK f : f = task[o].event
      OBVIOUS
    <3>3. task'[o] = task[o] /\ current' = current
      BY <1>3
    <3>4. task[o].parentAlerted => ParentAlerted(h)'
      BY <1>3, <2>1, <3>1 DEF TaskChain, ParentAlerted
    <3>5. ASSUME task[o].pc = "delete" PROVE Settled(f, h)'
      <4>1. Settled(f, h)
        BY <2>1, <3>1, <3>2, <3>5 DEF TaskChain
      <4>2. f \in Event
        BY <3>2, <3>5 DEF IInv, TaskSound, Genuine
      <4>3. Ancestors[f.newHead] \subseteq Blocks
        BY <4>2 DEF Event
      <4>4. QED
        BY <1>4, <1>8, <4>1, <4>2, <4>3, SettledStays DEF IInv
    <3>6. ASSUME o = current, task[o].pc # "idle" PROVE HeadLine(h)'
      <4>1. h \in Blocks /\ HeadLine(h) /\ Slot[h] <= Slot[x]
        BY <1>1, <1>5, <1>6, <2>1, <3>1, <3>6 DEF TaskChain, SlotsBelow
      <4>2. QED
        BY <2>8, <4>1
    <3>7. \A alert : Reaches(alert, h)' = Reaches(alert, h)
      BY <1>4 DEF Reaches
    <3>8. ParentSeen(h) => ParentSeen(h)'
      BY <1>3, <3>7 DEF ParentSeen, ParentAlerted
    <3>9. /\ o = current /\ task[o].pc = "post_head" /\ Started =>
                \A alert \in {task[o].alert} : Reaches(alert, h)'
          /\ o = current /\ task[o].pc = "ok" /\ Started => ParentSeen(h)'
      BY <2>1, <3>1, <3>7, <3>8 DEF TaskChain
    <3>10. QED
      BY <1>4, <3>1, <3>2, <3>3, <3>4, <3>5, <3>6, <3>9 DEF TaskChain
  <2>10. QED
    BY <2>2, <2>3, <2>4, <2>7, <2>9
<1>10. QED
  BY <1>7, <1>9 DEF ChainInv

-----------------------------------------------------------------------------
(* The theorem.                                                            *)

\* Nothing is handled, held or under way when the watcher starts.
LEMMA ChainInit == Init => ChainInv
<1> SUFFICES ASSUME Init PROVE ChainInv
  OBVIOUS
<1>1. /\ everHandled = <<>> /\ reorgSlots = <<>> /\ stream = <<>>
      /\ chainReorgs = EmptyMap /\ current = NoTask
      /\ \A t \in Tasks : task[t] = Idle
  BY DEF Init
<1>2. Range(<<>>) = {} /\ Range(EmptyMap) = {}
  BY DEF Range, EmptyMap
<1>3. \A t \in Tasks : task[t].pc = "idle" /\ HeldBy(t) = {}
  BY <1>1, IdleType DEF HeldBy
<1>4. SlotsBelow
  BY <1>1, <1>2, <1>3 DEF SlotsBelow
<1>5. EventsApart
  BY <1>1, <1>2, <1>3 DEF EventsApart, Events, InFlight
<1>6. Listens /\ HandledLine /\ NodeLine
  BY <1>1, <1>2 DEF Listens, HandledLine, NodeLine, After, Started
<1>7. \A t \in Tasks : TaskChain(t)
  BY <1>1, <1>3, IdleType DEF TaskChain
<1>8. QED
  BY <1>4, <1>5, <1>6, <1>7 DEF ChainInv

\* A stutter.
LEMMA ChainStutters ==
    ASSUME IInv, ChainInv, UNCHANGED vars
    PROVE  ChainInv'
<1>1. UNCHANGED <<nodeHead, reorgSlots, unheard, everHandled, drops, listener,
                  current, task, stream, chainReorgs, delivered, misjudged>>
  BY DEF vars
<1>2. IInv'
  BY InvStep
<1>3. InFlight' = InFlight
  BY <1>1 DEF InFlight
<1>4. Events' \subseteq Events
  <2>1. \A o \in Tasks : HeldBy(o)' = HeldBy(o)
    BY <1>1 DEF HeldBy
  <2>2. QED
    BY <1>3, <2>1 DEF Events
<1>5. ASSUME NEW b \in Blocks PROVE Remembers(b)
  <2>1. Told(b) => Told(b)'
    BY <1>1, SameHeadsGrow, ToldStays DEF IInv
  <2>2. Untried(b) => Untried(b)'
    BY <1>1, UntriedStays
  <2>3. QED
    BY <1>3, <2>1, <2>2, NothingLost
<1>6. ASSUME Calm, NEW o \in Tasks PROVE TaskChain(o)'
  BY <1>1, <1>5, <1>6, OtherTaskChain DEF ChainInv
<1>7. QED
  BY <1>1, <1>2, <1>4, <1>5, <1>6, SameHeadsStep

LEMMA ChainStep == IInv /\ ChainInv /\ [Next]_vars => ChainInv'
<1> SUFFICES ASSUME IInv, ChainInv, [Next]_vars PROVE ChainInv'
  OBVIOUS
<1>1. CASE UNCHANGED vars
  BY <1>1, ChainStutters
<1>2. QED
  BY <1>1, NodeChain, ListenerChain, CompleteChain, RaiseChain, PollChain,
     SnapshotChain, JudgeChain, EventPostedChain, DeleteChain,
     CheckParentChain, PostChain DEF Next

LEMMA ChainInductive == Spec => [](IInv /\ ChainInv)
<1>1. QED
  BY InvInit, InvStep, ChainInit, ChainStep, PTL DEF Spec

\* Once the events are judged, every block of a handled head's chain since the
\* first handled head was handled, is named by an alert, or is one of the two
\* exceptions the property names: for any tree of blocks, any overlap of tasks
\* and any failures, while no reorganisation fell before the subscription, the
\* event stream held and no two reorganisations ended at one slot.
THEOREM ChainIsCovered == Spec => []ChainCovered
<1>1. ASSUME IInv, ChainInv PROVE ChainCovered
  <2>1. ASSUME Quiet, Calm, NEW i \in 1 .. Len(everHandled),
               NEW b \in Ancestors[everHandled[i]],
               Slot[b] > Slot[everHandled[1]]
        PROVE  Told(b)
    <3>1. InFlight = {}
      BY <2>1 DEF InFlight, Quiet, Range
    <3>2. /\ everHandled \in Seq(Blocks) /\ everHandled # <<>>
          /\ everHandled[i] \in Range(everHandled)
      <4>1. everHandled \in Seq(Blocks)
        BY <1>1 DEF IInv, TypeOK
      <4>2. everHandled = <<>> => Len(everHandled) = 0
        OBVIOUS
      <4>3. i \in DOMAIN everHandled /\ everHandled # <<>>
        BY <2>1, <4>1, <4>2
      <4>4. QED
        BY <4>1, <4>3 DEF Range
    <3>3. AccountedBy(b, Slot[everHandled[i]])
      BY <1>1, <2>1, <3>2 DEF ChainInv, HandledLine, After, Started
    <3>4. QED
      BY <3>1, <3>3 DEF AccountedBy
  <2>2. QED
    BY <2>1 DEF ChainCovered, Told
<1>2. QED
  BY <1>1, ChainInductive, PTL
=============================================================================

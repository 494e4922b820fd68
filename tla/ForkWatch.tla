------------------------------ MODULE ForkWatch ------------------------------
(***************************************************************************)
(* How blocks the watcher never handled are reported: the chain reorg      *)
(* listener of src/watcher.py (`listen_chain_reorg_event`), the head check *)
(* of its main loop, and src/handlers/fork.py, with the consensus node     *)
(* that moves its head through a tree of blocks.                           *)
(*                                                                         *)
(* Three threads meet in `Watcher.chain_reorgs`: the listener stores the   *)
(* events by slot, the handler of the current attempt judges and deletes   *)
(* them, and so does the handler of an attempt the loop has given up.  The *)
(* lock around each access is a new one every time, so it excludes nobody. *)
(*                                                                         *)
(* Abstracted: the other handlers only fail or succeed; the memory of sent *)
(* alerts has no bound here (HeadLoop has it), it only saves sending twice *)
(***************************************************************************)
EXTENDS Integers, Sequences, FiniteSets, Functions

CONSTANTS Blocks,       \* beacon blocks
          Parent,       \* Parent[b]: a block, or NoBlock at the root
          Slot,         \* Slot[b]
          Ancestors,    \* Ancestors[b]: the proper ancestors of b
          NoBlock,
          Tasks,        \* fork handler tasks that may overlap
          NoTask,
          KeepHeaders,  \* KEEP_MAX_HANDLED_HEADERS_COUNT
          MaxFailures,  \* bound: failed tasks and attempts
          MaxDrops,     \* bound: times the listener fails
          MaxReorgs     \* bound: times the node switches forks

ASSUME SlotAssumption == Slot \in [Blocks -> Nat]
ASSUME ParentAssumption == Parent \in [Blocks -> Blocks \union {NoBlock}]
ASSUME AncestorsAssumption ==
    /\ Ancestors \in [Blocks -> SUBSET Blocks]
    /\ \A b \in Blocks :
          /\ Ancestors[b] = IF Parent[b] = NoBlock THEN {}
                            ELSE Ancestors[Parent[b]] \union {Parent[b]}
          /\ \A a \in Ancestors[b] : Slot[a] < Slot[b]
ASSUME NamesAssumption == NoBlock \notin Blocks /\ NoTask \notin Tasks
ASSUME KeepHeadersAssumption == KeepHeaders \in Nat \ {0}
ASSUME BoundsAssumption ==
    MaxFailures \in Nat /\ MaxDrops \in Nat /\ MaxReorgs \in Nat

VARIABLES nodeHead,    \* the consensus node's head
          reorgSlots,  \* history: the slots the node switched forks at
          unheard,     \* history: was one of them before a listener subscribed
          stream,      \* reorg events sent and not read yet
          listener,    \* the listener thread: no "dead" one, one "started"
                       \* that has asked for the events, one "subscribed"
          drops,       \* history: how often the listener failed
          chainReorgs, \* Watcher.chain_reorgs: from slot to event
          handled,     \* Watcher.handled_headers
          everHandled, \* history: all heads handled, in order
          current,     \* the task of the attempt the loop waits for
          task,        \* the fork handler's tasks
          delivered,   \* alerts the fork handler sent
          misjudged,   \* history: events a task took for known by its own
                       \* head, which was never handled
          failures     \* history: failures so far

node == <<nodeHead, reorgSlots, unheard>>
loop == <<handled, everHandled, current>>
history == <<misjudged, failures>>
vars == <<nodeHead, reorgSlots, unheard, stream, listener, drops, chainReorgs,
          handled, everHandled, current, task, delivered, misjudged, failures>>

Event == [slot : Nat, depth : Nat, newHead : Blocks]

\* UnhandledChainReorg names slots; UnhandledHead names a block, and how many
\* slots before it.
Alert == [slot : Nat, depth : Nat]
            \union [block : Blocks \union {NoBlock}, before : Int]

\* A task: the head, the events of its snapshot still to judge, the one it is
\* about, the alert it posts, and `head_parent_is_alerted`.
NoEvent == [slot |-> 0, depth |-> 0, newHead |-> NoBlock]
NoAlert == [slot |-> 0, depth |-> 0]
Idle == [pc |-> "idle", head |-> NoBlock, todo |-> {}, event |-> NoEvent,
         alert |-> NoAlert, parentAlerted |-> FALSE]

EmptyMap == [s \in {} |-> NoEvent]

Init ==
    /\ nodeHead \in {b \in Blocks : Parent[b] = NoBlock}
    /\ reorgSlots = <<>>
    /\ unheard = FALSE
    /\ stream = <<>>
    /\ listener = "dead"
    /\ drops = 0
    /\ chainReorgs = EmptyMap
    /\ handled = <<>>
    /\ everHandled = <<>>
    /\ current = NoTask
    /\ task = [t \in Tasks |-> Idle]
    /\ delivered = {}
    /\ misjudged = {}
    /\ failures = 0

-----------------------------------------------------------------------------
(* The consensus node.                                                     *)

IsReorg(b) == nodeHead \notin Ancestors[b]

\* The newest block two forks share, by its slot; 0 stands below the root.
ForkSlot(b, c) ==
    LET common == {Slot[a] : a \in (Ancestors[b] \union {b})
                                     \intersect (Ancestors[c] \union {c})}
    IN  IF common = {} THEN 0
        ELSE CHOOSE s \in common : \A r \in common : r <= s

\* The event reaches back to the fork from the higher of the two heads.
ReorgEvent(b) ==
    LET high == IF Slot[nodeHead] > Slot[b] THEN Slot[nodeHead] ELSE Slot[b]
    IN  [slot |-> Slot[b], depth |-> high - ForkSlot(nodeHead, b),
         newHead |-> b]

\* The head moves up the chain or to another fork, of which the node tells
\* those who have subscribed.
NodeMoves(b) ==
    /\ b # nodeHead
    /\ Slot[b] >= Slot[nodeHead]
    /\ IsReorg(b) => Len(reorgSlots) < MaxReorgs
    /\ nodeHead' = b
    /\ reorgSlots' = IF IsReorg(b) THEN Append(reorgSlots, Slot[b])
                                   ELSE reorgSlots
    /\ unheard' = (unheard \/ (IsReorg(b) /\ listener = "started"))
    /\ stream' = IF IsReorg(b) /\ listener = "subscribed"
                    THEN Append(stream, ReorgEvent(b))
                    ELSE stream
    /\ UNCHANGED <<listener, drops, chainReorgs, loop, task, delivered,
                   history>>

-----------------------------------------------------------------------------
(* The listener.                                                           *)

\* `self.chain_reorgs[event.slot] = event`.
Stored(m, e) ==
    [s \in DOMAIN m \union {e.slot} |-> IF s = e.slot THEN e ELSE m[s]]

\* The node answers the request for events: what happens from now on is told.
Subscribe ==
    /\ listener = "started"
    /\ listener' = "subscribed"
    /\ UNCHANGED <<node, stream, drops, chainReorgs, loop, task, delivered,
                   history>>

ListenerStores ==
    /\ listener = "subscribed"
    /\ stream # <<>>
    /\ chainReorgs' = Stored(chainReorgs, Head(stream))
    /\ stream' = Tail(stream)
    /\ UNCHANGED <<node, listener, drops, loop, task, delivered, history>>

\* The request fails or the stream breaks: the thread ends and what was not
\* read is lost.
ListenerDies ==
    /\ listener # "dead"
    /\ drops < MaxDrops
    /\ drops' = drops + 1
    /\ listener' = "dead"
    /\ stream' = <<>>
    /\ UNCHANGED <<node, chainReorgs, loop, task, delivered, history>>

-----------------------------------------------------------------------------
(* The main loop.                                                          *)

LastHandled == IF handled = <<>> THEN NoBlock ELSE handled[Len(handled)]

IsNewHead == ~(handled # <<>> /\ Slot[nodeHead] = Slot[LastHandled])

Running(t) == task[t].pc \notin {"idle", "ok", "failed"}

\* The listener is started if it is not alive.
Listen == listener' = IF listener = "dead" THEN "started" ELSE listener

\* An iteration: the listener is looked after, and a new head starts the
\* handlers.
Poll(t) ==
    /\ current = NoTask
    /\ task[t] = Idle
    /\ IsNewHead
    /\ Listen
    /\ current' = t
    /\ task' = [task EXCEPT ![t] = [Idle EXCEPT !.pc = "snapshot",
                                               !.head = nodeHead]]
    /\ UNCHANGED <<node, stream, drops, chainReorgs, handled, everHandled,
                   delivered, history>>

\* An iteration without a new head, or one that fails before the handlers.
PollNothing ==
    /\ current = NoTask
    /\ listener = "dead"
    /\ Listen
    /\ UNCHANGED <<node, stream, drops, chainReorgs, loop, task, delivered,
                   history>>

\* Mutated form of Trim: the bound is tested one element late.
TrimLate(s) == IF Len(s) > KeepHeaders + 1 THEN Tail(s) ELSE s

Trim(s) == IF Len(s) > KeepHeaders THEN Tail(s) ELSE s

\* Every handler succeeded.
Complete ==
    /\ current # NoTask
    /\ task[current].pc = "ok"
    /\ handled' = Trim(Append(handled, task[current].head))
    /\ everHandled' = Append(everHandled, task[current].head)
    /\ task' = [task EXCEPT ![current] = Idle]
    /\ current' = NoTask
    /\ UNCHANGED <<node, stream, listener, drops, chainReorgs, delivered,
                   history>>

\* The fork handler failed.
Raise ==
    /\ current # NoTask
    /\ task[current].pc = "failed"
    /\ task' = [task EXCEPT ![current] = Idle]
    /\ current' = NoTask
    /\ UNCHANGED <<node, stream, listener, drops, chainReorgs, handled,
                   everHandled, delivered, history>>

\* Another handler failed: the fork handler's task, when it still runs, is
\* left to run next to the retry.
OtherRaises ==
    /\ current # NoTask
    /\ failures < MaxFailures
    /\ failures' = failures + 1
    /\ task' = IF Running(current) THEN task
               ELSE [task EXCEPT ![current] = Idle]
    /\ current' = NoTask
    /\ UNCHANGED <<node, stream, listener, drops, chainReorgs, handled,
                   everHandled, delivered, misjudged>>

-----------------------------------------------------------------------------
(* The fork handler.                                                       *)

\* The result of a task nobody waits for any more is dropped.
Ended(t, outcome) ==
    IF t = current THEN [task[t] EXCEPT !.pc = outcome] ELSE Idle

\* `_known_header`: among the handled headers and the head itself.
Known(t, b) == b \in Range(handled) \union {task[t].head}

\* `[*watcher.chain_reorgs.values()]`.
Snapshot(t) ==
    /\ task[t].pc = "snapshot"
    /\ task' = [task EXCEPT ![t].pc = "events", ![t].todo = Range(chainReorgs)]
    /\ UNCHANGED <<node, stream, listener, drops, chainReorgs, loop,
                   delivered, history>>

\* Mutated form of HeadOrParentUnknown: looks at the new head only.
HeadUnknown(t, e) == ~Known(t, e.newHead)

\* `not known_header or not known_parent`.
HeadOrParentUnknown(t, e) ==
    \/ ~Known(t, e.newHead)
    \/ ~Known(t, Parent[e.newHead])

\* The new head was handled, its parent is the task's own head and was not.
KnownByOwnHead(t, e) ==
    /\ Known(t, e.newHead)
    /\ Parent[e.newHead] = task[t].head
    /\ task[t].head \notin Range(everHandled)

\* Mutated form of NamesParent: any alert will do.
NamesAnything(t, e) == TRUE

\* `chain_reorg.new_head_block == head.header.message.parent_root`.
NamesParent(t, e) == e.newHead = Parent[task[t].head]

\* The next event is judged: its alert is sent, or it was sent before, or the
\* fork is known.
Judge(t, e) ==
    LET alert == [slot |-> e.slot, depth |-> e.depth]
        send == HeadOrParentUnknown(t, e)
    IN  /\ task[t].pc = "events"
        /\ e \in task[t].todo
        /\ task' = [task EXCEPT ![t].event = e, ![t].todo = @ \ {e},
              ![t].alert = IF send THEN alert ELSE NoAlert,
              ![t].pc = IF send /\ alert \notin delivered THEN "post_event"
                        ELSE "delete",
              ![t].parentAlerted = @ \/ (send /\ alert \in delivered
                                              /\ NamesParent(t, e))]
        /\ misjudged' = IF KnownByOwnHead(t, e) THEN misjudged \union {e}
                                               ELSE misjudged
        /\ UNCHANGED <<node, stream, listener, drops, chainReorgs, loop,
                       delivered, failures>>

EventPosted(t) ==
    /\ task[t].pc = "post_event"
    /\ delivered' = delivered \union {task[t].alert}
    /\ task' = [task EXCEPT ![t].pc = "delete",
                   ![t].parentAlerted = @ \/ NamesParent(t, task[t].event)]
    /\ UNCHANGED <<node, stream, listener, drops, chainReorgs, loop,
                   history>>

\* `del watcher.chain_reorgs[chain_reorg.slot]`: whatever event is stored for
\* that slot now; KeyError when there is none.
Delete(t) ==
    LET s == task[t].event.slot IN
    /\ task[t].pc = "delete"
    /\ chainReorgs' = [r \in DOMAIN chainReorgs \ {s} |-> chainReorgs[r]]
    /\ task' = [task EXCEPT ![t] =
                   IF s \in DOMAIN chainReorgs
                     THEN [@ EXCEPT !.pc = "events", !.event = NoEvent,
                                    !.alert = NoAlert]
                     ELSE Ended(t, "failed")]
    /\ UNCHANGED <<node, stream, listener, drops, loop, delivered, history>>

\* `_send_unhandled_head_alert`: the parent and `diff` slots before it.
HeadAlert(t) ==
    LET diff == Slot[task[t].head] - Slot[LastHandled] - 2
    IN  [block |-> Parent[task[t].head],
         before |-> IF diff > 0 THEN diff ELSE 0]

ParentUnreported(t) ==
    /\ handled # <<>>
    /\ ~task[t].parentAlerted
    /\ ~Known(t, Parent[task[t].head])
    /\ HeadAlert(t) \notin delivered

\* After the events, the head's own parent.
CheckParent(t) ==
    /\ task[t].pc = "events"
    /\ task[t].todo = {}
    /\ task' = [task EXCEPT ![t] =
                   IF ParentUnreported(t)
                     THEN [@ EXCEPT !.pc = "post_head", !.alert = HeadAlert(t)]
                     ELSE Ended(t, "ok")]
    /\ UNCHANGED <<node, stream, listener, drops, chainReorgs, loop,
                   delivered, history>>

HeadPosted(t) ==
    /\ task[t].pc = "post_head"
    /\ delivered' = delivered \union {task[t].alert}
    /\ task' = [task EXCEPT ![t] = Ended(t, "ok")]
    /\ UNCHANGED <<node, stream, listener, drops, chainReorgs, loop,
                   history>>

PostFails(t) ==
    /\ task[t].pc \in {"post_event", "post_head"}
    /\ failures < MaxFailures
    /\ failures' = failures + 1
    /\ task' = [task EXCEPT ![t] = Ended(t, "failed")]
    /\ UNCHANGED <<node, stream, listener, drops, chainReorgs, loop,
                   delivered, misjudged>>

Next ==
    \/ \E b \in Blocks : NodeMoves(b)
    \/ Subscribe
    \/ ListenerStores
    \/ ListenerDies
    \/ PollNothing
    \/ Complete
    \/ Raise
    \/ OtherRaises
    \/ \E t \in Tasks :
          \/ Poll(t)
          \/ Snapshot(t)
          \/ \E e \in task[t].todo : Judge(t, e)
          \/ EventPosted(t)
          \/ Delete(t)
          \/ CheckParent(t)
          \/ HeadPosted(t)
          \/ PostFails(t)

Spec == Init /\ [][Next]_vars

-----------------------------------------------------------------------------
(* Properties.                                                             *)

TaskType ==
    [pc : {"idle", "snapshot", "events", "post_event", "delete", "post_head",
           "ok", "failed"},
     head : Blocks \union {NoBlock},
     todo : SUBSET Event,
     event : Event \union {NoEvent},
     alert : Alert,
     parentAlerted : BOOLEAN]

\* Types; the events of chain_reorgs are stored under their own slot.
TypeOK ==
    /\ nodeHead \in Blocks
    /\ reorgSlots \in Seq(Nat) /\ Len(reorgSlots) <= MaxReorgs
    /\ unheard \in BOOLEAN
    /\ stream \in Seq(Event)
    /\ listener \in {"dead", "started", "subscribed"}
    /\ drops \in 0 .. MaxDrops
    /\ \A s \in DOMAIN chainReorgs :
          chainReorgs[s] \in Event /\ chainReorgs[s].slot = s
    /\ handled \in Seq(Blocks) /\ Len(handled) <= KeepHeaders
    /\ everHandled \in Seq(Blocks)
    /\ current \in Tasks \union {NoTask}
    /\ task \in [Tasks -> TaskType]
    /\ delivered \subseteq Alert
    /\ misjudged \subseteq Event
    /\ failures \in 0 .. MaxFailures

\* Does this alert make the reader look at block b?
Names(alert, b) ==
    IF "slot" \in DOMAIN alert
      THEN alert.slot - alert.depth <= Slot[b] /\ Slot[b] <= alert.slot
      ELSE \/ b = alert.block
           \/ /\ alert.block # NoBlock
              /\ Slot[alert.block] - alert.before <= Slot[b]
              /\ Slot[b] <= Slot[alert.block]

Reported(b) == \E alert \in delivered : Names(alert, b)

\* No gap right below a handled head: its parent was handled too, or an alert
\* names it.  Whatever events were lost, failed half-way or were taken by an
\* abandoned task (fork.py, the unhandled head alert and
\* `head_parent_is_alerted`).
HandledParentCovered ==
    \A i \in 2 .. Len(everHandled) :
        LET p == Parent[everHandled[i]]
        IN  p = NoBlock \/ p \in Range(everHandled) \/ Reported(p)

Quiet ==
    /\ stream = <<>>
    /\ DOMAIN chainReorgs = {}
    /\ \A t \in Tasks : ~Running(t)

\* No reorg was hidden: none happened while the listener was about to
\* subscribe, the stream did not break, and no two ended at one slot.
Calm == drops = 0 /\ ~unheard /\ IsInjective(reorgSlots)

\* A reorg alert about the parent of a handled head keeps the handler from
\* sending the other one, which would name the slots back to the head handled
\* before: a block between that head and the fork stays hidden.
Hidden(b) ==
    \E i \in 2 .. Len(everHandled) :
        LET h == everHandled[i]
        IN  /\ b \in Ancestors[h]
            /\ Slot[everHandled[i - 1]] < Slot[b]
            /\ \E alert \in delivered :
                  /\ "slot" \in DOMAIN alert
                  /\ alert.slot = Slot[Parent[h]]
                  /\ Slot[b] < alert.slot - alert.depth

\* An event that was dropped would have named block b.
Misjudged(b) ==
    \E e \in misjudged : e.slot - e.depth <= Slot[b] /\ Slot[b] <= e.slot

\* No other gap, when no reorg fell before the subscription, the event stream
\* did not break and no two reorgs ended at one slot: once the events are
\* judged, every block of a handled head's chain since the first handled head
\* was handled or is named by an alert (the depth of a reorg in fork.py, beside
\* the check of the head's parent), unless the reorg alert about a head's parent
\* hides it or a task given up took its reorg for known.
ChainCovered ==
    Quiet /\ Calm =>
        \A i \in 1 .. Len(everHandled) :
            \A b \in Ancestors[everHandled[i]] :
                Slot[b] > Slot[everHandled[1]] =>
                    \/ b \in Range(everHandled) \/ Reported(b)
                    \/ Hidden(b) \/ Misjudged(b)
=============================================================================

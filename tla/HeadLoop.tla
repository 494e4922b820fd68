------------------------------ MODULE HeadLoop ------------------------------
(***************************************************************************)
(* The main loop of src/watcher.py (`run`, `_run`, `_handle_head`) and the *)
(* alert sending every handler inherits from src/handlers/handler.py.      *)
(*                                                                         *)
(* Each head gives unsync's thread pool one task per handler; the loop     *)
(* waits for them in the order of `self.handlers`.  The first failed task  *)
(* raises out of `_handle_head`: the head is not recorded, the tasks after *)
(* it stay in the pool (orphans), and the next iteration starts a new      *)
(* attempt, at the same head or at a newer one.  All attempts share a      *)
(* handler's `sent_alerts`.  The process may stop at any time and is       *)
(* started again by whoever runs it; it keeps nothing.                     *)
(*                                                                         *)
(* Abstracted: what a handler computes from a block is the constant        *)
(* Due[h][b]; polls that fail or find nothing new are stuttering steps;    *)
(* the pool takes queued tasks in any order.                               *)
(***************************************************************************)
EXTENDS Integers, Sequences, FiniteSets, Functions

CONSTANTS Blocks, Alerts, NumHandlers, Slot, Due, NoBlock,
          KeepHeaders,  \* KEEP_MAX_HANDLED_HEADERS_COUNT
          KeepAlerts,   \* KEEP_MAX_SENT_ALERTS
          Threads,      \* threads of unsync's pool the updaters leave free
          MaxFailures   \* bound: handler tasks that fail, and restarts

Handlers == 1 .. NumHandlers

\* An attempt needs a failure before it to overlap another one, so this many
\* identities are always enough: Poll is never blocked for want of one.
Attempts == 0 .. MaxFailures
NoAttempt == MaxFailures + 1

ASSUME NumHandlersAssumption == NumHandlers \in Nat
ASSUME SlotAssumption == Slot \in [Blocks -> Nat]
ASSUME DueAssumption == Due \in [Handlers -> [Blocks -> Seq(Alerts)]]
ASSUME NoBlockAssumption == NoBlock \notin Blocks
ASSUME KeepAssumption == KeepHeaders \in Nat \ {0} /\ KeepAlerts \in Nat
ASSUME ThreadsAssumption == Threads \in Nat \ {0}
ASSUME MaxFailuresAssumption == MaxFailures \in Nat

VARIABLES chainHead,    \* the head the consensus node reports
          handled,      \* Watcher.handled_headers
          head,         \* the head of the latest attempt
          attempt,      \* the attempt the loop waits for, NoAttempt between two
          task,         \* task[a][h]: the task of handler h in attempt a
          sentAlerts,   \* WatcherHandler.sent_alerts of each handler
          delivered,    \* alerts Alertmanager has accepted
          acked,        \* history: alerts h saw accepted since head changed
          late,         \* history: how many of them orphans appended
          failures      \* history: tasks that failed, and restarts

memory == <<sentAlerts, delivered, acked, late>>
vars == <<chainHead, handled, head, attempt, task, sentAlerts, delivered,
          acked, late, failures>>

-----------------------------------------------------------------------------
Idle == [state |-> "idle", block |-> NoBlock, todo |-> <<>>]

TaskType ==
    [state : {"idle", "queued", "check", "post", "ok", "failed"},
     block : Blocks \union {NoBlock},
     todo : Seq(Alerts)]

\* A task in one of the pool's threads; a task in the pool.
Running(t) == t.state \in {"check", "post"}
Pooled(t) == t.state = "queued" \/ Running(t)

Free(a) == a # attempt /\ \A h \in Handlers : ~Pooled(task[a][h])

\* Tasks that have a thread.
Busy == {p \in Attempts \X Handlers : Running(task[p[1]][p[2]])}

\* `handled_headers[-1]`, when there is one.
LastHandled == IF handled = <<>> THEN NoBlock ELSE handled[Len(handled)]

SameSlot(b, c) == b # NoBlock /\ c # NoBlock /\ Slot[b] = Slot[c]

\* Mutated form of Trim: the bound is tested one element late.
TrimLate(s, n) == IF Len(s) > n + 1 THEN Tail(s) ELSE s

\* Mutated form of Trim: the list is full one element early.
TrimEarly(s, n) == IF Len(s) >= n THEN Tail(s) ELSE s

\* `pop(0)` when the list has outgrown its bound.
Trim(s, n) == IF Len(s) > n THEN Tail(s) ELSE s

DueFor(b) == UNION {Range(Due[h][b]) : h \in Handlers}

Init ==
    /\ chainHead \in Blocks
    /\ handled = <<>>
    /\ head = NoBlock
    /\ attempt = NoAttempt
    /\ task = [a \in Attempts |-> [h \in Handlers |-> Idle]]
    /\ sentAlerts = [h \in Handlers |-> <<>>]
    /\ delivered = {}
    /\ acked = [h \in Handlers |-> {}]
    /\ late = [h \in Handlers |-> 0]
    /\ failures = 0

\* The consensus node follows the chain, or switches to another fork.
NewHead(b) ==
    /\ b # chainHead
    /\ chainHead' = b
    /\ UNCHANGED <<handled, head, attempt, task, memory, failures>>

-----------------------------------------------------------------------------
(* The main loop.                                                          *)

\* Mutated form of IsNewHead: compares with the head last tried.
NotTriedYet == ~SameSlot(chainHead, head)

\* `_get_header_full_info` answers None for the slot handled last.
IsNewHead == ~SameSlot(chainHead, LastHandled)

\* A new head is read and one task per handler is handed to the pool.
Poll(a) ==
    /\ attempt = NoAttempt
    /\ IsNewHead
    /\ Free(a)
    /\ \A o \in Attempts : Free(o) => a <= o
    /\ attempt' = a
    /\ head' = chainHead
    /\ task' = [task EXCEPT ![a] =
                   [h \in Handlers |-> [state |-> "queued", block |-> chainHead,
                                        todo |-> Due[h][chainHead]]]]
    /\ acked' = IF chainHead = head THEN acked ELSE [h \in Handlers |-> {}]
    /\ late' = IF chainHead = head THEN late ELSE [h \in Handlers |-> 0]
    /\ UNCHANGED <<chainHead, handled, sentAlerts, delivered, failures>>

\* What remains of an attempt the loop gives up: the tasks still in the pool.
Abandoned(a) ==
    [h \in Handlers |-> IF Pooled(task[a][h]) THEN task[a][h] ELSE Idle]

\* `t.result()` raises for the first failed task; `run` logs and goes on.
Raise ==
    /\ attempt # NoAttempt
    /\ \E h \in Handlers :
          /\ task[attempt][h].state = "failed"
          /\ \A g \in 1 .. (h - 1) : task[attempt][g].state = "ok"
    /\ task' = [task EXCEPT ![attempt] = Abandoned(attempt)]
    /\ attempt' = NoAttempt
    /\ UNCHANGED <<chainHead, handled, head, memory, failures>>

\* Mutated form of AllSucceeded: waits for the tasks and ignores how they end.
AllEnded == \A h \in Handlers : ~Pooled(task[attempt][h])

AllSucceeded == \A h \in Handlers : task[attempt][h].state = "ok"

\* Every result is in: the head is recorded.
Complete ==
    /\ attempt # NoAttempt
    /\ AllSucceeded
    /\ handled' = Trim(Append(handled, head), KeepHeaders)
    /\ task' = [task EXCEPT ![attempt] = [h \in Handlers |-> Idle]]
    /\ attempt' = NoAttempt
    /\ UNCHANGED <<chainHead, head, memory, failures>>

\* The process stops and is started again: the objects are new and empty.
\* (An answer lost in the moment it stops is PostOk before this step.)
Restart ==
    /\ failures < MaxFailures
    /\ failures' = failures + 1
    /\ handled' = <<>>
    /\ head' = NoBlock
    /\ attempt' = NoAttempt
    /\ task' = [a \in Attempts |-> [h \in Handlers |-> Idle]]
    /\ sentAlerts' = [h \in Handlers |-> <<>>]
    /\ acked' = [h \in Handlers |-> {}]
    /\ late' = [h \in Handlers |-> 0]
    /\ UNCHANGED <<chainHead, delivered>>

-----------------------------------------------------------------------------
(* A handler's task.                                                       *)

\* A thread of the pool is free and takes the task.
Start(a, h) ==
    /\ task[a][h].state = "queued"
    /\ Cardinality(Busy) < Threads
    /\ task' = [task EXCEPT ![a][h].state = "check"]
    /\ UNCHANGED <<chainHead, handled, head, attempt, memory, failures>>

\* The result of a task nobody waits for any more is dropped.
Ended(a, h, outcome) ==
    IF a = attempt THEN [task[a][h] EXCEPT !.state = outcome] ELSE Idle

\* `alert_is_sent`: an alert with these annotations was sent before.
Skip(a, h) ==
    LET t == task[a][h] IN
    /\ t.state = "check"
    /\ t.todo # <<>>
    /\ Head(t.todo) \in Range(sentAlerts[h])
    /\ task' = [task EXCEPT ![a][h].todo = Tail(@)]
    /\ UNCHANGED <<chainHead, handled, head, attempt, memory, failures>>

\* The alert is not remembered: it will be posted.
StartPost(a, h) ==
    LET t == task[a][h] IN
    /\ t.state = "check"
    /\ t.todo # <<>>
    /\ Head(t.todo) \notin Range(sentAlerts[h])
    /\ task' = [task EXCEPT ![a][h].state = "post"]
    /\ UNCHANGED <<chainHead, handled, head, attempt, memory, failures>>

\* Alertmanager accepts the alert, and the handler remembers it.
PostOk(a, h) ==
    LET t == task[a][h] IN
    /\ t.state = "post"
    /\ delivered' = delivered \union {Head(t.todo)}
    /\ sentAlerts' = [sentAlerts EXCEPT
                         ![h] = Trim(Append(@, Head(t.todo)), KeepAlerts)]
    /\ acked' = IF t.block = head
                  THEN [acked EXCEPT ![h] = @ \union {Head(t.todo)}]
                  ELSE acked
    /\ late' = IF a = attempt THEN late ELSE [late EXCEPT ![h] = @ + 1]
    /\ task' = [task EXCEPT ![a][h].state = "check", ![a][h].todo = Tail(@)]
    /\ UNCHANGED <<chainHead, handled, head, attempt, failures>>

\* The POST fails on every host or its answer is lost after it was accepted.
PostFails(a, h) ==
    LET t == task[a][h] IN
    /\ t.state = "post"
    /\ failures < MaxFailures
    /\ failures' = failures + 1
    /\ \/ delivered' = delivered \union {Head(t.todo)}
       \/ UNCHANGED delivered
    /\ task' = [task EXCEPT ![a][h] = Ended(a, h, "failed")]
    /\ UNCHANGED <<chainHead, handled, head, attempt, sentAlerts, acked, late>>

\* Anything else the handler calls raises, a request to a node for instance.
Crash(a, h) ==
    /\ task[a][h].state = "check"
    /\ failures < MaxFailures
    /\ failures' = failures + 1
    /\ task' = [task EXCEPT ![a][h] = Ended(a, h, "failed")]
    /\ UNCHANGED <<chainHead, handled, head, attempt, memory>>

\* `handle` returns.
Finish(a, h) ==
    /\ task[a][h].state = "check"
    /\ task[a][h].todo = <<>>
    /\ task' = [task EXCEPT ![a][h] = Ended(a, h, "ok")]
    /\ UNCHANGED <<chainHead, handled, head, attempt, memory, failures>>

Work(a, h) ==
    Start(a, h) \/ Skip(a, h) \/ StartPost(a, h) \/ PostOk(a, h) \/ Finish(a, h)

MainLoop == (\E a \in Attempts : Poll(a)) \/ Raise \/ Complete

Next ==
    \/ \E b \in Blocks : NewHead(b)
    \/ \E a \in Attempts : Poll(a)
    \/ Raise
    \/ Complete
    \/ Restart
    \/ \E a \in Attempts, h \in Handlers :
          \/ Start(a, h)
          \/ Skip(a, h)
          \/ StartPost(a, h)
          \/ PostOk(a, h)
          \/ PostFails(a, h)
          \/ Crash(a, h)
          \/ Finish(a, h)

Spec == Init /\ [][Next]_vars

\* Every thread is scheduled and the pool serves every task; the loop never
\* stops for good; requests have timeouts, and with finitely many failures one
\* of them is finally answered.
Fairness ==
    /\ WF_vars(MainLoop)
    /\ \A a \in Attempts, h \in Handlers : WF_vars(Work(a, h))

FairSpec == Spec /\ Fairness

-----------------------------------------------------------------------------
(* Properties.                                                             *)

PostsHaveAlerts ==
    \A a \in Attempts, h \in Handlers :
        task[a][h].state = "post" => task[a][h].todo # <<>>

\* Types, and the bounds of the two lists the code trims: handled_headers
\* (watcher.py, `_handle_head`) and sent_alerts (handler.py, `send_alert`).
TypeOK ==
    /\ chainHead \in Blocks
    /\ handled \in Seq(Blocks) /\ Len(handled) <= KeepHeaders
    /\ head \in Blocks \union {NoBlock}
    /\ attempt \in Attempts \union {NoAttempt}
    /\ attempt # NoAttempt => head \in Blocks
    /\ task \in [Attempts -> [Handlers -> TaskType]]
    /\ PostsHaveAlerts
    /\ sentAlerts \in [Handlers -> Seq(Alerts)]
    /\ \A h \in Handlers : Len(sentAlerts[h]) <= KeepAlerts
    /\ delivered \subseteq Alerts
    /\ acked \in [Handlers -> SUBSET Alerts]
    /\ late \in [Handlers -> Nat]
    /\ failures \in 0 .. MaxFailures

\* No head counts as handled while an alert due for it has not reached
\* Alertmanager, whatever failed, was retried or was left in the pool on the way:
\* the reason `_handle_head` appends only after every `t.result()`.
HandledMeansDelivered ==
    \A b \in Range(handled) : DueFor(b) \subseteq delivered

\* Nothing but orphans makes a handler forget.  What it saw accepted for the head
\* at hand is still remembered, so that a retry of this head does not send it
\* again, while sent_alerts has room for what is due for the head and for what
\* orphans of earlier attempts appended since it came: attempts at one head
\* never push out each other's alerts, nor do they append one twice.
OnlyOrphansPushOut ==
    \A h \in Handlers :
        /\ head # NoBlock
        /\ Cardinality(Range(Due[h][head])) + late[h] <= KeepAlerts
        => acked[h] \subseteq Range(sentAlerts[h])

\* A handler does not begin to post what it saw accepted for the head at hand:
\* KEEP_MAX_SENT_ALERTS is an "Enough count for different handlers to store in
\* memory" (handlers/handler.py).
NotSentAgain ==
    [][\A a \in Attempts, h \in Handlers :
          StartPost(a, h) /\ task[a][h].block = head
              => Head(task[a][h].todo) \notin acked[h]]_vars

\* A head that stays is handled in the end (or one of its slot was): failed
\* attempts are retried, orphans that hold threads of the pool never keep the
\* loop from it, and after a restart it is handled again.
StableHeadHandled ==
    \A b \in Blocks :
        <>[](chainHead = b) => <>[]SameSlot(b, LastHandled)

\* The abstract monitor: its last handled head is the newest recorded one.
Monitor == INSTANCE HeadMonitor WITH last <- LastHandled

\* The threaded, retrying loop implements the abstract monitor.
MonitorSpec == Monitor!Spec
=============================================================================

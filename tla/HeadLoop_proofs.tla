--------------------------- MODULE HeadLoop_proofs ---------------------------
(***************************************************************************)
(* Proofs about the main loop, for any number of handlers, heads, alerts,  *)
(* threads, failures and restarts, and any bounds of the two lists.        *)
(***************************************************************************)
EXTENDS HeadLoop, SequenceTheorems, FiniteSetTheorems, TLAPS

-----------------------------------------------------------------------------
(* The lists.                                                              *)

\* The elements of a list are its first one and those of the rest.
LEMMA RangeSplit ==
    ASSUME NEW S, NEW s \in Seq(S), s # <<>>
    PROVE  /\ Head(s) \in S
           /\ Tail(s) \in Seq(S)
           /\ Range(s) = {Head(s)} \union Range(Tail(s))
<1>1. Len(s) \in Nat \ {0} /\ DOMAIN s = 1 .. Len(s)
  OBVIOUS
<1>2. /\ Head(s) = s[1] /\ Head(s) \in S
      /\ Tail(s) \in Seq(S) /\ DOMAIN Tail(s) = 1 .. (Len(s) - 1)
      /\ \A i \in 1 .. (Len(s) - 1) : Tail(s)[i] = s[i + 1]
  BY <1>1
<1>3. ASSUME NEW i \in 1 .. Len(s), i # 1
      PROVE  /\ i - 1 \in 1 .. (Len(s) - 1)
             /\ Tail(s)[i - 1] = s[i]
  BY <1>1, <1>2, <1>3
<1>4. ASSUME NEW i \in 1 .. Len(s)
      PROVE  s[i] \in {Head(s)} \union Range(Tail(s))
  BY <1>2, <1>3 DEF Range
<1>5. ASSUME NEW i \in 1 .. (Len(s) - 1)
      PROVE  Tail(s)[i] \in Range(s)
  <2>1. i + 1 \in DOMAIN s /\ Tail(s)[i] = s[i + 1]
    BY <1>1, <1>2
  <2>2. QED
    BY <2>1 DEF Range
<1>6. Head(s) \in Range(s)
  BY <1>1, <1>2 DEF Range
<1>7. Range(s) \subseteq {Head(s)} \union Range(Tail(s))
  BY <1>1, <1>4 DEF Range
<1>8. Range(Tail(s)) \subseteq Range(s)
  BY <1>2, <1>5 DEF Range
<1>9. QED
  BY <1>2, <1>6, <1>7, <1>8

\* Append adds its argument and nothing else.
LEMMA RangeAppend ==
    ASSUME NEW S, NEW s \in Seq(S), NEW e \in S
    PROVE  /\ Append(s, e) \in Seq(S)
           /\ Len(Append(s, e)) = Len(s) + 1
           /\ Range(Append(s, e)) = Range(s) \union {e}
<1>1. /\ Len(s) \in Nat /\ DOMAIN s = 1 .. Len(s)
      /\ Append(s, e) \in Seq(S) /\ Len(Append(s, e)) = Len(s) + 1
      /\ DOMAIN Append(s, e) = 1 .. (Len(s) + 1)
      /\ \A i \in 1 .. Len(s) : Append(s, e)[i] = s[i]
      /\ Append(s, e)[Len(s) + 1] = e
  OBVIOUS
<1>2. Range(Append(s, e)) \subseteq Range(s) \union {e}
  BY <1>1 DEF Range
<1>3. Range(s) \union {e} \subseteq Range(Append(s, e))
  BY <1>1 DEF Range
<1>4. QED
  BY <1>1, <1>2, <1>3

\* Trimming after one append restores the bound and invents nothing.
LEMMA TrimBounds ==
    ASSUME NEW S, NEW s \in Seq(S), NEW n \in Nat, Len(s) <= n + 1
    PROVE  /\ Trim(s, n) \in Seq(S)
           /\ Len(Trim(s, n)) <= n
           /\ Range(Trim(s, n)) \subseteq Range(s)
<1>1. CASE Len(s) > n
  <2>1. s # <<>> /\ Trim(s, n) = Tail(s)
    BY <1>1 DEF Trim
  <2>2. Len(Tail(s)) = Len(s) - 1
    BY <2>1
  <2>3. QED
    BY <2>1, <2>2, RangeSplit
<1>2. CASE ~(Len(s) > n)
  BY <1>2 DEF Trim
<1>3. QED
  BY <1>1, <1>2

\* With room for one head the newest head is never the one trimmed.
LEMMA TrimKeepsLast ==
    ASSUME NEW S, NEW s \in Seq(S), s # <<>>, NEW n \in Nat \ {0}
    PROVE  /\ Trim(s, n) # <<>>
           /\ Trim(s, n)[Len(Trim(s, n))] = s[Len(s)]
<1>1. CASE Len(s) > n
  <2>1. Trim(s, n) = Tail(s) /\ Len(s) \in Nat /\ Len(s) > 1
    BY <1>1 DEF Trim
  <2>2. Tail(s) \in Seq(S) /\ Len(Tail(s)) = Len(s) - 1
    OBVIOUS
  <2>3. Tail(s)[Len(s) - 1] = s[Len(s)]
    BY <2>1, <2>2
  <2>4. Tail(s) # <<>>
    <3>1. Len(Tail(s)) # 0
      BY <2>1, <2>2
    <3>2. QED
      BY <3>1, EmptySeq
  <2>5. QED
    BY <2>1, <2>2, <2>3, <2>4
<1>2. CASE ~(Len(s) > n)
  BY <1>2 DEF Trim
<1>3. QED
  BY <1>1, <1>2

-----------------------------------------------------------------------------
(* Type correctness.                                                       *)

USE NumHandlersAssumption, SlotAssumption, DueAssumption, NoBlockAssumption,
    KeepAssumption, ThreadsAssumption, MaxFailuresAssumption

\* Expanded everywhere: the group of variables most actions leave alone.
USE DEF memory

States == {"idle", "queued", "check", "post", "ok", "failed"}

\* Every task but the one of handler h in attempt a is left alone.
OthersKept(a, h) ==
    \A o \in Attempts, g \in Handlers :
       ~(o = a /\ g = h) => task'[o][g] = task[o][g]

\* An idle task is a task.
LEMMA IdleType == Idle \in TaskType
BY DEF Idle, TaskType

\* What a step writes into a task.
LEMMA TaskFields ==
    ASSUME NEW t \in TaskType
    PROVE  /\ t = [state |-> t.state, block |-> t.block, todo |-> t.todo]
           /\ t.state \in States /\ t.block \in Blocks \union {NoBlock}
           /\ t.todo \in Seq(Alerts)
BY DEF TaskType, States

\* A task with another state: still a task, nothing else changed.
LEMMA StateUpdate ==
    ASSUME NEW t \in TaskType, NEW st \in States
    PROVE  /\ [t EXCEPT !.state = st] \in TaskType
           /\ [t EXCEPT !.state = st].state = st
           /\ [t EXCEPT !.state = st].block = t.block
           /\ [t EXCEPT !.state = st].todo = t.todo
BY TaskFields DEF TaskType, States

\* A task with other alerts to send: still a task, nothing else changed.
LEMMA TodoUpdate ==
    ASSUME NEW t \in TaskType, NEW rest \in Seq(Alerts)
    PROVE  /\ [t EXCEPT !.todo = rest] \in TaskType
           /\ [t EXCEPT !.todo = rest].state = t.state
           /\ [t EXCEPT !.todo = rest].block = t.block
           /\ [t EXCEPT !.todo = rest].todo = rest
BY TaskFields DEF TaskType, States

\* A task back at its check, with other alerts to send.
LEMMA BothUpdate ==
    ASSUME NEW t \in TaskType, NEW rest \in Seq(Alerts)
    PROVE  LET u == [t EXCEPT !.state = "check", !.todo = rest]
           IN  /\ u \in TaskType
               /\ u.state = "check" /\ u.block = t.block /\ u.todo = rest
BY TaskFields DEF TaskType, States

\* What an ended task leaves behind.
LEMMA EndedTask ==
    ASSUME TypeOK, NEW a \in Attempts, NEW h \in Handlers,
           NEW outcome \in {"ok", "failed"}
    PROVE  /\ Ended(a, h, outcome) \in TaskType
           /\ Ended(a, h, outcome).state \in {outcome, "idle"}
           /\ a = attempt => /\ Ended(a, h, outcome).block = task[a][h].block
                             /\ Ended(a, h, outcome).todo = task[a][h].todo
           /\ a # attempt => Ended(a, h, outcome).state = "idle"
<1>1. task[a][h] \in TaskType
  BY DEF TypeOK
<1>2. outcome \in States /\ task[a][h].todo \in Seq(Alerts)
  BY <1>1 DEF TaskType, States
<1>3. /\ [task[a][h] EXCEPT !.state = outcome] \in TaskType
      /\ [task[a][h] EXCEPT !.state = outcome].state = outcome
      /\ [task[a][h] EXCEPT !.state = outcome].block = task[a][h].block
      /\ [task[a][h] EXCEPT !.state = outcome].todo = task[a][h].todo
  BY <1>1, <1>2, StateUpdate
<1>4. Idle \in TaskType /\ Idle.state = "idle"
  BY IdleType DEF Idle
<1>5. CASE a = attempt
  BY <1>3, <1>5 DEF Ended
<1>6. CASE a # attempt
  BY <1>4, <1>6 DEF Ended
<1>7. QED
  BY <1>5, <1>6

\* A handler's step replaces its own task and no other.
LEMMA OneTask ==
    ASSUME TypeOK, NEW a \in Attempts, NEW h \in Handlers, NEW u \in TaskType,
           u.state = "post" => u.todo # <<>>,
           task' = [task EXCEPT ![a][h] = u]
    PROVE  /\ task' \in [Attempts -> [Handlers -> TaskType]]
           /\ OthersKept(a, h) /\ task'[a][h] = u
           /\ PostsHaveAlerts'
<1>1. task \in [Attempts -> [Handlers -> TaskType]]
  BY DEF TypeOK
<1>2. task' \in [Attempts -> [Handlers -> TaskType]]
  BY <1>1
<1>3. OthersKept(a, h) /\ task'[a][h] = u
  BY <1>1 DEF OthersKept
<1>4. PostsHaveAlerts'
  BY <1>2, <1>3 DEF TypeOK, PostsHaveAlerts, OthersKept
<1>5. QED
  BY <1>2, <1>3, <1>4

\* A whole attempt is replaced, when it starts and when it ends.
LEMMA OneAttempt ==
    ASSUME TypeOK, NEW a \in Attempts, NEW f \in [Handlers -> TaskType],
           \A g \in Handlers : f[g].state = "post" => f[g].todo # <<>>,
           task' = [task EXCEPT ![a] = f]
    PROVE  /\ task' \in [Attempts -> [Handlers -> TaskType]]
           /\ \A o \in Attempts, g \in Handlers :
                 task'[o][g] = IF o = a THEN f[g] ELSE task[o][g]
           /\ PostsHaveAlerts'
<1>1. task \in [Attempts -> [Handlers -> TaskType]]
  BY DEF TypeOK
<1>2. task' \in [Attempts -> [Handlers -> TaskType]]
  BY <1>1
<1>3. \A o \in Attempts, g \in Handlers :
         task'[o][g] = IF o = a THEN f[g] ELSE task[o][g]
  BY <1>1
<1>4. QED
  BY <1>2, <1>3 DEF TypeOK, PostsHaveAlerts

-----------------------------------------------------------------------------
(* What each action does to the tasks, as facts about single tasks.        *)

\* The tasks after a poll: those of the new attempt have all their alerts
\* ahead of them.
LEMMA PollTasks ==
    ASSUME TypeOK, NEW a \in Attempts, Poll(a)
    PROVE  /\ task' \in [Attempts -> [Handlers -> TaskType]]
           /\ \A g \in Handlers :
                 task'[a][g] = [state |-> "queued", block |-> chainHead,
                                todo |-> Due[g][chainHead]]
           /\ \A o \in Attempts, g \in Handlers :
                 o # a => task'[o][g] = task[o][g]
           /\ PostsHaveAlerts'
<1> DEFINE f == [g \in Handlers |-> [state |-> "queued", block |-> chainHead,
                                     todo |-> Due[g][chainHead]]]
<1>1. \A g \in Handlers : Due[g][chainHead] \in Seq(Alerts)
  BY DEF TypeOK
<1>2. f \in [Handlers -> TaskType]
  BY <1>1 DEF TypeOK, TaskType
<1>3. \A g \in Handlers : f[g].state = "queued"
  OBVIOUS
<1>4. task' = [task EXCEPT ![a] = f]
  BY DEF Poll
<1> HIDE DEF f
<1>5. /\ task' \in [Attempts -> [Handlers -> TaskType]]
      /\ \A o \in Attempts, g \in Handlers :
            task'[o][g] = IF o = a THEN f[g] ELSE task[o][g]
      /\ PostsHaveAlerts'
  BY <1>2, <1>3, <1>4, OneAttempt
<1>6. QED
  BY <1>5 DEF f

\* The tasks after the loop gave an attempt up.
LEMMA RaiseTasks ==
    ASSUME TypeOK, Raise
    PROVE  /\ attempt \in Attempts
           /\ task' \in [Attempts -> [Handlers -> TaskType]]
           /\ \A o \in Attempts, g \in Handlers :
                 task'[o][g] = IF o = attempt /\ ~Pooled(task[o][g])
                                 THEN Idle
                                 ELSE task[o][g]
           /\ PostsHaveAlerts'
<1> DEFINE f == Abandoned(attempt)
<1>1. attempt \in Attempts
  BY DEF Raise, TypeOK
<1>2. f \in [Handlers -> TaskType]
  BY <1>1, IdleType DEF Abandoned, TypeOK
<1>3. \A g \in Handlers : f[g] = IF Pooled(task[attempt][g])
                                   THEN task[attempt][g] ELSE Idle
  BY DEF Abandoned
<1>4. ASSUME NEW g \in Handlers, f[g].state = "post" PROVE f[g].todo # <<>>
  <2>1. Idle.state # "post"
    BY DEF Idle
  <2>2. f[g] = task[attempt][g]
    BY <1>3, <1>4, <2>1
  <2>3. QED
    BY <1>1, <1>4, <2>2 DEF TypeOK, PostsHaveAlerts
<1>5. task' = [task EXCEPT ![attempt] = f]
  BY DEF Raise
<1> HIDE DEF f
<1>6. /\ task' \in [Attempts -> [Handlers -> TaskType]]
      /\ \A o \in Attempts, g \in Handlers :
            task'[o][g] = IF o = attempt THEN f[g] ELSE task[o][g]
      /\ PostsHaveAlerts'
  BY <1>1, <1>2, <1>4, <1>5, OneAttempt
<1>7. QED
  BY <1>1, <1>3, <1>6

\* The tasks and the list after a head was recorded.
LEMMA CompleteTasks ==
    ASSUME TypeOK, Complete
    PROVE  /\ attempt \in Attempts /\ head \in Blocks
           /\ task' \in [Attempts -> [Handlers -> TaskType]]
           /\ \A o \in Attempts, g \in Handlers :
                 task'[o][g] = IF o = attempt THEN Idle ELSE task[o][g]
           /\ PostsHaveAlerts'
           /\ handled' \in Seq(Blocks) /\ Len(handled') <= KeepHeaders
           /\ Range(handled') \subseteq Range(handled) \union {head}
           /\ LastHandled' = head
<1> DEFINE f == [g \in Handlers |-> Idle]
<1>1. attempt \in Attempts /\ head \in Blocks
  BY DEF Complete, TypeOK
<1>2. /\ f \in [Handlers -> TaskType]
      /\ \A g \in Handlers : f[g] = Idle /\ f[g].state = "idle"
  BY IdleType DEF Idle
<1>3. task' = [task EXCEPT ![attempt] = f]
  BY DEF Complete
<1> HIDE DEF f
<1>4. /\ task' \in [Attempts -> [Handlers -> TaskType]]
      /\ \A o \in Attempts, g \in Handlers :
            task'[o][g] = IF o = attempt THEN f[g] ELSE task[o][g]
      /\ PostsHaveAlerts'
  BY <1>1, <1>2, <1>3, OneAttempt
<1> DEFINE longer == Append(handled, head)
<1>5. /\ longer \in Seq(Blocks) /\ longer # <<>>
      /\ Len(longer) = Len(handled) + 1 /\ longer[Len(longer)] = head
      /\ Range(longer) = Range(handled) \union {head}
  <2>1. handled \in Seq(Blocks)
    BY DEF TypeOK
  <2>2. /\ longer \in Seq(Blocks) /\ Len(longer) = Len(handled) + 1
        /\ Range(longer) = Range(handled) \union {head}
    BY <1>1, <2>1, RangeAppend
  <2>3. longer[Len(handled) + 1] = head
    BY <1>1, <2>1
  <2>4. longer # <<>>
    BY <1>1, <2>1, AppendProperties
  <2>5. QED
    BY <2>2, <2>3, <2>4
<1>6. Len(longer) <= KeepHeaders + 1
  BY <1>5 DEF TypeOK
<1>7. handled' = Trim(longer, KeepHeaders)
  BY DEF Complete
<1> HIDE DEF longer
<1>8. /\ handled' \in Seq(Blocks) /\ Len(handled') <= KeepHeaders
      /\ Range(handled') \subseteq Range(longer)
  BY <1>5, <1>6, <1>7, TrimBounds
<1>9. handled' # <<>> /\ handled'[Len(handled')] = head
  BY <1>5, <1>7, TrimKeepsLast
<1>10. LastHandled' = head
  BY <1>9 DEF LastHandled
<1>11. QED
  BY <1>1, <1>2, <1>4, <1>5, <1>8, <1>10

\* The tasks and the lists after a restart are those of a new process.
LEMMA RestartTasks ==
    ASSUME TypeOK, Restart
    PROVE  /\ task' \in [Attempts -> [Handlers -> TaskType]]
           /\ \A a \in Attempts, h \in Handlers : task'[a][h] = Idle
           /\ PostsHaveAlerts'
           /\ sentAlerts' = [h \in Handlers |-> <<>>]
           /\ failures' \in 0 .. MaxFailures
<1>1. task' = [a \in Attempts |-> [h \in Handlers |-> Idle]]
  BY DEF Restart
<1>2. /\ task' \in [Attempts -> [Handlers -> TaskType]]
      /\ \A a \in Attempts, h \in Handlers : task'[a][h] = Idle
  BY <1>1, IdleType
<1>3. Idle.state = "idle"
  BY DEF Idle
<1>4. PostsHaveAlerts'
  BY <1>2, <1>3 DEF PostsHaveAlerts
<1>5. failures' \in 0 .. MaxFailures
  BY DEF Restart, TypeOK
<1>6. QED
  BY <1>2, <1>4, <1>5 DEF Restart

\* A task that is given a thread.
LEMMA StartTask ==
    ASSUME TypeOK, NEW a \in Attempts, NEW h \in Handlers, Start(a, h)
    PROVE  /\ task' \in [Attempts -> [Handlers -> TaskType]]
           /\ OthersKept(a, h)
           /\ task'[a][h] = [task[a][h] EXCEPT !.state = "check"]
           /\ PostsHaveAlerts'
<1> DEFINE u == [task[a][h] EXCEPT !.state = "check"]
<1>1. task[a][h] \in TaskType
  BY DEF TypeOK
<1>2. u \in TaskType /\ u.state # "post"
  <2>1. u \in TaskType /\ u.state = "check"
    BY <1>1, StateUpdate DEF States
  <2>2. QED
    BY <2>1
<1>3. task' = [task EXCEPT ![a][h] = u]
  BY DEF Start
<1> HIDE DEF u
<1>4. /\ task' \in [Attempts -> [Handlers -> TaskType]]
      /\ OthersKept(a, h) /\ task'[a][h] = u
      /\ PostsHaveAlerts'
  BY <1>2, <1>3, OneTask
<1>5. QED
  BY <1>4 DEF u

\* A task that passes over an alert its handler remembers.
LEMMA SkipTask ==
    ASSUME TypeOK, NEW a \in Attempts, NEW h \in Handlers, Skip(a, h)
    PROVE  /\ task' \in [Attempts -> [Handlers -> TaskType]]
           /\ task[a][h].todo \in Seq(Alerts) /\ task[a][h].todo # <<>>
           /\ OthersKept(a, h)
           /\ task'[a][h] = [task[a][h] EXCEPT !.todo = Tail(@)]
           /\ PostsHaveAlerts'
<1> DEFINE t == task[a][h]
           u == [t EXCEPT !.todo = Tail(t.todo)]
<1>1. t \in TaskType /\ t.todo \in Seq(Alerts) /\ t.todo # <<>>
  BY DEF Skip, TypeOK, TaskType
<1>2. t.state = "check"
  BY DEF Skip
<1>3. u \in TaskType /\ u.state # "post"
  <2>1. Tail(t.todo) \in Seq(Alerts)
    BY <1>1, RangeSplit
  <2>2. u \in TaskType /\ u.state = t.state
    BY <1>1, <2>1, TodoUpdate
  <2>3. QED
    BY <1>2, <2>2
<1>4. task' = [task EXCEPT ![a][h] = u]
  BY DEF Skip
<1> HIDE DEF u
<1>5. /\ task' \in [Attempts -> [Handlers -> TaskType]]
      /\ OthersKept(a, h) /\ task'[a][h] = u
      /\ PostsHaveAlerts'
  BY <1>3, <1>4, OneTask
<1>6. QED
  BY <1>1, <1>5 DEF u

\* A task about to post the alert at the head of its list.
LEMMA StartPostTask ==
    ASSUME TypeOK, NEW a \in Attempts, NEW h \in Handlers, StartPost(a, h)
    PROVE  /\ task' \in [Attempts -> [Handlers -> TaskType]]
           /\ OthersKept(a, h)
           /\ task'[a][h] = [task[a][h] EXCEPT !.state = "post"]
           /\ PostsHaveAlerts'
<1> DEFINE t == task[a][h]
           u == [t EXCEPT !.state = "post"]
<1>1. t \in TaskType /\ t.todo \in Seq(Alerts) /\ t.todo # <<>>
  BY DEF StartPost, TypeOK, TaskType
<1>2. u \in TaskType /\ u.todo # <<>>
  BY <1>1, StateUpdate DEF States
<1>3. task' = [task EXCEPT ![a][h] = u]
  BY DEF StartPost
<1> HIDE DEF u
<1>4. /\ task' \in [Attempts -> [Handlers -> TaskType]]
      /\ OthersKept(a, h) /\ task'[a][h] = u
      /\ PostsHaveAlerts'
  BY <1>2, <1>3, OneTask
<1>5. QED
  BY <1>4 DEF u

\* A task whose alert was accepted, and what its handler then remembers.
LEMMA PostOkTask ==
    ASSUME TypeOK, NEW a \in Attempts, NEW h \in Handlers, PostOk(a, h)
    PROVE  /\ task' \in [Attempts -> [Handlers -> TaskType]]
           /\ task[a][h].todo \in Seq(Alerts) /\ task[a][h].todo # <<>>
           /\ Head(task[a][h].todo) \in Alerts
           /\ OthersKept(a, h)
           /\ task'[a][h] =
                 [task[a][h] EXCEPT !.state = "check", !.todo = Tail(@)]
           /\ PostsHaveAlerts'
           /\ sentAlerts' \in [Handlers -> Seq(Alerts)]
           /\ \A g \in Handlers :
                 /\ Len(sentAlerts'[g]) <= KeepAlerts
                 /\ Range(sentAlerts'[g]) \subseteq
                       Range(sentAlerts[g]) \union {Head(task[a][h].todo)}
           /\ delivered' = delivered \union {Head(task[a][h].todo)}
           /\ acked' \in [Handlers -> SUBSET Alerts]
           /\ late' \in [Handlers -> Nat]
<1> DEFINE t == task[a][h]
           u == [t EXCEPT !.state = "check", !.todo = Tail(t.todo)]
           longer == Append(sentAlerts[h], Head(t.todo))
<1>1. t \in TaskType /\ t.todo \in Seq(Alerts) /\ t.todo # <<>>
  BY DEF PostOk, TypeOK, TaskType, PostsHaveAlerts
<1>2. Head(t.todo) \in Alerts /\ Tail(t.todo) \in Seq(Alerts)
  BY <1>1, RangeSplit
<1>3. u \in TaskType /\ u.state # "post"
  <2>1. u \in TaskType /\ u.state = "check"
    BY <1>1, <1>2, BothUpdate
  <2>2. QED
    BY <2>1
<1>4. task' = [task EXCEPT ![a][h] = u]
  BY DEF PostOk
<1>5. sentAlerts[h] \in Seq(Alerts) /\ Len(sentAlerts[h]) <= KeepAlerts
  BY DEF TypeOK
<1>6. /\ longer \in Seq(Alerts)
      /\ Len(longer) = Len(sentAlerts[h]) + 1
      /\ Range(longer) = Range(sentAlerts[h]) \union {Head(t.todo)}
  BY <1>2, <1>5, RangeAppend
<1>7. sentAlerts' = [sentAlerts EXCEPT ![h] = Trim(longer, KeepAlerts)]
  BY DEF PostOk
<1>8. /\ delivered' = delivered \union {Head(t.todo)}
      /\ acked' = IF t.block = head
                    THEN [acked EXCEPT ![h] = @ \union {Head(t.todo)}]
                    ELSE acked
  BY DEF PostOk
<1> HIDE DEF u, longer
<1>9. /\ task' \in [Attempts -> [Handlers -> TaskType]]
      /\ OthersKept(a, h) /\ task'[a][h] = u
      /\ PostsHaveAlerts'
  BY <1>3, <1>4, OneTask
<1>10. Len(longer) <= KeepAlerts + 1
  BY <1>5, <1>6
<1>11. /\ Trim(longer, KeepAlerts) \in Seq(Alerts)
       /\ Len(Trim(longer, KeepAlerts)) <= KeepAlerts
       /\ Range(Trim(longer, KeepAlerts)) \subseteq Range(longer)
  BY <1>6, <1>10, TrimBounds
<1>12. sentAlerts' \in [Handlers -> Seq(Alerts)]
  BY <1>7, <1>11 DEF TypeOK
<1>13. ASSUME NEW g \in Handlers
       PROVE  /\ Len(sentAlerts'[g]) <= KeepAlerts
              /\ Range(sentAlerts'[g]) \subseteq
                    Range(sentAlerts[g]) \union {Head(t.todo)}
  <2>1. sentAlerts'[g] = IF g = h THEN Trim(longer, KeepAlerts)
                                  ELSE sentAlerts[g]
    BY <1>7 DEF TypeOK
  <2>2. Len(sentAlerts[g]) <= KeepAlerts
    BY DEF TypeOK
  <2>3. QED
    BY <2>1, <2>2, <1>6, <1>11
<1>14. acked' \in [Handlers -> SUBSET Alerts]
  BY <1>2, <1>8 DEF TypeOK
<1>15. late' \in [Handlers -> Nat]
  BY DEF PostOk, TypeOK
<1>16. QED
  BY <1>1, <1>2, <1>8, <1>9, <1>12, <1>13, <1>14, <1>15 DEF u

\* A task whose POST or whose other work failed.
LEMMA FailedTask ==
    ASSUME TypeOK, NEW a \in Attempts, NEW h \in Handlers,
           PostFails(a, h) \/ Crash(a, h)
    PROVE  /\ task' \in [Attempts -> [Handlers -> TaskType]]
           /\ OthersKept(a, h) /\ task'[a][h] = Ended(a, h, "failed")
           /\ PostsHaveAlerts'
           /\ PostFails(a, h) => Head(task[a][h].todo) \in Alerts
           /\ failures' \in 0 .. MaxFailures
<1> DEFINE u == Ended(a, h, "failed")
<1>1. u \in TaskType /\ u.state # "post"
  BY EndedTask
<1>2. task' = [task EXCEPT ![a][h] = u]
  BY DEF PostFails, Crash
<1> HIDE DEF u
<1>3. /\ task' \in [Attempts -> [Handlers -> TaskType]]
      /\ OthersKept(a, h) /\ task'[a][h] = u
      /\ PostsHaveAlerts'
  BY <1>1, <1>2, OneTask
<1>4. failures' \in 0 .. MaxFailures
  BY DEF PostFails, Crash, TypeOK
<1>5. ASSUME PostFails(a, h) PROVE Head(task[a][h].todo) \in Alerts
  <2>1. task[a][h].todo \in Seq(Alerts) /\ task[a][h].todo # <<>>
    BY <1>5 DEF PostFails, TypeOK, TaskType, PostsHaveAlerts
  <2>2. QED
    BY <2>1, RangeSplit
<1>6. QED
  BY <1>3, <1>4, <1>5 DEF u

\* A task that returns.
LEMMA FinishTask ==
    ASSUME TypeOK, NEW a \in Attempts, NEW h \in Handlers, Finish(a, h)
    PROVE  /\ task' \in [Attempts -> [Handlers -> TaskType]]
           /\ OthersKept(a, h) /\ task'[a][h] = Ended(a, h, "ok")
           /\ PostsHaveAlerts'
<1> DEFINE u == Ended(a, h, "ok")
<1>1. u \in TaskType /\ u.state # "post"
  BY EndedTask
<1>2. task' = [task EXCEPT ![a][h] = u]
  BY DEF Finish
<1> HIDE DEF u
<1>3. /\ task' \in [Attempts -> [Handlers -> TaskType]]
      /\ OthersKept(a, h) /\ task'[a][h] = u
      /\ PostsHaveAlerts'
  BY <1>1, <1>2, OneTask
<1>4. QED
  BY <1>3 DEF u

-----------------------------------------------------------------------------

\* The watcher starts well typed.
LEMMA TypeInit == Init => TypeOK
<1> SUFFICES ASSUME Init PROVE TypeOK
  OBVIOUS
<1>1. \A h \in Handlers : <<>> \in Seq(Alerts) /\ Len(<<>>) <= KeepAlerts
  OBVIOUS
<1>2. task = [a \in Attempts |-> [h \in Handlers |-> Idle]]
  BY DEF Init
<1>3. /\ task \in [Attempts -> [Handlers -> TaskType]]
      /\ \A a \in Attempts, h \in Handlers : task[a][h] = Idle
  BY <1>2, IdleType
<1>4. Idle.state = "idle"
  BY DEF Idle
<1>5. QED
  BY <1>1, <1>3, <1>4 DEF Init, TypeOK, NoAttempt, PostsHaveAlerts

\* Every step keeps the types and the bounds of the lists.
LEMMA TypeStep == TypeOK /\ [Next]_vars => TypeOK'
<1> SUFFICES ASSUME TypeOK, [Next]_vars PROVE TypeOK'
  OBVIOUS
<1>1. ASSUME NEW b \in Blocks, NewHead(b) PROVE TypeOK'
  BY <1>1 DEF NewHead, TypeOK, PostsHaveAlerts
<1>2. ASSUME NEW a \in Attempts, Poll(a) PROVE TypeOK'
  <2>1. (acked \in [Handlers -> SUBSET Alerts])' /\ (late \in [Handlers -> Nat])'
    BY <1>2 DEF Poll, TypeOK
  <2>2. QED
    BY <1>2, <2>1, PollTasks DEF Poll, TypeOK
<1>3. CASE Raise
  BY <1>3, RaiseTasks DEF Raise, TypeOK
<1>4. CASE Complete
  BY <1>4, CompleteTasks DEF Complete, TypeOK
<1>5. ASSUME NEW a \in Attempts, NEW h \in Handlers, Skip(a, h) PROVE TypeOK'
  BY <1>5, SkipTask DEF Skip, TypeOK
<1>6. ASSUME NEW a \in Attempts, NEW h \in Handlers, StartPost(a, h)
      PROVE  TypeOK'
  BY <1>6, StartPostTask DEF StartPost, TypeOK
<1>7. ASSUME NEW a \in Attempts, NEW h \in Handlers, PostOk(a, h) PROVE TypeOK'
  <2>1. delivered' \subseteq Alerts
    <3>1. /\ Head(task[a][h].todo) \in Alerts
          /\ delivered' = delivered \union {Head(task[a][h].todo)}
      BY <1>7, PostOkTask
    <3>2. QED
      BY <3>1 DEF TypeOK
  <2>2. (\A g \in Handlers : Len(sentAlerts[g]) <= KeepAlerts)'
    BY <1>7, PostOkTask
  <2>3. QED
    BY <1>7, <2>1, <2>2, PostOkTask DEF PostOk, TypeOK
<1>8. ASSUME NEW a \in Attempts, NEW h \in Handlers, PostFails(a, h)
      PROVE  TypeOK'
  BY <1>8, FailedTask DEF PostFails, TypeOK
<1>9. ASSUME NEW a \in Attempts, NEW h \in Handlers, Crash(a, h) PROVE TypeOK'
  BY <1>9, FailedTask DEF Crash, TypeOK
<1>10. ASSUME NEW a \in Attempts, NEW h \in Handlers, Finish(a, h)
       PROVE  TypeOK'
  BY <1>10, FinishTask DEF Finish, TypeOK
<1>11. ASSUME NEW a \in Attempts, NEW h \in Handlers, Start(a, h)
       PROVE  TypeOK'
  BY <1>11, StartTask DEF Start, TypeOK
<1>12. CASE Restart
  <2>1. \A h \in Handlers : <<>> \in Seq(Alerts) /\ Len(<<>>) <= KeepAlerts
    OBVIOUS
  <2>2. (sentAlerts \in [Handlers -> Seq(Alerts)])'
        /\ (\A h \in Handlers : Len(sentAlerts[h]) <= KeepAlerts)'
    BY <1>12, <2>1, RestartTasks
  <2>3. QED
    BY <1>12, <2>2, RestartTasks DEF Restart, TypeOK, NoAttempt
<1>13. CASE UNCHANGED vars
  BY <1>13 DEF vars, TypeOK, PostsHaveAlerts
<1>14. QED
  BY <1>1, <1>2, <1>3, <1>4, <1>5, <1>6, <1>7, <1>8, <1>9, <1>10, <1>11,
     <1>12, <1>13 DEF Next

\* The main loop keeps its types and the bounds of its two lists.
THEOREM TypeCorrect == Spec => []TypeOK
<1>1. QED
  BY TypeInit, TypeStep, PTL DEF Spec

-----------------------------------------------------------------------------
(* The inductive invariant.  HandledMeansDelivered alone is not inductive: *)
(* a head is recorded because its tasks are "ok", so the invariant says    *)
(* what a task has achieved so far, and why an alert that is only          *)
(* remembered, not posted again, has been delivered all the same.          *)

\* Alerts are remembered only after Alertmanager accepted them.
SentDelivered == \A h \in Handlers : Range(sentAlerts[h]) \subseteq delivered

\* What is due for a task's block was delivered or is still ahead of it.
Progress(t, h) ==
    t.state \in {"queued", "check", "post", "ok"} =>
        /\ t.block \in Blocks
        /\ Range(Due[h][t.block]) \subseteq delivered \union Range(t.todo)
        /\ t.state = "ok" => t.todo = <<>>

TasksProgress ==
    \A a \in Attempts, h \in Handlers : Progress(task[a][h], h)

\* The tasks the loop waits for are about the head it will record.
CurrentTasks ==
    attempt # NoAttempt => \A h \in Handlers : task[attempt][h].block = head

\* While an attempt lasts, its head stays one that was not handled last.
FreshHead == attempt # NoAttempt => ~SameSlot(head, LastHandled)

IInv ==
    /\ TypeOK
    /\ SentDelivered
    /\ TasksProgress
    /\ CurrentTasks
    /\ FreshHead
    /\ HandledMeansDelivered

\* An idle task owes nothing.
LEMMA IdleProgress ==
    ASSUME NEW h PROVE Progress(Idle, h)
BY DEF Progress, Idle

\* The invariant holds when the watcher starts.
LEMMA InvInit == Init => IInv
<1> SUFFICES ASSUME Init PROVE IInv
  OBVIOUS
<1>1. TypeOK
  BY TypeInit
<1>2. Range(<<>>) = {}
  BY EmptySeq DEF Range
<1>3. SentDelivered
  BY <1>2 DEF Init, SentDelivered
<1>4. TasksProgress
  BY IdleProgress DEF Init, TasksProgress
<1>5. CurrentTasks /\ FreshHead
  BY DEF Init, CurrentTasks, FreshHead
<1>6. HandledMeansDelivered
  BY <1>2 DEF Init, HandledMeansDelivered
<1>7. QED
  BY <1>1, <1>3, <1>4, <1>5, <1>6 DEF IInv

\* What keeps the invariant when a handler of attempt a replaced its task by
\* u and the loop's own variables did not change.
LEMMA HandlerStep ==
    ASSUME IInv, TypeOK', NEW a \in Attempts, NEW h \in Handlers, NEW u,
           OthersKept(a, h) /\ task'[a][h] = u,
           delivered \subseteq delivered',
           SentDelivered',
           Progress(u, h)',
           a = attempt => u.block = task[a][h].block,
           UNCHANGED <<handled, head, attempt>>
    PROVE  IInv'
<1>1. TasksProgress'
  <2> SUFFICES ASSUME NEW o \in Attempts, NEW g \in Handlers
               PROVE  Progress(task[o][g], g)'
    BY DEF TasksProgress
  <2>1. CASE o = a /\ g = h
    BY <2>1 DEF Progress
  <2>2. CASE ~(o = a /\ g = h)
    <3>1. Progress(task[o][g], g) /\ task'[o][g] = task[o][g]
      BY <2>2 DEF IInv, TasksProgress, OthersKept
    <3>2. QED
      BY <3>1 DEF Progress
  <2>3. QED
    BY <2>1, <2>2
<1>2. CurrentTasks'
  <2> SUFFICES ASSUME attempt # NoAttempt, NEW g \in Handlers
               PROVE  task'[attempt][g].block = head
    BY DEF CurrentTasks
  <2>1. attempt \in Attempts /\ task[attempt][g].block = head
    BY DEF IInv, TypeOK, CurrentTasks
  <2>2. QED
    BY <2>1 DEF OthersKept
<1>3. FreshHead'
  BY DEF IInv, FreshHead, LastHandled, SameSlot
<1>4. HandledMeansDelivered'
  BY DEF IInv, HandledMeansDelivered, DueFor
<1>5. QED
  BY <1>1, <1>2, <1>3, <1>4 DEF IInv

\* What keeps the invariant when the loop itself moved: nothing was sent.
LEMMA LoopStep ==
    ASSUME IInv, TypeOK', UNCHANGED <<sentAlerts, delivered>>,
           TasksProgress', CurrentTasks', FreshHead', HandledMeansDelivered'
    PROVE  IInv'
BY DEF IInv, SentDelivered

\* The head about to be recorded has all its alerts delivered.
LEMMA RecordedIsDelivered ==
    ASSUME IInv, Complete
    PROVE  DueFor(head) \subseteq delivered
<1> SUFFICES ASSUME NEW g \in Handlers
             PROVE  Range(Due[g][head]) \subseteq delivered
  BY DEF DueFor
<1>1. attempt \in Attempts /\ attempt # NoAttempt
  BY DEF Complete, IInv, TypeOK
<1>2. task[attempt][g].state = "ok" /\ task[attempt][g].block = head
  BY <1>1 DEF Complete, AllSucceeded, IInv, CurrentTasks
<1>3. Progress(task[attempt][g], g)
  BY <1>1 DEF IInv, TasksProgress
<1>4. Range(<<>>) = {}
  BY EmptySeq DEF Range
<1>5. QED
  BY <1>2, <1>3, <1>4 DEF Progress

\* Every step keeps the invariant.
LEMMA InvStep == IInv /\ [Next]_vars => IInv'
<1> SUFFICES ASSUME IInv, [Next]_vars PROVE IInv'
  OBVIOUS
<1>1. TypeOK /\ TypeOK'
  BY TypeStep DEF IInv
<1>2. ASSUME NEW b \in Blocks, NewHead(b) PROVE IInv'
  <2>1. UNCHANGED <<handled, head, attempt, task, sentAlerts, delivered>>
    BY <1>2 DEF NewHead
  <2>2. QED
    BY <1>1, <2>1 DEF IInv, SentDelivered, TasksProgress, Progress,
          CurrentTasks, FreshHead, LastHandled, SameSlot, HandledMeansDelivered
<1>3. ASSUME NEW a \in Attempts, Poll(a) PROVE IInv'
  <2>1. TasksProgress'
    <3> SUFFICES ASSUME NEW o \in Attempts, NEW g \in Handlers
                 PROVE  Progress(task[o][g], g)'
      BY DEF TasksProgress
    <3> DEFINE fresh == [state |-> "queued", block |-> chainHead,
                         todo |-> Due[g][chainHead]]
    <3>1. CASE o = a
      <4>1. task'[o][g] = fresh
        BY <1>1, <1>3, <3>1, PollTasks
      <4>2. /\ fresh.block = chainHead /\ fresh.todo = Due[g][chainHead]
            /\ fresh.state # "ok" /\ chainHead \in Blocks
        BY <1>1 DEF TypeOK
      <4>3. QED
        BY <4>1, <4>2 DEF Progress
    <3>2. CASE o # a
      <4>1. task'[o][g] = task[o][g]
        BY <1>1, <1>3, <3>2, PollTasks
      <4>2. Progress(task[o][g], g)
        BY DEF IInv, TasksProgress
      <4>3. UNCHANGED delivered
        BY <1>3 DEF Poll
      <4>4. QED
        BY <4>1, <4>2, <4>3 DEF Progress
    <3>3. QED
      BY <3>1, <3>2
  <2>2. CurrentTasks'
    <3>1. attempt' = a /\ head' = chainHead
      BY <1>3 DEF Poll
    <3>2. ASSUME NEW g \in Handlers PROVE task'[a][g].block = chainHead
      <4>1. task'[a][g] = [state |-> "queued", block |-> chainHead,
                           todo |-> Due[g][chainHead]]
        BY <1>1, <1>3, PollTasks
      <4>2. QED
        BY <4>1
    <3>3. QED
      BY <3>1, <3>2 DEF CurrentTasks
  <2>3. FreshHead'
    BY <1>3 DEF Poll, IsNewHead, FreshHead, LastHandled, SameSlot
  <2>4. HandledMeansDelivered'
    BY <1>3 DEF Poll, IInv, HandledMeansDelivered
  <2>5. UNCHANGED <<sentAlerts, delivered>>
    BY <1>3 DEF Poll
  <2>6. QED
    BY <1>1, <2>1, <2>2, <2>3, <2>4, <2>5, LoopStep
<1>4. CASE Raise
  <2>1. TasksProgress'
    <3> SUFFICES ASSUME NEW o \in Attempts, NEW g \in Handlers
                 PROVE  Progress(task[o][g], g)'
      BY DEF TasksProgress
    <3>1. task'[o][g] \in {Idle, task[o][g]}
      BY <1>1, <1>4, RaiseTasks
    <3>2. Progress(Idle, g) /\ Progress(task[o][g], g)
      BY IdleProgress DEF IInv, TasksProgress
    <3>3. UNCHANGED delivered
      BY <1>4 DEF Raise
    <3>4. QED
      BY <3>1, <3>2, <3>3 DEF Progress
  <2>2. CurrentTasks' /\ FreshHead'
    BY <1>4 DEF Raise, CurrentTasks, FreshHead
  <2>3. HandledMeansDelivered'
    BY <1>4 DEF Raise, IInv, HandledMeansDelivered
  <2>4. UNCHANGED <<sentAlerts, delivered>>
    BY <1>4 DEF Raise
  <2>5. QED
    BY <1>1, <2>1, <2>2, <2>3, <2>4, LoopStep
<1>5. CASE Complete
  <2>1. UNCHANGED <<sentAlerts, delivered>>
    BY <1>5 DEF Complete
  <2>2. TasksProgress'
    <3> SUFFICES ASSUME NEW o \in Attempts, NEW g \in Handlers
                 PROVE  Progress(task[o][g], g)'
      BY DEF TasksProgress
    <3>1. task'[o][g] \in {Idle, task[o][g]}
      BY <1>1, <1>5, CompleteTasks
    <3>2. Progress(Idle, g) /\ Progress(task[o][g], g)
      BY IdleProgress DEF IInv, TasksProgress
    <3>3. QED
      BY <2>1, <3>1, <3>2 DEF Progress
  <2>3. CurrentTasks' /\ FreshHead'
    BY <1>5 DEF Complete, CurrentTasks, FreshHead
  <2>4. DueFor(head) \subseteq delivered
    BY <1>1, <1>5, RecordedIsDelivered
  <2>5. HandledMeansDelivered'
    <3>1. Range(handled') \subseteq Range(handled) \union {head}
      BY <1>1, <1>5, CompleteTasks
    <3>2. QED
      BY <2>1, <2>4, <3>1 DEF IInv, HandledMeansDelivered, DueFor
  <2>6. QED
    BY <1>1, <2>1, <2>2, <2>3, <2>5, LoopStep
<1>6. ASSUME NEW a \in Attempts, NEW h \in Handlers, Skip(a, h) PROVE IInv'
  <2>1. PICK t : t = task[a][h]
    OBVIOUS
  <2>2. t \in TaskType /\ t.todo \in Seq(Alerts) /\ t.todo # <<>>
    <3>1. t \in TaskType
      BY <1>1, <2>1 DEF TypeOK
    <3>2. t.todo \in Seq(Alerts) /\ t.todo # <<>>
      BY <1>1, <1>6, <2>1, SkipTask
    <3>3. QED
      BY <3>1, <3>2
  <2>3. PICK u : u = [t EXCEPT !.todo = Tail(t.todo)]
    OBVIOUS
  <2>4. /\ UNCHANGED <<handled, head, attempt, sentAlerts, delivered>>
        /\ t.state = "check" /\ Head(t.todo) \in Range(sentAlerts[h])
    BY <1>6, <2>1 DEF Skip
  <2>5. /\ Tail(t.todo) \in Seq(Alerts)
        /\ Range(t.todo) = {Head(t.todo)} \union Range(Tail(t.todo))
    BY <2>2, RangeSplit
  <2>6. u.state = t.state /\ u.block = t.block /\ u.todo = Tail(t.todo)
    BY <2>2, <2>3, <2>5, TodoUpdate
  <2>7. OthersKept(a, h) /\ task'[a][h] = u
    BY <1>1, <1>6, <2>1, <2>3, SkipTask
  <2>8. Head(t.todo) \in delivered /\ Progress(t, h)
    BY <2>1, <2>4 DEF IInv, SentDelivered, TasksProgress
  <2>9. Progress(u, h)'
    BY <2>4, <2>5, <2>6, <2>8 DEF Progress
  <2>10. SentDelivered'
    BY <2>4 DEF IInv, SentDelivered
  <2>11. QED
    BY <1>1, <2>1, <2>4, <2>6, <2>7, <2>9, <2>10, HandlerStep
<1>7. ASSUME NEW a \in Attempts, NEW h \in Handlers, StartPost(a, h) PROVE IInv'
  <2>1. PICK t : t = task[a][h]
    OBVIOUS
  <2>2. t \in TaskType
    BY <1>1, <2>1 DEF TypeOK
  <2>3. PICK u : u = [t EXCEPT !.state = "post"]
    OBVIOUS
  <2>4. /\ UNCHANGED <<handled, head, attempt, sentAlerts, delivered>>
        /\ t.state = "check"
    BY <1>7, <2>1 DEF StartPost
  <2>5. u.state = "post" /\ u.block = t.block /\ u.todo = t.todo
    BY <2>2, <2>3, StateUpdate DEF States
  <2>6. OthersKept(a, h) /\ task'[a][h] = u
    BY <1>1, <1>7, <2>1, <2>3, StartPostTask
  <2>7. Progress(t, h)
    BY <2>1 DEF IInv, TasksProgress
  <2>8. Progress(u, h)'
    BY <2>4, <2>5, <2>7 DEF Progress
  <2>9. SentDelivered'
    BY <2>4 DEF IInv, SentDelivered
  <2>10. QED
    BY <1>1, <2>1, <2>4, <2>5, <2>6, <2>8, <2>9, HandlerStep
<1>8. ASSUME NEW a \in Attempts, NEW h \in Handlers, PostOk(a, h) PROVE IInv'
  <2>1. PICK t : t = task[a][h]
    OBVIOUS
  <2>2. t \in TaskType /\ t.todo \in Seq(Alerts) /\ t.todo # <<>>
    <3>1. t \in TaskType
      BY <1>1, <2>1 DEF TypeOK
    <3>2. t.todo \in Seq(Alerts) /\ t.todo # <<>>
      BY <1>1, <1>8, <2>1, PostOkTask
    <3>3. QED
      BY <3>1, <3>2
  <2>3. PICK u : u = [t EXCEPT !.state = "check", !.todo = Tail(t.todo)]
    OBVIOUS
  <2>4. /\ UNCHANGED <<handled, head, attempt>>
        /\ t.state = "post"
    BY <1>8, <2>1 DEF PostOk
  <2>5. /\ Tail(t.todo) \in Seq(Alerts)
        /\ Range(t.todo) = {Head(t.todo)} \union Range(Tail(t.todo))
    BY <2>2, RangeSplit
  <2>6. u.state = "check" /\ u.block = t.block /\ u.todo = Tail(t.todo)
    BY <2>2, <2>3, <2>5, BothUpdate
  <2>7. OthersKept(a, h) /\ task'[a][h] = u
    BY <1>1, <1>8, <2>1, <2>3, PostOkTask
  <2>8. /\ delivered' = delivered \union {Head(t.todo)}
        /\ \A g \in Handlers : Range(sentAlerts'[g]) \subseteq
                                 Range(sentAlerts[g]) \union {Head(t.todo)}
    BY <1>1, <1>8, <2>1, PostOkTask
  <2>9. Progress(t, h)
    BY <2>1 DEF IInv, TasksProgress
  <2>10. Progress(u, h)'
    BY <2>4, <2>5, <2>6, <2>8, <2>9 DEF Progress
  <2>11. SentDelivered'
    BY <2>8 DEF IInv, SentDelivered
  <2>12. QED
    BY <1>1, <2>1, <2>4, <2>6, <2>7, <2>8, <2>10, <2>11, HandlerStep
<1>9. ASSUME NEW a \in Attempts, NEW h \in Handlers,
             PostFails(a, h) \/ Crash(a, h)
      PROVE  IInv'
  <2>1. PICK u : u = Ended(a, h, "failed")
    OBVIOUS
  <2>2. /\ UNCHANGED <<handled, head, attempt, sentAlerts>>
        /\ delivered \subseteq delivered'
    BY <1>9 DEF PostFails, Crash
  <2>3. /\ u.state \in {"failed", "idle"}
        /\ a = attempt => u.block = task[a][h].block
    BY <1>1, <2>1, EndedTask
  <2>4. OthersKept(a, h) /\ task'[a][h] = u
    BY <1>1, <1>9, <2>1, FailedTask
  <2>5. Progress(u, h)'
    BY <2>3 DEF Progress
  <2>6. SentDelivered'
    BY <2>2 DEF IInv, SentDelivered
  <2>7. QED
    BY <1>1, <2>2, <2>3, <2>4, <2>5, <2>6, HandlerStep
<1>10. ASSUME NEW a \in Attempts, NEW h \in Handlers, Finish(a, h) PROVE IInv'
  <2>1. PICK u : u = Ended(a, h, "ok")
    OBVIOUS
  <2>2. /\ UNCHANGED <<handled, head, attempt, sentAlerts, delivered>>
        /\ task[a][h].state = "check" /\ task[a][h].todo = <<>>
    BY <1>10 DEF Finish
  <2>3. /\ u.state \in {"ok", "idle"}
        /\ a = attempt => /\ u.block = task[a][h].block
                          /\ u.todo = task[a][h].todo
        /\ a # attempt => u.state = "idle"
    BY <1>1, <2>1, EndedTask
  <2>4. OthersKept(a, h) /\ task'[a][h] = u
    BY <1>1, <1>10, <2>1, FinishTask
  <2>5. Progress(task[a][h], h)
    BY DEF IInv, TasksProgress
  <2>6. Progress(u, h)'
    <3>1. CASE a = attempt
      BY <2>2, <2>3, <2>5, <3>1 DEF Progress
    <3>2. CASE a # attempt
      BY <2>3, <3>2 DEF Progress
    <3>3. QED
      BY <3>1, <3>2
  <2>7. SentDelivered'
    BY <2>2 DEF IInv, SentDelivered
  <2>8. QED
    BY <1>1, <2>2, <2>3, <2>4, <2>6, <2>7, HandlerStep
<1>11. ASSUME NEW a \in Attempts, NEW h \in Handlers, Start(a, h) PROVE IInv'
  <2>1. PICK t : t = task[a][h]
    OBVIOUS
  <2>2. t \in TaskType
    BY <1>1, <2>1 DEF TypeOK
  <2>3. PICK u : u = [t EXCEPT !.state = "check"]
    OBVIOUS
  <2>4. /\ UNCHANGED <<handled, head, attempt, sentAlerts, delivered>>
        /\ t.state = "queued"
    BY <1>11, <2>1 DEF Start
  <2>5. u.state = "check" /\ u.block = t.block /\ u.todo = t.todo
    BY <2>2, <2>3, StateUpdate DEF States
  <2>6. OthersKept(a, h) /\ task'[a][h] = u
    BY <1>1, <1>11, <2>1, <2>3, StartTask
  <2>7. Progress(t, h)
    BY <2>1 DEF IInv, TasksProgress
  <2>8. Progress(u, h)'
    BY <2>4, <2>5, <2>7 DEF Progress
  <2>9. SentDelivered'
    BY <2>4 DEF IInv, SentDelivered
  <2>10. QED
    BY <1>1, <2>1, <2>4, <2>5, <2>6, <2>8, <2>9, HandlerStep
<1>12. CASE Restart
  <2>1. Range(<<>>) = {}
    BY EmptySeq DEF Range
  <2>2. SentDelivered'
    <3>1. \A h \in Handlers : sentAlerts'[h] = <<>>
      BY <1>1, <1>12, RestartTasks
    <3>2. QED
      BY <2>1, <3>1 DEF SentDelivered
  <2>3. TasksProgress'
    <3> SUFFICES ASSUME NEW o \in Attempts, NEW g \in Handlers
                 PROVE  Progress(task[o][g], g)'
      BY DEF TasksProgress
    <3>1. task'[o][g] = Idle
      BY <1>1, <1>12, RestartTasks
    <3>2. QED
      BY <3>1 DEF Progress, Idle
  <2>4. CurrentTasks' /\ FreshHead'
    BY <1>12 DEF Restart, CurrentTasks, FreshHead
  <2>5. HandledMeansDelivered'
    BY <1>12, <2>1 DEF Restart, HandledMeansDelivered
  <2>6. QED
    BY <1>1, <2>2, <2>3, <2>4, <2>5 DEF IInv
<1>13. CASE UNCHANGED vars
  BY <1>1, <1>13 DEF vars, IInv, SentDelivered, TasksProgress, Progress,
        CurrentTasks, FreshHead, LastHandled, SameSlot, HandledMeansDelivered
<1>14. QED
  BY <1>2, <1>3, <1>4, <1>5, <1>6, <1>7, <1>8, <1>9, <1>10, <1>11, <1>12,
     <1>13 DEF Next

\* Types and invariant hold at all times.
LEMMA Inductive == Spec => []IInv
<1>1. QED
  BY InvInit, InvStep, PTL DEF Spec

\* A handled head has all its alerts delivered, whatever number of attempts,
\* failures, restarts and orphans there was.
THEOREM HandledAreDelivered == Spec => []HandledMeansDelivered
<1>1. IInv => HandledMeansDelivered
  BY DEF IInv
<1>2. QED
  BY <1>1, Inductive, PTL

-----------------------------------------------------------------------------
(* Refinement.                                                             *)

\* The loop starts as the abstract monitor does.
LEMMA MonitorInit == Init => Monitor!Init
BY DEF Init, Monitor!Init, LastHandled

\* Every step of the loop is a step of the abstract monitor or leaves its state
\* alone.
LEMMA MonitorStep ==
    IInv /\ TypeOK' /\ [Next]_vars => [Monitor!Next]_(Monitor!vars)
<1> SUFFICES ASSUME IInv, TypeOK', [Next]_vars
             PROVE  [Monitor!Next]_(Monitor!vars)
  OBVIOUS
<1> USE DEF Monitor!vars
<1>1. TypeOK
  BY DEF IInv
<1>2. CASE UNCHANGED <<handled, delivered>>
  BY <1>2 DEF LastHandled
<1>3. ASSUME NEW alert \in Alerts, UNCHANGED handled,
             delivered' = delivered \union {alert}
      PROVE  Monitor!Next
  BY <1>3 DEF Monitor!Next, Monitor!Deliver, LastHandled
<1>4. CASE Complete
  <2>1. head \in Blocks /\ LastHandled' = head
    BY <1>1, <1>4, CompleteTasks
  <2>2. LastHandled # NoBlock => Slot[head] # Slot[LastHandled]
    BY <1>4, <2>1 DEF Complete, IInv, FreshHead, SameSlot
  <2>3. Monitor!DueFor(head) \subseteq delivered
    <3>1. Monitor!DueFor(head) = DueFor(head)
      BY DEF DueFor, Monitor!DueFor, Handlers, Monitor!Handlers,
             Range, Monitor!Range
    <3>2. QED
      BY <1>4, <3>1, RecordedIsDelivered
  <2>4. UNCHANGED delivered
    BY <1>4 DEF Complete
  <2>5. QED
    BY <2>1, <2>2, <2>3, <2>4 DEF Monitor!Next, Monitor!Handle
<1>5. ASSUME NEW a \in Attempts, NEW h \in Handlers, PostOk(a, h)
      PROVE  Monitor!Next
  <2>1. /\ Head(task[a][h].todo) \in Alerts
        /\ delivered' = delivered \union {Head(task[a][h].todo)}
    BY <1>1, <1>5, PostOkTask
  <2>2. UNCHANGED handled
    BY <1>5 DEF PostOk
  <2>3. QED
    BY <1>3, <2>1, <2>2
<1>6. ASSUME NEW a \in Attempts, NEW h \in Handlers, PostFails(a, h)
      PROVE  [Monitor!Next]_(Monitor!vars)
  <2>1. Head(task[a][h].todo) \in Alerts
    BY <1>1, <1>6, FailedTask
  <2>2. /\ UNCHANGED handled
        /\ \/ delivered' = delivered \union {Head(task[a][h].todo)}
           \/ UNCHANGED delivered
    BY <1>6 DEF PostFails
  <2>3. QED
    BY <1>2, <1>3, <2>1, <2>2
<1>7. CASE Restart
  <2>1. LastHandled' = NoBlock /\ UNCHANGED delivered
    BY <1>7 DEF Restart, LastHandled
  <2>2. QED
    BY <2>1 DEF Monitor!Next, Monitor!Forget
<1>8. QED
  BY <1>2, <1>4, <1>5, <1>6, <1>7 DEF Next, vars, NewHead, Poll, Raise, Start,
     Skip, StartPost, Crash, Finish

\* The threaded, retrying loop implements the abstract monitor.
THEOREM ImplementsMonitor == Spec => MonitorSpec
<1>1. IInv => TypeOK
  BY DEF IInv
<1>2. QED
  BY <1>1, Inductive, MonitorInit, MonitorStep, PTL
     DEF Spec, MonitorSpec, Monitor!Spec

-----------------------------------------------------------------------------
(* OnlyOrphansPushOut.  What was accepted for the head at hand lies among  *)
(* the newest k elements of the list; k is at most what orphans appended   *)
(* since the head came and the set `own` of the alerts its own attempts    *)
(* appended.  No attempt appends one of `own` a second time, because it    *)
(* found it in the list: so there are never more than are due.             *)

\* The elements added last.
Latest(s, k) == {s[i] : i \in (Len(s) - k + 1) .. Len(s)}

DueNow(h) == Range(Due[h][head])

\* The condition of OnlyOrphansPushOut.
Room(h) == head # NoBlock /\ Cardinality(DueNow(h)) + late[h] <= KeepAlerts

Posting(h) == attempt # NoAttempt /\ task[attempt][h].state = "post"

Counted(h, k, own) ==
    /\ own \subseteq acked[h]
    /\ k <= Cardinality(own) + late[h]
    /\ acked[h] \subseteq Latest(sentAlerts[h], k)
    /\ Posting(h) => Head(task[attempt][h].todo) \notin own

Kept(h) ==
    Room(h) => \E k \in 0 .. Len(sentAlerts[h]), own \in SUBSET DueNow(h) :
                  Counted(h, k, own)

\* The tasks the loop waits for send what is due for the head.
CurrentDue ==
    attempt # NoAttempt =>
        \A h \in Handlers : Range(task[attempt][h].todo) \subseteq DueNow(h)

KeptInv == CurrentDue /\ \A h \in Handlers : Kept(h)

-----------------------------------------------------------------------------
(* Lemmas about the newest elements of a list.                             *)

\* The newest elements are elements; the newest none of them are none.
LEMMA LatestBounds ==
    ASSUME NEW S, NEW s \in Seq(S)
    PROVE  /\ \A k \in 0 .. Len(s) : Latest(s, k) \subseteq Range(s)
           /\ Latest(s, 0) = {}
<1>1. Len(s) \in Nat /\ DOMAIN s = 1 .. Len(s)
  OBVIOUS
<1>2. (Len(s) - 0 + 1) .. Len(s) = {}
  BY <1>1
<1>3. Latest(s, 0) = {}
  BY <1>2 DEF Latest
<1>4. ASSUME NEW k \in 0 .. Len(s) PROVE Latest(s, k) \subseteq Range(s)
  <2>1. (Len(s) - k + 1) .. Len(s) \subseteq 1 .. Len(s)
    BY <1>1
  <2>2. QED
    BY <1>1, <2>1 DEF Latest, Range
<1>5. QED
  BY <1>3, <1>4

\* What is left of a list without its first element.
LEMMA TailElements ==
    ASSUME NEW S, NEW s \in Seq(S), s # <<>>
    PROVE  /\ Len(s) \in Nat \ {0} /\ Len(Tail(s)) = Len(s) - 1
           /\ \A i \in 1 .. (Len(s) - 1) : Tail(s)[i] = s[i + 1]
<1>1. Len(s) \in Nat \ {0}
  OBVIOUS
<1>2. QED
  BY <1>1

\* List r has x added behind the newest k elements of s.
Grown(s, k, x, r) ==
    /\ k + 1 \in 0 .. Len(r)
    /\ Latest(r, k + 1) = Latest(s, k) \union {x}

\* An element added to a trimmed list: the newest k and it are the newest
\* k + 1.
LEMMA LatestTrimmed ==
    ASSUME NEW S, NEW s \in Seq(S), NEW x \in S, NEW n \in Nat, Len(s) <= n,
           NEW k \in Nat, k <= Len(s), k + 1 <= n,
           NEW r, r = Trim(Append(s, x), n)
    PROVE  Grown(s, k, x, r)
<1> DEFINE long == Append(s, x)
           d == IF Len(s) = n THEN 1 ELSE 0
<1>0. r = Trim(long, n)
  OBVIOUS
<1>1. /\ Len(s) \in Nat /\ DOMAIN s = 1 .. Len(s)
      /\ long \in Seq(S) /\ Len(long) = Len(s) + 1
      /\ \A i \in 1 .. Len(s) : long[i] = s[i]
      /\ long[Len(s) + 1] = x
  OBVIOUS
<1> HIDE DEF long, d
<1>2. /\ Len(r) = Len(s) + 1 - d
      /\ \A i \in 1 .. Len(r) : r[i] = long[i + d]
  <2>1. CASE Len(s) = n
    <3>1. r = Tail(long) /\ d = 1
      <4>1. Len(s) \in Nat /\ Len(long) = Len(s) + 1
        BY <1>1
      <4>2. Len(long) > n
        BY <2>1, <4>1
      <4>3. QED
        BY <1>0, <2>1, <4>2 DEF Trim, d
    <3>2. long # <<>>
      <4>1. Len(long) # 0
        BY <1>1
      <4>2. QED
        BY <4>1, EmptySeq
    <3>3. /\ Len(Tail(long)) = Len(long) - 1
          /\ \A i \in 1 .. (Len(long) - 1) : Tail(long)[i] = long[i + 1]
      BY <1>1, <3>2, TailElements
    <3>4. QED
      BY <1>1, <3>1, <3>3
  <2>2. CASE Len(s) # n
    <3>1. r = long /\ d = 0
      <4>1. Len(s) \in Nat /\ Len(long) = Len(s) + 1
        BY <1>1
      <4>2. ~(Len(long) > n)
        BY <2>2, <4>1
      <4>3. QED
        BY <1>0, <2>2, <4>2 DEF Trim, d
    <3>2. \A i \in 1 .. Len(r) : i + 0 = i
      BY <1>1, <3>1
    <3>3. QED
      BY <1>1, <3>1, <3>2
  <2>3. QED
    BY <2>1, <2>2
<1>3. d \in {0, 1}
  BY DEF d
<1>4. Len(r) \in Nat /\ k \in Nat /\ k + 1 <= Len(r)
  <2>1. Len(s) \in Nat /\ k \in Nat /\ k <= Len(s)
    BY <1>1
  <2>2. Len(r) = Len(s) + 1 - d
    BY <1>2
  <2>3. CASE Len(s) = n
    BY <2>1, <2>2, <2>3 DEF d
  <2>4. CASE Len(s) # n
    BY <2>1, <2>2, <2>4 DEF d
  <2>5. QED
    BY <2>3, <2>4
<1> DEFINE new == (Len(r) - (k + 1) + 1) .. Len(r)
           old == (Len(s) - k + 1) .. Len(s)
<1>5. ASSUME NEW i \in new
      PROVE  \/ i + d \in old /\ r[i] = s[i + d]
             \/ i = Len(r) /\ r[i] = x
  <2>1. i \in 1 .. Len(r) /\ i + d \in (Len(s) - k + 1) .. (Len(s) + 1)
    BY <1>1, <1>2, <1>3, <1>4
  <2>2. r[i] = long[i + d]
    BY <1>2, <2>1
  <2>3. CASE i = Len(r)
    <3>1. i + d = Len(s) + 1
      BY <1>1, <1>2, <1>3, <2>3
    <3>2. QED
      BY <1>1, <2>2, <2>3, <3>1
  <2>4. CASE i # Len(r)
    <3>1. i + d \in old /\ i + d \in 1 .. Len(s)
      BY <1>1, <1>2, <1>3, <1>4, <2>1, <2>4
    <3>2. QED
      BY <1>1, <2>2, <3>1
  <2>5. QED
    BY <2>3, <2>4
<1>6. ASSUME NEW j \in old
      PROVE  j - d \in new /\ r[j - d] = s[j]
  <2>1. j - d \in new /\ j - d \in 1 .. Len(r) /\ j \in 1 .. Len(s)
    BY <1>1, <1>2, <1>3, <1>4
  <2>2. r[j - d] = long[j - d + d] /\ j - d + d = j
    BY <1>2, <1>3, <2>1
  <2>3. QED
    BY <1>1, <2>1, <2>2
<1>7. Len(r) \in new /\ r[Len(r)] = x
  <2>1. Len(r) \in new /\ Len(r) \in 1 .. Len(r)
    BY <1>4
  <2>2. Len(r) + d = Len(s) + 1
    BY <1>1, <1>2, <1>3
  <2>3. r[Len(r)] = long[Len(r) + d]
    BY <1>2, <2>1
  <2>4. QED
    BY <1>1, <2>1, <2>2, <2>3
<1>8. /\ Latest(r, k + 1) = {r[i] : i \in new}
      /\ Latest(s, k) = {s[i] : i \in old}
  BY DEF Latest
<1> HIDE DEF new, old
<1>9. Latest(r, k + 1) = Latest(s, k) \union {x}
  <2>1. ASSUME NEW i \in new PROVE r[i] \in Latest(s, k) \union {x}
    BY <1>5, <1>8
  <2>2. ASSUME NEW j \in old PROVE s[j] \in Latest(r, k + 1)
    BY <1>6, <1>8
  <2>3. x \in Latest(r, k + 1)
    BY <1>7, <1>8
  <2>4. Latest(r, k + 1) \subseteq Latest(s, k) \union {x}
    BY <1>8, <2>1
  <2>5. Latest(s, k) \subseteq Latest(r, k + 1)
    BY <1>8, <2>2
  <2>6. QED
    BY <2>3, <2>4, <2>5
<1>10. k + 1 \in 0 .. Len(r)
  BY <1>4
<1>11. QED
  BY <1>9, <1>10 DEF Grown
-----------------------------------------------------------------------------
(* Lemmas about the counts.                                                *)

\* What is due for a head is a finite number of alerts.
LEMMA DueFinite ==
    ASSUME NEW h \in Handlers, NEW b \in Blocks
    PROVE  /\ IsFiniteSet(Range(Due[h][b]))
           /\ Cardinality(Range(Due[h][b])) \in Nat
<1> DEFINE s == Due[h][b]
<1>1. s \in Seq(Alerts)
  OBVIOUS
<1> HIDE DEF s
<1>2. Len(s) \in Nat /\ DOMAIN s = 1 .. Len(s)
  BY <1>1
<1>3. s \in Surjection(1 .. Len(s), Range(s))
  BY <1>1, <1>2 DEF Surjection, Range
<1>4. IsFiniteSet(1 .. Len(s))
  <2>1. 1 \in Int /\ Len(s) \in Int
    BY <1>2
  <2>2. QED
    BY <2>1, FS_Interval
<1>5. IsFiniteSet(Range(s))
  BY <1>3, <1>4, FS_Surjection
<1>6. Cardinality(Range(s)) \in Nat
  BY <1>5, FS_CardinalityType
<1>7. QED
  BY <1>5, <1>6 DEF s

\* Handler g has appended nothing, and its current task posts what it did not
\* find in the list, or posts what it posted before.
LEMMA KeptSame ==
    ASSUME KeptInv, TypeOK, NEW g \in Handlers, head' = head,
           sentAlerts'[g] = sentAlerts[g], acked'[g] = acked[g],
           late'[g] = late[g],
           Posting(g)' =>
              \/ /\ attempt' = attempt /\ Posting(g)
                 /\ task'[attempt][g].todo = task[attempt][g].todo
              \/ Head(task'[attempt'][g].todo) \notin Range(sentAlerts[g])
    PROVE  Kept(g)'
<1> SUFFICES ASSUME Room(g)'
             PROVE  \E k \in 0 .. Len(sentAlerts[g]), own \in SUBSET DueNow(g) :
                       Counted(g, k, own)'
  BY DEF Kept, DueNow
<1>1. Room(g)
  BY DEF Room, DueNow
<1>2. PICK k \in 0 .. Len(sentAlerts[g]), own \in SUBSET DueNow(g) :
         Counted(g, k, own)
  BY <1>1 DEF KeptInv, Kept
<1>3. own \subseteq Range(sentAlerts[g])
  <2>1. sentAlerts[g] \in Seq(Alerts)
    BY DEF TypeOK
  <2>2. Latest(sentAlerts[g], k) \subseteq Range(sentAlerts[g])
    BY <2>1, LatestBounds
  <2>3. QED
    BY <1>2, <2>2 DEF Counted
<1>4. Posting(g)' => Head(task'[attempt'][g].todo) \notin own
  BY <1>2, <1>3 DEF Counted
<1>5. Latest(sentAlerts'[g], k) = Latest(sentAlerts[g], k)
  OBVIOUS
<1>6. Counted(g, k, own)'
  BY <1>2, <1>4, <1>5 DEF Counted
<1>7. QED
  BY <1>6

\* A handler about which nothing is remembered of the new head.
LEMMA KeptFresh ==
    ASSUME TypeOK', NEW g \in Handlers, acked'[g] = {}, late'[g] = 0
    PROVE  Kept(g)'
<1>1. sentAlerts'[g] \in Seq(Alerts)
  BY DEF TypeOK
<1>2. 0 \in 0 .. Len(sentAlerts'[g])
  BY <1>1
<1>3. {} \in SUBSET DueNow(g)'
  OBVIOUS
<1>4. Cardinality({}) = 0
  BY FS_EmptySet
<1>5. Counted(g, 0, {})'
  BY <1>4 DEF Counted
<1>6. QED
  BY <1>2, <1>3, <1>5 DEF Kept

\* An accepted alert is remembered: an orphan's counts in `late`, one of the
\* current attempt is a new one of those due.
LEMMA KeptPostOk ==
    ASSUME KeptInv, IInv, NEW a \in Attempts, NEW h \in Handlers, PostOk(a, h)
    PROVE  Kept(h)'
<1>0. PICK x : x = Head(task[a][h].todo)
  OBVIOUS
<1>1. TypeOK
  BY DEF IInv
<1>2. /\ head' = head /\ attempt' = attempt
      /\ sentAlerts'[h] = Trim(Append(sentAlerts[h], x), KeepAlerts)
      /\ acked'[h] \subseteq acked[h] \union {x}
      /\ acked[h] \subseteq acked'[h]
      /\ late'[h] = IF a = attempt THEN late[h] ELSE late[h] + 1
  BY <1>0, <1>1 DEF PostOk, TypeOK
<1>3. /\ task[a][h].todo \in Seq(Alerts) /\ task[a][h].todo # <<>>
      /\ x \in Alerts /\ OthersKept(a, h)
      /\ task'[a][h] = [task[a][h] EXCEPT !.state = "check", !.todo = Tail(@)]
  BY <1>0, <1>1, PostOkTask
<1>4. task'[a][h].state = "check"
  <2>1. task[a][h] \in TaskType /\ Tail(task[a][h].todo) \in Seq(Alerts)
    BY <1>1, <1>3, RangeSplit DEF TypeOK
  <2>2. PICK u : u = [task[a][h] EXCEPT !.state = "check",
                                        !.todo = Tail(task[a][h].todo)]
    OBVIOUS
  <2>3. u.state = "check"
    BY <2>1, <2>2, BothUpdate
  <2>4. QED
    BY <1>3, <2>2, <2>3
<1> SUFFICES ASSUME Room(h)'
             PROVE  \E k \in 0 .. Len(sentAlerts'[h]), own \in SUBSET DueNow(h) :
                       Counted(h, k, own)'
  BY <1>2 DEF Kept, DueNow
<1> DEFINE n == Cardinality(DueNow(h))
<1>5. /\ head \in Blocks /\ IsFiniteSet(DueNow(h)) /\ n \in Nat
      /\ n + late'[h] <= KeepAlerts
      /\ late[h] \in Nat /\ late'[h] \in Nat
  <2>1. head \in Blocks /\ n + late'[h] <= KeepAlerts
    BY <1>1, <1>2 DEF TypeOK, Room, DueNow
  <2>2. late[h] \in Nat
    BY <1>1 DEF TypeOK
  <2>3. late'[h] \in Nat
    BY <1>2, <2>2
  <2>4. QED
    BY <2>1, <2>2, <2>3, DueFinite DEF DueNow
<1>6. Room(h)
  BY <1>2, <1>5 DEF Room
<1>7. PICK k \in 0 .. Len(sentAlerts[h]), own \in SUBSET DueNow(h) :
         Counted(h, k, own)
  BY <1>6 DEF KeptInv, Kept
<1>8. /\ IsFiniteSet(own) /\ Cardinality(own) \in Nat
      /\ Cardinality(own) <= n
  BY <1>5, FS_Subset, FS_CardinalityType
<1> HIDE DEF n
<1>9. ASSUME NEW more \in SUBSET DueNow(h), IsFiniteSet(more),
             own \subseteq more, more \subseteq own \union {x},
             Cardinality(more) + late'[h] = Cardinality(own) + late[h] + 1,
             more \subseteq acked'[h],
             Posting(h)' => more = own /\ a # attempt
      PROVE  \E j \in 0 .. Len(sentAlerts'[h]) : Counted(h, j, more)'
  <2>1. /\ sentAlerts[h] \in Seq(Alerts) /\ Len(sentAlerts[h]) <= KeepAlerts
        /\ Len(sentAlerts[h]) \in Nat /\ k \in Nat /\ k <= Len(sentAlerts[h])
    BY <1>1, <1>7 DEF TypeOK
  <2>2. Cardinality(more) \in Nat /\ Cardinality(more) <= n
    BY <1>5, <1>9, FS_Subset, FS_CardinalityType DEF n
  <2>3. k <= Cardinality(own) + late[h]
    BY <1>7 DEF Counted
  <2>4. k + 1 <= Cardinality(more) + late'[h]
    BY <1>5, <1>8, <1>9, <2>1, <2>2, <2>3
  <2>5. k + 1 <= KeepAlerts
    <3>1. n \in Nat /\ KeepAlerts \in Nat
      BY <1>5 DEF n
    <3>2. n + late'[h] <= KeepAlerts
      BY <1>5 DEF n
    <3>3. QED
      BY <1>5, <2>1, <2>2, <2>4, <3>1, <3>2
  <2>6. Grown(sentAlerts[h], k, x, sentAlerts'[h])
    BY <1>2, <1>3, <2>1, <2>5, LatestTrimmed
  <2>7. acked'[h] \subseteq Latest(sentAlerts'[h], k + 1)
    BY <1>2, <1>7, <2>6 DEF Counted, Grown
  <2>8. Posting(h)' => Head(task'[attempt'][h].todo) \notin more
    <3> SUFFICES ASSUME Posting(h)'
                 PROVE  Head(task'[attempt'][h].todo) \notin own
      BY <1>9
    <3>1. attempt \in Attempts /\ a # attempt
      BY <1>1, <1>2, <1>9 DEF Posting, TypeOK
    <3>2. task'[attempt][h] = task[attempt][h]
      BY <1>3, <3>1 DEF OthersKept
    <3>3. Posting(h)
      BY <1>2, <3>2 DEF Posting
    <3>4. QED
      BY <1>2, <1>7, <3>2, <3>3 DEF Counted
  <2>9. Counted(h, k + 1, more)'
    BY <1>9, <2>4, <2>7, <2>8 DEF Counted
  <2>10. QED
    BY <2>6, <2>9 DEF Grown
<1>10. own \subseteq acked'[h]
  BY <1>2, <1>7 DEF Counted
<1>11. CASE a # attempt
  <2>1. Cardinality(own) + late'[h] = Cardinality(own) + late[h] + 1
    BY <1>2, <1>5, <1>8, <1>11
  <2>2. \E j \in 0 .. Len(sentAlerts'[h]) : Counted(h, j, own)'
    BY <1>8, <1>9, <1>10, <1>11, <2>1
  <2>3. QED
    BY <2>2
<1>12. CASE a = attempt
  <2>0. PICK more : more = own \union {x}
    OBVIOUS
  <2>1. attempt # NoAttempt /\ Posting(h)
    BY <1>12 DEF Posting, PostOk, Attempts, NoAttempt
  <2>2. x \in DueNow(h)
    <3>1. Range(task[a][h].todo) \subseteq DueNow(h)
      BY <1>12, <2>1 DEF KeptInv, CurrentDue
    <3>2. QED
      BY <1>0, <1>3, <3>1, RangeSplit
  <2>3. x \notin own
    BY <1>0, <1>7, <1>12, <2>1 DEF Counted
  <2>4. IsFiniteSet(more) /\ Cardinality(more) = Cardinality(own) + 1
    BY <1>8, <2>0, <2>3, FS_AddElement
  <2>5. Cardinality(more) + late'[h] = Cardinality(own) + late[h] + 1
    BY <1>2, <1>5, <1>8, <1>12, <2>4
  <2>6. more \subseteq acked'[h]
    <3>1. task[a][h].block = head
      BY <1>12, <2>1 DEF IInv, CurrentTasks
    <3>2. x \in acked'[h]
      BY <1>0, <1>1, <3>1 DEF PostOk, TypeOK
    <3>3. QED
      BY <1>10, <2>0, <3>2
  <2>7. ~Posting(h)'
    BY <1>2, <1>4, <1>12 DEF Posting
  <2>8. more \in SUBSET DueNow(h)
    BY <2>0, <2>2
  <2>9. own \subseteq more /\ more \subseteq own \union {x}
    BY <2>0
  <2>10. \E j \in 0 .. Len(sentAlerts'[h]) : Counted(h, j, more)'
    BY <1>9, <2>4, <2>5, <2>6, <2>7, <2>8, <2>9
  <2>11. QED
    BY <2>8, <2>10
<1>13. QED
  BY <1>11, <1>12

\* A step of one handler's task that appends nothing.
LEMMA KeptWork ==
    ASSUME KeptInv, TypeOK, NEW a \in Attempts, NEW h \in Handlers,
           UNCHANGED <<head, attempt, sentAlerts, acked, late>>,
           OthersKept(a, h),
           task'[a][h].state = "post" =>
              Head(task'[a][h].todo) \notin Range(sentAlerts[h])
    PROVE  \A g \in Handlers : Kept(g)'
<1> SUFFICES ASSUME NEW g \in Handlers PROVE Kept(g)'
  OBVIOUS
<1>1. CASE a = attempt /\ g = h
  <2>1. Posting(g)' => Head(task'[attempt'][g].todo) \notin Range(sentAlerts[g])
    BY <1>1 DEF Posting
  <2>2. QED
    BY <2>1, KeptSame
<1>2. CASE ~(a = attempt /\ g = h)
  <2>1. ASSUME Posting(g)'
        PROVE  Posting(g) /\ task'[attempt][g].todo = task[attempt][g].todo
    <3>1. attempt \in Attempts
      BY <2>1 DEF Posting, TypeOK
    <3>2. task'[attempt][g] = task[attempt][g]
      BY <1>2, <3>1 DEF OthersKept
    <3>3. QED
      BY <2>1, <3>2 DEF Posting
  <2>2. QED
    BY <2>1, KeptSame
<1>3. QED
  BY <1>1, <1>2

\* A step of one handler's task leaves the current tasks with what is due.
LEMMA DueWork ==
    ASSUME KeptInv, TypeOK, NEW a \in Attempts, NEW h \in Handlers,
           UNCHANGED <<head, attempt>>, OthersKept(a, h),
           a = attempt =>
              Range(task'[a][h].todo) \subseteq Range(task[a][h].todo)
    PROVE  CurrentDue'
<1> SUFFICES ASSUME attempt # NoAttempt, NEW g \in Handlers
             PROVE  Range(task'[attempt][g].todo) \subseteq DueNow(g)
  BY DEF CurrentDue, DueNow
<1>1. attempt \in Attempts
  BY DEF TypeOK
<1>2. Range(task'[attempt][g].todo) \subseteq Range(task[attempt][g].todo)
  BY <1>1 DEF OthersKept
<1>3. QED
  BY <1>2 DEF KeptInv, CurrentDue

\* Every step keeps the counts.
LEMMA KeptInvStep ==
    ASSUME IInv, KeptInv, [Next]_vars
    PROVE  KeptInv'
<1>1. TypeOK /\ TypeOK'
  BY TypeStep DEF IInv
<1>2. ASSUME UNCHANGED <<head, sentAlerts, acked, late>>,
             attempt' = NoAttempt \/ UNCHANGED <<attempt, task>>
      PROVE  KeptInv'
  <2>1. CurrentDue'
    BY <1>2 DEF KeptInv, CurrentDue, DueNow
  <2>2. ASSUME NEW g \in Handlers PROVE Kept(g)'
    BY <1>1, <1>2, KeptSame DEF Posting
  <2>3. QED
    BY <2>1, <2>2 DEF KeptInv
<1>3. ASSUME NEW a \in Attempts, Poll(a) PROVE KeptInv'
  <2>1. attempt' = a /\ head' = chainHead /\ sentAlerts' = sentAlerts
    BY <1>3 DEF Poll
  <2>2. ASSUME NEW g \in Handlers
        PROVE  /\ task'[a][g].state = "queued"
               /\ task'[a][g].todo = Due[g][chainHead]
    <3>1. PICK u : u = [state |-> "queued", block |-> chainHead,
                        todo |-> Due[g][chainHead]]
      OBVIOUS
    <3>2. u.state = "queued" /\ u.todo = Due[g][chainHead]
      BY <3>1
    <3>3. task'[a][g] = u
      BY <1>1, <1>3, <3>1, PollTasks
    <3>4. QED
      BY <3>2, <3>3
  <2>3. CurrentDue'
    BY <2>1, <2>2 DEF CurrentDue, DueNow
  <2>4. ASSUME NEW g \in Handlers PROVE Kept(g)'
    <3>1. CASE chainHead = head
      <4>1. ~Posting(g)'
        BY <2>1, <2>2 DEF Posting
      <4>2. acked' = acked /\ late' = late
        BY <1>3, <3>1 DEF Poll
      <4>3. QED
        BY <1>1, <2>1, <3>1, <4>1, <4>2, KeptSame
    <3>2. CASE chainHead # head
      <4>1. acked'[g] = {} /\ late'[g] = 0
        BY <1>3, <3>2 DEF Poll
      <4>2. QED
        BY <1>1, <4>1, KeptFresh
    <3>3. QED
      BY <3>1, <3>2
  <2>5. QED
    BY <2>3, <2>4 DEF KeptInv
<1>4. CASE Restart
  <2>1. attempt' = NoAttempt /\ head' = NoBlock
    BY <1>4 DEF Restart
  <2>2. QED
    BY <2>1 DEF KeptInv, CurrentDue, Kept, Room
<1>5. ASSUME NEW a \in Attempts, NEW h \in Handlers, PostOk(a, h)
      PROVE  KeptInv'
  <2>1. /\ OthersKept(a, h)
        /\ task[a][h].todo \in Seq(Alerts) /\ task[a][h].todo # <<>>
        /\ task'[a][h] =
              [task[a][h] EXCEPT !.state = "check", !.todo = Tail(@)]
    BY <1>1, <1>5, PostOkTask
  <2>2. task'[a][h].state = "check" /\ task'[a][h].todo = Tail(task[a][h].todo)
    <3>1. task[a][h] \in TaskType /\ Tail(task[a][h].todo) \in Seq(Alerts)
      <4>1. task[a][h] \in TaskType
        BY <1>1 DEF TypeOK
      <4>2. Tail(task[a][h].todo) \in Seq(Alerts)
        BY <2>1, RangeSplit
      <4>3. QED
        BY <4>1, <4>2
    <3>2. PICK u : u = [task[a][h] EXCEPT !.state = "check",
                                          !.todo = Tail(task[a][h].todo)]
      OBVIOUS
    <3>3. u.state = "check" /\ u.todo = Tail(task[a][h].todo)
      BY <3>1, <3>2, BothUpdate
    <3>4. QED
      BY <2>1, <3>2, <3>3
  <2>3. UNCHANGED <<head, attempt>>
    BY <1>5 DEF PostOk
  <2>4. CurrentDue'
    <3>1. Range(Tail(task[a][h].todo)) \subseteq Range(task[a][h].todo)
      BY <2>1, RangeSplit
    <3>2. QED
      BY <1>1, <2>1, <2>2, <2>3, <3>1, DueWork
  <2>5. ASSUME NEW g \in Handlers, g # h PROVE Kept(g)'
    <3>1. /\ sentAlerts'[g] = sentAlerts[g] /\ acked'[g] = acked[g]
          /\ late'[g] = late[g]
      BY <1>1, <1>5, <2>5 DEF PostOk, TypeOK
    <3>2. ASSUME Posting(g)'
          PROVE  Posting(g) /\ task'[attempt][g].todo = task[attempt][g].todo
      <4>1. attempt \in Attempts
        BY <1>1, <2>3, <3>2 DEF Posting, TypeOK
      <4>2. task'[attempt][g] = task[attempt][g]
        BY <2>1, <2>5, <4>1 DEF OthersKept
      <4>3. QED
        BY <2>3, <3>2, <4>2 DEF Posting
    <3>3. QED
      BY <1>1, <2>3, <3>1, <3>2, KeptSame
  <2>6. Kept(h)'
    BY <1>5, KeptPostOk
  <2>7. QED
    BY <2>4, <2>5, <2>6 DEF KeptInv
<1>6. ASSUME NEW a \in Attempts, NEW h \in Handlers,
             Start(a, h) \/ Skip(a, h) \/ StartPost(a, h)
      PROVE  KeptInv'
  <2>1. PICK t : t = task[a][h]
    OBVIOUS
  <2>2. t \in TaskType /\ t.todo \in Seq(Alerts)
    BY <1>1, <2>1 DEF TypeOK, TaskType
  <2>3. UNCHANGED <<head, attempt, sentAlerts, acked, late>>
    BY <1>6 DEF Start, Skip, StartPost
  <2>4. ASSUME OthersKept(a, h),
               Range(task'[a][h].todo) \subseteq Range(t.todo),
               task'[a][h].state = "post" =>
                  Head(task'[a][h].todo) \notin Range(sentAlerts[h])
        PROVE  KeptInv'
    BY <1>1, <2>1, <2>3, <2>4, KeptWork, DueWork DEF KeptInv
  <2>5. CASE Start(a, h)
    <3>1. OthersKept(a, h) /\ task'[a][h] = [t EXCEPT !.state = "check"]
      BY <1>1, <2>1, <2>5, StartTask
    <3>2. task'[a][h].state = "check" /\ task'[a][h].todo = t.todo
      BY <2>2, <3>1, StateUpdate DEF States
    <3>3. QED
      BY <2>4, <3>1, <3>2
  <2>6. CASE Skip(a, h)
    <3>1. /\ t.todo # <<>> /\ t.state = "check" /\ OthersKept(a, h)
          /\ task'[a][h] = [t EXCEPT !.todo = Tail(t.todo)]
      BY <1>1, <2>1, <2>6, SkipTask DEF Skip
    <3>2. /\ Tail(t.todo) \in Seq(Alerts)
          /\ Range(Tail(t.todo)) \subseteq Range(t.todo)
      BY <2>2, <3>1, RangeSplit
    <3>3. task'[a][h].state = "check" /\ task'[a][h].todo = Tail(t.todo)
      BY <2>2, <3>1, <3>2, TodoUpdate
    <3>4. QED
      BY <2>4, <3>1, <3>2, <3>3
  <2>7. CASE StartPost(a, h)
    <3>1. Head(t.todo) \notin Range(sentAlerts[h])
      BY <2>1, <2>7 DEF StartPost
    <3>2. OthersKept(a, h) /\ task'[a][h] = [t EXCEPT !.state = "post"]
      BY <1>1, <2>1, <2>7, StartPostTask
    <3>3. task'[a][h].todo = t.todo
      BY <2>2, <3>2, StateUpdate DEF States
    <3>4. QED
      BY <2>4, <3>1, <3>2, <3>3
  <2>8. QED
    BY <1>6, <2>5, <2>6, <2>7
<1>7. ASSUME NEW a \in Attempts, NEW h \in Handlers,
             PostFails(a, h) \/ Crash(a, h) \/ Finish(a, h)
      PROVE  KeptInv'
  <2>1. PICK outcome \in {"ok", "failed"} :
           OthersKept(a, h) /\ task'[a][h] = Ended(a, h, outcome)
    BY <1>1, <1>7, FailedTask, FinishTask
  <2>2. UNCHANGED <<head, attempt, sentAlerts, acked, late>>
    BY <1>7 DEF PostFails, Crash, Finish
  <2>3. /\ task'[a][h].state # "post"
        /\ a = attempt => task'[a][h].todo = task[a][h].todo
    BY <1>1, <2>1, EndedTask
  <2>4. CurrentDue'
    BY <1>1, <2>1, <2>2, <2>3, DueWork
  <2>5. \A g \in Handlers : Kept(g)'
    BY <1>1, <2>1, <2>2, <2>3, KeptWork
  <2>6. QED
    BY <2>4, <2>5 DEF KeptInv
<1>8. CASE (\E b \in Blocks : NewHead(b)) \/ Raise \/ Complete \/ UNCHANGED vars
  BY <1>2, <1>8 DEF NewHead, Raise, Complete, vars
<1>9. QED
  BY <1>3, <1>4, <1>5, <1>6, <1>7, <1>8 DEF Next

\* What is counted is remembered.
LEMMA KeptRemembered ==
    ASSUME TypeOK, KeptInv
    PROVE  OnlyOrphansPushOut
<1> SUFFICES ASSUME NEW h \in Handlers, Room(h)
             PROVE  acked[h] \subseteq Range(sentAlerts[h])
  BY DEF OnlyOrphansPushOut, Room, DueNow
<1>1. PICK k \in 0 .. Len(sentAlerts[h]), own \in SUBSET DueNow(h) :
         Counted(h, k, own)
  BY DEF KeptInv, Kept
<1>2. sentAlerts[h] \in Seq(Alerts)
  BY DEF TypeOK
<1>3. Latest(sentAlerts[h], k) \subseteq Range(sentAlerts[h])
  BY <1>2, LatestBounds
<1>4. QED
  BY <1>1, <1>3 DEF Counted

\* Whatever fails and is retried, a handler forgets an alert it saw accepted for
\* the head at hand only when what orphans appended since the head came does not
\* fit beside what is due for it: for every KEEP_MAX_SENT_ALERTS, every number of
\* failures and everything the handlers may have to send.
THEOREM OrphansPushOut == Spec => []OnlyOrphansPushOut
<1>1. Init => KeptInv
  BY DEF Init, KeptInv, CurrentDue, Kept, Room
<1>2. IInv /\ KeptInv /\ [Next]_vars => KeptInv'
  BY KeptInvStep
<1>3. IInv /\ KeptInv => OnlyOrphansPushOut
  BY KeptRemembered DEF IInv
<1>4. QED
  BY <1>1, <1>2, <1>3, Inductive, PTL DEF Spec

=============================================================================

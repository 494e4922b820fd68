---------------------------- MODULE HeadMonitor ----------------------------
(***************************************************************************)
(* What the main loop promises, without threads, retries or memory of sent *)
(* alerts: alerts reach Alertmanager one at a time, and a head becomes the *)
(* last handled one only when every alert due for it has reached it.  What *)
(* reached Alertmanager outlives the watcher, the last head does not.      *)
(***************************************************************************)
EXTENDS Naturals, Sequences, Functions

CONSTANTS Blocks,       \* beacon blocks the node may report as its head
          Alerts,       \* alerts, told apart by their annotations
          NumHandlers,  \* handlers configured in main.py
          Slot,         \* Slot[b]: the slot of block b
          Due,          \* Due[h][b]: the alerts handler h sends for block b
          NoBlock       \* no head handled yet

Handlers == 1 .. NumHandlers

VARIABLES last,         \* the last handled head
          delivered     \* alerts Alertmanager has accepted

vars == <<last, delivered>>

DueFor(b) == UNION {Range(Due[h][b]) : h \in Handlers}

Init ==
    /\ last = NoBlock
    /\ delivered = {}

Deliver(alert) ==
    /\ delivered' = delivered \union {alert}
    /\ UNCHANGED last

Handle(b) ==
    /\ last # NoBlock => Slot[b] # Slot[last]
    /\ DueFor(b) \subseteq delivered
    /\ last' = b
    /\ UNCHANGED delivered

Forget ==
    /\ last' = NoBlock
    /\ UNCHANGED delivered

Next ==
    \/ Forget
    \/ \E alert \in Alerts : Deliver(alert)
    \/ \E b \in Blocks : Handle(b)

Spec == Init /\ [][Next]_vars
=============================================================================

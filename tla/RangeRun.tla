------------------------------ MODULE RangeRun ------------------------------
(***************************************************************************)
(* The range mode of src/watcher.py `run`: the slots of SLOTS_RANGE are    *)
(* handled one after the other, and after each of them the loop waits for  *)
(* the two updaters it has started with the first block it could read.     *)
(*                                                                         *)
(* Abstracted: both updaters are one, since they are started and waited    *)
(* for together.                                                           *)
(***************************************************************************)
EXTENDS Naturals, Sequences

CONSTANT LastSlot  \* slots are 1 .. LastSlot

VARIABLES slot,     \* the slot at hand
          pc,       \* "run" it, "handle" its block, "wait" for the updaters
          updater,  \* keys_updater and validators_updater
          ended,    \* history: an update has ended
          handled,  \* handled_headers
          seen,     \* history: had an update ended before each block was read
          skipped   \* history: slots passed over

vars == <<slot, pc, updater, ended, handled, seen, skipped>>

Init ==
    /\ slot = 1
    /\ pc = "run"
    /\ updater = "none"
    /\ ended = FALSE
    /\ handled = <<>>
    /\ seen = <<>>
    /\ skipped = {}

\* The block is read; updaters that are not at work are started.
BlockRead ==
    /\ pc = "run"
    /\ pc' = "handle"
    /\ updater' = "running"
    /\ seen' = Append(seen, ended)
    /\ UNCHANGED <<slot, ended, handled, skipped>>

\* The node answers 404 for a missed slot, or another error status: a
\* NotOkResponse is passed over in either case.
NotOk ==
    /\ pc = "run"
    /\ pc' = "wait"
    /\ skipped' = skipped \union {slot}
    /\ UNCHANGED <<slot, updater, ended, handled, seen>>

\* Every handler succeeded.
Handled ==
    /\ pc = "handle"
    /\ pc' = "wait"
    /\ handled' = Append(handled, slot)
    /\ UNCHANGED <<slot, updater, ended, seen, skipped>>

\* A handler raised a NotOkResponse: passed over as well.
HandlerNotOk ==
    /\ pc = "handle"
    /\ pc' = "wait"
    /\ skipped' = skipped \union {slot}
    /\ UNCHANGED <<slot, updater, ended, handled, seen>>

\* Any other exception leaves `run`.
Raises ==
    /\ pc \in {"run", "handle"}
    /\ pc' = "raised"
    /\ UNCHANGED <<slot, updater, ended, handled, seen, skipped>>

\* The updaters' thread.
UpdateEnds ==
    /\ updater = "running"
    /\ updater' = "done"
    /\ ended' = TRUE
    /\ UNCHANGED <<slot, pc, handled, seen, skipped>>

\* Mutated form of Awaited: the updaters go on in the background.
Started == updater # "none"

\* `result()` returns.
Awaited == updater = "done"

\* Mutated form of AtEnd: one slot too many.
PastEnd == slot > LastSlot

\* `range(int(start), int(end) + 1)` is exhausted.
AtEnd == slot = LastSlot

NextSlot ==
    /\ pc = "wait"
    /\ Awaited
    /\ pc' = IF AtEnd THEN "finished" ELSE "run"
    /\ slot' = IF AtEnd THEN slot ELSE slot + 1
    /\ UNCHANGED <<updater, ended, handled, seen, skipped>>

\* `self.keys_updater.result()` when no updater was started yet: None has no
\* such attribute, and `run` is left.
NoUpdater ==
    /\ pc = "wait"
    /\ updater = "none"
    /\ pc' = "no_updater"
    /\ UNCHANGED <<slot, updater, ended, handled, seen, skipped>>

Next ==
    \/ BlockRead
    \/ NotOk
    \/ Handled
    \/ HandlerNotOk
    \/ Raises
    \/ UpdateEnds
    \/ NextSlot
    \/ NoUpdater

Spec == Init /\ [][Next]_vars

-----------------------------------------------------------------------------
(* Properties.                                                             *)

\* Types; the loop never leaves its range of slots (`range(start, end + 1)`).
TypeOK ==
    /\ slot \in 1 .. LastSlot
    /\ pc \in {"run", "handle", "wait", "raised", "finished", "no_updater"}
    /\ updater \in {"none", "running", "done"}
    /\ ended \in BOOLEAN
    /\ handled \in Seq(1 .. LastSlot) /\ Len(handled) <= slot
    /\ seen \in Seq(BOOLEAN)
    /\ skipped \subseteq 1 .. slot

\* Only the first block of a range is handled before an update of the keys and
\* of the validators index has ended, which is what the repository's tests
\* count on when they begin a range one slot early.
LaterSlotsSeeKeys == \A i \in 2 .. Len(seen) : seen[i]
=============================================================================

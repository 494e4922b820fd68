------------------------------- MODULE Parts -------------------------------
(***************************************************************************)
(* Five parts of the watcher that share no state: the two keys sources, of *)
(* which src/main.py takes one, the range mode, a request over the list of *)
(* hosts, and the start.  KeysApiSource is extended; the names of the      *)
(* others begin with File!, Slots!, Http! and Start!.                      *)
(***************************************************************************)
EXTENDS KeysApiSource

CONSTANTS MaxEdits, LastSlot, NumHosts, MaxDepth, MaxOutages

\* A range has slots (src/watcher.py `run` is told its first and last), there
\* are hosts to ask, and the bounds are bounds.
ASSUME PartsAssumption ==
    /\ MaxEdits \in Nat \ {0} /\ LastSlot \in Nat \ {0}
    /\ NumHosts \in Nat \ {0}
    /\ MaxDepth \in Nat /\ MaxOutages \in Nat

VARIABLES edits, modified, fileKeys, filePc, mtime, content,
          slot, rangePc, updater, ended, handled, seen, skipped,
          kind, outcome, host, errors, result,
          config, locator, startPc, execution, loaded, depth, outages, asked

File == INSTANCE FileSource WITH userKeys <- fileKeys, pc <- filePc
Slots == INSTANCE RangeRun WITH pc <- rangePc
Http == INSTANCE HttpFallback
Start == INSTANCE Startup WITH pc <- startPc

-----------------------------------------------------------------------------
\* Types of FileSource and RangeRun (`update_keys`, `run`).
FileTypeOK == File!TypeOK
RangeTypeOK == Slots!TypeOK

\* KeysOfFile of FileSource: when the remembered modification time is the
\* file's, the watcher has the keys of the file.
KeysOfFile == File!KeysOfFile

\* LaterSlotsSeeKeys of RangeRun: only the first block of a range is handled
\* before the updaters have ended.
LaterSlotsSeeKeys == Slots!LaterSlotsSeeKeys

\* FirstUsableServes of HttpFallback: the first host that can serve the request
\* does, and no other is asked after it.
FirstUsableServes == Http!FirstUsableServes

\* MissedSlotWins of HttpFallback: a 404 is preferred to other errors.
MissedSlotWins == Http!MissedSlotWins

\* Types of Startup (`main`, `_load_contracts`).
StartTypeOK == Start!TypeOK

\* OnlyConfigured of Startup: the running watcher asks for nothing that is not
\* configured and never reaches for an execution client it does not have.
OnlyConfigured == Start!OnlyConfigured
=============================================================================

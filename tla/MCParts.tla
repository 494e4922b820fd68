------------------------------ MODULE MCParts ------------------------------
(***************************************************************************)
(* The parts of Parts, the decoding of an answer (Decode!) and a small     *)
(* instance of the main loop (Loop!), for liveness.  One part is chosen at *)
(* the beginning and the others rest.                                      *)
(***************************************************************************)
EXTENDS Parts

VARIABLES part,  \* the part that is chosen
          headerJson, blockJson, edited, stage, header, block, full,
          chainHead, loopHandled, head, attempt, task, sentAlerts, delivered,
          acked, late, loopFailures

Decode == INSTANCE Decoding

\* Three blocks, of which 2 and 3 compete for one slot.  The first handler sends
\* an alert for blocks 1 and 2; the second, which leaves orphans, two for block
\* 2 and one for block 3.  One thread of the pool is free, and one task fails or
\* the process is started again once.
Loop == INSTANCE HeadLoop WITH
    Blocks <- 1 .. 3, NoBlock <- 0, Slot <- <<1, 2, 2>>,
    Alerts <- 11 .. 15, NumHandlers <- 2,
    Due <- << << <<11>>, <<12>>, <<>> >>, << <<>>, <<13, 14>>, <<15>> >> >>,
    KeepHeaders <- 1, KeepAlerts <- 2, Threads <- 1, MaxFailures <- 1,
    handled <- loopHandled, failures <- loopFailures

fileVars == <<edits, modified, fileKeys, filePc, mtime, content>>
rangeVars == <<slot, rangePc, updater, ended, handled, seen, skipped>>
httpVars == <<kind, outcome, host, errors, result>>
decodeVars == <<headerJson, blockJson, edited, stage, header, block, full>>
startVars ==
    <<config, locator, startPc, execution, loaded, depth, outages, asked>>
loopVars == <<chainHead, loopHandled, head, attempt, task, sentAlerts,
              delivered, acked, late, loopFailures>>

\* At rest, the file holds keys, the request is for plain data, the answers are
\* as specified and everything is configured.
FileRests == edits = <<"keys">>
HttpRests == kind = "plain" /\ \A h \in Http!Hosts : outcome[h] = "ok"
DecodeRests ==
    /\ headerJson = Decode!Sample("BlockHeaderResponseData")
    /\ blockJson = Decode!Sample("BlockDetailsResponse")
    /\ edited = {}
StartRests ==
    /\ config = [source |-> "keys_api", dryRun |-> FALSE, unset |-> {}]
    /\ locator = "right"

MCInit ==
    /\ part \in {"api", "file", "range", "http", "decode", "startup", "loop"}
    /\ Init /\ File!Init /\ Slots!Init /\ Http!Init
    /\ IF part = "file" THEN TRUE ELSE FileRests
    /\ IF part = "http" THEN TRUE ELSE HttpRests
    /\ IF part = "decode" THEN Decode!Init
       ELSE /\ DecodeRests
            /\ stage = "header"
            /\ header = Decode!Null /\ block = Decode!Null /\ full = Decode!Null
    /\ Start!Init
    /\ part # "startup" => StartRests
    /\ Loop!Init
    /\ part # "loop" => chainHead = 1

\* A range that was left or is finished, a request that is answered and a head
\* that is decoded stop.
Stopped ==
    \/ part = "range" /\ rangePc \in {"raised", "finished", "no_updater"}
    \/ part = "http" /\ result # ""
    \/ part = "decode" /\ stage \in {"same_slot", "full", "read", "raised"}

allVars == <<part, vars, fileVars, rangeVars, httpVars, decodeVars, startVars,
             loopVars>>

MCNext ==
    \/ /\ part = "api" /\ Next
       /\ UNCHANGED <<part, fileVars, rangeVars, httpVars, decodeVars, startVars,
                       loopVars>>
    \/ /\ part = "file" /\ File!Next
       /\ UNCHANGED <<part, vars, rangeVars, httpVars, decodeVars, startVars,
                       loopVars>>
    \/ /\ part = "range" /\ Slots!Next
       /\ UNCHANGED <<part, vars, fileVars, httpVars, decodeVars, startVars,
                       loopVars>>
    \/ /\ part = "http" /\ Http!Next
       /\ UNCHANGED <<part, vars, fileVars, rangeVars, decodeVars, startVars,
                       loopVars>>
    \/ /\ part = "decode" /\ Decode!Next
       /\ UNCHANGED <<part, vars, fileVars, rangeVars, httpVars, startVars,
                       loopVars>>
    \/ /\ part = "startup" /\ Start!Next
       /\ UNCHANGED <<part, vars, fileVars, rangeVars, httpVars, decodeVars,
                       loopVars>>
    \/ /\ part = "loop" /\ Loop!Next
       /\ UNCHANGED <<part, vars, fileVars, rangeVars, httpVars, decodeVars,
                       startVars>>
    \/ Stopped /\ UNCHANGED allVars

\* The fairness of FileSource, Startup and HeadLoop, when they are the part that
\* is chosen: the file is looked at, main() runs, or the main loop does and the
\* pool serves its tasks.
MCSpec ==
    /\ MCInit
    /\ [][MCNext]_allVars
    /\ WF_fileVars(part = "file" /\ File!Update)
    /\ WF_startVars(part = "startup" /\ Start!Start)
    /\ WF_loopVars(part = "loop" /\ Loop!MainLoop)
    /\ \A a \in Loop!Attempts, h \in Loop!Handlers :
          WF_loopVars(part = "loop" /\ Loop!Work(a, h))

-----------------------------------------------------------------------------
\* ReadAsSent of Decoding: a block reads as the beacon node answered it.
ReadAsSent == Decode!ReadAsSent

\* AdditionsIgnored of Decoding: new fields keep no block from the handlers.
AdditionsIgnored == Decode!AdditionsIgnored

\* FileTaken of FileSource: keys that stay in the file are taken in the end.
FileTaken == part = "file" => File!FileTaken

\* ComesUp of Startup: with what is required and contracts that are there in the
\* end, the watcher comes to run with them.
ComesUp == part = "startup" => Start!ComesUp

\* StableHeadHandled of HeadLoop: a head that stays is handled in the end,
\* whatever failed, and orphans never keep the loop from it.
StableHeadHandled == part = "loop" => Loop!StableHeadHandled
=============================================================================

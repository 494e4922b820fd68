---------------------------- MODULE HttpFallback ----------------------------
(***************************************************************************)
(* A request that falls back from host to host: `get`, `get_stream` and    *)
(* `post` of src/providers/http_provider.py, with the two callbacks of     *)
(* src/providers/consensus/client.py and src/watcher.py that decide when   *)
(* an answer is not good enough (`force_use_fallback`) and which error is  *)
(* raised in the end (`force_raise`).                                      *)
(*                                                                         *)
(* Abstracted: the retries of one host are part of its outcome; data is    *)
(* what matters of it.                                                     *)
(***************************************************************************)
EXTENDS Naturals, Sequences, FiniteSets, FiniteSetsExt

CONSTANT NumHosts

Hosts == 1 .. NumHosts

\* What a host does: it answers, it answers with a head that is too old, it has
\* no such block (404), it answers with another error status, it cannot be
\* reached, or its answer is lost.
Outcomes == {"ok", "old", "not_found", "bad_status", "unreachable", "lost"}

\* Requests for the head look at its age; requests to the beacon node prefer a
\* 404 to other errors; a stream or a post does neither.
Kinds == {"head", "beacon", "plain"}

VARIABLES kind,     \* the request
          outcome,  \* what each host does with it
          host,     \* next host to ask
          errors,   \* errors so far, oldest first
          result    \* "" while running; "ok" or the error raised

vars == <<kind, outcome, host, errors, result>>

Init ==
    /\ kind \in Kinds
    /\ outcome \in [Hosts -> Outcomes]
    /\ host = 1
    /\ errors = <<>>
    /\ result = ""

\* `force_use_fallback`: only the head's age matters, and only for `head`.
TooOld(h) == kind = "head" /\ outcome[h] = "old"

Usable(h) == outcome[h] \in {"ok", "old"} /\ ~TooOld(h)

Answer ==
    /\ result = ""
    /\ host \in Hosts
    /\ Usable(host)
    /\ result' = "ok"
    /\ host' = host + 1
    /\ UNCHANGED <<kind, outcome, errors>>

\* Mutated form of ForceRaise: does not wait for the last host.
RaiseAtOnce(es) ==
    IF kind # "plain" /\ \E i \in 1 .. Len(es) : es[i] = "not_found"
      THEN "not_found" ELSE ""

\* Mutated form of ForceRaise: no error is preferred.
RaiseNone(es) == ""

\* `__raise_last_missed_slot_error`: a 404 among the errors of all hosts.
ForceRaise(es) ==
    IF /\ kind # "plain"
       /\ Len(es) = NumHosts
       /\ \E i \in 1 .. Len(es) : es[i] = "not_found"
      THEN "not_found" ELSE ""

\* The error of this host is kept; it is raised when it is to be, or when it is
\* the last one.
Fails ==
    LET es == Append(errors, outcome[host]) IN
    /\ result = ""
    /\ host \in Hosts
    /\ ~Usable(host)
    /\ errors' = es
    /\ host' = host + 1
    /\ result' = IF ForceRaise(es) # "" THEN ForceRaise(es)
                 ELSE IF host = NumHosts THEN es[Len(es)] ELSE ""
    /\ UNCHANGED <<kind, outcome>>

Next == Answer \/ Fails

Spec == Init /\ [][Next]_vars

-----------------------------------------------------------------------------
(* Properties.                                                             *)

\* The request succeeds when any host can serve it, and the first such host is
\* the last one asked: a missed slot on one host does not hide the block on
\* another, and no post goes on to a host after one whose answer came in.
FirstUsableServes ==
    result # "" =>
        LET usable == {h \in Hosts : outcome[h] = "ok"
                            \/ (outcome[h] = "old" /\ kind # "head")}
        IN  IF usable = {} THEN result # "ok" /\ host = NumHosts + 1
            ELSE result = "ok" /\ host = Min(usable) + 1

\* When no host can serve a request to the beacon node and any of them says
\* 404, that is the error raised, wherever in the list the host is (client.py,
\* "Prioritize NotOkResponse before other exceptions").
MissedSlotWins ==
    result # "" /\ result # "ok" /\ kind # "plain"
        /\ (\E h \in Hosts : outcome[h] = "not_found") => result = "not_found"
=============================================================================

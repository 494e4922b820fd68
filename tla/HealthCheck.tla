---------------------------- MODULE HealthCheck ----------------------------
(***************************************************************************)
(* The server of src/metrics/healthcheck_server.py, Docker's probe of it   *)
(* (HEALTHCHECK in Dockerfile), and the main loop it is to watch over,     *)
(* which never calls `pulse`.                                              *)
(***************************************************************************)
EXTENDS Naturals

CONSTANTS Lifetime,  \* MAX_CYCLE_LIFETIME_IN_SECONDS, in intervals of the probe
          MaxTime    \* bound: length of a run

VARIABLES now,        \* the time, in intervals of the probe
          lastPulse,  \* _last_pulse
          lastCycle,  \* history: when the main loop last went round
          status      \* what the last probe was answered

vars == <<now, lastPulse, lastCycle, status>>

Init ==
    /\ now = 0
    /\ lastPulse = 0
    /\ lastCycle = 0
    /\ status = 200

\* An iteration of the main loop: the server hears nothing of it.
Cycle ==
    /\ lastCycle' = now
    /\ UNCHANGED <<now, lastPulse, status>>

\* `_last_pulse` after a request for a path.
PulseAfter(path) == IF path = "/pulse/" THEN now' ELSE lastPulse

\* `do_GET`.
Get(path) ==
    /\ lastPulse' = PulseAfter(path)
    /\ status' = IF now' - lastPulse' > Lifetime THEN 503 ELSE 200

\* The next probe.
Probe ==
    /\ now < MaxTime
    /\ now' = now + 1
    /\ Get("/pulse/")
    /\ UNCHANGED lastCycle

Next == Cycle \/ Probe

Spec == Init /\ [][Next]_vars

-----------------------------------------------------------------------------
(* Properties.                                                             *)

\* When the main loop has not been heard of for longer than its lifetime the
\* probe fails, so that Docker restarts the watcher (healthcheck_server.py: "If
\* bot didn't call pulse for a while ... healthcheck in docker returns 1 and
\* bot will be restarted").
SilenceIsReported == now - lastCycle > Lifetime => status = 503
=============================================================================

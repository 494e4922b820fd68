----------------------------- MODULE MCHeadLoop -----------------------------
(* Small instances of HeadLoop.                                            *)
EXTENDS HeadLoop

\* Three blocks; 2 and 3 compete for one slot.
MCSlot == [b \in Blocks |-> IF b = 1 THEN 1 ELSE 2]

\* Two handlers: the first sends one alert for blocks 1 and 2, the second, which
\* leaves orphans, two alerts for block 2 and one for block 3.
MCDue ==
    <<  <<  <<"a1">>, <<"a2">>,       <<>> >>,
        <<  <<>>,     <<"b2", "c2">>, <<"b3">> >>  >>

MCAlerts == {"a1", "a2", "b2", "c2", "b3"}

\* Two blocks with consolidation requests: ConsolidationHandler sends up to nine
\* alerts for one, here for the first, and two for the second.  The handler
\* before it sends none.
MCManyAlerts == (1 .. 9) \union {21, 22}

MCManyDue ==
    <<  << <<>>, <<>> >>,
        << [i \in 1 .. 9 |-> i], <<21, 22>> >>  >>
=============================================================================

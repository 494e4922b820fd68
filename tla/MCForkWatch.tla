---------------------------- MODULE MCForkWatch ----------------------------
(* A small block tree for ForkWatch.                                        *)
EXTENDS ForkWatch, TLC

\* Blocks are numbers, the tens are slots: two forks leave the chain
\* 10 - 20 - 30 - 40 - 60, block 51 after 10 and block 41 after 30.
MCSlot == [b \in Blocks |-> b \div 10]

MCParent == [b \in Blocks |-> CASE b = 10 -> NoBlock
                                [] b = 41 -> 30
                                [] b = 51 -> 10
                                [] b = 60 -> 40
                                [] OTHER -> b - 10]

MCAncestors ==
    [b \in Blocks |->
        IF b = 51 THEN {10}
        ELSE {a \in Blocks : a % 10 = 0 /\ a \div 10 < b \div 10}]

\* No definition tells one task from another.
MCTasks == Permutations(Tasks)
=============================================================================

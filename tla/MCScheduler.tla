---------------------------- MODULE MCScheduler ----------------------------
(* Two clients, two tasks with different periods (so ties and reorderings *)
(* in s.tasks both occur), four ticks of the clock.                        *)
EXTENDS Scheduler

MCPeriod == [t \in Tasks |-> IF t = CHOOSE x \in Tasks : TRUE THEN 1 ELSE 2]
MCDuration == [t \in Tasks |-> 500 * Period[t]]
=============================================================================

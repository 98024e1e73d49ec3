--------------------------- MODULE StartInterval ---------------------------
(***************************************************************************)
(* The ticker interval Scheduler.Start picks (src/pkg/tasks/scheduler.go,  *)
(* lines 159-173).  The WithTickerInterval option wins when non-zero;      *)
(* otherwise Start scans the registered tasks in s.tasks order, starting   *)
(* from DefaultTickerInterval, and whenever a task's Duration() is below   *)
(* the interval found so far it takes a tenth of that Duration (Go integer *)
(* division).  A zero result falls back to the default.  The state is the  *)
(* option and the Durations of the tasks added so far.                     *)
(***************************************************************************)
EXTENDS Integers, Sequences, SequencesExt

CONSTANTS
    DefaultTickerInterval, \* DefaultTickerInterval (time.Second) in ns units
    TickerIntervals,       \* values WithTickerInterval may be given (0: absent)
    Durations,             \* values Task.Duration() may return, in ns
    MaxTasks               \* bound on the number of registered tasks

VARIABLES
    tickerInterval, \* s.dops.tickerInterval
    durations       \* Duration() of s.tasks, in order

vars == <<tickerInterval, durations>>

\* Go's integer division truncates toward zero; \div floors.
GoDiv(a, b) == IF a >= 0 THEN a \div b ELSE -((-a) \div b)

\* Mutant: the comparison made against the default instead of the interval
\* found so far.
ScanStepAgainstDefault(interval, in) ==
    IF in < DefaultTickerInterval THEN GoDiv(in, 10) ELSE interval

\* One iteration of the loop over s.tasks (lines 163-168).
ScanStep(interval, in) == IF in < interval THEN GoDiv(in, 10) ELSE interval

\* The loop, folded over the tasks in order from the default.
ScannedInterval(ds) == FoldLeft(ScanStep, DefaultTickerInterval, ds)

\* The interval handed to time.NewTicker (lines 159-173).
ChooseInterval(opt, ds) ==
    LET scanned == IF opt = 0 THEN ScannedInterval(ds) ELSE opt
    IN  IF scanned = 0 THEN DefaultTickerInterval ELSE scanned

Interval == ChooseInterval(tickerInterval, durations)

-----------------------------------------------------------------------------
\* NewScheduler(ops...): no tasks, the option as given.
Init ==
    /\ tickerInterval \in TickerIntervals
    /\ durations = <<>>

\* Scheduler.Add appends a task.
Add(d) ==
    /\ Len(durations) < MaxTasks
    /\ durations' = Append(durations, d)
    /\ UNCHANGED tickerInterval

\* Scheduler.Clear drops every task.
Clear ==
    /\ durations' = <<>>
    /\ UNCHANGED tickerInterval

Next ==
    \/ \E d \in Durations : Add(d)
    \/ Clear

Spec == Init /\ [][Next]_vars

-----------------------------------------------------------------------------
\* Start's comment says it uses a tenth of a task's interval.  Without the
\* option, when some task is shorter than the default tick, the tick Start
\* picks is never coarser than the shortest task and never finer than a
\* tenth of it; the one exception is a task under 10ns, whose tenth
\* truncates to zero and sends the tick back to the 1s default.  When no
\* task is shorter than the default, the default is used.
TickNoCoarserThanShortestTask ==
    (tickerInterval = 0 /\ durations # <<>>) =>
        LET m == Min(ToSet(durations)) IN
            \/ m >= DefaultTickerInterval /\ Interval = DefaultTickerInterval
            \/ /\ m < DefaultTickerInterval
               /\ GoDiv(m, 10) <= Interval
               /\ Interval <= m
            \/ m < 10 /\ Interval = DefaultTickerInterval
=============================================================================

----------------------------- MODULE Scheduler -----------------------------
(***************************************************************************)
(* The in-process periodic task scheduler of package tasks                 *)
(* (src/pkg/tasks/scheduler.go, lines 29-237).  Client goroutines call     *)
(* Add, Clear, Start and Stop, each under s.lock.  Start launches one      *)
(* ticker goroutine that selects between ticker.C and the buffered quit   *)
(* channel; on a tick it runs runPending, which sorts s.tasks under the    *)
(* lock, keeps the prefix whose ShouldRun() holds, releases the lock and   *)
(* launches `go task.Run()` for each of them.  Stop sends on quit while    *)
(* still holding s.lock.                                                   *)
(*                                                                         *)
(* Time is counted in ticks of the ticker.  The Task side (task.go is not  *)
(* part of the source) is reduced to what the scheduler reads: a next     *)
(* scheduled tick per task, ShouldRun() as "that tick has come", and a     *)
(* Run goroutine that reschedules the task Period ticks later.             *)
(***************************************************************************)
EXTENDS Integers, Sequences, SequencesExt

CONSTANTS
    Clients,               \* goroutines calling the Scheduler interface
    Tasks,                 \* Task values that may be added
    Period,                \* [Tasks -> Nat \ {0}]: ticks between two runs
    Duration,              \* [Tasks -> Int]: Task.Duration(), read by Start
    TickerInterval,        \* the WithTickerInterval option (0 when absent)
    DefaultTickerInterval, \* DefaultTickerInterval in ns units
    NoOwner,               \* model value: s.lock is free
    MaxTasks,              \* bound on Len(s.tasks)
    MaxCalls,              \* bound on the calls each client makes
    MaxStops,              \* bound on the Stop calls of all clients
    MaxTime                \* bound on the ticks of the clock

VARIABLES
    tasks,    \* s.tasks
    running,  \* s.running
    quit,     \* number of values buffered in s.quit
    lock,     \* the goroutine holding s.lock across a step, or NoOwner
    interval, \* the interval Start handed to time.NewTicker (0: not started)
    loop,     \* the ticker goroutine: "none", "select", "lock", "launch", "exited"
    tickC,    \* ticker.C holds a tick (capacity 1: later ticks are dropped)
    batch,    \* runnable tasks runPending has still to launch
    now,      \* the clock, in ticks
    next,     \* [Tasks -> Int]: NextScheduledTime() of each task
    pending,  \* [Tasks -> Nat]: Run goroutines launched and not yet run
    pc,       \* [Clients -> {"idle", "send"}]: "send" is Stop blocked on quit
    calls,    \* [Clients -> Nat]: calls made by each client
    stops     \* Stop calls made so far

vars == <<tasks, running, quit, lock, interval, loop, tickC, batch,
          now, next, pending, pc, calls, stops>>

\* The ticker goroutine is between Start and its return on quit.
LoopAlive == loop \in {"select", "lock", "launch"}

SI == INSTANCE StartInterval
        WITH tickerInterval <- TickerInterval,
             durations <- [i \in 1..Len(tasks) |-> Duration[tasks[i]]],
             TickerIntervals <- {TickerInterval},
             Durations <- {Duration[t] : t \in Tasks}

-----------------------------------------------------------------------------
(* The sort.Interface of *scheduler and getRunnableTasks.                  *)

\* Mutant: the comparison of Less reversed.
LessReversed(a, b) == next[b] < next[a]

\* Less(i, j): tasks[j].NextScheduledTime().After(tasks[i].NextScheduledTime()).
Less(a, b) == next[a] < next[b]

\* sort.Sort(s) permutes s.tasks in place so that no task is Less than one
\* before it; it is not stable, so tasks due at the same tick may come out
\* in any order.
SortedOrders(s) ==
    { p \in BoundedSeq(ToSet(s), Len(s)) :
        /\ Len(p) = Len(s)
        /\ ToBag(p) = ToBag(s)
        /\ \A i, j \in 1..Len(p) : i < j => ~Less(p[j], p[i]) }

\* Task.ShouldRun(): its next scheduled tick has come.
ShouldRun(t) == next[t] <= now

\* The loop of getRunnableTasks: tasks up to the first that should not run.
RECURSIVE RunnablePrefix(_)
RunnablePrefix(s) ==
    IF s # <<>> /\ ShouldRun(Head(s))
    THEN <<Head(s)>> \o RunnablePrefix(Tail(s))
    ELSE <<>>

-----------------------------------------------------------------------------
\* NewScheduler: no tasks, not running, an empty quit channel of capacity 1.
QuitCap == 1

Init ==
    /\ tasks = <<>>
    /\ running = FALSE
    /\ quit = 0
    /\ lock = NoOwner
    /\ interval = 0
    /\ loop = "none"
    /\ tickC = FALSE
    /\ batch = <<>>
    /\ now = 0
    /\ next \in [Tasks -> 1..2]
    /\ pending = [t \in Tasks |-> 0]
    /\ pc = [c \in Clients |-> "idle"]
    /\ calls = [c \in Clients |-> 0]
    /\ stops = 0

\* A client begins a call: s.lock.Lock() succeeds and the call is counted.
BeginCall(c) ==
    /\ pc[c] = "idle"
    /\ calls[c] < MaxCalls
    /\ lock = NoOwner
    /\ calls' = [calls EXCEPT ![c] = @ + 1]

TaskVars == <<now, next, pending>>
LoopVars == <<loop, tickC, batch, interval>>

\* Add appends the task to s.tasks.
Add(c, t) ==
    /\ BeginCall(c)
    /\ Len(tasks) < MaxTasks
    /\ tasks' = Append(tasks, t)
    /\ UNCHANGED <<running, quit, lock, LoopVars, TaskVars, pc, stops>>

\* Clear replaces s.tasks by an empty slice.
Clear(c) ==
    /\ BeginCall(c)
    /\ tasks' = <<>>
    /\ UNCHANGED <<running, quit, lock, LoopVars, TaskVars, pc, stops>>

\* IsRunning returns s.running.
IsRunning == running

\* Start: an error when s.running is set; otherwise sets it, picks the
\* interval, creates the ticker and starts the ticker goroutine.
Start(c) ==
    /\ BeginCall(c)
    /\ \/ /\ running
          /\ UNCHANGED <<running, LoopVars>>
       \/ /\ ~running
          /\ running' = TRUE
          /\ interval' = SI!Interval
          /\ loop' = "select"
          /\ tickC' = FALSE
          /\ UNCHANGED batch
    /\ UNCHANGED <<tasks, quit, lock, TaskVars, pc, stops>>

\* Stop: an error when s.running is not set; otherwise, still holding the
\* lock, it goes on to send on s.quit.  s.running is left as it is.
Stop(c) ==
    /\ BeginCall(c)
    /\ stops < MaxStops
    /\ stops' = stops + 1
    /\ \/ /\ ~running
          /\ UNCHANGED <<lock, pc>>
       \/ /\ running
          /\ lock' = c
          /\ pc' = [pc EXCEPT ![c] = "send"]
    /\ UNCHANGED <<tasks, running, quit, LoopVars, TaskVars>>

\* s.quit <- true completes once the buffer has room; the deferred Unlock
\* runs and Stop returns nil.
StopSend(c) ==
    /\ pc[c] = "send"
    /\ quit < QuitCap
    /\ quit' = quit + 1
    /\ lock' = NoOwner
    /\ pc' = [pc EXCEPT ![c] = "idle"]
    /\ UNCHANGED <<tasks, running, LoopVars, TaskVars, calls, stops>>

-----------------------------------------------------------------------------
(* The ticker goroutine started by Start (lines 180-191).                  *)

\* select takes a tick from ticker.C and calls runPending.
LoopTick ==
    /\ loop = "select"
    /\ tickC
    /\ tickC' = FALSE
    /\ loop' = "lock"
    /\ UNCHANGED <<tasks, running, quit, lock, interval, batch, TaskVars,
                   pc, calls, stops>>

\* Mutant: the quit case stops the ticker but does not return.
LoopQuitNoReturn ==
    /\ loop = "select"
    /\ quit > 0
    /\ quit' = quit - 1
    /\ UNCHANGED <<tasks, running, lock, LoopVars, TaskVars, pc, calls, stops>>

\* select takes the value from s.quit: ticker.Stop() and return.
LoopQuit ==
    /\ loop = "select"
    /\ quit > 0
    /\ quit' = quit - 1
    /\ loop' = "exited"
    /\ UNCHANGED <<tasks, running, lock, interval, tickC, batch, TaskVars,
                   pc, calls, stops>>

\* getRunnableTasks: under s.lock, sort s.tasks in place and take the
\* runnable prefix; runPending then iterates over it outside the lock.
GetRunnableTasks ==
    /\ loop = "lock"
    /\ lock = NoOwner
    /\ \E sorted \in SortedOrders(tasks) :
          /\ tasks' = sorted
          /\ batch' = RunnablePrefix(sorted)
          /\ loop' = IF batch' = <<>> THEN "select" ELSE "launch"
    /\ UNCHANGED <<running, quit, lock, interval, tickC, TaskVars,
                   pc, calls, stops>>

\* Mutant: the launch loop stops one task early.
LaunchStopsEarly ==
    /\ loop = "launch"
    /\ pending' = [pending EXCEPT ![Head(batch)] = @ + 1]
    /\ batch' = Tail(batch)
    /\ loop' = IF Len(batch) <= 2 THEN "select" ELSE "launch"
    /\ UNCHANGED <<tasks, running, quit, lock, interval, tickC, now, next,
                   pc, calls, stops>>

\* One iteration of runPending: go task.Run().
Launch ==
    /\ loop = "launch"
    /\ pending' = [pending EXCEPT ![Head(batch)] = @ + 1]
    /\ batch' = Tail(batch)
    /\ loop' = IF Len(batch) = 1 THEN "select" ELSE "launch"
    /\ UNCHANGED <<tasks, running, quit, lock, interval, tickC, now, next,
                   pc, calls, stops>>

-----------------------------------------------------------------------------
(* The environment: the ticker and the Run goroutines of the tasks.        *)

\* The ticker fires while it has not been stopped; a tick finding ticker.C
\* full is dropped.
Tick ==
    /\ LoopAlive
    /\ now < MaxTime
    /\ now' = now + 1
    /\ tickC' = TRUE
    /\ UNCHANGED <<tasks, running, quit, lock, interval, loop, batch, next,
                   pending, pc, calls, stops>>

\* A Run goroutine launched by runPending runs and reschedules its task.
TaskRun(t) ==
    /\ pending[t] > 0
    /\ pending' = [pending EXCEPT ![t] = @ - 1]
    /\ next' = [next EXCEPT ![t] = now + Period[t]]
    /\ UNCHANGED <<tasks, running, quit, lock, LoopVars, now, pc, calls, stops>>

Next ==
    \/ \E c \in Clients :
          \/ \E t \in Tasks : Add(c, t)
          \/ Clear(c)
          \/ Start(c)
          \/ Stop(c)
          \/ StopSend(c)
    \/ LoopTick
    \/ LoopQuit
    \/ GetRunnableTasks
    \/ Launch
    \/ Tick
    \/ \E t \in Tasks : TaskRun(t)

\* Goroutines that can go on are scheduled by the Go runtime.  select picks
\* uniformly among ready cases, so a quit that stays buffered is taken
\* with probability 1 even while ticks keep arriving: strong fairness.
Fairness ==
    /\ \A c \in Clients : WF_vars(StopSend(c))
    /\ WF_vars(LoopTick)
    /\ WF_vars(GetRunnableTasks)
    /\ WF_vars(Launch)
    /\ SF_vars(LoopQuit)
    /\ \A t \in Tasks : WF_vars(TaskRun(t))

Spec == Init /\ [][Next]_vars /\ Fairness

-----------------------------------------------------------------------------
\* The tasks runPending launches for one tick, as a multiset.
DueBag(s) == ToBag(SelectSeq(s, ShouldRun))

\* getRunnableTasks keeps only the sorted prefix of tasks that should run
\* and stops at the first that should not.  Whatever s.tasks holds
\* (duplicates included) and whatever order Add left it in, the batch it
\* returns holds every entry of s.tasks whose ShouldRun() holds, as often
\* as it occurs, and no other.
BatchIsExactlyTheDueTasks ==
    [][loop = "lock" /\ loop' # "lock" => ToBag(batch') = DueBag(tasks)]_vars

\* Stop holds s.lock while it sends on s.quit, and the ticker goroutine
\* needs s.lock in getRunnableTasks before it can take quit: every Stop
\* that blocks on the send eventually returns and releases the lock.
StopReturnsAndReleasesLock ==
    \A c \in Clients : (pc[c] = "send") ~> (pc[c] = "idle" /\ lock # c)

\* A value Stop put on s.quit is eventually taken by the ticker goroutine,
\* which then returns: a successful Stop does stop the scheduler's loop.
StopEndsTickerLoop == (quit > 0) ~> (loop = "exited")

\* Every tick is acted on: once the ticker goroutine has a tick to take,
\* each registered task whose ShouldRun() holds then gets a Run goroutine
\* launched, unless it is cleared away or the loop is stopped first.  The
\* sort, the runnable prefix and the launch loop of runPending together
\* must not leave a due task behind.
DueTaskIsLaunched ==
    \A t \in Tasks :
        (loop = "select" /\ tickC /\ t \in ToSet(tasks) /\ ShouldRun(t))
            ~> (pending[t] > 0 \/ loop = "exited" \/ t \notin ToSet(tasks))

\* Clear is documented to delete all scheduled tasks: runPending launches
\* task.Run() only for a task that is in s.tasks when it is launched.
LaunchesOnlyRegisteredTasks == [][Launch => Head(batch) \in ToSet(tasks)]_vars

\* IsRunning reports the status of the scheduler: it is true exactly while
\* the ticker goroutine started by Start is still running.
IsRunningReflectsLoop == IsRunning <=> LoopAlive
=============================================================================

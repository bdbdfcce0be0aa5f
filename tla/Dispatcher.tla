----------------------------- MODULE Dispatcher -----------------------------
(***************************************************************************)
(* The dispatcher (src/game/scheduling): one thread of the pool runs all   *)
(* game logic as tasks; every thread dispatches tasks through a queue of   *)
(* its own, which the dispatcher merges into its main queues.              *)
(*                                                                         *)
(* One turn of the dispatcher's loop is the sequence Program of phases. A  *)
(* critical section of a thread's mutex is one step, and so is the         *)
(* execution of one task. Time is counted relative to the cached clock     *)
(* OTSYSTIME, which the loop refreshes once per turn.                      *)
(***************************************************************************)
EXTENDS Integers, Sequences, FiniteSets

CONSTANTS
    NThreads,   \* threads 1..NThreads; thread 1 is the dispatcher's
    Event,      \* tasks for addEvent, addWalkEvent and asyncEvent
    Scheduled,  \* tasks for scheduleEvent and cycleEvent
    GroupOf,    \* GroupOf[e]: the task group of event e
    Expires,    \* Expires[e]: expiresAfterMs of event e, 0 for never
    Delay,      \* Delay[s]: delay of scheduled task s
    Cycle,      \* the scheduled tasks that repeat
    AtStart,    \* cycle tasks that Game::start scheduled
    Stoppable,  \* the scheduled tasks whose event id somebody keeps
    MaxLag,     \* bound: a turn is never longer than this many ticks
    MaxRuns     \* bound: executions counted for a cycle task

Group  == {"Walk", "WalkParallel", "Serial", "GenericParallel"}
Thread == 1 .. NThreads
Task   == Event \cup Scheduled

ASSUME DispatcherAssumption ==
    /\ NThreads \in Nat \ {0, 1}
    /\ Event \cap Scheduled = {} /\ IsFiniteSet(Scheduled)
    /\ GroupOf \in [Event -> Group]
    /\ Expires \in [Event -> Nat]
    /\ Delay \in [Scheduled -> Nat]
    /\ Cycle \subseteq Scheduled /\ AtStart \subseteq Cycle
    /\ Stoppable \subseteq Scheduled
    /\ MaxLag \in Nat /\ MaxRuns \in Nat \ {0}

VARIABLES
    pc,           \* phase the dispatcher is in; 0 once its loop has ended
    idx,          \* thread whose queues the current merge visits next
    mainTasks,    \* m_tasks: main queue of each group
    threadTasks,  \* threads[t]->tasks
    threadSched,  \* threads[t]->scheduledTasks
    scheduled,    \* scheduledTasks
    ref,          \* scheduledTasksRef: what stopEvent can still find
    cancelled,    \* tasks whose function is null
    left,         \* utime (or expiration) of a task minus OTSYSTIME
    lag,          \* ticks since OTSYSTIME was refreshed
    hasPending,   \* hasPendingTasks
    adding,       \* threads between their push and their notify()
    running,      \* tasks whose function is executing
    waiting,      \* "no", or the dispatcher is inside signalSchedule.wait_for
                  \* and "asleep" or already "signalled"
    sleep,        \* ticks until wait_for times out
    shuttingDown, \* Dispatcher::shuttingDown
    stopped,      \* ThreadPool::stopped
    accepted,     \* history: tasks that were dispatched
    ran,          \* history: how often a task was executed
    dropped       \* history: tasks discarded as expired or cancelled

queues   == <<mainTasks, threadTasks, threadSched, scheduled, ref>>
clock    == <<left, lag>>
wakeup   == <<hasPending, waiting, sleep>>
stopping == <<shuttingDown, stopped>>
history  == <<accepted, ran, dropped, cancelled>>
vars == <<pc, idx, queues, clock, wakeup, adding, running, stopping, history>>

-----------------------------------------------------------------------------
(* The loop of Dispatcher::init. "run Walk" etc. execute a group's queue. *)
Program == <<"time",
             "merge", "check", "Walk", "mergeAsync", "WalkParallel",
             "merge", "check", "Serial", "mergeAsync", "GenericParallel",
             "scheduled", "mergeAsync", "GenericParallel",
             "merge", "check", "test", "wait">>

At(phase) == pc # 0 /\ Program[pc] = phase

Advance == pc' = (pc % Len(Program)) + 1 /\ idx' = 1

Serial   == {"Walk", "Serial"}
Parallel == {"WalkParallel", "GenericParallel"}

Forever == -1

Init ==
    /\ pc = 1 /\ idx = 1
    /\ mainTasks = [g \in Group |-> <<>>]
    /\ threadTasks = [t \in Thread |-> [g \in Group |-> <<>>]]
    /\ threadSched = [t \in Thread |-> <<>>]
    /\ scheduled = AtStart
    /\ ref = AtStart
    /\ cancelled = {}
    /\ left = [x \in Task |-> IF x \in AtStart THEN Delay[x] ELSE 0]
    /\ lag = 0
    /\ hasPending = FALSE
    /\ adding = {} /\ running = {}
    /\ waiting = "no" /\ sleep = 0
    /\ shuttingDown = FALSE /\ stopped = FALSE
    /\ accepted = AtStart
    /\ ran = [x \in Task |-> 0]
    /\ dropped = {}

-----------------------------------------------------------------------------
(* Dispatching a task. *)

\* addEvent, addWalkEvent and asyncEvent up to the push: thread t takes its
\* mutex and appends the task; it holds the mutex until notify() is done.
PushEvent(t, e) ==
    /\ threadTasks' = [threadTasks EXCEPT ![t][GroupOf[e]] = Append(@, e)]
    /\ left' = [left EXCEPT ![e] = Expires[e]]
    /\ accepted' = accepted \cup {e}
    /\ UNCHANGED <<threadSched, ref>>

\* scheduleEvent up to the push.
PushScheduled(t, s) ==
    /\ threadSched' = [threadSched EXCEPT ![t] = Append(@, s)]
    /\ ref' = ref \cup {s}
    /\ left' = [left EXCEPT ![s] = Delay[s]]
    /\ accepted' = accepted \cup {s}
    /\ UNCHANGED threadTasks

Push(t, x) ==
    \/ x \in Event /\ PushEvent(t, x)
    \/ x \in Scheduled /\ PushScheduled(t, x)

\* A thread dispatches a task, the dispatcher's own only from the body of a
\* task; dispatching is refused once the dispatcher is shutting down.
Dispatch(t, x) ==
    /\ t \notin adding
    /\ t = 1 => running # {}
    /\ ~shuttingDown
    /\ x \notin accepted
    /\ Push(t, x)
    /\ adding' = adding \cup {t}
    /\ UNCHANGED <<pc, idx, mainTasks, scheduled, lag, wakeup, running, stopping,
                   ran, dropped, cancelled>>

\* The effect of notify_one or notify_all on the dispatcher.
Signalled == IF waiting = "asleep" THEN "signalled" ELSE waiting

\* notify(): the flag is only raised, and the condition variable signalled,
\* when the flag was down. The signal is lost unless the dispatcher waits.
Notify(t) ==
    /\ t \in adding
    /\ adding' = adding \ {t}
    /\ IF hasPending
       THEN UNCHANGED <<hasPending, waiting>>
       ELSE hasPending' = TRUE /\ waiting' = Signalled
    /\ UNCHANGED <<pc, idx, queues, clock, sleep, running, stopping, history>>

\* stopEvent, called by a task that runs on the dispatcher's thread with an
\* event id that was kept (Game::start keeps none of those it is given).
StopEvent(s) ==
    /\ running # {} /\ Program[pc] \notin Parallel
    /\ s \in ref \cap Stoppable
    /\ cancelled' = cancelled \cup {s}
    /\ ref' = ref \ {s}
    /\ UNCHANGED <<pc, idx, mainTasks, threadTasks, threadSched, scheduled, clock,
                   wakeup, adding, running, stopping, accepted, ran, dropped>>

-----------------------------------------------------------------------------
(* The phases of the loop. *)

\* Tasks whose time still matters.
Timed == {x \in accepted : /\ x \notin dropped
                           /\ x \in Event => Expires[x] # 0 /\ ran[x] = 0
                           /\ x \in Scheduled \ Cycle => ran[x] = 0}

\* UPDATE_OTSYS_TIME at the top of a turn, unless the pool has been stopped.
UpdateTime ==
    /\ At("time")
    /\ IF stopped
       THEN pc' = 0 /\ UNCHANGED <<idx, clock>>
       ELSE /\ left' = [x \in Task |-> IF x \in Timed THEN left[x] - lag ELSE left[x]]
            /\ lag' = 0
            /\ Advance
    /\ UNCHANGED <<queues, wakeup, adding, running, stopping, history>>

\* Mutant: the queue that was swapped out is not moved back.
MergeQueueSwapOnly(main, own) == IF Len(own) > Len(main) THEN own ELSE main \o own

\* __mergeEvents for one group: the longer queue comes first, so tasks that
\* were merged earlier can end up behind newer ones of the same thread.
MergeQueue(main, own) == IF Len(own) > Len(main) THEN own \o main ELSE main \o own

\* One thread's turn in a merge of the groups G, under that thread's mutex.
MergeThread(G, withScheduled) ==
    /\ idx \notin adding
    /\ mainTasks' = [g \in Group |-> IF g \in G
                        THEN MergeQueue(mainTasks[g], threadTasks[idx][g]) ELSE mainTasks[g]]
    /\ threadTasks' = [threadTasks EXCEPT ![idx] =
                        [g \in Group |-> IF g \in G THEN <<>> ELSE @[g]]]
    /\ IF withScheduled
       THEN /\ scheduled' = scheduled \cup {threadSched[idx][i] : i \in DOMAIN threadSched[idx]}
            /\ threadSched' = [threadSched EXCEPT ![idx] = <<>>]
       ELSE UNCHANGED <<scheduled, threadSched>>
    /\ IF idx = NThreads THEN Advance ELSE idx' = idx + 1 /\ UNCHANGED pc
    /\ UNCHANGED <<ref, clock, wakeup, adding, running, stopping, history>>

MergeEvents      == At("merge") /\ MergeThread(Serial, TRUE)
MergeAsyncEvents == At("mergeAsync") /\ MergeThread(Parallel, FALSE)

\* checkPendingTasks, the end of mergeEvents.
CheckPendingTasks ==
    /\ At("check")
    /\ hasPending' = \E g \in Group : mainTasks[g] # <<>>
    /\ Advance
    /\ UNCHANGED <<queues, clock, waiting, sleep, adding, running, stopping, history>>

HasExpired(e) == Expires[e] # 0 /\ left[e] < 0

\* Task::execute of an event that has left its queue.
Execute(e) ==
    IF HasExpired(e)
    THEN dropped' = dropped \cup {e} /\ UNCHANGED <<running, ran>>
    ELSE /\ running' = running \cup {e}
         /\ ran' = [ran EXCEPT ![e] = @ + 1]
         /\ UNCHANGED dropped

\* executeSerialEvents: the queue in order, one task at a time.
StartSerial(g) ==
    /\ At(g) /\ g \in Serial
    /\ running = {} /\ mainTasks[g] # <<>>
    /\ Execute(Head(mainTasks[g]))
    /\ mainTasks' = [mainTasks EXCEPT ![g] = Tail(@)]
    /\ UNCHANGED <<pc, idx, threadTasks, threadSched, scheduled, ref, clock, wakeup,
                   adding, stopping, accepted, cancelled>>

\* executeParallelEvents: asyncWait runs the tasks of the queue on the pool
\* and on the dispatcher's thread, in any order and at the same time.
StartParallel(g, i) ==
    /\ At(g) /\ g \in Parallel
    /\ Execute(mainTasks[g][i])
    /\ mainTasks' = [mainTasks EXCEPT ![g] =
                       [j \in 1 .. Len(@) - 1 |-> IF j < i THEN @[j] ELSE @[j + 1]]]
    /\ UNCHANGED <<pc, idx, threadTasks, threadSched, scheduled, ref, clock, wakeup,
                   adding, stopping, accepted, cancelled>>

EndEvent(e) ==
    /\ e \in running \cap Event
    /\ 1 \notin adding
    /\ running' = running \ {e}
    /\ UNCHANGED <<pc, idx, queues, clock, wakeup, adding, stopping, history>>

\* A group's queue has been worked off (retFuture.wait() for a parallel one).
EndGroup(g) ==
    /\ At(g)
    /\ mainTasks[g] = <<>> /\ running = {}
    /\ Advance
    /\ UNCHANGED <<queues, clock, wakeup, adding, running, stopping, history>>

\* The scheduled task with the smallest time, if it is due.
IsNext(s) == s \in scheduled /\ left[s] <= 0 /\ \A u \in scheduled : left[s] <= left[u]

\* Mutant: the task's function is called without asking isCanceled().
StartScheduledBlindly(s) ==
    /\ At("scheduled") /\ running = {}
    /\ IsNext(s)
    /\ scheduled' = scheduled \ {s}
    /\ running' = {s}
    /\ ran' = [ran EXCEPT ![s] = IF @ < MaxRuns THEN @ + 1 ELSE @]
    /\ UNCHANGED <<pc, idx, mainTasks, threadTasks, threadSched, ref, clock, wakeup, adding,
                   stopping, accepted, dropped, cancelled>>

\* executeScheduledEvents, one task: a cancelled one is forgotten.
StartScheduled(s) ==
    /\ At("scheduled") /\ running = {}
    /\ IsNext(s)
    /\ scheduled' = scheduled \ {s}
    /\ IF s \in cancelled
       THEN /\ ref' = ref \ {s}
            /\ dropped' = dropped \cup {s}
            /\ UNCHANGED <<running, ran>>
       ELSE /\ running' = {s}
            /\ ran' = [ran EXCEPT ![s] = IF @ < MaxRuns THEN @ + 1 ELSE @]
            /\ UNCHANGED <<ref, dropped>>
    /\ UNCHANGED <<pc, idx, mainTasks, threadTasks, threadSched, clock, wakeup, adding,
                   stopping, accepted, cancelled>>

\* Mutant: every executed task leaves scheduledTasksRef.
EndScheduledForgets(s) ==
    /\ s \in running \cap Scheduled
    /\ 1 \notin adding
    /\ running' = {}
    /\ ref' = ref \ {s}
    /\ threadSched' = [threadSched EXCEPT ![1] = IF s \in Cycle THEN Append(@, s) ELSE @]
    /\ left' = [left EXCEPT ![s] = Delay[s]]
    /\ UNCHANGED <<pc, idx, mainTasks, threadTasks, scheduled, lag, wakeup, adding,
                   stopping, history>>

\* The end of a scheduled task: a cycle task goes back to the dispatcher's own
\* queue with a new time, any other leaves scheduledTasksRef.
EndScheduled(s) ==
    /\ s \in running \cap Scheduled
    /\ 1 \notin adding
    /\ running' = {}
    /\ IF s \in Cycle
       THEN /\ threadSched' = [threadSched EXCEPT ![1] = Append(@, s)]
            /\ left' = [left EXCEPT ![s] = Delay[s]]
            /\ UNCHANGED ref
       ELSE /\ ref' = ref \ {s}
            /\ UNCHANGED <<threadSched, left>>
    /\ UNCHANGED <<pc, idx, mainTasks, threadTasks, scheduled, lag, wakeup, adding,
                   stopping, history>>

EndScheduledEvents ==
    /\ At("scheduled") /\ running = {}
    /\ ~ \E s \in scheduled : IsNext(s)
    /\ Advance
    /\ UNCHANGED <<queues, clock, wakeup, adding, running, stopping, history>>

\* if (!hasPendingTasks) at the end of a turn ...
TestPending ==
    /\ At("test")
    /\ IF hasPending THEN pc' = 1 /\ UNCHANGED idx ELSE Advance
    /\ UNCHANGED <<queues, clock, wakeup, adding, running, stopping, history>>

\* Mutant: the wait has no timeout.
TimeUntilSignalled == {Forever}

\* timeUntilNextScheduledTask, in ticks. With no scheduled task it is
\* milliseconds::max(), whose conversion to the clock's unit overflows: the
\* wait ends at once or (in effect) never.
TimeUntilNextScheduledTask ==
    IF scheduled = {}
    THEN {0, Forever}
    ELSE LET s == CHOOSE s \in scheduled : \A u \in scheduled : left[s] <= left[u]
         IN  {IF left[s] > 0 THEN left[s] ELSE 0}

\* ... and wait_for: nobody holds dummyMutex while setting the flag, so the
\* flag may have been raised since it was tested.
BeginWait ==
    /\ At("wait") /\ waiting = "no"
    /\ waiting' = "asleep"
    /\ sleep' \in TimeUntilNextScheduledTask
    /\ UNCHANGED <<pc, idx, queues, clock, hasPending, adding, running, stopping, history>>

\* wait_for returns: signalled or timed out.
EndWait ==
    /\ At("wait")
    /\ waiting = "signalled" \/ (waiting = "asleep" /\ sleep = 0)
    /\ waiting' = "no" /\ sleep' = 0
    /\ Advance
    /\ UNCHANGED <<queues, clock, hasPending, adding, running, stopping, history>>

-----------------------------------------------------------------------------
(* Time and shutdown. *)

Sleeping == waiting = "asleep" /\ sleep > 0

\* A tick of the clock; a turn is counted as MaxLag ticks at most.
Tick ==
    /\ lag < MaxLag \/ Sleeping
    /\ lag' = IF lag < MaxLag THEN lag + 1 ELSE lag
    /\ sleep' = IF Sleeping THEN sleep - 1 ELSE sleep
    /\ UNCHANGED <<pc, idx, queues, left, hasPending, waiting, adding, running, stopping, history>>

\* Dispatcher::shutdown: the signal first, then the flag.
Shutdown ==
    /\ ~shuttingDown
    /\ waiting' = Signalled
    /\ shuttingDown' = TRUE
    /\ UNCHANGED <<pc, idx, queues, clock, hasPending, sleep, adding, running, stopped, history>>

\* ThreadPool::shutdown, which follows it in CanaryServer::shutdown.
StopPool ==
    /\ shuttingDown /\ ~stopped
    /\ stopped' = TRUE
    /\ UNCHANGED <<pc, idx, queues, clock, wakeup, adding, running, shuttingDown, history>>

-----------------------------------------------------------------------------
DispatcherStep ==
    \/ UpdateTime \/ MergeEvents \/ MergeAsyncEvents \/ CheckPendingTasks
    \/ \E g \in Group : StartSerial(g) \/ EndGroup(g)
    \/ \E g \in Group : \E i \in DOMAIN mainTasks[g] : StartParallel(g, i)
    \/ \E e \in Event : EndEvent(e)
    \/ \E s \in Scheduled : StartScheduled(s) \/ EndScheduled(s)
    \/ EndScheduledEvents \/ TestPending \/ BeginWait \/ EndWait

Next ==
    \/ DispatcherStep
    \/ \E t \in Thread : Notify(t) \/ \E x \in Task : Dispatch(t, x)
    \/ \E s \in Scheduled : StopEvent(s)
    \/ Tick \/ Shutdown \/ StopPool

Spec == Init /\ [][Next]_vars

\* The dispatcher's thread and a thread inside notify() keep running (the
\* tasks it executes return), and time passes.
Fairness ==
    /\ WF_vars(DispatcherStep)
    /\ \A t \in Thread : WF_vars(Notify(t))
    /\ WF_vars(Tick)

FairSpec == Spec /\ Fairness

-----------------------------------------------------------------------------
(***************************************************************************)
(* Properties.                                                             *)
(***************************************************************************)

Positions(q, x) == {i \in DOMAIN q : q[i] = x}

\* Where a task is queued, in whatever queue.
Places(x) ==
    (UNION {{<<g, i>> : i \in Positions(mainTasks[g], x)} : g \in Group})
    \cup (UNION {UNION {{<<t, g, i>> : i \in Positions(threadTasks[t][g], x)} : g \in Group}
                 : t \in Thread})
    \cup (UNION {{<<t, "scheduled", i>> : i \in Positions(threadSched[t], x)} : t \in Thread})
    \cup {<<"scheduled">> : u \in scheduled \cap {x}}

\* How often a task is queued.
Queued(x) == Cardinality(Places(x))

One(condition) == IF condition THEN 1 ELSE 0

TypeOK ==
    /\ pc \in 0 .. Len(Program) /\ idx \in Thread
    /\ mainTasks \in [Group -> Seq(Event)]
    /\ threadTasks \in [Thread -> [Group -> Seq(Event)]]
    /\ threadSched \in [Thread -> Seq(Scheduled)]
    /\ scheduled \subseteq Scheduled /\ ref \subseteq Scheduled /\ cancelled \subseteq Scheduled
    /\ left \in [Task -> Int] /\ lag \in 0 .. MaxLag
    /\ hasPending \in BOOLEAN /\ adding \subseteq Thread /\ running \subseteq Task
    /\ waiting \in {"no", "asleep", "signalled"} /\ sleep \in Nat \cup {Forever}
    /\ shuttingDown \in BOOLEAN /\ stopped \in BOOLEAN
    /\ accepted \subseteq Task /\ dropped \subseteq accepted
    /\ ran \in [Task -> Nat]

\* No task is lost or doubled on its way through the thread queues, the main
\* queues and the timed set: a dispatched task is queued exactly once until it
\* runs (exactly once) or is discarded, and a cycle task is always either
\* queued or running.
NoTaskLost ==
    /\ \A e \in Event \cap accepted : Queued(e) + ran[e] + One(e \in dropped) = 1
    /\ \A s \in Scheduled \cap accepted :
         Queued(s) + One(s \in running) + One(s \in dropped)
           + One(s \notin Cycle /\ ran[s] > 0 /\ s \notin running) = 1

\* A scheduled task that may still run and was not stopped can be stopped:
\* stopEvent finds it in scheduledTasksRef, through every requeueing of a
\* cycle task, and finds nothing else.
StopFindsLiveTasks ==
    ref = {s \in Scheduled \cap accepted :
             /\ s \notin cancelled
             /\ s \in Cycle \/ ran[s] = 0 \/ s \in running}

\* A task that stopEvent has stopped is never started again, even when it was
\* already due in the batch that executeScheduledEvents is working on.
StoppedNeverStarts ==
    [][\A s \in cancelled : s \in running' => s \in running]_vars

\* Every dispatched task runs, or is discarded, unless the pool is stopped.
EventuallyRuns ==
    \A x \in Task : x \in accepted ~> (ran[x] > 0 \/ x \in dropped \/ stopped)

\* A cycle task keeps running until it or the pool is stopped.
CycleKeepsRunning ==
    \A s \in Cycle : [](s \in accepted => <>(s \in running \/ s \in cancelled \/ stopped))

\* Once the pool is stopped the dispatcher leaves its loop, so that the pool
\* can join its thread.
StopEndsLoop == stopped ~> pc = 0
=============================================================================

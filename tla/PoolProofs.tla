----------------------------- MODULE PoolProofs -----------------------------
(***************************************************************************)
(* Proofs about the threads of the pool, for any number of them. Of        *)
(* Dispatcher: its types, that no task is lost or doubled on its way       *)
(* through the queues, and that stopEvent finds what it should. Of         *)
(* Webhook: what its queue holds, and that no message is skipped. And that *)
(* the two keep their types side by side, as MCPool composes them.         *)
(***************************************************************************)
EXTENDS MCPool, FiniteSums

-----------------------------------------------------------------------------
(* The operations on a queue. *)

NoRepeats(q) == \A i, j \in DOMAIN q : q[i] = q[j] => i = j

Elements(q) == {q[i] : i \in DOMAIN q}

\* emplace_back of a task that is not in the queue.
LEMMA AppendAdds ==
    ASSUME NEW A, NEW q \in Seq(A), NEW x \in A, NoRepeats(q), x \notin Elements(q)
    PROVE  /\ Append(q, x) \in Seq(A)
           /\ NoRepeats(Append(q, x))
           /\ Elements(Append(q, x)) = Elements(q) \cup {x}
<1> DEFINE a == Append(q, x)
<1>1. Len(q) \in Nat /\ DOMAIN q = 1 .. Len(q)
    OBVIOUS
<1>2. a \in Seq(A) /\ Len(a) = Len(q) + 1 /\ DOMAIN a = 1 .. Len(q) + 1
    BY <1>1
<1>3. a[Len(q) + 1] = x /\ \A i \in 1 .. Len(q) : a[i] = q[i]
    BY <1>1
<1> HIDE DEF a
<1>4. NoRepeats(a)
    BY <1>1, <1>2, <1>3 DEF NoRepeats, Elements
<1>5. Elements(a) = Elements(q) \cup {x}
    <2>1. ASSUME NEW y \in Elements(a) PROVE y \in Elements(q) \cup {x}
        BY <2>1, <1>1, <1>2, <1>3 DEF Elements
    <2>2. ASSUME NEW y \in Elements(q) \cup {x} PROVE y \in Elements(a)
        <3>1. CASE y = x
            BY <3>1, <1>1, <1>2, <1>3 DEF Elements
        <3>2. CASE y \in Elements(q)
            <4>1. PICK i \in 1 .. Len(q) : y = q[i]
                BY <3>2, <1>1 DEF Elements
            <4>2. i \in DOMAIN a /\ a[i] = y
                BY <4>1, <1>1, <1>2, <1>3
            <4> QED
                BY <4>2 DEF Elements
        <3> QED
            BY <2>2, <3>1, <3>2
    <2> QED
        BY <2>1, <2>2
<1> QED
    BY <1>2, <1>4, <1>5 DEF a

\* insert at the end of a queue of what another, disjoint one holds.
LEMMA ConcatAdds ==
    ASSUME NEW A, NEW q \in Seq(A), NEW r \in Seq(A),
           NoRepeats(q), NoRepeats(r), Elements(q) \cap Elements(r) = {}
    PROVE  /\ q \o r \in Seq(A)
           /\ NoRepeats(q \o r)
           /\ Elements(q \o r) = Elements(q) \cup Elements(r)
<1> DEFINE c == q \o r
<1>1. /\ Len(q) \in Nat /\ DOMAIN q = 1 .. Len(q)
      /\ Len(r) \in Nat /\ DOMAIN r = 1 .. Len(r)
    OBVIOUS
<1>2. c \in Seq(A) /\ Len(c) = Len(q) + Len(r) /\ DOMAIN c = 1 .. Len(q) + Len(r)
    BY <1>1
<1>3. /\ \A i \in 1 .. Len(q) : c[i] = q[i]
      /\ \A i \in Len(q) + 1 .. Len(q) + Len(r) : c[i] = r[i - Len(q)]
    BY <1>1
<1> HIDE DEF c
<1>4. \A i \in Len(q) + 1 .. Len(q) + Len(r) : i - Len(q) \in DOMAIN r
    BY <1>1
<1>5. NoRepeats(c)
    <2> SUFFICES ASSUME NEW i \in DOMAIN c, NEW j \in DOMAIN c, c[i] = c[j], i < j
                 PROVE  FALSE
        BY <1>1, <1>2 DEF NoRepeats
    <2>1. CASE j <= Len(q)
        BY <2>1, <1>1, <1>2, <1>3 DEF NoRepeats
    <2>2. CASE i <= Len(q) /\ j > Len(q)
        <3>1. c[i] \in Elements(q)
            BY <2>2, <1>1, <1>2, <1>3 DEF Elements
        <3>2. j - Len(q) \in DOMAIN r /\ c[j] = r[j - Len(q)]
            BY <2>2, <1>1, <1>2, <1>3, <1>4
        <3>3. c[j] \in Elements(r)
            BY <3>2 DEF Elements
        <3> QED
            BY <3>1, <3>3
    <2>3. CASE i > Len(q) /\ j > Len(q)
        <3>1. i - Len(q) # j - Len(q) /\ r[i - Len(q)] = r[j - Len(q)]
            BY <2>3, <1>1, <1>2, <1>3
        <3> QED
            BY <3>1, <2>3, <1>1, <1>2, <1>4 DEF NoRepeats
    <2> QED
        BY <2>1, <2>2, <2>3, <1>1, <1>2
<1>6. Elements(c) = Elements(q) \cup Elements(r)
    <2>1. ASSUME NEW y \in Elements(c) PROVE y \in Elements(q) \cup Elements(r)
        <3>1. PICK i \in DOMAIN c : y = c[i]
            BY <2>1 DEF Elements
        <3>2. CASE i <= Len(q)
            BY <3>1, <3>2, <1>1, <1>2, <1>3 DEF Elements
        <3>3. CASE i > Len(q)
            <4>1. i - Len(q) \in DOMAIN r /\ y = r[i - Len(q)]
                BY <3>1, <3>3, <1>1, <1>2, <1>3, <1>4
            <4> QED
                BY <4>1 DEF Elements
        <3> QED
            BY <3>2, <3>3, <1>1, <1>2
    <2>2. ASSUME NEW y \in Elements(q) PROVE y \in Elements(c)
        <3>1. PICK i \in DOMAIN q : y = q[i]
            BY <2>2 DEF Elements
        <3>2. i \in DOMAIN c /\ c[i] = y
            BY <3>1, <1>1, <1>2, <1>3
        <3> QED
            BY <3>2 DEF Elements
    <2>3. ASSUME NEW y \in Elements(r) PROVE y \in Elements(c)
        <3>1. PICK i \in DOMAIN r : y = r[i]
            BY <2>3 DEF Elements
        <3>2. i \in 1 .. Len(r) /\ i + Len(q) \in Len(q) + 1 .. Len(q) + Len(r)
            BY <3>1, <1>1
        <3>3. i + Len(q) \in DOMAIN c
            BY <3>2, <1>1, <1>2
        <3>4. c[i + Len(q)] = r[(i + Len(q)) - Len(q)] /\ (i + Len(q)) - Len(q) = i
            BY <3>2, <1>1, <1>3
        <3> QED
            BY <3>1, <3>3, <3>4 DEF Elements
    <2> QED
        BY <2>1, <2>2, <2>3
<1> QED
    BY <1>2, <1>5, <1>6 DEF c

\* Taking the task at position p out of a queue.
LEMMA RemoveAt ==
    ASSUME NEW A, NEW q \in Seq(A), NEW p \in DOMAIN q, NoRepeats(q)
    PROVE  LET w == [j \in 1 .. Len(q) - 1 |-> IF j < p THEN q[j] ELSE q[j + 1]]
           IN  /\ w \in Seq(A)
               /\ NoRepeats(w)
               /\ Elements(w) = Elements(q) \ {q[p]}
<1> DEFINE w == [j \in 1 .. Len(q) - 1 |-> IF j < p THEN q[j] ELSE q[j + 1]]
<1>1. Len(q) \in Nat /\ DOMAIN q = 1 .. Len(q) /\ \A i \in 1 .. Len(q) : q[i] \in A
    OBVIOUS
<1>2. w \in Seq(A) /\ Len(w) = Len(q) - 1 /\ DOMAIN w = 1 .. Len(q) - 1
    BY <1>1
<1>3. NoRepeats(w)
    BY <1>1, <1>2 DEF NoRepeats
<1>4. ASSUME NEW x \in Elements(w) PROVE x \in Elements(q) \ {q[p]}
    <2>1. PICK i \in 1 .. Len(q) - 1 : x = w[i]
        BY <1>2, <1>4 DEF Elements
    <2>2. PICK j \in 1 .. Len(q) : j # p /\ x = q[j]
        BY <2>1, <1>1
    <2>3. q[j] # q[p]
        BY <2>2, <1>1 DEF NoRepeats
    <2> QED
        BY <2>2, <2>3, <1>1 DEF Elements
<1>5. ASSUME NEW x \in Elements(q) \ {q[p]} PROVE x \in Elements(w)
    <2>1. PICK j \in 1 .. Len(q) : x = q[j]
        BY <1>1, <1>5 DEF Elements
    <2>2. j # p
        BY <2>1, <1>5
    <2>3. \E i \in 1 .. Len(q) - 1 : w[i] = q[j]
        <3>1. CASE j < p
            BY <3>1, <1>1
        <3>2. CASE j > p
            <4>1. j - 1 \in 1 .. Len(q) - 1 /\ ~(j - 1 < p) /\ (j - 1) + 1 = j
                BY <3>2, <1>1
            <4> QED
                BY <4>1
        <3> QED
            BY <3>1, <3>2, <2>2, <1>1
    <2> QED
        BY <2>1, <2>3, <1>2 DEF Elements
<1> QED
    BY <1>2, <1>3, <1>4, <1>5

\* Taking the first task out of a queue.
LEMMA TailRemoves ==
    ASSUME NEW A, NEW q \in Seq(A), q # <<>>, NoRepeats(q)
    PROVE  /\ Head(q) \in A /\ Head(q) \in Elements(q)
           /\ Tail(q) \in Seq(A)
           /\ NoRepeats(Tail(q))
           /\ Elements(Tail(q)) = Elements(q) \ {Head(q)}
<1> DEFINE w == Tail(q)
<1>1. Len(q) \in Nat \ {0} /\ DOMAIN q = 1 .. Len(q) /\ Head(q) = q[1]
    OBVIOUS
<1>2. w \in Seq(A) /\ DOMAIN w = 1 .. Len(q) - 1
    BY <1>1
<1>3. \A i \in DOMAIN w : i + 1 \in DOMAIN q /\ w[i] = q[i + 1]
    BY <1>1
<1>4. Head(q) \in A /\ Head(q) \in Elements(q)
    BY <1>1 DEF Elements
<1> HIDE DEF w
<1>5. NoRepeats(w)
    BY <1>1, <1>2, <1>3 DEF NoRepeats
<1>6. ASSUME NEW x \in Elements(w) PROVE x \in Elements(q) \ {Head(q)}
    <2>1. PICK i \in DOMAIN w : x = w[i]
        BY <1>6 DEF Elements
    <2>2. i + 1 \in DOMAIN q /\ x = q[i + 1] /\ i + 1 # 1
        BY <2>1, <1>1, <1>2, <1>3
    <2> QED
        BY <2>2, <1>1 DEF Elements, NoRepeats
<1>7. ASSUME NEW x \in Elements(q) \ {Head(q)} PROVE x \in Elements(w)
    <2>1. PICK j \in DOMAIN q : x = q[j] /\ j # 1
        BY <1>7, <1>1 DEF Elements
    <2>2. j - 1 \in DOMAIN w /\ (j - 1) + 1 = j
        BY <2>1, <1>1, <1>2
    <2>3. w[j - 1] = x
        BY <2>1, <2>2, <1>3
    <2> QED
        BY <2>2, <2>3 DEF Elements
<1> QED
    BY <1>2, <1>4, <1>5, <1>6, <1>7 DEF w

-----------------------------------------------------------------------------
(* The earliest of finitely many tasks. *)

\* multiset::begin of scheduledTasks: there is a task with the smallest time.
LEMMA EarliestExists ==
    ASSUME NEW S, IsFiniteSet(S), S # {}, NEW f, \A x \in S : f[x] \in Int
    PROVE  \E s \in S : \A u \in S : f[s] <= f[u]
<1> DEFINE Good == {T \in SUBSET S : T = {} \/ \E s \in T : \A u \in T : f[s] <= f[u]}
<1>1. {} \in Good
    OBVIOUS
<1>2. ASSUME NEW T \in Good, NEW x \in S \ T PROVE T \cup {x} \in Good
    <2>1. CASE T = {}
        BY <2>1, <1>2
    <2>2. CASE T # {}
        <3>1. PICK s \in T : \A u \in T : f[s] <= f[u]
            BY <2>2, <1>2
        <3>2. CASE f[s] <= f[x]
            BY <3>1, <3>2, <1>2
        <3>3. CASE ~(f[s] <= f[x])
            <4>1. \A u \in T : f[x] <= f[u]
                BY <3>1, <3>3, <1>2
            <4>2. f[x] <= f[x]
                BY <1>2
            <4> QED
                BY <4>1, <4>2, <1>2
        <3> QED
            BY <3>2, <3>3
    <2> QED
        BY <2>1, <2>2
<1> HIDE DEF Good
<1>3. S \in Good
    BY <1>1, <1>2, SubsetInduction DEF Good
<1> QED
    BY <1>3 DEF Good

-----------------------------------------------------------------------------
(* The inductive invariant. *)

\* Tasks run in their phases only, and one scheduled task at a time.
PhaseSound ==
    running # {} =>
        /\ pc # 0
        /\ \/ Program[pc] \in Serial \cup Parallel /\ running \subseteq Event
           \/ Program[pc] = "scheduled" /\ \E s \in Scheduled : running = {s}

\* Every queue lists a task at most once, and no task is in two of them. The
\* events of different groups are never in the same queue.
QueuesSound ==
    /\ \A g \in Group :
         /\ NoRepeats(mainTasks[g])
         /\ \A e \in Elements(mainTasks[g]) : GroupOf[e] = g
    /\ \A t \in Thread, g \in Group :
         /\ NoRepeats(threadTasks[t][g])
         /\ \A e \in Elements(threadTasks[t][g]) : GroupOf[e] = g
         /\ Elements(threadTasks[t][g]) \cap Elements(mainTasks[g]) = {}
    /\ \A t, u \in Thread, g \in Group :
         t # u => Elements(threadTasks[t][g]) \cap Elements(threadTasks[u][g]) = {}
    /\ \A t \in Thread :
         NoRepeats(threadSched[t]) /\ Elements(threadSched[t]) \cap scheduled = {}
    /\ \A t, u \in Thread :
         t # u => Elements(threadSched[t]) \cap Elements(threadSched[u]) = {}

\* The tasks in some queue.
QueuedEvents ==
    {e \in Event : \/ \E g \in Group : e \in Elements(mainTasks[g])
                  \/ \E t \in Thread, g \in Group : e \in Elements(threadTasks[t][g])}
QueuedScheduled ==
    {s \in Scheduled : s \in scheduled \/ \E t \in Thread : s \in Elements(threadSched[t])}

\* An event is not dispatched yet, or queued, or executed, or discarded.
EventsSound ==
    \A e \in Event :
        /\ e \in QueuedEvents => e \in accepted /\ ran[e] = 0 /\ e \notin dropped
        /\ e \notin accepted => ran[e] = 0
        /\ e \in accepted /\ e \notin QueuedEvents =>
               \/ ran[e] = 1 /\ e \notin dropped
               \/ ran[e] = 0 /\ e \in dropped

\* A scheduled task is not dispatched yet, or queued, or running, or discarded,
\* or done.
ScheduledSound ==
    \A s \in Scheduled :
        /\ s \in QueuedScheduled =>
               /\ s \in accepted /\ s \notin running /\ s \notin dropped
               /\ s \in Cycle \/ ran[s] = 0
        /\ s \in running => s \in accepted /\ s \notin dropped /\ ran[s] > 0
        /\ s \notin accepted => ran[s] = 0
        /\ s \in accepted /\ s \notin QueuedScheduled /\ s \notin running =>
               \/ s \in dropped /\ (s \in Cycle \/ ran[s] = 0)
               \/ s \notin dropped /\ s \notin Cycle /\ ran[s] > 0

RefSound == cancelled \subseteq accepted /\ StopFindsLiveTasks

DispatcherInv ==
    TypeOK /\ PhaseSound /\ QueuesSound /\ EventsSound /\ ScheduledSound /\ RefSound

LEMMA InitSound == Init => DispatcherInv
<1> SUFFICES ASSUME Init PROVE DispatcherInv
    OBVIOUS
<1> USE DispatcherAssumption DEF Init
<1>1. \A g \in Group : mainTasks[g] = <<>>
    OBVIOUS
<1>2. \A t \in Thread, g \in Group : threadTasks[t][g] = <<>>
    OBVIOUS
<1>3. \A t \in Thread : threadSched[t] = <<>>
    OBVIOUS
<1>4. TypeOK
    <2>1. /\ mainTasks \in [Group -> Seq(Event)]
          /\ threadTasks \in [Thread -> [Group -> Seq(Event)]]
          /\ threadSched \in [Thread -> Seq(Scheduled)]
        OBVIOUS
    <2>2. left \in [Task -> Int]
        BY DEF Task
    <2>3. pc \in 0 .. Len(Program) /\ idx \in Thread
        BY DEF Program, Thread
    <2>4. ran \in [Task -> Nat] /\ lag \in 0 .. MaxLag /\ sleep \in Nat \cup {Forever}
        OBVIOUS
    <2>5. /\ scheduled \subseteq Scheduled /\ ref \subseteq Scheduled
          /\ accepted \subseteq Task
        BY DEF Task
    <2> QED
        BY <2>1, <2>2, <2>3, <2>4, <2>5 DEF TypeOK
<1>5. PhaseSound
    BY DEF PhaseSound
<1>6. Elements(<<>>) = {} /\ NoRepeats(<<>>)
    BY DEF Elements, NoRepeats
<1>7. QueuesSound
    BY <1>1, <1>2, <1>3, <1>6 DEF QueuesSound
<1>8. QueuedEvents = {} /\ QueuedScheduled = AtStart
    BY <1>1, <1>2, <1>3, <1>6 DEF QueuedEvents, QueuedScheduled
<1>9. EventsSound
    BY <1>8 DEF EventsSound, Task
<1>10. ScheduledSound
    BY <1>8 DEF ScheduledSound, Task
<1>11. RefSound
    BY DEF RefSound, StopFindsLiveTasks, Task
<1> QED
    BY <1>4, <1>5, <1>7, <1>9, <1>10, <1>11 DEF DispatcherInv

LEMMA ProgramLength == Len(Program) = 18
BY DEF Program

\* The next phase of the loop.
LEMMA AdvanceType ==
    ASSUME pc \in 0 .. Len(Program), Advance
    PROVE  pc' \in 0 .. Len(Program) /\ idx' \in Thread
<1>1. pc' \in 1 .. 18
    BY ProgramLength DEF Advance
<1> QED
    BY <1>1, ProgramLength, DispatcherAssumption DEF Advance, Thread

-----------------------------------------------------------------------------
(* Steps that leave the queues alone. *)

LEMMA SameQueues ==
    ASSUME QueuesSound, UNCHANGED <<mainTasks, threadTasks, threadSched, scheduled>>
    PROVE  QueuesSound' /\ QueuedEvents' = QueuedEvents /\ QueuedScheduled' = QueuedScheduled
<1>1. QueuesSound'
    BY DEF QueuesSound
<1> QED
    BY <1>1 DEF QueuedEvents, QueuedScheduled

\* A step that neither queues, starts nor ends a scheduled task, and leaves the
\* events' fates alone.
LEMMA QuietStep ==
    ASSUME DispatcherInv, UNCHANGED <<queues, history>>,
           running' \cap Scheduled = running \cap Scheduled
    PROVE  QueuesSound' /\ EventsSound' /\ ScheduledSound' /\ RefSound'
<1>1. QueuesSound' /\ QueuedEvents' = QueuedEvents /\ QueuedScheduled' = QueuedScheduled
    BY SameQueues DEF DispatcherInv, queues
<1>2. EventsSound'
    BY <1>1 DEF DispatcherInv, EventsSound, history
<1>3. ScheduledSound'
    BY <1>1 DEF DispatcherInv, ScheduledSound, history
<1>4. RefSound'
    BY DEF DispatcherInv, RefSound, StopFindsLiveTasks, history, queues
<1> QED
    BY <1>1, <1>2, <1>3, <1>4

\* Outside of the phases that run tasks none is running.
LEMMA NothingRuns ==
    ASSUME PhaseSound, NEW phase, At(phase),
           phase \notin Serial \cup Parallel \cup {"scheduled"}
    PROVE  running = {}
BY DEF PhaseSound, At

LEMMA UpdateTimeSound ==
    ASSUME DispatcherInv, UpdateTime PROVE DispatcherInv'
<1> USE DEF UpdateTime
<1>1. running = {} /\ running' = {}
    BY NothingRuns DEF DispatcherInv, Serial, Parallel
<1>2. QueuesSound' /\ EventsSound' /\ ScheduledSound' /\ RefSound'
    BY QuietStep, <1>1 DEF DispatcherInv
<1>3. pc' \in 0 .. Len(Program) /\ idx' \in Thread
    BY AdvanceType, ProgramLength DEF DispatcherInv, TypeOK
<1>4. left' \in [Task -> Int] /\ lag' \in 0 .. MaxLag
    <2>1. CASE stopped
        BY <2>1 DEF DispatcherInv, TypeOK, clock
    <2>2. CASE ~stopped
        BY <2>2, DispatcherAssumption DEF DispatcherInv, TypeOK
    <2> QED
        BY <2>1, <2>2
<1>5. TypeOK'
    BY <1>3, <1>4 DEF DispatcherInv, TypeOK, queues, wakeup, stopping, history
<1> QED
    BY <1>1, <1>2, <1>5 DEF DispatcherInv, PhaseSound

LEMMA CheckPendingTasksSound ==
    ASSUME DispatcherInv, CheckPendingTasks PROVE DispatcherInv'
<1> USE DEF CheckPendingTasks
<1>1. running = {} /\ running' = {}
    BY NothingRuns DEF DispatcherInv, Serial, Parallel
<1>2. QueuesSound' /\ EventsSound' /\ ScheduledSound' /\ RefSound'
    BY QuietStep, <1>1 DEF DispatcherInv
<1>3. pc' \in 0 .. Len(Program) /\ idx' \in Thread
    BY AdvanceType DEF DispatcherInv, TypeOK
<1>4. TypeOK'
    BY <1>3 DEF DispatcherInv, TypeOK, queues, clock, stopping, history
<1> QED
    BY <1>1, <1>2, <1>4 DEF DispatcherInv, PhaseSound

LEMMA EndEventSound ==
    ASSUME DispatcherInv, NEW e \in Event, EndEvent(e) PROVE DispatcherInv'
<1> USE DEF EndEvent
<1>1. running' \cap Scheduled = running \cap Scheduled
    BY DispatcherAssumption
<1>2. QueuesSound' /\ EventsSound' /\ ScheduledSound' /\ RefSound'
    BY QuietStep, <1>1 DEF DispatcherInv
<1>3. TypeOK'
    BY DEF DispatcherInv, TypeOK, queues, clock, wakeup, stopping, history
<1>4. PhaseSound'
    BY DispatcherAssumption DEF DispatcherInv, PhaseSound
<1> QED
    BY <1>2, <1>3, <1>4 DEF DispatcherInv

LEMMA EndGroupSound ==
    ASSUME DispatcherInv, NEW g \in Group, EndGroup(g) PROVE DispatcherInv'
<1> USE DEF EndGroup
<1>1. running = {} /\ running' = {}
    OBVIOUS
<1>2. QueuesSound' /\ EventsSound' /\ ScheduledSound' /\ RefSound'
    BY QuietStep, <1>1 DEF DispatcherInv
<1>3. pc' \in 0 .. Len(Program) /\ idx' \in Thread
    BY AdvanceType DEF DispatcherInv, TypeOK
<1>4. TypeOK'
    BY <1>3 DEF DispatcherInv, TypeOK, queues, clock, wakeup, stopping, history
<1> QED
    BY <1>1, <1>2, <1>4 DEF DispatcherInv, PhaseSound

LEMMA EndScheduledEventsSound ==
    ASSUME DispatcherInv, EndScheduledEvents PROVE DispatcherInv'
<1> USE DEF EndScheduledEvents
<1>1. running = {} /\ running' = {}
    OBVIOUS
<1>2. QueuesSound' /\ EventsSound' /\ ScheduledSound' /\ RefSound'
    BY QuietStep, <1>1 DEF DispatcherInv
<1>3. pc' \in 0 .. Len(Program) /\ idx' \in Thread
    BY AdvanceType DEF DispatcherInv, TypeOK
<1>4. TypeOK'
    BY <1>3 DEF DispatcherInv, TypeOK, queues, clock, wakeup, stopping, history
<1> QED
    BY <1>1, <1>2, <1>4 DEF DispatcherInv, PhaseSound

LEMMA TestPendingSound ==
    ASSUME DispatcherInv, TestPending PROVE DispatcherInv'
<1> USE DEF TestPending
<1>1. running = {} /\ running' = {}
    BY NothingRuns DEF DispatcherInv, Serial, Parallel
<1>2. QueuesSound' /\ EventsSound' /\ ScheduledSound' /\ RefSound'
    BY QuietStep, <1>1 DEF DispatcherInv
<1>3. pc' \in 0 .. Len(Program) /\ idx' \in Thread
    BY AdvanceType, ProgramLength DEF DispatcherInv, TypeOK
<1>4. TypeOK'
    BY <1>3 DEF DispatcherInv, TypeOK, queues, clock, wakeup, stopping, history
<1> QED
    BY <1>1, <1>2, <1>4 DEF DispatcherInv, PhaseSound

\* The timeout of a wait is a time, because the timed tasks have an earliest.
LEMMA BeginWaitSound ==
    ASSUME DispatcherInv, BeginWait PROVE DispatcherInv'
<1> USE DEF BeginWait
<1>1. running = {} /\ running' = {}
    BY NothingRuns DEF DispatcherInv, Serial, Parallel
<1>2. QueuesSound' /\ EventsSound' /\ ScheduledSound' /\ RefSound'
    BY QuietStep, <1>1 DEF DispatcherInv
<1>3. sleep' \in Nat \cup {Forever}
    <2>1. CASE scheduled = {}
        BY <2>1 DEF TimeUntilNextScheduledTask
    <2>2. CASE scheduled # {}
        <3> DEFINE s == CHOOSE s \in scheduled : \A u \in scheduled : left[s] <= left[u]
        <3>1. IsFiniteSet(scheduled) /\ \A x \in scheduled : left[x] \in Int
            BY DispatcherAssumption, FS_Subset DEF DispatcherInv, TypeOK, Task
        <3>2. s \in scheduled
            BY <2>2, <3>1, EarliestExists
        <3>3. sleep' = IF left[s] > 0 THEN left[s] ELSE 0
            BY <2>2 DEF TimeUntilNextScheduledTask
        <3> HIDE DEF s
        <3> QED
            BY <3>1, <3>2, <3>3
    <2> QED
        BY <2>1, <2>2
<1>4. TypeOK'
    BY <1>3 DEF DispatcherInv, TypeOK, queues, clock, stopping, history
<1> QED
    BY <1>1, <1>2, <1>4 DEF DispatcherInv, PhaseSound

LEMMA EndWaitSound ==
    ASSUME DispatcherInv, EndWait PROVE DispatcherInv'
<1> USE DEF EndWait
<1>1. running = {} /\ running' = {}
    BY NothingRuns DEF DispatcherInv, Serial, Parallel
<1>2. QueuesSound' /\ EventsSound' /\ ScheduledSound' /\ RefSound'
    BY QuietStep, <1>1 DEF DispatcherInv
<1>3. pc' \in 0 .. Len(Program) /\ idx' \in Thread
    BY AdvanceType DEF DispatcherInv, TypeOK
<1>4. TypeOK'
    BY <1>3 DEF DispatcherInv, TypeOK, queues, clock, stopping, history
<1> QED
    BY <1>1, <1>2, <1>4 DEF DispatcherInv, PhaseSound

\* Notify, Tick, Shutdown and StopPool.
LEMMA OtherThreadsSound ==
    ASSUME DispatcherInv,
           (\E t \in Thread : Notify(t)) \/ Tick \/ Shutdown \/ StopPool
    PROVE  DispatcherInv'
<1>1. UNCHANGED <<pc, idx, queues, history, running, left>>
    BY DEF Notify, Tick, Shutdown, StopPool, clock, history
<1>2. QueuesSound' /\ EventsSound' /\ ScheduledSound' /\ RefSound'
    BY QuietStep, <1>1 DEF DispatcherInv
<1>3. TypeOK'
    <2> USE DEF DispatcherInv, TypeOK, queues, clock, wakeup, stopping, history, Signalled
    <2>1. CASE \E t \in Thread : Notify(t)
        BY <1>1, <2>1 DEF Notify
    <2>2. CASE Tick
        <3>1. sleep' \in Nat \cup {Forever}
            BY <2>2 DEF Tick, Sleeping, Forever
        <3>2. lag' \in 0 .. MaxLag
            BY <2>2, DispatcherAssumption DEF Tick
        <3> QED
            BY <1>1, <2>2, <3>1, <3>2 DEF Tick
    <2>3. CASE Shutdown
        BY <1>1, <2>3 DEF Shutdown
    <2>4. CASE StopPool
        BY <1>1, <2>4 DEF StopPool
    <2> QED
        BY <2>1, <2>2, <2>3, <2>4
<1> QED
    BY <1>1, <1>2, <1>3 DEF DispatcherInv, PhaseSound

-----------------------------------------------------------------------------
(* Dispatching and stopping. *)

LEMMA PushEventSound ==
    ASSUME DispatcherInv, NEW t \in Thread, NEW e \in Event, Dispatch(t, e), PushEvent(t, e)
    PROVE  DispatcherInv'
<1> USE DEF DispatcherInv
<1> DEFINE g == GroupOf[e]
           q == threadTasks[t][g]
<1>1. g \in Group /\ e \in Task /\ e \notin Scheduled
    BY DispatcherAssumption DEF Task
<1>2. e \notin QueuedEvents /\ ran[e] = 0 /\ e \notin dropped
    BY <1>1 DEF Dispatch, EventsSound, TypeOK
<1>3. /\ q \in Seq(Event) /\ NoRepeats(q) /\ e \notin Elements(q)
      /\ \A h \in Group : e \notin Elements(mainTasks[h])
      /\ \A u \in Thread, h \in Group : e \notin Elements(threadTasks[u][h])
    BY <1>1, <1>2 DEF TypeOK, QueuesSound, QueuedEvents
<1>4. /\ Append(q, e) \in Seq(Event)
      /\ NoRepeats(Append(q, e))
      /\ Elements(Append(q, e)) = Elements(q) \cup {e}
    BY <1>3, AppendAdds
<1>5. /\ threadTasks' = [threadTasks EXCEPT ![t][g] = Append(q, e)]
      /\ UNCHANGED <<mainTasks, threadSched, scheduled, ref, running, ran, dropped, cancelled, pc>>
      /\ accepted' = accepted \cup {e} /\ e \notin accepted
    BY DEF Dispatch, PushEvent
<1> HIDE DEF g
<1>6. /\ threadTasks' \in [Thread -> [Group -> Seq(Event)]]
      /\ threadTasks'[t][g] = Append(q, e)
      /\ \A u \in Thread, h \in Group : <<u, h>> # <<t, g>> => threadTasks'[u][h] = threadTasks[u][h]
    BY <1>1, <1>4, <1>5 DEF TypeOK
<1>61. \A u \in Thread, h \in Group : \A x :
          x \in Elements(threadTasks'[u][h]) <=>
              x \in Elements(threadTasks[u][h]) \/ (x = e /\ u = t /\ h = g)
    BY <1>4, <1>6
<1> HIDE DEF q
<1>7. TypeOK'
    <2>1. left' \in [Task -> Int]
        BY <1>1, DispatcherAssumption DEF TypeOK, PushEvent
    <2>2. adding' \subseteq Thread
        BY DEF TypeOK, Dispatch
    <2>3. accepted' \subseteq Task /\ dropped' \subseteq accepted'
        BY <1>1, <1>5 DEF TypeOK
    <2> QED
        BY <1>5, <1>6, <2>1, <2>2, <2>3 DEF TypeOK, Dispatch, wakeup, stopping
<1>8. QueuesSound'
    <2>1. ASSUME NEW h \in Group
          PROVE  NoRepeats(mainTasks'[h]) /\ \A x \in Elements(mainTasks'[h]) : GroupOf[x] = h
        BY <1>5 DEF QueuesSound
    <2>2. ASSUME NEW u \in Thread, NEW h \in Group
          PROVE  /\ NoRepeats(threadTasks'[u][h])
                 /\ \A x \in Elements(threadTasks'[u][h]) :
                        GroupOf[x] = h /\ x \notin Elements(mainTasks'[h])
        <3>1. NoRepeats(threadTasks'[u][h])
            <4>1. CASE u = t /\ h = g
                BY <4>1, <1>4, <1>6
            <4>2. CASE <<u, h>> # <<t, g>>
                BY <4>2, <1>6 DEF QueuesSound
            <4> QED
                BY <4>1, <4>2
        <3>2. ASSUME NEW x \in Elements(threadTasks'[u][h])
              PROVE  GroupOf[x] = h /\ x \notin Elements(mainTasks[h])
            <4>1. CASE x \in Elements(threadTasks[u][h])
                BY <4>1 DEF QueuesSound
            <4>2. CASE x = e /\ h = g
                BY <4>2, <1>3 DEF g
            <4> QED
                BY <3>2, <4>1, <4>2, <1>61
        <3> QED
            BY <3>1, <3>2, <1>5
    <2>3. ASSUME NEW u \in Thread, NEW v \in Thread, NEW h \in Group, u # v,
                 NEW x, x \in Elements(threadTasks'[u][h]), x \in Elements(threadTasks'[v][h])
          PROVE  FALSE
        <3>1. CASE x = e
            BY <2>3, <3>1, <1>3, <1>61
        <3>2. CASE x # e
            BY <2>3, <3>2, <1>61 DEF QueuesSound
        <3> QED
            BY <3>1, <3>2
    <2>4. \A u, v \in Thread, h \in Group :
              u # v => Elements(threadTasks'[u][h]) \cap Elements(threadTasks'[v][h]) = {}
        BY <2>3
    <2>5. \A u \in Thread, h \in Group :
              Elements(threadTasks'[u][h]) \cap Elements(mainTasks'[h]) = {}
        BY <2>2
    <2>6. /\ \A u \in Thread : NoRepeats(threadSched'[u]) /\ Elements(threadSched'[u]) \cap scheduled' = {}
          /\ \A u, v \in Thread : u # v => Elements(threadSched'[u]) \cap Elements(threadSched'[v]) = {}
        BY <1>5 DEF QueuesSound
    <2>7. \A u \in Thread, h \in Group :
              /\ NoRepeats(threadTasks'[u][h])
              /\ \A x \in Elements(threadTasks'[u][h]) : GroupOf[x] = h
              /\ Elements(threadTasks'[u][h]) \cap Elements(mainTasks'[h]) = {}
        BY <2>2, <2>5
    <2>8. \A h \in Group :
              NoRepeats(mainTasks'[h]) /\ \A x \in Elements(mainTasks'[h]) : GroupOf[x] = h
        BY <2>1
    <2> QED
        BY <2>4, <2>6, <2>7, <2>8 DEF QueuesSound
<1>9. QueuedEvents' = QueuedEvents \cup {e} /\ QueuedScheduled' = QueuedScheduled
    <2>1. ASSUME NEW x \in QueuedEvents' PROVE x \in QueuedEvents \cup {e}
        <3>1. CASE \E h \in Group : x \in Elements(mainTasks'[h])
            BY <2>1, <3>1, <1>5 DEF QueuedEvents
        <3>2. CASE \E u \in Thread, h \in Group : x \in Elements(threadTasks'[u][h])
            <4>1. PICK u \in Thread, h \in Group : x \in Elements(threadTasks'[u][h])
                BY <3>2
            <4>2. x \in Elements(threadTasks[u][h]) \cup {e}
                BY <4>1, <1>4, <1>6 DEF q
            <4> QED
                BY <2>1, <4>2 DEF QueuedEvents
        <3> QED
            BY <2>1, <3>1, <3>2 DEF QueuedEvents
    <2>2. ASSUME NEW x \in QueuedEvents PROVE x \in QueuedEvents'
        <3>1. CASE \E h \in Group : x \in Elements(mainTasks[h])
            BY <2>2, <3>1, <1>5 DEF QueuedEvents
        <3>2. CASE \E u \in Thread, h \in Group : x \in Elements(threadTasks[u][h])
            <4>1. PICK u \in Thread, h \in Group : x \in Elements(threadTasks[u][h])
                BY <3>2
            <4>2. x \in Elements(threadTasks'[u][h])
                BY <4>1, <1>4, <1>6 DEF q
            <4> QED
                BY <2>2, <4>2 DEF QueuedEvents
        <3> QED
            BY <2>2, <3>1, <3>2 DEF QueuedEvents
    <2>3. e \in QueuedEvents'
        BY <1>1, <1>4, <1>6 DEF QueuedEvents
    <2> QED
        BY <2>1, <2>2, <2>3, <1>5 DEF QueuedScheduled
<1>10. EventsSound'
    BY <1>2, <1>5, <1>9 DEF EventsSound
<1>11. ScheduledSound'
    BY <1>1, <1>5, <1>9 DEF ScheduledSound
<1>12. RefSound'
    BY <1>1, <1>5 DEF RefSound, StopFindsLiveTasks
<1>13. PhaseSound'
    BY <1>5 DEF PhaseSound
<1> QED
    BY <1>7, <1>8, <1>10, <1>11, <1>12, <1>13

LEMMA PushScheduledSound ==
    ASSUME DispatcherInv, NEW t \in Thread, NEW s \in Scheduled,
           Dispatch(t, s), PushScheduled(t, s)
    PROVE  DispatcherInv'
<1> USE DEF DispatcherInv
<1> DEFINE q == threadSched[t]
<1>1. s \in Task /\ s \notin Event
    BY DispatcherAssumption DEF Task
<1>2. s \notin QueuedScheduled /\ s \notin running /\ ran[s] = 0 /\ s \notin dropped
    BY <1>1 DEF Dispatch, ScheduledSound, TypeOK
<1>3. /\ q \in Seq(Scheduled) /\ NoRepeats(q) /\ s \notin scheduled
      /\ \A u \in Thread : s \notin Elements(threadSched[u])
    BY <1>2 DEF TypeOK, QueuesSound, QueuedScheduled
<1>4. /\ Append(q, s) \in Seq(Scheduled)
      /\ NoRepeats(Append(q, s))
      /\ Elements(Append(q, s)) = Elements(q) \cup {s}
    BY <1>3, AppendAdds
<1>5. /\ threadSched' = [threadSched EXCEPT ![t] = Append(q, s)]
      /\ UNCHANGED <<mainTasks, threadTasks, scheduled, running, ran, dropped, cancelled, pc>>
      /\ accepted' = accepted \cup {s} /\ s \notin accepted
      /\ ref' = ref \cup {s}
    BY DEF Dispatch, PushScheduled
<1>6. /\ threadSched' \in [Thread -> Seq(Scheduled)]
      /\ threadSched'[t] = Append(q, s)
      /\ \A u \in Thread : u # t => threadSched'[u] = threadSched[u]
    BY <1>4, <1>5 DEF TypeOK
<1>61. \A u \in Thread :
          Elements(threadSched'[u]) = Elements(threadSched[u]) \cup (IF u = t THEN {s} ELSE {})
    BY <1>4, <1>6
<1> HIDE DEF q
<1>7. TypeOK'
    <2>1. left' \in [Task -> Int]
        BY <1>1, DispatcherAssumption DEF TypeOK, PushScheduled
    <2>2. adding' \subseteq Thread
        BY DEF TypeOK, Dispatch
    <2>3. accepted' \subseteq Task /\ dropped' \subseteq accepted' /\ ref' \subseteq Scheduled
        BY <1>1, <1>5 DEF TypeOK
    <2> QED
        BY <1>5, <1>6, <2>1, <2>2, <2>3 DEF TypeOK, Dispatch, wakeup, stopping
<1>8. QueuesSound'
    <2>1. ASSUME NEW u \in Thread
          PROVE  NoRepeats(threadSched'[u]) /\ Elements(threadSched'[u]) \cap scheduled' = {}
        BY <1>3, <1>4, <1>5, <1>6 DEF QueuesSound, q
    <2>2. ASSUME NEW u \in Thread, NEW v \in Thread, u # v,
                 NEW x, x \in Elements(threadSched'[u]), x \in Elements(threadSched'[v])
          PROVE  FALSE
        <3>1. CASE x = s
            BY <2>2, <3>1, <1>3, <1>61
        <3>2. CASE x # s
            BY <2>2, <3>2, <1>61 DEF QueuesSound
        <3> QED
            BY <3>1, <3>2
    <2>3. \A u, v \in Thread :
              u # v => Elements(threadSched'[u]) \cap Elements(threadSched'[v]) = {}
        BY <2>2
    <2> QED
        BY <1>5, <2>1, <2>3 DEF QueuesSound
<1>9. QueuedScheduled' = QueuedScheduled \cup {s} /\ QueuedEvents' = QueuedEvents
    BY <1>5, <1>61 DEF QueuedScheduled, QueuedEvents
<1>10. EventsSound'
    BY <1>1, <1>5, <1>9 DEF EventsSound
<1>11. ScheduledSound'
    BY <1>2, <1>5, <1>9 DEF ScheduledSound
<1>12. RefSound'
    BY <1>2, <1>5 DEF RefSound, StopFindsLiveTasks
<1>13. PhaseSound'
    BY <1>5 DEF PhaseSound
<1> QED
    BY <1>7, <1>8, <1>10, <1>11, <1>12, <1>13

LEMMA DispatchSound ==
    ASSUME DispatcherInv, NEW t \in Thread, NEW x \in Task, Dispatch(t, x)
    PROVE  DispatcherInv'
BY PushEventSound, PushScheduledSound DEF Dispatch, Push

LEMMA StopEventSound ==
    ASSUME DispatcherInv, NEW s \in Scheduled, StopEvent(s)
    PROVE  DispatcherInv'
<1> USE DEF DispatcherInv, StopEvent
<1>1. UNCHANGED <<mainTasks, threadTasks, threadSched, scheduled, accepted, dropped, ran, running, pc>>
    OBVIOUS
<1>2. QueuesSound' /\ QueuedEvents' = QueuedEvents /\ QueuedScheduled' = QueuedScheduled
    BY SameQueues, <1>1
<1>3. TypeOK'
    BY DEF TypeOK, clock, wakeup, stopping
<1>4. EventsSound' /\ ScheduledSound'
    BY <1>1, <1>2 DEF EventsSound, ScheduledSound
<1>5. RefSound'
    BY DEF RefSound, StopFindsLiveTasks
<1>6. PhaseSound'
    BY <1>1 DEF PhaseSound
<1> QED
    BY <1>2, <1>3, <1>4, <1>5, <1>6

-----------------------------------------------------------------------------
(* Merging. *)

\* What leaves a thread's queues enters the main ones.
LEMMA MergeSound ==
    ASSUME DispatcherInv, NEW G, NEW withScheduled \in BOOLEAN,
           MergeThread(G, withScheduled), running = {}
    PROVE  DispatcherInv'
<1> USE DEF DispatcherInv
<1>1. /\ idx \in Thread
      /\ UNCHANGED <<ref, accepted, dropped, cancelled, ran, running, left, lag, hasPending,
                     adding, waiting, sleep, shuttingDown, stopped>>
    BY DEF TypeOK, MergeThread, history, clock, wakeup, stopping
<1>2. ASSUME NEW g \in Group
      PROVE  /\ mainTasks'[g] \in Seq(Event) /\ NoRepeats(mainTasks'[g])
             /\ \A x : x \in Elements(mainTasks'[g]) <=>
                     x \in Elements(mainTasks[g]) \/ (g \in G /\ x \in Elements(threadTasks[idx][g]))
    <2> DEFINE main == mainTasks[g]
               own  == threadTasks[idx][g]
    <2>1. /\ main \in Seq(Event) /\ own \in Seq(Event) /\ NoRepeats(main) /\ NoRepeats(own)
          /\ Elements(main) \cap Elements(own) = {} /\ Elements(own) \cap Elements(main) = {}
        BY <1>1 DEF TypeOK, QueuesSound
    <2>2. mainTasks'[g] = IF g \in G THEN MergeQueue(main, own) ELSE main
        BY DEF MergeThread
    <2> HIDE DEF main, own
    <2>3. /\ own \o main \in Seq(Event) /\ NoRepeats(own \o main)
          /\ Elements(own \o main) = Elements(own) \cup Elements(main)
        BY <2>1, ConcatAdds
    <2>4. /\ main \o own \in Seq(Event) /\ NoRepeats(main \o own)
          /\ Elements(main \o own) = Elements(main) \cup Elements(own)
        BY <2>1, ConcatAdds
    <2>5. /\ MergeQueue(main, own) \in Seq(Event) /\ NoRepeats(MergeQueue(main, own))
          /\ Elements(MergeQueue(main, own)) = Elements(main) \cup Elements(own)
        BY <2>3, <2>4 DEF MergeQueue
    <2>6. /\ mainTasks'[g] \in Seq(Event) /\ NoRepeats(mainTasks'[g])
          /\ \A x : x \in Elements(mainTasks'[g]) <=>
                  x \in Elements(main) \/ (g \in G /\ x \in Elements(own))
        BY <2>1, <2>2, <2>5
    <2> QED
        BY <2>6 DEF main, own
<1>3. mainTasks' = [g \in Group |-> mainTasks'[g]]
    BY DEF MergeThread
<1>4. Elements(<<>>) = {} /\ NoRepeats(<<>>)
    BY DEF Elements, NoRepeats
<1>5. ASSUME NEW t \in Thread, NEW g \in Group
      PROVE  threadTasks'[t][g] = IF t = idx /\ g \in G THEN <<>> ELSE threadTasks[t][g]
    BY <1>1 DEF TypeOK, MergeThread
<1>6. threadTasks' \in [Thread -> [Group -> Seq(Event)]]
    <2>1. [g \in Group |-> IF g \in G THEN <<>> ELSE threadTasks[idx][g]] \in [Group -> Seq(Event)]
        BY <1>1 DEF TypeOK
    <2> QED
        BY <2>1, <1>1 DEF TypeOK, MergeThread
<1>7. ASSUME NEW t \in Thread, NEW g \in Group
      PROVE  /\ NoRepeats(threadTasks'[t][g])
             /\ \A x : x \in Elements(threadTasks'[t][g]) <=>
                     x \in Elements(threadTasks[t][g]) /\ ~(t = idx /\ g \in G)
    BY <1>4, <1>5 DEF QueuesSound
<1>8. /\ scheduled' \subseteq Scheduled
      /\ threadSched' \in [Thread -> Seq(Scheduled)]
      /\ \A x : x \in scheduled' <=>
              x \in scheduled \/ (withScheduled /\ x \in Elements(threadSched[idx]))
      /\ \A t \in Thread :
             /\ NoRepeats(threadSched'[t])
             /\ \A x : x \in Elements(threadSched'[t]) <=>
                     x \in Elements(threadSched[t]) /\ ~(withScheduled /\ t = idx)
    <2>1. CASE withScheduled
        <3>1. threadSched' = [threadSched EXCEPT ![idx] = <<>>]
            BY <2>1 DEF MergeThread
        <3>2. scheduled' = scheduled \cup Elements(threadSched[idx])
            BY <2>1 DEF MergeThread, Elements
        <3>3. threadSched[idx] \in Seq(Scheduled) /\ Elements(threadSched[idx]) \subseteq Scheduled
            BY <1>1 DEF TypeOK, Elements
        <3>4. threadSched' \in [Thread -> Seq(Scheduled)]
            BY <3>1, <1>1 DEF TypeOK
        <3>5. \A t \in Thread : threadSched'[t] = IF t = idx THEN <<>> ELSE threadSched[t]
            BY <3>1, <1>1 DEF TypeOK
        <3>6. scheduled' \subseteq Scheduled
            BY <3>2, <3>3 DEF TypeOK
        <3> QED
            BY <2>1, <3>2, <3>4, <3>5, <3>6, <1>4 DEF QueuesSound
    <2>2. CASE ~withScheduled
        BY <2>2 DEF MergeThread, TypeOK, QueuesSound
    <2> QED
        BY <2>1, <2>2
<1>9. TypeOK'
    <2>1. pc' \in 0 .. Len(Program) /\ idx' \in Thread
        <3>1. CASE idx = NThreads
            BY <3>1, AdvanceType DEF TypeOK, MergeThread
        <3>2. CASE idx # NThreads
            BY <3>2, DispatcherAssumption DEF TypeOK, MergeThread, Thread
        <3> QED
            BY <3>1, <3>2
    <2>2. mainTasks' \in [Group -> Seq(Event)]
        BY <1>2, <1>3
    <2> QED
        BY <1>1, <1>6, <1>8, <2>1, <2>2 DEF TypeOK
<1>10. PhaseSound'
    BY <1>1 DEF PhaseSound
<1>11. QueuesSound'
    <2>1. \A g \in Group :
              NoRepeats(mainTasks'[g]) /\ \A x \in Elements(mainTasks'[g]) : GroupOf[x] = g
        BY <1>1, <1>2 DEF QueuesSound
    <2>2. ASSUME NEW t \in Thread, NEW g \in Group, NEW x, x \in Elements(threadTasks'[t][g])
          PROVE  GroupOf[x] = g /\ x \notin Elements(mainTasks'[g])
        <3>1. x \in Elements(threadTasks[t][g]) /\ ~(t = idx /\ g \in G)
            BY <2>2, <1>7
        <3>2. GroupOf[x] = g /\ x \notin Elements(mainTasks[g])
            BY <3>1 DEF QueuesSound
        <3>3. g \in G => x \notin Elements(threadTasks[idx][g])
            BY <3>1, <1>1 DEF QueuesSound
        <3> QED
            BY <3>2, <3>3, <1>2
    <2>3. \A t \in Thread, g \in Group :
              /\ NoRepeats(threadTasks'[t][g])
              /\ \A x \in Elements(threadTasks'[t][g]) : GroupOf[x] = g
              /\ Elements(threadTasks'[t][g]) \cap Elements(mainTasks'[g]) = {}
        BY <2>2, <1>7
    <2>4. \A t, u \in Thread, g \in Group :
              t # u => Elements(threadTasks'[t][g]) \cap Elements(threadTasks'[u][g]) = {}
        BY <1>7 DEF QueuesSound
    <2>5. \A t \in Thread :
              NoRepeats(threadSched'[t]) /\ Elements(threadSched'[t]) \cap scheduled' = {}
        BY <1>1, <1>8 DEF QueuesSound
    <2>6. \A t, u \in Thread :
              t # u => Elements(threadSched'[t]) \cap Elements(threadSched'[u]) = {}
        BY <1>8 DEF QueuesSound
    <2> QED
        BY <2>1, <2>3, <2>4, <2>5, <2>6 DEF QueuesSound
<1>12. QueuedEvents' = QueuedEvents
    <2>1. ASSUME NEW x \in QueuedEvents PROVE x \in QueuedEvents'
        <3>1. CASE \E g \in Group : x \in Elements(mainTasks[g])
            BY <2>1, <3>1, <1>2 DEF QueuedEvents
        <3>2. CASE \E t \in Thread, g \in Group : x \in Elements(threadTasks[t][g])
            BY <2>1, <3>2, <1>2, <1>7 DEF QueuedEvents
        <3> QED
            BY <2>1, <3>1, <3>2 DEF QueuedEvents
    <2>2. ASSUME NEW x \in QueuedEvents' PROVE x \in QueuedEvents
        <3>1. CASE \E g \in Group : x \in Elements(mainTasks'[g])
            BY <2>2, <3>1, <1>1, <1>2 DEF QueuedEvents
        <3>2. CASE \E t \in Thread, g \in Group : x \in Elements(threadTasks'[t][g])
            BY <2>2, <3>2, <1>7 DEF QueuedEvents
        <3> QED
            BY <2>2, <3>1, <3>2 DEF QueuedEvents
    <2> QED
        BY <2>1, <2>2
<1>13. QueuedScheduled' = QueuedScheduled
    BY <1>1, <1>8 DEF QueuedScheduled
<1>14. EventsSound' /\ ScheduledSound' /\ RefSound'
    BY <1>1, <1>12, <1>13 DEF EventsSound, ScheduledSound, RefSound, StopFindsLiveTasks
<1> QED
    BY <1>9, <1>10, <1>11, <1>14

LEMMA MergesSound ==
    ASSUME DispatcherInv, MergeEvents \/ MergeAsyncEvents
    PROVE  DispatcherInv'
<1>1. running = {}
    BY NothingRuns DEF DispatcherInv, MergeEvents, MergeAsyncEvents, Serial, Parallel
<1> QED
    BY <1>1, MergeSound DEF MergeEvents, MergeAsyncEvents

-----------------------------------------------------------------------------
(* Executing. *)

\* An event leaves its queue and is executed or discarded.
LEMMA ExecuteSound ==
    ASSUME DispatcherInv, NEW g \in Group, NEW e, e \in Elements(mainTasks[g]),
           At(g), g \in Serial \cup Parallel,
           NEW q \in Seq(Event), NoRepeats(q), Elements(q) = Elements(mainTasks[g]) \ {e},
           mainTasks' = [mainTasks EXCEPT ![g] = q],
           Execute(e),
           UNCHANGED <<pc, idx, threadTasks, threadSched, scheduled, ref, clock, wakeup,
                       adding, stopping, accepted, cancelled>>
    PROVE  DispatcherInv'
<1> USE DEF DispatcherInv
<1>1. e \in Event /\ e \in Task /\ e \notin Scheduled
    <2>1. mainTasks[g] \in Seq(Event)
        BY DEF TypeOK
    <2> QED
        BY <2>1, DispatcherAssumption DEF Task, Elements
<1>2. e \in QueuedEvents
    BY <1>1 DEF QueuedEvents
<1>3. e \in accepted /\ ran[e] = 0 /\ e \notin dropped
    BY <1>1, <1>2 DEF EventsSound
<1>4. \/ dropped' = dropped \cup {e} /\ UNCHANGED <<running, ran>>
      \/ running' = running \cup {e} /\ ran' = [ran EXCEPT ![e] = 1] /\ UNCHANGED dropped
    BY <1>3 DEF Execute
<1>5. /\ mainTasks' \in [Group -> Seq(Event)]
      /\ mainTasks'[g] = q
      /\ \A h \in Group : h # g => mainTasks'[h] = mainTasks[h]
    BY DEF TypeOK
<1>6. \A h \in Group :
          /\ NoRepeats(mainTasks'[h])
          /\ \A x : x \in Elements(mainTasks'[h]) <=> x \in Elements(mainTasks[h]) /\ ~(h = g /\ x = e)
    BY <1>5 DEF QueuesSound
<1>7. TypeOK'
    BY <1>1, <1>3, <1>4, <1>5 DEF TypeOK, clock, wakeup, stopping
<1>8. PhaseSound'
    <2>1. running \subseteq Event
        BY DispatcherAssumption DEF PhaseSound, At, Serial, Parallel
    <2>2. running' \subseteq Event
        BY <2>1, <1>1, <1>4
    <2> QED
        BY <2>2 DEF PhaseSound, At
<1>9. QueuesSound'
    <2>1. \A h \in Group :
              NoRepeats(mainTasks'[h]) /\ \A x \in Elements(mainTasks'[h]) : GroupOf[x] = h
        BY <1>6 DEF QueuesSound
    <2>2. \A t \in Thread, h \in Group :
              /\ NoRepeats(threadTasks'[t][h])
              /\ \A x \in Elements(threadTasks'[t][h]) : GroupOf[x] = h
              /\ Elements(threadTasks'[t][h]) \cap Elements(mainTasks'[h]) = {}
        BY <1>6 DEF QueuesSound
    <2> QED
        BY <2>1, <2>2 DEF QueuesSound
<1>10. QueuedEvents' = QueuedEvents \ {e} /\ QueuedScheduled' = QueuedScheduled
    <2>1. ASSUME NEW x \in QueuedEvents \ {e} PROVE x \in QueuedEvents'
        BY <2>1, <1>6 DEF QueuedEvents
    <2>2. ASSUME NEW x \in QueuedEvents' PROVE x \in QueuedEvents
        BY <2>2, <1>6 DEF QueuedEvents
    <2>3. e \notin QueuedEvents'
        <3>1. GroupOf[e] = g
            BY DEF QueuesSound
        <3>2. \A h \in Group : e \notin Elements(mainTasks'[h])
            BY <1>6, <3>1 DEF QueuesSound
        <3>3. \A t \in Thread, h \in Group : e \notin Elements(threadTasks[t][h])
            BY <3>1 DEF QueuesSound
        <3> QED
            BY <3>2, <3>3 DEF QueuedEvents
    <2> QED
        BY <2>1, <2>2, <2>3 DEF QueuedScheduled
<1>11. EventsSound'
    <2>1. ran' \in [Task -> Nat] /\ \A x \in Event : x \in Task
        BY <1>7 DEF TypeOK, Task
    <2> QED
        BY <1>1, <1>3, <1>4, <1>10, <2>1 DEF EventsSound, TypeOK
<1>12. ScheduledSound'
    BY <1>1, <1>4, <1>10 DEF ScheduledSound, TypeOK, Task
<1>13. RefSound'
    BY <1>1, <1>4 DEF RefSound, StopFindsLiveTasks, TypeOK, Task
<1> QED
    BY <1>7, <1>8, <1>9, <1>11, <1>12, <1>13

LEMMA StartSerialSound ==
    ASSUME DispatcherInv, NEW g \in Group, StartSerial(g)
    PROVE  DispatcherInv'
<1> DEFINE q == mainTasks[g]
<1>1. q \in Seq(Event) /\ NoRepeats(q) /\ q # <<>>
    BY DEF DispatcherInv, TypeOK, QueuesSound, StartSerial
<1>2. /\ Head(q) \in Elements(q)
      /\ Tail(q) \in Seq(Event) /\ NoRepeats(Tail(q))
      /\ Elements(Tail(q)) = Elements(q) \ {Head(q)}
    BY <1>1, TailRemoves
<1>3. mainTasks' = [mainTasks EXCEPT ![g] = Tail(q)]
    BY DEF StartSerial
<1> QED
    BY <1>2, <1>3, ExecuteSound DEF StartSerial

LEMMA StartParallelSound ==
    ASSUME DispatcherInv, NEW g \in Group, NEW i \in DOMAIN mainTasks[g], StartParallel(g, i)
    PROVE  DispatcherInv'
<1> DEFINE q == mainTasks[g]
           w == [j \in 1 .. Len(q) - 1 |-> IF j < i THEN q[j] ELSE q[j + 1]]
<1>1. q \in Seq(Event) /\ NoRepeats(q)
    BY DEF DispatcherInv, TypeOK, QueuesSound
<1>2. q[i] \in Elements(q)
    BY DEF Elements
<1>3. w \in Seq(Event) /\ NoRepeats(w) /\ Elements(w) = Elements(q) \ {q[i]}
    BY <1>1, RemoveAt
<1>4. mainTasks' = [mainTasks EXCEPT ![g] = w]
    BY DEF StartParallel
<1> HIDE DEF w
<1> QED
    BY <1>2, <1>3, <1>4, ExecuteSound DEF StartParallel

LEMMA StartScheduledSound ==
    ASSUME DispatcherInv, NEW s \in Scheduled, StartScheduled(s)
    PROVE  DispatcherInv'
<1> USE DEF DispatcherInv
<1>1. s \in Task /\ s \notin Event
    BY DispatcherAssumption DEF Task
<1>2. s \in scheduled /\ s \in QueuedScheduled /\ running = {}
    BY DEF StartScheduled, IsNext, QueuedScheduled
<1>3. s \in accepted /\ s \notin dropped /\ (s \in Cycle \/ ran[s] = 0)
    BY <1>2 DEF ScheduledSound
<1>4. /\ scheduled' = scheduled \ {s}
      /\ UNCHANGED <<mainTasks, threadTasks, threadSched, accepted, cancelled, pc>>
    BY DEF StartScheduled
<1>5. \/ s \in cancelled /\ ref' = ref \ {s} /\ dropped' = dropped \cup {s} /\ UNCHANGED <<running, ran>>
      \/ /\ s \notin cancelled /\ running' = {s} /\ UNCHANGED <<ref, dropped>>
         /\ ran' = [ran EXCEPT ![s] = IF @ < MaxRuns THEN @ + 1 ELSE @]
    BY DEF StartScheduled
<1>6. /\ ran' \in [Task -> Nat]
      /\ \A x \in Task : x # s => ran'[x] = ran[x]
      /\ s \notin cancelled => ran'[s] > 0
      /\ s \in cancelled => ran' = ran
    <2>1. ran \in [Task -> Nat] /\ MaxRuns \in Nat \ {0}
        BY DispatcherAssumption DEF TypeOK
    <2> QED
        BY <2>1, <1>1, <1>5
<1>7. TypeOK'
    <2>1. /\ scheduled' \subseteq Scheduled /\ ref' \subseteq Scheduled
          /\ running' \subseteq Task /\ dropped' \subseteq accepted'
        BY <1>1, <1>3, <1>4, <1>5 DEF TypeOK
    <2> QED
        BY <2>1, <1>6 DEF TypeOK, StartScheduled, clock, wakeup, stopping
<1>8. PhaseSound'
    BY <1>2, <1>5 DEF PhaseSound, StartScheduled, At
<1>9. QueuesSound'
    BY <1>4 DEF QueuesSound
<1>10. QueuedEvents' = QueuedEvents /\ QueuedScheduled' = QueuedScheduled \ {s}
    BY <1>2, <1>4 DEF QueuedEvents, QueuedScheduled, QueuesSound
<1>11. EventsSound'
    <2>1. \A e \in Event : e \in Task /\ e # s
        BY <1>1 DEF Task
    <2>2. \A e \in Event : ran'[e] = ran[e] /\ (e \in dropped' <=> e \in dropped)
        BY <2>1, <1>5, <1>6
    <2> QED
        BY <2>2, <1>4, <1>10 DEF EventsSound
<1>12. ScheduledSound'
    <2>1. \A x \in Scheduled : x # s =>
              ran'[x] = ran[x] /\ (x \in dropped' <=> x \in dropped) /\ x \notin running'
        BY <1>2, <1>5, <1>6 DEF Task
    <2>2. s \notin QueuedScheduled' /\ s \in accepted'
        BY <1>3, <1>4, <1>10
    <2>3. \/ s \in dropped' /\ s \notin running' /\ ran'[s] = ran[s]
          \/ s \notin dropped' /\ s \in running' /\ ran'[s] > 0
        BY <1>2, <1>3, <1>5, <1>6
    <2> QED
        BY <2>1, <2>2, <2>3, <1>2, <1>3, <1>4, <1>10 DEF ScheduledSound
<1>13. RefSound'
    <2>1. \A x \in Scheduled : x # s => ran'[x] = ran[x] /\ x \notin running'
        BY <1>2, <1>5, <1>6 DEF Task
    <2>2. s \in cancelled => s \notin ref
        BY DEF RefSound, StopFindsLiveTasks
    <2>3. ref' = ref
        BY <2>2, <1>5
    <2>4. s \notin cancelled => s \in ref /\ s \in running'
        BY <1>2, <1>3, <1>5 DEF RefSound, StopFindsLiveTasks
    <2> QED
        BY <2>1, <2>2, <2>3, <2>4, <1>2, <1>4 DEF RefSound, StopFindsLiveTasks
<1> QED
    BY <1>7, <1>8, <1>9, <1>11, <1>12, <1>13

LEMMA EndScheduledSound ==
    ASSUME DispatcherInv, NEW s \in Scheduled, EndScheduled(s)
    PROVE  DispatcherInv'
<1> USE DEF DispatcherInv
<1> DEFINE q == threadSched[1]
<1>1. s \in Task /\ s \notin Event /\ 1 \in Thread
    BY DispatcherAssumption DEF Task, Thread
<1>2. running = {s} /\ running' = {}
    BY <1>1 DEF EndScheduled, PhaseSound
<1>3. s \in accepted /\ s \notin dropped /\ ran[s] > 0 /\ s \notin QueuedScheduled
    BY <1>2 DEF ScheduledSound
<1>4. UNCHANGED <<mainTasks, threadTasks, scheduled, accepted, cancelled, pc, ran, dropped>>
    BY DEF EndScheduled, history
<1>5. /\ q \in Seq(Scheduled) /\ NoRepeats(q) /\ s \notin scheduled
      /\ \A u \in Thread : s \notin Elements(threadSched[u])
      /\ s \notin Elements(q)
    BY <1>1, <1>3 DEF TypeOK, QueuesSound, QueuedScheduled
<1>6. /\ Append(q, s) \in Seq(Scheduled)
      /\ NoRepeats(Append(q, s))
      /\ Elements(Append(q, s)) = Elements(q) \cup {s}
    BY <1>5, AppendAdds
<1>7. CASE s \in Cycle
    <2>1. threadSched' = [threadSched EXCEPT ![1] = Append(q, s)] /\ ref' = ref
        BY <1>7 DEF EndScheduled
    <2>2. /\ threadSched' \in [Thread -> Seq(Scheduled)]
          /\ threadSched'[1] = Append(q, s)
          /\ \A u \in Thread : u # 1 => threadSched'[u] = threadSched[u]
        BY <2>1, <1>1, <1>6 DEF TypeOK
    <2>3. \A u \in Thread :
              Elements(threadSched'[u]) = Elements(threadSched[u]) \cup (IF u = 1 THEN {s} ELSE {})
        BY <2>2, <1>6
    <2> HIDE DEF q
    <2>4. TypeOK'
        <3>1. left' \in [Task -> Int]
            BY <1>1, DispatcherAssumption DEF TypeOK, EndScheduled
        <3> QED
            BY <2>1, <2>2, <3>1, <1>2, <1>4 DEF TypeOK, EndScheduled, wakeup, stopping
    <2>5. QueuesSound'
        <3>1. ASSUME NEW u \in Thread
              PROVE  NoRepeats(threadSched'[u]) /\ Elements(threadSched'[u]) \cap scheduled' = {}
            <4>1. NoRepeats(threadSched'[u])
                <5>1. CASE u = 1
                    BY <5>1, <2>2, <1>6
                <5>2. CASE u # 1
                    BY <5>2, <2>2 DEF QueuesSound
                <5> QED
                    BY <5>1, <5>2
            <4>2. ASSUME NEW x \in Elements(threadSched'[u]) PROVE x \notin scheduled
                BY <4>2, <2>3, <1>5 DEF QueuesSound
            <4> QED
                BY <4>1, <4>2, <1>4
        <3>2. ASSUME NEW u \in Thread, NEW v \in Thread, u # v,
                     NEW x, x \in Elements(threadSched'[u]), x \in Elements(threadSched'[v])
              PROVE  FALSE
            <4>1. CASE x = s
                BY <3>2, <4>1, <1>5, <2>3
            <4>2. CASE x # s
                BY <3>2, <4>2, <2>3 DEF QueuesSound
            <4> QED
                BY <4>1, <4>2
        <3>3. \A u, v \in Thread :
                  u # v => Elements(threadSched'[u]) \cap Elements(threadSched'[v]) = {}
            BY <3>2
        <3> QED
            BY <1>4, <3>1, <3>3 DEF QueuesSound
    <2>6. QueuedScheduled' = QueuedScheduled \cup {s} /\ QueuedEvents' = QueuedEvents
        BY <1>1, <1>4, <2>3 DEF QueuedScheduled, QueuedEvents
    <2>7. EventsSound'
        BY <1>4, <2>6 DEF EventsSound
    <2>8. ScheduledSound'
        BY <1>2, <1>3, <1>4, <1>7, <2>6 DEF ScheduledSound
    <2>9. RefSound'
        BY <1>2, <1>4, <1>7, <2>1 DEF RefSound, StopFindsLiveTasks
    <2> QED
        BY <1>2, <2>4, <2>5, <2>7, <2>8, <2>9 DEF PhaseSound
<1>8. CASE s \notin Cycle
    <2>1. ref' = ref \ {s} /\ UNCHANGED <<threadSched, left>>
        BY <1>8 DEF EndScheduled
    <2>2. QueuesSound' /\ QueuedEvents' = QueuedEvents /\ QueuedScheduled' = QueuedScheduled
        BY SameQueues, <1>4, <2>1
    <2>3. TypeOK'
        BY <1>2, <1>4, <2>1 DEF TypeOK, EndScheduled, wakeup, stopping
    <2>4. EventsSound'
        BY <1>4, <2>2 DEF EventsSound
    <2>5. ScheduledSound'
        BY <1>2, <1>3, <1>4, <1>8, <2>2 DEF ScheduledSound
    <2>6. RefSound'
        BY <1>2, <1>3, <1>4, <1>8, <2>1 DEF RefSound, StopFindsLiveTasks
    <2> QED
        BY <1>2, <2>2, <2>3, <2>4, <2>5, <2>6 DEF PhaseSound
<1> QED
    BY <1>7, <1>8

-----------------------------------------------------------------------------
(* The theorems. *)

LEMMA StepSound == DispatcherInv /\ [Next]_vars => DispatcherInv'
<1> SUFFICES ASSUME DispatcherInv, [Next]_vars PROVE DispatcherInv'
    OBVIOUS
<1>1. CASE DispatcherStep
    BY <1>1, UpdateTimeSound, MergesSound, CheckPendingTasksSound, StartSerialSound, EndGroupSound,
       StartParallelSound, EndEventSound, StartScheduledSound, EndScheduledSound,
       EndScheduledEventsSound, TestPendingSound, BeginWaitSound, EndWaitSound DEF DispatcherStep
<1>2. CASE \E t \in Thread : Notify(t) \/ \E x \in Task : Dispatch(t, x)
    BY <1>2, OtherThreadsSound, DispatchSound
<1>3. CASE \E s \in Scheduled : StopEvent(s)
    BY <1>3, StopEventSound
<1>4. CASE Tick \/ Shutdown \/ StopPool
    BY <1>4, OtherThreadsSound
<1>5. CASE UNCHANGED vars
    <2>1. UNCHANGED <<queues, history, running>>
        BY <1>5 DEF vars
    <2>2. QueuesSound' /\ EventsSound' /\ ScheduledSound' /\ RefSound'
        BY <2>1, QuietStep
    <2> QED
        BY <2>2, <1>5 DEF DispatcherInv, TypeOK, PhaseSound, vars, queues, clock, wakeup, stopping, history
<1> QED
    BY <1>1, <1>2, <1>3, <1>4, <1>5 DEF Next

LEMMA InvariantHolds == Spec => []DispatcherInv
BY InitSound, StepSound, PTL DEF Spec

\* The queues, counters and flags keep their types; in particular the timeout
\* with which the dispatcher waits is a time (dispatcher.cpp).
THEOREM DispatcherTypeCorrect == Spec => []TypeOK
BY InvariantHolds, PTL DEF DispatcherInv

\* The places of a task, queue by queue.
LEMMA PlacesSplit ==
    ASSUME NEW x, NEW w
    PROVE  w \in Places(x) <=>
             \/ \E g \in Group : \E i \in Positions(mainTasks[g], x) : w = <<g, i>>
             \/ \E t \in Thread, g \in Group : \E i \in Positions(threadTasks[t][g], x) : w = <<t, g, i>>
             \/ \E t \in Thread : \E i \in Positions(threadSched[t], x) : w = <<t, "scheduled", i>>
             \/ x \in scheduled /\ w = <<"scheduled">>
<1> DEFINE A == UNION {{<<g, i>> : i \in Positions(mainTasks[g], x)} : g \in Group}
           B == UNION {UNION {{<<t, g, i>> : i \in Positions(threadTasks[t][g], x)} : g \in Group} : t \in Thread}
           C == UNION {{<<t, "scheduled", i>> : i \in Positions(threadSched[t], x)} : t \in Thread}
           D == {<<"scheduled">> : u \in scheduled \cap {x}}
<1>1. w \in Places(x) <=> w \in A \/ w \in B \/ w \in C \/ w \in D
    BY DEF Places
<1>2. w \in A <=> \E g \in Group : \E i \in Positions(mainTasks[g], x) : w = <<g, i>>
    OBVIOUS
<1>3. w \in B <=> \E t \in Thread, g \in Group : \E i \in Positions(threadTasks[t][g], x) : w = <<t, g, i>>
    OBVIOUS
<1>4. w \in C <=> \E t \in Thread : \E i \in Positions(threadSched[t], x) : w = <<t, "scheduled", i>>
    OBVIOUS
<1>5. w \in D <=> x \in scheduled /\ w = <<"scheduled">>
    OBVIOUS
<1> HIDE DEF A, B, C, D
<1> QED
    BY <1>1, <1>2, <1>3, <1>4, <1>5

\* A task is in at most one place (mergeEvents, executeSerialEvents).
LEMMA EventPlaces ==
    ASSUME DispatcherInv, NEW e \in Event
    PROVE  Queued(e) = One(e \in QueuedEvents)
<1> USE DEF DispatcherInv
<1>1. /\ e \notin Scheduled /\ scheduled \cap {e} = {}
      /\ \A t \in Thread : Positions(threadSched[t], e) = {}
    BY DispatcherAssumption DEF TypeOK, Positions
<1>2. \A w : w \in Places(e) <=>
          \/ \E g \in Group : \E i \in Positions(mainTasks[g], e) : w = <<g, i>>
          \/ \E t \in Thread, g \in Group : \E i \in Positions(threadTasks[t][g], e) : w = <<t, g, i>>
    BY <1>1, PlacesSplit
<1>3. CASE e \notin QueuedEvents
    <2>1. \A g \in Group : Positions(mainTasks[g], e) = {}
        BY <1>3 DEF QueuedEvents, Positions, Elements
    <2>2. \A t \in Thread, g \in Group : Positions(threadTasks[t][g], e) = {}
        BY <1>3 DEF QueuedEvents, Positions, Elements
    <2>3. Places(e) = {}
        BY <1>2, <2>1, <2>2
    <2> QED
        BY <2>3, <1>3, FS_EmptySet DEF Queued, One
<1>4. CASE \E g \in Group : e \in Elements(mainTasks[g])
    <2>1. PICK g \in Group : e \in Elements(mainTasks[g])
        BY <1>4
    <2>2. PICK i \in DOMAIN mainTasks[g] : mainTasks[g][i] = e
        BY <2>1 DEF Elements
    <2>3. Positions(mainTasks[g], e) = {i}
        BY <2>2 DEF Positions, QueuesSound, NoRepeats
    <2>4. g = GroupOf[e]
        BY <2>1 DEF QueuesSound
    <2>5. \A h \in Group : h # g => Positions(mainTasks[h], e) = {}
        BY <2>4 DEF Positions, QueuesSound, Elements
    <2>6. \A t \in Thread, h \in Group : Positions(threadTasks[t][h], e) = {}
        <3>1. \A t \in Thread, h \in Group : e \notin Elements(threadTasks[t][h])
            BY <2>1, <2>4 DEF QueuesSound
        <3> QED
            BY <3>1 DEF Positions, Elements
    <2>7. Places(e) = {<<g, i>>}
        BY <1>2, <2>3, <2>5, <2>6
    <2> QED
        BY <2>1, <2>7, FS_Singleton DEF Queued, One, QueuedEvents
<1>5. CASE \E t \in Thread, g \in Group : e \in Elements(threadTasks[t][g])
    <2>1. PICK t \in Thread, g \in Group : e \in Elements(threadTasks[t][g])
        BY <1>5
    <2>2. PICK i \in DOMAIN threadTasks[t][g] : threadTasks[t][g][i] = e
        BY <2>1 DEF Elements
    <2>3. Positions(threadTasks[t][g], e) = {i}
        BY <2>2 DEF Positions, QueuesSound, NoRepeats
    <2>4. g = GroupOf[e]
        BY <2>1 DEF QueuesSound
    <2>5. \A h \in Group : Positions(mainTasks[h], e) = {}
        <3>1. \A h \in Group : e \notin Elements(mainTasks[h])
            BY <2>1, <2>4 DEF QueuesSound
        <3> QED
            BY <3>1 DEF Positions, Elements
    <2>6. \A u \in Thread, h \in Group : <<u, h>> # <<t, g>> => Positions(threadTasks[u][h], e) = {}
        <3>1. \A u \in Thread, h \in Group : <<u, h>> # <<t, g>> => e \notin Elements(threadTasks[u][h])
            BY <2>1, <2>4 DEF QueuesSound
        <3> QED
            BY <3>1 DEF Positions, Elements
    <2>7. Places(e) = {<<t, g, i>>}
        <3>1. ASSUME NEW w \in Places(e) PROVE w = <<t, g, i>>
            <4>1. PICK u \in Thread, h \in Group :
                    \E j \in Positions(threadTasks[u][h], e) : w = <<u, h, j>>
                BY <3>1, <1>2, <2>5
            <4>2. u = t /\ h = g
                BY <4>1, <2>6
            <4> QED
                BY <4>1, <4>2, <2>3
        <3>2. <<t, g, i>> \in Places(e)
            BY <1>2, <2>3
        <3> QED
            BY <3>1, <3>2
    <2> QED
        BY <2>1, <2>7, FS_Singleton DEF Queued, One, QueuedEvents
<1> QED
    BY <1>3, <1>4, <1>5 DEF QueuedEvents

LEMMA ScheduledPlaces ==
    ASSUME DispatcherInv, NEW s \in Scheduled
    PROVE  Queued(s) = One(s \in QueuedScheduled)
<1> USE DEF DispatcherInv
<1>1. /\ \A g \in Group : Positions(mainTasks[g], s) = {}
      /\ \A t \in Thread, g \in Group : Positions(threadTasks[t][g], s) = {}
    BY DispatcherAssumption DEF TypeOK, Positions
<1>2. \A w : w \in Places(s) <=>
          \/ \E t \in Thread : \E i \in Positions(threadSched[t], s) : w = <<t, "scheduled", i>>
          \/ s \in scheduled /\ w = <<"scheduled">>
    BY <1>1, PlacesSplit
<1>3. CASE s \notin QueuedScheduled
    <2>1. s \notin scheduled /\ \A t \in Thread : Positions(threadSched[t], s) = {}
        BY <1>3 DEF QueuedScheduled, Positions, Elements
    <2>2. Places(s) = {}
        BY <1>2, <2>1
    <2> QED
        BY <2>2, <1>3, FS_EmptySet DEF Queued, One
<1>4. CASE s \in scheduled
    <2>1. \A t \in Thread : s \notin Elements(threadSched[t])
        BY <1>4 DEF QueuesSound
    <2>2. \A t \in Thread : Positions(threadSched[t], s) = {}
        BY <2>1 DEF Positions, Elements
    <2>3. Places(s) = {<<"scheduled">>}
        BY <1>2, <1>4, <2>2
    <2> QED
        BY <1>4, <2>3, FS_Singleton DEF Queued, One, QueuedScheduled
<1>5. CASE \E t \in Thread : s \in Elements(threadSched[t])
    <2>1. PICK t \in Thread : s \in Elements(threadSched[t])
        BY <1>5
    <2>2. PICK i \in DOMAIN threadSched[t] : threadSched[t][i] = s
        BY <2>1 DEF Elements
    <2>3. Positions(threadSched[t], s) = {i}
        BY <2>2 DEF Positions, QueuesSound, NoRepeats
    <2>4. s \notin scheduled /\ \A u \in Thread : u # t => s \notin Elements(threadSched[u])
        BY <2>1 DEF QueuesSound
    <2>5. \A u \in Thread : u # t => Positions(threadSched[u], s) = {}
        BY <2>4 DEF Positions, Elements
    <2>6. Places(s) = {<<t, "scheduled", i>>}
        <3>1. ASSUME NEW w \in Places(s) PROVE w = <<t, "scheduled", i>>
            <4>1. PICK u \in Thread :
                    \E j \in Positions(threadSched[u], s) : w = <<u, "scheduled", j>>
                BY <3>1, <1>2, <2>4
            <4>2. u = t
                BY <4>1, <2>5
            <4> QED
                BY <4>1, <4>2, <2>3
        <3>2. <<t, "scheduled", i>> \in Places(s)
            BY <1>2, <2>3
        <3> QED
            BY <3>1, <3>2
    <2> QED
        BY <2>1, <2>6, FS_Singleton DEF Queued, One, QueuedScheduled
<1> QED
    BY <1>3, <1>4, <1>5 DEF QueuedScheduled

\* No task is lost or doubled, through merges in which the longer queue comes
\* first, parallel execution, expiry and the requeueing of cycle tasks.
THEOREM TasksAreKept == Spec => []NoTaskLost
<1>1. ASSUME DispatcherInv PROVE NoTaskLost
    <2> USE <1>1 DEF DispatcherInv
    <2>1. ASSUME NEW e \in Event \cap accepted
          PROVE  Queued(e) + ran[e] + One(e \in dropped) = 1
        BY EventPlaces DEF EventsSound, One
    <2>2. ASSUME NEW s \in Scheduled \cap accepted
          PROVE  Queued(s) + One(s \in running) + One(s \in dropped)
                   + One(s \notin Cycle /\ ran[s] > 0 /\ s \notin running) = 1
        <3>1. ran[s] \in Nat /\ Queued(s) = One(s \in QueuedScheduled)
            BY ScheduledPlaces DEF TypeOK, Task
        <3> QED
            BY <3>1 DEF ScheduledSound, One
    <2> QED
        BY <2>1, <2>2 DEF NoTaskLost
<1> QED
    BY <1>1, InvariantHolds, PTL

\* stopEvent finds every task that may still run and was not stopped, and no
\* other (scheduledTasksRef).
THEOREM LiveTasksAreFound == Spec => []StopFindsLiveTasks
BY InvariantHolds, PTL DEF DispatcherInv, RefSound

\* executeScheduledEvents never starts a task that was stopped.
THEOREM StoppedStaysStopped == Spec => StoppedNeverStarts
<1>1. ASSUME DispatcherInv, [Next]_vars
      PROVE  [\A s \in cancelled : s \in running' => s \in running]_vars
    <2>1. SUFFICES ASSUME NEW s \in cancelled, s \in running', s \notin running PROVE FALSE
        OBVIOUS
    <2>2. s \in Scheduled /\ s \notin Event
        BY <1>1, DispatcherAssumption DEF DispatcherInv, TypeOK
    <2>3. running' # running
        BY <2>1
    <2>4. CASE \E g \in Group : StartSerial(g)
        <3>1. PICK g \in Group : StartSerial(g)
            BY <2>4
        <3>2. Head(mainTasks[g]) \in Event
            <4>1. mainTasks[g] \in Seq(Event) /\ mainTasks[g] # <<>>
                BY <1>1, <3>1 DEF DispatcherInv, TypeOK, StartSerial
            <4> QED
                BY <4>1
        <3> QED
            BY <2>1, <2>2, <3>1, <3>2 DEF StartSerial, Execute
    <2>5. CASE \E g \in Group : \E i \in DOMAIN mainTasks[g] : StartParallel(g, i)
        <3>1. PICK g \in Group : \E i \in DOMAIN mainTasks[g] : StartParallel(g, i)
            BY <2>5
        <3>2. \A i \in DOMAIN mainTasks[g] : mainTasks[g][i] \in Event
            <4>1. mainTasks[g] \in Seq(Event)
                BY <1>1 DEF DispatcherInv, TypeOK
            <4> QED
                BY <4>1
        <3> QED
            BY <2>1, <2>2, <3>1, <3>2 DEF StartParallel, Execute
    <2>6. CASE \E u \in Scheduled : StartScheduled(u)
        BY <2>1, <2>6 DEF StartScheduled
    <2>7. CASE \/ \E e \in Event : EndEvent(e)
               \/ \E u \in Scheduled : EndScheduled(u)
        BY <2>1, <2>7 DEF EndEvent, EndScheduled
    <2> QED
        BY <1>1, <2>3, <2>4, <2>5, <2>6, <2>7
        DEF Next, DispatcherStep, UpdateTime, MergeEvents, MergeAsyncEvents, MergeThread,
            CheckPendingTasks, EndGroup, EndScheduledEvents, TestPending, BeginWait, EndWait,
            Notify, Dispatch, StopEvent, Tick, Shutdown, StopPool, vars
<1> QED
    BY <1>1, InvariantHolds, PTL DEF Spec, StoppedNeverStarts

-----------------------------------------------------------------------------
(* Webhook. *)

\* What Discord has is everything that is no longer queued and, when an answer
\* was lost, the head of the queue.
ReceivedInOrder ==
  \/ received = posted - Len(queue)
  \/ queue # <<>> /\ received = posted - Len(queue) + 1

\* The inductive invariant. SendPayload has no bound of its own: the message
\* it queues was counted when sendMessage began.
WebhookInv ==
  /\ WebhookTypeOK
  /\ ReceivedInOrder
  /\ caller = "wants" => posted < MaxMessages

LEMMA WebhookInitially == WebhookInit => WebhookInv
<1> SUFFICES ASSUME WebhookInit PROVE WebhookInv
  OBVIOUS
<1>1. queue = <<>> /\ Len(queue) = 0 /\ posted = 0 /\ received = 0 /\ jobs = <<>>
  BY DEF WebhookInit
<1>2. queue \in Seq(1..MaxMessages) /\ jobs \in Seq({"send", "other"})
  BY <1>1
<1>3. \A w \in Workers : worker[w] = "requests" <=> lock = w
  BY WebhookAssumption DEF WebhookInit
<1>4. \A i \in 1..Len(queue) : queue[i] = posted - Len(queue) + i
  BY <1>1
<1>5. /\ worker \in [Workers -> {"idle", "wants", "requests"}] /\ bad \subseteq 1..MaxMessages
      /\ lock = NoWorker /\ caller = "free" /\ other = "none"
  BY DEF WebhookInit
<1>6. WebhookTypeOK
  BY <1>1, <1>2, <1>3, <1>4, <1>5, WebhookAssumption DEF WebhookTypeOK
<1>7. ReceivedInOrder
  <2>1. Len(queue) = 0 /\ posted = 0 /\ received = 0
    BY <1>1
  <2>2. received = posted - Len(queue)
    BY <2>1, 0 - 0 = 0
  <2> QED
    BY <2>2 DEF ReceivedInOrder
<1> QED
  BY <1>5, <1>6, <1>7 DEF WebhookInv

\* The head of the queue is the oldest message that was not removed.
LEMMA HeadIsNext ==
  ASSUME WebhookTypeOK, queue # <<>>
  PROVE  /\ Len(queue) \in 1..posted
         /\ Head(queue) = posted - Len(queue) + 1
<1>1. queue \in Seq(1..MaxMessages) /\ Len(queue) \in Nat /\ Len(queue) > 0 /\ Head(queue) = queue[1]
  BY DEF WebhookTypeOK
<1>2. 1 \in 1..Len(queue)
  BY <1>1
<1>3. queue[1] = posted - Len(queue) + 1
  BY <1>1, <1>2, WebhookAssumption DEF WebhookTypeOK
<1> QED
  BY <1>1, <1>3, WebhookAssumption DEF WebhookTypeOK

\* A message joins the end of the queue.
LEMMA SendPayloadPreserves == WebhookInv /\ SendPayload => WebhookInv'
<1> SUFFICES ASSUME WebhookInv, SendPayload PROVE WebhookInv'
  OBVIOUS
<1> USE WebhookAssumption
<1>1. posted \in Nat /\ posted < MaxMessages /\ posted' = posted + 1 /\ posted' \in 1..MaxMessages
  BY DEF WebhookInv, WebhookTypeOK, SendPayload
<1>2. queue \in Seq(1..MaxMessages) /\ queue' = Append(queue, posted + 1)
  BY DEF WebhookInv, WebhookTypeOK, SendPayload
<1>3. queue' \in Seq(1..MaxMessages) /\ Len(queue') = Len(queue) + 1 /\ Len(queue) \in Nat
  BY <1>1, <1>2
<1>4. \A i \in 1..Len(queue') : queue'[i] = posted' - Len(queue') + i
  <2> SUFFICES ASSUME NEW i \in 1..Len(queue') PROVE queue'[i] = posted' - Len(queue') + i
    OBVIOUS
  <2>1. CASE i \in 1..Len(queue)
    <3>1. queue'[i] = queue[i]
      BY <1>2, <2>1
    <3>2. queue[i] = posted - Len(queue) + i
      BY <2>1 DEF WebhookInv, WebhookTypeOK
    <3> QED
      BY <3>1, <3>2, <1>1, <1>3
  <2>2. CASE i = Len(queue) + 1
    BY <2>2, <1>1, <1>2, <1>3
  <2> QED
    BY <2>1, <2>2, <1>3
<1>5. queue' # <<>>
  BY <1>3
<1>6. Len(queue') <= posted' /\ received' \in 0..posted'
  BY <1>1, <1>3 DEF WebhookInv, WebhookTypeOK, SendPayload
<1>7. ReceivedInOrder'
  <2>1. CASE received = posted - Len(queue)
    BY <2>1, <1>1, <1>3 DEF ReceivedInOrder, SendPayload
  <2>2. CASE queue # <<>> /\ received = posted - Len(queue) + 1
    BY <2>2, <1>1, <1>3, <1>5 DEF ReceivedInOrder, SendPayload
  <2> QED
    BY <2>1, <2>2 DEF WebhookInv, ReceivedInOrder
<1>8. WebhookTypeOK'
  BY <1>1, <1>3, <1>4, <1>5, <1>6 DEF WebhookInv, WebhookTypeOK, SendPayload
<1> QED
  BY <1>7, <1>8 DEF WebhookInv, SendPayload

\* The queue after its head was removed.
LEMMA TailKeepsOrder ==
  ASSUME WebhookTypeOK, queue # <<>>
  PROVE  /\ Tail(queue) \in Seq(1..MaxMessages)
         /\ Len(Tail(queue)) = Len(queue) - 1
         /\ \A i \in 1..Len(Tail(queue)) : Tail(queue)[i] = posted - Len(Tail(queue)) + i
<1>1. queue \in Seq(1..MaxMessages) /\ Len(queue) \in Nat /\ Len(queue) > 0
  BY DEF WebhookTypeOK
<1>2. Tail(queue) \in Seq(1..MaxMessages) /\ Len(Tail(queue)) = Len(queue) - 1
  BY <1>1
<1>3. ASSUME NEW i \in 1..Len(Tail(queue))
      PROVE  Tail(queue)[i] = posted - Len(Tail(queue)) + i
  <2>1. Tail(queue)[i] = queue[i + 1] /\ i + 1 \in 1..Len(queue)
    BY <1>1, <1>2
  <2>2. queue[i + 1] = posted - Len(queue) + (i + 1)
    BY <2>1 DEF WebhookTypeOK
  <2>3. posted \in Nat
    BY WebhookAssumption DEF WebhookTypeOK
  <2> QED
    BY <2>1, <2>2, <2>3, <1>1, <1>2
<1> QED
  BY <1>2, <1>3

\* The job that holds the lock has a message to send; afterwards nobody holds it.
LEMMA EndFrees ==
  ASSUME WebhookInv, NEW w \in Workers, End(w)
  PROVE  /\ lock = w /\ queue # <<>>
         /\ worker' \in [Workers -> {"idle", "wants", "requests"}]
         /\ lock' = NoWorker
         /\ \A v \in Workers : worker'[v] # "requests"
  BY WebhookAssumption DEF WebhookInv, WebhookTypeOK, End

\* Everything but the message at the head is left as it is.
LEMMA AnsweredPreserves ==
  ASSUME WebhookInv, NEW w \in Workers, Answered(w)
  PROVE  WebhookInv' /\ received' \in {received, received + 1}
<1> USE WebhookAssumption
<1>1. End(w)
  BY DEF Answered, Succeeds, AnswerIsLost, Fails
<1>2. /\ queue # <<>> /\ lock' = NoWorker
      /\ worker' \in [Workers -> {"idle", "wants", "requests"}]
      /\ \A v \in Workers : worker'[v] # "requests"
  BY <1>1, EndFrees
<1>3. posted' = posted /\ caller' = caller /\ jobs' = jobs /\ other' = other /\ bad' = bad
  BY <1>1 DEF End
<1>4. Len(queue) \in 1..posted /\ Head(queue) = posted - Len(queue) + 1 /\ posted \in Nat
  BY <1>2, HeadIsNext DEF WebhookInv, WebhookTypeOK
<1>5. received \in {Head(queue) - 1, Head(queue)} /\ received \in Nat
  <2>1. received = posted - Len(queue) \/ received = posted - Len(queue) + 1
    BY DEF WebhookInv, ReceivedInOrder
  <2>2. received \in Nat
    BY <1>4 DEF WebhookInv, WebhookTypeOK
  <2> QED
    BY <2>1, <2>2, <1>4
<1>6. CASE Succeeds(w)
  <2>1. queue' = Tail(queue) /\ received' = Head(queue)
    BY <1>6 DEF Succeeds
  <2>2. /\ queue' \in Seq(1..MaxMessages) /\ Len(queue') = Len(queue) - 1
        /\ \A i \in 1..Len(queue') : queue'[i] = posted - Len(queue') + i
    BY <2>1, <1>2, TailKeepsOrder DEF WebhookInv
  <2>3. received' \in 0..posted' /\ received' = posted' - Len(queue') /\ Len(queue') <= posted'
    BY <2>1, <2>2, <1>3, <1>4
  <2>4. WebhookTypeOK'
    BY <1>2, <1>3, <2>2, <2>3 DEF WebhookInv, WebhookTypeOK
  <2>5. ReceivedInOrder'
    BY <2>3 DEF ReceivedInOrder
  <2>6. received' \in {received, received + 1}
    BY <2>1, <1>4, <1>5
  <2> QED
    BY <2>4, <2>5, <2>6, <1>3 DEF WebhookInv
<1>7. CASE AnswerIsLost(w)
  <2>1. queue' = queue /\ received' = Head(queue)
    BY <1>7 DEF AnswerIsLost
  <2>2. received' \in 0..posted'
    BY <2>1, <1>3, <1>4
  <2>3. WebhookTypeOK'
    BY <1>2, <1>3, <2>1, <2>2 DEF WebhookInv, WebhookTypeOK
  <2>4. ReceivedInOrder'
    BY <2>1, <1>2, <1>3, <1>4 DEF ReceivedInOrder
  <2>5. received' \in {received, received + 1}
    BY <2>1, <1>4, <1>5
  <2> QED
    BY <2>3, <2>4, <2>5, <1>3 DEF WebhookInv
<1>8. CASE Fails(w)
  <2>1. queue' = queue /\ received' = received
    BY <1>8 DEF Fails
  <2>2. WebhookTypeOK'
    BY <1>2, <1>3, <2>1 DEF WebhookInv, WebhookTypeOK
  <2> QED
    BY <2>1, <2>2, <1>3 DEF WebhookInv, ReceivedInOrder
<1> QED
  BY <1>6, <1>7, <1>8 DEF Answered

LEMMA BeginPreserves ==
  ASSUME WebhookInv, NEW w \in Workers, Begin(w)
  PROVE  WebhookInv'
<1> USE WebhookAssumption
<1>1. queue' = queue /\ posted' = posted /\ received' = received /\ caller' = caller
      /\ jobs' = jobs /\ other' = other /\ bad' = bad
  BY DEF Begin
<1>2. /\ lock' \in Workers \union {NoWorker}
      /\ worker' \in [Workers -> {"idle", "wants", "requests"}]
      /\ \A v \in Workers : worker'[v] = "requests" <=> lock' = v
      /\ lock' # NoWorker => queue # <<>>
  <2>1. CASE queue = <<>>
    BY <2>1 DEF Begin, WebhookInv, WebhookTypeOK
  <2>2. CASE queue # <<>>
    BY <2>2 DEF Begin, WebhookInv, WebhookTypeOK
  <2> QED
    BY <2>1, <2>2
<1>3. WebhookTypeOK'
  BY <1>1, <1>2 DEF WebhookInv, WebhookTypeOK
<1> QED
  BY <1>1, <1>3 DEF WebhookInv, ReceivedInOrder

LEMMA TakeNextPreserves ==
  ASSUME WebhookInv, NEW w \in Workers, TakeNext(w)
  PROVE  WebhookInv'
<1>1. queue' = queue /\ posted' = posted /\ received' = received /\ caller' = caller
      /\ lock' = lock /\ bad' = bad
  BY DEF TakeNext
<1>2. jobs' \in Seq({"send", "other"}) /\ other' \in {"none", "waits", "done"}
  BY DEF TakeNext, WebhookInv, WebhookTypeOK
<1>3. /\ worker' \in [Workers -> {"idle", "wants", "requests"}]
      /\ \A v \in Workers : worker'[v] = "requests" <=> lock = v
  BY DEF TakeNext, WebhookInv, WebhookTypeOK
<1>4. WebhookTypeOK'
  BY <1>1, <1>2, <1>3 DEF WebhookInv, WebhookTypeOK
<1> QED
  BY <1>1, <1>4 DEF WebhookInv, ReceivedInOrder

\* Every step keeps the invariant, and Discord gets at most the next message.
LEMMA WebhookSteps ==
  WebhookInv /\ [WebhookNext]_webhookVars => WebhookInv' /\ received' \in {received, received + 1}
<1> SUFFICES ASSUME WebhookInv, [WebhookNext]_webhookVars
             PROVE  WebhookInv' /\ received' \in {received, received + 1}
  OBVIOUS
<1> USE WebhookAssumption
<1>1. CASE SendMessage
  BY <1>1 DEF SendMessage, WebhookInv, WebhookTypeOK, ReceivedInOrder
<1>2. CASE SendPayload
  BY <1>2, SendPayloadPreserves DEF SendPayload
<1>3. CASE Run
  BY <1>3 DEF Run, WebhookInv, WebhookTypeOK, ReceivedInOrder
<1>4. CASE DetachOther
  BY <1>4 DEF DetachOther, WebhookInv, WebhookTypeOK, ReceivedInOrder
<1>5. ASSUME NEW w \in Workers, TakeNext(w)
      PROVE  WebhookInv' /\ received' \in {received, received + 1}
  BY <1>5, TakeNextPreserves DEF TakeNext
<1>6. ASSUME NEW w \in Workers, Begin(w)
      PROVE  WebhookInv' /\ received' \in {received, received + 1}
  BY <1>6, BeginPreserves DEF Begin
<1>7. ASSUME NEW w \in Workers, Answered(w)
      PROVE  WebhookInv' /\ received' \in {received, received + 1}
  BY <1>7, AnsweredPreserves
<1>8. CASE UNCHANGED webhookVars
  BY <1>8 DEF webhookVars, WebhookInv, WebhookTypeOK, ReceivedInOrder
<1> QED
  BY <1>1, <1>2, <1>3, <1>4, <1>5, <1>6, <1>7, <1>8 DEF WebhookNext

THEOREM WebhookCorrect == WebhookSpec => []WebhookInv
<1>1. WebhookInit => WebhookInv
  BY WebhookInitially
<1>2. WebhookInv /\ [WebhookNext]_webhookVars => WebhookInv'
  BY WebhookSteps
<1> QED
  BY <1>1, <1>2, PTL DEF WebhookSpec

\* The queue holds the newest messages in order, and only the job that holds
\* taskLock talks to Discord.
THEOREM WebhookTypeCorrect == WebhookSpec => []WebhookTypeOK
<1>1. WebhookInv => WebhookTypeOK
  BY DEF WebhookInv
<1> QED
  BY <1>1, WebhookCorrect, PTL

\* sendWebhook pops a message only after a good answer, and nobody else takes
\* from the queue meanwhile: Discord gets every message, in the order sent.
THEOREM NothingIsSkipped == WebhookSpec => NoMessageSkipped
<1>1. WebhookInv /\ [WebhookNext]_webhookVars => [received' \in {received, received + 1}]_webhookVars
  BY WebhookSteps
<1> QED
  BY <1>1, WebhookCorrect, PTL DEF WebhookSpec, NoMessageSkipped

-----------------------------------------------------------------------------
(* The two together. *)

\* In MCPool each of the two takes only its own steps.
LEMMA PoolSteps ==
    DispatcherInv /\ WebhookInv /\ [PoolNext]_poolVars
        => /\ (DispatcherInv /\ WebhookInv)'
           /\ received' \in {received, received + 1}
<1> SUFFICES ASSUME DispatcherInv, WebhookInv, [PoolNext]_poolVars
             PROVE  /\ DispatcherInv' /\ WebhookInv'
                    /\ received' \in {received, received + 1}
    OBVIOUS
<1>1. [Next]_vars /\ [WebhookNext]_webhookVars
    BY DEF PoolNext, Dispatching, Posting, poolVars
<1> QED
    BY <1>1, StepSound, WebhookSteps

LEMMA PoolInvariantHolds == PoolSpec => [](DispatcherInv /\ WebhookInv)
<1>1. PoolInit => DispatcherInv /\ WebhookInv
    BY InitSound, WebhookInitially DEF PoolInit
<1>2. DispatcherInv /\ WebhookInv /\ [PoolNext]_poolVars => (DispatcherInv /\ WebhookInv)'
    BY PoolSteps
<1> QED
    BY <1>1, <1>2, PTL DEF PoolSpec

\* Both components keep their types when they share the pool.
THEOREM PoolTypeCorrect == PoolSpec => []PoolTypeOK
<1>1. DispatcherInv /\ WebhookInv => PoolTypeOK
    BY DEF DispatcherInv, WebhookInv, PoolTypeOK
<1> QED
    BY <1>1, PoolInvariantHolds, PTL

\* Nor does a message get lost or overtaken there.
THEOREM PoolSkipsNothing == PoolSpec => NoMessageSkipped
<1>1. DispatcherInv /\ WebhookInv /\ [PoolNext]_poolVars
        => [received' \in {received, received + 1}]_webhookVars
    BY PoolSteps
<1> QED
    BY <1>1, PoolInvariantHolds, PTL DEF PoolSpec, NoMessageSkipped
=============================================================================

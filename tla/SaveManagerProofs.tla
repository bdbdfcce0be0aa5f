------------------------ MODULE SaveManagerProofs ------------------------
(***************************************************************************)
(* Proofs about SaveManager: its types; that without toggleSaveAsync no    *)
(* progress is lost, no row is mixed and none goes back; and that a        *)
(* request to save is never forgotten.                                     *)
(***************************************************************************)
EXTENDS SaveManager, TLAPS

-----------------------------------------------------------------------------
(* What the records are. *)

LEMMA ObjectParts ==
    /\ \A o \in Object : o = <<o[1], o[2]>> /\ Guid(o) \in Player /\ o[2] \in 1 .. MaxObjects
    /\ \A p \in Player : \A n \in 1 .. MaxObjects : <<p, n>> \in Object /\ Guid(<<p, n>>) = p
BY DEF Object, Guid

LEMMA ActivityParts ==
    ASSUME NEW a \in Activity
    PROVE  /\ a.do \in {"idle", "wait", "submit", "load"} \cup SaveSteps
           /\ a.do = "idle" => a = Idle
           /\ a.do = "submit" => a.done \in SUBSET Player
           /\ a.do = "load" =>
                  a.obj \in Object /\ a.part \in Part /\ a.for \in {"login", "offline"}
           /\ a.do \in SaveSteps =>
                  a.obj \in Object /\ a.after \in 0 .. NThreads + 1
BY DEF Activity, Idle, SaveSteps

LEMMA ActivityTypes ==
    /\ Idle \in Activity /\ [do |-> "wait"] \in Activity
    /\ \A D \in SUBSET Player : [do |-> "submit", done |-> D] \in Activity
    /\ \A o \in Object : \A part \in Part : \A for \in {"login", "offline"} :
           [do |-> "load", obj |-> o, part |-> part, for |-> for] \in Activity
    /\ \A step \in SaveSteps : \A o \in Object : \A after \in 0 .. NThreads + 1 :
           Saving(step, o, after) \in Activity
BY DEF Activity, Saving

LEMMA JobParts ==
    ASSUME NEW j \in Job
    PROVE  /\ j.kind \in {"player", "member", "all"}
           /\ j.kind \in {"player", "member"} => j.obj \in Object
           /\ j.kind \in {"player", "all"} => j.at \in 1 .. MaxStamps
           /\ j.kind = "member" => j.owner \in Thread
BY DEF Job

LEMMA JobTypes ==
    /\ \A o \in Object : \A at \in 1 .. MaxStamps : [kind |-> "player", obj |-> o, at |-> at] \in Job
    /\ \A o \in Object : \A w \in Thread : [kind |-> "member", obj |-> o, owner |-> w] \in Job
    /\ \A at \in 1 .. MaxStamps : [kind |-> "all", at |-> at] \in Job
BY DEF Job

-----------------------------------------------------------------------------
(* Types. A player who is being loaded to be changed may still be changed. *)

TypeInv ==
    /\ TypeOK
    /\ act[1].do = "load" /\ act[1].for = "offline" => changes[Guid(act[1].obj)] < MaxChanges

LEMMA InitType == Init => TypeInv
<1> SUFFICES ASSUME Init PROVE TypeInv
    OBVIOUS
<1> USE SaveManagerAssumption DEF Init
<1>1. mem \in [Object -> Contents] /\ row \in [Player -> Contents]
    BY DEF Contents
<1>2. act \in [Thread -> Activity] /\ act[1] = Idle
    BY ActivityTypes DEF Thread
<1>3. queue \in Seq(Job)
    OBVIOUS
<1>4. /\ online \in [Player -> 0 .. MaxObjects] /\ made \in [Player -> 0 .. MaxObjects]
      /\ stamp \in [Player -> 0 .. MaxStamps] /\ allStamp \in 0 .. MaxStamps /\ now \in 0 .. MaxStamps
      /\ changes \in [Player -> 0 .. MaxChanges]
    OBVIOUS
<1>5. TypeOK
    BY <1>1, <1>2, <1>3, <1>4 DEF TypeOK
<1> QED
    BY <1>2, <1>5 DEF TypeInv, Idle

LEMMA DispatcherActs ==
    ASSUME TypeOK
    PROVE  1 \in Thread /\ act[1] \in Activity
<1>1. 1 \in Thread
    BY SaveManagerAssumption DEF Thread
<1> QED
    BY <1>1 DEF TypeOK

LEMMA AppendJob ==
    ASSUME NEW s \in Seq(Job), NEW j \in Job
    PROVE  Append(s, j) \in Seq(Job)
OBVIOUS

LEMMA CurrentIsObject ==
    ASSUME TypeOK, NEW p \in Player, online[p] # 0
    PROVE  Current(p) \in Object /\ Guid(Current(p)) = p
BY ObjectParts DEF TypeOK, Current

\* A change of an object adds the player's next change to both parts.
LEMMA ChangedType ==
    ASSUME TypeOK, NEW o \in Object, NEW p \in Player, changes[p] < MaxChanges
    PROVE  Changed(o, p) \in [Object -> Contents]
BY SaveManagerAssumption DEF TypeOK, Changed, Contents

LEMMA ChangeType ==
    ASSUME TypeInv, NEW p \in Player, Change(p)
    PROVE  TypeInv'
<1> USE DEF Change
<1>1. mem' \in [Object -> Contents]
    BY CurrentIsObject, ChangedType DEF TypeInv
<1>2. changes' \in [Player -> 0 .. MaxChanges]
    BY SaveManagerAssumption DEF TypeInv, TypeOK
<1>3. TypeOK'
    BY <1>1, <1>2 DEF TypeInv, TypeOK, stamps, pool
<1>4. act' = act /\ act[1].do = "idle"
    BY DEF Running, Idle, pool
<1> QED
    BY <1>3, <1>4 DEF TypeInv

LEMMA LoadType ==
    ASSUME TypeInv, NEW p \in Player, NEW purpose \in {"login", "offline"}, Load(p, purpose)
    PROVE  TypeInv'
<1> USE DEF Load
<1> DEFINE o == <<p, made[p] + 1>>
           a == [do |-> "load", obj |-> o, part |-> "first", for |-> purpose]
<1>1. o \in Object /\ Guid(o) = p
    BY ObjectParts, SaveManagerAssumption DEF TypeInv, TypeOK
<1>2. a \in Activity
    BY <1>1, ActivityTypes DEF Part
<1>3. act' \in [Thread -> Activity] /\ act'[1] = a
    BY <1>2, SaveManagerAssumption DEF TypeInv, TypeOK, Thread
<1>4. made' \in [Player -> 0 .. MaxObjects]
    BY SaveManagerAssumption DEF TypeInv, TypeOK
<1>5. TypeOK'
    BY <1>3, <1>4 DEF TypeInv, TypeOK, stamps, history
<1> QED
    BY <1>1, <1>3, <1>5 DEF TypeInv, history

LEMMA LoadFirstType ==
    ASSUME TypeInv, LoadFirst
    PROVE  TypeInv'
<1> DEFINE a == act[1]
<1>1. 1 \in Thread /\ a \in Activity
    BY DispatcherActs DEF TypeInv
<1> USE DEF LoadFirst
<1>2. a.obj \in Object /\ a.for \in {"login", "offline"} /\ Guid(a.obj) \in Player
    BY <1>1, ActivityParts, ObjectParts
<1>3. [a EXCEPT !.part = "items"] = [do |-> "load", obj |-> a.obj, part |-> "items", for |-> a.for]
    <2>1. a \in [do : {"load"}, obj : Object, part : Part, for : {"login", "offline"}]
        BY <1>1 DEF Activity, Idle, SaveSteps
    <2> QED
        BY <2>1
<1>4. act'[1] = [do |-> "load", obj |-> a.obj, part |-> "items", for |-> a.for]
    BY <1>1, <1>3 DEF TypeInv, TypeOK
<1>5. act' \in [Thread -> Activity]
    <2>1. [do |-> "load", obj |-> a.obj, part |-> "items", for |-> a.for] \in Activity
        BY <1>2, ActivityTypes DEF Part
    <2> QED
        BY <1>3, <2>1 DEF TypeInv, TypeOK
<1>6. mem' \in [Object -> Contents]
    BY <1>2 DEF TypeInv, TypeOK, Contents, Part
<1>7. TypeOK'
    BY <1>5, <1>6 DEF TypeInv, TypeOK, stamps, history
<1> QED
    BY <1>4, <1>7 DEF TypeInv, history

LEMMA LoadItemsType ==
    ASSUME TypeInv, LoadItems
    PROVE  TypeInv'
<1> USE DEF LoadItems
<1> DEFINE o == act[1].obj
           p == Guid(o)
           loaded == [mem EXCEPT ![o] = [@ EXCEPT !["items"] = row[p]["items"]]]
<1>1. 1 \in Thread /\ act[1] \in Activity
    BY DispatcherActs DEF TypeInv
<1>2. o \in Object /\ p \in Player /\ o[2] \in 0 .. MaxObjects
    BY <1>1, ActivityParts, ObjectParts, SaveManagerAssumption
<1>3. loaded \in [Object -> Contents]
    BY <1>2 DEF TypeInv, TypeOK, Contents, Part
<1>4. CASE act[1].for = "login"
    <2>1. act' = [act EXCEPT ![1] = Idle]
        BY <1>4
    <2>2. act' \in [Thread -> Activity] /\ act'[1] = Idle
        BY <2>1, <1>1, ActivityTypes DEF TypeInv, TypeOK
    <2>3. online' \in [Player -> 0 .. MaxObjects]
        BY <1>2, <1>4 DEF TypeInv, TypeOK
    <2>4. asked' \in [Player -> SUBSET (1 .. MaxChanges)]
        BY <1>4 DEF TypeInv, TypeOK
    <2>5. mem' \in [Object -> Contents] /\ changes' = changes
        BY <1>3, <1>4
    <2>6. TypeOK'
        BY <2>2, <2>3, <2>4, <2>5 DEF TypeInv, TypeOK, stamps
    <2> QED
        BY <2>2, <2>6 DEF TypeInv, Idle
<1>5. CASE act[1].for = "offline"
    <2>1. act' = [act EXCEPT ![1] = Saving("lock", o, Nothing)]
        BY <1>5
    <2>2. Saving("lock", o, Nothing) \in Activity
        BY <1>2, ActivityTypes, SaveManagerAssumption DEF SaveSteps, Nothing
    <2>3. act' \in [Thread -> Activity] /\ act'[1] = Saving("lock", o, Nothing)
        BY <2>1, <2>2, <1>1 DEF TypeInv, TypeOK
    <2>4. changes[p] < MaxChanges /\ changes[p] \in Nat
        BY <1>2, <1>5 DEF TypeInv, TypeOK
    <2>5. mem' \in [Object -> Contents]
        <3>1. mem' = [loaded EXCEPT ![o] = [part \in Part |-> @[part] \cup {changes[p] + 1}]]
            BY <1>5
        <3>2. [part \in Part |-> loaded[o][part] \cup {changes[p] + 1}] \in Contents
            BY <1>2, <1>3, <2>4, SaveManagerAssumption DEF Contents
        <3> HIDE DEF loaded
        <3> QED
            BY <3>1, <3>2, <1>3
    <2>6. changes' \in [Player -> 0 .. MaxChanges]
        <3>1. changes' = [changes EXCEPT ![p] = @ + 1]
            BY <1>5
        <3>2. changes \in [Player -> 0 .. MaxChanges] /\ changes[p] + 1 \in 0 .. MaxChanges
            BY <2>4, SaveManagerAssumption DEF TypeInv, TypeOK
        <3> QED
            BY <3>1, <3>2, <1>2
    <2>7. TypeOK'
        BY <2>3, <2>5, <2>6, <1>5 DEF TypeInv, TypeOK, stamps
    <2> QED
        BY <2>3, <2>7 DEF TypeInv, Saving
<1> QED
    BY <1>4, <1>5

\* schedulePlayer and doSavePlayer as the tail of a request.
LEMMA ScheduleType ==
    ASSUME TypeOK, NEW o \in Object, Schedule(o)
    PROVE  /\ stamp' \in [Player -> 0 .. MaxStamps] /\ now' \in 0 .. MaxStamps
           /\ queue' \in Seq(Job)
           /\ UNCHANGED <<allStamp, act, locked, pending>>
<1>1. now + 1 \in 1 .. MaxStamps
    BY SaveManagerAssumption DEF TypeOK, Schedule
<1>2. queue' \in Seq(Job)
    <2>1. [kind |-> "player", obj |-> o, at |-> now + 1] \in Job
        BY <1>1, JobTypes
    <2> QED
        BY <2>1 DEF TypeOK, Schedule
<1>3. stamp' \in [Player -> 0 .. MaxStamps] /\ now' \in 0 .. MaxStamps
    <2>1. now + 1 \in 0 .. MaxStamps
        BY <1>1
    <2> QED
        BY <2>1 DEF TypeOK, Schedule
<1> QED
    BY <1>2, <1>3 DEF Schedule

LEMMA SaveHereType ==
    ASSUME TypeOK, NEW o \in Object, NEW after \in 0 .. NThreads + 1, SaveHere(o, after)
    PROVE  /\ act' \in [Thread -> Activity] /\ act'[1] = Saving("lock", o, after)
           /\ \A w \in Thread : w # 1 => act'[w] = act[w]
           /\ UNCHANGED <<stamps, queue, locked, pending>>
<1>1. Saving("lock", o, after) \in Activity
    BY ActivityTypes DEF SaveSteps
<1> QED
    BY <1>1, SaveManagerAssumption DEF TypeOK, SaveHere, Thread

LEMMA SavePlayerType ==
    ASSUME TypeInv, NEW p \in Player, SavePlayer(p)
    PROVE  TypeInv'
<1> USE DEF SavePlayer
<1>1. Current(p) \in Object /\ Nothing \in 0 .. NThreads + 1
    BY CurrentIsObject, SaveManagerAssumption DEF TypeInv, Nothing
<1>2. asked' \in [Player -> SUBSET (1 .. MaxChanges)]
    BY <1>1 DEF TypeInv, TypeOK, Contents, Part
<1>3. CASE Async
    <2>1. Schedule(Current(p)) /\ act[1] = Idle
        BY <1>3 DEF Running
    <2>2. TypeOK'
        BY <1>1, <1>2, <2>1, ScheduleType DEF TypeInv, TypeOK, objects
    <2>3. act'[1] = Idle
        BY <1>1, <2>1, ScheduleType DEF TypeInv
    <2> QED
        BY <2>2, <2>3 DEF TypeInv, Idle
<1>4. CASE ~Async
    <2>1. SaveHere(Current(p), Nothing)
        BY <1>4
    <2>2. TypeOK'
        BY <1>1, <1>2, <2>1, SaveHereType DEF TypeInv, TypeOK, objects, stamps
    <2>3. act'[1] = Saving("lock", Current(p), Nothing)
        BY <1>1, <2>1, SaveHereType DEF TypeInv
    <2> QED
        BY <2>2, <2>3 DEF TypeInv, Saving
<1> QED
    BY <1>3, <1>4

LEMMA LogoutType ==
    ASSUME TypeInv, NEW p \in Player, Logout(p)
    PROVE  TypeInv'
<1> USE DEF Logout
<1>1. Current(p) \in Object /\ RemovePlayer \in 0 .. NThreads + 1
    BY CurrentIsObject, SaveManagerAssumption DEF TypeInv, RemovePlayer
<1>2. CASE Async /\ gameState = "normal"
    <2>1. Schedule(Current(p)) /\ act[1] = Idle /\ online' = [online EXCEPT ![p] = 0]
        BY <1>2
    <2>2. online' \in [Player -> 0 .. MaxObjects]
        BY <2>1, SaveManagerAssumption DEF TypeInv, TypeOK
    <2>3. TypeOK'
        BY <1>1, <2>1, <2>2, ScheduleType DEF TypeInv, TypeOK, history
    <2>4. act'[1] = Idle
        BY <1>1, <2>1, ScheduleType DEF TypeInv
    <2> QED
        BY <2>3, <2>4 DEF TypeInv, Idle
<1>3. CASE ~(Async /\ gameState = "normal")
    <2>1. SaveHere(Current(p), RemovePlayer) /\ UNCHANGED online
        BY <1>3
    <2>2. TypeOK'
        BY <1>1, <2>1, SaveHereType DEF TypeInv, TypeOK, stamps, history
    <2>3. act'[1] = Saving("lock", Current(p), RemovePlayer)
        BY <1>1, <2>1, SaveHereType DEF TypeInv
    <2> QED
        BY <2>2, <2>3 DEF TypeInv, Saving
<1> QED
    BY <1>2, <1>3

\* Destroy, Shutdown, ScheduleAll and ShutdownSaveAll.
LEMMA DestroyType ==
    ASSUME TypeInv, (\E o \in Object : Destroy(o)) \/ Shutdown
    PROVE  TypeInv'
<1>1. TypeOK'
    BY DEF TypeInv, TypeOK, Destroy, Shutdown, objects, stamps, pool, history
<1> QED
    BY <1>1 DEF TypeInv, Destroy, Shutdown, pool, history

LEMMA SubmitTypes ==
    ASSUME TypeInv, ScheduleAll \/ ShutdownSaveAll
    PROVE  TypeInv'
<1> DEFINE a == [do |-> "submit", done |-> {}]
<1>1. a \in Activity /\ 1 \in Thread
    BY ActivityTypes, SaveManagerAssumption DEF Thread
<1>2. /\ act' \in [Thread -> Activity] /\ act'[1] \in {Idle, a}
      /\ UNCHANGED <<gameState, objects, row, stamp, locked, pending, history>>
    BY <1>1 DEF TypeInv, TypeOK, ScheduleAll, ShutdownSaveAll, stamps, Running
<1>3. /\ now' \in 0 .. MaxStamps /\ allStamp' \in 0 .. MaxStamps
      /\ queue' \in Seq(Job)
    <2>1. CASE ScheduleAll
        <3>1. now + 1 \in 1 .. MaxStamps
            BY <2>1, SaveManagerAssumption DEF TypeInv, TypeOK, ScheduleAll
        <3>2. [kind |-> "all", at |-> now + 1] \in Job
            BY <3>1, JobTypes
        <3>3. queue' \in {queue, Append(queue, [kind |-> "all", at |-> now + 1])}
            BY <2>1 DEF ScheduleAll
        <3>4. queue' \in Seq(Job)
            BY <3>2, <3>3, AppendJob DEF TypeInv, TypeOK
        <3>5. now' = now + 1 /\ allStamp' = now + 1 /\ now + 1 \in 0 .. MaxStamps
            BY <2>1, <3>1 DEF ScheduleAll
        <3> QED
            BY <3>4, <3>5
    <2>2. CASE ShutdownSaveAll
        BY <2>2 DEF TypeInv, TypeOK, ShutdownSaveAll, stamps
    <2> QED
        BY <2>1, <2>2
<1>4. TypeOK'
    BY <1>2, <1>3 DEF TypeInv, TypeOK, objects, history
<1> QED
    BY <1>2, <1>4 DEF TypeInv, Idle, history
LEMMA SubmitType ==
    ASSUME TypeInv, NEW w \in Thread, NEW p \in Player, Submit(w, p)
    PROVE  TypeInv'
<1>1. act[w] \in Activity /\ act[w].done \in SUBSET Player
    BY ActivityParts DEF TypeInv, TypeOK, Submit
<1>2. [do |-> "submit", done |-> act[w].done \cup {p}] \in Activity
    BY <1>1, ActivityTypes
<1>3. act' = [act EXCEPT ![w] = [do |-> "submit", done |-> act[w].done \cup {p}]]
    BY DEF Submit
<1>4. act' \in [Thread -> Activity]
    BY <1>2, <1>3 DEF TypeInv, TypeOK
<1>5. [kind |-> "member", obj |-> Current(p), owner |-> w] \in Job
    BY CurrentIsObject, JobTypes DEF TypeInv, Submit
<1>6. queue' \in Seq(Job) /\ pending' \in [Thread -> SUBSET Player]
    BY <1>5 DEF TypeInv, TypeOK, Submit
<1>7. TypeOK'
    BY <1>4, <1>6 DEF TypeInv, TypeOK, Submit, objects, stamps, history
<1>8. act'[1].do = "load" => act'[1] = act[1]
    BY <1>3 DEF TypeInv, TypeOK
<1> QED
    BY <1>7, <1>8 DEF TypeInv, Submit, history

LEMMA EndSubmitType ==
    ASSUME TypeInv, NEW w \in Thread, EndSubmit(w) \/ EndSaveAll(w)
    PROVE  TypeInv'
<1>1. PICK a \in {Idle, [do |-> "wait"]} : act' = [act EXCEPT ![w] = a]
    BY DEF EndSubmit, EndSaveAll
<1>2. act' \in [Thread -> Activity] /\ (act'[1].do = "load" => act'[1] = act[1])
    BY <1>1, ActivityTypes DEF TypeInv, TypeOK, Idle
<1>3. TypeOK'
    BY <1>2 DEF TypeInv, TypeOK, EndSubmit, EndSaveAll, objects, stamps, history
<1> QED
    BY <1>2, <1>3 DEF TypeInv, EndSubmit, EndSaveAll, history

\* The oldest job leaves the queue.
LEMMA HeadIsJob ==
    ASSUME TypeOK, queue # <<>>
    PROVE  Head(queue) \in Job /\ Tail(queue) \in Seq(Job)
BY DEF TypeOK

LEMMA StartedType ==
    ASSUME NEW j \in Job
    PROVE  Started(j) \in Activity /\ Started(j).do \in {"lock", "submit"}
<1>1. CASE j.kind = "player"
    <2>1. Started(j) = Saving("lock", j.obj, Nothing)
        BY <1>1 DEF Started
    <2> QED
        BY <1>1, <2>1, JobParts, ActivityTypes, SaveManagerAssumption DEF SaveSteps, Nothing, Saving
<1>2. CASE j.kind = "member"
    <2>1. Started(j) = Saving("lock", j.obj, j.owner)
        BY <1>2 DEF Started
    <2>2. j.owner \in 0 .. NThreads + 1
        BY <1>2, JobParts, SaveManagerAssumption DEF Thread
    <2> QED
        BY <1>2, <2>1, <2>2, JobParts, ActivityTypes DEF SaveSteps, Saving
<1>3. CASE j.kind = "all"
    BY <1>3, ActivityTypes DEF Started
<1> QED
    BY <1>1, <1>2, <1>3, JobParts

LEMMA TakeJobType ==
    ASSUME TypeInv, NEW w \in Thread, TakeJob(w)
    PROVE  TypeInv'
<1>1. Head(queue) \in Job /\ queue' \in Seq(Job)
    BY HeadIsJob DEF TypeInv, TakeJob
<1>2. PICK a \in Activity : act' = [act EXCEPT ![w] = a]
    BY <1>1, StartedType, ActivityTypes DEF TakeJob
<1>3. act' \in [Thread -> Activity] /\ act'[1] = act[1]
    BY <1>2, SaveManagerAssumption DEF TypeInv, TypeOK, TakeJob, Thread
<1>4. TypeOK'
    BY <1>1, <1>3 DEF TypeInv, TypeOK, TakeJob, objects, stamps, history
<1> QED
    BY <1>3, <1>4 DEF TypeInv, TakeJob, history

LEMMA LockType ==
    ASSUME TypeInv, NEW w \in Thread, Lock(w)
    PROVE  TypeInv'
<1>1. act[w] \in Activity
    BY DEF TypeInv, TypeOK
<1>2. act[w].obj \in Object /\ act[w].after \in 0 .. NThreads + 1
    BY <1>1, ActivityParts DEF Lock, SaveSteps
<1>3. Saving("first", act[w].obj, act[w].after) \in Activity
    BY <1>2, ActivityTypes DEF SaveSteps
<1>4. act' = [act EXCEPT ![w] = Saving("first", act[w].obj, act[w].after)]
    BY DEF Lock
<1>5. act' \in [Thread -> Activity] /\ (act'[1].do = "load" => act'[1] = act[1])
    BY <1>3, <1>4 DEF TypeInv, TypeOK, Saving
<1>6. locked' \subseteq Object
    BY <1>2 DEF TypeInv, TypeOK, Lock
<1>8. stamp' \in [Player -> 0 .. MaxStamps]
    <2>1. stamp' = [stamp EXCEPT ![Guid(act[w].obj)] = 0]
        BY DEF Lock
    <2>2. stamp \in [Player -> 0 .. MaxStamps] /\ 0 \in 0 .. MaxStamps
        BY SaveManagerAssumption DEF TypeInv, TypeOK
    <2> QED
        BY <2>1, <2>2
<1>7. TypeOK'
    BY <1>5, <1>6, <1>8 DEF TypeInv, TypeOK, Lock, objects, history
<1> QED
    BY <1>5, <1>7 DEF TypeInv, Lock, history

LEMMA FinishType ==
    ASSUME TypeOK, NEW w \in Thread, Finish(w), IsSaving(w)
    PROVE  /\ locked' \subseteq Object /\ pending' \in [Thread -> SUBSET Player]
           /\ act' = [act EXCEPT ![w] = Idle] /\ act' \in [Thread -> Activity]
           /\ online' \in [Player -> 0 .. MaxObjects]
           /\ act'[1].do = "load" => act'[1] = act[1]
<1>1. act' = [act EXCEPT ![w] = Idle] /\ act' \in [Thread -> Activity]
    BY ActivityTypes DEF TypeOK, Finish
<1>2. locked' \subseteq Object /\ pending' \in [Thread -> SUBSET Player]
    BY DEF TypeOK, Finish
<1>3. online' \in [Player -> 0 .. MaxObjects]
    <2>1. online' = online \/ online' = [online EXCEPT ![Guid(act[w].obj)] = 0]
        BY DEF Finish
    <2> QED
        BY <2>1, SaveManagerAssumption DEF TypeOK
<1>4. act'[1].do = "load" => act'[1] = act[1]
    BY <1>1 DEF TypeOK, Idle
<1> QED
    BY <1>1, <1>2, <1>3, <1>4

\* A statement puts one part of an object into the player's row.
LEMMA WrittenType ==
    ASSUME TypeOK, NEW o \in Object, NEW part \in Part
    PROVE  [row EXCEPT ![Guid(o)] = [@ EXCEPT ![part] = mem[o][part]]] \in [Player -> Contents]
<1>1. mem[o] \in Contents /\ row[Guid(o)] \in Contents
    BY ObjectParts DEF TypeOK
<1>2. [row[Guid(o)] EXCEPT ![part] = mem[o][part]] \in Contents
    BY <1>1 DEF Contents
<1> QED
    BY <1>2 DEF TypeOK

LEMMA WriteFirstType ==
    ASSUME TypeInv, NEW w \in Thread, WriteFirst(w)
    PROVE  TypeInv'
<1>1. act[w] \in Activity
    BY DEF TypeInv, TypeOK
<1>2. act[w].obj \in Object /\ act[w].after \in 0 .. NThreads + 1 /\ Guid(act[w].obj) \in Player
    BY <1>1, ActivityParts, ObjectParts DEF WriteFirst, SaveSteps
<1>3. Saving("clear", act[w].obj, act[w].after) \in Activity
    BY <1>2, ActivityTypes DEF SaveSteps
<1>4. act' = [act EXCEPT ![w] = Saving("clear", act[w].obj, act[w].after)]
    BY DEF WriteFirst
<1>5. act' \in [Thread -> Activity] /\ (act'[1].do = "load" => act'[1] = act[1])
    BY <1>3, <1>4 DEF TypeInv, TypeOK, Saving
<1>6. row' \in [Player -> Contents]
    BY <1>2 DEF TypeInv, TypeOK, WriteFirst, Contents, Part
<1>7. TypeOK'
    BY <1>5, <1>6 DEF TypeInv, TypeOK, WriteFirst, objects, stamps, history
<1> QED
    BY <1>5, <1>7 DEF TypeInv, WriteFirst, history

\* The DELETE of the items and every INSERT but the last: what the row holds of
\* them afterwards, it held before or the object holds.
LEMMA ItemsStep ==
    ASSUME TypeOK, NEW w \in Thread, ClearItems(w) \/ InsertBatch(w),
           NEW o, NEW p, o = act[w].obj, p = Guid(o)
    PROVE  /\ IsSaving(w) /\ act[w].do \in {"clear", "insert"}
           /\ o \in Object /\ p \in Player /\ act[w].after \in 0 .. NThreads + 1
           /\ act' = [act EXCEPT ![w] = Saving("insert", o, act[w].after)]
           /\ row' \in [Player -> Contents]
           /\ \A x \in Player : x # p => row'[x] = row[x]
           /\ row'[p]["first"] = row[p]["first"]
           /\ row'[p]["items"] \subseteq row[p]["items"] \cup mem[o]["items"]
           /\ UNCHANGED <<gameState, objects, stamps, queue, locked, pending, history>>
<1>1. IsSaving(w) /\ act[w].do \in {"clear", "insert"}
    BY DEF ClearItems, InsertBatch, IsSaving, SaveSteps
<1>2. act[w] \in Activity /\ act \in [Thread -> Activity]
    BY DEF TypeOK
<1>3. o \in Object /\ p \in Player /\ act[w].after \in 0 .. NThreads + 1
    BY <1>1, <1>2, ActivityParts, ObjectParts DEF IsSaving
<1>4. act' = [act EXCEPT ![w] = Saving("insert", o, act[w].after)]
    <2>1. CASE ClearItems(w)
        BY <2>1 DEF ClearItems
    <2>2. CASE InsertBatch(w)
        <3>1. act' = act /\ act[w].do = "insert"
            BY <2>2 DEF InsertBatch, pool
        <3>2. act[w] = Saving("insert", o, act[w].after)
            BY <1>2, <3>1 DEF Activity, Idle, Saving
        <3> QED
            BY <1>2, <3>1, <3>2
    <2> QED
        BY <2>1, <2>2
<1>5. mem[o] \in Contents /\ row[p] \in Contents /\ row \in [Player -> Contents]
    BY <1>3 DEF TypeOK
<1>6. PICK S \in SUBSET (row[p]["items"] \cup mem[o]["items"]) :
          row' = [row EXCEPT ![p] = [row[p] EXCEPT !["items"] = S]]
    BY DEF ClearItems, InsertBatch, SetItems
<1>7. [row[p] EXCEPT !["items"] = S] \in Contents
    BY <1>5, <1>6 DEF Contents, Part
<1>8. /\ row' \in [Player -> Contents]
      /\ \A x \in Player : x # p => row'[x] = row[x]
      /\ row'[p] = [row[p] EXCEPT !["items"] = S]
    BY <1>3, <1>5, <1>6, <1>7
<1>9. row'[p]["first"] = row[p]["first"] /\ row'[p]["items"] = S
    BY <1>5, <1>8 DEF Contents, Part
<1>10. UNCHANGED <<gameState, objects, stamps, queue, locked, pending, history>>
    BY DEF ClearItems, InsertBatch, pool
<1> QED
    BY <1>1, <1>3, <1>4, <1>6, <1>8, <1>9, <1>10

LEMMA ItemsStepType ==
    ASSUME TypeInv, NEW w \in Thread, ClearItems(w) \/ InsertBatch(w)
    PROVE  TypeInv'
<1>1. /\ act[w].obj \in Object /\ act[w].after \in 0 .. NThreads + 1
      /\ act' = [act EXCEPT ![w] = Saving("insert", act[w].obj, act[w].after)]
      /\ row' \in [Player -> Contents]
      /\ UNCHANGED <<gameState, objects, stamps, queue, locked, pending, history>>
    BY ItemsStep DEF TypeInv
<1>2. Saving("insert", act[w].obj, act[w].after) \in Activity
    BY <1>1, ActivityTypes DEF SaveSteps
<1>3. act' \in [Thread -> Activity] /\ (act'[1].do = "load" => act'[1] = act[1])
    BY <1>1, <1>2 DEF TypeInv, TypeOK, Saving
<1>4. TypeOK'
    BY <1>1, <1>3 DEF TypeInv, TypeOK, objects, stamps, history
<1> QED
    BY <1>1, <1>3, <1>4 DEF TypeInv, history

LEMMA InsertItemsType ==
    ASSUME TypeInv, NEW w \in Thread, InsertItems(w) \/ WriteFails(w)
    PROVE  TypeInv'
<1>1. IsSaving(w) /\ Finish(w) /\ act[w] \in Activity
    BY DEF TypeInv, TypeOK, InsertItems, WriteFails, IsSaving, SaveSteps
<1>2. act[w].obj \in Object /\ Guid(act[w].obj) \in Player
    BY <1>1, ActivityParts, ObjectParts DEF IsSaving
<1>3. row' \in [Player -> Contents]
    <2>1. row' = row \/ row' = [row EXCEPT ![Guid(act[w].obj)] =
                                    [@ EXCEPT !["items"] = mem[act[w].obj]["items"]]]
        BY DEF InsertItems, SetItems, WriteFails
    <2>2. row \in [Player -> Contents]
        BY DEF TypeInv, TypeOK
    <2> QED
        BY <1>2, <2>1, <2>2, WrittenType DEF TypeInv, Part
<1>4. failed' \subseteq Player
    BY <1>2 DEF TypeInv, TypeOK, InsertItems, WriteFails, history
<1>5. TypeOK'
    BY <1>1, <1>3, <1>4, FinishType DEF TypeInv, TypeOK, InsertItems, WriteFails, stamps, history
<1> QED
    BY <1>1, <1>5, FinishType DEF TypeInv, InsertItems, WriteFails, history

LEMMA CrashType ==
    ASSUME TypeInv, Crash
    PROVE  TypeInv'
<1> USE DEF Crash
<1>1. act' \in [Thread -> Activity] /\ act'[1].do = "idle"
    BY ActivityTypes, SaveManagerAssumption DEF Thread, Idle
<1>2. /\ online' \in [Player -> 0 .. MaxObjects] /\ stamp' \in [Player -> 0 .. MaxStamps]
      /\ allStamp' \in 0 .. MaxStamps
    BY SaveManagerAssumption
<1>3. /\ dead' \subseteq Object /\ failed' \subseteq Player /\ queue' \in Seq(Job)
      /\ locked' \subseteq Object /\ pending' \in [Thread -> SUBSET Player]
      /\ asked' \in [Player -> SUBSET (1 .. MaxChanges)] /\ gameState' = "normal"
    BY DEF TypeInv, TypeOK
<1>4. TypeOK'
    BY <1>1, <1>2, <1>3 DEF TypeInv, TypeOK
<1> QED
    BY <1>1, <1>4 DEF TypeInv

LEMMA NextType ==
    ASSUME TypeInv, [Next]_vars
    PROVE  TypeInv'
<1>1. CASE UNCHANGED vars
    BY <1>1 DEF TypeInv, TypeOK, vars, objects, stamps, pool, history
<1>2. CASE \E p \in Player : Change(p) \/ SavePlayer(p) \/ Logout(p)
    BY <1>2, ChangeType, SavePlayerType, LogoutType
<1>3. CASE \E p \in Player, purpose \in {"login", "offline"} : Load(p, purpose)
    BY <1>3, LoadType
<1>4. CASE (\E o \in Object : Destroy(o)) \/ ScheduleAll \/ Shutdown
    BY <1>4, DestroyType, SubmitTypes
<1>5. CASE DispatcherStep
    BY <1>5, LoadFirstType, LoadItemsType, SubmitTypes, LogoutType DEF DispatcherStep
<1>6. CASE \E w \in Thread : ThreadStep(w)
    BY <1>6, TakeJobType, LockType, WriteFirstType, ItemsStepType, InsertItemsType, EndSubmitType,
       SubmitType
    DEF ThreadStep
<1>7. CASE Crash
    BY <1>7, CrashType
<1> QED
    BY <1>1, <1>2, <1>3, <1>4, <1>5, <1>6, <1>7 DEF Next

\* The types of SaveManager's state: the threads' activities, the jobs, the
\* objects and the rows.
THEOREM SavingTypeCorrect == Spec => []TypeOK
<1>1. TypeInv => TypeOK
    BY DEF TypeInv
<1> QED
    BY InitType, NextType, <1>1, PTL DEF Spec

-----------------------------------------------------------------------------
(* Without toggleSaveAsync. While the dispatcher's thread is not in saveAll *)
(* the pool is idle; the jobs of a saveAll save each player online once.    *)

Saves(w, p) == IsSaving(w) /\ Guid(act[w].obj) = p

\* The object of a job of the saveAll the dispatcher's thread is in.
MemberOf(o) ==
    /\ o = Current(Guid(o)) /\ online[Guid(o)] # 0
    /\ Guid(o) \in pending[1]

SyncThreads ==
    /\ \A w \in Thread \ {1} :
           act[w] = Idle \/ (IsSaving(w) /\ act[w].after = 1 /\ MemberOf(act[w].obj))
    /\ IsSaving(1) =>
           /\ act[1].after \in {Nothing, RemovePlayer}
           /\ online[Guid(act[1].obj)] # 0 => act[1].obj = Current(Guid(act[1].obj))
           /\ act[1].after = RemovePlayer => online[Guid(act[1].obj)] # 0
    /\ act[1].do = "load" => online[Guid(act[1].obj)] = 0
    /\ pending[1] # {} => act[1].do \in {"submit", "wait"}
    /\ act[1].do = "submit" => pending[1] \subseteq act[1].done

SyncQueue ==
    \A i \in DOMAIN queue :
        queue[i].kind = "member" /\ queue[i].owner = 1 /\ MemberOf(queue[i].obj)

SavedOnce ==
    \A p \in Player :
        /\ \A w, v \in Thread : Saves(w, p) /\ Saves(v, p) => w = v
        /\ \A w \in Thread : \A i \in DOMAIN queue : Saves(w, p) => Guid(queue[i].obj) # p
        /\ \A i, j \in DOMAIN queue : Guid(queue[i].obj) = p /\ Guid(queue[j].obj) = p => i = j

SyncShape == SyncThreads /\ SyncQueue /\ SavedOnce

\* While the dispatcher is not in saveAll nothing else is going on.
LEMMA PoolIsFree ==
    ASSUME TypeInv, SyncShape, act[1].do \notin {"submit", "wait"}
    PROVE  /\ \A w \in Thread \ {1} : act[w] = Idle
           /\ queue = <<>> /\ pending[1] = {}
<1>1. pending[1] = {}
    BY DEF SyncShape, SyncThreads
<1>2. \A w \in Thread \ {1} : act[w] = Idle
    BY <1>1 DEF SyncShape, SyncThreads, MemberOf
<1>3. DOMAIN queue = {}
    BY <1>1 DEF SyncShape, SyncQueue, MemberOf
<1>4. queue \in Seq(Job)
    BY DEF TypeInv, TypeOK
<1>5. queue = <<>>
    BY <1>3, <1>4
<1> QED
    BY <1>1, <1>2, <1>5

LEMMA FreeShape ==
    ASSUME \A w \in Thread \ {1} : act'[w] = Idle, queue' = <<>>, pending'[1] = {},
           IsSaving(1)' =>
               /\ act'[1].after \in {Nothing, RemovePlayer}
               /\ online'[Guid(act'[1].obj)] # 0 => act'[1].obj = Current(Guid(act[1].obj))'
               /\ act'[1].after = RemovePlayer => online'[Guid(act'[1].obj)] # 0,
           act'[1].do = "load" => online'[Guid(act'[1].obj)] = 0
    PROVE  SyncShape'
<1>1. SyncThreads' /\ SyncQueue'
    BY DEF SyncThreads, SyncQueue, RemovePlayer
<1>2. \A w \in Thread \ {1} : ~IsSaving(w)'
    BY DEF IsSaving, Idle, SaveSteps
<1>3. SavedOnce'
    BY <1>2 DEF SavedOnce, Saves
<1> QED
    BY <1>1, <1>3 DEF SyncShape

LEMMA InitShape ==
    ASSUME Init
    PROVE  SyncShape
<1>1. \A w \in Thread : act[w] = Idle /\ pending[w] = {}
    BY DEF Init
<1>2. 1 \in Thread /\ act[1].do # "load" /\ act[1].do # "submit"
    BY <1>1, SaveManagerAssumption DEF Thread, Idle
<1>3. \A w \in Thread : ~IsSaving(w)
    BY <1>1 DEF Idle, IsSaving, SaveSteps
<1>4. queue = <<>>
    BY DEF Init
<1> QED
    BY <1>1, <1>2, <1>3, <1>4 DEF SyncShape, SyncThreads, SyncQueue, SavedOnce, Saves

\* The dispatcher goes on with something other than saveAll.
LEMMA DispatcherShape ==
    ASSUME TypeInv, SyncShape, act[1].do \notin {"submit", "wait"},
           \A w \in Thread \ {1} : act'[w] = act[w],
           UNCHANGED <<queue, pending>>,
           IsSaving(1)' =>
               /\ act'[1].after \in {Nothing, RemovePlayer}
               /\ online'[Guid(act'[1].obj)] # 0 => act'[1].obj = Current(Guid(act[1].obj))'
               /\ act'[1].after = RemovePlayer => online'[Guid(act'[1].obj)] # 0,
           act'[1].do = "load" => online'[Guid(act'[1].obj)] = 0
    PROVE  SyncShape'
<1>1. (\A w \in Thread \ {1} : act[w] = Idle) /\ queue = <<>> /\ pending[1] = {}
    BY PoolIsFree
<1>2. (\A w \in Thread \ {1} : act'[w] = Idle) /\ queue' = <<>> /\ pending'[1] = {}
    BY <1>1
<1> QED
    BY <1>2, FreeShape

LEMMA GameShape ==
    ASSUME TypeInv, SyncShape, ~Async,
           \/ \E p \in Player : Change(p) \/ SavePlayer(p) \/ Logout(p)
           \/ \E p \in Player, purpose \in {"login", "offline"} : Load(p, purpose)
           \/ LoadFirst \/ LoadItems \/ ScheduleAll \/ ShutdownSaveAll \/ Shutdown
           \/ \E o \in Object : Destroy(o)
    PROVE  SyncShape'
<1>0. 1 \in Thread /\ act[1] \in Activity /\ TypeOK
    BY DispatcherActs DEF TypeInv
<1>1. ASSUME NEW p \in Player, Change(p)
      PROVE  SyncShape'
    BY <1>1, DispatcherShape DEF Change, Running, pool, Idle, IsSaving, SaveSteps
<1>2. ASSUME NEW p \in Player, SavePlayer(p) \/ Logout(p)
      PROVE  SyncShape'
    <2>1. PICK after \in {Nothing, RemovePlayer} : SaveHere(Current(p), after)
        BY <1>2 DEF SavePlayer, Logout
    <2>2. online[p] # 0 /\ act[1] = Idle /\ online' = online
        BY <1>2 DEF SavePlayer, Logout, Running, objects
    <2>3. Current(p) \in Object /\ Guid(Current(p)) = p /\ Current(p)' = Current(p)
        BY <1>0, <2>2, CurrentIsObject DEF Current
    <2>4. after \in 0 .. NThreads + 1
        BY SaveManagerAssumption DEF Nothing, RemovePlayer
    <2>5. /\ act'[1] = Saving("lock", Current(p), after)
          /\ \A w \in Thread : w # 1 => act'[w] = act[w]
          /\ UNCHANGED <<queue, pending>>
        BY <1>0, <2>1, <2>3, <2>4, SaveHereType DEF stamps
    <2>6. act'[1].obj = Current(p) /\ act'[1].after = after /\ act'[1].do = "lock"
        BY <2>5 DEF Saving
    <2> QED
        BY <2>2, <2>3, <2>5, <2>6, DispatcherShape DEF Idle
<1>3. ASSUME NEW p \in Player, NEW purpose \in {"login", "offline"}, Load(p, purpose)
      PROVE  SyncShape'
    <2>1. act'[1] = [do |-> "load", obj |-> <<p, made[p] + 1>>, part |-> "first", for |-> purpose]
        BY <1>0, <1>3 DEF Load, TypeOK
    <2>2. \A w \in Thread \ {1} : act'[w] = act[w]
        BY <1>0, <1>3 DEF Load, TypeOK
    <2>3. ~IsSaving(1)' /\ act'[1].do = "load" /\ Guid(act'[1].obj) = p
        BY <2>1 DEF IsSaving, SaveSteps, Guid
    <2>4. online'[p] = 0 /\ act[1] = Idle /\ UNCHANGED <<queue, pending>>
        BY <1>3 DEF Load, Running
    <2> QED
        BY <2>2, <2>3, <2>4, DispatcherShape DEF Idle
<1>4. ASSUME LoadFirst
      PROVE  SyncShape'
    <2>1. act' = [act EXCEPT ![1] = [act[1] EXCEPT !.part = "items"]]
        BY <1>4 DEF LoadFirst
    <2>2. act[1] \in [do : {"load"}, obj : Object, part : Part, for : {"login", "offline"}]
        BY <1>0, <1>4 DEF LoadFirst, Activity, Idle, SaveSteps
    <2>3. act'[1].do = "load" /\ act'[1].obj = act[1].obj
        BY <1>0, <2>1, <2>2 DEF TypeOK
    <2>4. \A w \in Thread \ {1} : act'[w] = act[w]
        BY <1>0, <2>1 DEF TypeOK
    <2>5. online'[Guid(act'[1].obj)] = 0
        BY <1>4, <2>3 DEF LoadFirst, SyncShape, SyncThreads
    <2> QED
        BY <1>4, <2>3, <2>4, <2>5, DispatcherShape DEF LoadFirst, IsSaving, SaveSteps
<1>5. ASSUME LoadItems
      PROVE  SyncShape'
    <2> DEFINE o == act[1].obj
    <2>1. act[1].do = "load" /\ online[Guid(o)] = 0
        BY <1>5 DEF LoadItems, SyncShape, SyncThreads
    <2>2. CASE act[1].for = "login"
        <3>1. act' = [act EXCEPT ![1] = Idle]
            BY <1>5, <2>2 DEF LoadItems
        <3>2. act'[1] = Idle /\ \A w \in Thread \ {1} : act'[w] = act[w]
            BY <1>0, <3>1 DEF TypeOK
        <3> QED
            BY <1>5, <2>1, <3>2, DispatcherShape DEF LoadItems, Idle, IsSaving, SaveSteps
    <2>3. CASE act[1].for = "offline"
        <3>1. act' = [act EXCEPT ![1] = Saving("lock", o, Nothing)] /\ online' = online
            BY <1>5, <2>3 DEF LoadItems
        <3>2. act'[1] = Saving("lock", o, Nothing) /\ \A w \in Thread \ {1} : act'[w] = act[w]
            BY <1>0, <3>1 DEF TypeOK
        <3>3. act'[1].do = "lock" /\ act'[1].obj = o /\ act'[1].after = Nothing
            BY <3>2 DEF Saving
        <3>4. Nothing # RemovePlayer
            BY SaveManagerAssumption DEF Nothing, RemovePlayer
        <3> QED
            BY <1>5, <2>1, <3>1, <3>2, <3>3, <3>4, DispatcherShape DEF LoadItems
    <2> QED
        BY <1>0, <2>1, <2>2, <2>3, ActivityParts
<1>6. ASSUME ScheduleAll \/ ShutdownSaveAll
      PROVE  SyncShape'
    <2>1. act' = [act EXCEPT ![1] = [do |-> "submit", done |-> {}]] /\ UNCHANGED <<queue, pending>>
        BY <1>6 DEF ScheduleAll, ShutdownSaveAll
    <2>2. act'[1].do = "submit" /\ \A w \in Thread \ {1} : act'[w] = act[w]
        BY <1>0, <2>1 DEF TypeOK
    <2>3. act[1] = Idle
        BY <1>6 DEF ScheduleAll, ShutdownSaveAll, Running
    <2> QED
        BY <2>1, <2>2, <2>3, DispatcherShape DEF Idle, IsSaving, SaveSteps
<1>7. ASSUME Shutdown \/ \E o \in Object : Destroy(o)
      PROVE  SyncShape'
    <2>1. UNCHANGED <<act, queue, pending, online>>
        BY <1>7 DEF Shutdown, Destroy, pool, objects
    <2> QED
        BY <2>1 DEF SyncShape, SyncThreads, SyncQueue, SavedOnce, Saves, IsSaving, MemberOf, Current
<1> QED
    BY <1>1, <1>2, <1>3, <1>4, <1>5, <1>6, <1>7

\* A saving thread goes on to its next step.
LEMMA NextStepShape ==
    ASSUME TypeInv, SyncShape, NEW w \in Thread,
           Lock(w) \/ WriteFirst(w) \/ ClearItems(w) \/ InsertBatch(w)
    PROVE  /\ SyncShape'
           /\ \A v \in Thread : \A p \in Player : Saves(v, p)' <=> Saves(v, p)
           /\ \A v \in Thread : IsSaving(v) => act'[v].obj = act[v].obj
           /\ \A v \in Thread : v # w => act'[v] = act[v]
           /\ IsSaving(w) /\ UNCHANGED <<online, queue, pending>>
<1>1. PICK step \in SaveSteps : act' = [act EXCEPT ![w] = Saving(step, act[w].obj, act[w].after)]
    BY ItemsStep DEF Lock, WriteFirst, SaveSteps, TypeInv
<1>2. IsSaving(w) /\ UNCHANGED <<online, queue, pending>>
    BY ItemsStep DEF Lock, WriteFirst, IsSaving, SaveSteps, objects, TypeInv
<1>3. /\ act'[w] = Saving(step, act[w].obj, act[w].after)
      /\ \A v \in Thread : v # w => act'[v] = act[v]
    BY <1>1 DEF TypeInv, TypeOK
<1>4. act'[w].do = step /\ act'[w].obj = act[w].obj /\ act'[w].after = act[w].after
    BY <1>3 DEF Saving
<1>5. \A v \in Thread :
          /\ IsSaving(v)' <=> IsSaving(v)
          /\ IsSaving(v) => act'[v].obj = act[v].obj /\ act'[v].after = act[v].after
          /\ ~IsSaving(v) => act'[v] = act[v]
    BY <1>2, <1>3, <1>4 DEF IsSaving
<1>6. \A v \in Thread : \A p \in Player : Saves(v, p)' <=> Saves(v, p)
    BY <1>5 DEF Saves
<1>7. \A o : MemberOf(o)' <=> MemberOf(o)
    BY <1>2 DEF MemberOf, Current
<1>8. \A v \in Thread : Idle # act[v] /\ IsSaving(v) => ~(act[v].do \in {"load", "submit", "wait"})
    BY DEF IsSaving, SaveSteps
<1>9. 1 \in Thread
    BY DispatcherActs DEF TypeInv
<1>10. act'[1] = act[1] \/ (IsSaving(1) /\ IsSaving(1)')
    BY <1>5, <1>9
<1>11. SyncThreads'
    <2>1. \A v \in Thread \ {1} :
              act'[v] = Idle \/ (IsSaving(v)' /\ act'[v].after = 1 /\ MemberOf(act[v].obj)')
        <3> SUFFICES ASSUME NEW v \in Thread \ {1}, act'[v] # Idle
                     PROVE  IsSaving(v)' /\ act'[v].after = 1 /\ MemberOf(act[v].obj)'
            OBVIOUS
        <3>1. IsSaving(v) /\ act[v].after = 1 /\ MemberOf(act[v].obj)
            BY <1>2, <1>3 DEF SyncShape, SyncThreads, IsSaving, Idle, SaveSteps
        <3>2. act'[v].obj = act[v].obj
            BY <1>5, <3>1
        <3> QED
            BY <1>5, <1>7, <3>1, <3>2
    <2>2. IsSaving(1)' =>
           /\ act'[1].after \in {Nothing, RemovePlayer}
           /\ online'[Guid(act'[1].obj)] # 0 => act'[1].obj = Current(Guid(act[1].obj))'
           /\ act'[1].after = RemovePlayer => online'[Guid(act'[1].obj)] # 0
        BY <1>2, <1>5, <1>9 DEF SyncShape, SyncThreads, Current
    <2>3. /\ act'[1].do = "load" => online'[Guid(act'[1].obj)] = 0
          /\ act'[1].do = "submit" => pending'[1] \subseteq act'[1].done
        BY <1>2, <1>10 DEF SyncShape, SyncThreads, IsSaving, SaveSteps
    <2>4. pending'[1] # {} => act'[1].do \in {"submit", "wait"}
        BY <1>2, <1>10 DEF SyncShape, SyncThreads, IsSaving, SaveSteps
    <2> QED
        BY <2>1, <2>2, <2>3, <2>4 DEF SyncThreads, RemovePlayer, Nothing
<1>12. SyncQueue'
    BY <1>2, <1>7 DEF SyncShape, SyncQueue
<1>13. SavedOnce'
    BY <1>2, <1>6 DEF SyncShape, SavedOnce
<1> QED
    BY <1>2, <1>3, <1>5, <1>6, <1>11, <1>12, <1>13 DEF SyncShape

\* A job of the dispatcher's saveAll begins.
LEMMA TakeJobShape ==
    ASSUME TypeInv, SyncShape, NEW w \in Thread, TakeJob(w)
    PROVE  /\ SyncShape'
           /\ MemberOf(Head(queue).obj)
           /\ act'[w] = Saving("lock", Head(queue).obj, 1)
           /\ act[w] = Idle
           /\ \A v \in Thread : v # w => act'[v] = act[v]
<1> DEFINE j == Head(queue)
           o == j.obj
           p == Guid(o)
<1>1. queue \in Seq(Job) /\ queue # <<>> /\ queue' = Tail(queue) /\ w # 1 /\ act[w] = Idle
    BY DEF TypeInv, TypeOK, TakeJob
<1>2. j = queue[1] /\ 1 \in DOMAIN queue /\ j \in Job
    BY <1>1
<1>3. j.kind = "member" /\ j.owner = 1 /\ MemberOf(o)
    BY <1>2 DEF SyncShape, SyncQueue
<1>4. o \in Object /\ p \in Player
    BY <1>2, <1>3, JobParts, ObjectParts
<1>5. act' = [act EXCEPT ![w] = Saving("lock", o, 1)]
    BY <1>3 DEF TakeJob, Skipped, Started
<1>6. act'[w] = Saving("lock", o, 1) /\ \A v \in Thread : v # w => act'[v] = act[v]
    BY <1>5 DEF TypeInv, TypeOK
<1>7. act'[w].do = "lock" /\ act'[w].obj = o /\ act'[w].after = 1
    BY <1>6 DEF Saving
<1>8. UNCHANGED <<online, pending>>
    BY DEF TakeJob, objects
<1>9. \A x : MemberOf(x)' <=> MemberOf(x)
    BY <1>8 DEF MemberOf, Current
<1>10. 1 \in Thread /\ act'[1] = act[1]
    BY <1>1, <1>6, DispatcherActs DEF TypeInv
<1>11. SyncThreads'
    <2>1. \A v \in Thread \ {1} :
              act'[v] = Idle \/ (IsSaving(v)' /\ act'[v].after = 1 /\ MemberOf(act[v].obj)')
        <3> SUFFICES ASSUME NEW v \in Thread \ {1}, act'[v] # Idle
                     PROVE  IsSaving(v)' /\ act'[v].after = 1 /\ MemberOf(act[v].obj)'
            OBVIOUS
        <3>1. CASE v = w
            <4>1. MemberOf(act[v].obj)' <=> MemberOf(act'[v].obj)
                BY <1>8 DEF MemberOf, Current
            <4> QED
                BY <1>3, <1>7, <3>1, <4>1 DEF IsSaving, SaveSteps
        <3>2. CASE v # w
            <4>1. act'[v] = act[v]
                BY <1>6, <3>2
            <4>2. MemberOf(act[v].obj)' <=> MemberOf(act[v].obj)
                BY <4>1, <1>8 DEF MemberOf, Current
            <4> QED
                BY <4>1, <4>2 DEF SyncShape, SyncThreads, IsSaving
        <3> QED
            BY <3>1, <3>2
    <2> QED
        BY <2>1, <1>8, <1>10 DEF SyncShape, SyncThreads, IsSaving, Current, RemovePlayer
<1>12. /\ \A i \in DOMAIN queue' : i + 1 \in DOMAIN queue /\ i + 1 # 1 /\ queue'[i] = queue[i + 1]
       /\ \A i, k \in DOMAIN queue' : i + 1 = k + 1 => i = k
    BY <1>1
<1>13. SyncQueue'
    BY <1>9, <1>12 DEF SyncShape, SyncQueue
<1>14. SavedOnce'
    <2>1. \A v \in Thread, x \in Player : Saves(v, x)' <=> IF v = w THEN x = p ELSE Saves(v, x)
        BY <1>6, <1>7 DEF Saves, IsSaving, SaveSteps
    <2>2. \A v \in Thread : v # w => ~Saves(v, p)
        BY <1>2, <1>4 DEF SyncShape, SavedOnce
    <2>3. \A x \in Player : \A v, u \in Thread : Saves(v, x)' /\ Saves(u, x)' => v = u
        BY <1>4, <2>1, <2>2 DEF SyncShape, SavedOnce
    <2>4. \A i \in DOMAIN queue' : Guid(queue'[i].obj) # p
        BY <1>2, <1>4, <1>12 DEF SyncShape, SavedOnce
    <2>5. \A x \in Player : \A v \in Thread : \A i \in DOMAIN queue' :
              Saves(v, x)' => Guid(queue'[i].obj) # x
        BY <1>12, <2>1, <2>4 DEF SyncShape, SavedOnce
    <2>6. \A x \in Player : \A i, k \in DOMAIN queue' :
              Guid(queue'[i].obj) = x /\ Guid(queue'[k].obj) = x => i = k
        BY <1>12 DEF SyncShape, SavedOnce
    <2> QED
        BY <2>3, <2>5, <2>6 DEF SavedOnce
<1> QED
    BY <1>1, <1>3, <1>6, <1>11, <1>13, <1>14 DEF SyncShape
\* A save ends: the dispatcher's own, or a job of its saveAll.
LEMMA FinishShape ==
    ASSUME TypeInv, SyncShape, NEW w \in Thread, IsSaving(w), Finish(w), UNCHANGED queue
    PROVE  /\ SyncShape'
           /\ \A v \in Thread : \A x \in Player : Saves(v, x)' <=> (v # w /\ Saves(v, x))
           /\ act'[w] = Idle /\ \A v \in Thread : v # w => act'[v] = act[v]
           /\ \A x \in Player : online'[x] # online[x] => Guid(act[w].obj) = x /\ online'[x] = 0
           /\ w # 1 => online' = online
<1> DEFINE o == act[w].obj
           p == Guid(o)
<1>1. act'[w] = Idle /\ \A v \in Thread : v # w => act'[v] = act[v]
    BY DEF TypeInv, TypeOK, Finish
<1>2. \A v \in Thread : \A x \in Player : Saves(v, x)' <=> (v # w /\ Saves(v, x))
    BY <1>1 DEF Saves, IsSaving, SaveSteps, Idle
<1>3. p \in Player /\ o \in Object /\ act[w].after \in 0 .. NThreads + 1 /\ Saves(w, p)
    <2>1. act[w] \in Activity /\ act[w].do \in SaveSteps
        BY DEF TypeInv, TypeOK, IsSaving
    <2> QED
        BY <2>1, ActivityParts, ObjectParts DEF Saves
<1>4. 1 \in Thread
    BY DispatcherActs DEF TypeInv
<1>5. SavedOnce'
    BY <1>2 DEF SyncShape, SavedOnce
<1>6. CASE w = 1
    <2>1. act[1].after \in {Nothing, RemovePlayer} /\ act[1].after \notin Thread
        BY <1>6, SaveManagerAssumption DEF SyncShape, SyncThreads, Nothing, RemovePlayer, Thread
    <2>2. pending' = pending
        BY <1>6, <2>1 DEF Finish
    <2>3. (\A v \in Thread \ {1} : act[v] = Idle) /\ queue = <<>> /\ pending[1] = {}
        BY <1>6, PoolIsFree DEF IsSaving, SaveSteps
    <2>4. SyncShape'
        BY <1>1, <1>6, <2>2, <2>3, FreeShape DEF IsSaving, SaveSteps, Idle
    <2>5. \A x \in Player : online'[x] # online[x] => Guid(act[w].obj) = x /\ online'[x] = 0
        BY <1>3 DEF Finish, TypeInv, TypeOK
    <2> QED
        BY <1>1, <1>2, <1>6, <2>4, <2>5
<1>7. CASE w # 1
    <2>1. act[w].after = 1 /\ MemberOf(o)
        BY <1>7 DEF SyncShape, SyncThreads, IsSaving, SaveSteps, Idle
    <2>2. RemovePlayer # 1
        BY SaveManagerAssumption DEF RemovePlayer
    <2>3. online' = online
        BY <2>1, <2>2 DEF Finish
    <2>4. pending'[1] = pending[1] \ {p} /\ act'[1] = act[1]
        BY <1>1, <1>4, <1>7, <2>1 DEF Finish, TypeInv, TypeOK
    <2>5. \A x : MemberOf(x) /\ Guid(x) # p => MemberOf(x)'
        BY <2>3, <2>4 DEF MemberOf, Current
    <2>6. \A i \in DOMAIN queue : Guid(queue[i].obj) # p
        BY <1>3 DEF SyncShape, SavedOnce
    <2>7. SyncQueue'
        BY <2>5, <2>6 DEF SyncShape, SyncQueue
    <2>8. \A v \in Thread \ {1} :
              act'[v] = Idle \/ (IsSaving(v)' /\ act'[v].after = 1 /\ MemberOf(act[v].obj)')
        <3> SUFFICES ASSUME NEW v \in Thread \ {1}, act'[v] # Idle
                     PROVE  IsSaving(v)' /\ act'[v].after = 1 /\ MemberOf(act[v].obj)'
            OBVIOUS
        <3>1. act'[v] = act[v] /\ v # w
            BY <1>1
        <3>2. IsSaving(v) /\ act[v].after = 1 /\ MemberOf(act[v].obj)
            BY <3>1 DEF SyncShape, SyncThreads
        <3>3. Guid(act[v].obj) # p
            BY <1>3, <3>1, <3>2 DEF SyncShape, SavedOnce, Saves
        <3>4. MemberOf(act[v].obj)' <=> MemberOf(act[v].obj)
            <4>1. online'[Guid(act'[v].obj)] = online[Guid(act[v].obj)] /\ Guid(act'[v].obj) = Guid(act[v].obj)
                BY <2>3, <3>1
            <4> QED
                BY <2>4, <3>1, <3>3, <4>1 DEF MemberOf, Current
        <3> QED
            BY <3>1, <3>2, <3>4 DEF IsSaving
    <2>9. SyncThreads'
        BY <2>3, <2>4, <2>8 DEF SyncShape, SyncThreads, IsSaving, Current, RemovePlayer
    <2> QED
        BY <1>1, <1>2, <1>5, <1>7, <2>3, <2>7, <2>9 DEF SyncShape
<1> QED
    BY <1>6, <1>7

\* One more player of the dispatcher's saveAll.
LEMMA SubmitShape ==
    ASSUME TypeInv, SyncShape, NEW w \in Thread, NEW p \in Player, Submit(w, p)
    PROVE  /\ SyncShape'
           /\ w = 1 /\ act'[1].do = "submit"
           /\ \A v \in Thread : v # 1 => act'[v] = act[v]
<1> DEFINE j == [kind |-> "member", obj |-> Current(p), owner |-> w]
<1>1. w = 1
    BY DEF SyncShape, SyncThreads, Submit, IsSaving, Idle, SaveSteps
<1>2. act' = [act EXCEPT ![1] = [do |-> "submit", done |-> act[1].done \cup {p}]]
    BY <1>1 DEF Submit
<1>3. /\ act'[1] = [do |-> "submit", done |-> act[1].done \cup {p}]
      /\ \A v \in Thread : v # 1 => act'[v] = act[v]
    BY <1>2, DispatcherActs DEF TypeInv, TypeOK
<1>4. act'[1].do = "submit" /\ act'[1].done = act[1].done \cup {p}
    BY <1>3
<1>5. Current(p) \in Object /\ Guid(Current(p)) = p /\ online[p] # 0
    BY CurrentIsObject DEF TypeInv, Submit
<1>6. pending'[1] = pending[1] \cup {p} /\ online' = online /\ p \notin pending[1]
    BY <1>1, DispatcherActs DEF TypeInv, TypeOK, Submit, objects, SyncShape, SyncThreads
<1>7. \A x : MemberOf(x) => MemberOf(x)'
    BY <1>6 DEF MemberOf, Current
<1>8. MemberOf(Current(p))'
    BY <1>5, <1>6 DEF MemberOf, Current
<1>9. queue \in Seq(Job) /\ queue' = Append(queue, j)
    BY DEF TypeInv, TypeOK, Submit
<1>10. /\ \A i \in DOMAIN queue' :
              (i \in DOMAIN queue /\ queue'[i] = queue[i]) \/ (i = Len(queue) + 1 /\ queue'[i] = j)
       /\ j.obj = Current(p) /\ j.kind = "member" /\ j.owner = 1
    BY <1>1, <1>9
<1>11. SyncQueue'
    <2>1. online' = online /\ \A x : x \in pending[1] => x \in pending'[1]
        BY <1>6
    <2> SUFFICES ASSUME NEW i \in DOMAIN queue'
                 PROVE  queue'[i].kind = "member" /\ queue'[i].owner = 1 /\ MemberOf(queue[i].obj)'
        BY DEF SyncQueue
    <2>2. CASE i \in DOMAIN queue /\ queue'[i] = queue[i]
        BY <2>1, <2>2 DEF SyncShape, SyncQueue, MemberOf, Current
    <2>3. CASE i = Len(queue) + 1 /\ queue'[i] = j
        BY <1>5, <1>6, <1>10, <2>3 DEF MemberOf, Current
    <2> QED
        BY <1>10, <2>2, <2>3
<1>12. \A v \in Thread \ {1} :
          act'[v] = Idle \/ (IsSaving(v)' /\ act'[v].after = 1 /\ MemberOf(act[v].obj)')
    <2> SUFFICES ASSUME NEW v \in Thread \ {1}, act'[v] # Idle
                 PROVE  IsSaving(v)' /\ act'[v].after = 1 /\ MemberOf(act[v].obj)'
        OBVIOUS
    <2>1. act'[v] = act[v]
        BY <1>3
    <2>2. IsSaving(v) /\ act[v].after = 1 /\ MemberOf(act[v].obj)
        BY <2>1 DEF SyncShape, SyncThreads
    <2> QED
        BY <1>6, <2>1, <2>2 DEF MemberOf, Current, IsSaving
<1>13. SyncThreads'
    <2>1. ~IsSaving(1)' /\ act'[1].do # "load"
        BY <1>4 DEF IsSaving, SaveSteps
    <2>2. pending'[1] \subseteq act'[1].done
        BY <1>1, <1>4, <1>6 DEF SyncShape, SyncThreads, Submit
    <2> QED
        BY <1>4, <1>12, <2>1, <2>2 DEF SyncThreads
<1>14. \A v \in Thread : \A x \in Player : Saves(v, x)' <=> Saves(v, x)
    BY <1>1, <1>3, <1>4 DEF Saves, IsSaving, SaveSteps, Submit
<1>15. \A v \in Thread : ~Saves(v, p)
    <2> SUFFICES ASSUME NEW v \in Thread, IsSaving(v), Guid(act[v].obj) = p
                 PROVE  FALSE
        BY DEF Saves
    <2>1. CASE v = 1
        <3>1. act[1].do = "submit"
            BY <1>1 DEF Submit
        <3> QED
            BY <2>1, <3>1 DEF IsSaving, SaveSteps
    <2>2. CASE v # 1
        <3>1. act[v] # Idle
            BY DEF IsSaving, SaveSteps, Idle
        <3>2. MemberOf(act[v].obj)
            BY <2>2, <3>1 DEF SyncShape, SyncThreads
        <3> QED
            BY <1>6, <3>2 DEF MemberOf
    <2> QED
        BY <2>1, <2>2
<1>16. \A i \in DOMAIN queue : Guid(queue[i].obj) # p
    BY <1>6 DEF SyncShape, SyncQueue, MemberOf
<1>17. SavedOnce'
    <2>1. \A x \in Player : \A v, u \in Thread : Saves(v, x)' /\ Saves(u, x)' => v = u
        BY <1>14 DEF SyncShape, SavedOnce
    <2>2. \A x \in Player : \A v \in Thread : \A i \in DOMAIN queue' :
              Saves(v, x)' => Guid(queue'[i].obj) # x
        BY <1>5, <1>10, <1>14, <1>15 DEF SyncShape, SavedOnce
    <2>3. \A x \in Player : \A i, k \in DOMAIN queue' :
              Guid(queue'[i].obj) = x /\ Guid(queue'[k].obj) = x => i = k
        BY <1>5, <1>10, <1>16 DEF SyncShape, SavedOnce
    <2> QED
        BY <2>1, <2>2, <2>3 DEF SavedOnce
<1> QED
    BY <1>1, <1>3, <1>4, <1>11, <1>13, <1>17 DEF SyncShape

LEMMA EndSubmitShape ==
    ASSUME TypeInv, SyncShape, NEW w \in Thread, EndSubmit(w) \/ EndSaveAll(w)
    PROVE  /\ SyncShape'
           /\ w = 1 /\ act'[1].do \in {"idle", "wait"}
           /\ \A v \in Thread : v # 1 => act'[v] = act[v]
<1>1. w = 1
    BY DEF SyncShape, SyncThreads, EndSubmit, EndSaveAll, IsSaving, Idle, SaveSteps
<1>2. PICK a \in {Idle, [do |-> "wait"]} : act' = [act EXCEPT ![1] = a] /\ (a = Idle => pending[1] = {})
    <2>1. CASE EndSubmit(w)
        <3>1. act' = [act EXCEPT ![1] = [do |-> "wait"]] /\ [do |-> "wait"] # Idle
            BY <1>1, <2>1 DEF EndSubmit, Idle
        <3> QED
            BY <3>1
    <2>2. CASE EndSaveAll(w)
        BY <1>1, <2>2 DEF EndSaveAll
    <2> QED
        BY <2>1, <2>2
<1>3. act'[1] = a /\ \A v \in Thread : v # 1 => act'[v] = act[v]
    BY <1>2, DispatcherActs DEF TypeInv, TypeOK
<1>4. act'[1].do \in {"idle", "wait"} /\ (pending[1] # {} => act'[1].do = "wait")
    BY <1>2, <1>3 DEF Idle
<1>5. ~IsSaving(1)' /\ ~IsSaving(1)
    BY <1>1, <1>4 DEF IsSaving, SaveSteps, EndSubmit, EndSaveAll
<1>6. UNCHANGED <<queue, pending, online>>
    BY DEF EndSubmit, EndSaveAll, objects
<1>7. SyncThreads'
    BY <1>3, <1>4, <1>5, <1>6 DEF SyncShape, SyncThreads, MemberOf, Current, IsSaving
<1>8. SyncQueue'
    BY <1>6 DEF SyncShape, SyncQueue, MemberOf, Current
<1>9. SavedOnce'
    BY <1>3, <1>5, <1>6 DEF SyncShape, SavedOnce, Saves, IsSaving
<1> QED
    BY <1>1, <1>3, <1>4, <1>7, <1>8, <1>9 DEF SyncShape

LEMMA CrashShape ==
    ASSUME Crash
    PROVE  SyncShape'
<1>1. (\A w \in Thread : act'[w] = Idle /\ pending'[w] = {}) /\ queue' = <<>>
    BY DEF Crash
<1>2. 1 \in Thread
    BY SaveManagerAssumption DEF Thread
<1> QED
    BY <1>1, <1>2, FreeShape DEF IsSaving, SaveSteps, Idle

\* What goes on without toggleSaveAsync.
LEMMA NextShape ==
    ASSUME TypeInv, SyncShape, ~Async, [Next]_vars
    PROVE  SyncShape'
<1>1. CASE UNCHANGED vars
    <2>1. UNCHANGED <<act, queue, pending, online>>
        BY <1>1 DEF vars, pool, objects
    <2> QED
        BY <2>1 DEF SyncShape, SyncThreads, SyncQueue, SavedOnce, Saves, IsSaving, MemberOf, Current
<1>2. CASE \E w \in Thread : InsertItems(w) \/ WriteFails(w)
    BY <1>2, FinishShape DEF InsertItems, WriteFails, IsSaving, SaveSteps
<1>3. CASE \E w \in Thread : ThreadStep(w)
    BY <1>2, <1>3, TakeJobShape, NextStepShape, EndSubmitShape, SubmitShape DEF ThreadStep
<1>4. CASE Crash
    BY <1>4, CrashShape
<1> QED
    BY <1>1, <1>3, <1>4, GameShape DEF Next, DispatcherStep
-----------------------------------------------------------------------------
(* What objects and rows hold without toggleSaveAsync.                       *)

\* The items of the player are what is left to write, or to load.
Writing(w, p) == Saves(w, p) /\ act[w].do \in {"clear", "insert"}
Loaded(p) == act[1].do = "load" /\ act[1].part = "items" /\ Guid(act[1].obj) = p

\* Every change of the player is in its object, or in its row when it has none.
Complete(p) ==
    LET all == 1 .. changes[p] IN
    /\ online[p] # 0 => \A part \in Part : mem[Current(p)][part] = all
    /\ \A w \in Thread : Saves(w, p) => \A part \in Part : mem[act[w].obj][part] = all
    /\ online[p] = 0 /\ (\A w \in Thread : ~Saves(w, p)) => \A part \in Part : row[p][part] = all
    /\ (\A w \in Thread : ~Writing(w, p)) => row[p]["first"] = row[p]["items"]
    /\ \A w \in Thread : Writing(w, p) => row[p]["first"] = all
    /\ Loaded(p) => mem[act[1].obj]["first"] = all

\* The player's row is never ahead of the object that will be written to it.
Behind(p) ==
    /\ online[p] # 0 => \A part \in Part : row[p][part] \subseteq mem[Current(p)][part]
    /\ \A w \in Thread : Saves(w, p) =>
           \A part \in Part : row[p][part] \subseteq mem[act[w].obj][part]
    /\ Loaded(p) => row[p]["first"] \subseteq mem[act[1].obj]["first"]

SyncInv ==
    /\ TypeInv /\ SyncShape
    /\ \A p \in Player \ failed : Complete(p)
    /\ \A p \in Player : Behind(p)

\* Objects that are in the game, saved or loaded are objects of their player.
LEMMA UsedObjects ==
    ASSUME TypeOK
    PROVE  /\ \A p \in Player : online[p] # 0 => Current(p) \in Object /\ Guid(Current(p)) = p
           /\ \A w \in Thread : IsSaving(w) => act[w].obj \in Object /\ Guid(act[w].obj) \in Player
           /\ act[1].do = "load" => act[1].obj \in Object /\ Guid(act[1].obj) \in Player
<1>1. \A w \in Thread : act[w] \in Activity
    BY DEF TypeOK
<1>2. act[1] \in Activity
    BY DispatcherActs
<1> QED
    BY <1>1, <1>2, CurrentIsObject, ActivityParts, ObjectParts DEF IsSaving

\* A player none of whose objects, row and saves changes.
LEMMA StillComplete ==
    ASSUME TypeOK, NEW p \in Player, Complete(p),
           online'[p] = online[p], row'[p] = row[p], changes'[p] = changes[p],
           \A o \in Object : Guid(o) = p => mem'[o] = mem[o],
           \A w \in Thread :
               /\ Saves(w, p)' <=> Saves(w, p)
               /\ Saves(w, p) => act'[w].obj = act[w].obj
               /\ Writing(w, p)' <=> Writing(w, p),
           Loaded(p)' => Loaded(p) /\ act'[1].obj = act[1].obj
    PROVE  Complete(p)'
<1>1. Current(p)' = Current(p)
    BY DEF Current
<1>2. online'[p] # 0 => mem'[Current(p)'] = mem[Current(p)]
    BY <1>1, UsedObjects
<1>3. \A w \in Thread : Saves(w, p) => mem'[act'[w].obj] = mem[act[w].obj]
    BY UsedObjects DEF Saves
<1>4. Loaded(p) /\ act'[1].obj = act[1].obj => mem'[act'[1].obj] = mem[act[1].obj]
    BY UsedObjects DEF Loaded
<1>5. online'[p] # 0 => \A part \in Part : mem'[Current(p)'][part] = 1 .. changes'[p]
    BY <1>2 DEF Complete
<1>6. \A w \in Thread : Saves(w, p)' => \A part \in Part : mem'[act'[w].obj][part] = 1 .. changes'[p]
    BY <1>3 DEF Complete
<1>7. online'[p] = 0 /\ (\A w \in Thread : ~Saves(w, p)') =>
          \A part \in Part : row'[p][part] = 1 .. changes'[p]
    BY DEF Complete
<1>8. /\ (\A w \in Thread : ~Writing(w, p)') => row'[p]["first"] = row'[p]["items"]
      /\ \A w \in Thread : Writing(w, p)' => row'[p]["first"] = 1 .. changes'[p]
    BY DEF Complete
<1>9. Loaded(p)' => mem'[act'[1].obj]["first"] = 1 .. changes'[p]
    BY <1>4 DEF Complete
<1> QED
    BY <1>5, <1>6, <1>7, <1>8, <1>9 DEF Complete

LEMMA StillBehind ==
    ASSUME TypeOK, NEW p \in Player, Behind(p),
           online'[p] # 0 => online'[p] = online[p], row'[p] = row[p],
           \A o \in Object : Guid(o) = p => mem'[o] = mem[o],
           \A w \in Thread : Saves(w, p)' => Saves(w, p) /\ act'[w].obj = act[w].obj,
           Loaded(p)' => Loaded(p) /\ act'[1].obj = act[1].obj
    PROVE  Behind(p)'
<1>1. online'[p] # 0 => Current(p)' = Current(p) /\ mem'[Current(p)'] = mem[Current(p)]
    BY UsedObjects DEF Current
<1>2. \A w \in Thread : Saves(w, p)' => mem'[act'[w].obj] = mem[act[w].obj]
    BY UsedObjects DEF Saves
<1>3. Loaded(p)' => mem'[act'[1].obj] = mem[act[1].obj]
    BY UsedObjects DEF Loaded
<1>4. online'[p] # 0 => \A part \in Part : row'[p][part] \subseteq mem'[Current(p)'][part]
    BY <1>1 DEF Behind
<1>5. \A w \in Thread : Saves(w, p)' => \A part \in Part : row'[p][part] \subseteq mem'[act'[w].obj][part]
    BY <1>2 DEF Behind
<1>6. Loaded(p)' => row'[p]["first"] \subseteq mem'[act'[1].obj]["first"]
    BY <1>3 DEF Behind
<1> QED
    BY <1>4, <1>5, <1>6 DEF Behind

\* Steps that touch no object, row or save.
LEMMA DataUnchanged ==
    ASSUME SyncInv, UNCHANGED <<online, mem, row, changes, failed>>,
           \A w \in Thread : \A p \in Player :
               /\ Saves(w, p)' <=> Saves(w, p)
               /\ Saves(w, p) => act'[w].obj = act[w].obj
               /\ Writing(w, p)' <=> Writing(w, p),
           \A p \in Player : Loaded(p)' => Loaded(p) /\ act'[1].obj = act[1].obj
    PROVE  /\ \A p \in Player \ failed' : Complete(p)'
           /\ \A p \in Player : Behind(p)'
<1>1. TypeOK
    BY DEF SyncInv, TypeInv
<1>2. ASSUME NEW p \in Player \ failed'
      PROVE  Complete(p)'
    BY <1>1, StillComplete DEF SyncInv
<1>3. ASSUME NEW p \in Player
      PROVE  Behind(p)'
    BY <1>1, StillBehind DEF SyncInv
<1> QED
    BY <1>2, <1>3

\* A save of an online player begins.
LEMMA SaveBegins ==
    ASSUME SyncInv, NEW w \in Thread, NEW p \in Player, NEW after,
           UNCHANGED <<online, mem, row, changes, failed>>,
           online[p] # 0, act[w] = Idle, act'[w] = Saving("lock", Current(p), after),
           \A v \in Thread : v # w => act'[v] = act[v]
    PROVE  /\ \A x \in Player \ failed' : Complete(x)'
           /\ \A x \in Player : Behind(x)'
<1>1. TypeOK /\ Guid(Current(p)) = p
    BY CurrentIsObject DEF SyncInv, TypeInv
<1>2. act'[w].do = "lock" /\ act'[w].obj = Current(p)
    BY DEF Saving
<1>3. \A v \in Thread, x \in Player :
          /\ Saves(v, x)' <=> Saves(v, x) \/ (v = w /\ x = p)
          /\ Saves(v, x) => v # w /\ act'[v].obj = act[v].obj
          /\ Writing(v, x)' <=> Writing(v, x)
    BY <1>1, <1>2 DEF Saves, Writing, IsSaving, SaveSteps, Idle
<1>4. 1 \in Thread
    BY DispatcherActs, <1>1
<1>5. \A x \in Player : Loaded(x)' => Loaded(x) /\ act'[1].obj = act[1].obj
    BY <1>2, <1>4 DEF Loaded
<1>6. ASSUME NEW x \in Player \ failed'
      PROVE  Complete(x)'
    <2>1. Complete(x)
        BY DEF SyncInv
    <2>2. CASE x # p
        BY <1>1, <1>3, <1>5, <2>1, <2>2, StillComplete
    <2>3. CASE x = p
        <3>1. \A part \in Part : mem'[Current(p)][part] = 1 .. changes'[p]
            BY <2>1, <2>3 DEF Complete
        <3>2. \A v \in Thread : Saves(v, p)' => \A part \in Part : mem'[act'[v].obj][part] = 1 .. changes'[p]
            BY <1>2, <1>3, <2>1, <2>3, <3>1 DEF Complete
        <3>3. /\ (\A v \in Thread : ~Writing(v, p)') => row'[p]["first"] = row'[p]["items"]
              /\ \A v \in Thread : Writing(v, p)' => row'[p]["first"] = 1 .. changes'[p]
            BY <1>3, <2>1, <2>3 DEF Complete
        <3>4. Loaded(p)' => mem'[act'[1].obj]["first"] = 1 .. changes'[p]
            BY <1>5, <2>1, <2>3 DEF Complete
        <3>5. online'[p] # 0 /\ Current(p)' = Current(p)
            BY DEF Current
        <3> QED
            BY <2>3, <3>1, <3>2, <3>3, <3>4, <3>5 DEF Complete
    <2> QED
        BY <2>2, <2>3
<1>7. ASSUME NEW x \in Player
      PROVE  Behind(x)'
    <2>1. Behind(x)
        BY DEF SyncInv
    <2>2. CASE x # p
        BY <1>1, <1>3, <1>5, <2>1, <2>2, StillBehind
    <2>3. CASE x = p
        <3>1. \A part \in Part : row'[p][part] \subseteq mem'[Current(p)][part]
            BY <2>1, <2>3 DEF Behind
        <3>2. \A v \in Thread : Saves(v, p)' => \A part \in Part : row'[p][part] \subseteq mem'[act'[v].obj][part]
            BY <1>2, <1>3, <2>1, <2>3, <3>1 DEF Behind
        <3>3. Loaded(p)' => row'[p]["first"] \subseteq mem'[act'[1].obj]["first"]
            BY <1>5, <2>1, <2>3 DEF Behind
        <3>4. Current(p)' = Current(p)
            BY DEF Current
        <3> QED
            BY <2>3, <3>1, <3>2, <3>3, <3>4 DEF Behind
    <2> QED
        BY <2>2, <2>3
<1> QED
    BY <1>6, <1>7
\* While the dispatcher is free, or loads, no player is being saved.
LEMMA NobodySaves ==
    ASSUME TypeInv, SyncShape, act[1].do \in {"idle", "load"}
    PROVE  \A w \in Thread : \A p \in Player : ~Saves(w, p) /\ ~Writing(w, p)
<1>1. \A w \in Thread \ {1} : act[w] = Idle
    BY PoolIsFree
<1>2. \A w \in Thread : ~IsSaving(w)
    BY <1>1 DEF IsSaving, SaveSteps, Idle
<1> QED
    BY <1>2 DEF Saves, Writing

LEMMA NextChange ==
    ASSUME NEW n \in Nat
    PROVE  (1 .. n) \cup {n + 1} = 1 .. (n + 1)
OBVIOUS

LEMMA ChangeData ==
    ASSUME SyncInv, NEW p \in Player, Change(p)
    PROVE  /\ \A x \in Player \ failed' : Complete(x)'
           /\ \A x \in Player : Behind(x)'
<1>1. TypeInv /\ TypeOK /\ SyncShape /\ act' = act /\ act[1].do = "idle"
    BY DEF SyncInv, TypeInv, Change, Running, Idle, pool
<1>2. \A w \in Thread : \A x \in Player :
          ~Saves(w, x) /\ ~Writing(w, x) /\ ~Saves(w, x)' /\ ~Writing(w, x)'
    <2>1. \A w \in Thread : \A x \in Player : ~Saves(w, x) /\ ~Writing(w, x)
        BY <1>1, NobodySaves
    <2> QED
        BY <1>1, <2>1 DEF Saves, Writing, IsSaving
<1>3. \A x \in Player : ~Loaded(x)'
    BY <1>1 DEF Loaded
<1>4. /\ UNCHANGED <<online, row, failed>> /\ online[p] # 0 /\ changes[p] \in Nat
      /\ mem' = Changed(Current(p), p) /\ changes' = [changes EXCEPT ![p] = @ + 1]
    BY <1>1 DEF Change, TypeOK
<1>5. Current(p) \in Object /\ Guid(Current(p)) = p /\ Current(p)' = Current(p)
    BY <1>1, <1>4, CurrentIsObject DEF Current
<1>6. /\ \A o \in Object : Guid(o) # p => mem'[o] = mem[o]
      /\ \A part \in Part : mem'[Current(p)][part] = mem[Current(p)][part] \cup {changes[p] + 1}
    BY <1>1, <1>4, <1>5 DEF Changed, TypeOK
<1>7. changes'[p] = changes[p] + 1 /\ \A x \in Player : x # p => changes'[x] = changes[x]
    BY <1>1, <1>4 DEF TypeOK
<1>8. ASSUME NEW x \in Player \ failed'
      PROVE  Complete(x)'
    <2>1. Complete(x)
        BY <1>4 DEF SyncInv
    <2>2. CASE x # p
        BY <1>1, <1>2, <1>3, <1>4, <1>6, <1>7, <2>1, <2>2, StillComplete
    <2>3. CASE x = p
        <3>1. \A part \in Part : mem[Current(p)][part] = 1 .. changes[p]
            BY <1>4, <2>1, <2>3 DEF Complete
        <3>2. \A part \in Part : mem'[Current(p)'][part] = 1 .. changes'[p]
            BY <1>4, <1>5, <1>6, <1>7, <3>1, NextChange
        <3>3. row'[p]["first"] = row'[p]["items"]
            BY <1>2, <1>4, <2>1, <2>3 DEF Complete
        <3> QED
            BY <1>2, <1>3, <1>4, <2>3, <3>2, <3>3 DEF Complete
    <2> QED
        BY <2>2, <2>3
<1>9. ASSUME NEW x \in Player
      PROVE  Behind(x)'
    <2>1. Behind(x)
        BY DEF SyncInv
    <2>2. CASE x # p
        BY <1>1, <1>2, <1>3, <1>4, <1>6, <2>1, <2>2, StillBehind
    <2>3. CASE x = p
        BY <1>2, <1>3, <1>4, <1>5, <1>6, <2>1, <2>3 DEF Behind
    <2> QED
        BY <2>2, <2>3
<1> QED
    BY <1>8, <1>9

LEMMA SaveHereData ==
    ASSUME SyncInv, ~Async, NEW p \in Player, SavePlayer(p) \/ Logout(p)
    PROVE  /\ \A x \in Player \ failed' : Complete(x)'
           /\ \A x \in Player : Behind(x)'
<1>1. PICK after \in {Nothing, RemovePlayer} : SaveHere(Current(p), after)
    BY DEF SavePlayer, Logout
<1>2. /\ UNCHANGED <<online, mem, row, changes, failed>> /\ online[p] # 0 /\ act[1] = Idle
      /\ act' = [act EXCEPT ![1] = Saving("lock", Current(p), after)]
    BY <1>1 DEF SavePlayer, Logout, Running, objects, history, SaveHere
<1>3. act'[1] = Saving("lock", Current(p), after) /\ \A v \in Thread : v # 1 => act'[v] = act[v]
    BY <1>2, DispatcherActs DEF SyncInv, TypeInv, TypeOK
<1>4. 1 \in Thread
    BY DispatcherActs DEF SyncInv, TypeInv
<1> QED
    BY <1>2, <1>3, <1>4, SaveBegins

LEMMA TakeJobData ==
    ASSUME SyncInv, NEW w \in Thread, TakeJob(w)
    PROVE  /\ \A x \in Player \ failed' : Complete(x)'
           /\ \A x \in Player : Behind(x)'
<1> DEFINE o == Head(queue).obj
           p == Guid(o)
<1>1. /\ MemberOf(o) /\ act'[w] = Saving("lock", o, 1) /\ act[w] = Idle
      /\ \A v \in Thread : v # w => act'[v] = act[v]
    BY TakeJobShape DEF SyncInv
<1>2. o = Current(p) /\ online[p] # 0 /\ p \in pending[1]
    BY <1>1 DEF MemberOf
<1>3. p \in Player
    BY <1>2, DispatcherActs DEF SyncInv, TypeInv, TypeOK
<1>4. UNCHANGED <<online, mem, row, changes, failed>>
    BY DEF TakeJob, objects, history
<1> HIDE DEF o, p
<1> QED
    BY <1>1, <1>2, <1>3, <1>4, SaveBegins

\* A load begins; requests that only change the dispatcher's own activity.
LEMMA RequestData ==
    ASSUME SyncInv, ~Async,
           \/ \E p \in Player, purpose \in {"login", "offline"} : Load(p, purpose)
           \/ ScheduleAll \/ ShutdownSaveAll \/ Shutdown \/ (\E o \in Object : Destroy(o))
           \/ \E w \in Thread : EndSubmit(w) \/ EndSaveAll(w) \/ \E p \in Player : Submit(w, p)
    PROVE  /\ \A p \in Player \ failed' : Complete(p)'
           /\ \A p \in Player : Behind(p)'
<1>1. UNCHANGED <<online, mem, row, changes, failed>>
    BY DEF Load, ScheduleAll, ShutdownSaveAll, Shutdown, Destroy, EndSubmit, EndSaveAll, Submit, objects, history
<1>2. TypeInv /\ SyncShape /\ TypeOK /\ 1 \in Thread
    BY DispatcherActs DEF SyncInv, TypeInv
<1> DEFINE OwnStep ==
               /\ \A w \in Thread : w # 1 => act'[w] = act[w]
               /\ act' = act \/ /\ act[1].do \in {"idle", "submit", "wait"}
                                /\ act'[1].do \in {"idle", "submit", "wait", "load"}
                                /\ act'[1].do = "load" => act'[1].part = "first"
<1>3. OwnStep
    <2>1. ASSUME NEW p \in Player, NEW purpose \in {"login", "offline"}, Load(p, purpose)
          PROVE  OwnStep
        <3>1. act' = [act EXCEPT ![1] = [do |-> "load", obj |-> <<p, made[p] + 1>>,
                                         part |-> "first", for |-> purpose]]
            BY <2>1 DEF Load
        <3> QED
            BY <1>2, <2>1, <3>1 DEF Load, Running, Idle, TypeOK
    <2>2. ASSUME ScheduleAll \/ ShutdownSaveAll
          PROVE  OwnStep
        <3>1. act' = [act EXCEPT ![1] = [do |-> "submit", done |-> {}]]
            BY <2>2 DEF ScheduleAll, ShutdownSaveAll
        <3> QED
            BY <1>2, <2>2, <3>1 DEF ScheduleAll, ShutdownSaveAll, Running, Idle, TypeOK
    <2>3. ASSUME Shutdown \/ \E o \in Object : Destroy(o)
          PROVE  OwnStep
        BY <2>3 DEF Shutdown, Destroy, pool
    <2>4. ASSUME NEW w \in Thread, EndSubmit(w) \/ EndSaveAll(w)
          PROVE  OwnStep
        BY <1>2, <2>4, EndSubmitShape DEF EndSubmit, EndSaveAll
    <2>5. ASSUME NEW w \in Thread, NEW p \in Player, Submit(w, p)
          PROVE  OwnStep
        BY <1>2, <2>5, SubmitShape DEF Submit
    <2> QED
        BY <2>1, <2>2, <2>3, <2>4, <2>5
<1>4. \A w \in Thread : \A p \in Player :
          /\ Saves(w, p)' <=> Saves(w, p)
          /\ Saves(w, p) => act'[w].obj = act[w].obj
          /\ Writing(w, p)' <=> Writing(w, p)
    BY <1>2, <1>3 DEF Saves, Writing, IsSaving, SaveSteps
<1>5. \A p \in Player : Loaded(p)' => Loaded(p) /\ act'[1].obj = act[1].obj
    BY <1>3 DEF Loaded
<1> QED
    BY <1>1, <1>4, <1>5, DataUnchanged

LEMMA LockData ==
    ASSUME SyncInv, NEW w \in Thread, Lock(w)
    PROVE  /\ \A p \in Player \ failed' : Complete(p)'
           /\ \A p \in Player : Behind(p)'
<1>1. UNCHANGED <<online, mem, row, changes, failed>>
    BY DEF Lock, objects, history
<1>2. /\ \A v \in Thread : \A p \in Player : Saves(v, p)' <=> Saves(v, p)
      /\ \A v \in Thread : IsSaving(v) => act'[v].obj = act[v].obj
      /\ \A v \in Thread : v # w => act'[v] = act[v]
    BY NextStepShape DEF SyncInv
<1>3. act[w].do = "lock" /\ act'[w].do = "first" /\ 1 \in Thread
    BY DispatcherActs DEF SyncInv, TypeInv, TypeOK, Lock, Saving
<1>4. \A v \in Thread : \A p \in Player : Writing(v, p)' <=> Writing(v, p)
    BY <1>2, <1>3 DEF Writing
<1>5. \A p \in Player : Loaded(p)' => Loaded(p) /\ act'[1].obj = act[1].obj
    BY <1>2, <1>3 DEF Loaded
<1> QED
    BY <1>1, <1>2, <1>4, <1>5, DataUnchanged DEF Saves
\* The first part of a new object is read.
LEMMA LoadFirstData ==
    ASSUME SyncInv, LoadFirst
    PROVE  /\ \A x \in Player \ failed' : Complete(x)'
           /\ \A x \in Player : Behind(x)'
<1> DEFINE o == act[1].obj
           p == Guid(o)
<1>1. TypeInv /\ TypeOK /\ SyncShape /\ 1 \in Thread /\ act[1].do = "load"
    BY DispatcherActs DEF SyncInv, TypeInv, LoadFirst
<1>2. o \in Object /\ p \in Player /\ online[p] = 0
    BY <1>1, UsedObjects DEF SyncShape, SyncThreads
<1>3. act' = [act EXCEPT ![1] = [act[1] EXCEPT !.part = "items"]]
    BY DEF LoadFirst
<1>4. act[1] \in [do : {"load"}, obj : Object, part : Part, for : {"login", "offline"}]
    <2>1. act[1] \in Activity
        BY <1>1, DispatcherActs
    <2> QED
        BY <1>1, <2>1 DEF Activity, Idle, SaveSteps
<1>5. /\ act'[1].do = "load" /\ act'[1].obj = o
      /\ \A w \in Thread : w # 1 => act'[w] = act[w]
    BY <1>1, <1>3, <1>4 DEF TypeOK
<1>6. \A w \in Thread : \A x \in Player :
          ~Saves(w, x) /\ ~Writing(w, x) /\ ~Saves(w, x)' /\ ~Writing(w, x)'
    <2>1. \A w \in Thread : \A x \in Player : ~Saves(w, x) /\ ~Writing(w, x)
        BY <1>1, NobodySaves
    <2> QED
        BY <1>5, <2>1 DEF Saves, Writing, IsSaving, SaveSteps
<1>7. UNCHANGED <<online, row, changes, failed>>
    BY DEF LoadFirst, history
<1>8. mem' = [mem EXCEPT ![o] = [mem[o] EXCEPT !["first"] = row[p]["first"]]]
    BY DEF LoadFirst
<1>9. /\ \A x \in Object : Guid(x) # p => mem'[x] = mem[x]
      /\ mem'[o]["first"] = row[p]["first"]
    BY <1>1, <1>2, <1>8 DEF TypeOK, Contents, Part
<1>10. \A x \in Player : x # p => ~Loaded(x)'
    BY <1>5 DEF Loaded
<1>11. ASSUME NEW x \in Player \ failed'
      PROVE  Complete(x)'
    <2>1. Complete(x)
        BY <1>7 DEF SyncInv
    <2>2. CASE x # p
        BY <1>1, <1>6, <1>7, <1>9, <1>10, <2>1, <2>2, StillComplete
    <2>3. CASE x = p
        <3>1. /\ \A part \in Part : row[p][part] = 1 .. changes[p]
              /\ row[p]["first"] = row[p]["items"]
            BY <1>2, <1>6, <2>1, <2>3 DEF Complete
        <3> HIDE DEF p
        <3> QED
            BY <1>2, <1>5, <1>6, <1>7, <1>9, <2>3, <3>1 DEF Complete, Part
    <2> QED
        BY <2>2, <2>3
<1>12. ASSUME NEW x \in Player
      PROVE  Behind(x)'
    <2>1. Behind(x)
        BY DEF SyncInv
    <2>2. CASE x # p
        BY <1>1, <1>6, <1>7, <1>9, <1>10, <2>1, <2>2, StillBehind
    <2>3. CASE x = p
        BY <1>2, <1>5, <1>6, <1>7, <1>9, <2>3 DEF Behind
    <2> QED
        BY <2>2, <2>3
<1> QED
    BY <1>11, <1>12

\* The items are read, and the player enters the game or is changed and saved.
LEMMA LoadItemsData ==
    ASSUME SyncInv, LoadItems, NEW o \in Object, NEW p \in Player, o = act[1].obj, p = Guid(o)
    PROVE  /\ \A x \in Player \ failed' : Complete(x)'
           /\ \A x \in Player : Behind(x)'
<1> DEFINE loaded == [mem EXCEPT ![o] = [mem[o] EXCEPT !["items"] = row[p]["items"]]]
<1>1. /\ TypeInv /\ TypeOK /\ SyncShape /\ 1 \in Thread /\ act[1] \in Activity
      /\ act[1].do = "load" /\ act[1].part = "items"
    BY DispatcherActs DEF SyncInv, TypeInv, LoadItems
<1>2. o \in Object /\ o = <<p, o[2]>> /\ p \in Player /\ online[p] = 0 /\ o[2] # 0
    BY <1>1, UsedObjects, ObjectParts, SaveManagerAssumption DEF SyncShape, SyncThreads, Guid
<1>3. \A w \in Thread : \A x \in Player : ~Saves(w, x) /\ ~Writing(w, x)
    BY <1>1, NobodySaves
<1>4. UNCHANGED <<row, failed>> /\ act[1].for \in {"login", "offline"}
    BY <1>1, ActivityParts DEF LoadItems
<1>5. /\ loaded \in [Object -> Contents] /\ loaded[o]["first"] = mem[o]["first"]
      /\ loaded[o]["items"] = row[p]["items"] /\ \A x \in Object : Guid(x) # p => loaded[x] = mem[x]
    BY <1>1, <1>2 DEF TypeOK, Contents, Part
<1>6. \A part \in Part : row[p][part] \subseteq loaded[o][part]
    <2>1. Behind(p) /\ Loaded(p)
        BY <1>1, <1>2 DEF SyncInv, Loaded
    <2> HIDE DEF loaded
    <2> QED
        BY <1>5, <2>1 DEF Behind, Part
<1>7. p \notin failed => /\ \A part \in Part : loaded[o][part] = 1 .. changes[p]
                         /\ \A part \in Part : row[p][part] = 1 .. changes[p]
    <2> SUFFICES ASSUME p \notin failed
                 PROVE  /\ \A part \in Part : loaded[o][part] = 1 .. changes[p]
                        /\ \A part \in Part : row[p][part] = 1 .. changes[p]
        OBVIOUS
    <2>1. Complete(p) /\ Loaded(p)
        BY <1>1, <1>2 DEF SyncInv, Loaded
    <2>2. mem[o]["first"] = 1 .. changes[p] /\ \A part \in Part : row[p][part] = 1 .. changes[p]
        BY <1>2, <1>3, <2>1 DEF Complete
    <2> HIDE DEF loaded
    <2> QED
        BY <1>5, <2>2 DEF Part
<1>8. CASE act[1].for = "login"
    <2>1. /\ mem' = loaded /\ online' = [online EXCEPT ![p] = o[2]] /\ act' = [act EXCEPT ![1] = Idle]
          /\ changes' = changes
        BY <1>8 DEF LoadItems
    <2>2. act'[1] = Idle /\ \A w \in Thread : w # 1 => act'[w] = act[w]
        BY <1>1, <2>1 DEF TypeOK
    <2>3. \A w \in Thread : \A x \in Player : ~Saves(w, x)' /\ ~Writing(w, x)' /\ ~Loaded(x)'
        BY <1>3, <2>2 DEF Saves, Writing, Loaded, IsSaving, SaveSteps, Idle
    <2>4. online'[p] = o[2] /\ \A x \in Player : x # p => online'[x] = online[x]
        BY <1>1, <1>2, <2>1 DEF TypeOK
    <2>5. Current(p)' = o
        BY <1>2, <2>4 DEF Current
    <2>6. \A x \in Player : ~Loaded(x)'
        BY <1>1, <2>3
    <2> HIDE DEF loaded
    <2>7. ASSUME NEW x \in Player \ failed'
          PROVE  Complete(x)'
        <3>1. Complete(x)
            BY <1>4 DEF SyncInv
        <3>2. CASE x # p
            BY <1>1, <1>3, <1>4, <1>5, <2>1, <2>3, <2>4, <2>6, <3>1, <3>2, StillComplete
        <3>3. CASE x = p
            <4>1. online'[p] # 0 /\ row'[p]["first"] = row'[p]["items"]
                BY <1>2, <1>4, <1>7, <2>4, <3>3 DEF Part
            <4>2. \A part \in Part : mem'[Current(p)'][part] = 1 .. changes'[p]
                BY <1>4, <1>7, <2>1, <2>5, <3>3
            <4> QED
                BY <2>3, <2>6, <3>3, <4>1, <4>2 DEF Complete
        <3> QED
            BY <3>2, <3>3
    <2>8. ASSUME NEW x \in Player
          PROVE  Behind(x)'
        <3>1. Behind(x)
            BY DEF SyncInv
        <3>2. CASE x # p
            BY <1>1, <1>3, <1>4, <1>5, <2>1, <2>3, <2>4, <2>6, <3>1, <3>2, StillBehind
        <3>3. CASE x = p
            BY <1>4, <1>6, <2>1, <2>3, <2>5, <2>6, <3>3 DEF Behind
        <3> QED
            BY <3>2, <3>3
    <2> QED
        BY <2>7, <2>8
<1>9. CASE act[1].for = "offline"
    <2>1. /\ mem' = [loaded EXCEPT ![o] = [part \in Part |-> loaded[o][part] \cup {changes[p] + 1}]]
          /\ changes' = [changes EXCEPT ![p] = @ + 1]
          /\ act' = [act EXCEPT ![1] = Saving("lock", o, Nothing)]
          /\ online' = online
        BY <1>9 DEF LoadItems
    <2>2. act'[1] = Saving("lock", o, Nothing) /\ \A w \in Thread : w # 1 => act'[w] = act[w]
        BY <1>1, <2>1 DEF TypeOK
    <2>3. act'[1].do = "lock" /\ act'[1].obj = o
        BY <2>2 DEF Saving
    <2>4. /\ \A w \in Thread : \A x \in Player :
                 (Saves(w, x)' <=> w = 1 /\ x = p) /\ ~Writing(w, x)'
          /\ \A x \in Player : ~Loaded(x)'
        BY <1>2, <1>3, <2>2, <2>3 DEF Saves, Writing, Loaded, IsSaving, SaveSteps
    <2>5. changes[p] \in Nat /\ changes'[p] = changes[p] + 1 /\ \A x \in Player : x # p => changes'[x] = changes[x]
        BY <1>1, <1>2, <2>1 DEF TypeOK
    <2>6. /\ \A part \in Part : mem'[o][part] = loaded[o][part] \cup {changes[p] + 1}
          /\ \A x \in Object : Guid(x) # p => mem'[x] = mem[x]
        <3> HIDE DEF loaded
        <3> QED
            BY <1>2, <1>5, <2>1
    <2> HIDE DEF loaded
    <2>7. ASSUME NEW x \in Player \ failed'
          PROVE  Complete(x)'
        <3>1. Complete(x)
            BY <1>4 DEF SyncInv
        <3>2. CASE x # p
            BY <1>1, <1>3, <1>4, <2>1, <2>4, <2>5, <2>6, <3>1, <3>2, StillComplete
        <3>3. CASE x = p
            <4>1. online'[p] = 0 /\ row'[p]["first"] = row'[p]["items"] /\ Saves(1, p)'
                BY <1>1, <1>2, <1>4, <1>7, <2>1, <2>4, <3>3 DEF Part
            <4>2. \A part \in Part : mem'[o][part] = 1 .. changes'[p]
                BY <1>4, <1>7, <2>5, <2>6, <3>3, NextChange
            <4>3. \A w \in Thread : Saves(w, p)' => \A part \in Part : mem'[act'[w].obj][part] = 1 .. changes'[p]
                BY <1>2, <2>3, <2>4, <4>2
            <4> QED
                BY <1>1, <2>4, <3>3, <4>1, <4>3 DEF Complete
        <3> QED
            BY <3>2, <3>3
    <2>8. ASSUME NEW x \in Player
          PROVE  Behind(x)'
        <3>1. Behind(x)
            BY DEF SyncInv
        <3>2. CASE x # p
            BY <1>1, <1>3, <1>4, <2>1, <2>4, <2>6, <3>1, <3>2, StillBehind
        <3>3. CASE x = p
            <4>1. \A part \in Part : row'[p][part] \subseteq mem'[o][part]
                BY <1>4, <1>6, <2>6
            <4> QED
                BY <1>2, <2>1, <2>3, <2>4, <3>3, <4>1 DEF Behind
        <3> QED
            BY <3>2, <3>3
    <2> QED
        BY <2>7, <2>8
<1> QED
    BY <1>4, <1>8, <1>9
\* The thread that saves a player is the only one, and has its object.
LEMMA SavedObject ==
    ASSUME SyncInv, NEW w \in Thread, IsSaving(w), NEW o, NEW p, o = act[w].obj, p = Guid(o)
    PROVE  /\ o \in Object /\ p \in Player /\ Saves(w, p)
           /\ \A v \in Thread : Saves(v, p) => v = w
           /\ online[p] # 0 => Current(p) = o
<1>1. o \in Object /\ p \in Player /\ Saves(w, p)
    BY UsedObjects DEF SyncInv, TypeInv, Saves
<1>2. \A v \in Thread : Saves(v, p) => v = w
    BY <1>1 DEF SyncInv, SyncShape, SavedOnce
<1>3. online[p] # 0 => Current(p) = o
    <2>1. CASE w = 1
        BY <2>1 DEF SyncInv, SyncShape, SyncThreads
    <2>2. CASE w # 1
        BY <2>2 DEF SyncInv, SyncShape, SyncThreads, MemberOf, IsSaving, SaveSteps, Idle
    <2> QED
        BY <2>1, <2>2
<1> QED
    BY <1>1, <1>2, <1>3

LEMMA WriteFirstData ==
    ASSUME SyncInv, NEW w \in Thread, WriteFirst(w), NEW o, NEW p, o = act[w].obj, p = Guid(o)
    PROVE  /\ \A x \in Player \ failed' : Complete(x)'
           /\ \A x \in Player : Behind(x)'
<1>1. TypeInv /\ TypeOK /\ SyncShape /\ 1 \in Thread /\ IsSaving(w) /\ act[w].do = "first"
    BY DispatcherActs DEF SyncInv, TypeInv, WriteFirst, IsSaving, SaveSteps
<1>2. /\ o \in Object /\ p \in Player /\ Saves(w, p)
      /\ \A v \in Thread : Saves(v, p) => v = w
      /\ online[p] # 0 => Current(p) = o
    BY <1>1, SavedObject
<1>3. /\ \A v \in Thread : \A x \in Player : Saves(v, x)' <=> Saves(v, x)
      /\ \A v \in Thread : IsSaving(v) => act'[v].obj = act[v].obj
      /\ \A v \in Thread : v # w => act'[v] = act[v]
    BY <1>1, NextStepShape
<1>4. act'[w].do = "clear" /\ act'[w].obj = o
    BY <1>1, <1>3 DEF TypeOK, WriteFirst, Saving
<1>5. /\ UNCHANGED <<online, mem, changes, failed>>
      /\ row' = [row EXCEPT ![p] = [row[p] EXCEPT !["first"] = mem[o]["first"]]]
    BY DEF WriteFirst, objects, history
<1>6. /\ row'[p]["first"] = mem[o]["first"] /\ row'[p]["items"] = row[p]["items"]
      /\ \A x \in Player : x # p => row'[x] = row[x]
    BY <1>1, <1>2, <1>5 DEF TypeOK, Contents, Part
<1>7. /\ \A v \in Thread : \A x \in Player : x # p => (Writing(v, x)' <=> Writing(v, x))
      /\ \A v \in Thread : Writing(v, p)' <=> v = w
    BY <1>2, <1>3, <1>4 DEF Writing, Saves
<1>8. \A x \in Player : Loaded(x)' => Loaded(x) /\ act'[1].obj = act[1].obj
    BY <1>1, <1>3, <1>4 DEF Loaded
<1>9. ~Loaded(p)'
    <2>1. CASE w = 1
        BY <1>4, <2>1 DEF Loaded
    <2>2. CASE w # 1
        BY <1>1, <1>3, <2>2, PoolIsFree DEF Loaded, IsSaving, SaveSteps, Idle
    <2> QED
        BY <2>1, <2>2
<1>10. ASSUME NEW x \in Player \ failed'
      PROVE  Complete(x)'
    <2>1. Complete(x)
        BY <1>5 DEF SyncInv
    <2>2. CASE x # p
        <3>1. \A v \in Thread : Saves(v, x) => act'[v].obj = act[v].obj
            BY <1>3 DEF Saves
        <3> QED
            BY <1>1, <1>3, <1>5, <1>6, <1>7, <1>8, <2>1, <2>2, <3>1, StillComplete
    <2>3. CASE x = p
        <3>1. \A part \in Part : mem'[o][part] = 1 .. changes'[p]
            BY <1>2, <1>5, <2>1, <2>3 DEF Complete
        <3>2. online'[p] # 0 => Current(p)' = o
            BY <1>2, <1>5 DEF Current
        <3>3. \A v \in Thread : Saves(v, p)' => act'[v].obj = o
            BY <1>2, <1>3, <1>4
        <3>4. Saves(w, p)' /\ Writing(w, p)' /\ row'[p]["first"] = 1 .. changes'[p]
            BY <1>2, <1>3, <1>5, <1>6, <1>7, <3>1 DEF Part
        <3> QED
            BY <1>9, <2>3, <3>1, <3>2, <3>3, <3>4 DEF Complete
    <2> QED
        BY <2>2, <2>3
<1>11. ASSUME NEW x \in Player
      PROVE  Behind(x)'
    <2>1. Behind(x)
        BY DEF SyncInv
    <2>2. CASE x # p
        <3>1. \A v \in Thread : Saves(v, x)' => Saves(v, x) /\ act'[v].obj = act[v].obj
            BY <1>3 DEF Saves
        <3> QED
            BY <1>1, <1>3, <1>5, <1>6, <1>8, <2>1, <2>2, <3>1, StillBehind
    <2>3. CASE x = p
        <3>1. \A part \in Part : row'[p][part] \subseteq mem'[o][part]
            BY <1>2, <1>5, <1>6, <2>1, <2>3 DEF Behind, Part
        <3>2. online'[p] # 0 => Current(p)' = o
            BY <1>2, <1>5 DEF Current
        <3>3. \A v \in Thread : Saves(v, p)' => act'[v].obj = o
            BY <1>2, <1>3, <1>4
        <3> QED
            BY <1>9, <2>3, <3>1, <3>2, <3>3 DEF Behind
    <2> QED
        BY <2>2, <2>3
<1> QED
    BY <1>10, <1>11

LEMMA ItemsStepData ==
    ASSUME SyncInv, NEW w \in Thread, ClearItems(w) \/ InsertBatch(w),
           NEW o, NEW p, o = act[w].obj, p = Guid(o)
    PROVE  /\ \A x \in Player \ failed' : Complete(x)'
           /\ \A x \in Player : Behind(x)'
<1>1. TypeInv /\ TypeOK /\ SyncShape /\ 1 \in Thread
    BY DispatcherActs DEF SyncInv, TypeInv
<1>2. /\ act[w].do \in {"clear", "insert"} /\ IsSaving(w)
      /\ act' = [act EXCEPT ![w] = Saving("insert", o, act[w].after)]
      /\ UNCHANGED <<online, mem, changes, failed>>
      /\ \A x \in Player : x # p => row'[x] = row[x]
      /\ row'[p]["first"] = row[p]["first"]
      /\ row'[p]["items"] \subseteq row[p]["items"] \cup mem[o]["items"]
    BY <1>1, ItemsStep DEF objects, history
<1>3. /\ o \in Object /\ p \in Player /\ Saves(w, p)
      /\ \A v \in Thread : Saves(v, p) => v = w
      /\ online[p] # 0 => Current(p) = o
    BY <1>1, <1>2, SavedObject
<1>4. /\ \A v \in Thread : \A x \in Player : Saves(v, x)' <=> Saves(v, x)
      /\ \A v \in Thread : IsSaving(v) => act'[v].obj = act[v].obj
      /\ \A v \in Thread : v # w => act'[v] = act[v]
    BY <1>1, NextStepShape
<1>5. act'[w].do = "insert" /\ act'[w].obj = o
    BY <1>1, <1>2 DEF TypeOK, Saving
<1>6. \A v \in Thread : \A x \in Player : Writing(v, x)' <=> Writing(v, x)
    BY <1>2, <1>4, <1>5 DEF Writing
<1>7. \A x \in Player : Loaded(x)' => Loaded(x) /\ act'[1].obj = act[1].obj
    BY <1>1, <1>4, <1>5 DEF Loaded
<1>8. ~Loaded(p)'
    <2>1. CASE w = 1
        BY <1>5, <2>1 DEF Loaded
    <2>2. CASE w # 1
        BY <1>1, <1>2, <1>4, <2>2, PoolIsFree DEF Loaded, IsSaving, SaveSteps, Idle
    <2> QED
        BY <2>1, <2>2
<1>9. online'[p] # 0 => Current(p)' = o
    BY <1>2, <1>3 DEF Current
<1>10. \A v \in Thread : Saves(v, p)' => act'[v].obj = o
    BY <1>3, <1>4, <1>5
<1>11. ASSUME NEW x \in Player \ failed'
       PROVE  Complete(x)'
    <2>1. Complete(x)
        BY <1>2 DEF SyncInv
    <2>2. CASE x # p
        <3>1. \A v \in Thread : Saves(v, x) => act'[v].obj = act[v].obj
            BY <1>4 DEF Saves
        <3> QED
            BY <1>1, <1>2, <1>4, <1>6, <1>7, <2>1, <2>2, <3>1, StillComplete
    <2>3. CASE x = p
        <3>1. Saves(w, p)' /\ Writing(w, p)' /\ Writing(w, p)
            BY <1>2, <1>3, <1>4, <1>6 DEF Writing
        <3>2. \A part \in Part : mem'[o][part] = 1 .. changes'[p]
            BY <1>2, <1>3, <2>1, <2>3 DEF Complete
        <3>3. row'[p]["first"] = 1 .. changes'[p]
            BY <1>2, <2>1, <2>3, <3>1 DEF Complete
        <3> QED
            BY <1>8, <1>9, <1>10, <2>3, <3>1, <3>2, <3>3 DEF Complete
    <2> QED
        BY <2>2, <2>3
<1>12. ASSUME NEW x \in Player
       PROVE  Behind(x)'
    <2>1. Behind(x)
        BY DEF SyncInv
    <2>2. CASE x # p
        <3>1. \A v \in Thread : Saves(v, x)' => Saves(v, x) /\ act'[v].obj = act[v].obj
            BY <1>4 DEF Saves
        <3> QED
            BY <1>1, <1>2, <1>4, <1>7, <2>1, <2>2, <3>1, StillBehind
    <2>3. CASE x = p
        <3>1. \A part \in Part : row'[p][part] \subseteq mem'[o][part]
            BY <1>2, <1>3, <2>1, <2>3 DEF Behind, Part
        <3> QED
            BY <1>8, <1>9, <1>10, <2>3, <3>1 DEF Behind
    <2> QED
        BY <2>2, <2>3
<1> QED
    BY <1>11, <1>12

LEMMA FinishData ==
    ASSUME SyncInv, NEW w \in Thread, InsertItems(w) \/ WriteFails(w),
           NEW o, NEW p, o = act[w].obj, p = Guid(o)
    PROVE  /\ \A x \in Player \ failed' : Complete(x)'
           /\ \A x \in Player : Behind(x)'
<1>1. /\ TypeInv /\ TypeOK /\ SyncShape /\ 1 \in Thread /\ IsSaving(w) /\ Finish(w)
      /\ act[w].do # "load" /\ UNCHANGED <<mem, queue, changes>>
    BY DispatcherActs DEF SyncInv, TypeInv, InsertItems, WriteFails, IsSaving, SaveSteps, history
<1>2. /\ o \in Object /\ p \in Player /\ Saves(w, p)
      /\ \A v \in Thread : Saves(v, p) => v = w
      /\ online[p] # 0 => Current(p) = o
    BY <1>1, SavedObject
<1>3. /\ \A v \in Thread : \A x \in Player : Saves(v, x)' <=> (v # w /\ Saves(v, x))
      /\ act'[w] = Idle /\ \A v \in Thread : v # w => act'[v] = act[v]
      /\ \A x \in Player : online'[x] # online[x] => p = x /\ online'[x] = 0
    BY <1>1, FinishShape
<1>4. /\ \A x \in Player : x # p => row'[x] = row[x] /\ online'[x] = online[x]
      /\ row'[p]["first"] = row[p]["first"] /\ row'[p]["items"] \in {row[p]["items"], mem[o]["items"]}
      /\ p \notin failed' => Writing(w, p) /\ row'[p]["items"] = mem[o]["items"]
      /\ failed \subseteq failed'
    <2>1. CASE InsertItems(w)
        <3>1. row' = [row EXCEPT ![p] = [row[p] EXCEPT !["items"] = mem[o]["items"]]] /\ failed' = failed
            BY <2>1 DEF InsertItems, SetItems, history
        <3>2. Writing(w, p)
            BY <1>2, <2>1 DEF InsertItems, Writing
        <3> QED
            BY <1>1, <1>2, <1>3, <3>1, <3>2 DEF TypeOK, Contents, Part
    <2>2. CASE WriteFails(w)
        <3>1. row' = row /\ failed' = failed \cup {p}
            BY <2>2 DEF WriteFails
        <3> QED
            BY <1>2, <1>3, <3>1
    <2> QED
        BY <2>1, <2>2
<1>5. \A x \in Player : \A v \in Thread : x # p =>
          /\ Saves(v, x)' <=> Saves(v, x)
          /\ Saves(v, x) => act'[v].obj = act[v].obj
          /\ Writing(v, x)' <=> Writing(v, x)
    <2>1. \A x \in Player : x # p => ~Saves(w, x)
        BY DEF Saves
    <2> QED
        BY <1>3, <2>1 DEF Writing
<1>6. \A v \in Thread : ~Saves(v, p)' /\ ~Writing(v, p)'
    BY <1>2, <1>3 DEF Writing
<1>7. \A x \in Player : Loaded(x)' => Loaded(x) /\ act'[1].obj = act[1].obj
    BY <1>1, <1>3 DEF Loaded, Idle
<1>8. ~Loaded(p)'
    <2>1. CASE w = 1
        BY <1>3, <2>1 DEF Loaded, Idle
    <2>2. CASE w # 1
        BY <1>1, <1>3, <2>2, PoolIsFree DEF Loaded, IsSaving, SaveSteps, Idle
    <2> QED
        BY <2>1, <2>2
<1>9. online'[p] # 0 => online'[p] = online[p] /\ Current(p)' = o
    BY <1>2, <1>3 DEF Current
<1>10. ASSUME NEW x \in Player \ failed'
      PROVE  Complete(x)'
    <2>1. Complete(x)
        BY <1>4 DEF SyncInv
    <2>2. CASE x # p
        BY <1>1, <1>4, <1>5, <1>7, <2>1, <2>2, StillComplete
    <2>3. CASE x = p
        <3>1. \A part \in Part : mem'[o][part] = 1 .. changes'[p]
            BY <1>1, <1>2, <2>1, <2>3 DEF Complete
        <3>2. \A part \in Part : row'[p][part] = 1 .. changes'[p]
            BY <1>1, <1>4, <2>1, <2>3, <3>1 DEF Complete, Part
        <3>3. row'[p]["first"] = row'[p]["items"]
            BY <3>2 DEF Part
        <3> QED
            BY <1>6, <1>8, <1>9, <2>3, <3>1, <3>2, <3>3 DEF Complete
    <2> QED
        BY <2>2, <2>3
<1>11. ASSUME NEW x \in Player
      PROVE  Behind(x)'
    <2>1. Behind(x)
        BY DEF SyncInv
    <2>2. CASE x # p
        BY <1>1, <1>4, <1>5, <1>7, <2>1, <2>2, StillBehind
    <2>3. CASE x = p
        <3>1. \A part \in Part : row'[p][part] \subseteq mem'[o][part]
            BY <1>1, <1>2, <1>4, <2>1, <2>3 DEF Behind, Part
        <3> QED
            BY <1>6, <1>8, <1>9, <2>3, <3>1 DEF Behind
    <2> QED
        BY <2>2, <2>3
<1> QED
    BY <1>10, <1>11

\* A crash leaves behind what the rows hold of those who were not in the game.
LEMMA CrashData ==
    ASSUME SyncInv, Crash
    PROVE  /\ \A x \in Player \ failed' : Complete(x)'
           /\ \A x \in Player : Behind(x)'
<1>1. TypeOK /\ 1 \in Thread /\ act'[1] = Idle
    BY DispatcherActs DEF SyncInv, TypeInv, Crash
<1>2. /\ \A w \in Thread : \A x \in Player : ~Saves(w, x)' /\ ~Writing(w, x)'
      /\ \A x \in Player : ~Loaded(x)' /\ online'[x] = 0
      /\ UNCHANGED <<mem, row, changes>>
    BY <1>1 DEF Crash, Saves, Writing, Loaded, IsSaving, SaveSteps, Idle
<1>3. ASSUME NEW x \in Player \ failed'
      PROVE  Complete(x)'
    <2>1. /\ x \notin failed /\ online[x] = 0
          /\ \A w \in Thread : \A n \in 1 .. MaxObjects : ~Uses(w, <<x, n>>)
        BY DEF Crash
    <2>2. \A w \in Thread : ~Saves(w, x)
        <3> SUFFICES ASSUME NEW w \in Thread, Saves(w, x) PROVE FALSE
            OBVIOUS
        <3>1. act[w].obj \in Object /\ act[w].obj = <<x, act[w].obj[2]>> /\ act[w].obj[2] \in 1 .. MaxObjects
            BY <1>1, UsedObjects, ObjectParts DEF Saves, Guid
        <3> QED
            BY <2>1, <3>1 DEF Saves, IsSaving, Uses
    <2>3. Complete(x)
        BY <2>1 DEF SyncInv
    <2>4. (\A part \in Part : row[x][part] = 1 .. changes[x]) /\ row[x]["first"] = row[x]["items"]
        BY <2>1, <2>2, <2>3 DEF Complete, Writing
    <2> QED
        BY <1>2, <2>4 DEF Complete
<1>4. ASSUME NEW x \in Player
      PROVE  Behind(x)'
    BY <1>2 DEF Behind
<1> QED
    BY <1>3, <1>4

LEMMA InitSync ==
    ASSUME Init
    PROVE  SyncInv
<1>1. TypeInv /\ SyncShape
    BY InitType, InitShape
<1>2. 1 \in Thread /\ act[1] = Idle /\ \A w \in Thread : act[w] = Idle
    BY SaveManagerAssumption DEF Init, Thread
<1>3. \A w \in Thread : \A p \in Player : ~Saves(w, p) /\ ~Writing(w, p)
    BY <1>2 DEF Saves, Writing, IsSaving, SaveSteps, Idle
<1>4. \A p \in Player : ~Loaded(p)
    BY <1>2 DEF Loaded, Idle
<1>5. \A p \in Player : /\ online[p] = 0 /\ changes[p] = 0
                        /\ \A part \in Part : row[p][part] = {}
    BY DEF Init
<1>6. 1 .. 0 = {}
    OBVIOUS
<1>7. \A p \in Player : row[p]["first"] = row[p]["items"]
    BY <1>5 DEF Part
<1> QED
    BY <1>1, <1>3, <1>4, <1>5, <1>6, <1>7 DEF SyncInv, Complete, Behind

LEMMA NextSync ==
    ASSUME SyncInv, ~Async, [Next]_vars
    PROVE  SyncInv'
<1>1. TypeInv' /\ SyncShape'
    BY NextType, NextShape DEF SyncInv
<1>2. CASE UNCHANGED vars
    <2>1. UNCHANGED <<act, online, mem, row, changes, failed>>
        BY <1>2 DEF vars, pool, objects, history
    <2>2. /\ \A p \in Player \ failed' : Complete(p)'
          /\ \A p \in Player : Behind(p)'
        BY <2>1, DataUnchanged DEF Saves, Writing, Loaded, IsSaving
    <2> QED
        BY <1>1, <2>2 DEF SyncInv
<1>3. CASE Next
    <2>1. CASE \E p \in Player : Change(p)
        BY <2>1, <1>1, ChangeData DEF SyncInv
    <2>2. CASE \E p \in Player : SavePlayer(p) \/ Logout(p)
        BY <2>2, <1>1, SaveHereData DEF SyncInv
    <2>3. CASE LoadFirst
        BY <2>3, <1>1, LoadFirstData DEF SyncInv
    <2>4. CASE LoadItems
        <3>1. act[1].obj \in Object /\ Guid(act[1].obj) \in Player
            BY <2>4, UsedObjects DEF SyncInv, TypeInv, LoadItems
        <3> QED
            BY <2>4, <3>1, <1>1, LoadItemsData DEF SyncInv
    <2>5. CASE \/ \E p \in Player, purpose \in {"login", "offline"} : Load(p, purpose)
               \/ ScheduleAll \/ ShutdownSaveAll \/ Shutdown \/ (\E o \in Object : Destroy(o))
               \/ \E w \in Thread : EndSubmit(w) \/ EndSaveAll(w) \/ \E p \in Player : Submit(w, p)
        BY <2>5, <1>1, RequestData DEF SyncInv
    <2>6. CASE \E w \in Thread : TakeJob(w) \/ Lock(w)
        BY <2>6, <1>1, TakeJobData, LockData DEF SyncInv
    <2>7. CASE \E w \in Thread : WriteFirst(w)
        BY <2>7, <1>1, WriteFirstData DEF SyncInv
    <2>8. CASE \E w \in Thread : ClearItems(w) \/ InsertBatch(w)
        BY <2>8, <1>1, ItemsStepData DEF SyncInv
    <2>9. CASE \E w \in Thread : InsertItems(w) \/ WriteFails(w)
        BY <2>9, <1>1, FinishData DEF SyncInv
    <2>10. CASE Crash
        BY <2>10, <1>1, CrashData DEF SyncInv
    <2> QED
        BY <1>3, <2>1, <2>2, <2>3, <2>4, <2>5, <2>6, <2>7, <2>8, <2>9, <2>10
        DEF Next, DispatcherStep, ThreadStep
<1> QED
    BY <1>2, <1>3

\* A player nobody loads or saves is whole and complete.
LEMMA SyncNothingIsLost ==
    ASSUME SyncInv
    PROVE  NoProgressLost /\ WholeRow
<1>1. ASSUME NEW p \in Player, Quiet(p)
      PROVE  \A w \in Thread : ~Saves(w, p) /\ ~Writing(w, p)
    <2> SUFFICES ASSUME NEW w \in Thread, Saves(w, p) PROVE FALSE
        BY DEF Writing
    <2>1. act[w].obj \in Object /\ act[w].obj = <<p, act[w].obj[2]>> /\ act[w].obj[2] \in 1 .. MaxObjects
        BY UsedObjects, ObjectParts DEF SyncInv, TypeInv, Saves, Guid
    <2> QED
        BY <1>1, <2>1 DEF Quiet, Saves, IsSaving, Uses
<1>2. NoProgressLost
    BY <1>1 DEF SyncInv, NoProgressLost, Complete, Seen
<1>3. WholeRow
    BY <1>1 DEF SyncInv, WholeRow, Whole, Complete
<1> QED
    BY <1>2, <1>3

\* A statement puts nothing older into a row, and a DELETE takes nothing from it
\* but what is about to be inserted again.
LEMMA SyncGoesOn ==
    ASSUME SyncInv, ~Async, [Next]_vars
    PROVE  GoesOn
<1>1. ASSUME NEW w \in Thread, NEW o, NEW p, o = act[w].obj, p = Guid(o), WriteFirst(w) \/ InsertItems(w)
      PROVE  \A x \in Player : \A part \in Part : row[x][part] \subseteq row'[x][part]
    <2>1. IsSaving(w) /\ TypeOK
        BY <1>1 DEF WriteFirst, InsertItems, IsSaving, SaveSteps, SyncInv, TypeInv
    <2>2. o \in Object /\ p \in Player /\ Saves(w, p)
        BY <1>1, <2>1, SavedObject
    <2>3. \A part \in Part : row[p][part] \subseteq mem[o][part]
        BY <1>1, <2>2 DEF SyncInv, Behind
    <2>4. PICK part \in Part : row' = [row EXCEPT ![p] = [row[p] EXCEPT ![part] = mem[o][part]]]
        BY <1>1 DEF WriteFirst, InsertItems, SetItems, Part
    <2>5. row \in [Player -> Contents] /\ row[p] \in Contents
        BY <2>1, <2>2 DEF TypeOK
    <2>6. \A x \in Player : x # p => row'[x] = row[x]
        BY <2>4, <2>5
    <2>7. \A q \in Part : row'[p][q] = IF q = part THEN mem[o][part] ELSE row[p][q]
        BY <2>2, <2>4, <2>5 DEF Contents
    <2> QED
        BY <2>3, <2>6, <2>7
<1>2. ASSUME NEW w \in Thread, NEW o, NEW p, o = act[w].obj, p = Guid(o), InsertBatch(w)
      PROVE  \A x \in Player : \A part \in Part : row[x][part] \subseteq row'[x][part]
    <2>1. TypeOK /\ p \in Player /\ row \in [Player -> Contents] /\ row[p] \in Contents
        BY <1>2, ItemsStep DEF SyncInv, TypeInv, TypeOK
    <2>2. PICK more : row' = [row EXCEPT ![p] = [row[p] EXCEPT !["items"] = row[p]["items"] \cup more]]
        BY <1>2 DEF InsertBatch, SetItems
    <2>3. /\ \A x \in Player : x # p => row'[x] = row[x]
          /\ row'[p] = [row[p] EXCEPT !["items"] = row[p]["items"] \cup more]
        BY <2>1, <2>2
    <2>4. row'[p]["first"] = row[p]["first"] /\ row'[p]["items"] = row[p]["items"] \cup more
        BY <2>1, <2>3 DEF Contents, Part
    <2> QED
        BY <2>3, <2>4 DEF Part
<1>3. ASSUME NEW w \in Thread, NEW o, NEW p, o = act[w].obj, p = Guid(o), ClearItems(w)
      PROVE  GoesOn
    <2>1. /\ TypeOK /\ IsSaving(w) /\ o \in Object /\ p \in Player
          /\ \A x \in Player : x # p => row'[x] = row[x]
          /\ row'[p]["first"] = row[p]["first"]
        BY <1>3, ItemsStep DEF SyncInv, TypeInv
    <2>2. Saves(w, p)
        BY <1>3, <2>1 DEF Saves
    <2>3. Clears(w, p)
        <3>1. act[w].do = "clear" /\ act' = [act EXCEPT ![w] = Saving("insert", o, act[w].after)]
            BY <1>3 DEF ClearItems
        <3> QED
            BY <1>3, <2>1, <3>1 DEF Clears, Saving, TypeOK
    <2>4. \A part \in Part : row[p][part] \subseteq mem[act[w].obj][part]
        BY <2>1, <2>2 DEF SyncInv, Behind
    <2> QED
        BY <2>1, <2>3, <2>4 DEF GoesOn, Part
<1>4. row' = row \/ \E w \in Thread : WriteFirst(w) \/ ClearItems(w) \/ InsertBatch(w) \/ InsertItems(w)
    BY DEF Next, vars, DispatcherStep, ThreadStep, Change, SavePlayer, Logout, Load, Destroy,
           ScheduleAll, Shutdown, LoadFirst, LoadItems, ShutdownSaveAll, TakeJob, Lock, WriteFails,
           EndSubmit, EndSaveAll, Submit, Crash
<1> QED
    BY <1>1, <1>2, <1>3, <1>4 DEF GoesOn

\* Without toggleSaveAsync, whatever statement fails and whenever the server
\* crashes: no change of a player is lost and no row mixes two states (of those
\* whose save did not fail and who were not in the game when it crashed).
THEOREM NothingIsLost ==
    ASSUME ~Async
    PROVE  Spec => [](NoProgressLost /\ WholeRow)
BY InitSync, NextSync, SyncNothingIsLost, PTL DEF Spec

\* Without toggleSaveAsync a save never puts an older state over a newer one:
\* nothing is taken from a row but by the DELETE of a save whose object holds all
\* of it, whatever failed before and whenever the server crashed.
THEOREM SavesGoForward ==
    ASSUME ~Async
    PROVE  Spec => NeverGoesBack
<1>1. SyncInv /\ [Next]_vars => [GoesOn]_vars
    BY SyncGoesOn
<1> QED
    BY InitSync, NextSync, <1>1, PTL DEF Spec, NeverGoesBack

-----------------------------------------------------------------------------
(* Requests to save a player during its first login, with and without        *)
(* toggleSaveAsync, as long as statements succeed and the server lives.      *)

Busy(w) == act[w].do \in SaveSteps \cup {"load"}

\* Objects in use were made; only the dispatcher loads.
Made ==
    /\ \A p \in Player : online[p] <= made[p]
    /\ \A w \in Thread : Busy(w) => act[w].obj[2] <= made[Guid(act[w].obj)]
    /\ \A i \in DOMAIN queue : queue[i].kind # "all" => queue[i].obj[2] <= made[Guid(queue[i].obj)]
    /\ \A o \in dead : o[2] <= made[Guid(o)]
    /\ \A w \in Thread : act[w].do = "load" => w = 1

Loading(p) == act[1].do = "load" /\ Guid(act[1].obj) = p
Queues(p)  == \E i \in DOMAIN queue : queue[i].kind # "all" /\ Guid(queue[i].obj) = p

\* Nothing was ever written of a player whose first object is being loaded.
FirstLoad(p) ==
    /\ made[p] = 0 => \A part \in Part : row[p][part] = {}
    /\ made[p] = 1 /\ Loading(p) =>
           /\ online[p] = 0 /\ <<p, 1>> \notin dead
           /\ (\A w \in Thread : ~Saves(w, p)) /\ ~Queues(p)
           /\ \A part \in Part : row[p][part] = {}
           /\ act[1].part = "items" => mem[<<p, 1>>]["first"] = {}

\* A job that will be asked to save the player, or is about to read it.
Asks(p) ==
    \/ \E i \in DOMAIN queue :
           queue[i].kind = "player" /\ Guid(queue[i].obj) = p /\ queue[i].at = stamp[p]
    \/ \E w \in Thread : Saves(w, p) /\ act[w].do \in {"lock", "first"}

\* What the last request was made for is in the row, half way, or still to come.
Requested(p) ==
    \/ Asks(p)
    \/ (\E w \in Thread : Writing(w, p)) /\ asked[p] \subseteq row[p]["first"]
    \/ \A part \in Part : asked[p] \subseteq row[p][part]

KeptRequest(p) ==
    made[p] = 1 /\ online[p] = 1 =>
        /\ mem[<<p, 1>>]["first"] = mem[<<p, 1>>]["items"]
        /\ asked[p] \subseteq mem[<<p, 1>>]["first"]
        /\ <<p, 1>> \notin dead
        /\ Requested(p)

RequestInv == TypeInv /\ Made /\ \A p \in Player : FirstLoad(p) /\ KeptRequest(p)

\* The numbers of objects are natural numbers.
LEMMA ObjectNumbers ==
    ASSUME RequestInv
    PROVE  /\ \A p \in Player : made[p] \in Nat /\ online[p] \in Nat /\ online[p] <= made[p]
           /\ \A w \in Thread : Busy(w) =>
                  /\ act[w].obj \in Object /\ Guid(act[w].obj) \in Player
                  /\ act[w].obj = <<Guid(act[w].obj), act[w].obj[2]>>
                  /\ act[w].obj[2] \in Nat /\ 1 <= act[w].obj[2]
                  /\ act[w].obj[2] <= made[Guid(act[w].obj)]
           /\ \A i \in DOMAIN queue : queue[i].kind # "all" =>
                  /\ queue[i].obj \in Object /\ Guid(queue[i].obj) \in Player
                  /\ queue[i].obj = <<Guid(queue[i].obj), queue[i].obj[2]>>
                  /\ queue[i].obj[2] \in Nat /\ 1 <= queue[i].obj[2]
                  /\ queue[i].obj[2] <= made[Guid(queue[i].obj)]
<1>1. TypeOK /\ Made
    BY DEF RequestInv, TypeInv
<1>2. \A p \in Player : made[p] \in Nat /\ online[p] \in Nat /\ online[p] <= made[p]
    BY <1>1 DEF TypeOK, Made
<1>3. \A o \in Object : /\ o = <<Guid(o), o[2]>> /\ Guid(o) \in Player
                        /\ o[2] \in Nat /\ 1 <= o[2]
    BY SaveManagerAssumption, ObjectParts DEF Guid
<1>4. \A w \in Thread : Busy(w) => act[w].obj \in Object
    <2>1. \A w \in Thread : act[w] \in Activity
        BY <1>1 DEF TypeOK
    <2> QED
        BY <2>1, ActivityParts DEF Busy
<1>5. \A i \in DOMAIN queue : queue[i].kind # "all" => queue[i].obj \in Object
    <2>1. \A i \in DOMAIN queue : queue[i] \in Job
        BY <1>1 DEF TypeOK
    <2> QED
        BY <2>1, JobParts
<1> QED
    BY <1>1, <1>2, <1>3, <1>4, <1>5 DEF Made

\* A player whose objects, row and requests do not change.
LEMMA StillKept ==
    ASSUME NEW p \in Player, KeptRequest(p),
           made'[p] = 1 /\ online'[p] = 1 => made[p] = 1 /\ online[p] = 1,
           row'[p] = row[p], asked'[p] = asked[p], mem'[<<p, 1>>] = mem[<<p, 1>>],
           <<p, 1>> \in dead' => <<p, 1>> \in dead,
           made[p] = 1 /\ online[p] = 1 /\ Asks(p) => Asks(p)',
           \A w \in Thread : Writing(w, p) => Writing(w, p)'
    PROVE  KeptRequest(p)'
<1>1. made[p] = 1 /\ online[p] = 1 /\ Requested(p) => Requested(p)'
    BY DEF Requested
<1> QED
    BY <1>1 DEF KeptRequest

LEMMA StillFirst ==
    ASSUME NEW p \in Player, FirstLoad(p),
           made'[p] = made[p], online'[p] = online[p], row'[p] = row[p],
           Loading(p)' => /\ Loading(p) /\ mem'[<<p, 1>>] = mem[<<p, 1>>]
                          /\ act'[1].part = "items" => act[1].part = "items",
           Loading(p) /\ <<p, 1>> \in dead' => <<p, 1>> \in dead,
           \A w \in Thread : Saves(w, p)' => Saves(w, p) \/ Queues(p),
           Queues(p)' => Queues(p)
    PROVE  FirstLoad(p)'
BY DEF FirstLoad

-----------------------------------------------------------------------------
(* Jobs that come and go. *)

LEMMA QueueGrows ==
    ASSUME RequestInv, NEW j, queue' = Append(queue, j)
    PROVE  /\ \A i \in DOMAIN queue' : (i \in DOMAIN queue /\ queue'[i] = queue[i]) \/ queue'[i] = j
           /\ \A i \in DOMAIN queue : i \in DOMAIN queue' /\ queue'[i] = queue[i]
           /\ \E i \in DOMAIN queue' : queue'[i] = j
<1>1. queue \in Seq(Job)
    BY DEF RequestInv, TypeInv, TypeOK
<1>2. /\ DOMAIN queue = 1 .. Len(queue) /\ DOMAIN queue' = 1 .. Len(queue) + 1 /\ Len(queue) \in Nat
      /\ queue'[Len(queue) + 1] = j
      /\ \A i \in 1 .. Len(queue) : queue'[i] = queue[i]
    BY <1>1
<1> QED
    BY <1>2

\* A request that is still asked for stays so while its job, or the thread
\* that runs it, stays.
LEMMA StillAsks ==
    ASSUME NEW p \in Player, Asks(p), stamp'[p] = stamp[p],
           \A i \in DOMAIN queue : \E k \in DOMAIN queue' : queue'[k] = queue[i],
           \A w \in Thread : Saves(w, p) /\ act[w].do \in {"lock", "first"} =>
               Saves(w, p)' /\ act'[w].do \in {"lock", "first"}
    PROVE  Asks(p)'
BY DEF Asks

\* Steps of other threads and of other players.
LEMMA ChangeRequests ==
    ASSUME RequestInv, NEW x \in Player, Change(x)
    PROVE  Made' /\ \A p \in Player : FirstLoad(p)' /\ KeptRequest(p)'
<1>1. /\ UNCHANGED <<online, made, dead, row, stamp, queue, act, asked>> /\ TypeOK
      /\ online[x] # 0 /\ changes[x] \in Nat /\ mem' = Changed(Current(x), x)
    BY DEF RequestInv, TypeInv, TypeOK, Change, stamps, pool
<1>2. Made'
    BY <1>1 DEF RequestInv, Made, Busy
<1>3. Current(x) \in Object /\ Guid(Current(x)) = x
    BY <1>1, CurrentIsObject
<1>4. /\ \A o \in Object : Guid(o) # x => mem'[o] = mem[o]
      /\ \A part \in Part : mem'[Current(x)][part] = mem[Current(x)][part] \cup {changes[x] + 1}
    BY <1>1, <1>3 DEF Changed, TypeOK
<1>5. \A w \in Thread : \A p \in Player :
          /\ Saves(w, p)' <=> Saves(w, p)
          /\ Writing(w, p)' <=> Writing(w, p)
    BY <1>1 DEF Saves, Writing, IsSaving
<1>6. \A p \in Player : (Queues(p)' <=> Queues(p)) /\ ~Loading(p)'
    BY <1>1 DEF Queues, Loading, Change, Running, Idle
<1>7. \A p \in Player : FirstLoad(p)'
    BY <1>1, <1>5, <1>6 DEF RequestInv, FirstLoad
<1>8. \A p \in Player : Asks(p) => Asks(p)'
    BY <1>1, <1>5 DEF Asks
<1>9. ASSUME NEW p \in Player
      PROVE  KeptRequest(p)'
    <2> SUFFICES ASSUME made[p] = 1, online[p] = 1
                 PROVE  KeptRequest(p)'
        BY <1>1 DEF KeptRequest
    <2>1. <<p, 1>> \in Object /\ Guid(<<p, 1>>) = p
        BY <1>1, CurrentIsObject DEF Current
    <2>2. CASE p # x
        BY <1>1, <1>4, <1>5, <1>8, <2>1, <2>2, StillKept DEF RequestInv
    <2>3. CASE p = x
        <3>1. KeptRequest(p) /\ Current(x) = <<p, 1>>
            BY <2>3 DEF RequestInv, Current
        <3>2. /\ mem'[<<p, 1>>]["first"] = mem'[<<p, 1>>]["items"]
              /\ asked'[p] \subseteq mem'[<<p, 1>>]["first"]
            BY <1>1, <1>4, <2>3, <3>1 DEF KeptRequest, Part
        <3>3. Requested(p)'
            BY <1>1, <1>5, <1>8, <3>1 DEF KeptRequest, Requested
        <3> QED
            BY <1>1, <3>1, <3>2, <3>3 DEF KeptRequest
    <2> QED
        BY <2>2, <2>3
<1> QED
    BY <1>2, <1>7, <1>9

\* Requests to save: a job or, on the dispatcher's thread, a save.
LEMMA ScheduleAsks ==
    ASSUME RequestInv, NEW x \in Player, NEW o, Guid(o) = x, Schedule(o)
    PROVE  /\ Asks(x)'
           /\ \A p \in Player : p # x => (Asks(p) => Asks(p)') /\ (Queues(p)' <=> Queues(p))
           /\ \A i \in DOMAIN queue' : (i \in DOMAIN queue /\ queue'[i] = queue[i]) \/ queue'[i].obj = o
           /\ act' = act
<1> DEFINE j == [kind |-> "player", obj |-> o, at |-> now + 1]
<1>1. /\ queue' = Append(queue, j) /\ stamp' = [stamp EXCEPT ![x] = now + 1] /\ act' = act
      /\ j.kind = "player" /\ j.obj = o /\ j.at = now + 1
    BY DEF Schedule
<1>2. /\ \A i \in DOMAIN queue' : (i \in DOMAIN queue /\ queue'[i] = queue[i]) \/ queue'[i] = j
      /\ \A i \in DOMAIN queue : i \in DOMAIN queue' /\ queue'[i] = queue[i]
      /\ \E i \in DOMAIN queue' : queue'[i] = j
    BY <1>1, QueueGrows
<1>3. stamp'[x] = now + 1 /\ \A p \in Player : p # x => stamp'[p] = stamp[p]
    BY <1>1 DEF RequestInv, TypeInv, TypeOK
<1>4. Asks(x)'
    BY <1>1, <1>2, <1>3 DEF Asks
<1>5. \A p \in Player : \A w \in Thread : Saves(w, p)' <=> Saves(w, p)
    BY <1>1 DEF Saves, IsSaving
<1>6. ASSUME NEW p \in Player, p # x
      PROVE  (Asks(p) => Asks(p)') /\ (Queues(p)' <=> Queues(p))
    <2>1. Asks(p) => Asks(p)'
        BY <1>1, <1>2, <1>3, <1>5, <1>6, StillAsks
    <2>2. Queues(p)' <=> Queues(p)
        BY <1>1, <1>2, <1>6 DEF Queues
    <2> QED
        BY <2>1, <2>2
<1> QED
    BY <1>1, <1>2, <1>4, <1>6

LEMMA SaveHereAsks ==
    ASSUME RequestInv, NEW x \in Player, NEW o, Guid(o) = x, NEW after, SaveHere(o, after), act[1] = Idle
    PROVE  /\ Asks(x)'
           /\ act'[1].do = "lock" /\ act'[1].obj = o /\ \A w \in Thread : w # 1 => act'[w] = act[w]
           /\ UNCHANGED <<queue, stamp>>
           /\ \A p \in Player : p # x => (Asks(p) => Asks(p)')
           /\ \A w \in Thread : \A p \in Player :
                  /\ Saves(w, p)' <=> Saves(w, p) \/ (w = 1 /\ p = x)
                  /\ Writing(w, p)' <=> Writing(w, p)
<1>1. act' = [act EXCEPT ![1] = Saving("lock", o, after)] /\ UNCHANGED <<queue, stamp>>
    BY DEF SaveHere, stamps
<1>2. 1 \in Thread /\ act'[1] = Saving("lock", o, after) /\ \A w \in Thread : w # 1 => act'[w] = act[w]
    BY <1>1, DispatcherActs DEF RequestInv, TypeInv, TypeOK
<1>3. act'[1].do = "lock" /\ act'[1].obj = o
    BY <1>2 DEF Saving
<1>4. \A w \in Thread : \A p \in Player :
          /\ Saves(w, p)' <=> Saves(w, p) \/ (w = 1 /\ p = x)
          /\ Writing(w, p)' <=> Writing(w, p)
    BY <1>2, <1>3 DEF Saves, Writing, IsSaving, SaveSteps, Idle
<1>5. Asks(x)'
    BY <1>2, <1>3, <1>4 DEF Asks
<1>6. \A p \in Player : Asks(p) => Asks(p)'
    BY <1>1, <1>2, <1>3, <1>4 DEF Asks
<1> QED
    BY <1>1, <1>2, <1>3, <1>4, <1>5, <1>6
\* The dispatcher is idle: nobody is being loaded.
LEMMA IdleLoadsNobody ==
    ASSUME act[1] = Idle
    PROVE  \A p \in Player : ~Loading(p)
BY DEF Loading, Idle

LEMMA AskRequests ==
    ASSUME RequestInv, NEW x \in Player, SavePlayer(x) \/ Logout(x)
    PROVE  Made' /\ \A p \in Player : FirstLoad(p)' /\ KeptRequest(p)'
<1> DEFINE o == <<x, online[x]>>
<1>1. /\ UNCHANGED <<made, dead, row, mem>> /\ TypeOK /\ online[x] # 0 /\ act[1] = Idle
      /\ \A p \in Player : p # x => online'[p] = online[p] /\ asked'[p] = asked[p]
      /\ online'[x] \in {0, online[x]}
      /\ online'[x] # 0 => asked'[x] \in {asked[x], mem[Current(x)]["first"]}
    <2>1. CASE SavePlayer(x)
        BY <2>1 DEF SavePlayer, RequestInv, TypeInv, TypeOK, objects, Running
    <2>2. CASE Logout(x)
        BY <2>2 DEF Logout, RequestInv, TypeInv, TypeOK, history
    <2> QED
        BY <2>1, <2>2
<1>2. (Schedule(Current(x)) /\ Current(x) = o) \/ \E after : SaveHere(o, after)
    BY DEF SavePlayer, Logout, Current
<1>3. Guid(o) = x /\ o[2] = online[x] /\ online[x] <= made[x] /\ 1 \in Thread
    BY DispatcherActs DEF Guid, RequestInv, Made, TypeInv
<1>4. /\ Asks(x)'
      /\ \A p \in Player : p # x => (Asks(p) => Asks(p)') /\ (Queues(p)' <=> Queues(p))
      /\ \A w \in Thread : \A p \in Player :
             /\ p # x => (Saves(w, p)' <=> Saves(w, p))
             /\ Writing(w, p)' <=> Writing(w, p)
      /\ \A w \in Thread : act'[w] = act[w] \/ (act'[w].do = "lock" /\ act'[w].obj = <<x, online[x]>>)
      /\ \A i \in DOMAIN queue' : (i \in DOMAIN queue /\ queue'[i] = queue[i])
                                   \/ queue'[i].obj = <<x, online[x]>>
    <2>1. ASSUME NEW c, c = o, Schedule(c)
          PROVE  <1>4
        <3>1. act' = act
            BY <1>3, <2>1, ScheduleAsks
        <3> QED
            BY <1>3, <2>1, <3>1, ScheduleAsks DEF Saves, Writing, IsSaving
    <2>2. ASSUME NEW c, c = o, NEW after, SaveHere(c, after)
          PROVE  <1>4
        BY <1>1, <1>3, <2>2, SaveHereAsks DEF Queues
    <2> QED
        BY <1>2, <2>1, <2>2
<1>5. Made'
    <2> USE DEF RequestInv, Made
    <2>1. <<x, online[x]>>[2] = online[x] /\ Guid(<<x, online[x]>>) = x
        BY DEF Guid
    <2>2. \A p \in Player : online'[p] <= made'[p]
        <3>1. 0 <= made[x]
            BY <1>1 DEF TypeOK
        <3> QED
            BY <1>1, <3>1
    <2>3. \A w \in Thread : Busy(w)' => act'[w].obj[2] <= made'[Guid(act'[w].obj)]
        BY <1>1, <1>3, <1>4, <2>1 DEF Busy
    <2>4. \A i \in DOMAIN queue' : queue'[i].kind # "all" => queue'[i].obj[2] <= made'[Guid(queue'[i].obj)]
        BY <1>1, <1>3, <1>4, <2>1
    <2>5. \A w \in Thread : act'[w].do = "load" => w = 1
        BY <1>4
    <2> QED
        BY <1>1, <2>2, <2>3, <2>4, <2>5
<1>6. \A p \in Player : ~Loading(p)'
    BY <1>1, <1>3, <1>4, IdleLoadsNobody DEF Loading
<1>7. \A p \in Player : FirstLoad(p)'
    BY <1>1, <1>6 DEF RequestInv, FirstLoad
<1>8. ASSUME NEW p \in Player
      PROVE  KeptRequest(p)'
    <2>1. CASE p # x
        BY <1>1, <1>4, <2>1, StillKept DEF RequestInv
    <2>2. CASE p = x
        <3> SUFFICES ASSUME made'[p] = 1, online'[p] = 1
                     PROVE  KeptRequest(p)'
            BY DEF KeptRequest
        <3>1. made[p] = 1 /\ online[p] = 1 /\ Current(p) = <<p, 1>>
            BY <1>1, <2>2 DEF Current
        <3>2. KeptRequest(p)
            BY DEF RequestInv
        <3>3. asked'[p] \subseteq mem[<<p, 1>>]["first"]
            BY <1>1, <2>2, <3>1, <3>2 DEF KeptRequest
        <3> QED
            BY <1>1, <1>4, <2>2, <3>1, <3>2, <3>3 DEF KeptRequest, Requested
    <2> QED
        BY <2>1, <2>2
<1> QED
    BY <1>5, <1>7, <1>8
\* A new object is made and loaded.
LEMMA LoadRequests ==
    ASSUME RequestInv, NEW x \in Player, NEW purpose \in {"login", "offline"}, Load(x, purpose)
    PROVE  Made' /\ \A p \in Player : FirstLoad(p)' /\ KeptRequest(p)'
<1> DEFINE o == <<x, made[x] + 1>>
<1>1. /\ UNCHANGED <<online, dead, row, mem, asked, stamp, queue>> /\ TypeOK /\ online[x] = 0 /\ act[1] = Idle
      /\ made[x] \in Nat /\ 1 \in Thread
      /\ made'[x] = made[x] + 1 /\ \A p \in Player : p # x => made'[p] = made[p]
    BY DispatcherActs DEF Load, RequestInv, TypeInv, TypeOK, Running, stamps, history
<1>2. act'[1] = [do |-> "load", obj |-> o, part |-> "first", for |-> purpose]
    BY <1>1 DEF Load, TypeOK
<1>3. /\ act'[1].do = "load" /\ act'[1].obj = o /\ act'[1].part = "first"
      /\ Guid(o) = x /\ o[2] = made[x] + 1
      /\ \A w \in Thread : w # 1 => act'[w] = act[w]
    BY <1>1, <1>2 DEF Guid, Load, TypeOK
<1>4. \A w \in Thread : \A p \in Player :
          (Saves(w, p)' <=> Saves(w, p)) /\ (Writing(w, p)' <=> Writing(w, p))
    BY <1>1, <1>3 DEF Saves, Writing, IsSaving, SaveSteps, Idle
<1>5. \A p \in Player : (Loading(p)' <=> p = x) /\ (Queues(p)' <=> Queues(p)) /\ ~Loading(p)
    BY <1>1, <1>3, IdleLoadsNobody DEF Loading, Queues
<1>6. \A p \in Player : made[p] \in Nat /\ made'[p] \in Nat /\ made[p] <= made'[p]
    BY <1>1, ObjectNumbers
<1>7. Made'
    <2>1. \A p \in Player : online'[p] <= made'[p]
        BY <1>1, <1>6, ObjectNumbers
    <2>2. \A w \in Thread : Busy(w)' => act'[w].obj[2] <= made'[Guid(act'[w].obj)]
        <3>1. \A w \in Thread : w # 1 /\ Busy(w)' => Busy(w)
            BY <1>3 DEF Busy
        <3> QED
            BY <1>1, <1>3, <1>6, <3>1, ObjectNumbers
    <2>3. \A i \in DOMAIN queue' : queue'[i].kind # "all" => queue'[i].obj[2] <= made'[Guid(queue'[i].obj)]
        BY <1>1, <1>6, ObjectNumbers
    <2>4. \A d \in dead' : d[2] <= made'[Guid(d)]
        <3>1. \A d \in dead : Guid(d) \in Player /\ d[2] \in Nat /\ d[2] <= made[Guid(d)]
            BY <1>1, ObjectParts, SaveManagerAssumption DEF TypeOK, RequestInv, Made
        <3> QED
            BY <1>1, <1>6, <3>1
    <2>5. \A w \in Thread : act'[w].do = "load" => w = 1
        BY <1>3 DEF RequestInv, Made
    <2> QED
        BY <2>1, <2>2, <2>3, <2>4, <2>5 DEF Made
<1>8. ASSUME NEW p \in Player
      PROVE  FirstLoad(p)'
    <2>1. FirstLoad(p)
        BY DEF RequestInv
    <2>2. CASE p # x
        BY <1>1, <1>4, <1>5, <2>1, <2>2, StillFirst
    <2>3. CASE p = x
        <3> SUFFICES ASSUME made'[p] = 1
                     PROVE  FirstLoad(p)'
            BY <1>1, <2>3 DEF FirstLoad
        <3>1. made[p] = 0
            BY <1>1, <2>3
        <3>2. \A w \in Thread : ~Saves(w, p)
            BY <3>1, ObjectNumbers DEF Saves, IsSaving, Busy
        <3>3. ~Queues(p)
            BY <3>1, ObjectNumbers DEF Queues
        <3>4. <<p, 1>> \notin dead
            BY <3>1 DEF RequestInv, Made, Guid
        <3> QED
            BY <1>1, <1>3, <1>4, <1>5, <2>1, <2>3, <3>1, <3>2, <3>3, <3>4 DEF FirstLoad
    <2> QED
        BY <2>2, <2>3
<1>9. \A p \in Player : Asks(p) => Asks(p)'
    BY <1>1, <1>3, <1>4 DEF Asks, Idle
<1>10. ASSUME NEW p \in Player
       PROVE  KeptRequest(p)'
    <2>1. CASE p # x
        BY <1>1, <1>4, <1>9, <2>1, StillKept DEF RequestInv
    <2>2. CASE p = x
        BY <1>1, <2>2 DEF KeptRequest
    <2> QED
        BY <2>1, <2>2
<1> QED
    BY <1>7, <1>8, <1>10

\* The first part of an object is read: nothing yet, if it is the first one.
LEMMA LoadFirstRequests ==
    ASSUME RequestInv, LoadFirst, NEW o, NEW x, o = act[1].obj, x = Guid(o)
    PROVE  Made' /\ \A p \in Player : FirstLoad(p)' /\ KeptRequest(p)'
<1>1. /\ UNCHANGED <<online, made, dead, row, asked, stamp, queue>> /\ TypeOK /\ 1 \in Thread
      /\ act[1].do = "load" /\ act[1] \in Activity /\ Busy(1)
    BY DispatcherActs DEF LoadFirst, RequestInv, TypeInv, Busy, stamps, history
<1>2. o \in Object /\ x \in Player /\ o = <<x, o[2]>> /\ o[2] \in Nat /\ 1 <= o[2] /\ o[2] <= made[x]
    BY <1>1, ObjectNumbers
<1>3. act'[1].do = "load" /\ act'[1].obj = o /\ \A w \in Thread : w # 1 => act'[w] = act[w]
    <2>1. act' = [act EXCEPT ![1] = [act[1] EXCEPT !.part = "items"]]
        BY DEF LoadFirst
    <2>2. act[1] \in [do : {"load"}, obj : Object, part : Part, for : {"login", "offline"}]
        BY <1>1 DEF Activity, Idle, SaveSteps
    <2> QED
        BY <1>1, <2>1, <2>2 DEF TypeOK
<1>4. \A w \in Thread : \A p \in Player :
          (Saves(w, p)' <=> Saves(w, p)) /\ (Writing(w, p)' <=> Writing(w, p))
    BY <1>1, <1>3 DEF Saves, Writing, IsSaving, SaveSteps
<1>5. \A p \in Player : (Loading(p)' <=> p = x) /\ (Loading(p) <=> p = x) /\ (Queues(p)' <=> Queues(p))
    BY <1>1, <1>3 DEF Loading, Queues
<1>6. Made'
    BY <1>1, <1>2, <1>3 DEF RequestInv, Made, Busy
<1>7. /\ mem'[o]["first"] = row[x]["first"]
      /\ \A c \in Object : c # o => mem'[c] = mem[c]
    <2>1. mem' = [mem EXCEPT ![o] = [mem[o] EXCEPT !["first"] = row[x]["first"]]]
        BY DEF LoadFirst
    <2> QED
        BY <1>1, <1>2, <2>1 DEF TypeOK, Contents, Part
<1>8. ASSUME NEW p \in Player
      PROVE  FirstLoad(p)'
    <2>1. FirstLoad(p)
        BY DEF RequestInv
    <2>2. CASE p # x
        BY <1>1, <1>4, <1>5, <2>1, <2>2, StillFirst
    <2>3. CASE p = x
        <3>1. made[p] = 1 => o = <<p, 1>>
            BY <1>2, <2>3
        <3> QED
            BY <1>1, <1>4, <1>5, <1>7, <2>1, <2>3, <3>1 DEF FirstLoad, Part
    <2> QED
        BY <2>2, <2>3
<1>9. \A p \in Player : Asks(p) => Asks(p)'
    BY <1>1, <1>3, <1>4 DEF Asks
<1>10. ASSUME NEW p \in Player
       PROVE  KeptRequest(p)'
    <2>1. CASE p # x /\ made[p] = 1 /\ online[p] = 1
        <3>1. <<p, 1>> \in Object /\ <<p, 1>> # o
            BY <1>1, <1>2, <2>1, CurrentIsObject DEF Current
        <3> QED
            BY <1>1, <1>4, <1>7, <1>9, <2>1, <3>1, StillKept DEF RequestInv
    <2>2. CASE p = x
        BY <1>1, <1>5, <2>2 DEF RequestInv, FirstLoad, KeptRequest
    <2> QED
        BY <1>1, <2>1, <2>2 DEF KeptRequest
<1> QED
    BY <1>6, <1>8, <1>10

\* The load ends, in a login or a save.
LEMMA LoadItemsRequests ==
    ASSUME RequestInv, LoadItems, NEW o, NEW x, o = act[1].obj, x = Guid(o)
    PROVE  Made' /\ \A p \in Player : FirstLoad(p)' /\ KeptRequest(p)'
<1>1. /\ UNCHANGED <<made, dead, row, stamp, queue>> /\ TypeOK /\ 1 \in Thread
      /\ act[1].do = "load" /\ act[1].part = "items" /\ act[1] \in Activity /\ Busy(1)
    BY DispatcherActs DEF LoadItems, RequestInv, TypeInv, Busy, stamps
<1>2. o \in Object /\ x \in Player /\ o = <<x, o[2]>> /\ o[2] \in Nat /\ 1 <= o[2] /\ o[2] <= made[x]
    BY <1>1, ObjectNumbers
<1>3. /\ \A p \in Player : p # x => online'[p] = online[p] /\ asked'[p] = asked[p]
      /\ \A c \in Object : c # o => mem'[c] = mem[c]
      /\ act'[1].do \in {"idle", "lock"} /\ (act'[1].do = "lock" => act'[1].obj = o)
      /\ \A w \in Thread : w # 1 => act'[w] = act[w]
      /\ \/ online'[x] = online[x]
         \/ /\ online'[x] = o[2] /\ asked'[x] = {}
            /\ mem'[o]["first"] = mem[o]["first"] /\ mem'[o]["items"] = row[x]["items"]
    <2> DEFINE loaded == [mem EXCEPT ![o] = [mem[o] EXCEPT !["items"] = row[x]["items"]]]
    <2>1. /\ loaded[o]["first"] = mem[o]["first"] /\ loaded[o]["items"] = row[x]["items"]
          /\ \A c \in Object : c # o => loaded[c] = mem[c]
          /\ loaded \in [Object -> Contents]
        BY <1>1, <1>2 DEF TypeOK, Contents, Part
    <2>2. CASE act[1].for = "login"
        <3>1. /\ mem' = loaded /\ online' = [online EXCEPT ![x] = o[2]] /\ act' = [act EXCEPT ![1] = Idle]
              /\ asked' = [asked EXCEPT ![x] = {}]
            BY <2>2 DEF LoadItems
        <3>2. act'[1] = Idle
            BY <1>1, <3>1 DEF TypeOK
        <3> HIDE DEF loaded
        <3> QED
            BY <1>1, <1>2, <2>1, <3>1, <3>2 DEF TypeOK, Idle
    <2>3. CASE act[1].for = "offline"
        <3>1. /\ mem' = [loaded EXCEPT ![o] = [part \in Part |-> loaded[o][part] \cup {changes[x] + 1}]]
              /\ act' = [act EXCEPT ![1] = Saving("lock", o, Nothing)] /\ online' = online /\ asked' = asked
            BY <2>3 DEF LoadItems
        <3>2. act'[1] = Saving("lock", o, Nothing)
            BY <1>1, <3>1 DEF TypeOK
        <3>3. act'[1].do = "lock" /\ act'[1].obj = o
            BY <3>2 DEF Saving
        <3> HIDE DEF loaded
        <3>4. \A c \in Object : c # o => mem'[c] = mem[c]
            BY <2>1, <3>1
        <3> QED
            BY <1>1, <3>1, <3>3, <3>4 DEF TypeOK
    <2> QED
        BY <1>1, <2>2, <2>3, ActivityParts
<1>4. \A w \in Thread : \A p \in Player :
          /\ Saves(w, p) => Saves(w, p)' /\ act'[w].do = act[w].do
          /\ Writing(w, p) => Writing(w, p)'
    BY <1>1, <1>3 DEF Saves, Writing, IsSaving, SaveSteps
<1>5. \A p \in Player : ~Loading(p)'
    BY <1>3 DEF Loading
<1>6. Made'
    <2>1. \A p \in Player : online'[p] <= made'[p]
        BY <1>1, <1>2, <1>3 DEF RequestInv, Made
    <2>2. \A w \in Thread : Busy(w)' => act'[w].obj[2] <= made'[Guid(act'[w].obj)]
        BY <1>1, <1>2, <1>3 DEF RequestInv, Made, Busy, SaveSteps
    <2>3. \A w \in Thread : act'[w].do = "load" => w = 1
        BY <1>3 DEF RequestInv, Made
    <2> QED
        BY <1>1, <2>1, <2>2, <2>3 DEF RequestInv, Made
<1>7. \A p \in Player : FirstLoad(p)'
    BY <1>1, <1>5 DEF RequestInv, FirstLoad
<1>8. \A p \in Player : Asks(p) => Asks(p)'
    BY <1>1, <1>3, <1>4 DEF Asks
<1>9. ASSUME NEW p \in Player
      PROVE  KeptRequest(p)'
    <2>1. CASE p # x
        <3> SUFFICES ASSUME made[p] = 1, online[p] = 1
                     PROVE  KeptRequest(p)'
            BY <1>1, <1>3, <2>1 DEF KeptRequest
        <3>1. <<p, 1>> \in Object /\ <<p, 1>> # o
            BY <1>1, <1>2, <2>1, CurrentIsObject DEF Current
        <3> QED
            BY <1>1, <1>3, <1>4, <1>8, <2>1, <3>1, StillKept DEF RequestInv
    <2>2. CASE p = x
        <3> SUFFICES ASSUME made'[p] = 1, online'[p] = 1
                     PROVE  KeptRequest(p)'
            BY DEF KeptRequest
        <3>1. o = <<p, 1>> /\ made[p] = 1 /\ Loading(p)
            BY <1>1, <1>2, <2>2 DEF Loading
        <3>2. /\ online[p] = 0 /\ <<p, 1>> \notin dead /\ (\A part \in Part : row[p][part] = {})
              /\ mem[o]["first"] = {}
            BY <1>1, <3>1 DEF RequestInv, FirstLoad
        <3>3. asked'[p] = {} /\ mem'[o]["first"] = {} /\ mem'[o]["items"] = {}
            BY <1>3, <2>2, <3>2 DEF Part
        <3> QED
            BY <1>1, <3>1, <3>2, <3>3 DEF KeptRequest, Requested
    <2> QED
        BY <2>1, <2>2
<1> QED
    BY <1>6, <1>7, <1>9
\* An object in the game, or being loaded, is not destroyed.
LEMMA DestroyRequests ==
    ASSUME RequestInv, NEW d \in Object, Destroy(d)
    PROVE  Made' /\ \A p \in Player : FirstLoad(p)' /\ KeptRequest(p)'
<1>1. /\ UNCHANGED <<online, made, mem, row, stamp, queue, act, asked>> /\ dead' = dead \cup {d}
      /\ d[2] <= made[d[1]] /\ online[d[1]] # d[2] /\ \A w \in Thread : ~Uses(w, d)
    BY DEF Destroy, stamps, pool, history
<1>2. Made'
    BY <1>1 DEF RequestInv, Made, Busy, Guid
<1>3. \A w \in Thread : \A p \in Player :
          (Saves(w, p)' <=> Saves(w, p)) /\ (Writing(w, p)' <=> Writing(w, p))
    BY <1>1 DEF Saves, Writing, IsSaving
<1>4. \A p \in Player : (Loading(p)' <=> Loading(p)) /\ (Queues(p)' <=> Queues(p)) /\ (Asks(p)' <=> Asks(p))
    BY <1>1, <1>3 DEF Loading, Queues, Asks
<1>5. 1 \in Thread /\ TypeOK
    BY DispatcherActs DEF RequestInv, TypeInv
<1>6. ASSUME NEW p \in Player
      PROVE  FirstLoad(p)'
    <2>1. FirstLoad(p)
        BY DEF RequestInv
    <2>2. made[p] = 1 /\ Loading(p) => act[1].obj = <<p, 1>> /\ Busy(1)
        <3> SUFFICES ASSUME made[p] = 1, Loading(p)
                     PROVE  act[1].obj = <<p, 1>> /\ Busy(1)
            OBVIOUS
        <3>1. Busy(1)
            BY DEF Loading, Busy
        <3> QED
            BY <1>5, <3>1, ObjectNumbers DEF Loading
    <2>3. made[p] = 1 /\ Loading(p) => d # <<p, 1>>
        BY <1>1, <1>5, <2>2 DEF Uses, Busy
    <2> QED
        BY <1>1, <1>3, <1>4, <2>1, <2>3 DEF FirstLoad
<1>7. ASSUME NEW p \in Player
      PROVE  KeptRequest(p)'
    <2>1. made[p] = 1 /\ online[p] = 1 => d # <<p, 1>>
        BY <1>1
    <2> QED
        BY <1>1, <1>3, <1>4, <2>1 DEF RequestInv, KeptRequest, Requested
<1> QED
    BY <1>2, <1>6, <1>7

\* saveAll begins, goes on and ends; shutdown begins.
LEMMA SaveAllRequests ==
    ASSUME RequestInv, \/ ScheduleAll \/ ShutdownSaveAll \/ Shutdown
                       \/ \E w \in Thread : EndSubmit(w) \/ EndSaveAll(w) \/ \E p \in Player : Submit(w, p)
    PROVE  Made' /\ \A p \in Player : FirstLoad(p)' /\ KeptRequest(p)'
<1>1. UNCHANGED <<online, made, dead, mem, row, stamp, asked>> /\ TypeOK
    BY DEF ScheduleAll, ShutdownSaveAll, Shutdown, EndSubmit, EndSaveAll, Submit, objects, stamps, history,
           RequestInv, TypeInv
<1>2. \A w \in Thread : act'[w] = act[w] \/ /\ act[w].do \in {"idle", "submit", "wait"}
                                            /\ act'[w].do \in {"idle", "submit", "wait"}
    <2>1. CASE Shutdown
        BY <2>1 DEF Shutdown, pool
    <2>2. CASE ScheduleAll \/ ShutdownSaveAll
        <3>1. act' = act \/ act' = [act EXCEPT ![1] = [do |-> "submit", done |-> {}]]
            BY <2>2 DEF ScheduleAll, ShutdownSaveAll
        <3>2. act[1] = Idle
            BY <2>2 DEF ScheduleAll, ShutdownSaveAll, Running
        <3> QED
            BY <1>1, <3>1, <3>2 DEF TypeOK, Idle
    <2>3. ASSUME NEW w \in Thread, EndSubmit(w) \/ EndSaveAll(w) \/ \E p \in Player : Submit(w, p)
          PROVE  <1>2
        <3>1. act[w].do \in {"submit", "wait"}
            BY <2>3 DEF EndSubmit, EndSaveAll, Submit
        <3>2. \/ act' = [act EXCEPT ![w] = Idle]
              \/ act' = [act EXCEPT ![w] = [do |-> "wait"]]
              \/ \E D : act' = [act EXCEPT ![w] = [do |-> "submit", done |-> D]]
            BY <2>3 DEF EndSubmit, EndSaveAll, Submit
        <3> QED
            BY <1>1, <3>1, <3>2 DEF TypeOK, Idle
    <2> QED
        BY <2>1, <2>2, <2>3
<1>3. \/ queue' = queue
      \/ queue' = Append(queue, [kind |-> "all", at |-> now + 1])
      \/ \E p \in Player, w \in Thread :
             /\ online[p] # 0
             /\ queue' = Append(queue, [kind |-> "member", obj |-> Current(p), owner |-> w])
    <2>1. CASE ScheduleAll \/ ShutdownSaveAll \/ Shutdown
        BY <2>1 DEF ScheduleAll, ShutdownSaveAll, Shutdown, pool
    <2>2. CASE \E w \in Thread : EndSubmit(w) \/ EndSaveAll(w)
        BY <2>2 DEF EndSubmit, EndSaveAll
    <2>3. CASE \E w \in Thread : \E p \in Player : Submit(w, p)
        BY <2>3 DEF Submit
    <2> QED
        BY <2>1, <2>2, <2>3
<1>4. /\ \A i \in DOMAIN queue' : \/ i \in DOMAIN queue /\ queue'[i] = queue[i]
                                  \/ queue'[i].kind = "all"
                                  \/ \E p \in Player : queue'[i].obj = Current(p) /\ online[p] # 0
      /\ \A i \in DOMAIN queue : i \in DOMAIN queue' /\ queue'[i] = queue[i]
    <2>1. CASE queue' = queue
        BY <2>1
    <2>2. CASE queue' = Append(queue, [kind |-> "all", at |-> now + 1])
        BY <2>2, QueueGrows
    <2>3. ASSUME NEW p \in Player, NEW w \in Thread, online[p] # 0,
                 queue' = Append(queue, [kind |-> "member", obj |-> Current(p), owner |-> w])
          PROVE  <1>4
        <3> DEFINE j == [kind |-> "member", obj |-> Current(p), owner |-> w]
        <3>1. j.obj = Current(p)
            OBVIOUS
        <3>2. /\ \A i \in DOMAIN queue' : (i \in DOMAIN queue /\ queue'[i] = queue[i]) \/ queue'[i] = j
              /\ \A i \in DOMAIN queue : i \in DOMAIN queue' /\ queue'[i] = queue[i]
            BY <2>3, QueueGrows
        <3> HIDE DEF j
        <3> QED
            BY <2>3, <3>1, <3>2
    <2> QED
        BY <1>3, <2>1, <2>2, <2>3
<1>5. \A w \in Thread : \A p \in Player :
          /\ Saves(w, p)' <=> Saves(w, p)
          /\ Writing(w, p)' <=> Writing(w, p)
    BY <1>2 DEF Saves, Writing, IsSaving, SaveSteps
<1>6. 1 \in Thread
    BY DispatcherActs, <1>1
<1>7. \A p \in Player : Loading(p)' => Loading(p) /\ act'[1] = act[1]
    BY <1>2, <1>6 DEF Loading
<1>8. \A p \in Player : Queues(p)' => Queues(p) \/ online[p] # 0
    BY <1>4 DEF Queues, Guid, Current
<1>9. \A p \in Player : Asks(p) => Asks(p)'
    BY <1>1, <1>2, <1>4, <1>5 DEF Asks
<1>10. Made'
    <2>1. \A w \in Thread : Busy(w)' => Busy(w) /\ act'[w] = act[w]
        BY <1>2 DEF Busy, SaveSteps
    <2>2. \A i \in DOMAIN queue' : queue'[i].kind # "all" => queue'[i].obj[2] <= made'[Guid(queue'[i].obj)]
        <3>1. \A p \in Player : Current(p)[2] <= made[Guid(Current(p))]
            BY DEF RequestInv, Made, Current, Guid
        <3>2. \A i \in DOMAIN queue : queue[i].kind # "all" => queue[i].obj[2] <= made[Guid(queue[i].obj)]
            BY DEF RequestInv, Made
        <3> QED
            BY <1>1, <1>4, <3>1, <3>2
    <2>3. \A w \in Thread : act'[w].do = "load" => w = 1
        BY <1>2 DEF RequestInv, Made
    <2> QED
        BY <1>1, <2>1, <2>2, <2>3 DEF RequestInv, Made
<1>11. ASSUME NEW p \in Player
       PROVE  FirstLoad(p)'
    BY <1>1, <1>5, <1>7, <1>8 DEF RequestInv, FirstLoad
<1>12. ASSUME NEW p \in Player
       PROVE  KeptRequest(p)'
    BY <1>1, <1>5, <1>9, StillKept DEF RequestInv
<1> QED
    BY <1>10, <1>11, <1>12

\* The oldest job is taken: if it is the one the request waits for, it is not
\* skipped.
LEMMA TakeJobRequests ==
    ASSUME RequestInv, NEW w \in Thread, TakeJob(w), NEW j, j = Head(queue)
    PROVE  Made' /\ \A p \in Player : FirstLoad(p)' /\ KeptRequest(p)'
<1>1. /\ UNCHANGED <<online, made, dead, mem, row, stamp, asked>> /\ TypeOK
      /\ w # 1 /\ act[w] = Idle /\ queue' = Tail(queue) /\ queue \in Seq(Job) /\ queue # <<>>
    BY DEF TakeJob, objects, stamps, history, RequestInv, TypeInv, TypeOK
<1>2. /\ j = queue[1] /\ 1 \in DOMAIN queue /\ j \in Job
      /\ \A i \in DOMAIN queue' : i + 1 \in DOMAIN queue /\ queue'[i] = queue[i + 1]
      /\ \A i \in DOMAIN queue : i # 1 => i - 1 \in DOMAIN queue' /\ queue'[i - 1] = queue[i]
    BY <1>1
<1>3. act'[w] = (IF Skipped(j) THEN Idle ELSE Started(j)) /\ \A v \in Thread : v # w => act'[v] = act[v]
    BY <1>1 DEF TakeJob, TypeOK
<1>4. /\ j.kind \in {"player", "member"} => Started(j).do = "lock" /\ Started(j).obj = j.obj
      /\ j.kind = "all" => Started(j).do = "submit"
    BY DEF Started, Saving
<1>5. /\ ~Busy(w) /\ ~IsSaving(w) /\ act'[w].do \in {"idle", "submit", "lock"}
      /\ act'[w].do = "lock" => j.kind # "all" /\ act'[w].obj = j.obj
    BY <1>1, <1>2, <1>3, <1>4, JobParts DEF Busy, IsSaving, SaveSteps, Idle
<1>6. 1 \in Thread /\ act'[1] = act[1]
    BY <1>1, <1>3, DispatcherActs
<1>7. Made'
    <2>1. j.kind # "all" => j.obj[2] <= made[Guid(j.obj)]
        BY <1>2 DEF RequestInv, Made
    <2>2. \A v \in Thread : Busy(v)' => act'[v].obj[2] <= made'[Guid(act'[v].obj)]
        BY <1>1, <1>3, <1>5, <2>1 DEF RequestInv, Made, Busy, SaveSteps
    <2>3. \A i \in DOMAIN queue' : queue'[i].kind # "all" => queue'[i].obj[2] <= made'[Guid(queue'[i].obj)]
        BY <1>1, <1>2 DEF RequestInv, Made
    <2>4. \A v \in Thread : act'[v].do = "load" => v = 1
        BY <1>3, <1>5 DEF RequestInv, Made
    <2> QED
        BY <1>1, <2>2, <2>3, <2>4 DEF RequestInv, Made
<1>8. \A p \in Player :
          /\ \A v \in Thread : Saves(v, p)' => Saves(v, p) \/ Queues(p)
          /\ \A v \in Thread : Saves(v, p) => v # w /\ Saves(v, p)' /\ act'[v].do = act[v].do
          /\ \A v \in Thread : Writing(v, p) => Writing(v, p)'
          /\ Queues(p)' => Queues(p)
          /\ Loading(p)' <=> Loading(p)
    <2>1. \A p \in Player : \A v \in Thread : Saves(v, p) => v # w /\ Saves(v, p)' /\ act'[v].do = act[v].do
        BY <1>3, <1>5 DEF Saves, IsSaving
    <2>2. \A p \in Player : \A v \in Thread : Saves(v, p)' => Saves(v, p) \/ Queues(p)
        BY <1>2, <1>3, <1>5 DEF Saves, IsSaving, SaveSteps, Queues
    <2>3. \A p \in Player : Queues(p)' => Queues(p)
        BY <1>2 DEF Queues
    <2> QED
        BY <1>6, <2>1, <2>2, <2>3 DEF Writing, Loading
<1>9. ASSUME NEW p \in Player
      PROVE  FirstLoad(p)'
    BY <1>1, <1>6, <1>8, StillFirst DEF RequestInv
<1>10. ASSUME NEW p \in Player, made[p] = 1, online[p] = 1, <<p, 1>> \notin dead, Asks(p)
       PROVE  Asks(p)'
    <2>1. CASE \E v \in Thread : Saves(v, p) /\ act[v].do \in {"lock", "first"}
        BY <1>8, <2>1 DEF Asks
    <2>2. ASSUME NEW i \in DOMAIN queue,
                 queue[i].kind = "player", Guid(queue[i].obj) = p, queue[i].at = stamp[p]
          PROVE  Asks(p)'
        <3>1. CASE i # 1
            BY <1>1, <1>2, <2>2, <3>1 DEF Asks
        <3>2. CASE i = 1
            <4>1. j.kind = "player" /\ Guid(j.obj) = p /\ j.at = stamp[p]
                BY <1>2, <2>2, <3>2
            <4>2. j.obj = <<p, 1>>
                BY <1>2, <1>10, <4>1, ObjectNumbers
            <4>3. ~Skipped(j)
                BY <1>10, <4>1, <4>2 DEF Skipped
            <4>4. act'[w].do = "lock" /\ act'[w].obj = j.obj
                BY <1>3, <1>4, <4>1, <4>3
            <4> QED
                BY <4>1, <4>4 DEF Asks, Saves, IsSaving, SaveSteps
        <3> QED
            BY <3>1, <3>2
    <2> QED
        BY <1>10, <2>1, <2>2 DEF Asks
<1>11. ASSUME NEW p \in Player
       PROVE  KeptRequest(p)'
    <2>1. KeptRequest(p)
        BY DEF RequestInv
    <2>2. made[p] = 1 /\ online[p] = 1 => <<p, 1>> \notin dead
        BY <2>1 DEF KeptRequest
    <2> QED
        BY <1>1, <1>8, <1>10, <2>1, <2>2, StillKept
<1> QED
    BY <1>7, <1>9, <1>11

\* A save begins to read the object: all that was asked for is in it.
LEMMA LockRequests ==
    ASSUME RequestInv, NEW w \in Thread, Lock(w), NEW o, NEW x, o = act[w].obj, x = Guid(o)
    PROVE  Made' /\ \A p \in Player : FirstLoad(p)' /\ KeptRequest(p)'
<1>1. /\ UNCHANGED <<online, made, dead, mem, row, queue, asked>> /\ TypeOK /\ act[w].do = "lock"
      /\ stamp' = [stamp EXCEPT ![x] = 0] /\ act' = [act EXCEPT ![w] = Saving("first", o, act[w].after)]
    BY DEF Lock, objects, history, RequestInv, TypeInv
<1>2. act'[w] = Saving("first", o, act[w].after) /\ \A v \in Thread : v # w => act'[v] = act[v]
    BY <1>1 DEF TypeOK
<1>3. act'[w].do = "first" /\ act'[w].obj = o
    BY <1>2 DEF Saving
<1>4. /\ \A v \in Thread : \A p \in Player :
             /\ Saves(v, p)' <=> Saves(v, p)
             /\ Writing(v, p)' <=> Writing(v, p)
             /\ act[v].do \in {"lock", "first"} => act'[v].do \in {"lock", "first"}
      /\ \A p \in Player : Queues(p)' <=> Queues(p)
      /\ \A p \in Player : p # x => stamp'[p] = stamp[p]
      /\ IsSaving(w)
    BY <1>1, <1>2, <1>3 DEF Saves, Writing, IsSaving, SaveSteps, Queues, TypeOK
<1>5. 1 \in Thread
    BY DispatcherActs, <1>1
<1>6. \A p \in Player : Loading(p)' => Loading(p) /\ act'[1] = act[1]
    BY <1>2, <1>3, <1>5 DEF Loading
<1>7. Made'
    BY <1>1, <1>2, <1>3 DEF RequestInv, Made, Busy, SaveSteps
<1>8. \A p \in Player : FirstLoad(p)'
    BY <1>1, <1>4, <1>6 DEF RequestInv, FirstLoad
<1>9. ASSUME NEW p \in Player
      PROVE  KeptRequest(p)'
    <2>1. Asks(p) => Asks(p)'
        <3>1. CASE p # x
            BY <1>1, <1>4, <3>1 DEF Asks
        <3>2. CASE p = x
            BY <1>1, <1>3, <1>4, <3>2 DEF Asks, Saves
        <3> QED
            BY <3>1, <3>2
    <2> QED
        BY <1>1, <1>4, <2>1, StillKept DEF RequestInv
<1> QED
    BY <1>7, <1>8, <1>9
\* A statement puts into the row all that the object reflects.
LEMMA WriteFirstRequests ==
    ASSUME RequestInv, NEW w \in Thread, WriteFirst(w), NEW o, NEW x, o = act[w].obj, x = Guid(o)
    PROVE  Made' /\ \A p \in Player : FirstLoad(p)' /\ KeptRequest(p)'
<1>1. /\ UNCHANGED <<online, made, dead, mem, stamp, queue, asked>> /\ TypeOK /\ act[w].do = "first"
      /\ row' = [row EXCEPT ![x] = [row[x] EXCEPT !["first"] = mem[o]["first"]]]
      /\ act' = [act EXCEPT ![w] = Saving("clear", o, act[w].after)]
    BY DEF WriteFirst, objects, stamps, history, RequestInv, TypeInv
<1>2. act'[w] = Saving("clear", o, act[w].after) /\ \A v \in Thread : v # w => act'[v] = act[v]
    BY <1>1 DEF TypeOK
<1>3. act'[w].do = "clear" /\ act'[w].obj = o /\ IsSaving(w) /\ Busy(w)
    BY <1>1, <1>2 DEF Saving, IsSaving, Busy, SaveSteps
<1>4. o \in Object /\ x \in Player /\ o = <<x, o[2]>> /\ o[2] \in Nat /\ 1 <= o[2] /\ o[2] <= made[x]
    BY <1>3, ObjectNumbers
<1>5. /\ row'[x]["first"] = mem[o]["first"] /\ row'[x]["items"] = row[x]["items"]
      /\ \A p \in Player : p # x => row'[p] = row[p]
    BY <1>1, <1>4 DEF TypeOK, Contents, Part
<1>6. /\ \A v \in Thread : \A p \in Player :
             /\ Saves(v, p)' <=> Saves(v, p)
             /\ Writing(v, p) => Writing(v, p)'
      /\ \A p \in Player : Queues(p)' <=> Queues(p)
      /\ Writing(w, x)' /\ Saves(w, x)
    BY <1>1, <1>2, <1>3 DEF Saves, Writing, IsSaving, SaveSteps, Queues
<1>7. 1 \in Thread
    BY DispatcherActs, <1>1
<1>8. \A p \in Player : Loading(p)' => Loading(p) /\ act'[1] = act[1]
    BY <1>2, <1>3, <1>7 DEF Loading
<1>9. Made'
    BY <1>1, <1>2, <1>3 DEF RequestInv, Made, Busy, SaveSteps
<1>10. ASSUME NEW p \in Player
       PROVE  FirstLoad(p)'
    <2>1. CASE p # x
        BY <1>1, <1>5, <1>6, <1>8, <2>1 DEF RequestInv, FirstLoad
    <2>2. CASE p = x
        <3>1. made[p] # 0 /\ ~(made[p] = 1 /\ Loading(p))
            BY <1>4, <1>6, <2>2 DEF RequestInv, FirstLoad
        <3> QED
            BY <1>1, <1>8, <3>1 DEF FirstLoad
    <2> QED
        BY <2>1, <2>2
<1>11. ASSUME NEW p \in Player
       PROVE  KeptRequest(p)'
    <2>1. KeptRequest(p)
        BY DEF RequestInv
    <2>2. CASE p # x
        <3>1. Asks(p) => Asks(p)'
            BY <1>1, <1>2, <1>6, <2>2 DEF Asks, Saves
        <3> QED
            BY <1>1, <1>5, <1>6, <2>1, <2>2, <3>1, StillKept
    <2>3. CASE p = x
        <3> SUFFICES ASSUME made'[p] = 1, online'[p] = 1
                     PROVE  KeptRequest(p)'
            BY DEF KeptRequest
        <3>1. o = <<p, 1>>
            BY <1>1, <1>4, <2>3
        <3>2. Requested(p)'
            BY <1>1, <1>5, <1>6, <2>1, <2>3, <3>1 DEF KeptRequest, Requested
        <3> QED
            BY <1>1, <2>1, <3>2 DEF KeptRequest
    <2> QED
        BY <2>2, <2>3
<1> QED
    BY <1>9, <1>10, <1>11

\* While its items are deleted and inserted the request is half way.
LEMMA ItemsStepRequests ==
    ASSUME RequestInv, NEW w \in Thread, ClearItems(w) \/ InsertBatch(w),
           NEW o, NEW x, o = act[w].obj, x = Guid(o)
    PROVE  Made' /\ \A p \in Player : FirstLoad(p)' /\ KeptRequest(p)'
<1>1. /\ UNCHANGED <<online, made, dead, mem, stamp, queue, asked>> /\ TypeOK
      /\ act[w].do \in {"clear", "insert"}
      /\ act' = [act EXCEPT ![w] = Saving("insert", o, act[w].after)]
      /\ \A p \in Player : p # x => row'[p] = row[p]
      /\ row'[x]["first"] = row[x]["first"]
    BY ItemsStep DEF objects, stamps, history, RequestInv, TypeInv
<1>2. act'[w] = Saving("insert", o, act[w].after) /\ \A v \in Thread : v # w => act'[v] = act[v]
    BY <1>1 DEF TypeOK
<1>3. act'[w].do = "insert" /\ act'[w].obj = o /\ IsSaving(w) /\ Busy(w)
    BY <1>1, <1>2 DEF Saving, IsSaving, Busy, SaveSteps
<1>4. o \in Object /\ x \in Player /\ o = <<x, o[2]>> /\ o[2] \in Nat /\ 1 <= o[2] /\ o[2] <= made[x]
    BY <1>3, ObjectNumbers
<1>5. /\ \A v \in Thread : \A p \in Player :
             /\ Saves(v, p)' <=> Saves(v, p)
             /\ Writing(v, p) => Writing(v, p)'
      /\ \A p \in Player : Queues(p)' <=> Queues(p)
      /\ Writing(w, x)' /\ Saves(w, x)
    BY <1>1, <1>2, <1>3 DEF Saves, Writing, IsSaving, SaveSteps, Queues
<1>6. 1 \in Thread
    BY DispatcherActs, <1>1
<1>7. \A p \in Player : Loading(p)' => Loading(p) /\ act'[1] = act[1]
    BY <1>2, <1>3, <1>6 DEF Loading
<1>8. Made'
    BY <1>1, <1>2, <1>3 DEF RequestInv, Made, Busy, SaveSteps
<1>9. ASSUME NEW p \in Player
      PROVE  FirstLoad(p)'
    <2>1. CASE p # x
        BY <1>1, <1>5, <1>7, <2>1 DEF RequestInv, FirstLoad
    <2>2. CASE p = x
        <3>1. made[p] # 0 /\ ~(made[p] = 1 /\ Loading(p))
            BY <1>4, <1>5, <2>2 DEF RequestInv, FirstLoad
        <3> QED
            BY <1>1, <1>7, <3>1 DEF FirstLoad
    <2> QED
        BY <2>1, <2>2
<1>10. ASSUME NEW p \in Player
       PROVE  KeptRequest(p)'
    <2>1. KeptRequest(p)
        BY DEF RequestInv
    <2>2. Asks(p) => Asks(p)'
        BY <1>1, <1>2, <1>5 DEF Asks
    <2>3. CASE p # x
        BY <1>1, <1>5, <2>1, <2>2, <2>3, StillKept
    <2>4. CASE p = x
        <3> SUFFICES ASSUME made'[p] = 1, online'[p] = 1
                     PROVE  KeptRequest(p)'
            BY DEF KeptRequest
        <3>1. Requested(p)
            BY <1>1, <2>1 DEF KeptRequest
        <3>2. Requested(p)'
            BY <1>1, <1>5, <2>2, <2>4, <3>1 DEF Requested, Part
        <3> QED
            BY <1>1, <2>1, <3>2 DEF KeptRequest
    <2> QED
        BY <2>3, <2>4
<1> QED
    BY <1>8, <1>9, <1>10

LEMMA InsertItemsRequests ==
    ASSUME RequestInv, NEW w \in Thread, InsertItems(w), NEW o, NEW x, o = act[w].obj, x = Guid(o)
    PROVE  Made' /\ \A p \in Player : FirstLoad(p)' /\ KeptRequest(p)'
<1>1. /\ UNCHANGED <<made, dead, mem, stamp, queue, asked>> /\ TypeOK /\ act[w].do = "insert"
      /\ row' = [row EXCEPT ![x] = [row[x] EXCEPT !["items"] = mem[o]["items"]]]
      /\ act' = [act EXCEPT ![w] = Idle]
      /\ online' = online \/ online' = [online EXCEPT ![x] = 0]
    BY DEF InsertItems, SetItems, Finish, stamps, history, RequestInv, TypeInv
<1>2. act'[w] = Idle /\ \A v \in Thread : v # w => act'[v] = act[v]
    BY <1>1 DEF TypeOK
<1>3. act'[w].do = "idle" /\ IsSaving(w) /\ Busy(w)
    BY <1>1, <1>2 DEF Idle, IsSaving, Busy, SaveSteps
<1>4. o \in Object /\ x \in Player /\ o = <<x, o[2]>> /\ o[2] \in Nat /\ 1 <= o[2] /\ o[2] <= made[x]
    BY <1>3, ObjectNumbers
<1>5. /\ row'[x]["items"] = mem[o]["items"] /\ row'[x]["first"] = row[x]["first"]
      /\ \A p \in Player : p # x => row'[p] = row[p] /\ online'[p] = online[p]
      /\ online'[x] \in {0, online[x]}
    BY <1>1, <1>4 DEF TypeOK, Contents, Part
<1>6. /\ \A v \in Thread : \A p \in Player :
             /\ Saves(v, p)' => Saves(v, p)
             /\ Writing(v, p) /\ v # w => Writing(v, p)'
             /\ Saves(v, p) /\ act[v].do \in {"lock", "first"} =>
                    Saves(v, p)' /\ act'[v].do \in {"lock", "first"}
      /\ \A p \in Player : Queues(p)' <=> Queues(p)
      /\ Saves(w, x)
    BY <1>1, <1>2, <1>3 DEF Saves, Writing, IsSaving, SaveSteps, Queues
<1>7. 1 \in Thread
    BY DispatcherActs, <1>1
<1>8. \A p \in Player : Loading(p)' => Loading(p) /\ act'[1] = act[1]
    BY <1>2, <1>3, <1>7 DEF Loading
<1>9. Made'
    <2>1. \A p \in Player : online'[p] <= made'[p]
        <3>1. \A p \in Player : made[p] \in Nat /\ online[p] <= made[p]
            BY ObjectNumbers
        <3>2. \A p \in Player : online'[p] \in {0, online[p]}
            BY <1>5
        <3> QED
            BY <1>1, <3>1, <3>2
    <2>2. \A v \in Thread : Busy(v)' => Busy(v) /\ act'[v] = act[v]
        BY <1>2, <1>3 DEF Busy, SaveSteps
    <2>3. \A v \in Thread : act'[v].do = "load" => v = 1
        BY <1>2, <1>3 DEF RequestInv, Made
    <2> QED
        BY <1>1, <2>1, <2>2, <2>3 DEF RequestInv, Made
<1>10. ASSUME NEW p \in Player
       PROVE  FirstLoad(p)'
    <2>1. CASE p # x
        BY <1>1, <1>5, <1>6, <1>8, <2>1 DEF RequestInv, FirstLoad
    <2>2. CASE p = x
        <3>1. ~(made[p] = 1 /\ Loading(p))
            BY <1>6, <2>2 DEF RequestInv, FirstLoad
        <3>2. made[p] # 0
            BY <1>4, <2>2
        <3> QED
            BY <1>1, <1>8, <3>1, <3>2 DEF FirstLoad
    <2> QED
        BY <2>1, <2>2
<1>11. ASSUME NEW p \in Player
       PROVE  KeptRequest(p)'
    <2>1. KeptRequest(p)
        BY DEF RequestInv
    <2>2. Asks(p) => Asks(p)'
        BY <1>1, <1>6 DEF Asks
    <2>3. CASE p # x
        <3>1. \A v \in Thread : Writing(v, p) => Writing(v, p)'
            BY <1>6, <2>3 DEF Writing, Saves
        <3> QED
            BY <1>1, <1>5, <2>1, <2>2, <2>3, <3>1, StillKept
    <2>4. CASE p = x
        <3> SUFFICES ASSUME made'[p] = 1, online'[p] = 1
                     PROVE  KeptRequest(p)'
            BY DEF KeptRequest
        <3>1. o = <<p, 1>> /\ made[p] = 1 /\ online[p] = 1
            BY <1>1, <1>4, <1>5, <2>4
        <3>2. /\ asked[p] \subseteq mem[o]["items"] /\ Requested(p)
            BY <2>1, <3>1 DEF KeptRequest
        <3>3. asked[p] \subseteq row[p]["first"] => \A part \in Part : asked'[p] \subseteq row'[p][part]
            BY <1>1, <1>5, <2>4, <3>2 DEF Part
        <3>4. Requested(p)'
            BY <2>2, <3>2, <3>3 DEF Requested, Part
        <3> QED
            BY <1>1, <2>1, <3>1, <3>4 DEF KeptRequest
    <2> QED
        BY <2>3, <2>4
<1> QED
    BY <1>9, <1>10, <1>11

LEMMA InitRequests ==
    ASSUME Init
    PROVE  RequestInv
<1>1. TypeInv
    BY InitType
<1>2. 1 \in Thread /\ \A w \in Thread : act[w] = Idle
    BY SaveManagerAssumption DEF Init, Thread
<1>3. /\ \A p \in Player : made[p] = 0 /\ online[p] = 0 /\ \A part \in Part : row[p][part] = {}
      /\ queue = <<>> /\ dead = {}
    BY DEF Init
<1>4. Made
    BY <1>2, <1>3 DEF Made, Busy, SaveSteps, Idle
<1>5. \A p \in Player : FirstLoad(p) /\ KeptRequest(p)
    BY <1>3 DEF FirstLoad, KeptRequest
<1> QED
    BY <1>1, <1>4, <1>5 DEF RequestInv

LEMMA NextRequests ==
    ASSUME RequestInv, ~Faults, [Next]_vars
    PROVE  RequestInv'
<1>1. TypeInv'
    BY NextType DEF RequestInv
<1>2. CASE UNCHANGED vars
    <2>1. UNCHANGED <<online, made, dead, mem, row, stamp, queue, act, asked>>
        BY <1>2 DEF vars, objects, stamps, pool, history
    <2>2. \A w \in Thread : \A p \in Player :
              (Saves(w, p)' <=> Saves(w, p)) /\ (Writing(w, p)' <=> Writing(w, p))
        BY <2>1 DEF Saves, Writing, IsSaving
    <2>3. \A p \in Player : (Queues(p)' <=> Queues(p)) /\ (Asks(p)' <=> Asks(p)) /\ (Loading(p)' <=> Loading(p))
        BY <2>1, <2>2 DEF Queues, Asks, Loading
    <2>4. Made'
        BY <2>1 DEF RequestInv, Made, Busy
    <2>5. \A p \in Player : FirstLoad(p)'
        BY <2>1, <2>2, <2>3 DEF RequestInv, FirstLoad
    <2>6. \A p \in Player : KeptRequest(p)'
        BY <2>1, <2>2, <2>3 DEF RequestInv, KeptRequest, Requested
    <2> QED
        BY <1>1, <2>4, <2>5, <2>6 DEF RequestInv
<1>3. CASE Next
    <2>1. CASE \E p \in Player : Change(p) \/ SavePlayer(p) \/ Logout(p)
        BY <2>1, <1>1, ChangeRequests, AskRequests DEF RequestInv
    <2>2. CASE \E p \in Player, purpose \in {"login", "offline"} : Load(p, purpose)
        BY <2>2, <1>1, LoadRequests DEF RequestInv
    <2>3. CASE LoadFirst \/ LoadItems
        BY <2>3, <1>1, LoadFirstRequests, LoadItemsRequests DEF RequestInv
    <2>4. CASE \E d \in Object : Destroy(d)
        BY <2>4, <1>1, DestroyRequests DEF RequestInv
    <2>5. CASE \/ ScheduleAll \/ ShutdownSaveAll \/ Shutdown
               \/ \E w \in Thread : EndSubmit(w) \/ EndSaveAll(w) \/ \E p \in Player : Submit(w, p)
        BY <2>5, <1>1, SaveAllRequests DEF RequestInv
    <2>6. CASE \E w \in Thread : TakeJob(w)
        BY <2>6, <1>1, TakeJobRequests DEF RequestInv
    <2>7. CASE \E w \in Thread : Lock(w)
        BY <2>7, <1>1, LockRequests DEF RequestInv
    <2>8. CASE \E w \in Thread : WriteFirst(w)
        BY <2>8, <1>1, WriteFirstRequests DEF RequestInv
    <2>9. CASE \E w \in Thread : ClearItems(w) \/ InsertBatch(w)
        BY <2>9, <1>1, ItemsStepRequests DEF RequestInv
    <2>10. CASE \E w \in Thread : InsertItems(w)
        BY <2>10, <1>1, InsertItemsRequests DEF RequestInv
    <2>11. (\A w \in Thread : ~WriteFails(w)) /\ ~Crash
        BY DEF WriteFails, Crash
    <2> QED
        BY <1>3, <2>1, <2>2, <2>3, <2>4, <2>5, <2>6, <2>7, <2>8, <2>9, <2>10, <2>11
        DEF Next, DispatcherStep, ThreadStep
<1> QED
    BY <1>2, <1>3

\* RequestSaved, for the players that have had one object so far.
FirstRequestSaved ==
    \A p \in Player : made[p] = 1 /\ online[p] # 0 /\ ~WillSave(p) =>
        \A part \in Part : asked[p] \subseteq row[p][part]

LEMMA RequestIsSaved ==
    ASSUME RequestInv
    PROVE  FirstRequestSaved
<1> SUFFICES ASSUME NEW p \in Player, made[p] = 1, online[p] # 0, ~WillSave(p)
             PROVE  \A part \in Part : asked[p] \subseteq row[p][part]
    BY DEF FirstRequestSaved
<1>1. online[p] = 1 /\ Current(p) = <<p, 1>>
    BY ObjectNumbers DEF Current
<1>2. Requested(p)
    BY <1>1 DEF RequestInv, KeptRequest
<1>3. \A w \in Thread : ~Saves(w, p)
    <2> SUFFICES ASSUME NEW w \in Thread, Saves(w, p) PROVE FALSE
        OBVIOUS
    <2>1. IsSaving(w) /\ Busy(w) /\ Guid(act[w].obj) = p
        BY DEF Saves, IsSaving, Busy
    <2>2. act[w].obj = <<p, 1>>
        BY <2>1, ObjectNumbers
    <2> QED
        BY <1>1, <2>1, <2>2 DEF WillSave
<1>4. ASSUME NEW i \in DOMAIN queue, queue[i].kind = "player", Guid(queue[i].obj) = p, queue[i].at = stamp[p]
      PROVE  FALSE
    <2>1. queue[i].obj = <<p, 1>>
        BY <1>4, ObjectNumbers
    <2> QED
        BY <1>1, <1>4, <2>1 DEF WillSave
<1> QED
    BY <1>2, <1>3, <1>4 DEF Requested, Asks, Writing

LEMMA RequestInvSaves ==
    ASSUME RequestInv, MaxObjects = 1
    PROVE  RequestSaved
<1> SUFFICES ASSUME NEW p \in Player, online[p] # 0, ~WillSave(p)
             PROVE  \A part \in Part : asked[p] \subseteq row[p][part]
    BY DEF RequestSaved
<1>1. made[p] = 1
    BY ObjectNumbers DEF RequestInv, TypeInv, TypeOK
<1> QED
    BY <1>1, RequestIsSaved DEF FirstRequestSaved

\* Whether toggleSaveAsync is on or off, while statements succeed and the
\* server lives: a request to save a player during its first login is never
\* forgotten, however requests, logouts, saves of the whole server and the
\* pool's threads interleave.
THEOREM FirstRequestsAreKept ==
    ASSUME ~Faults
    PROVE  Spec => []FirstRequestSaved
BY InitRequests, NextRequests, RequestIsSaved, PTL DEF Spec

\* So no request is forgotten where every player logs in once.
THEOREM RequestsAreKept ==
    ASSUME ~Faults, MaxObjects = 1
    PROVE  Spec => []RequestSaved
BY InitRequests, NextRequests, RequestInvSaves, PTL DEF Spec
=============================================================================

----------------------------- MODULE SaveManager -----------------------------
(***************************************************************************)
(* Saving players (src/game/scheduling/save_manager.cpp): the dispatcher   *)
(* changes player objects; they are written to the database either by the  *)
(* dispatcher's own thread or, with toggleSaveAsync and in saveAll, by     *)
(* jobs on the thread pool, one of whose threads runs the dispatcher.      *)
(*                                                                         *)
(* A player object holds two parts: "first", the row of `players`, which   *)
(* one statement updates, and "items", any one of the tables that are      *)
(* emptied by a DELETE and filled again by INSERTs (items, depot, inbox,   *)
(* stash, spells, ...). A part is the set of changes it reflects. A login, *)
(* or a load of an offline player, makes a new object.                     *)
(***************************************************************************)
EXTENDS Naturals, Sequences, FiniteSets

CONSTANTS
    Player,
    NThreads,    \* threads of the pool; thread 1 runs the dispatcher
    Async,       \* toggleSaveAsync
    Faults,      \* whether statements fail and the server crashes
    MaxObjects,  \* bound: objects made for a player
    MaxChanges,  \* bound: changes made to a player
    MaxStamps    \* bound: readings of the steady clock

ASSUME SaveManagerAssumption ==
    /\ NThreads \in Nat \ {0}
    /\ Async \in BOOLEAN /\ Faults \in BOOLEAN
    /\ MaxObjects \in Nat /\ MaxChanges \in Nat /\ MaxStamps \in Nat

Thread == 1 .. NThreads
Part   == {"first", "items"}
Object == Player \X (1 .. MaxObjects)
Guid(o) == o[1]

VARIABLES
    gameState,  \* "normal", "shutdown", or "halted" once the shutdown task is done
    online,     \* Game::players: number of the player's object, 0 if not online
    made,       \* number of objects made for a player
    dead,       \* objects that have been destroyed
    mem,        \* state of each object
    row,        \* state in the database
    stamp,      \* m_playerMap, 0 for no entry
    allStamp,   \* m_scheduledAt
    now,        \* readings of the steady clock so far
    queue,      \* jobs waiting in the pool
    act,        \* what each thread is doing
    locked,     \* objects whose mutex is held
    pending,    \* futures a thread's saveAll still waits for, by player
    changes,    \* history: number of changes made to a player
    asked,      \* history: what the last accepted savePlayer should save
    failed      \* history: players whose save failed or who were online in a crash

objects == <<online, made, dead, mem>>
stamps  == <<stamp, allStamp, now>>
pool    == <<queue, act, locked, pending>>
history == <<changes, asked, failed>>
vars == <<gameState, objects, row, stamps, pool, history>>

Idle == [do |-> "idle"]
\* doSavePlayer(obj): to take the lock, update the first part, delete the items
\* in the database, insert those of the object.
\* "after" is what follows: Nothing, RemovePlayer (a logout), or the thread
\* whose saveAll waits for the job's future.
Saving(step, o, after) == [do |-> step, obj |-> o, after |-> after]
Nothing == 0
RemovePlayer == NThreads + 1
SaveSteps == {"lock", "first", "clear", "insert"}
IsSaving(w) == act[w].do \in SaveSteps
Uses(w, o) == act[w].do \in SaveSteps \cup {"load"} /\ act[w].obj = o

Init ==
    /\ gameState = "normal"
    /\ online = [p \in Player |-> 0] /\ made = [p \in Player |-> 0]
    /\ dead = {}
    /\ mem = [o \in Object |-> [part \in Part |-> {}]]
    /\ row = [p \in Player |-> [part \in Part |-> {}]]
    /\ stamp = [p \in Player |-> 0] /\ allStamp = 0 /\ now = 0
    /\ queue = <<>>
    /\ act = [w \in Thread |-> Idle]
    /\ locked = {} /\ pending = [w \in Thread |-> {}]
    /\ changes = [p \in Player |-> 0]
    /\ asked = [p \in Player |-> {}]
    /\ failed = {}

-----------------------------------------------------------------------------
(* The dispatcher: game logic, logins, logouts and requests to save. *)

\* The dispatcher is executing ordinary tasks.
Running == gameState = "normal" /\ act[1] = Idle

Current(p) == <<p, online[p]>>

Changed(o, p) == [mem EXCEPT ![o] = [part \in Part |-> @[part] \cup {changes[p] + 1}]]

\* Game logic changes an online player; no lock is taken.
Change(p) ==
    /\ Running
    /\ online[p] # 0 /\ changes[p] < MaxChanges
    /\ mem' = Changed(Current(p), p)
    /\ changes' = [changes EXCEPT ![p] = @ + 1]
    /\ UNCHANGED <<gameState, online, made, dead, row, stamps, pool, asked, failed>>

\* Mutant: the object made last is loaded again.
LoadOldObject(p, purpose) ==
    /\ Running
    /\ online[p] = 0 /\ made[p] < MaxObjects
    /\ purpose = "offline" => changes[p] < MaxChanges
    /\ act' = [act EXCEPT ![1] = [do |-> "load", obj |-> <<p, made[p]>>,
                                  part |-> "first", for |-> purpose]]
    /\ UNCHANGED <<gameState, objects, row, stamps, queue, locked, pending, history>>

\* ProtocolGame::login of a player that is not in Game::players, and
\* Game::getPlayerByName / getPlayerByGUID with allowOffline (a bank transfer
\* to an offline player): a new object is loaded, part by part.
Load(p, purpose) ==
    /\ Running
    /\ online[p] = 0 /\ made[p] < MaxObjects
    /\ purpose = "offline" => changes[p] < MaxChanges
    /\ made' = [made EXCEPT ![p] = @ + 1]
    /\ act' = [act EXCEPT ![1] = [do |-> "load", obj |-> <<p, made[p] + 1>>,
                                  part |-> "first", for |-> purpose]]
    /\ UNCHANGED <<gameState, online, dead, mem, row, stamps, queue, locked, pending, history>>

LoadFirst ==
    /\ act[1].do = "load" /\ act[1].part = "first"
    /\ mem' = [mem EXCEPT ![act[1].obj] = [@ EXCEPT !["first"] = row[Guid(act[1].obj)]["first"]]]
    /\ act' = [act EXCEPT ![1] = [@ EXCEPT !.part = "items"]]
    /\ UNCHANGED <<gameState, online, made, dead, row, stamps, queue, locked, pending, history>>

\* The end of the load. A player that logs in is placed in the game; an
\* offline one is changed and saved at once (isOnline() is false).
LoadItems ==
    LET o == act[1].obj
        p == Guid(o)
        loaded == [mem EXCEPT ![o] = [@ EXCEPT !["items"] = row[p]["items"]]]
    IN
    /\ act[1].do = "load" /\ act[1].part = "items"
    /\ \/ /\ act[1].for = "login"
          /\ mem' = loaded
          /\ online' = [online EXCEPT ![p] = o[2]]
          /\ act' = [act EXCEPT ![1] = Idle]
          /\ asked' = [asked EXCEPT ![p] = {}]
          /\ UNCHANGED changes
       \/ /\ act[1].for = "offline"
          /\ mem' = [loaded EXCEPT ![o] = [part \in Part |-> @[part] \cup {changes[p] + 1}]]
          /\ changes' = [changes EXCEPT ![p] = @ + 1]
          /\ act' = [act EXCEPT ![1] = Saving("lock", o, Nothing)]
          /\ UNCHANGED <<online, asked>>
    /\ UNCHANGED <<gameState, made, dead, row, stamps, queue, locked, pending, failed>>

\* schedulePlayer with toggleSaveAsync: a job that holds a weak pointer to the
\* object and the time of the request.
Schedule(o) ==
    /\ now < MaxStamps
    /\ now' = now + 1
    /\ stamp' = [stamp EXCEPT ![Guid(o)] = now + 1]
    /\ queue' = Append(queue, [kind |-> "player", obj |-> o, at |-> now + 1])
    /\ UNCHANGED <<allStamp, act, locked, pending>>

\* doSavePlayer on the dispatcher's own thread.
SaveHere(o, after) ==
    /\ act' = [act EXCEPT ![1] = Saving("lock", o, after)]
    /\ UNCHANGED <<stamps, queue, locked, pending>>

\* SaveManager::savePlayer for a player that stays online.
SavePlayer(p) ==
    /\ Running /\ online[p] # 0
    /\ IF Async THEN Schedule(Current(p)) ELSE SaveHere(Current(p), Nothing)
    /\ asked' = [asked EXCEPT ![p] = mem[Current(p)]["first"]]
    /\ UNCHANGED <<gameState, objects, row, changes, failed>>

\* Mutant: a logout only saves a player when saving is asynchronous.
LogoutUnsaved(p) ==
    /\ online[p] # 0 /\ act[1] = Idle
    /\ IF Async THEN Schedule(Current(p)) ELSE UNCHANGED <<stamps, pool>>
    /\ online' = [online EXCEPT ![p] = 0]
    /\ UNCHANGED <<gameState, made, dead, mem, row, history>>

\* Mutant: what a logout saves is written by the pool also when toggleSaveAsync
\* is off.
LogoutByPool(p) ==
    /\ online[p] # 0 /\ act[1] = Idle
    /\ Schedule(Current(p))
    /\ online' = [online EXCEPT ![p] = 0]
    /\ UNCHANGED <<gameState, made, dead, mem, row, history>>

\* Game::removeCreature: onRemoveCreature saves the player, whose "online" flag
\* is still set, then removeList takes it out of the game. During shutdown
\* savePlayer saves on this thread whatever toggleSaveAsync says.
Logout(p) ==
    /\ online[p] # 0 /\ act[1] = Idle
    /\ IF Async /\ gameState = "normal"
       THEN Schedule(Current(p)) /\ online' = [online EXCEPT ![p] = 0]
       ELSE SaveHere(Current(p), RemovePlayer) /\ UNCHANGED online
    /\ UNCHANGED <<gameState, made, dead, mem, row, history>>

\* The last reference to an object that is out of the game goes.
Destroy(o) ==
    /\ o[2] <= made[o[1]] /\ o \notin dead
    /\ online[o[1]] # o[2]
    /\ \A w \in Thread : ~Uses(w, o)
    /\ \A i \in DOMAIN queue : queue[i].kind = "member" => queue[i].obj # o
    /\ dead' = dead \cup {o}
    /\ UNCHANGED <<gameState, online, made, mem, row, stamps, pool, history>>

\* scheduleAll.
ScheduleAll ==
    /\ Running /\ now < MaxStamps
    /\ now' = now + 1 /\ allStamp' = now + 1
    /\ IF Async
       THEN queue' = Append(queue, [kind |-> "all", at |-> now + 1]) /\ UNCHANGED act
       ELSE act' = [act EXCEPT ![1] = [do |-> "submit", done |-> {}]] /\ UNCHANGED queue
    /\ UNCHANGED <<gameState, objects, row, stamp, locked, pending, history>>

\* setGameState(GAME_STATE_SHUTDOWN): every player is kicked (Logout), ...
Shutdown ==
    /\ Running
    /\ gameState' = "shutdown"
    /\ UNCHANGED <<objects, row, stamps, pool, history>>

\* ... then saveAll is called.
ShutdownSaveAll ==
    /\ gameState = "shutdown" /\ act[1] = Idle
    /\ \A p \in Player : online[p] = 0
    /\ act' = [act EXCEPT ![1] = [do |-> "submit", done |-> {}]]
    /\ UNCHANGED <<gameState, objects, row, stamps, queue, locked, pending, history>>

-----------------------------------------------------------------------------
(* saveAll, on whatever thread runs it. *)

\* One player of the loop over Game::players.
Submit(w, p) ==
    /\ act[w].do = "submit"
    /\ online[p] # 0 /\ p \notin act[w].done
    /\ queue' = Append(queue, [kind |-> "member", obj |-> Current(p), owner |-> w])
    /\ pending' = [pending EXCEPT ![w] = @ \cup {p}]
    /\ act' = [act EXCEPT ![w] = [do |-> "submit", done |-> @.done \cup {p}]]
    /\ UNCHANGED <<gameState, objects, row, stamps, locked, history>>

EndSubmit(w) ==
    /\ act[w].do = "submit"
    /\ \A p \in Player : online[p] # 0 => p \in act[w].done
    /\ act' = [act EXCEPT ![w] = [do |-> "wait"]]
    /\ UNCHANGED <<gameState, objects, row, stamps, queue, locked, pending, history>>

\* Every future is ready; guilds, map and key-value store are saved.
EndSaveAll(w) ==
    /\ act[w].do = "wait" /\ pending[w] = {}
    /\ act' = [act EXCEPT ![w] = Idle]
    /\ gameState' = IF w = 1 /\ gameState = "shutdown" THEN "halted" ELSE gameState
    /\ UNCHANGED <<objects, row, stamps, queue, locked, pending, history>>

-----------------------------------------------------------------------------
(* Jobs of the pool. *)

\* A free thread of the pool takes the oldest job. A request that is not the
\* latest for its player (or for saveAll), or whose object is gone, is skipped.
Skipped(job) ==
    \/ job.kind = "player" /\ (job.obj \in dead \/ stamp[Guid(job.obj)] # job.at)
    \/ job.kind = "all" /\ allStamp # job.at

Started(job) ==
    CASE job.kind = "player" -> Saving("lock", job.obj, Nothing)
      [] job.kind = "member" -> Saving("lock", job.obj, job.owner)
      [] job.kind = "all"    -> [do |-> "submit", done |-> {}]

TakeJob(w) ==
    /\ w # 1 /\ act[w] = Idle /\ queue # <<>>
    /\ queue' = Tail(queue)
    /\ act' = [act EXCEPT ![w] = IF Skipped(Head(queue)) THEN Idle ELSE Started(Head(queue))]
    /\ UNCHANGED <<gameState, objects, row, stamps, locked, pending, history>>

-----------------------------------------------------------------------------
(* doSavePlayer. *)

\* Player::PlayerLock, then m_playerMap.erase.
Lock(w) ==
    /\ act[w].do = "lock" /\ act[w].obj \notin locked
    /\ locked' = locked \cup {act[w].obj}
    /\ stamp' = [stamp EXCEPT ![Guid(act[w].obj)] = 0]
    /\ act' = [act EXCEPT ![w] = Saving("first", @.obj, @.after)]
    /\ UNCHANGED <<gameState, objects, row, allStamp, now, queue, pending, history>>

\* Mutant: the future of a finished job never becomes ready.
FinishKeepsFuture(w) ==
    LET o == act[w].obj IN
    /\ locked' = locked \ {o}
    /\ act' = [act EXCEPT ![w] = Idle]
    /\ online' = IF act[w].after = RemovePlayer
                 THEN [online EXCEPT ![Guid(o)] = 0] ELSE online
    /\ UNCHANGED pending

\* The end of doSavePlayer: the lock is released, the future becomes ready,
\* a logout goes on to remove the player.
Finish(w) ==
    LET o == act[w].obj IN
    /\ locked' = locked \ {o}
    /\ act' = [act EXCEPT ![w] = Idle]
    /\ pending' = IF act[w].after \in Thread
                  THEN [pending EXCEPT ![act[w].after] = @ \ {Guid(o)}] ELSE pending
    /\ online' = IF act[w].after = RemovePlayer
                 THEN [online EXCEPT ![Guid(o)] = 0] ELSE online

\* savePlayerGuard: every statement takes effect at once, because
\* executeWithinTransaction begins its transaction after them.
WriteFirst(w) ==
    /\ act[w].do = "first"
    /\ row' = [row EXCEPT ![Guid(act[w].obj)] = [@ EXCEPT !["first"] = mem[act[w].obj]["first"]]]
    /\ act' = [act EXCEPT ![w] = Saving("clear", @.obj, @.after)]
    /\ UNCHANGED <<gameState, objects, stamps, queue, locked, pending, history>>

\* The items in the database become those of S.
SetItems(w, S) == row' = [row EXCEPT ![Guid(act[w].obj)] = [@ EXCEPT !["items"] = S]]

\* The DELETE.
ClearItems(w) ==
    /\ act[w].do = "clear"
    /\ SetItems(w, {})
    /\ act' = [act EXCEPT ![w] = Saving("insert", @.obj, @.after)]
    /\ UNCHANGED <<gameState, objects, stamps, queue, locked, pending, history>>

\* DBInsert sends rows that are too many for one statement in several.
InsertBatch(w) ==
    /\ act[w].do = "insert"
    /\ \E more \in SUBSET mem[act[w].obj]["items"] :
          LET sent == row[Guid(act[w].obj)]["items"] IN
          more # {} /\ more \cap sent = {} /\ SetItems(w, sent \cup more)
    /\ UNCHANGED <<gameState, objects, stamps, pool, history>>

\* Mutant: m_playerMap is (also) erased once the player has been saved.
InsertItemsErases(w) ==
    /\ act[w].do = "insert"
    /\ SetItems(w, mem[act[w].obj]["items"])
    /\ stamp' = [stamp EXCEPT ![Guid(act[w].obj)] = 0]
    /\ Finish(w)
    /\ UNCHANGED <<gameState, made, dead, mem, allStamp, now, queue, history>>

\* The (last) INSERT.
InsertItems(w) ==
    /\ act[w].do = "insert"
    /\ SetItems(w, mem[act[w].obj]["items"])
    /\ Finish(w)
    /\ UNCHANGED <<gameState, made, dead, mem, stamps, queue, history>>

\* A statement fails: the exception ends the save, nothing is undone, and a table
\* that has been emptied stays empty or half full. (A failure in a table after this
\* one leaves here what InsertItems leaves.)
WriteFails(w) ==
    /\ Faults
    /\ act[w].do \in {"first", "clear", "insert"}
    /\ Finish(w)
    /\ failed' = failed \cup {Guid(act[w].obj)}
    /\ UNCHANGED <<gameState, made, dead, mem, row, stamps, queue, changes, asked>>

\* The server dies and is started again.
Crash ==
    /\ Faults
    /\ gameState' = "normal"
    /\ online' = [p \in Player |-> 0]
    /\ dead' = {o \in Object : o[2] <= made[o[1]]}
    /\ stamp' = [p \in Player |-> 0] /\ allStamp' = 0
    /\ queue' = <<>> /\ act' = [w \in Thread |-> Idle]
    /\ locked' = {} /\ pending' = [w \in Thread |-> {}]
    /\ asked' = [p \in Player |-> {}]
    /\ failed' = failed \cup {p \in Player : online[p] # 0 \/ \E w \in Thread : \E n \in 1 .. MaxObjects : Uses(w, <<p, n>>)}
    /\ UNCHANGED <<made, mem, row, now, changes>>

-----------------------------------------------------------------------------
DispatcherStep ==
    \/ LoadFirst \/ LoadItems \/ ShutdownSaveAll
    \/ gameState = "shutdown" /\ \E p \in Player : Logout(p)

ThreadStep(w) ==
    \/ TakeJob(w) \/ Lock(w) \/ WriteFirst(w) \/ ClearItems(w) \/ InsertBatch(w)
    \/ InsertItems(w) \/ WriteFails(w)
    \/ EndSubmit(w) \/ EndSaveAll(w)
    \/ \E p \in Player : Submit(w, p)

Next ==
    \/ \E p \in Player : Change(p) \/ SavePlayer(p) \/ Logout(p)
    \/ \E p \in Player, purpose \in {"login", "offline"} : Load(p, purpose)
    \/ \E o \in Object : Destroy(o)
    \/ ScheduleAll \/ Shutdown \/ DispatcherStep
    \/ \E w \in Thread : ThreadStep(w)
    \/ Crash

Spec == Init /\ [][Next]_vars

\* Every thread goes on with what it has begun, statements return, and a
\* server that has begun to shut down kicks its players.
Fairness == WF_vars(DispatcherStep) /\ \A w \in Thread : WF_vars(ThreadStep(w))

FairSpec == Spec /\ Fairness

-----------------------------------------------------------------------------
(***************************************************************************)
(* Properties.                                                             *)
(***************************************************************************)
Contents == [Part -> SUBSET (1 .. MaxChanges)]

Activity ==
    {Idle, [do |-> "wait"]}
    \cup [do : {"submit"}, done : SUBSET Player]
    \cup [do : {"load"}, obj : Object, part : Part, for : {"login", "offline"}]
    \cup [do : SaveSteps, obj : Object, after : 0 .. NThreads + 1]

Job ==
    [kind : {"player"}, obj : Object, at : 1 .. MaxStamps]
    \cup [kind : {"member"}, obj : Object, owner : Thread]
    \cup [kind : {"all"}, at : 1 .. MaxStamps]

TypeOK ==
    /\ gameState \in {"normal", "shutdown", "halted"}
    /\ online \in [Player -> 0 .. MaxObjects] /\ made \in [Player -> 0 .. MaxObjects]
    /\ dead \subseteq Object
    /\ mem \in [Object -> Contents] /\ row \in [Player -> Contents]
    /\ stamp \in [Player -> 0 .. MaxStamps]
    /\ allStamp \in 0 .. MaxStamps /\ now \in 0 .. MaxStamps
    /\ queue \in Seq(Job) /\ act \in [Thread -> Activity]
    /\ locked \subseteq Object /\ pending \in [Thread -> SUBSET Player]
    /\ changes \in [Player -> 0 .. MaxChanges]
    /\ asked \in [Player -> SUBSET (1 .. MaxChanges)] /\ failed \subseteq Player

\* Nobody is loading or saving an object of the player, or will do so.
Quiet(p) ==
    /\ \A w \in Thread : \A n \in 1 .. MaxObjects : ~Uses(w, <<p, n>>)
    /\ \A i \in DOMAIN queue : queue[i].kind = "player" => Guid(queue[i].obj) # p

\* The player as the game would show it now: the object in the game, or what
\* the next login will load.
Seen(p) == IF online[p] # 0 THEN mem[Current(p)] ELSE row[p]

\* No change is ever lost: through logouts, logins, saves of the whole server,
\* offline changes and shutdown, a player always shows every change made to it
\* (unless a statement failed or the server crashed).
NoProgressLost ==
    \A p \in Player \ failed :
        Quiet(p) => \A part \in Part : Seen(p)[part] = 1 .. changes[p]

\* A saved player is whole: both parts in the database reflect the same changes.
Whole(p) == Quiet(p) => row[p]["first"] = row[p]["items"]

\* Saves by the dispatcher and by the pool never mix two states of a player in
\* the database, as long as statements succeed and the server does not crash.
WholeRow == \A p \in Player \ failed : Whole(p)

\* The same whatever fails: a save is all or nothing, as one made "within a
\* transaction" should be (database.hpp:229-272). (The worst that can be left is
\* an emptied table.)
SaveIsAtomic == \A p \in Player : Whole(p)

\* The step of w is the DELETE of a save of the player.
Clears(w, p) == act[w].do = "clear" /\ act'[w].do = "insert" /\ Guid(act[w].obj) = p

\* A save never puts an older state of a player over a newer one. Nothing is taken
\* from the database but by the DELETE of a save, and only if the object that is
\* being saved holds all that is deleted, so that the save writes it again. (If
\* that save then fails, or the server dies, the database has gone back: this is
\* SaveIsAtomic.)
GoesOn ==
    \A p \in Player : \A part \in Part :
        \/ row[p][part] \subseteq row'[p][part]
        \/ /\ part = "items"
           /\ \E w \in Thread : Clears(w, p) /\ row[p][part] \subseteq mem[act[w].obj][part]

NeverGoesBack == [][GoesOn]_vars

\* Some job will still save the player.
WillSave(p) ==
    \/ \E w \in Thread : IsSaving(w) /\ act[w].obj = Current(p)
    \/ \E i \in DOMAIN queue : /\ queue[i].kind = "player" /\ queue[i].obj = Current(p)
                               /\ queue[i].at = stamp[p]

\* Requests to save an online player are merged but never forgotten: when no
\* job is left that will save it, the database reflects all that the last
\* request was made for.
RequestSaved ==
    \A p \in Player : online[p] # 0 /\ ~WillSave(p) =>
        \A part \in Part : asked[p] \subseteq row[p][part]

\* saveAll returns: the pool always has a thread for the jobs it waits for.
SaveAllEnds == \A w \in Thread : act[w].do \in {"submit", "wait"} ~> act[w] = Idle

\* A server that begins to shut down saves everything and halts.
ShutdownHalts == gameState = "shutdown" ~> gameState = "halted"
==============================================================================

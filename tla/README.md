# TLA+ models of the game server

The server in `src/src` (C++, with game rules in Lua under `src/data*`) is one
process. This directory models the parts of it where state is shared between
threads, spread over several requests, written back later, or kept in two
places: the dispatcher that runs all game logic, connections and the players
behind them, the save manager, the key-value store, money, the market, trades,
parties, the waiting list, and the messages to a webhook.

## 1. The system

```
 clients ==> I/O thread            +----------------> KV store (cache) --+
             Connection            |                                     |
             WaitList              |                                     v
                | addEvent,        |                                 one MySQL
 pool threads --+ scheduleEvent -> Dispatcher thread --> SaveManager --> connection
  parallel      |                  every request is one task:            ^
  tasks, saves, |                  Session, Party, Trade, Market, Bank   |
  searches,     +<- asyncEvent, ---+        |                            |
  webhook jobs  <-- detach_task ------------+-- search for old offers ---+
```

* One thread of the pool is taken by `Dispatcher::init` and runs its loop for
  the life of the process. Nearly all game state belongs to it.
* One thread runs the completion handlers of all connections; it hands packets
  to the dispatcher and is handed the messages for the peer.
* Other threads hand work to the dispatcher through per-thread queues. It hands
  work to the pool (parallel groups, saves, searches, webhook jobs) and
  sometimes waits for it.
* All threads share one MySQL connection, serialised per statement by
  `Database::databaseLock`.

### Components

| Component | State | Operations | What is hard | What makes it correct |
|---|---|---|---|---|
| Dispatcher, tasks (`game/scheduling`) | queues per thread and per group, timed tasks, ids, `hasPendingTasks` | addEvent, addWalkEvent, asyncEvent, scheduleEvent, cycleEvent, stopEvent, the loop, shutdown | merging under per-thread locks, wake-up, time read once per turn, stopping a task that is due | tasks are neither lost nor doubled, live tasks can be stopped, stopped ones never start, all of them run, the loop ends |
| Thread pool (`lib/thread`) | FIFO of jobs, `stopped` | detach_task, shutdown | a job that waits for jobs of its own pool | whoever waits is served |
| Connections and protocols (`server/network/connection`, `protocol`) | socket, one message buffer, output queue, timers, the protocol | accept, read header and body, hand over, parse, send, write, time out, close, release | the buffer is lent to the dispatcher, locks are released in between, every party may close | packets one at a time and in order, outputs in order, one release, no silent peer kept |
| Login, logout, player objects (`protocolgame.cpp`, `player.cpp`) | clients, Player objects, the character's name | first message, login, replace, connect later, logout, die, respawn, ping and idle timers, release | what the I/O thread saw is stale when the login runs; an object passes from client to client | one client per object, no client left waiting, no object left behind |
| Waiting list (`waitlist.cpp`) | two lists, their sizes | clientLogin, clean | places are counted by sizes that drift | nobody gets in past another |
| Save manager, player persistence (`save_manager.cpp`, `iologindata.cpp`) | `m_playerMap`, `m_scheduledAt`, player objects, rows | savePlayer, scheduleAll, saveAll, login, logout, offline loads | stale requests, weak pointers, dozens of statements per save, crash | no progress lost, rows never mixed, nothing newer overwritten |
| KV store (`kv`) | cache with LRU list, table `kv_store` | get, set, remove, saveAll | the mutex is released around SQL, write-back on eviction | no update lost, reads current, saveAll durable |
| Bank, bank NPC, taxes, shops (`bank.cpp`, `bank_system.lua`, `npc.cpp`, `npc_functions.cpp`, `player.lua`) | coins, balances (object and row), guild account, tax rates, offices, topics of dialogues | deposit, withdraw, transfer, guild account, buy, sell, `/federaltax`, `/statetax`, weekly vacancy | an offer is confirmed in a later message; a balance lives in two places | no account below zero, gold neither made nor lost |
| Market (`iomarket.cpp`, `game.cpp`) | offers, goods and gold set aside, searches in flight | create, cancel, accept, expire | a search on another thread, processed by a later task | goods and gold neither made nor lost |
| Trade (`game.cpp`, `player.cpp`) | partners, items, states, `tradeItems` | request, accept, close, and every move of an item | an offered bag changes, or is part of another offer | what was accepted is what changes hands |
| Parties (`party.cpp`) | leader, members, invitations on both sides | invite, join, revoke, pass, leave, disband, death, logout | operations that call each other while lists change; weak pointers | all four pointers agree, everyone can leave |
| Webhook (`webhook.cpp`) | queue, lock, jobs | sendMessage, sendPayload, run, sendWebhook | a lock held during a request, retries, lost answers | nothing skipped, everything delivered, nobody blocked for ever |
| Database (`database`) | connection, transactions, batches of rows | executeQuery, executeWithinTransaction, DBInsert | batches that are sent twice, transactions around nothing | a save is all or nothing |
| Server start, shutdown, signals (`canary_server.cpp`, `signals.cpp`) | loader and game state | start, reload, shutdown | order of shutdown across threads | everything is saved before the pool stops |
| Game and the rest of the players' requests (`game.cpp`) | creatures, items, tiles | several hundred requests, each one task | a large object graph | |
| Item decay (`decay.cpp`, `item.cpp`, `game.cpp`) | `decayMap`, its events, the attributes of the items | startDecay, stopDecay, checkDecay, transformations, script access | an item's own attributes say where it is filed; ids of events are overwritten | every item decays when its time is up, and not before |
| Houses, chat, prey, combat, monsters, map, items | see `PROJECT.json` | | mostly sequential | |

`PROJECT.json` lists every component with its source files, how far it is
modelled and why, and every hazard at the line where it bites with the
properties that watch it.

## 2. The modules

| Module | Models | Checked by | Proved in |
|---|---|---|---|
| `Dispatcher` | dispatcher, tasks, the pool's stop flag | `dispatcher_safety`, `pool` | `PoolProofs` |
| `PacketFlow` | what a connection promises (abstract) | `server` | `ServerProofs` |
| `Connection` | one connection and its protocol; implements `PacketFlow` | `server` | `ServerProofs` |
| `Session` | the clients and Player objects of one character | `server`, `two_clients` | `ServerProofs` |
| `WaitList` | the waiting list | `server` | `ServerProofs` |
| `SaveManager` | save manager, jobs of the pool, login, logout, shutdown | `saving`, `save_async_logout`, `save_crash` | `SaveManagerProofs`, `SavingProofs` |
| `KVStore` | the key-value store | `stores`, `server`, `kv_shared_key`, `kv_removed` | `KVStoreProofs`, `ServerProofs` |
| `Bank` | bank, bank NPC, taxes, money side of shops, offices | `bank_money` | `BankProofs` |
| `Market` | the offers of one kind of item | `server`, `market_cloned` | `ServerProofs` |
| `Trade` | trades between two players | `stores` | `StoresProofs` |
| `Party` | parties and invitations | `stores` | `StoresProofs` |
| `Decay` | items that decay | `stores` | `StoresProofs` |
| `Webhook` | messages to Discord | `pool` | `PoolProofs` |

`FiniteSums` holds what the proofs need of induction and of sums over finite
sets. The proofs about components that run side by side are in one module with
those about the composition.

`MCKVStore`, `MCDispatcher`, `MCSaveManager` and `MCBank` hold the constants of
the instances. `MCStores`, `MCServer` and `MCPool` put components that share no
state side by side: a variable `part`, chosen at the start, says which of them
moves in a behaviour, and the others stand still. `MCSaving` does the same with
two configurations of the save manager (`mode`). Components that do share state
are in one module: `Session` has the connections' closes and releases in it,
`SaveManager` the dispatcher and the pool, `Bank` the rows and the objects.

Definitions marked "Mutant" in a comment are variants of the definition that
follows them, used to see that the properties notice a bug.

### Dispatcher

State: the queues, the set of timed tasks, `scheduledTasksRef`, and the wake-up
protocol (`hasPending`, `waiting`, `sleep`). The loop is the sequence `Program`
of phases; a merge is one step per thread (its mutex), an execution begins and
ends in separate steps so that other threads and the task's own calls interleave
with it. `left` is a task's time relative to the cached clock, which
`UpdateTime` refreshes once per turn.

What follows from the code as modelled, beyond the properties:

* `notify()` raises the flag without `dummyMutex`. Raised between the test and
  `wait_for`, the signal is lost. After `Game::start` its cycle tasks
  (`game.cpp:543-569`) bound the wait; before, with nothing scheduled, the wait
  is `milliseconds::max()`, whose conversion overflows: it ends at once or, in
  effect, never. The liveness run starts after `Game::start`.
* `__mergeEvents` puts the longer queue in front. An event merged earlier can so
  run after a newer one of the same thread. Nothing in the repository promises
  an order; the properties speak of loss and duplication.
* Expiration is compared with the clock of the turn: a task may run up to one
  turn late.
* How `asyncWait` cuts a queue into blocks is "any order, at the same time".

### Connection and PacketFlow

State: the `Connection` object as a record (`conn`): state, socket, the packet
in `m_msg`, pending reads and write with how they end, `messageQueue`, timers
armed and expired; where the I/O thread is inside a handler (`io`); the
connection's tasks in the dispatcher's queue. `taken`, `handled`, `sent` and
`written` are history, and are the state of `PacketFlow`.

* A handler holds `connectionLock` throughout and is one step, but for two
  places. A message is encoded with the lock released (`io = "encoding"`), and
  `parsePacket` queues the task that reads `m_msg` before it has ended
  (`io = "queued"`): the task may run, and call `resumeWork`, meanwhile.
* `Close`, `Send`, `StartRead` and their like are functions from the object to
  the object as it is afterwards, because the code calls them from everywhere,
  also from each other; an action chains them in the order of the code.
* A timer whose handler has been queued (`fired`) is not stopped by `cancel`.
* The release of the protocol is an event that expires (`connection.cpp:73`): a
  dispatcher that is late drops it, and the protocol keeps its player.
  `ReleaseOwed` counts it as made.
* A connection that is closed while messages are queued keeps its socket until
  they are written. If the peer stops reading then, nothing ends the write: the
  write timer's `close(FORCE_CLOSE)` finds the connection closed already and
  returns (`connection.cpp:67`). `OutputEnds` says that every output ends but in
  that state (`Stalled`), in which it may stay pending for ever.
* Abstracted: contents, checksums, encryption, proxies' addresses, packets per
  second; the acceptor. The peer sends whole packets, or fails.

`PacketFlow` promises both sides: packets are taken one at a time and each
handled before the next; outputs reach the peer in order and at most once; what
is closed takes nothing more. `FlowKept` is the refinement: `Flow` is
`PacketFlow` with `accepted <- sent`, `delivered <- written`,
`shut <- conn.state = "closed"`.

### Session

State: per client its connection (`link`), the progress of its login (`stage`),
`ProtocolGame::player` (`holds`) and `acceptPackets`; per Player object its life
(`body`), `Player::client`, `isConnecting` and `shouldForceLogout`, and why the
idle timer passes over it, if it does (`excused`); the
character's entry in `mappedPlayerNames` and in `m_deadPlayers`; and the queue of
logins and releases on the dispatcher.

* `FirstMessage` and `FirstMessageRefused` run on the I/O thread: they look at
  who has the name, disconnect his client or refuse the newcomer, and queue the
  login. `LoginNew`, `LoginRefused`, `LoginConnects` and `LoginReplaces` are
  `ProtocolGame::login` when its turn comes; `ConnectLater` is `eventConnect`.
* `CloseLink` is `Connection::close` with the release it queues; `Release` is
  `ProtocolGame::release`.
* `Die`, `Respawn`, `RespawnFails`, `Leave`, `Logout`, `PingTimeout`, `IdleKick`
  are what ends or continues an object's life.
* `Move`, `Train` and `EndTraining` change what `onThink` looks at before it
  kicks (`player.cpp:8267`): the tile, the group, exercise training. A training
  ends, at the latest when its weapon is used up, but a player without a client
  who stands where nobody may log out, or who has access, is passed over for as
  long as that lasts. `LostPlayerLeaves` excepts him (`excused` is "kept"): with
  `shouldForceLogout` cleared (`player.cpp:2382`) he may stay in the game for
  ever.
* A character may be loaded a second time when he dies between a client's first
  message and its login: the name is free and the death screen not looked at
  again. The model has both objects.
* Assumed: `REPLACE_KICK_ON_LOGIN`, whose default is on. Without it a login of
  a character who is played is refused.

### WaitList

State: both lists, and the two sizes as variables of their own. `clientLogin`
erases from `waitList` a node that may be in `priorityWaitList`
(`waitlist.cpp:88`); with libstdc++ the node leaves the list it is in and the
size of the other shrinks. The sizes drift apart, their sum does not. Newcomers
are measured by the sizes: once they have drifted, a player without premium may
never be let in although nobody is ahead of him. Premium players are measured
along their list, and `PremiumIsLetIn` is stated of them.

### SaveManager

State: player objects and their contents (`mem`), rows, the maps of requests,
the pool's queue, what each thread does, the objects' locks. A player's data are
two parts: "first" is the row of `players`, which one statement updates; "items"
is any one of the tables that a save empties with a DELETE and fills again with
INSERTs (`player_items`, `player_depotitems`, `player_rewards`,
`player_inboxitems`, `player_stash`, `player_spells`, `player_kills` and others).
A part is the set of changes it reflects, so that "older", "mixed" and "emptied"
can be said. A login or an offline load makes a new object; `Destroy` is the end
of an object that nothing refers to (jobs of `schedulePlayer` hold weak pointers
and do not count).

* `Logout` and `SavePlayer` save on the dispatcher's thread or schedule a job,
  as `toggleSaveAsync` and the game state say.
* `TakeJob` skips a request that is not the latest or whose object is gone.
* `Lock`, `WriteFirst`, `ClearItems` (the DELETE), `InsertBatch` (an INSERT of
  some of the rows), `InsertItems` (the last INSERT) and `WriteFails` are
  `doSavePlayer`. There is no transaction: `executeWithinTransaction` calls its
  argument before it begins one. A save that fails, or is cut off by a crash,
  between its DELETE and its last INSERT leaves the table empty or half full, and
  the database has gone back.
* `NeverGoesBack` is about which object may write: a row loses something only to
  the DELETE of a save, and only what the object being saved holds. So what is
  deleted is written again unless this very save does not reach its end, and no
  stale object overwrites a newer row, failures or not. That a save which does
  reach its end leaves the row whole is `WholeRow`; that one which does not may
  leave anything is `save_crash`.
* `Submit`, `EndSubmit`, `EndSaveAll` are `saveAll`, on whatever thread.
* Two readings of the steady clock are taken to differ.
* The model's accesses to an object or map are atomic. The code's are not always
  (`m_playerMap` and `Game::players` are plain hash maps used by several
  threads): those data races are outside the model.

`saveAll` waits on a pool thread for jobs of the same pool. As many concurrent
saves of the server as the pool has free threads wait for each other for ever,
and so does one save on a pool of one thread; the comment at
`thread_pool.cpp:18-23` asks for at least four threads, the default at
`thread_pool.hpp:16` is `hardware_concurrency`. The asynchronous part of
`saving` has four threads, one of which is the dispatcher's, and at most two
saves.

### KVStore

State: `store_` and `lruQueue_`; the rows (`db`); for each thread the call it is
in (`op`) and the entries it has copied out of the cache and not yet written
(`todo`). A step is one critical section of `mutex_` or one SQL statement.
`latest` and `seen` are history.

* `Set`, `Remove`, and the part of `Get` under the mutex are steps; `Load` (the
  SELECT) and `Fill` (the `set` of the loaded row) are further steps of a get.
* `SetLocked` evicts whenever the cache is full, also when the key is already
  cached, and leaves the evicted entry in `todo`; `Write` saves it later.
* `SaveAll` copies the cache; `Write` stands for each of its statements, with
  any grouping of rows into one INSERT. `WriteFails` is a statement that fails
  for good: neither caller learns of it.
* `Crash` loses everything but the table.
* Abstracted: key strings and scopes, value types and their encoding, `keys()`
  (read only), `flush()` (no caller).

### Bank

State: coins (`money`), balances in the object (`balance`) and in the row
(`row`), offices in both places, the guild's balance, tax rates, and for each
player the topic of the dialogue with the bank NPC with the amount and recipient
it remembers. Every handler is one task of the dispatcher and one step.

* `Hear` is `Npc:parseBank`: `Asks` and `InTopic` say which of its branches a
  message reaches; keywords tried before a topic win over it.
* `SetHeld` changes the balance where it lives: in the object of an online
  player, in the row of any other (`Bank::~Bank`, `addBankByIdOrSQL`).
* `Buy`, `Sell` and `RemoveMoneyBank` are the money of shops and services, with
  federal and state tax and their distribution to the officers in the rows.
* `Vacancy` is the weekly `actionVacancy`; `WriteRow` is the part of
  `savePlayerGuard` that concerns money and offices. The offices do not stay
  vacant: the vacancy clears the rows (`eleicao.lua:84`), and the next save of an
  officer who is online writes his office back.
* Abstracted: coins by their worth (coins that fall on the floor still count);
  topics 14 to 22 (changing coins) as one; count and recipient kept only while a
  topic reads them; one bank NPC, because every NPC in range hears the same
  message; IOF `floor(amount * 0.05)` is `amount \div 20`; players with
  `save = 0` are left out. Balances are natural numbers, and `TypeOK` fails
  where `uint64_t` would wrap. The guild has one balance, because its object is
  saved whenever the last reference to it goes.
* The branch of a withdrawal that reverts it when the tax cannot be taken is
  unreachable: the tax is at most what was just added.

### Market

State: what each player has in gold and goods, the rows of `market_offers`, and
what the searches in flight have found. `Search` is the SELECT on a thread of the
pool, `ProcessExpired` the task that gives back what it found, after whatever
happened in between. `fees` and `troubles` are history.

The code loses or clones wealth in three ways, which `troubles` tells apart:
`"full"`, an inbox without room (the goods that do not fit are gone, and an
accepting buyer has paid for them: `game.cpp:9174`); `"short"`, an offer of more
than there is (what there is, is taken first); `"stale"`, an offer that shrank
while a search was in flight, which is given back in its old amount
(`iomarket.cpp:165`, the finding of `market_cloned`). `WealthKept` says that
nothing else does. Left out: coins of the store, tiers, history and statistics,
the limits on offers.

### Trade

State: where things are, and each player's `tradeState`, `tradePartner` and
`tradeItem` with `Game::tradeItems`. One thing is a bag. `Touched` folds the
callbacks `onUpdateTileItem`, `onRemoveContainerItem`, `checkTradeState` and
their like: the players whose offer a move touches; `MoveThing` closes their
trades in the same step. `agreed` is history: the content of the partner's offer
when a player accepted.

A player may accept before his partner has offered anything
(`game.cpp:5107`): the later offer does not take his acceptance back, and he gets
whatever it is. `StillAgreed` speaks of offers that were there.

### Party

State: one record `s` of the objects and their pointers. The operations
(`Disband`, `LeaveParty`, `RemoveInvite`, `ClearInvitations`, ...) are functions
from the record to the record, since the code's call one another. `m_leader` is
weak, so an object lives as long as a list holds it (`Exists`).

With `leavePartyOnDeath` off, a leader who dies and whose client goes leaves a
party without a leader, whose operations all return early (`party.cpp:139`): its
members can neither leave nor join another. `NobodyIsTrapped` is stated for the
option on; `PointersAgree` for both.

### Webhook

State: the queue of messages, `taskLock`, the jobs and threads of the pool, what
Discord has received. `SendMessage` and `SendPayload` are the dispatcher's, which
may have to wait for the lock while a job talks to Discord; `Run` is the
scheduled `run`; `Begin` to `Fails` are `sendWebhook`. A message whose answer is
lost is sent again. A message that Discord rejects stays at the head of the
queue, and those behind it wait for ever. Curl has no time limit here.

### Decay

State: one record `decay` of the items' attributes (`DECAYSTATE`, `DURATION` and
`DURATION_TIMESTAMP`, each of which may be missing), `decayMap`, and the events.
As the code's operations call one another (`startDecay` decays an item without
time, which transforms it, which starts it again), they are functions from the
record to the record, and `Appear` to `RunEvent` apply one. Times are relative,
and `TimePasses` shifts them all; an event runs at most `MaxDelay` late. Five
kinds of item type stand for all: one that burns, the same put out (`stopTime`),
what it decays to, what does not decay, and the type of ids that do not exist.

`eventId` may be overwritten while its event is pending (`decay.cpp:51`, after
`stopDecay` emptied the map, and `decay.cpp:151`): such an event goes on and
reschedules itself while anything decays. `others` is the set of them; equal ones
are not told apart, so their number is not modelled. `RemoveContainer` is the
removal of what an item lies in, which leaves the item in `decayMap` until it is
due. `Settle` frees objects that nothing refers to.

An item whose time is up and which is put out or taken off before the event has
run becomes what the new type decays to (`game.cpp:2853`): for a type that does
not decay that is -1, the id 65535. The model has that item (`invalid`). Not
modelled: copies of an item that decays (`Item::clone` copies the attributes, and
`startDecay` then takes the copy for one that is filed), items loaded with the
map, `UNIQUEID`, transformations to another group of types, which make a new
object, and the ids `internalDecayItem` refuses.

## 3. The runs

Runs marked (violation) check one statement of the repository's own, and TLC
finds it violated by what the code does.

| Run | Instance | Shows |
|---|---|---|
| `dispatcher_safety` | 2 threads, 4 events (one parallel that expires, three serial), 1 scheduled task, 1 cycle task | tasks neither lost nor doubled, live ones can be stopped, stopped ones never start |
| `pool`, dispatcher | 2 threads, a walk event, a parallel event, 1 cycle task | every task runs in spite of lost signals, cycle tasks go on, the loop ends after the stop |
| `pool`, webhook | 2 threads, 3 messages, 2 jobs waiting | no message is skipped, all are delivered, neither the dispatcher nor the pool waits for ever |
| `saving`, sync | 1 player, 2 threads, 3 objects, 3 changes, faults | no progress lost, rows whole, nothing newer overwritten by an older object |
| `saving`, async | 1 player, 4 threads, 2 requests | requests are merged and not forgotten, `saveAll` and shutdown end |
| `stores`, kv | 1 thread, 3 keys, cache of 2, 2 values, failures, crashes | list and cache agree; no update of a plain key is lost, reads are current, `saveAll` is durable |
| `stores`, party | 3 players, 2 parties | the four pointers agree, nobody is trapped |
| `stores`, trade | 3 players, a bag and two things | offers are sound, what was accepted is given |
| `stores`, decay | 2 items, durations up to 2, events up to 1 late | `decayMap` and its events fit the attributes; taking off and putting on keeps the time |
| `server`, connection | 2 packets, 2 outputs | the buffer has one user, one write loop, one release; `PacketFlow` is implemented; silent peers are closed, outputs end but for a peer that stops reading after a close |
| `server`, session | 2 clients, 2 Player objects | clients and objects agree, logins are answered, lost players leave unless the idle timer must pass over them |
| `server`, waitlist | 4 persons, 2 premium, 2 places | nobody gets in past another, premium players get in |
| `server`, market | 2 traders, 2 items and 2100 gold each, 2 offers, 1 search | goods and gold are kept, but for the three troubles |
| `server`, kv | 2 threads, disjoint keys, room for all | each thread sees its own writes while the other saves everything |
| `bank_money` | 3 players, 1 customer, 2 operations | no account below zero; gold is neither made nor lost, wherever officers and recipients are |
| `kv_shared_key` (violation) | 2 threads, 1 key | the row a get loads overwrites a value set in between |
| `kv_removed` (violation) | 1 thread, 2 keys | a removed key that still has a row comes back with the next get |
| `save_async_logout` (violation) | 1 player, 2 threads | the save a logout schedules is skipped when the object goes first, or overtaken by the next login |
| `save_crash` (violation) | 1 player, 1 thread | a failed statement or a crash leaves a player half saved, or a table empty |
| `two_clients` (violation) | 3 clients, 1 Player object | two connected clients play the same object |
| `market_cloned` (violation) | 2 traders | an offer that shrank during a search is given back whole |

Plain keys are those no client removes or reads with `forceLoad`. For the other
keys `kv_removed` shows what happens, and a forced load replaces the cached value
by the row on purpose.

### Bounds

* Dispatcher: four events give merges with the thread's queue longer, equal and
  shorter. `MaxLag` bounds the length of a turn in ticks, and a delay of one tick
  is shorter or longer than a turn. `MaxRuns` caps only a counter.
* Connection: the second packet meets everything the first leaves behind, the
  second output everything a running write loop does; a third of either finds
  the same states again. Closes, timers, errors and the shutdown are unbounded.
* Session: two clients and two objects reach every replacement; the violation
  needs a third client. Objects are not reused.
* WaitList: two premium and two other players on two places make both lists
  long and let the sizes drift; beyond `MaxDrift`, at least the number of
  places, a newcomer is refused whatever the drift is.
* SaveManager: three objects are a login, a second login and an offline load
  with the oldest object still in somebody's hands; three changes let an INSERT
  be cut in several places. Players do not interact in the code modelled, so one
  is enough. `MaxStamps` bounds requests.
* Decay: two items share a bucket, have two of different times, and find each
  other's when a timestamp is stale; with `MaxDelay` 1 two buckets are due at
  once. No fairness is needed: that an item waits no longer than the dispatcher
  is late is part of the invariant.
* KV: three keys in a cache of two reach eviction of another key, of the same
  key, and reload; two values tell old from new. In the `server` run the cache
  has room for all keys: when it is full, one thread evicts an entry of another,
  and until it is written the owner loads the old row, as in `kv_shared_key`.
* Bank: the amount 100 gives an IOF of 5, which splits into 1 for the president
  and 1 for each of four governors; a balance of 105 just passes the check for
  amount and tax and no longer does after any payment; a rate of 20 is capped to
  15 and 10. Two operations are enough for an offer made in one state to be
  confirmed in another.
* Market: two items let an offer be accepted in part; 2100 gold just pay for two
  items with their fees. `MaxTroubles` ends a behaviour's requests once something
  has gone wrong: nothing is claimed after it.
* Trade, Party: the third player is the one who intrudes between two; two
  parties let an invitation to one outlive a membership in the other.
* Webhook: three messages let one fail, one succeed and one be posted
  meanwhile; `MaxJobs` bounds the jobs that wait.

Deadlock is checked where the system does not stop. It is off where it may: the
dispatcher's loop ends, the server halts, a connection is closed for good, all
parts of a bounded supply (clients, offers, messages) are used up.

### Fairness

Everything is weak fairness of a thread that can go on, unless said otherwise.

* `Dispatcher`: the dispatcher's thread keeps taking steps (the tasks it runs
  return; pool threads serve parallel groups), a thread inside `notify()` leaves
  it, and time passes. Nothing is assumed of dispatching, stopping or shutting
  down.
* `SaveManager`: each thread goes on with what it has begun, statements return,
  and a server in shutdown kicks its players, which is one task. Nothing is
  assumed of logins, logouts, changes or requests.
* `Connection`: the I/O thread runs the handlers of completed operations and
  goes on inside them, the dispatcher runs what is queued, and an armed timer
  expires. Nothing is assumed of the peer: neither that it sends nor that it
  reads, so that a write may stay pending until the socket is closed.
* `Session`: queued logins and releases run, `eventConnect` runs, the idle timer
  kicks a player whom `onThink` does not have to pass over, and a training ends,
  since each of its blows takes a charge from the weapon. Nothing is assumed of
  the clients, nor of where a player is taken.
* `WaitList`: whoever wants to play keeps asking, and whoever plays logs out in
  the end: neither is code, both are what a waiting list is for.
* `Webhook`: `run` is rescheduled, threads take jobs, a request ends. Strong
  fairness, for things that are possible again and again but not all the time:
  the lock is given to the dispatcher and to the jobs, and Discord does not
  refuse for ever what it can take.

`MCServer` shares one condition between components, which is sound because
`part` never changes and the conditions carry it in their guards.

## 4. Proofs

TLC checks the instances above. The theorems hold for every value of the
constants that satisfies the modules' named assumptions. Every invariant and
every action property that a passing run checks is the subject of a theorem;
`PROJECT.json` says which. Each inductive invariant was checked with TLC before it
was proved.

The assumptions on constants are those of the instances: sets of one module that
must not overlap, bounds that are natural numbers, and that players, traders,
parties, items and scheduled tasks are finitely many (`BankAssumption`,
`MarketAssumption`, `PartyAssumption`, `DecayAssumption`,
`DispatcherAssumption`), which sums and loops over them need.

### Induction (`FiniteSums`)

The prover cannot apply a theorem to a predicate, so that the library's induction
theorems are of no use as they are. Over the subsets of a finite set and over
numbers induction can be stated with a set in the predicate's place:
`SmallestSubset` (a set of subsets of a finite set has a minimal member),
`SubsetInduction` and `NumberInduction` follow from the library's theorems on
well-founded orders. With them `FoldExists` shows that the recursion behind
`SumFunction` and `MapThenSumSet` has a solution, and the lemmas on sums (type,
change of one summand, of two, of an added or removed element, comparison) follow.
The other loops of the code are proved the same way: `Erased` (Party) and
`Dropping` (WaitList), which stand for `erase` on a list and are defined here
because the library's `SelectSeq` says nothing to the prover; `ClearInvitations`
over the parties (`ClearExists`, `ClearAll`); `checkDecay` over the items
(`ExpireExists`, `ExpireSome`).

### Key-value store (`KVStoreProofs`)

`TypeCorrect`, a get never returns a tombstone and the table never holds one;
`LruCorrect`, the list lists exactly the cached keys, once each, and never more
than `MAX_SIZE`. The inductive invariant `KVInv` is the conjunction of both. They
need each other: eviction takes the last key of the list, which exists and is
cached only because the list matches the cache (`FullHasLast`, by counting), and
removing a key from the list (`WithoutRemoves`) removes all of it only because the
list has no repeats. `SetLockedPreserves` is the step shared by `Set`, `Remove`
and `Fill`.

`NoUpdateIsLost` and `GetsAreCurrent` hold under `UsedApart`: one thread uses the
store, or every thread has keys of its own and the cache never fills. The
condition is not a convenience: for two threads on one key the run
`kv_shared_key` refutes both, and an eviction in one thread's hands hides the
value from the others in the same way. `SavesAreDurable` needs `Alone`, one
thread. `KVSafe` says where the latest value of a key is (`Kept`: in the cache, or
else with the thread that is writing it, or else in the table), what a get on its
way has seen (`Got`), what saveAll has still to write (`Saving`) and who may be
writing meanwhile (`InCall`).

### Bank (`BankProofs`)

`TypeCorrect`: no balance, purse or guild account goes below zero. `TypeOK` is
inductive as it stands, because each handler checks again what it is about to
take, whatever was checked when the offer was made. The arithmetic is in four
lemmas: quotients, IOF at most its amount (`IofBounds`), a percentage of at most
15 (`Percent`), and both taxes together at most the price (`TaxBounds`, needed by
`Sell`, which subtracts them from it).

`GoldIsConserved`: the gold of all players and of the guild is never more than
what there was and was earned at shops less what was paid there, and never less
than that by more than the taxes. `BankInv` adds to `TypeOK` that offices are only
held by those they were given to (`Officers`), so that no two players share one
and the officers' shares together are at most the tax, and that a transfer waits
for a "yes" only with a player as its recipient (`Named`).

### Dispatcher, webhook and their composition (`PoolProofs`)

`DispatcherTypeCorrect`, `TasksAreKept` (`NoTaskLost`: each accepted event is
queued once, or ran once, or was dropped), `LiveTasksAreFound`
(`StopFindsLiveTasks`) and the action property `StoppedStaysStopped`
(`StoppedNeverStarts`). `DispatcherInv` ties the phase of the loop to what is
running (`PhaseSound`), says that no queue holds a task twice and that no two
queues share one (`QueuesSound`), where an event and a scheduled task are by what
happened to them (`EventsSound`, `ScheduledSound`), and what `scheduledTasksRef`
refers to (`RefSound`). Merging concatenates queues, so that the lemmas on `\o` and
`Append` need that the queues are disjoint; that is why the invariant is about all
queues at once.

`WebhookTypeCorrect` and the action property `NothingIsSkipped`
(`NoMessageSkipped`). `WebhookInv` adds to the types that what was received is just
before the queue, or its head (`ReceivedInOrder`). The lock enters through the
types: only its holder talks to Discord, so the head he reports on is the one he
sent. `PoolTypeCorrect` and `PoolSkipsNothing` carry both to `MCPool`.

### Saving (`SaveManagerProofs`, `SavingProofs`)

`SavingTypeCorrect`. Without `toggleSaveAsync`: `NothingIsLost` (`NoProgressLost`
and `WholeRow`) and the action property `SavesGoForward` (`NeverGoesBack`).
`SyncShape` says who may be busy with a player at a time: jobs run and wait only
while the dispatcher is in `saveAll` and neither loads nor changes a player, and a
player is saved once at a time. `Complete` says where all of a player's
changes are (in the object, with the thread that saves it, or in the row; while
that thread is between its DELETE and its last INSERT nothing is said of the
table), and `Behind` that a row has nothing that the object to be written to it
lacks. `Behind` holds of players whose saves failed, too, and is what
`SavesGoForward` comes from: what a DELETE takes from a row is in the object.

`FirstRequestsAreKept` and `RequestsAreKept` (`RequestSaved`), also with
`toggleSaveAsync`, as long as statements succeed: a request to save a player's
first object is carried out. With a second object of the player, which logging
out and in makes, it is not: the run `save_async_logout` shows how the progress is
lost.
`RequestInv` says that as long as a request is open a job with the latest
timestamp is queued or running (`Asks`), half way (the first part written, the
items being deleted and inserted), or done.

`SavingProofs` gives the same for the specification that TLC checks: with the
constants of the run for the synchronous mode (`SyncTypeCorrect`,
`SyncLosesNothing`, `SyncSavesGoForward`), and, through an instance of
`SaveManagerProofs`, for the pool's (`AsyncRequestsAreKept`).

### Connection, session, waiting list, market (`ServerProofs`)

Connection: `ConnTypeCorrect`, `OneUserOfTheBuffer` (`BufferHasOneUser`),
`OneLoopWrites` (`OneWriteLoop`), and the refinement `ConnectionImplementsFlow`
(`FlowKept`). `ConnInv` has three parts: `Sound` (a closed socket means a closed
connection), `InputSound` (what is in `m_msg` relative to the reads, the parse
task and what was taken and handled) and `OutputSound` (the queue continues what
was written, and a write loop runs for it). A lemma per handler shows that it
keeps the parts it can disturb; `FlowStep` gives for each the step of `PacketFlow`
it maps to, or a stutter. `OneReleaseOwed` (`ReleaseOwed`): a closed connection
with a protocol has exactly one release queued, or had its one, and an open one
has none. Every handler that may close queues one exactly when the connection was
open (`ReleaseInv`, `ReleaseAdded`).

Session: `SessionTypeCorrect` (in particular no login or release waits twice) and
`PlayersHaveTheirClient` (`ClientHoldsPlayer`). `ClientHoldsPlayer` alone is not
inductive: attaching a client that already holds an object would leave that object
with a client that plays another. `SessionInv` therefore says that a client holds
nobody until its login is through (`HoldsSound`), that a queued login belongs to a
client in stage "queued", and that a queued release belongs to a connection that
is closed (`TurnsSound`, which also gives that neither waits twice).
`CloseLinkSound` and `AttachSound` are the steps that the actions share.

Waiting list: `WaitTypeCorrect` and `NobodyGetsPast` (the action property
`SeatsKept`). `WaitInv` says that each list has its own kind of people, once each
(`IsInjective`), none of whom is playing, and of the two sizes, which may drift
apart from the lists, that their sum does not, and that the first is at least the
length of its list. That is what the property needs: who stands where is a matter
of the lists, whether there is a place one of the sum.

Market: `MarketTypeCorrect` and `WealthIsKept` (`WealthKept`). `MarketInv` adds to
both that offers and the results of searches are finitely many, and that ids of
offers are not used again (`o.id <= made`): a search holds copies of offers, and
an id that came back would be given back twice.

Composition: `PartsBehave`, a behaviour of `MCServer` is one of each component, and
`ServerTypeCorrect` (`ServerTypeOK`). `ApartIsConsistent` (`ApartConsistent`) is
`NoUpdateIsLost` and `GetsAreCurrent` for the store in `MCServer`, by an instance
of `KVStoreProofs` with its constants (`StoreAssumption`).

### Parties, items, trades (`StoresProofs`)

Parties: `PartyTypeCorrect`, `PointersStayTogether` (`PointersAgree`) and
`PartiesCanBeLeft` (`NobodyIsTrapped`). `PartyInv` says of each party that its
leader and its members, and nobody else, have it as their party (`PeopleAgree`),
that player and party know of the same invitations and that the invited are
neither its leader nor its members (`InvitesAgree`), that it is not empty
(`NotLonely`), and, when death makes players leave (`leaveOnDeath`), that all of
its people are online (`Safe`). Without the second half of `InvitesAgree` a member
who joins could stay invited, and disbanding would miss him. The operations call
each other in the middle, so the lemmas are about the parts of an operation on a
party q: `Done(t, u, q)` says what may have changed and that q is sound again.
With `leaveOnDeath` off a dead player stays listed, and his party's leader may be
gone; then only `PointersAgree` is claimed.

Items: `DecayTypeCorrect`, `ItemsAreFiled` (`DecayMapSound`) and the action
property `TimeKept` (`TimeIsKept`). Between operations an item is `Firm`: filed
where its stamp says if its state is "true", and not filed otherwise. In the
middle it is only `Loose` (what is filed is so where the stamp says, but setID may
have changed the state), and before startDecay it is `Ready`: an item that is filed
and not in state "true" is one that startDecay will take out of `decayMap` first.
`Late(w, R)` says that each bucket has an event no later than it, or a time in R:
`checkDecay` runs with the remaining buckets in R until it schedules the event for
the first of them (`CheckDecayDoes`). `DecayedReady` shows that what an item decays
to is not due at once, so that startDecay inside transformItem ends.

Trades: `TradesAgree` (`TradeTypeOK`: partners have each other, and
`Game::tradeItems` is what they offer), `OffersAreSound` (`OffersSound`),
`AcceptedIsGiven` (`StillAgreed`). `TradeInv` adds to these that who agreed has a
partner, and that one offers a thing (`AgreedWithPartner`). Nearly every step
closes trades, so the core is `CloseKeepsInv`: a step that closes the trades of a
set of players and their partners, and leaves alone what the others offer and what
is in it, keeps the invariant. That `Touched` finds everyone whose offer a move
disturbs is the content of `MoveThingKeeps`, and that `IsTraded` looks both into
and around a thing that of `RequestTradeKeeps`.

Composition: `StoresBehave` and `StoresTypeCorrect` (`StoresTypeOK`).

### Only model-checked

Liveness (`LoopGoesOnAndEnds`, `AsyncSavesEnd`, `Delivered`,
`NobodyWaitsForDiscord`, `SilentPeerIsTimedOut`, `OutputEnds`, `LoginAnswered`,
`LostPlayerLeaves`, `PremiumIsLetIn`), because the proof system handles neither
`ENABLED` nor fairness here; and the properties that the code violates, for which
TLC finds the counterexample.

## 5. What the code does otherwise than it says

1. `kv.cpp:76`: `get` sets the loaded row after releasing the mutex
   (`kv_shared_key`).
2. `kv.cpp:66`: a cached tombstone counts as a miss (`kv_removed`).
3. `save_manager.cpp:161`: with `toggleSaveAsync` a logout's save may be skipped
   (`save_async_logout`).
4. `database.hpp:230`: the body of a transaction runs before it begins, so that a
   save that fails half way stays half way, also between the DELETE of a table and
   its INSERT (`save_crash`).
5. `protocolgame.cpp:711`: `connect` takes a player over from a client that came
   in the second before, without disconnecting it (`two_clients`).
6. `iomarket.cpp:165`: an expired offer is given back in the amount that the
   search saw, not in the one left (`market_cloned`).

The notes of section 2 name more behaviours that surprise, of which no doc,
comment or test says otherwise: the lost signal and the order of events
(Dispatcher), the release that expires and the write that nothing ends
(Connection), the second object and the player who stays (Session), the drift (WaitList), `saveAll` with too few threads (SaveManager),
offices that return (Bank), goods lost to a full inbox (Market), accepting
nothing (Trade), a party without a leader (Party), items with an id that does not
exist (Decay), and requests without a time
limit (Webhook).

## 6. Not modelled

The modules cover what is concurrent, persistent or spread over requests, which
is a small share of the code. Most of it is game rules: combat formulas, spells,
conditions, monsters, item attributes, the wheel, prey and other systems of one
player, hundreds of Lua bindings, and the encoding of packets. They run to the
end within one task of the dispatcher, keep their state in the objects of one
creature, and have values rather than interleavings as their subject: a model
would repeat the formulas. Item serialisation and the object graph of items and
tiles would need a model of the heap. Path finding is geometry.

Also outside: data races inside containers (a step of a model is atomic where the
code takes a lock, or where one thread owns the state; `Game::players` and
`m_playerMap` are used by several threads without one), the ids of tasks and
threads (`task.hpp:24`, `thread_pool.hpp:55` increment and read in two steps), and
wall-clock time beyond "a timer may expire".

## 7. Plan

What is left, most important first.

1. `Database`: `DBInsert` (batches sent again with every later row,
   `database.cpp:398`), transactions, retries of lost connections; an abstract
   atomic save that `SaveManager` would refine if its statements were in a
   transaction.
2. Goods in `Bank`: `npc.cpp:467` checks the price without tax, and
   `npc_functions.cpp:684` hands the goods over before `removeMoney`.
3. `Bank` with crashes: a transfer saved for the recipient and not yet for the
   sender (`bank.cpp:29`); accounts and their coins likewise.
4. Task ids and their reuse by `stopEvent`; server start, signals and reloads.
5. Houses (rent, eviction, transfer); copies of decaying items.
6. Proofs: what the modules of items 1 to 5 promise; the step of each liveness
   argument that is about safety (what a pending login, output or save waits for)
   as an invariant with a theorem; `RequestSaved` for several objects per player
   under the condition that excludes the run `save_async_logout`.

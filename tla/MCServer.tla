------------------------------ MODULE MCServer ------------------------------
(* Instances of the components that share no state with one another, checked *)
(* together: `part' says which of them this behaviour is about, and the      *)
(* others stand still. The fairness conditions are the components' own, each *)
(* with the guard that its component is the one that runs; as `part' never   *)
(* changes, those of different components can share one condition, which     *)
(* spares TLC work.                                                          *)
EXTENDS Connection, Session, WaitList, Market

CONSTANTS k1, k2, Val, t1, t2, Absent, Deleted

VARIABLES part, store, lruQueue, db, op, todo, latest, seen, dbFailed

\* The key-value store: two threads with disjoint keys, as the keys of a player
\* belong to whoever runs that player's code, and a cache that never fills.
kvVars == <<store, lruQueue, db, op, todo, latest, seen, dbFailed>>
Apart == INSTANCE KVStore
           WITH Key <- {k1, k2}, Thread <- {t1, t2}, MAX_SIZE <- 3,
                Access <- [k \in {k1, k2} |-> IF k = k1 THEN {t1} ELSE {t2}],
                Removable <- {}, ForceLoaded <- {}, DbMayFail <- FALSE

\* The values that a client may store are neither of the two marks.
ASSUME StoreAssumption == Absent # Deleted /\ Absent \notin Val /\ Deleted \notin Val

vars == <<part, connVars, sessionVars, waitVars, marketVars, kvVars>>

\* Clients and Players are disjoint sets of Persons here, so that the fairness
\* conditions below can be shared.
ASSUME SharedNames == Clients \union Players \subseteq Persons /\ Clients \intersect Players = {}

\* Of several initial states of a component one will do where it is not the
\* part that runs.
Init ==
  /\ part \in {"connection", "session", "waitlist", "market", "kv"}
  /\ ConnInit /\ SessionInit /\ WaitInit /\ MarketInit /\ Apart!Init
  /\ part # "connection" => conn.protocol
  /\ part # "kv" => \A k \in {k1, k2} : db[k] = Absent

Connecting ==
  /\ part = "connection" /\ part' = part
  /\ UNCHANGED <<sessionVars, waitVars, marketVars, kvVars>>
Playing ==
  /\ part = "session" /\ part' = part
  /\ UNCHANGED <<connVars, waitVars, marketVars, kvVars>>
Queuing ==
  /\ part = "waitlist" /\ part' = part
  /\ UNCHANGED <<connVars, sessionVars, marketVars, kvVars>>
Marketing ==
  /\ part = "market" /\ part' = part
  /\ UNCHANGED <<connVars, sessionVars, waitVars, kvVars>>
Storing ==
  /\ part = "kv" /\ part' = part
  /\ UNCHANGED <<connVars, sessionVars, waitVars, marketVars>>

Next ==
  \/ Connecting /\ ConnNext
  \/ Playing /\ SessionNext
  \/ Queuing /\ WaitNext
  \/ Marketing /\ MarketNext
  \/ Storing /\ Apart!Next

Fairness ==
  /\ WF_vars(\/ Connecting /\ Reading
             \/ Playing /\ (Release \/ LoginTurn))
  /\ WF_vars(Connecting /\ Writing)
  /\ WF_vars(Connecting /\ HandleTimeout)
  /\ WF_vars(Connecting /\ Dispatching)
  /\ WF_vars(Connecting /\ TimerExpires)
  /\ \A p \in Persons : WF_vars(\/ Queuing /\ (WalkIn(p) \/ AskAtList(p))
                                \/ p \in Clients /\ Playing /\ ConnectLater(p)
                                \/ p \in Players /\ Playing /\ IdleKick(p))
  /\ \A p \in Persons : WF_vars(\/ Queuing /\ LogOut(p)
                                \/ p \in Players /\ Playing /\ EndTraining(p))

Spec == Init /\ [][Next]_vars /\ Fairness

\* SilentPeerIsClosed of Connection: see there.
SilentPeerIsTimedOut == part = "connection" => SilentPeerIsClosed

\* NoLostUpdate and GetIsCurrent of KVStore, for threads with keys of their
\* own: each sees its last write, although the other may be saving all keys.
ApartConsistent == Apart!NoLostUpdate /\ Apart!GetIsCurrent

\* The type invariants of the components.
ServerTypeOK == ConnTypeOK /\ SessionTypeOK /\ WaitTypeOK /\ MarketTypeOK
=============================================================================

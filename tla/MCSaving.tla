------------------------------ MODULE MCSaving ------------------------------
(* SaveManager with toggleSaveAsync off (the constants of the configuration) *)
(* and on (Pool), one or the other per behaviour.                            *)
EXTENDS SaveManager

VARIABLE mode  \* "sync" or "async"

\* toggleSaveAsync on, one object per player: requests are merged on the pool,
\* and at most two saves of the server run at a time on four threads.
Pool == INSTANCE SaveManager
          WITH NThreads <- 4, Async <- TRUE, Faults <- FALSE,
               MaxObjects <- 1, MaxChanges <- 2, MaxStamps <- 2

SavingVars == <<mode, vars>>

SavingInit ==
    \/ mode = "sync" /\ Init
    \/ mode = "async" /\ Pool!Init

SavingNext ==
    /\ mode' = mode
    /\ \/ mode = "sync" /\ Next
       \/ mode = "async" /\ Pool!Next

\* Fairness is assumed of the pool; with failing statements and crashes nothing
\* is said about what must happen.
SavingFairness ==
    /\ WF_SavingVars(mode = "async" /\ mode' = mode /\ Pool!DispatcherStep)
    /\ \A w \in Pool!Thread : WF_SavingVars(mode = "async" /\ mode' = mode /\ Pool!ThreadStep(w))

SavingSpec == SavingInit /\ [][SavingNext]_SavingVars /\ SavingFairness

\* TypeOK of SaveManager, with toggleSaveAsync off.
SyncTypeOK == mode = "sync" => TypeOK

\* NoProgressLost and WholeRow of SaveManager, with toggleSaveAsync off: see
\* there.
SyncNothingLost == mode = "sync" => NoProgressLost /\ WholeRow

\* NeverGoesBack of SaveManager, with toggleSaveAsync off: see there.
SyncNeverGoesBack ==
    [][mode = "sync" => GoesOn]_SavingVars

\* RequestSaved of SaveManager, with toggleSaveAsync on: see there.
AsyncRequestSaved == mode = "async" => Pool!RequestSaved

\* SaveAllEnds and ShutdownHalts of SaveManager, with toggleSaveAsync on: see
\* there.
AsyncSavesEnd ==
    /\ \A w \in Pool!Thread :
         (mode = "async" /\ act[w].do \in {"submit", "wait"}) ~> (mode = "async" => act[w] = Idle)
    /\ (mode = "async" /\ gameState = "shutdown") ~> gameState = "halted"
=============================================================================

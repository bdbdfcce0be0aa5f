---------------------------- MODULE SavingProofs ----------------------------
(* The theorems of SaveManagerProofs for the specification that is           *)
(* model-checked, in which toggleSaveAsync is off or on.                     *)
EXTENDS MCSaving, SaveManagerProofs

\* What SavingSpec does while toggleSaveAsync is off is what Spec does.
LEMMA SavingSteps ==
    ASSUME [SavingNext]_SavingVars
    PROVE  mode' = "sync" => mode = "sync" /\ [Next]_vars
BY DEF SavingNext, SavingVars

\* The save manager, its jobs, objects and rows keep their types in every
\* behaviour without toggleSaveAsync.
THEOREM SyncTypeCorrect == SavingSpec => []SyncTypeOK
<1> DEFINE Inv == mode = "sync" => TypeInv
<1>1. SavingInit => Inv
    BY InitType DEF SavingInit
<1>2. Inv /\ [SavingNext]_SavingVars => Inv'
    BY NextType, SavingSteps
<1>3. Inv => SyncTypeOK
    BY DEF TypeInv, SyncTypeOK
<1> QED
    BY <1>1, <1>2, <1>3, PTL DEF SavingSpec

\* Without toggleSaveAsync a player always shows every change made to it, whatever
\* logins, logouts, saves and loads come together, and both parts of a row reflect
\* the same changes, unless a statement failed or the server crashed (property
\* SyncNothingLost).
THEOREM SyncLosesNothing ==
    ASSUME ~Async
    PROVE  SavingSpec => []SyncNothingLost
<1> DEFINE Inv == mode = "sync" => SyncInv
<1>1. SavingInit => Inv
    BY InitSync DEF SavingInit
<1>2. Inv /\ [SavingNext]_SavingVars => Inv'
    BY NextSync, SavingSteps
<1>3. Inv => SyncNothingLost
    BY SyncNothingIsLost DEF SyncNothingLost
<1> QED
    BY <1>1, <1>2, <1>3, PTL DEF SavingSpec

\* Without toggleSaveAsync no save overwrites a row with older progress: what a
\* DELETE takes from it is held by the object that is being saved (property
\* SyncNeverGoesBack).
THEOREM SyncSavesGoForward ==
    ASSUME ~Async
    PROVE  SavingSpec => SyncNeverGoesBack
<1> DEFINE Inv == mode = "sync" => SyncInv
<1>1. SavingInit => Inv
    BY InitSync DEF SavingInit
<1>2. Inv /\ [SavingNext]_SavingVars => Inv'
    BY NextSync, SavingSteps
<1>3. Inv /\ [SavingNext]_SavingVars =>
          [mode = "sync" => GoesOn]_SavingVars
    BY SyncGoesOn DEF SavingNext, SavingVars
<1> QED
    BY <1>1, <1>2, <1>3, PTL DEF SavingSpec, SyncNeverGoesBack

-----------------------------------------------------------------------------
(* toggleSaveAsync on: the same proofs, with the constants of Pool. *)

AsyncProofs == INSTANCE SaveManagerProofs
                WITH NThreads <- 4, Async <- TRUE, Faults <- FALSE,
                     MaxObjects <- 1, MaxChanges <- 2, MaxStamps <- 2

LEMMA SamePool ==
    /\ Pool!Init <=> AsyncProofs!Init
    /\ Pool!Next <=> AsyncProofs!Next
    /\ Pool!RequestSaved <=> AsyncProofs!RequestSaved
<1>1. Pool!Init <=> AsyncProofs!Init
    BY DEF Pool!Init, AsyncProofs!Init, Pool!Thread, AsyncProofs!Thread, Pool!Part,
       AsyncProofs!Part, Pool!Object, AsyncProofs!Object, Pool!Idle, AsyncProofs!Idle
<1>2. Pool!Next <=> AsyncProofs!Next
    BY DEF Pool!Thread, AsyncProofs!Thread, Pool!Part, AsyncProofs!Part, Pool!Object,
       AsyncProofs!Object, Pool!Guid, AsyncProofs!Guid, Pool!objects, AsyncProofs!objects,
       Pool!stamps, AsyncProofs!stamps, Pool!pool, AsyncProofs!pool, Pool!history,
       AsyncProofs!history, Pool!vars, AsyncProofs!vars, Pool!Idle, AsyncProofs!Idle,
       Pool!Saving, AsyncProofs!Saving, Pool!Nothing, AsyncProofs!Nothing,
       Pool!RemovePlayer, AsyncProofs!RemovePlayer, Pool!SaveSteps, AsyncProofs!SaveSteps,
       Pool!IsSaving, AsyncProofs!IsSaving, Pool!Uses, AsyncProofs!Uses, Pool!Running,
       AsyncProofs!Running, Pool!Current, AsyncProofs!Current, Pool!Changed,
       AsyncProofs!Changed, Pool!Change, AsyncProofs!Change, Pool!Load, AsyncProofs!Load,
       Pool!LoadFirst, AsyncProofs!LoadFirst, Pool!LoadItems, AsyncProofs!LoadItems,
       Pool!Schedule, AsyncProofs!Schedule, Pool!SaveHere, AsyncProofs!SaveHere,
       Pool!SavePlayer, AsyncProofs!SavePlayer, Pool!Logout, AsyncProofs!Logout,
       Pool!Destroy, AsyncProofs!Destroy, Pool!ScheduleAll, AsyncProofs!ScheduleAll,
       Pool!Shutdown, AsyncProofs!Shutdown, Pool!ShutdownSaveAll,
       AsyncProofs!ShutdownSaveAll, Pool!Submit, AsyncProofs!Submit, Pool!EndSubmit,
       AsyncProofs!EndSubmit, Pool!EndSaveAll, AsyncProofs!EndSaveAll, Pool!Skipped,
       AsyncProofs!Skipped, Pool!Started, AsyncProofs!Started, Pool!TakeJob,
       AsyncProofs!TakeJob, Pool!Lock, AsyncProofs!Lock, Pool!Finish, AsyncProofs!Finish,
       Pool!WriteFirst, AsyncProofs!WriteFirst, Pool!SetItems, AsyncProofs!SetItems,
       Pool!ClearItems, AsyncProofs!ClearItems, Pool!InsertBatch, AsyncProofs!InsertBatch,
       Pool!InsertItems, AsyncProofs!InsertItems,
       Pool!WriteFails, AsyncProofs!WriteFails, Pool!Crash, AsyncProofs!Crash,
       Pool!DispatcherStep, AsyncProofs!DispatcherStep, Pool!ThreadStep,
       AsyncProofs!ThreadStep, Pool!Next, AsyncProofs!Next
<1>3. Pool!RequestSaved <=> AsyncProofs!RequestSaved
    BY DEF Pool!RequestSaved, AsyncProofs!RequestSaved, Pool!WillSave, AsyncProofs!WillSave,
       Pool!IsSaving, AsyncProofs!IsSaving, Pool!SaveSteps, AsyncProofs!SaveSteps,
       Pool!Current, AsyncProofs!Current, Pool!Thread, AsyncProofs!Thread, Pool!Part,
       AsyncProofs!Part
<1> QED
    BY <1>1, <1>2, <1>3

\* With toggleSaveAsync on and one object per player, requests that the pool
\* merges are never forgotten.
THEOREM AsyncRequestsAreKept == SavingSpec => []AsyncRequestSaved
<1> DEFINE Inv == mode = "async" => AsyncProofs!RequestInv
<1>1. SavingInit => Inv
    BY SamePool, AsyncProofs!InitRequests DEF SavingInit
<1>2. Inv /\ [SavingNext]_SavingVars => Inv'
    <2> SUFFICES ASSUME Inv, [SavingNext]_SavingVars, mode' = "async"
                 PROVE  AsyncProofs!RequestInv'
        OBVIOUS
    <2>1. mode = "async" /\ (Pool!Next \/ UNCHANGED vars)
        BY DEF SavingNext, SavingVars
    <2>2. [AsyncProofs!Next]_(AsyncProofs!vars)
        BY <2>1, SamePool DEF vars, objects, stamps, pool, history, AsyncProofs!vars,
           AsyncProofs!objects, AsyncProofs!stamps, AsyncProofs!pool, AsyncProofs!history
    <2> QED
        BY <2>1, <2>2, AsyncProofs!NextRequests
<1>3. Inv => AsyncRequestSaved
    <2> SUFFICES ASSUME Inv, mode = "async"
                 PROVE  Pool!RequestSaved
        BY DEF AsyncRequestSaved
    <2>1. AsyncProofs!RequestInv
        OBVIOUS
    <2> QED
        BY <2>1, SamePool, AsyncProofs!RequestInvSaves
<1> QED
    BY <1>1, <1>2, <1>3, PTL DEF SavingSpec
=============================================================================

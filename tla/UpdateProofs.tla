---------------------------- MODULE UpdateProofs ----------------------------
(***************************************************************************)
(* Proofs about UpdateTransaction, for every combination of faults that    *)
(* their hypotheses allow: the runs take a few of them.                    *)
(***************************************************************************)
EXTENDS UpdateTransaction, SequenceTheorems, TLAPS

-----------------------------------------------------------------------------
(* The journal.                                                            *)

\* What a journal says after one more step s.
Journaled(s) ==
    /\ journal' \in Seq(Steps) /\ journal' # <<>>
    /\ \A t : Has(t)' <=> Has(t) \/ t = s
    /\ Ended' <=> s \in Terminal

\* One step appended.
LEMMA AppendStep ==
    ASSUME journal \in Seq(Steps), NEW s \in Steps, journal' = Append(journal, s)
    PROVE  Journaled(s)
<1>1. /\ journal' \in Seq(Steps) /\ Len(journal') = Len(journal) + 1 /\ Len(journal) \in Nat
      /\ journal'[Len(journal')] = s /\ \A i \in 1..Len(journal) : journal'[i] = journal[i]
    BY AppendProperties, LenProperties
<1>2. DOMAIN journal = 1..Len(journal) /\ DOMAIN journal' = 1..Len(journal')
    BY <1>1, LenProperties
<1>3. journal' # <<>>
    BY <1>1, EmptySeq
<1>4. ASSUME NEW t PROVE Has(t)' <=> Has(t) \/ t = s
  <2>1. ASSUME Has(t) PROVE Has(t)'
    BY <1>1, <1>2, <2>1 DEF Has
  <2>2. t = s => Has(t)'
    BY <1>1, <1>2 DEF Has
  <2>3. ASSUME Has(t)', t # s PROVE Has(t)
    BY <1>1, <1>2, <2>3 DEF Has
  <2> QED
    BY <2>1, <2>2, <2>3
<1>5. Ended' <=> s \in Terminal
    BY <1>1, <1>3 DEF Ended, Started
<1> QED
    BY <1>1, <1>3, <1>4, <1>5 DEF Journaled

\* What _step leaves: nothing new if the step is there already.
Stepped(s) ==
    /\ journal' \in Seq(Steps) /\ journal' # <<>>
    /\ \A t : Has(t)' <=> Has(t) \/ t = s
    /\ Ended' <=> IF Has(s) THEN Ended ELSE s \in Terminal

LEMMA JournalStep ==
    ASSUME journal \in Seq(Steps), NEW s \in Steps, Journal(s)
    PROVE  Stepped(s)
<1>1. CASE Has(s)
  <2>1. journal' = journal /\ journal # <<>>
    BY <1>1 DEF Journal, Has
  <2> QED
    BY <1>1, <2>1 DEF Stepped, Has, Ended, Started
<1>2. CASE ~Has(s)
  <2>1. Journaled(s)
    BY <1>2, AppendStep DEF Journal
  <2> QED
    BY <1>2, <2>1 DEF Journaled, Stepped
<1> QED
    BY <1>1, <1>2

\* A recovery that finds the new version up journals two steps.
LEMMA FinalizeSteps ==
    ASSUME journal \in Seq(Steps), journal' = journal \o <<"HEALTHY", "FINALIZED">>
    PROVE  /\ journal' \in Seq(Steps) /\ journal' # <<>> /\ Ended'
           /\ \A t : Has(t)' <=> Has(t) \/ t \in {"HEALTHY", "FINALIZED"}
<1>1. <<"HEALTHY", "FINALIZED">> \in Seq(Steps)
    BY DEF Steps, Terminal
<1>2. /\ journal' \in Seq(Steps) /\ Len(journal') = Len(journal) + 2 /\ Len(journal) \in Nat
      /\ \A i \in 1..Len(journal) : journal'[i] = journal[i]
      /\ journal'[Len(journal) + 1] = "HEALTHY" /\ journal'[Len(journal) + 2] = "FINALIZED"
    BY <1>1, ConcatProperties, LenProperties
<1>3. DOMAIN journal = 1..Len(journal) /\ DOMAIN journal' = 1..Len(journal')
    BY <1>2, LenProperties
<1>4. journal' # <<>>
    BY <1>2, EmptySeq
<1>5. ASSUME NEW t PROVE Has(t)' <=> Has(t) \/ t \in {"HEALTHY", "FINALIZED"}
  <2>1. Has(t) => Has(t)'
    BY <1>2, <1>3 DEF Has
  <2>2. t \in {"HEALTHY", "FINALIZED"} => Has(t)'
    <3>1. Len(journal) + 1 \in DOMAIN journal' /\ Len(journal) + 2 \in DOMAIN journal'
      BY <1>2, <1>3
    <3> QED
      BY <1>2, <3>1 DEF Has
  <2>3. ASSUME NEW i \in DOMAIN journal', journal'[i] = t
        PROVE  Has(t) \/ t \in {"HEALTHY", "FINALIZED"}
    <3>1. i \in 1..Len(journal) \/ i = Len(journal) + 1 \/ i = Len(journal) + 2
      BY <1>2, <1>3
    <3> QED
      BY <1>2, <1>3, <2>3, <3>1 DEF Has
  <2> QED
    BY <2>1, <2>2, <2>3 DEF Has
<1>6. Ended'
    BY <1>2, <1>4 DEF Ended, Started, Terminal
<1> QED
    BY <1>2, <1>4, <1>5, <1>6

-----------------------------------------------------------------------------
(* The shape of the state.                                                 *)

\* The steps _step and the recovery journal are steps, and the nine of the preparation
\* are not terminal.
LEMMA StepNames ==
    /\ {"CREATED", "ABORTED", "MIGRATED", "SWAP_PLANNED", "HELPER_SHUTDOWN", "APP_STOPPED",
        "SWAPPED", "RESTARTED", "HEALTHY", "FINALIZED", "ROLLED_BACK"} \subseteq Steps
    /\ \A n \in Nat : n < 9 =>
          Prepared[n + 1] \in Steps \ {"ABORTED", "MIGRATED", "SWAP_PLANNED", "SWAPPED",
                                       "FINALIZED", "ROLLED_BACK"}
    /\ Prepared[1] = "CREATED"
<1>1. "CREATED" \in Steps
    BY DEF Steps, Prepared
<1>2. {"ABORTED", "MIGRATED", "SWAP_PLANNED", "HELPER_SHUTDOWN", "APP_STOPPED",
       "SWAPPED", "RESTARTED", "HEALTHY", "FINALIZED", "ROLLED_BACK"} \subseteq Steps
    BY DEF Steps, Terminal
<1>3. ASSUME NEW n \in Nat, n < 9
      PROVE  Prepared[n + 1] \in Steps \ {"ABORTED", "MIGRATED", "SWAP_PLANNED", "SWAPPED",
                                          "FINALIZED", "ROLLED_BACK"}
  <2>1. n + 1 \in 1..9
    BY <1>3
  <2>2. \A i \in 1..9 : Prepared[i] \notin {"ABORTED", "MIGRATED", "SWAP_PLANNED", "SWAPPED",
                                            "FINALIZED", "ROLLED_BACK"}
    BY DEF Prepared
  <2> QED
    BY <2>1, <2>2 DEF Steps
<1> QED
    BY <1>1, <1>2, <1>3 DEF Prepared

\* The shape, and what the flow knows of it: nothing is at work before the first step,
\* and no app is asked to quit before the hand-off.
ShapeInv ==
    /\ UpdateTypeOK
    /\ journal = <<>> => pc = "idle"
    /\ pc = "prepare" \/ journal = <<>> => ~quitting

\* Every step of the journal keeps it a sequence of steps.
LEMMA JournalKept ==
    ASSUME journal \in Seq(Steps), [Next]_vars
    PROVE  journal' \in Seq(Steps) /\ (journal # <<>> => journal' # <<>>)
                                   /\ (journal' # journal => journal' # <<>>)
<1>1. CASE UNCHANGED journal
    BY <1>1
<1>2. ASSUME NEW s \in Steps, Journal(s)
      PROVE  journal' \in Seq(Steps) /\ (journal # <<>> => journal' # <<>>)
                                     /\ (journal' # journal => journal' # <<>>)
    BY <1>2, JournalStep DEF Stepped
<1>3. CASE Press \/ MigrateJournal \/ PlanSwap \/ SpawnJournal \/ AppStopped \/ AwaitResult
           \/ RestartJournal \/ Shutdown \/ SwapJournal \/ Relaunch \/ Healthy \/ Finalize
           \/ RollbackDone
    BY <1>1, <1>2, <1>3, StepNames DEF Press, MigrateJournal, PlanSwap, SpawnJournal, AppStopped,
       AwaitResult, RestartJournal, Shutdown, SwapJournal, Relaunch, Healthy, Finalize,
               RollbackDone
<1>4. CASE Abort
    BY <1>2, <1>4, StepNames DEF Abort
<1>5. CASE Prepare
  <2>1. Len(journal) \in Nat /\ Len(journal) < 9
    BY <1>5, LenProperties DEF Prepare
  <2>2. Prepared[Len(journal) + 1] \in Steps
    BY <2>1, StepNames
  <2> QED
    BY <1>2, <1>5, <2>2 DEF Prepare
<1>6. CASE PrepareFails \/ RestageFails \/ StopTimeout \/ ShutdownFails \/ Unexpected
    BY <1>1, <1>4, <1>6 DEF PrepareFails, RestageFails, StopTimeout, ShutdownFails, Unexpected,
       disk
<1>7. CASE RecoverAbort
    BY <1>7, StepNames, AppendStep DEF RecoverAbort, Journaled
<1>8. CASE RecoverFinalize
    BY <1>8, FinalizeSteps DEF RecoverFinalize
<1>9. CASE HandOff \/ WorkerGivesUp \/ Restage \/ MigrateBegin \/ MigrateEnd \/ MigrateFails
           \/ Unhealthy \/ SpawnScript \/ SpawnFails
    BY <1>1, <1>9 DEF HandOff, WorkerGivesUp, Restage, MigrateBegin, MigrateEnd, MigrateFails,
       Unhealthy, SpawnScript, SpawnFails, disk
<1>10. CASE MoveAside \/ MoveIn \/ SwapFails \/ RelaunchFails
    BY <1>1, <1>10 DEF MoveAside, MoveIn, SwapFails, RelaunchFails, disk
<1>11. CASE Script
    BY <1>1, <1>11 DEF Script, ScriptMovesAside, ScriptRefuses, ScriptMovesIn, ScriptUndoes,
       ScriptReports, ScriptRelaunches, disk
<1>12. CASE RollbackNeedless \/ RollbackStop \/ RollbackStopped \/ RestoreBegin \/ RestoreRename
            \/ CopyBegin \/ CopyEnd \/ DataRestoreBegin \/ DataRestoreEnd \/ RollbackRelaunch
            \/ RollbackFails
    BY <1>1, <1>12 DEF RollbackNeedless, RollbackStop, RollbackStopped, RestoreBegin,
       RestoreRename,
       CopyBegin, CopyEnd, DataRestoreBegin, DataRestoreEnd, RollbackRelaunch, RollbackFails, disk
<1>13. CASE RecoverBegin \/ RecoverRollback \/ AppExits \/ StartApp \/ WorkerDies \/ PowerLoss
            \/ UNCHANGED vars
    BY <1>1, <1>13 DEF RecoverBegin, RecoverRollback, AppExits, StartApp, WorkerDies, PowerLoss,
       vars, disk
<1> QED
    BY <1>3, <1>5, <1>6, <1>7, <1>8, <1>9, <1>10, <1>11, <1>12, <1>13
    DEF Next, Driver, Flow, DelegatedSwap, InProcessSwap, Rollback, Recovering, Recover

\* Every step keeps the shape.
LEMMA ShapeStep == ShapeInv /\ [Next]_vars => ShapeInv'
<1> SUFFICES ASSUME ShapeInv, [Next]_vars PROVE ShapeInv'
    OBVIOUS
<1> DEFINE Bundles == [Places -> {"none", "old", "new", "torn"}]
           Rest == /\ bundle' \in Bundles /\ data' \in {"old", "partial", "new"}
                   /\ running' \in {"none", "old", "new"} /\ quitting' \in BOOLEAN
                   /\ script' \in {"none", "waiting", "moved", "swapped", "reported", "done"}
                   /\ result' \in {"none", "ok", "failed"}
                   /\ recovery' \in {"flow", "swapped", "unswapped"}
                   /\ quitting' => running' # "none"
                   /\ journal' = <<>> => pc' = "idle"
                   /\ pc' = "prepare" \/ journal' = <<>> => ~quitting'
<1>0. /\ journal \in Seq(Steps) /\ bundle \in Bundles /\ data \in {"old", "partial", "new"}
      /\ running \in {"none", "old", "new"} /\ quitting \in BOOLEAN
      /\ script \in {"none", "waiting", "moved", "swapped", "reported", "done"}
      /\ result \in {"none", "ok", "failed"} /\ recovery \in {"flow", "swapped", "unswapped"}
      /\ quitting => running # "none"
      /\ journal = <<>> => pc = "idle"
      /\ pc = "prepare" \/ journal = <<>> => ~quitting
    BY DEF ShapeInv, UpdateTypeOK
<1>1. journal' \in Seq(Steps) /\ (journal # <<>> => journal' # <<>>)
                              /\ (journal' # journal => journal' # <<>>)
    BY <1>0, JournalKept
<1> SUFFICES Rest
    BY <1>1 DEF ShapeInv, UpdateTypeOK
<1>2. CASE \/ Press \/ Prepare \/ HandOff \/ WorkerGivesUp \/ Restage \/ MigrateBegin
           \/ MigrateEnd \/ MigrateFails \/ MigrateJournal
  <2>1. Press => journal' # <<>>
    <3>1. Press => Stepped("CREATED")
      BY <1>0, StepNames, JournalStep DEF Press
    <3> QED
      BY <3>1 DEF Stepped
  <2> QED
    BY <1>0, <1>1, <1>2, <2>1 DEF Press, Prepare, HandOff, WorkerGivesUp, Restage, MigrateBegin,
       MigrateEnd,
       MigrateFails, MigrateJournal, disk, apps, scripts, Places, Started
<1>3. CASE Abort /\ (Started \/ pc # "idle")
    BY <1>0, <1>1, <1>3 DEF Abort, apps, scripts, Places, Started
<1>4. CASE PrepareFails \/ RestageFails \/ StopTimeout \/ ShutdownFails \/ Unexpected
    BY <1>0, <1>1, <1>3, <1>4 DEF PrepareFails, RestageFails, StopTimeout, ShutdownFails,
       Unexpected,
       disk, apps, scripts
<1>5. CASE PlanSwap \/ SpawnFails \/ SpawnJournal \/ AppStopped \/ AwaitResult
           \/ RestartJournal \/ Healthy \/ Unhealthy \/ Finalize
    BY <1>0, <1>1, <1>5 DEF PlanSwap, SpawnFails, SpawnJournal, AppStopped,
       AwaitResult, RestartJournal, Healthy, Unhealthy, Finalize, disk, apps, scripts
<1>6. CASE MoveAside \/ MoveIn \/ SwapFails \/ SwapJournal
    BY <1>0, <1>1, <1>6 DEF MoveAside, MoveIn, SwapFails, SwapJournal, Renamed, Places,
       disk, apps, scripts
<1>7. CASE Relaunch \/ RelaunchFails \/ RollbackRelaunch \/ ScriptRelaunches
    BY <1>0, <1>1, <1>7 DEF Relaunch, RelaunchFails, RollbackRelaunch, ScriptRelaunches, Launch,
       Places, disk, apps, scripts
<1>8. CASE ScriptMovesAside \/ ScriptRefuses \/ ScriptMovesIn \/ ScriptUndoes \/ ScriptReports
    BY <1>0, <1>1, <1>8 DEF ScriptMovesAside, ScriptRefuses, ScriptMovesIn, ScriptUndoes,
       ScriptReports, Renamed, Places, disk, apps, scripts
<1>9. CASE RollbackNeedless \/ RollbackStopped \/ DataRestoreBegin \/ DataRestoreEnd
    BY <1>0, <1>1, <1>9 DEF RollbackNeedless, RollbackStopped, DataRestoreBegin,
       DataRestoreEnd, disk, apps, scripts
<1>10. CASE RestoreBegin \/ RestoreRename \/ CopyBegin \/ CopyEnd
    BY <1>0, <1>1, <1>10 DEF RestoreBegin, RestoreRename, CopyBegin, CopyEnd, Renamed, Places,
       apps, scripts
<1>11. CASE RollbackDone \/ RollbackFails
    BY <1>0, <1>1, <1>11 DEF RollbackDone, RollbackFails, Renamed, Places, apps, scripts
<1>12. CASE RecoverAbort \/ RecoverBegin \/ RecoverFinalize \/ RecoverRollback
    BY <1>0, <1>1, <1>12 DEF RecoverAbort, RecoverBegin, RecoverFinalize, RecoverRollback, Places,
       Started, disk, apps, scripts
<1>13. CASE StartApp \/ WorkerDies \/ UNCHANGED vars
    BY <1>0, <1>1, <1>13 DEF StartApp, WorkerDies, Launch, Places, vars, disk, apps, scripts
<1>14. CASE AppExits \/ PowerLoss
  <2>1. quitting' = FALSE
    BY <1>14 DEF AppExits, PowerLoss
  <2>2. quitting' \in BOOLEAN /\ ~quitting'
    BY <2>1, Zenon
  <2> QED
    BY <1>0, <1>1, <1>14, <2>2 DEF AppExits, PowerLoss, disk, scripts
<1>15. CASE SpawnScript \/ Shutdown \/ RollbackStop
  <2>1. quitting' = (running # "none") /\ running' = running
    BY <1>15 DEF SpawnScript, Shutdown, RollbackStop
  <2>2. quitting' \in BOOLEAN /\ (quitting' => running' # "none")
    BY <2>1, Zenon
  <2>3. pc' # "prepare" /\ journal # <<>>
    BY <1>0, <1>15 DEF SpawnScript, Shutdown, RollbackStop
  <2> QED
    BY <1>0, <1>1, <1>15, <2>2, <2>3 DEF SpawnScript, Shutdown, RollbackStop, disk, scripts
<1> HIDE DEF Rest, Bundles
<1> QED
    BY <1>2, <1>4, <1>5, <1>6, <1>7, <1>8, <1>9, <1>10, <1>11, <1>12, <1>13,
       <1>14, <1>15
    DEF Next, Driver, Flow, DelegatedSwap, InProcessSwap, Script, Rollback, Recovering, Recover

\* The shape of the journal, the bundles, the user data and the processes, whatever
\* faults come and whoever swaps; no app that does not run is asked to quit.
THEOREM UpdateTyping == Spec => []UpdateTypeOK
<1>1. Init => ShapeInv
    BY EmptySeq DEF Init, ShapeInv, UpdateTypeOK, Places
<1>2. ShapeInv => UpdateTypeOK
    BY DEF ShapeInv
<1> QED
    BY <1>1, <1>2, ShapeStep, PTL DEF Spec

-----------------------------------------------------------------------------
(* A copy of the previous app.                                             *)

\* Each way of swapping keeps to its own places, and nothing is out before the first step.
PlaceOK ==
    /\ script # "none" \/ pc \in {"plan", "spawn", "spawned", "awaiting", "restart"} => Delegated
    /\ pc \in {"shutdown", "swap", "moved", "swapped", "relaunch"} => ~Delegated
    /\ journal = <<>> => pc = "idle" /\ script = "none"

\* The places where no swap has begun.
BeforeSwap ==
    \/ journal = <<>> \/ pc \in {"prepare", "tail", "plan", "spawn"}
    \/ Delegated /\ pc \in {"migrate", "migrating", "migrated"}

\* The previous app is whole, as the app or as its prior: a copy back to the prior is only
\* begun with the previous app in its seat, and a script that still waits finds no prior.
PreviousInv ==
    /\ bundle["app"] \in {"none", "old", "new"} /\ bundle["prior"] \in {"none", "old", "torn"}
    /\ bundle["staged"] \in {"none", "new"} /\ bundle["displaced"] \in {"none", "old", "new"}
    /\ bundle["app"] = "old" \/ bundle["prior"] = "old"
    /\ bundle["prior"] = "torn" => pc = "rb_copying"
    /\ pc \in {"rb_restored", "rb_copying"} => bundle["app"] = "old"
    /\ pc = "moved" => bundle["prior"] = "old"
    /\ BeforeSwap => bundle["prior"] = "none" /\ bundle["displaced"] = "none" /\ script = "none"
    /\ script = "waiting" => /\ bundle["prior"] = "none" /\ bundle["displaced"] = "none"
                             /\ pc \notin {"rb_displaced", "rb_restored", "rb_copying"}
    /\ script = "moved" => bundle["app"] # "new" /\ bundle["displaced"] # "new"

\* Every step keeps it.
LEMMA PreviousStep ==
    ASSUME "torn" \notin Faults, ShapeInv, PlaceOK, PreviousInv, [Next]_vars
    PROVE  PlaceOK' /\ PreviousInv'
<1>0. /\ journal \in Seq(Steps) /\ bundle \in [Places -> {"none", "old", "new", "torn"}]
      /\ Delegated \in BOOLEAN
      /\ script \in {"none", "waiting", "moved", "swapped", "reported", "done"}
      /\ {"app", "prior", "staged", "displaced"} = Places
      /\ journal = <<>> => pc = "idle"
    BY UpdateAssumption DEF ShapeInv, UpdateTypeOK, Places
<1>1. (journal # <<>> => journal' # <<>>) /\ (journal' # journal => journal' # <<>>)
    BY <1>0, JournalKept
<1>2. CASE \/ Press \/ Prepare \/ HandOff \/ WorkerGivesUp \/ Restage \/ MigrateBegin
           \/ MigrateEnd \/ MigrateFails \/ MigrateJournal
  <2>1. Press => journal' # <<>>
    <3>1. Press => Stepped("CREATED")
      BY <1>0, StepNames, JournalStep DEF Press
    <3> QED
      BY <3>1 DEF Stepped
  <2> QED
    BY <1>0, <1>1, <1>2, <2>1 DEF PlaceOK, PreviousInv, BeforeSwap, Press, Prepare, HandOff,
       WorkerGivesUp, Restage, MigrateBegin, MigrateEnd, MigrateFails, MigrateJournal, disk,
       scripts, Started
<1>3. CASE Abort /\ pc \notin {"idle", "rb_copying"}
    BY <1>0, <1>1, <1>3 DEF PlaceOK, PreviousInv, BeforeSwap, Abort, scripts, Started
<1>4. CASE PrepareFails \/ RestageFails \/ StopTimeout \/ ShutdownFails \/ Unexpected
    BY <1>0, <1>1, <1>3, <1>4 DEF PlaceOK, PreviousInv, BeforeSwap, PrepareFails, RestageFails,
       StopTimeout, ShutdownFails, Unexpected, disk, scripts
<1>5. CASE PlanSwap \/ SpawnScript \/ SpawnFails \/ SpawnJournal \/ AppStopped \/ AwaitResult
           \/ RestartJournal \/ Healthy \/ Unhealthy \/ Finalize
    BY <1>0, <1>1, <1>5 DEF PlaceOK, PreviousInv, BeforeSwap, PlanSwap, SpawnScript, SpawnFails,
       SpawnJournal, AppStopped, AwaitResult, RestartJournal, Healthy, Unhealthy, Finalize,
       disk, scripts
<1>6. CASE Shutdown \/ MoveAside \/ MoveIn \/ SwapFails \/ SwapJournal
    BY <1>0, <1>1, <1>6 DEF PlaceOK, PreviousInv, BeforeSwap, Shutdown, MoveAside, MoveIn,
       SwapFails, SwapJournal, Renamed, disk, scripts
<1>7. CASE Relaunch \/ RelaunchFails \/ RollbackRelaunch \/ ScriptRelaunches
    BY <1>0, <1>1, <1>7 DEF PlaceOK, PreviousInv, BeforeSwap, Relaunch, RelaunchFails,
       RollbackRelaunch, ScriptRelaunches, disk, scripts
<1>8. CASE ScriptMovesAside \/ ScriptRefuses \/ ScriptMovesIn \/ ScriptUndoes \/ ScriptReports
    BY <1>0, <1>1, <1>8 DEF PlaceOK, PreviousInv, BeforeSwap, ScriptMovesAside, ScriptRefuses,
       ScriptMovesIn, ScriptUndoes, ScriptReports, Renamed, disk
<1>9. CASE RollbackNeedless \/ RollbackStop \/ RollbackStopped \/ DataRestoreBegin
           \/ DataRestoreEnd
    BY <1>0, <1>1, <1>9 DEF PlaceOK, PreviousInv, BeforeSwap, RollbackNeedless, RollbackStop,
       RollbackStopped, DataRestoreBegin, DataRestoreEnd, disk, scripts
<1>10. CASE RestoreBegin \/ RestoreRename \/ CopyBegin \/ CopyEnd
    BY <1>0, <1>1, <1>10 DEF PlaceOK, PreviousInv, BeforeSwap, RestoreBegin, RestoreRename,
       CopyBegin, CopyEnd, Renamed, scripts
<1>11. CASE RollbackDone \/ RollbackFails
    BY <1>0, <1>1, <1>11 DEF PlaceOK, PreviousInv, BeforeSwap, RollbackDone, RollbackFails,
       AtAFault, Renamed, scripts
<1>12. CASE RecoverAbort \/ RecoverBegin \/ RecoverFinalize \/ RecoverRollback
    BY <1>0, <1>1, <1>12 DEF PlaceOK, PreviousInv, BeforeSwap, RecoverAbort, RecoverBegin,
       RecoverFinalize, RecoverRollback, Started, disk, scripts
<1>13. CASE AppExits \/ StartApp \/ WorkerDies \/ PowerLoss \/ UNCHANGED vars
    BY <1>0, <1>1, <1>13 DEF PlaceOK, PreviousInv, BeforeSwap, AppExits, StartApp, WorkerDies,
       PowerLoss, AtAFault, vars, disk, scripts
<1> QED
    BY <1>2, <1>4, <1>5, <1>6, <1>7, <1>8, <1>9, <1>10, <1>11, <1>12, <1>13
    DEF Next, Driver, Flow, DelegatedSwap, InProcessSwap, Script, Rollback, Recovering, Recover

\* It holds at first.
LEMMA PreviousInit == Init => ShapeInv /\ PlaceOK /\ PreviousInv
<1> SUFFICES ASSUME Init PROVE ShapeInv /\ PlaceOK /\ PreviousInv
    OBVIOUS
<1>1. ShapeInv
    BY EmptySeq DEF Init, ShapeInv, UpdateTypeOK, Places
<1> QED
    BY <1>1 DEF Init, PlaceOK, PreviousInv, BeforeSwap, Places

\* A failed update leaves the previous version runnable: unless an interruption may come
\* between any two writes ("torn"), a whole copy of the previous app exists until the update
\* is final, whoever swaps, whatever dies after a journaled step or within a rollback, and
\* whoever starts the app or the recovery.
THEOREM PreviousStaysRunnable ==
    ASSUME "torn" \notin Faults PROVE Spec => []PreviousRunnable
<1> DEFINE IInv == ShapeInv /\ PlaceOK /\ PreviousInv
<1>1. Init => IInv
    BY PreviousInit
<1>2. IInv /\ [Next]_vars => IInv'
    BY ShapeStep, PreviousStep
<1>3. IInv => PreviousRunnable
    BY DEF PreviousInv, PreviousRunnable, Places
<1> QED
    BY <1>1, <1>2, <1>3, PTL DEF Spec

-----------------------------------------------------------------------------
(* What each step journals.                                                *)

\* Nothing is journaled.
Unjournaled == (\A t : Has(t)' <=> Has(t)) /\ (Ended' <=> Ended) /\ journal' = journal

\* A step that leaves the journal alone changes nothing it says.
LEMMA JournalUnchanged ==
    ASSUME UNCHANGED journal PROVE Unjournaled
BY DEF Unjournaled, Has, Ended, Started

\* The steps no invariant below tells apart.
Plain == Steps \ {"ABORTED", "MIGRATED", "SWAP_PLANNED", "SWAPPED", "FINALIZED", "ROLLED_BACK"}

\* Which step each action journals.
LEMMA JournalByName ==
    ASSUME journal \in Seq(Steps)
    PROVE  /\ Press => Stepped("CREATED")
           /\ Prepare => \E s \in Plain : Stepped(s)
           /\ Abort => Stepped("ABORTED")
           /\ RecoverAbort => Journaled("ABORTED")
           /\ MigrateJournal => Stepped("MIGRATED")
           /\ PlanSwap => Stepped("SWAP_PLANNED")
           /\ SpawnJournal \/ Shutdown => Stepped("HELPER_SHUTDOWN")
           /\ AppStopped => Stepped("APP_STOPPED")
           /\ AwaitResult => \/ (result = "ok" \/ bundle["prior"] # "none") /\ Stepped("SWAPPED")
                             \/ ~(result = "ok" \/ bundle["prior"] # "none") /\ Unjournaled
           /\ SwapJournal => Stepped("SWAPPED")
           /\ RestartJournal \/ Relaunch => Stepped("RESTARTED")
           /\ Healthy => Stepped("HEALTHY")
           /\ Finalize => Stepped("FINALIZED")
           /\ RollbackDone => Stepped("ROLLED_BACK")
           /\ RecoverFinalize => /\ journal' # <<>> /\ Ended'
                                 /\ \A t : Has(t)' <=> Has(t) \/ t \in {"HEALTHY", "FINALIZED"}
<1>1. ASSUME NEW s \in Steps PROVE Journal(s) => Stepped(s)
    BY JournalStep
<1>2. /\ Press => Stepped("CREATED")
      /\ Abort => Stepped("ABORTED")
      /\ MigrateJournal => Stepped("MIGRATED")
      /\ PlanSwap => Stepped("SWAP_PLANNED")
      /\ SpawnJournal \/ Shutdown => Stepped("HELPER_SHUTDOWN")
      /\ AppStopped => Stepped("APP_STOPPED")
      /\ SwapJournal => Stepped("SWAPPED")
      /\ RestartJournal \/ Relaunch => Stepped("RESTARTED")
      /\ Healthy => Stepped("HEALTHY")
      /\ Finalize => Stepped("FINALIZED")
      /\ RollbackDone => Stepped("ROLLED_BACK")
    BY <1>1, StepNames DEF Press, Abort, MigrateJournal, PlanSwap, SpawnJournal, Shutdown,
       AppStopped, SwapJournal, RestartJournal, Relaunch, Healthy, Finalize, RollbackDone
<1>3. Prepare => \E s \in Plain : Stepped(s)
  <2> SUFFICES ASSUME Prepare PROVE \E s \in Plain : Stepped(s)
    OBVIOUS
  <2>1. Len(journal) \in Nat /\ Len(journal) < 9
    BY LenProperties DEF Prepare
  <2>2. Prepared[Len(journal) + 1] \in Plain
    BY <2>1, StepNames DEF Plain
  <2> QED
    BY <1>1, <2>2 DEF Prepare, Plain
<1>4. AwaitResult => \/ (result = "ok" \/ bundle["prior"] # "none") /\ Stepped("SWAPPED")
                     \/ ~(result = "ok" \/ bundle["prior"] # "none") /\ Unjournaled
    BY <1>1, StepNames, JournalUnchanged DEF AwaitResult
<1>5. RecoverAbort => Journaled("ABORTED")
    BY StepNames, AppendStep DEF RecoverAbort
<1> QED
    BY <1>2, <1>3, <1>4, <1>5, FinalizeSteps DEF RecoverFinalize

-----------------------------------------------------------------------------
(* The bundles, by how far a swap has come.                                *)

Unswapped == bundle["app"] = "old" /\ bundle["prior"] = "none" /\ bundle["displaced"] = "none"
MovedAside == bundle["app"] = "none" /\ bundle["prior"] = "old" /\ bundle["displaced"] = "none"
NewIn == bundle["app"] = "new" /\ bundle["prior"] = "old" /\ bundle["displaced"] = "none"
Swapped == /\ bundle["app"] \in {"old", "new"}
           /\ bundle["prior"] = "old" /\ bundle["displaced"] = "none"
SetAside == /\ bundle["app"] = "none" /\ bundle["prior"] = "old"
            /\ bundle["displaced"] \in {"old", "new"}

\* Where a rollback interrupted before its rename of the prior is taken up again.
Reentries == {"idle", "rec_probe", "rollback", "rb_stopping", "rb_restore"}

Rollbacks == {"rollback", "rb_stopping", "rb_restore", "rb_displaced", "rb_restored",
              "rb_copying", "rb_data", "rb_partial", "rb_relaunch", "rb_health"}

\* A journal that says rolled back is closed, over the previous app and data.
RolledBackOK ==
    Has("ROLLED_BACK") => pc = "idle" /\ Ended /\ bundle["app"] = "old" /\ data = "old"

\* A recovery is at work in its own places only, and only a recovery probes.
RecoveryOK == /\ recovery # "flow" => pc \in {"idle", "rec_probe"} \cup Rollbacks
              /\ pc = "rec_probe" => recovery # "flow"

-----------------------------------------------------------------------------
(* The swap in process.                                                    *)

\* How far the journal says the swap has come is where the bundles are, save inside the
\* places where a rename is under way; and the data is only touched after SWAPPED.
InProcessInv ==
    /\ script = "none" /\ ~Has("SWAP_PLANNED") /\ (Has("MIGRATED") => Has("SWAPPED"))
    /\ pc \in {"prepare", "tail", "shutdown", "stopping", "swap", "moved", "swapped"}
       => ~Has("SWAPPED")
    /\ pc \in {"migrate", "migrating", "migrated", "relaunch", "health", "finalize",
               "rb_displaced", "rb_restored", "rb_copying", "rec_probe"} => Has("SWAPPED")
    /\ pc = "moved" => MovedAside
    /\ pc = "swapped" => Swapped
    /\ pc = "rb_displaced" => SetAside
    /\ pc = "rb_restored" => bundle["app"] = "old" /\ bundle["prior"] = "none"
    /\ pc = "rb_copying" => bundle["app"] = "old" /\ bundle["displaced"] = "none"
    /\ pc \notin {"moved", "swapped", "rb_displaced", "rb_restored", "rb_copying"}
       => IF Has("SWAPPED") THEN Swapped \/ (SetAside /\ pc \in Reentries) ELSE Unswapped
    /\ pc \in {"rb_data", "rb_partial", "rb_relaunch", "rb_health"} => bundle["app"] = "old"
    /\ bundle["staged"] \in {"none", "new"}
    /\ recovery # "flow" => recovery = "swapped" /\ Has("SWAPPED")
    /\ \/ ~Has("SWAPPED") /\ pc # "rb_partial" /\ "restore" \notin Faults
       \/ pc \in {"rb_relaunch", "rb_health"}
       => data = "old"
    /\ journal = <<>> => pc = "idle"
    /\ RecoveryOK /\ RolledBackOK

\* Every step of the swap in process keeps it, a recover command beside the updater included.
LEMMA InProcessStep ==
    ASSUME ~Delegated, "torn" \notin Faults, ShapeInv, PlaceOK, InProcessInv, [Next]_vars
    PROVE  InProcessInv'
<1>0. /\ journal \in Seq(Steps) /\ bundle \in [Places -> {"none", "old", "new", "torn"}]
      /\ {"app", "prior", "staged", "displaced"} = Places
      /\ script = "none" /\ recovery \in {"flow", "swapped", "unswapped"}
      /\ ~Delegated /\ "torn" \notin Faults
    BY DEF ShapeInv, UpdateTypeOK, Places, InProcessInv
<1>1. ASSUME UNCHANGED journal PROVE Unjournaled
    BY <1>1, JournalUnchanged
<1>e. journal = <<>> => \A t : ~Has(t)
    BY <1>0, EmptySeq DEF Has
<1> USE DEF InProcessInv, RecoveryOK, RolledBackOK, Rollbacks, Unswapped, MovedAside, Swapped,
        SetAside, Reentries
<1>2. CASE Press
    BY <1>0, <1>2, <1>e, JournalByName DEF Stepped, Terminal, Press, Started, scripts
<1>3. CASE Prepare
    BY <1>0, <1>3, JournalByName DEF Stepped, Terminal, Prepare, Plain, scripts
<1>4. CASE MigrateJournal
    BY <1>0, <1>4, JournalByName DEF Stepped, Terminal, MigrateJournal, scripts
<1>5. CASE AppStopped
    BY <1>0, <1>5, JournalByName DEF Stepped, Terminal, AppStopped, scripts
<1>6. CASE Shutdown
    BY <1>0, <1>6, JournalByName DEF Stepped, Terminal, Shutdown, scripts
<1>7. CASE SwapJournal
    BY <1>0, <1>7, JournalByName DEF Stepped, Terminal, SwapJournal, scripts
<1>8. CASE Relaunch
    BY <1>0, <1>8, JournalByName DEF Stepped, Terminal, Relaunch, scripts
<1>9. CASE Healthy
    BY <1>0, <1>9, JournalByName DEF Stepped, Terminal, Healthy, scripts
<1>10. CASE Finalize
    BY <1>0, <1>10, JournalByName DEF Stepped, Terminal, Finalize, scripts
<1>11. CASE Abort /\ pc \in {"prepare", "tail", "stopping", "shutdown", "swap"}
    BY <1>0, <1>11, JournalByName DEF Stepped, Terminal, Abort, scripts
<1>12. CASE PrepareFails \/ RestageFails \/ StopTimeout \/ ShutdownFails \/ Unexpected
  <2> DEFINE Undo == \E step \in {"SWAPPED", "MIGRATED", "SWAP_PLANNED"} : Has(step)
  <2>1. CASE Unexpected /\ Undo
    <3>1. /\ pc' = "rollback" /\ UNCHANGED <<disk, scripts, recovery>>
          /\ pc \in {"prepare", "stopping", "swap", "health", "finalize", "migrate", "relaunch"}
          /\ recovery = "flow"
      BY <1>0, <2>1 DEF Unexpected, AtAFault, PlaceOK
    <3>2. Unjournaled
      BY <1>1, <3>1 DEF disk
    <3> QED
      BY <1>0, <3>1, <3>2 DEF Unjournaled, disk, scripts
  <2>2. CASE Unexpected /\ ~Undo
    <3>1. Abort
      BY <2>2 DEF Unexpected
    <3>2. pc \in {"prepare", "stopping", "swap"}
      BY <1>0, <2>2 DEF Unexpected, AtAFault, PlaceOK
    <3> QED
      BY <1>11, <3>1, <3>2
  <2>3. CASE PrepareFails \/ RestageFails \/ StopTimeout \/ ShutdownFails
    BY <1>0, <1>11, <2>3 DEF PrepareFails, RestageFails, StopTimeout, ShutdownFails
  <2> QED
    BY <1>12, <2>1, <2>2, <2>3
<1>13. CASE HandOff \/ WorkerGivesUp \/ Restage \/ MigrateBegin \/ MigrateEnd \/ MigrateFails
    BY <1>0, <1>13, <1>1 DEF Unjournaled, HandOff, WorkerGivesUp, Restage, MigrateBegin,
       MigrateEnd, MigrateFails, disk, scripts
<1>14. CASE MoveAside \/ MoveIn \/ SwapFails \/ RelaunchFails \/ Unhealthy
  <2>1. CASE MoveAside
    BY <1>0, <1>1, <2>1 DEF Unjournaled, MoveAside, Renamed, scripts
  <2>2. CASE MoveIn
    BY <1>0, <1>1, <2>2 DEF Unjournaled, MoveIn, Renamed, scripts
  <2>3. CASE SwapFails
    BY <1>0, <1>1, <2>3 DEF Unjournaled, SwapFails, Renamed, scripts
  <2>4. CASE RelaunchFails
    BY <1>0, <1>1, <2>4 DEF Unjournaled, RelaunchFails, disk, scripts
  <2>5. CASE Unhealthy
    BY <1>0, <1>1, <2>5 DEF Unjournaled, Unhealthy, disk, scripts
  <2> QED
    BY <1>14, <2>1, <2>2, <2>3, <2>4, <2>5
<1>15. CASE RestoreBegin
    BY <1>0, <1>15, <1>1 DEF Unjournaled, RestoreBegin, MustRestore, SwapDone, Renamed, scripts
<1>16. CASE RollbackNeedless \/ RollbackStop \/ RollbackStopped \/ RestoreRename \/ CopyBegin
            \/ CopyEnd
    BY <1>0, <1>16, <1>1 DEF Unjournaled, RollbackNeedless, RollbackStop, RollbackStopped,
       RestoreRename, CopyBegin, CopyEnd, Renamed, disk, scripts
<1>17. CASE DataRestoreBegin \/ DataRestoreEnd \/ RollbackRelaunch
    BY <1>0, <1>17, <1>1 DEF Unjournaled, DataRestoreBegin, DataRestoreEnd, RollbackRelaunch,
       disk, scripts
<1>18. CASE RollbackDone
    BY <1>0, <1>18, JournalByName DEF Stepped, Terminal, RollbackDone, scripts
<1>19. CASE RollbackFails
    BY <1>0, <1>19, <1>1 DEF Unjournaled, RollbackFails, AtAFault, Renamed, scripts
<1>20. CASE RecoverAbort
    BY <1>0, <1>20, JournalByName DEF Journaled, Terminal, RecoverAbort, SwapDone, scripts
<1>21. CASE RecoverFinalize
    BY <1>0, <1>21, JournalByName DEF RecoverFinalize, scripts
<1>22. CASE RecoverBegin \/ RecoverRollback \/ AppExits \/ StartApp
  <2>1. CASE RecoverBegin
    <3>1. Has("SWAPPED") /\ recovery' = "swapped" /\ pc = "idle" /\ pc' = "rec_probe"
          /\ ~Ended
      BY <1>0, <2>1 DEF RecoverBegin, SwapDone
    <3>2. UNCHANGED <<disk, scripts>> /\ Unjournaled
      BY <1>1, <2>1 DEF RecoverBegin, disk
    <3> QED
      BY <1>0, <1>e, <3>1, <3>2 DEF Unjournaled, disk, scripts
  <2>2. CASE RecoverRollback
    BY <1>0, <1>1, <2>2 DEF Unjournaled, RecoverRollback, disk, scripts
  <2>3. CASE AppExits
    BY <1>0, <1>1, <2>3 DEF Unjournaled, AppExits, disk, scripts
  <2>4. CASE StartApp
    BY <1>0, <1>1, <2>4 DEF Unjournaled, StartApp, disk, scripts
  <2> QED
    BY <1>22, <2>1, <2>2, <2>3, <2>4
<1>23. CASE WorkerDies \/ PowerLoss
    BY <1>0, <1>23, <1>1 DEF Unjournaled, WorkerDies, PowerLoss, AtAFault, disk, scripts
<1>24. CASE ScriptMovesAside \/ ScriptRefuses \/ ScriptMovesIn \/ ScriptUndoes
            \/ ScriptReports \/ ScriptRelaunches
    BY <1>0, <1>24, <1>1 DEF Unjournaled, ScriptMovesAside, ScriptRefuses, ScriptMovesIn,
       ScriptUndoes, ScriptReports, ScriptRelaunches, disk
<1>25. CASE UNCHANGED vars
    BY <1>0, <1>25, <1>1 DEF Unjournaled, vars, disk
<1>26. CASE PlanSwap \/ SpawnScript \/ SpawnFails \/ SpawnJournal \/ AwaitResult \/ RestartJournal
    BY <1>0, <1>26 DEF PlaceOK, PlanSwap, SpawnScript, SpawnFails, SpawnJournal, AwaitResult,
       RestartJournal
<1> QED
    BY <1>2, <1>3, <1>4, <1>5, <1>6, <1>7, <1>8, <1>9, <1>10, <1>12, <1>13, <1>14, <1>15, <1>16,
       <1>17, <1>18, <1>19, <1>20, <1>21, <1>22, <1>23, <1>24, <1>25, <1>26
    DEF Next, Driver, Flow, DelegatedSwap, InProcessSwap, Script, Rollback, Recovering, Recover

\* An app set aside by an interrupted rollback belongs to an open transaction, and the new
\* version does not run without a bundle.
SeatInv ==
    /\ "start" \notin Faults /\ pc \in {"rb_restore", "rb_displaced"} => running = "none"
    /\ SetAside /\ pc \in Reentries => running # "new"
    /\ pc # "idle" /\ Has("SWAPPED") => ~Ended
    /\ SetAside /\ pc = "idle" => ~Ended

\* Every step keeps that, unless the updater may die alone and the app be started beside it.
LEMMA SeatStep ==
    ASSUME ~Delegated, "torn" \notin Faults, "worker" \notin Faults \/ "start" \notin Faults,
           ShapeInv, PlaceOK, InProcessInv, SeatInv, [Next]_vars
    PROVE  SeatInv'
<1>0. /\ journal \in Seq(Steps) /\ bundle \in [Places -> {"none", "old", "new", "torn"}]
      /\ {"app", "prior", "staged", "displaced"} = Places
      /\ ~Delegated /\ "torn" \notin Faults
      /\ "worker" \notin Faults \/ "start" \notin Faults
      /\ pc \notin {"plan", "spawn", "spawned", "awaiting", "restart"} /\ script = "none"
      /\ pc \in {"prepare", "tail", "shutdown", "stopping", "swap", "moved", "swapped"}
         => ~Has("SWAPPED")
      /\ pc = "rec_probe" => recovery # "flow" /\ Has("SWAPPED")
      /\ pc = "moved" => bundle["displaced"] = "none"
      /\ pc = "rb_displaced" => SetAside /\ Has("SWAPPED")
      /\ pc \in {"rb_restored", "rb_copying"} => bundle["app"] = "old"
      /\ SetAside /\ pc \notin {"moved", "swapped", "rb_displaced", "rb_restored", "rb_copying"}
         => pc \in Reentries /\ Has("SWAPPED")
      /\ journal = <<>> => pc = "idle"
    BY DEF ShapeInv, UpdateTypeOK, Places, PlaceOK, InProcessInv, RecoveryOK, Unswapped, Swapped,
       MovedAside, SetAside, Reentries
<1>1. ASSUME UNCHANGED journal PROVE Unjournaled
    BY <1>1, JournalUnchanged
<1>e. journal = <<>> => \A t : ~Has(t)
    BY <1>0, EmptySeq DEF Has
<1> USE DEF SeatInv, SetAside, Reentries, apps
<1>2. CASE Press \/ Prepare \/ MigrateJournal \/ AppStopped \/ Shutdown \/ SwapJournal
    BY <1>0, <1>2, <1>e, JournalByName DEF Stepped, Terminal, Plain, Press, Prepare,
       MigrateJournal, AppStopped, Shutdown, SwapJournal, Started
<1>3. CASE Relaunch \/ Healthy \/ Finalize \/ RollbackDone
    BY <1>0, <1>3, JournalByName DEF Stepped, Terminal, Relaunch, Healthy, Finalize, RollbackDone
<1>4. CASE Abort /\ pc \in {"prepare", "tail", "stopping", "shutdown", "swap"}
    BY <1>0, <1>4, JournalByName DEF Stepped, Terminal, Abort
<1>5. CASE PrepareFails \/ RestageFails \/ StopTimeout \/ ShutdownFails
    BY <1>0, <1>5, <1>4 DEF PrepareFails, RestageFails, StopTimeout, ShutdownFails
<1>6. CASE Unexpected
  <2> DEFINE Undo == \E step \in {"SWAPPED", "MIGRATED", "SWAP_PLANNED"} : Has(step)
  <2>0. pc \in {"prepare", "stopping", "swap", "health", "finalize", "migrate", "relaunch"}
    BY <1>0, <1>6 DEF Unexpected, AtAFault
  <2>1. CASE Undo
    BY <1>0, <1>1, <1>6, <2>0, <2>1 DEF Unexpected, Unjournaled, disk
  <2>2. CASE ~Undo
    <3>1. Abort
      BY <1>6, <2>2 DEF Unexpected
    <3>2. pc \in {"prepare", "stopping", "swap"} \/ Has("SWAPPED")
      BY <1>0, <2>0, <2>2 DEF InProcessInv
    <3> QED
      BY <1>4, <2>2, <3>1, <3>2
  <2> QED
    BY <2>1, <2>2
<1>7. CASE HandOff \/ WorkerGivesUp \/ Restage \/ MigrateBegin \/ MigrateEnd \/ MigrateFails
    BY <1>0, <1>7, <1>1 DEF Unjournaled, HandOff, WorkerGivesUp, Restage, MigrateBegin,
       MigrateEnd, MigrateFails, disk
<1>8. CASE MoveAside \/ MoveIn \/ SwapFails \/ RelaunchFails \/ Unhealthy
    BY <1>0, <1>8, <1>1 DEF Unjournaled, MoveAside, MoveIn, SwapFails, RelaunchFails, Unhealthy,
       Renamed, disk
<1>9. CASE RollbackNeedless \/ RollbackStop \/ RollbackStopped
    BY <1>0, <1>9, <1>1 DEF Unjournaled, RollbackNeedless, RollbackStop, RollbackStopped, disk
<1>10. CASE RestoreBegin \/ RestoreRename \/ CopyBegin \/ CopyEnd
    BY <1>0, <1>10, <1>1 DEF Unjournaled, RestoreBegin, RestoreRename, CopyBegin, CopyEnd, Renamed
<1>11. CASE DataRestoreBegin \/ DataRestoreEnd \/ RollbackRelaunch
    BY <1>0, <1>11, <1>1 DEF Unjournaled, DataRestoreBegin, DataRestoreEnd, RollbackRelaunch, disk
<1>12. CASE RollbackFails
    BY <1>0, <1>12, <1>1 DEF Unjournaled, RollbackFails, AtAFault, Renamed
<1>13. CASE RecoverAbort
    BY <1>0, <1>13, JournalByName DEF Journaled, Terminal, RecoverAbort, SwapDone
<1>14. CASE RecoverFinalize
    BY <1>0, <1>14, JournalByName DEF RecoverFinalize
<1>15. CASE RecoverBegin \/ RecoverRollback
    BY <1>0, <1>15, <1>1 DEF Unjournaled, RecoverBegin, RecoverRollback, disk
<1>16. CASE AppExits \/ StartApp
    BY <1>0, <1>16, <1>1 DEF Unjournaled, AppExits, StartApp, Launch, disk
<1>17. CASE WorkerDies
    BY <1>0, <1>17, <1>1 DEF Unjournaled, WorkerDies, AtAFault, disk
<1>18. CASE PowerLoss
    BY <1>0, <1>18, <1>1 DEF Unjournaled, PowerLoss, AtAFault, disk
<1>19. CASE UNCHANGED vars
    BY <1>0, <1>19, <1>1 DEF Unjournaled, vars, disk
<1>20. CASE PlanSwap \/ SpawnScript \/ SpawnFails \/ SpawnJournal \/ AwaitResult \/
           RestartJournal
    BY <1>0, <1>20 DEF PlanSwap, SpawnScript, SpawnFails, SpawnJournal, AwaitResult,
       RestartJournal
<1>21. CASE ScriptMovesAside \/ ScriptRefuses \/ ScriptMovesIn \/ ScriptUndoes \/ ScriptReports
           \/ ScriptRelaunches
    BY <1>0, <1>21 DEF ScriptMovesAside, ScriptRefuses, ScriptMovesIn, ScriptUndoes,
       ScriptReports, ScriptRelaunches
<1> QED
    BY <1>2, <1>3, <1>5, <1>6, <1>7, <1>8, <1>9, <1>10, <1>11, <1>12, <1>13, <1>14, <1>15,
       <1>16, <1>17, <1>18, <1>19, <1>20, <1>21
    DEF Next, Driver, Flow, DelegatedSwap, InProcessSwap, Script, Rollback, Recovering, Recover

\* An aborted transaction is over, and its app and data are untouched.
AbortedOK ==
    Has("ABORTED") => pc = "idle" /\ Ended /\ bundle["app"] = "old" /\ data = "old"

\* Without such a recover command, every step keeps that too.
LEMMA AbortedStep ==
    ASSUME ~Delegated, "torn" \notin Faults, "restore" \notin Faults, "cli" \notin Faults,
           ShapeInv, PlaceOK, InProcessInv, AbortedOK, [Next]_vars
    PROVE  AbortedOK'
<1>0. /\ journal \in Seq(Steps) /\ bundle \in [Places -> {"none", "old", "new", "torn"}]
      /\ {"app", "prior", "staged", "displaced"} = Places
      /\ script = "none" /\ ~Has("SWAP_PLANNED") /\ (Has("MIGRATED") => Has("SWAPPED"))
      /\ ~Delegated /\ "torn" \notin Faults /\ "cli" \notin Faults
      /\ pc \in {"prepare", "tail", "shutdown", "stopping", "swap"} => ~Has("SWAPPED")
      /\ ~Has("SWAPPED") /\ pc \in {"idle", "prepare", "tail", "shutdown", "stopping", "swap"}
         => bundle["app"] = "old" /\ data = "old"
      /\ pc \in {"health", "finalize", "migrate", "relaunch"} => Has("SWAPPED")
      /\ pc \notin {"plan", "spawn", "spawned", "awaiting", "restart"}
      /\ pc = "rec_probe" => recovery # "flow"
    BY DEF ShapeInv, UpdateTypeOK, Places, InProcessInv, Unswapped, PlaceOK, RecoveryOK
<1>1. ASSUME UNCHANGED journal PROVE Unjournaled
    BY <1>1, JournalUnchanged
<1>e. journal = <<>> => \A t : ~Has(t)
    BY <1>0, EmptySeq DEF Has
<1> USE DEF AbortedOK
<1>2. CASE Press
    BY <1>0, <1>2, <1>e, JournalByName DEF Stepped, Terminal, Press, Started, scripts
<1>3. CASE Prepare \/ MigrateJournal \/ AppStopped \/ Shutdown \/ SwapJournal \/ Relaunch \/
           Healthy \/ Finalize \/ RollbackDone
    BY <1>0, <1>3, JournalByName DEF Stepped, Terminal, Prepare, MigrateJournal, AppStopped,
       Shutdown, SwapJournal, Relaunch, Healthy, Finalize, RollbackDone, Plain
<1>4. CASE Abort /\ pc \in {"prepare", "tail", "stopping", "shutdown", "swap"}
    BY <1>0, <1>4, JournalByName DEF Stepped, Terminal, Abort
<1>5. CASE PrepareFails \/ RestageFails \/ StopTimeout \/ ShutdownFails
    BY <1>0, <1>5, <1>4 DEF PrepareFails, RestageFails, StopTimeout, ShutdownFails
<1>6. CASE Unexpected
  <2> DEFINE Undo == \E step \in {"SWAPPED", "MIGRATED", "SWAP_PLANNED"} : Has(step)
  <2>1. CASE Undo
    BY <1>1, <1>6, <2>1 DEF Unexpected, Unjournaled, disk
  <2>2. CASE ~Undo
    <3>1. Abort
      BY <1>6, <2>2 DEF Unexpected
    <3>2. pc \in {"prepare", "stopping", "swap"}
      BY <1>0, <1>6, <2>2 DEF Unexpected, AtAFault
    <3> QED
      BY <1>4, <3>1, <3>2
  <2> QED
    BY <2>1, <2>2
<1>7. CASE HandOff \/ WorkerGivesUp \/ Restage \/ MigrateBegin \/ MigrateEnd \/ MigrateFails
    BY <1>0, <1>7, <1>1 DEF Unjournaled, HandOff, WorkerGivesUp, Restage, MigrateBegin,
       MigrateEnd, MigrateFails, disk
<1>8. CASE MoveAside \/ MoveIn \/ SwapFails \/ RelaunchFails \/ Unhealthy
    BY <1>0, <1>8, <1>1 DEF Unjournaled, MoveAside, MoveIn, SwapFails, RelaunchFails, Unhealthy,
       disk
<1>9. CASE RestoreBegin \/ RollbackNeedless \/ RollbackStop \/ RollbackStopped \/ RestoreRename
           \/ CopyBegin \/ CopyEnd
    BY <1>0, <1>9, <1>1 DEF Unjournaled, RestoreBegin, RollbackNeedless, RollbackStop,
       RollbackStopped, RestoreRename, CopyBegin, CopyEnd, disk
<1>10. CASE DataRestoreBegin \/ DataRestoreEnd \/ RollbackRelaunch \/ RollbackFails
    BY <1>0, <1>10, <1>1 DEF Unjournaled, DataRestoreBegin, DataRestoreEnd, RollbackRelaunch,
       RollbackFails, disk
<1>11. CASE RecoverAbort
    BY <1>0, <1>11, JournalByName DEF Journaled, Terminal, RecoverAbort, SwapDone
<1>12. CASE RecoverFinalize
    BY <1>0, <1>12, JournalByName DEF RecoverFinalize
<1>13. CASE RecoverBegin \/ RecoverRollback \/ AppExits \/ StartApp \/ WorkerDies \/ PowerLoss
    BY <1>0, <1>13, <1>1 DEF Unjournaled, RecoverBegin, RecoverRollback, AppExits, StartApp,
       WorkerDies, PowerLoss, disk
<1>14. CASE UNCHANGED vars
    BY <1>0, <1>14, <1>1 DEF Unjournaled, vars, disk
<1>15. CASE PlanSwap \/ SpawnScript \/ SpawnFails \/ SpawnJournal \/ AwaitResult \/
           RestartJournal
    BY <1>0, <1>15 DEF PlanSwap, SpawnScript, SpawnFails, SpawnJournal, AwaitResult,
       RestartJournal
<1>16. CASE ScriptMovesAside \/ ScriptRefuses \/ ScriptMovesIn \/ ScriptUndoes \/ ScriptReports
           \/ ScriptRelaunches
    BY <1>0, <1>16 DEF ScriptMovesAside, ScriptRefuses, ScriptMovesIn, ScriptUndoes,
       ScriptReports, ScriptRelaunches
<1> QED
    BY <1>2, <1>3, <1>5, <1>6, <1>7, <1>8, <1>9, <1>10, <1>11, <1>12, <1>13, <1>14, <1>15,
       <1>16
    DEF Next, Driver, Flow, DelegatedSwap, InProcessSwap, Script, Rollback, Recovering, Recover

-----------------------------------------------------------------------------
(* The delegated swap.                                                     *)

\* While the script is out, the flow waits for it or rolls back, a recovery has not begun, and
\* the bundles are where the script's place says; the journal is ahead of both.
DelegatedInv ==
    /\ Has("SWAP_PLANNED") \/ Has("SWAPPED") \/ script # "none" \/ bundle["app"] = "none"
       => Has("MIGRATED")
    /\ bundle["prior"] # "none" \/ script # "none" => Has("SWAP_PLANNED")
    /\ pc \in {"plan", "spawn", "spawned", "stopping", "awaiting", "restart", "health", "finalize"}
       => Has("MIGRATED")
    /\ pc \in {"spawn", "spawned", "stopping", "awaiting", "restart", "health", "finalize"}
       => Has("SWAP_PLANNED")
    /\ BeforeSwap => Unswapped /\ script = "none"
    /\ script \in {"waiting", "moved", "swapped"}
       => pc \in {"spawned", "stopping", "awaiting", "rollback"}
    /\ script \in {"waiting", "moved", "swapped", "reported"} /\ pc # "idle" => recovery = "flow"
    /\ script = "reported" => /\ pc \notin (Rollbacks \ {"rollback"}) \cup {"rec_probe"}
                              /\ pc = "idle" => Ended
    /\ script = "waiting" => Unswapped
    /\ script = "moved" => MovedAside
    /\ script \in {"swapped", "reported"} => NewIn
    /\ pc \in {"spawned", "stopping", "awaiting"} =>
         /\ script # "none" /\ (result = "none" <=> script \in {"waiting", "moved", "swapped"})
         /\ (result = "ok" => NewIn) /\ (result = "failed" => Unswapped)
    /\ pc \in {"restart", "health", "finalize"} => NewIn
    /\ pc \in Reentries => Unswapped \/ MovedAside \/ Swapped \/ SetAside
    /\ recovery = "unswapped" /\ pc \in {"rec_probe", "rollback", "rb_stopping", "rb_restore"}
       => Unswapped
    /\ pc = "rb_displaced" => bundle["app"] = "none" /\ bundle["prior"] = "old"
    /\ pc \in {"rb_restored", "rb_copying"} => bundle["app"] = "old" /\ Has("SWAP_PLANNED")
    /\ pc = "rb_restored" => bundle["prior"] = "none"
    /\ pc = "rb_copying" => bundle["displaced"] = "none"
    /\ pc \in {"rb_data", "rb_partial", "rb_relaunch", "rb_health"}
       => bundle["app"] = "old" /\ (Unswapped \/ Swapped)
    /\ pc \in {"rb_relaunch", "rb_health"} => data = "old"
    /\ \/ script \in {"waiting", "moved"} \/ BeforeSwap
       \/ bundle["app"] = "none" /\ (bundle["displaced"] = "none" \/ pc # "rb_displaced")
       => running # "new"
    /\ journal = <<>> => recovery = "flow"
    /\ Ended => bundle["app"] # "none"
    /\ Has("FINALIZED") => Ended /\ pc = "idle"
    /\ pc # "idle" /\ (Has("SWAPPED") \/ Has("MIGRATED")) => ~Ended
    /\ RecoveryOK /\ RolledBackOK

\* Every step of the delegated swap keeps it, the script's own and a crash of the machine included.
LEMMA DelegatedStep ==
    ASSUME Delegated, "torn" \notin Faults, "worker" \notin Faults,
           ShapeInv, PlaceOK, PreviousInv, DelegatedInv, [Next]_vars
    PROVE  DelegatedInv'
<1>0. /\ journal \in Seq(Steps) /\ bundle \in [Places -> {"none", "old", "new", "torn"}]
      /\ {"app", "prior", "staged", "displaced"} = Places
      /\ script \in {"none", "waiting", "moved", "swapped", "reported", "done"}
      /\ result \in {"none", "ok", "failed"} /\ recovery \in {"flow", "swapped", "unswapped"}
      /\ Delegated /\ "torn" \notin Faults /\ "worker" \notin Faults
      /\ journal = <<>> => pc = "idle" /\ script = "none"
      /\ pc \notin {"shutdown", "swap", "moved", "swapped", "relaunch"}
      /\ bundle["staged"] \in {"none", "new"} /\ bundle["displaced"] \in {"none", "old", "new"}
    BY DEF ShapeInv, UpdateTypeOK, Places, PlaceOK, PreviousInv
<1>1. ASSUME UNCHANGED journal PROVE Unjournaled
    BY <1>1, JournalUnchanged
<1>e. journal = <<>> => ~Ended /\ \A t : ~Has(t)
    BY <1>0, EmptySeq DEF Has, Ended, Started
<1>f. RecoverFinalize => /\ journal' # <<>> /\ Ended'
                         /\ \A t : Has(t)' <=> Has(t) \/ t \in {"HEALTHY", "FINALIZED"}
    BY <1>0, JournalByName
<1> USE DEF DelegatedInv, RecoveryOK, RolledBackOK, Rollbacks, Unswapped, MovedAside, Swapped,
        SetAside, Reentries, NewIn, BeforeSwap, Launch, apps
<1>2. CASE Press
    BY <1>0, <1>2, <1>e, JournalByName DEF Stepped, Terminal, Press, Started, scripts
<1>3. CASE Prepare
    BY <1>0, <1>3, JournalByName DEF Stepped, Terminal, Prepare, Plain, scripts
<1>4. CASE MigrateJournal
    BY <1>0, <1>4, JournalByName DEF Stepped, Terminal, MigrateJournal, scripts
<1>5. CASE PlanSwap
    BY <1>0, <1>5, JournalByName DEF Stepped, Terminal, PlanSwap, scripts
<1>6. CASE SpawnJournal
    BY <1>0, <1>6, JournalByName DEF Stepped, Terminal, SpawnJournal, scripts
<1>7. CASE AppStopped
    BY <1>0, <1>7, JournalByName DEF Stepped, Terminal, AppStopped, scripts
<1>8. CASE RestartJournal
    BY <1>0, <1>8, JournalByName DEF Stepped, Terminal, RestartJournal, scripts
<1>9. CASE Healthy
    BY <1>0, <1>9, JournalByName DEF Stepped, Terminal, Healthy, scripts
<1>10. CASE Finalize
    BY <1>0, <1>10, JournalByName DEF Stepped, Terminal, Finalize, scripts
<1>11. CASE AwaitResult
    BY <1>0, <1>11, JournalByName DEF Stepped, Terminal, AwaitResult, Unjournaled, scripts
<1>12. CASE Abort /\ pc \in {"prepare", "tail"}
    BY <1>0, <1>12, JournalByName DEF Stepped, Terminal, Abort, scripts
<1>13. CASE PrepareFails
    BY <1>0, <1>13, <1>1, <1>12 DEF PrepareFails, Unjournaled
<1>14. CASE RestageFails
    BY <1>0, <1>14, <1>1, <1>12 DEF RestageFails, Unjournaled
<1>15. CASE StopTimeout
    BY <1>0, <1>15, <1>1, <1>12 DEF StopTimeout, Unjournaled, disk, scripts
<1>16. CASE Unexpected
    BY <1>0, <1>16, <1>1, <1>12 DEF Unexpected, AtAFault, Unjournaled, disk, scripts
<1>17. CASE HandOff
    BY <1>0, <1>17, <1>1 DEF Unjournaled, HandOff, disk, scripts
<1>18. CASE WorkerGivesUp
    BY <1>0, <1>18, <1>1 DEF Unjournaled, WorkerGivesUp, disk, scripts
<1>19. CASE Restage
    BY <1>0, <1>19, <1>1 DEF Unjournaled, Restage, scripts
<1>20. CASE MigrateBegin
    BY <1>0, <1>20, <1>1 DEF Unjournaled, MigrateBegin, scripts
<1>21. CASE MigrateEnd
    BY <1>0, <1>21, <1>1 DEF Unjournaled, MigrateEnd, scripts
<1>22. CASE MigrateFails
    BY <1>0, <1>22, <1>1 DEF Unjournaled, MigrateFails, scripts
<1>23. CASE SpawnScript
    BY <1>0, <1>23, <1>1 DEF Unjournaled, SpawnScript, disk
<1>24. CASE SpawnFails
    BY <1>0, <1>24, <1>1 DEF Unjournaled, SpawnFails, disk, scripts
<1>25. CASE Unhealthy
    BY <1>0, <1>25, <1>1 DEF Unjournaled, Unhealthy, disk, scripts
<1>26. CASE RestoreBegin
    BY <1>0, <1>26, <1>1 DEF Unjournaled, RestoreBegin, MustRestore, SwapDone, Renamed, scripts
<1>27. CASE RollbackNeedless
    BY <1>0, <1>27, <1>1 DEF Unjournaled, RollbackNeedless, disk, scripts
<1>28. CASE RollbackStop
    BY <1>0, <1>28, <1>1 DEF Unjournaled, RollbackStop, disk
<1>29. CASE RollbackStopped
    BY <1>0, <1>29, <1>1 DEF Unjournaled, RollbackStopped, disk, scripts
<1>30. CASE RestoreRename
    BY <1>0, <1>30, <1>1 DEF Unjournaled, RestoreRename, Renamed, scripts
<1>31. CASE CopyBegin
    BY <1>0, <1>31, <1>1 DEF Unjournaled, CopyBegin, scripts
<1>32. CASE CopyEnd
    BY <1>0, <1>32, <1>1 DEF Unjournaled, CopyEnd, scripts
<1>33. CASE DataRestoreBegin
    BY <1>0, <1>33, <1>1 DEF Unjournaled, DataRestoreBegin, scripts
<1>34. CASE DataRestoreEnd
    BY <1>0, <1>34, <1>1 DEF Unjournaled, DataRestoreEnd, scripts
<1>35. CASE RollbackRelaunch
    BY <1>0, <1>35, <1>1 DEF Unjournaled, RollbackRelaunch, disk, scripts
<1>36. CASE RollbackFails
    BY <1>0, <1>36, <1>1 DEF Unjournaled, RollbackFails, AtAFault, Renamed, scripts
<1>37. CASE RecoverBegin
    BY <1>0, <1>37, <1>1 DEF Unjournaled, RecoverBegin, SwapDone, Started, disk, scripts
<1>38. CASE RecoverRollback
    BY <1>0, <1>38, <1>1 DEF Unjournaled, RecoverRollback, disk, scripts
<1>39. CASE AppExits
    BY <1>0, <1>39, <1>1 DEF Unjournaled, AppExits, disk, scripts
<1>40. CASE StartApp
    BY <1>0, <1>40, <1>1 DEF Unjournaled, StartApp, disk, scripts
<1>41. CASE PowerLoss
    BY <1>0, <1>41, <1>1 DEF Unjournaled, PowerLoss, AtAFault, disk
<1>42. CASE ScriptMovesAside
    BY <1>0, <1>42, <1>1 DEF Unjournaled, ScriptMovesAside, Renamed
<1>43. CASE ScriptRefuses
    BY <1>0, <1>43, <1>1 DEF Unjournaled, ScriptRefuses, disk
<1>44. CASE ScriptMovesIn
    BY <1>0, <1>44, <1>1 DEF Unjournaled, ScriptMovesIn, Renamed
<1>45. CASE ScriptUndoes
    BY <1>0, <1>45, <1>1 DEF Unjournaled, ScriptUndoes, Renamed
<1>46. CASE ScriptReports
    BY <1>0, <1>46, <1>1 DEF Unjournaled, ScriptReports, disk
<1>47. CASE ScriptRelaunches
    BY <1>0, <1>47, <1>1 DEF Unjournaled, ScriptRelaunches, disk
<1>48. CASE RollbackDone
    BY <1>0, <1>48, JournalByName DEF Stepped, Terminal, RollbackDone, scripts
<1>49. CASE RecoverAbort
    BY <1>0, <1>49, JournalByName DEF Journaled, Terminal, RecoverAbort, SwapDone, scripts
<1>50. CASE RecoverFinalize
  <2>1. pc = "rec_probe" /\ running = "new" /\ bundle["app"] # "none"
    BY <1>0, <1>50 DEF RecoverFinalize
  <2>2. pc' = "idle" /\ UNCHANGED <<bundle, data, apps, scripts, recovery>>
    BY <1>50 DEF RecoverFinalize
  <2>3. journal' # <<>> /\ Ended' /\ \A t : Has(t)' <=> Has(t) \/ t \in {"HEALTHY", "FINALIZED"}
    BY <1>50, <1>f
  <2>4. script \in {"none", "done"}
    BY <1>0, <2>1
  <2>5. ~Has("ROLLED_BACK")'
    BY <2>1, <2>3
  <2> QED
    BY <1>0, <2>1, <2>2, <2>3, <2>4, <2>5 DEF scripts
<1>51. CASE UNCHANGED vars
    BY <1>0, <1>51, <1>1 DEF Unjournaled, vars, disk
<1>52. CASE Shutdown \/ ShutdownFails \/ MoveAside \/ MoveIn \/ SwapFails \/ SwapJournal
            \/ Relaunch \/ RelaunchFails \/ WorkerDies
    BY <1>0, <1>52 DEF Shutdown, ShutdownFails, MoveAside, MoveIn, SwapFails, SwapJournal,
       Relaunch, RelaunchFails, WorkerDies
<1> QED
    BY <1>2, <1>3, <1>4, <1>5, <1>6, <1>7, <1>8, <1>9, <1>10, <1>11, <1>13, <1>14, <1>15,
       <1>16, <1>17, <1>18, <1>19, <1>20, <1>21, <1>22, <1>23, <1>24, <1>25, <1>26,
       <1>27, <1>28, <1>29, <1>30, <1>31, <1>32, <1>33, <1>34, <1>35, <1>36, <1>37,
       <1>38, <1>39, <1>40, <1>41, <1>42, <1>43, <1>44, <1>45, <1>46, <1>47, <1>48,
       <1>49, <1>50, <1>51, <1>52
    DEF Next, Driver, Flow, DelegatedSwap, InProcessSwap, Script, Rollback, Recovering, Recover

\* Without a start of the app from outside, the app that runs is the installed one, none runs
\* while the bundles are put back, and wherever the new app is, the data is migrated.
FinalInv ==
    /\ Has("FINALIZED") => bundle["app"] = "new" /\ data = "new"
    /\ running = "new" => bundle["app"] = "new"
    /\ pc \in Rollbacks \ {"rollback", "rb_stopping", "rb_health"} => running = "none"
    /\ \/ bundle["app"] = "new" \/ bundle["displaced"] = "new" \/ ScriptActive
       \/ pc \in {"migrated", "plan", "spawn"}
       => data = "new"

\* Every step keeps it.
LEMMA FinalStep ==
    ASSUME Delegated, "torn" \notin Faults, "worker" \notin Faults, "start" \notin Faults,
           ShapeInv, PlaceOK, PreviousInv, DelegatedInv, FinalInv, [Next]_vars
    PROVE  FinalInv'
<1>0. /\ journal \in Seq(Steps) /\ bundle \in [Places -> {"none", "old", "new", "torn"}]
      /\ {"app", "prior", "staged", "displaced"} = Places
      /\ script \in {"none", "waiting", "moved", "swapped", "reported", "done"}
      /\ result \in {"none", "ok", "failed"} /\ recovery \in {"flow", "swapped", "unswapped"}
      /\ Delegated /\ "torn" \notin Faults /\ "worker" \notin Faults
      /\ "start" \notin Faults
      /\ journal = <<>> => pc = "idle" /\ script = "none"
      /\ pc \notin {"shutdown", "swap", "moved", "swapped", "relaunch"}
      /\ bundle["staged"] \in {"none", "new"} /\ bundle["displaced"] \in {"none", "old", "new"}
    BY DEF ShapeInv, UpdateTypeOK, Places, PlaceOK, PreviousInv
<1>1. ASSUME UNCHANGED journal PROVE Unjournaled
    BY <1>1, JournalUnchanged
<1>e. journal = <<>> => ~Ended /\ \A t : ~Has(t)
    BY <1>0, EmptySeq DEF Has, Ended, Started
<1> USE DEF FinalInv, ScriptActive, DelegatedInv, RecoveryOK, RolledBackOK, Rollbacks, Unswapped,
        MovedAside, Swapped, SetAside, Reentries, NewIn, BeforeSwap, Launch, apps
<1>2. CASE Press
    BY <1>0, <1>2, <1>e, JournalByName DEF Stepped, Terminal, Press, Started, scripts
<1>3. CASE Prepare
    BY <1>0, <1>3, JournalByName DEF Stepped, Terminal, Prepare, Plain, scripts
<1>4. CASE MigrateJournal
    BY <1>0, <1>4, JournalByName DEF Stepped, Terminal, MigrateJournal, scripts
<1>5. CASE PlanSwap
    BY <1>0, <1>5, JournalByName DEF Stepped, Terminal, PlanSwap, scripts
<1>6. CASE SpawnJournal
    BY <1>0, <1>6, JournalByName DEF Stepped, Terminal, SpawnJournal, scripts
<1>7. CASE AppStopped
    BY <1>0, <1>7, JournalByName DEF Stepped, Terminal, AppStopped, scripts
<1>8. CASE RestartJournal
    BY <1>0, <1>8, JournalByName DEF Stepped, Terminal, RestartJournal, scripts
<1>9. CASE Healthy
    BY <1>0, <1>9, JournalByName DEF Stepped, Terminal, Healthy, scripts
<1>10. CASE Finalize
    BY <1>0, <1>10, JournalByName DEF Stepped, Terminal, Finalize, scripts
<1>11. CASE AwaitResult
    BY <1>0, <1>11, JournalByName DEF Stepped, Terminal, AwaitResult, Unjournaled, scripts
<1>12. CASE Abort /\ pc \in {"prepare", "tail"}
    BY <1>0, <1>12, JournalByName DEF Stepped, Terminal, Abort, scripts
<1>13. CASE PrepareFails
    BY <1>0, <1>13, <1>1, <1>12 DEF PrepareFails, Unjournaled
<1>14. CASE RestageFails
    BY <1>0, <1>14, <1>1, <1>12 DEF RestageFails, Unjournaled
<1>15. CASE StopTimeout
    BY <1>0, <1>15, <1>1, <1>12 DEF StopTimeout, Unjournaled, disk, scripts
<1>16. CASE Unexpected
    BY <1>0, <1>16, <1>1, <1>12 DEF Unexpected, AtAFault, Unjournaled, disk, scripts
<1>17. CASE HandOff
    BY <1>0, <1>17, <1>1 DEF Unjournaled, HandOff, disk, scripts
<1>18. CASE WorkerGivesUp
    BY <1>0, <1>18, <1>1 DEF Unjournaled, WorkerGivesUp, disk, scripts
<1>19. CASE Restage
    BY <1>0, <1>19, <1>1 DEF Unjournaled, Restage, scripts
<1>20. CASE MigrateBegin
    BY <1>0, <1>20, <1>1 DEF Unjournaled, MigrateBegin, scripts
<1>21. CASE MigrateEnd
    BY <1>0, <1>21, <1>1 DEF Unjournaled, MigrateEnd, scripts
<1>22. CASE MigrateFails
    BY <1>0, <1>22, <1>1 DEF Unjournaled, MigrateFails, scripts
<1>23. CASE SpawnScript
    BY <1>0, <1>23, <1>1 DEF Unjournaled, SpawnScript, disk
<1>24. CASE SpawnFails
    BY <1>0, <1>24, <1>1 DEF Unjournaled, SpawnFails, disk, scripts
<1>25. CASE Unhealthy
    BY <1>0, <1>25, <1>1 DEF Unjournaled, Unhealthy, disk, scripts
<1>26. CASE RestoreBegin
    BY <1>0, <1>26, <1>1 DEF Unjournaled, RestoreBegin, MustRestore, SwapDone, Renamed, scripts
<1>27. CASE RollbackNeedless
    BY <1>0, <1>27, <1>1 DEF Unjournaled, RollbackNeedless, disk, scripts
<1>28. CASE RollbackStop
    BY <1>0, <1>28, <1>1 DEF Unjournaled, RollbackStop, disk
<1>29. CASE RollbackStopped
    BY <1>0, <1>29, <1>1 DEF Unjournaled, RollbackStopped, disk, scripts
<1>30. CASE RestoreRename
    BY <1>0, <1>30, <1>1 DEF Unjournaled, RestoreRename, Renamed, scripts
<1>31. CASE CopyBegin
    BY <1>0, <1>31, <1>1 DEF Unjournaled, CopyBegin, scripts
<1>32. CASE CopyEnd
    BY <1>0, <1>32, <1>1 DEF Unjournaled, CopyEnd, scripts
<1>33. CASE DataRestoreBegin
    BY <1>0, <1>33, <1>1 DEF Unjournaled, DataRestoreBegin, scripts
<1>34. CASE DataRestoreEnd
    BY <1>0, <1>34, <1>1 DEF Unjournaled, DataRestoreEnd, scripts
<1>35. CASE RollbackRelaunch
    BY <1>0, <1>35, <1>1 DEF Unjournaled, RollbackRelaunch, disk, scripts
<1>36. CASE RollbackFails
    BY <1>0, <1>36, <1>1 DEF Unjournaled, RollbackFails, AtAFault, Renamed, scripts
<1>37. CASE RecoverBegin
    BY <1>0, <1>37, <1>1 DEF Unjournaled, RecoverBegin, SwapDone, Started, disk, scripts
<1>38. CASE RecoverRollback
    BY <1>0, <1>38, <1>1 DEF Unjournaled, RecoverRollback, disk, scripts
<1>39. CASE AppExits
    BY <1>0, <1>39, <1>1 DEF Unjournaled, AppExits, disk, scripts
<1>40. CASE StartApp
    BY <1>0, <1>40, <1>1 DEF Unjournaled, StartApp, disk, scripts
<1>41. CASE PowerLoss
    BY <1>0, <1>41, <1>1 DEF Unjournaled, PowerLoss, AtAFault, disk
<1>42. CASE ScriptMovesAside
    BY <1>0, <1>42, <1>1 DEF Unjournaled, ScriptMovesAside, Renamed
<1>43. CASE ScriptRefuses
    BY <1>0, <1>43, <1>1 DEF Unjournaled, ScriptRefuses, disk
<1>44. CASE ScriptMovesIn
    BY <1>0, <1>44, <1>1 DEF Unjournaled, ScriptMovesIn, Renamed
<1>45. CASE ScriptUndoes
    BY <1>0, <1>45, <1>1 DEF Unjournaled, ScriptUndoes, Renamed
<1>46. CASE ScriptReports
    BY <1>0, <1>46, <1>1 DEF Unjournaled, ScriptReports, disk
<1>47. CASE ScriptRelaunches
    BY <1>0, <1>47, <1>1 DEF Unjournaled, ScriptRelaunches, disk
<1>48. CASE RollbackDone
    BY <1>0, <1>48, JournalByName DEF Stepped, Terminal, RollbackDone, scripts
<1>49. CASE RecoverAbort
    BY <1>0, <1>49, JournalByName DEF Journaled, Terminal, RecoverAbort, SwapDone, scripts
<1>50. CASE RecoverFinalize
    BY <1>0, <1>50, JournalByName DEF RecoverFinalize, scripts
<1>51. CASE UNCHANGED vars
    BY <1>0, <1>51, <1>1 DEF Unjournaled, vars, disk
<1>52. CASE Shutdown \/ ShutdownFails \/ MoveAside \/ MoveIn \/ SwapFails \/ SwapJournal
            \/ Relaunch \/ RelaunchFails \/ WorkerDies
    BY <1>0, <1>52 DEF Shutdown, ShutdownFails, MoveAside, MoveIn, SwapFails, SwapJournal,
       Relaunch, RelaunchFails, WorkerDies
<1> QED
    BY <1>2, <1>3, <1>4, <1>5, <1>6, <1>7, <1>8, <1>9, <1>10, <1>11, <1>13, <1>14, <1>15,
       <1>16, <1>17, <1>18, <1>19, <1>20, <1>21, <1>22, <1>23, <1>24, <1>25, <1>26,
       <1>27, <1>28, <1>29, <1>30, <1>31, <1>32, <1>33, <1>34, <1>35, <1>36, <1>37,
       <1>38, <1>39, <1>40, <1>41, <1>42, <1>43, <1>44, <1>45, <1>46, <1>47, <1>48,
       <1>49, <1>50, <1>51, <1>52
    DEF Next, Driver, Flow, DelegatedSwap, InProcessSwap, Script, Rollback, Recovering, Recover

-----------------------------------------------------------------------------
(* What the two ways of swapping keep.                                     *)

\* Before the first step the app is the previous one and nothing else is there.
LEMMA FirstState ==
    Init => /\ Unswapped /\ bundle["staged"] = "none" /\ ~Ended /\ \A t : ~Has(t)
            /\ journal = <<>> /\ data = "old" /\ running = "old" /\ script = "none"
            /\ pc = "idle" /\ recovery = "flow"
BY EmptySeq DEF Init, Places, Unswapped, Has, Ended, Started

\* The invariant of the swap in process.
LEMMA InProcessAlways ==
    ASSUME ~Delegated, "torn" \notin Faults
    PROVE  Spec => []InProcessInv
<1> DEFINE IInv == ShapeInv /\ PlaceOK /\ PreviousInv /\ InProcessInv
<1>1. Init => IInv
  <2>1. Init => InProcessInv
    BY FirstState DEF InProcessInv, Unswapped, RecoveryOK, RolledBackOK, Rollbacks,
       SetAside, Reentries
  <2> QED
    BY <2>1, PreviousInit
<1>2. IInv /\ [Next]_vars => IInv'
    BY ShapeStep, PreviousStep, InProcessStep
<1>3. IInv => InProcessInv
    OBVIOUS
<1> QED
    BY <1>1, <1>2, <1>3, PTL DEF Spec

\* The invariant of the delegated swap.
LEMMA DelegatedAlways ==
    ASSUME Delegated, "torn" \notin Faults, "worker" \notin Faults
    PROVE  Spec => []DelegatedInv
<1> DEFINE IInv == ShapeInv /\ PlaceOK /\ PreviousInv /\ DelegatedInv
<1>1. Init => IInv
  <2>1. Init => DelegatedInv
    BY FirstState DEF DelegatedInv, Unswapped, RecoveryOK, RolledBackOK, Rollbacks,
       SetAside, Reentries
  <2> QED
    BY <2>1, PreviousInit
<1>2. IInv /\ [Next]_vars => IInv'
    BY ShapeStep, PreviousStep, DelegatedStep
<1>3. IInv => DelegatedInv
    OBVIOUS
<1> QED
    BY <1>1, <1>2, <1>3, PTL DEF Spec

\* "ROLLED_BACK (previous bundle restored + prior version relaunched)", whoever swaps, after
\* any number of rollbacks interrupted before the rename of the prior or after its copy, if
\* with the script the updater does not die alone: a journal that
\* says so is over, and stays over the previous app and the previous data.
THEOREM RollbacksRestore ==
    ASSUME "torn" \notin Faults, Delegated => "worker" \notin Faults
    PROVE  Spec => []RolledBackRestored
<1>1. CASE Delegated
  <2>1. DelegatedInv => RolledBackRestored
    BY DEF DelegatedInv, RolledBackOK, RolledBackRestored
  <2>2. Spec => []DelegatedInv
    BY <1>1, DelegatedAlways
  <2> QED
    BY <2>1, <2>2, PTL
<1>2. CASE ~Delegated
  <2>1. InProcessInv => RolledBackRestored
    BY DEF InProcessInv, RolledBackOK, RolledBackRestored
  <2>2. Spec => []InProcessInv
    BY <1>2, InProcessAlways
  <2> QED
    BY <2>1, <2>2, PTL
<1> QED
    BY <1>1, <1>2

\* An empty seat is found again: when no updater and no script is at work and no app is
\* installed, the journal is open and leads the next recovery to the previous app, also after
\* a rollback stopped with the app set aside. Not when the updater may die alone while someone
\* starts the app that it then sets aside: the recovery finds that app answering its probe.
THEOREM EmptySeatsAreRecovered ==
    ASSUME "torn" \notin Faults, Delegated => "worker" \notin Faults,
           "worker" \notin Faults \/ "start" \notin Faults
    PROVE  Spec => []EmptySeatIsRecovered
<1>1. CASE Delegated
  <2>1. DelegatedInv => EmptySeatIsRecovered
    BY DEF DelegatedInv, Unswapped, MovedAside, Swapped, SetAside, Reentries, EmptySeatIsRecovered,
       SwapDone
  <2>2. Spec => []DelegatedInv
    BY <1>1, DelegatedAlways
  <2> QED
    BY <2>1, <2>2, PTL
<1>2. CASE ~Delegated
  <2> DEFINE IInv == ShapeInv /\ PlaceOK /\ PreviousInv /\ InProcessInv /\ SeatInv
  <2>1. Init => IInv
    <3>1. Init => InProcessInv
      BY FirstState DEF InProcessInv, Unswapped, RecoveryOK, RolledBackOK, Rollbacks,
         SetAside, Reentries
    <3>2. Init => SeatInv
      BY FirstState DEF SeatInv, SetAside, Unswapped
    <3> QED
      BY <3>1, <3>2, PreviousInit
  <2>2. IInv /\ [Next]_vars => IInv'
    BY <1>2, ShapeStep, PreviousStep, InProcessStep, SeatStep
  <2>3. IInv => EmptySeatIsRecovered
    BY DEF InProcessInv, SeatInv, Unswapped, Swapped, SetAside, Reentries, EmptySeatIsRecovered,
       SwapDone
  <2> QED
    BY <2>1, <2>2, <2>3, PTL DEF Spec
<1> QED
    BY <1>1, <1>2

\* "so retry is possible": an interrupted in-process update whose swap is journaled finds its
\* prior in every later start, after any number of rollbacks that failed or were interrupted
\* anywhere but between the rename of the prior and the end of its copy ("torn").
THEOREM RetryStaysPossible ==
    ASSUME ~Delegated, "torn" \notin Faults PROVE Spec => []RetryPossible
<1>1. InProcessInv => RetryPossible
    BY DEF InProcessInv, Swapped, SetAside, RetryPossible
<1> QED
    BY <1>1, InProcessAlways, PTL

\* "ABORTED (nothing user-visible changed yet)", in process, when no recover command runs
\* beside the updater and no restore of the user data stops half way: the journal says SWAPPED
\* before any migration touches the data.
THEOREM AbortsAreClean ==
    ASSUME ~Delegated, "torn" \notin Faults, "restore" \notin Faults, "cli" \notin Faults
    PROVE  Spec => []AbortedUntouched
<1> DEFINE IInv == ShapeInv /\ PlaceOK /\ PreviousInv /\ InProcessInv /\ AbortedOK
<1>1. Init => IInv
  <2>1. Init => InProcessInv
    BY FirstState DEF InProcessInv, Unswapped, RecoveryOK, RolledBackOK, Rollbacks,
       SetAside, Reentries
  <2>2. Init => AbortedOK
    BY FirstState DEF AbortedOK
  <2> QED
    BY <2>1, <2>2, PreviousInit
<1>2. IInv /\ [Next]_vars => IInv'
    BY ShapeStep, PreviousStep, InProcessStep, AbortedStep
<1>3. IInv => AbortedUntouched
    BY DEF AbortedOK, AbortedUntouched
<1> QED
    BY <1>1, <1>2, <1>3, PTL DEF Spec

\* A finished delegated update is whole, whichever of the flow and the recovery journaled the
\* end, unless the updater dies alone, a copy stops half way, or the app is started from
\* outside while it is at work.
THEOREM FinalsAreWhole ==
    ASSUME Delegated, "torn" \notin Faults, "worker" \notin Faults, "start" \notin Faults
    PROVE  Spec => []FinalizedComplete
<1> DEFINE IInv == ShapeInv /\ PlaceOK /\ PreviousInv /\ DelegatedInv /\ FinalInv
<1>1. Init => IInv
  <2>1. Init => DelegatedInv
    BY FirstState DEF DelegatedInv, Unswapped, RecoveryOK, RolledBackOK, Rollbacks,
       SetAside, Reentries
  <2>2. Init => FinalInv
    BY FirstState, PreviousInit DEF FinalInv, Unswapped, Rollbacks, ScriptActive
  <2> QED
    BY <2>1, <2>2, PreviousInit
<1>2. IInv /\ [Next]_vars => IInv'
    BY ShapeStep, PreviousStep, DelegatedStep, FinalStep
<1>3. IInv => FinalizedComplete
    BY DEF FinalInv, FinalizedComplete
<1> QED
    BY <1>1, <1>2, <1>3, PTL DEF Spec
==============================================================================

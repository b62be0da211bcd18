-------------------------- MODULE UpdateTransaction --------------------------
(***************************************************************************)
(* One install transaction of core/updater/transaction.py, from the press  *)
(* to its terminal step: the flow that journals its steps, the detached    *)
(* worker that continues it, the swap of the app bundle (in process, or    *)
(* delegated to the detached script mac_update_helper.sh), the rollback    *)
(* of the flow and the recovery a later start runs from the journal.       *)
(*                                                                         *)
(* The driver is whichever updater process is at work; there is at most    *)
(* one (worker.json and the press lock). Its place is pc; what it left on  *)
(* disk is the journal, the bundles and the user data. The bundle installer *)
(* is the macOS one, where a swap is two renames.                          *)
(***************************************************************************)
EXTENDS Integers, Sequences

CONSTANTS
    Delegated,  \* helper.performs_swap: the script swaps, not the flow
    Faults      \* what may go wrong besides refusals and time-outs, see below

\* "worker": the updater process alone may die; "power": the machine may stop;
\* "error": a call the flow does not guard may raise. They come right after a
\* journaled step, which is what crash_after simulates, and between the steps of
\* a rollback, but for the time from the rename of the prior to the end of its
\* copy. "restore": a rollback may also stop within its restore of the user data;
\* "torn": all of these may come between any two writes, and a copy or a restore
\* may stop half way. "start": someone starts the app while the updater or
\* its script is at work. "cli": the recover command runs while the updater is
\* at work, which nothing in it checks; only its abort is modelled.
FaultKinds == {"worker", "power", "error", "restore", "torn", "start", "cli"}

ASSUME UpdateAssumption == Delegated \in BOOLEAN /\ Faults \subseteq FaultKinds

VARIABLES
    journal,   \* journal.jsonl: the steps in the order journaled
    bundle,    \* the bundle in each place: the app, its prior, the staged one
    data,      \* the schema of the user data: old, partial, new
    running,   \* the app that runs: none, old, new
    quitting,  \* the running app was asked to quit
    script,    \* the detached swap script
    result,    \* helper-result.json
    pc,        \* where the driver is; idle when no updater process is at work
    recovery   \* for a recovery: whether it found the swap done; else "flow"

vars == <<journal, bundle, data, running, quitting, script, result, pc, recovery>>
disk == <<journal, bundle, data>>
apps == <<running, quitting>>
scripts == <<script, result>>

\* The steps before the hand-off, in order.
Prepared == <<"CREATED", "MANIFEST_VERIFIED", "DECIDED", "DOWNLOADED", "ARTIFACT_VERIFIED",
              "PREFLIGHT_OK", "WORK_PAUSED", "ACTIVE_STATE_RECEIVED", "SNAPSHOT_COMPLETE">>

Terminal == {"FINALIZED", "ROLLED_BACK", "ABORTED"}

Steps == {Prepared[i] : i \in 1..9} \cup Terminal \cup
         {"SWAP_PLANNED", "HELPER_SHUTDOWN", "APP_STOPPED", "SWAPPED", "MIGRATED",
          "RESTARTED", "HEALTHY"}

Places == {"app", "prior", "staged", "displaced"}

Has(step) == \E i \in DOMAIN journal : journal[i] = step
Started == journal # <<>>
Ended == Started /\ journal[Len(journal)] \in Terminal  \* is_terminal

\* _step: a resumed transaction journals no step twice.
Journal(step) == journal' = IF Has(step) THEN journal ELSE Append(journal, step)

\* A place where a fault may come.
AtAFault ==
    \/ pc \in {"prepare", "plan", "spawn", "stopping", "awaiting", "restart", "swap", "health",
               "finalize"}
    \/ ~Delegated /\ pc \in {"migrate", "relaunch"}
    \/ pc \in {"rec_probe", "rollback", "rb_stopping", "rb_restore", "rb_displaced", "rb_data",
               "rb_relaunch", "rb_health"}
    \/ pc = "rb_partial" /\ "restore" \in Faults
    \/ "torn" \in Faults

\* A launch of the installed app; it cannot take the port from one that runs.
Launch(wasRunning) ==
    running' = IF wasRunning = "none" /\ bundle["app"] # "torn" THEN bundle["app"] ELSE wasRunning

\* A rename: what was at `from` is at `to`.
Renamed(from, to) == [bundle EXCEPT ![to] = bundle[from], ![from] = "none"]

-----------------------------------------------------------------------------
(* The flow up to the hand-off (run, _run_inner, the first half of _tail).  *)

Press ==
    /\ pc = "idle" /\ ~Started /\ running = "old"
    /\ Journal("CREATED") /\ pc' = "prepare"
    /\ UNCHANGED <<bundle, data, apps, scripts, recovery>>

\* Each check passes and its step is journaled; the preflight unpacks the bundle.
Prepare ==
    LET step == Prepared[Len(journal) + 1]
    IN  /\ pc = "prepare" /\ ~Ended /\ Len(journal) < 9
        /\ Journal(step)
        /\ bundle' = IF step = "PREFLIGHT_OK" THEN [bundle EXCEPT !["staged"] = "new"] ELSE bundle
        /\ UNCHANGED <<data, apps, scripts, pc, recovery>>

\* _abort: drop the staged bundle, unless swapped, and journal ABORTED.
Abort ==
    /\ bundle' = IF Has("SWAPPED") THEN bundle ELSE [bundle EXCEPT !["staged"] = "none"]
    /\ Journal("ABORTED") /\ pc' = "idle"
    /\ UNCHANGED <<data, apps, scripts, recovery>>

\* A check of the preparation fails, or the worker cannot be started.
PrepareFails == pc = "prepare" /\ Abort

\* The install press stops at SNAPSHOT_COMPLETE and starts the detached worker.
HandOff ==
    /\ pc = "prepare" /\ Has("SNAPSHOT_COMPLETE")
    /\ pc' = "tail"
    /\ UNCHANGED <<disk, apps, scripts, recovery>>

\* The worker or resume refuses before _tail, which it does once the transaction
\* has ended, and journals nothing.
WorkerGivesUp ==
    /\ pc = "tail" /\ pc' = "idle"
    /\ UNCHANGED <<disk, apps, scripts, recovery>>

\* _tail again: the bundle is unpacked and verified anew.
Restage ==
    /\ pc = "tail" /\ ~Ended
    /\ bundle' = [bundle EXCEPT !["staged"] = "new"]
    /\ pc' = IF Delegated THEN "migrate" ELSE "shutdown"
    /\ UNCHANGED <<journal, data, apps, scripts, recovery>>

RestageFails == pc = "tail" /\ ~Ended /\ Abort

-----------------------------------------------------------------------------
(* Migrations, before the swap when delegated and after it otherwise. This  *)
(* update has some: without, user data is never touched.                    *)

MigrateBegin ==
    /\ pc = "migrate"
    /\ data' = "partial" /\ pc' = "migrating"
    /\ UNCHANGED <<journal, bundle, apps, scripts, recovery>>

MigrateEnd ==
    /\ pc = "migrating"
    /\ data' = "new" /\ pc' = "migrated"
    /\ UNCHANGED <<journal, bundle, apps, scripts, recovery>>

\* A step fails: run_migrations restores its snapshots, which may fail as well.
MigrateFails ==
    /\ pc = "migrating"
    /\ data' \in {"old", "partial"} /\ pc' = "rollback"
    /\ UNCHANGED <<journal, bundle, apps, scripts, recovery>>

MigrateJournal ==
    /\ pc = "migrated"
    /\ Journal("MIGRATED") /\ pc' = IF Delegated THEN "plan" ELSE "relaunch"
    /\ UNCHANGED <<bundle, data, apps, scripts, recovery>>

-----------------------------------------------------------------------------
(* The delegated swap: the flow's side.                                    *)

\* Mutant of PlanSwap: the intended prior is not journaled.
PlanSwapUnwritten ==
    /\ pc = "plan" /\ pc' = "spawn"
    /\ UNCHANGED <<disk, apps, scripts, recovery>>

\* SWAP_PLANNED, with the prior's path, before the script can run.
PlanSwap ==
    /\ pc = "plan"
    /\ Journal("SWAP_PLANNED") /\ pc' = "spawn"
    /\ UNCHANGED <<bundle, data, apps, scripts, recovery>>

\* ExternalScriptHelper.shutdown_app: spawn the script, ask the app to quit.
SpawnScript ==
    /\ pc = "spawn"
    /\ script' = "waiting" /\ result' = "none"
    /\ quitting' = (running # "none") /\ pc' = "spawned"
    /\ UNCHANGED <<disk, running, recovery>>

SpawnFails ==
    /\ pc = "spawn" /\ pc' = "rollback"
    /\ UNCHANGED <<disk, apps, scripts, recovery>>

SpawnJournal ==
    /\ pc = "spawned"
    /\ Journal("HELPER_SHUTDOWN") /\ pc' = "stopping"
    /\ UNCHANGED <<bundle, data, apps, scripts, recovery>>

\* wait_until_stopped, both ways.
AppStopped ==
    /\ pc = "stopping" /\ running = "none"
    /\ Journal("APP_STOPPED") /\ pc' = IF Delegated THEN "awaiting" ELSE "swap"
    /\ UNCHANGED <<bundle, data, apps, scripts, recovery>>

\* Mutant of StopTimeout: the wait has no bound.
StopTimeoutWaits ==
    /\ pc = "stopping" /\ running # "none"
    /\ UNCHANGED vars

\* The app does not stop in time: roll back when the script is out, else abort.
StopTimeout ==
    /\ pc = "stopping" /\ running # "none"
    /\ IF Delegated THEN pc' = "rollback" /\ UNCHANGED <<disk, apps, scripts, recovery>> ELSE Abort

\* wait_for_result: the script's report, or none in time.
AwaitResult ==
    /\ pc = "awaiting"
    /\ IF result = "ok" \/ bundle["prior"] # "none"
       THEN Journal("SWAPPED") ELSE UNCHANGED journal
    /\ pc' = IF result = "ok" THEN "restart" ELSE "rollback"
    /\ UNCHANGED <<bundle, data, apps, scripts, recovery>>

RestartJournal ==
    /\ pc = "restart"
    /\ Journal("RESTARTED") /\ pc' = "health"
    /\ UNCHANGED <<bundle, data, apps, scripts, recovery>>

-----------------------------------------------------------------------------
(* The swap in process.                                                     *)

Shutdown ==
    /\ pc = "shutdown"
    /\ quitting' = (running # "none")
    /\ Journal("HELPER_SHUTDOWN") /\ pc' = "stopping"
    /\ UNCHANGED <<bundle, data, running, scripts, recovery>>

ShutdownFails == pc = "shutdown" /\ Abort

\* Mutant of MoveAside: the app is removed to make room.
MoveAsideRemoving ==
    /\ pc = "swap" /\ bundle["staged"] # "none" /\ bundle["prior"] = "none"
    /\ bundle' = [bundle EXCEPT !["app"] = "none"] /\ pc' = "moved"
    /\ UNCHANGED <<journal, data, apps, scripts, recovery>>

\* atomic_swap: the app is renamed to its prior, the staged bundle to the app.
MoveAside ==
    /\ pc = "swap" /\ bundle["staged"] # "none" /\ bundle["prior"] = "none"
    /\ bundle' = Renamed("app", "prior") /\ pc' = "moved"
    /\ UNCHANGED <<journal, data, apps, scripts, recovery>>

MoveIn ==
    /\ pc = "moved" /\ bundle["staged"] # "none"
    /\ bundle' = Renamed("staged", "app") /\ pc' = "swapped"
    /\ UNCHANGED <<journal, data, apps, scripts, recovery>>

\* Mutant of SwapFails: the first rename is not undone.
SwapFailsMidway ==
    /\ pc \in {"swap", "moved"} /\ pc' = "rollback"
    /\ UNCHANGED <<disk, apps, scripts, recovery>>

\* A rename is refused; the first one is undone.
SwapFails ==
    /\ pc \in {"swap", "moved"} /\ pc' = "rollback"
    /\ bundle' = IF pc = "moved" THEN Renamed("prior", "app") ELSE bundle
    /\ UNCHANGED <<journal, data, apps, scripts, recovery>>

SwapJournal ==
    /\ pc = "swapped"
    /\ Journal("SWAPPED") /\ pc' = "migrate"
    /\ UNCHANGED <<bundle, data, apps, scripts, recovery>>

Relaunch ==
    /\ pc = "relaunch"
    /\ Launch(running)
    /\ Journal("RESTARTED") /\ pc' = "health"
    /\ UNCHANGED <<bundle, data, quitting, scripts, recovery>>

RelaunchFails ==
    /\ pc = "relaunch" /\ pc' = "rollback"
    /\ UNCHANGED <<disk, apps, scripts, recovery>>

-----------------------------------------------------------------------------
(* The verdict.                                                            *)

Healthy ==
    /\ pc = "health" /\ running = "new"
    /\ Journal("HEALTHY") /\ pc' = "finalize"
    /\ UNCHANGED <<bundle, data, apps, scripts, recovery>>

Unhealthy ==
    /\ pc = "health" /\ pc' = "rollback"
    /\ UNCHANGED <<disk, apps, scripts, recovery>>

Finalize ==
    /\ pc = "finalize"
    /\ Journal("FINALIZED") /\ pc' = "idle"
    /\ UNCHANGED <<bundle, data, apps, scripts, recovery>>

\* The handler of run and resume: a call raised that nothing else guards.
Unexpected ==
    /\ "error" \in Faults /\ AtAFault /\ pc # "idle" /\ recovery = "flow"
    /\ pc \notin {"rollback", "rb_stopping", "rb_restore", "rb_displaced", "rb_restored",
                  "rb_copying", "rb_data", "rb_partial", "rb_relaunch", "rb_health"}
    /\ IF \E step \in {"SWAPPED", "MIGRATED", "SWAP_PLANNED"} : Has(step)
       THEN pc' = "rollback" /\ UNCHANGED <<disk, apps, scripts, recovery>>
       ELSE Abort

-----------------------------------------------------------------------------
(* mac_update_helper.sh, a process of its own.                              *)

\* The app it waits for is gone: move the app aside, unless a prior is there.
ScriptMovesAside ==
    /\ script = "waiting" /\ ~quitting
    /\ bundle["prior"] = "none" /\ bundle["app"] # "none"
    /\ bundle' = Renamed("app", "prior") /\ script' = "moved"
    /\ UNCHANGED <<journal, data, apps, result, pc, recovery>>

\* The app did not exit in time, a prior is there, or the rename is refused.
ScriptRefuses ==
    /\ script = "waiting"
    /\ script' = "done" /\ result' = "failed"
    /\ UNCHANGED <<disk, apps, pc, recovery>>

\* Mutant of ScriptMovesIn: the prior is dropped once the new bundle is in.
ScriptMovesInForGood ==
    /\ script = "moved" /\ bundle["staged"] # "none"
    /\ bundle' = [bundle EXCEPT !["app"] = bundle["staged"], !["staged"] = "none",
                                !["prior"] = "none"]
    /\ script' = "swapped"
    /\ UNCHANGED <<journal, data, apps, result, pc, recovery>>

\* Move the staged bundle in; onto an app that is back, mv nests it inside.
ScriptMovesIn ==
    /\ script = "moved" /\ bundle["staged"] # "none"
    /\ bundle' = IF bundle["app"] = "none" THEN Renamed("staged", "app")
                 ELSE [bundle EXCEPT !["staged"] = "none"]
    /\ script' = "swapped"
    /\ UNCHANGED <<journal, data, apps, result, pc, recovery>>

\* ... or undo the first rename, with the same mv.
ScriptUndoes ==
    /\ script = "moved"
    /\ bundle' = IF bundle["app"] = "none" THEN Renamed("prior", "app")
                 ELSE [bundle EXCEPT !["prior"] = "none"]
    /\ script' = "done" /\ result' = "failed"
    /\ UNCHANGED <<journal, data, apps, pc, recovery>>

ScriptReports ==
    /\ script = "swapped"
    /\ script' = "reported" /\ result' = "ok"
    /\ UNCHANGED <<disk, apps, pc, recovery>>

ScriptRelaunches ==
    /\ script = "reported"
    /\ script' = "done"
    /\ Launch(running)
    /\ UNCHANGED <<disk, quitting, result, pc, recovery>>

-----------------------------------------------------------------------------
(* rollback_active of the flow, and the same sequence in a recovery.        *)

\* The swap had happened: journaled, or its planned prior exists.
SwapDone == Has("SWAPPED") \/ (Has("SWAP_PLANNED") /\ bundle["prior"] # "none")

\* The transaction has ended meanwhile: nothing to roll back.
RollbackNeedless ==
    /\ pc = "rollback" /\ recovery = "flow" /\ Ended
    /\ pc' = "idle"
    /\ UNCHANGED <<disk, apps, scripts, recovery>>

\* Mutant of RollbackStop: it asks the app to quit without looking for one.
RollbackStopBlind ==
    /\ pc = "rollback" /\ (recovery = "flow" => ~Ended)
    /\ script' = IF recovery = "flow" /\ script # "none" THEN "done" ELSE script
    /\ quitting' = TRUE /\ pc' = "rb_stopping"
    /\ UNCHANGED <<disk, running, result, recovery>>

\* Mutant of RollbackStop: the swap script is left waiting.
RollbackStopLeavesScript ==
    /\ pc = "rollback" /\ (recovery = "flow" => ~Ended)
    /\ quitting' = (running # "none") /\ pc' = "rb_stopping"
    /\ UNCHANGED <<disk, running, scripts, recovery>>

\* Stop whoever holds the app's seat; the flow stops its own script first.
RollbackStop ==
    /\ pc = "rollback" /\ (recovery = "flow" => ~Ended)
    /\ script' = IF recovery = "flow" /\ script # "none" THEN "done" ELSE script
    /\ quitting' = (running # "none") /\ pc' = "rb_stopping"
    /\ UNCHANGED <<disk, running, result, recovery>>

RollbackStopped ==
    /\ pc = "rb_stopping" /\ running = "none"
    /\ pc' = "rb_restore"
    /\ UNCHANGED <<disk, apps, scripts, recovery>>

\* The flow looks for the prior now, a recovery when it began.
MustRestore == IF recovery = "flow" THEN SwapDone ELSE recovery = "swapped"

\* restore_prior: without a prior, or with an earlier displaced app in the way,
\* it fails; else it sets the app aside, if there is one ...
RestoreBegin ==
    /\ pc = "rb_restore"
    /\ IF ~MustRestore THEN pc' = "rb_data" /\ UNCHANGED bundle
       ELSE IF bundle["prior"] = "none" \/ (bundle["app"] # "none" /\ bundle["displaced"] # "none")
       THEN pc' = "idle" /\ UNCHANGED bundle
       ELSE /\ pc' = "rb_displaced"
            /\ bundle' = IF bundle["app"] = "none" THEN bundle ELSE Renamed("app", "displaced")
    /\ UNCHANGED <<journal, data, apps, scripts, recovery>>

\* ... and rename the prior to the app.
RestoreRename ==
    /\ pc = "rb_displaced" /\ bundle["prior"] # "none" /\ bundle["app"] = "none"
    /\ bundle' = Renamed("prior", "app") /\ pc' = "rb_restored"
    /\ UNCHANGED <<journal, data, apps, scripts, recovery>>

\* Mutant of CopyBegin: the prior is not kept for a second attempt.
CopyForgone ==
    /\ pc = "rb_restored"
    /\ bundle' = [bundle EXCEPT !["displaced"] = "none"] /\ pc' = "rb_data"
    /\ UNCHANGED <<journal, data, apps, scripts, recovery>>

\* Discard what was displaced and start copying the app back to the prior.
CopyBegin ==
    /\ pc = "rb_restored"
    /\ bundle' = [bundle EXCEPT !["displaced"] = "none", !["prior"] = "torn"]
    /\ pc' = "rb_copying"
    /\ UNCHANGED <<journal, data, apps, scripts, recovery>>

\* Mutant of CopyEnd: the user data is not restored with the app.
CopyEndAppOnly ==
    /\ pc = "rb_copying"
    /\ bundle' = [bundle EXCEPT !["prior"] = bundle["app"]] /\ pc' = "rb_relaunch"
    /\ UNCHANGED <<journal, data, apps, scripts, recovery>>

CopyEnd ==
    /\ pc = "rb_copying"
    /\ bundle' = [bundle EXCEPT !["prior"] = bundle["app"]] /\ pc' = "rb_data"
    /\ UNCHANGED <<journal, data, apps, scripts, recovery>>

\* restore_tree and restore_runtime, from the snapshots of this transaction.
DataRestoreBegin ==
    /\ pc = "rb_data" /\ Has("SNAPSHOT_COMPLETE")
    /\ data' = "partial" /\ pc' = "rb_partial"
    /\ UNCHANGED <<journal, bundle, apps, scripts, recovery>>

DataRestoreEnd ==
    /\ pc = "rb_partial"
    /\ data' = "old" /\ pc' = "rb_relaunch"
    /\ UNCHANGED <<journal, bundle, apps, scripts, recovery>>

RollbackRelaunch ==
    /\ pc = "rb_relaunch"
    /\ Launch(running) /\ pc' = "rb_health"
    /\ UNCHANGED <<disk, quitting, scripts, recovery>>

\* The previous version answers: ROLLED_BACK. Only the flow drops its staged bundle.
RollbackDone ==
    /\ pc = "rb_health" /\ running = "old"
    /\ bundle' = IF recovery = "flow" THEN [bundle EXCEPT !["staged"] = "none"] ELSE bundle
    /\ Journal("ROLLED_BACK") /\ pc' = "idle"
    /\ UNCHANGED <<data, apps, scripts, recovery>>

\* rollback_failed: the journal stays open for the next recovery. A refused
\* rename puts the displaced app back; a copy or a restore may stop half way.
RollbackFails ==
    /\ \/ pc \in {"rb_stopping", "rb_displaced", "rb_relaunch", "rb_health"}
       \/ pc \in {"rb_copying", "rb_partial"} /\ AtAFault
    /\ bundle' = IF pc = "rb_displaced" /\ bundle["displaced"] # "none" /\ bundle["app"] = "none"
                 THEN Renamed("displaced", "app") ELSE bundle
    /\ pc' = "idle"
    /\ UNCHANGED <<journal, data, apps, scripts, recovery>>

-----------------------------------------------------------------------------
(* recover_interrupted_update, from a start of the app, its launcher or the *)
(* command line, when no updater process is alive.                          *)

\* Neither swapped nor migrated: clean up, ABORTED.
RecoverAbort ==
    /\ pc = "idle" \/ "cli" \in Faults
    /\ Started /\ ~Ended
    /\ ~SwapDone /\ ~Has("MIGRATED")
    /\ bundle' = [bundle EXCEPT !["staged"] = "none"]
    /\ journal' = Append(journal, "ABORTED")
    /\ UNCHANGED <<data, apps, scripts, pc, recovery>>

RecoverBegin ==
    /\ pc = "idle" /\ Started /\ ~Ended
    /\ SwapDone \/ Has("MIGRATED")
    /\ recovery' = IF SwapDone THEN "swapped" ELSE "unswapped"
    /\ pc' = "rec_probe"
    /\ UNCHANGED <<disk, apps, scripts>>

\* Mutant of RecoverFinalize: the probe pins no identity.
RecoverFinalizeAnyApp ==
    /\ pc = "rec_probe" /\ recovery = "swapped" /\ running # "none"
    /\ journal' = journal \o <<"HEALTHY", "FINALIZED">> /\ pc' = "idle"
    /\ UNCHANGED <<bundle, data, apps, scripts, recovery>>

\* The new version answers the probe: the crash was cosmetic.
RecoverFinalize ==
    /\ pc = "rec_probe" /\ recovery = "swapped" /\ running = "new"
    /\ journal' = journal \o <<"HEALTHY", "FINALIZED">> /\ pc' = "idle"
    /\ UNCHANGED <<bundle, data, apps, scripts, recovery>>

RecoverRollback ==
    /\ pc = "rec_probe" /\ pc' = "rollback"
    /\ UNCHANGED <<disk, apps, scripts, recovery>>

-----------------------------------------------------------------------------
(* The app, the updater process and the machine.                            *)

AppExits ==
    /\ quitting
    /\ running' = "none" /\ quitting' = FALSE
    /\ UNCHANGED <<disk, scripts, pc, recovery>>

ScriptActive == script \in {"waiting", "moved", "swapped", "reported"}

\* A user or a supervisor starts the installed app.
StartApp ==
    /\ (pc = "idle" /\ ~ScriptActive) \/ "start" \in Faults
    /\ running = "none" /\ bundle["app"] \in {"old", "new"}
    /\ Launch(running)
    /\ UNCHANGED <<disk, quitting, scripts, pc, recovery>>

\* Until the hand-off the flow runs in the app, and they die together.
WorkerDies ==
    /\ "worker" \in Faults /\ pc # "idle" /\ AtAFault
    /\ pc' = "idle"
    /\ running' = IF pc = "prepare" THEN "none" ELSE running
    /\ UNCHANGED <<disk, quitting, scripts, recovery>>

PowerLoss ==
    /\ "power" \in Faults /\ (pc = "idle" \/ AtAFault)
    /\ pc' = "idle" /\ running' = "none" /\ quitting' = FALSE /\ script' = "none"
    /\ UNCHANGED <<disk, result, recovery>>

-----------------------------------------------------------------------------
Init ==
    /\ journal = <<>>
    /\ bundle = [place \in Places |-> IF place = "app" THEN "old" ELSE "none"]
    /\ data = "old"
    /\ running = "old" /\ quitting = FALSE
    /\ script = "none" /\ result = "none"
    /\ pc = "idle" /\ recovery = "flow"

Flow ==
    \/ Prepare \/ PrepareFails \/ HandOff \/ WorkerGivesUp \/ Restage \/ RestageFails
    \/ MigrateBegin \/ MigrateEnd \/ MigrateFails \/ MigrateJournal
    \/ AppStopped \/ StopTimeout \/ Healthy \/ Unhealthy \/ Finalize

DelegatedSwap ==
    \/ PlanSwap \/ SpawnScript \/ SpawnFails \/ SpawnJournal \/ AwaitResult \/ RestartJournal

InProcessSwap ==
    \/ Shutdown \/ ShutdownFails \/ MoveAside \/ MoveIn \/ SwapFails \/ SwapJournal
    \/ Relaunch \/ RelaunchFails

Script ==
    \/ ScriptMovesAside \/ ScriptRefuses \/ ScriptMovesIn \/ ScriptUndoes
    \/ ScriptReports \/ ScriptRelaunches

Rollback ==
    \/ RollbackNeedless \/ RollbackStop \/ RollbackStopped \/ RestoreBegin \/ RestoreRename \/ CopyBegin \/ CopyEnd
    \/ DataRestoreBegin \/ DataRestoreEnd \/ RollbackRelaunch \/ RollbackDone \/ RollbackFails

Recover == RecoverAbort \/ RecoverBegin
Recovering == RecoverFinalize \/ RecoverRollback

Driver == Flow \/ DelegatedSwap \/ InProcessSwap \/ Rollback \/ Recovering

Next ==
    \/ Press \/ Driver \/ Script \/ Recover
    \/ AppExits \/ StartApp \/ Unexpected \/ WorkerDies \/ PowerLoss

Spec == Init /\ [][Next]_vars

\* The updater process is scheduled and its waits time out. Nothing obliges the
\* app to quit, the script to run, a call to raise, or anyone to press or recover.
FairSpec == Spec /\ WF_vars(Driver)
-----------------------------------------------------------------------------
(* Properties.                                                             *)

\* The shape of the state. Only an app that runs is asked to quit.
UpdateTypeOK ==
    /\ journal \in Seq(Steps)
    /\ bundle \in [Places -> {"none", "old", "new", "torn"}]
    /\ data \in {"old", "partial", "new"}
    /\ running \in {"none", "old", "new"} /\ quitting \in BOOLEAN
    /\ script \in {"none", "waiting", "moved", "swapped", "reported", "done"}
    /\ result \in {"none", "ok", "failed"}
    /\ recovery \in {"flow", "swapped", "unswapped"}
    /\ quitting => running # "none"

\* "ABORTED (nothing user-visible changed yet)": a transaction that ends
\* aborted, by the flow or by a recovery that read its journal, has left the
\* installed app and the user data as they were.
AbortedUntouched == Has("ABORTED") => bundle["app"] = "old" /\ data = "old"

\* "ROLLED_BACK (previous bundle restored + prior version relaunched)": the
\* previous app is installed again over the previous data, and stays.
RolledBackRestored == Has("ROLLED_BACK") => bundle["app"] = "old" /\ data = "old"

\* A finished update is whole: the new app over migrated data, whichever of the
\* flow and the recovery journaled the end.
FinalizedComplete == Has("FINALIZED") => bundle["app"] = "new" /\ data = "new"

\* "the previous bundle is NEVER deleted during a transaction ..., so a failed
\* update always leaves the previous version runnable": a whole copy of the
\* previous app exists until the update is final.
PreviousRunnable == Has("FINALIZED") \/ \E place \in Places : bundle[place] = "old"

\* Whenever no updater and no script is at work and the app's place is empty,
\* the journal is open and leads the next recovery to the previous app.
EmptySeatIsRecovered ==
    pc = "idle" /\ ~ScriptActive /\ bundle["app"] = "none"
    => ~Ended /\ SwapDone /\ bundle["prior"] = "old"

\* "Keep a new copy until the previous app has actually relaunched, so retry is
\* possible": a recovery of an update whose swap is journaled finds the prior it
\* needs, whatever interrupted or failed the rollbacks before it, outside the time
\* from the rename of the prior to the end of its copy; without a prior it fails
\* every time and blocks later installs.
RetryPossible == pc = "idle" /\ Has("SWAPPED") /\ ~Ended => bundle["prior"] # "none"

\* Every wait of the updater is bounded: an app that never quits, a script that
\* never reports or an app that never answers does not hold a transaction.
UpdaterEnds == (pc # "idle") ~> (pc = "idle")
=============================================================================

---------------------------- MODULE SyncSchedule ----------------------------
(***************************************************************************)
(* When synchronization runs on one device: the single-flight controller   *)
(* (sync-controller.ts), the debounce and interval timers (auto-sync.ts),  *)
(* the foreground check (foreground-sync.ts) and the editing guard that    *)
(* main.ts puts up while the check applies incoming changes.               *)
(*                                                                         *)
(* What a run does to the files is module SyncVault's.  Here the vault is  *)
(* a counter of edits and the remote manifest a counter of the revisions   *)
(* the other devices published; a run reads both when it scans, and when   *)
(* it commits they are what it brought together.                           *)
(*                                                                         *)
(* JavaScript runs one callback at a time.  What a promise's settling      *)
(* triggers without waiting for I/O is part of the action that settles it, *)
(* and no timer, event or command comes between (Settled).                 *)
(***************************************************************************)
EXTENDS Naturals

CONSTANTS
  None,           \* no run is current
  Periodic,       \* BOOLEAN: settings.periodicSyncMinutes > 0
  MaxEdits,       \* edits of the user
  MaxRemote,      \* revisions the other devices publish
  MaxFailures,    \* runs that fail for a reason outside this module
  MaxPauses,      \* times auto-sync is paused or resumed
  MaxSettings,    \* other settings changed
  MaxRequests,    \* activations, "online" events and commands
  MaxOverlaps     \* interval timers that expire while a run is current

ASSUME BoundsAreNumbers ==
  /\ Periodic \in BOOLEAN
  /\ {MaxEdits, MaxRemote, MaxFailures, MaxPauses, MaxSettings, MaxRequests,
      MaxOverlaps} \subseteq Nat

VARIABLES
  edited,     \* how often the user has edited the vault
  noticed,    \* an edit's event handler is loading the settings
  synced,     \* the last edit the remote manifest holds
  remote,     \* how many revisions the other devices have published
  seen,       \* the last of them this device has applied
  paused,     \* settings.paused
  run,        \* SyncController.current: the run, or None
  queued,     \* SyncController.queued
  backoff,    \* Date.now() < nextAllowedAt
  awaited,    \* a debounce timer's callback waits for the current run
  debounce,   \* debounceTimer # null
  check,      \* where ForegroundSyncCoordinator's loop is
  rerun,      \* rerunRequested
  inactive,   \* ForegroundSyncCoordinator.inactive
  guard,      \* activationGate # null
  excused,    \* an edit waits because a run failed or auto-sync was paused
  due,        \* remote when the foreground was last asked to check
  spent       \* what has been used of each bound

vault == <<edited, noticed, synced, remote, seen>>
controller == <<run, queued, backoff, awaited>>
foreground == <<check, rerun, inactive, guard, due>>
vars == <<vault, controller, foreground, paused, debounce, excused, spent>>

Run == [preview : BOOLEAN, manual : BOOLEAN, check : BOOLEAN,
        stage : {"starting", "scanned", "review", "executing"},
        local : 0..MaxEdits, remote : 0..MaxRemote]

ASSUME NoneIsNoRun == None \notin Run

Limit == [failures |-> MaxFailures, pauses |-> MaxPauses, settings |-> MaxSettings,
          requests |-> MaxRequests, overlaps |-> MaxOverlaps]

Spend(bound) ==
  /\ spent[bound] < Limit[bound]
  /\ spent' = [spent EXCEPT ![bound] = @ + 1]

CountersOK ==
  /\ edited \in 0..MaxEdits /\ synced \in 0..edited
  /\ remote \in 0..MaxRemote /\ seen \in 0..remote /\ due \in 0..remote
  /\ spent \in [DOMAIN Limit -> Nat]

FlagsOK ==
  /\ noticed \in BOOLEAN /\ paused \in BOOLEAN /\ queued \in BOOLEAN /\ backoff \in BOOLEAN
  /\ debounce \in BOOLEAN /\ rerun \in BOOLEAN /\ inactive \in BOOLEAN
  /\ guard \in BOOLEAN /\ excused \in BOOLEAN /\ awaited \in BOOLEAN

RunOK ==
  /\ run \in Run \cup {None}
  /\ check \in {"idle", "loading", "probe", "apply"}
  /\ queued \/ awaited => run # None
  /\ run # None => (run.check => check = IF run.preview THEN "probe" ELSE "apply")
  /\ run # None => (run.preview => run.stage \in {"starting", "scanned"})

\* The type of every variable; a request is queued and a debounce timer waits
\* only for a current run, the check's own run is current only while the check
\* waits for it, and a preview never gets further than its scan.
TypeOK == CountersOK /\ FlagsOK /\ RunOK

\* main.ts has loaded; finishStartup asks for the first check.
Init ==
  /\ edited = 0 /\ synced = 0 /\ noticed = FALSE
  /\ remote = 0 /\ seen = 0
  /\ paused = FALSE /\ debounce = FALSE
  /\ run = None /\ queued = FALSE /\ backoff = FALSE /\ awaited = FALSE
  /\ check = "loading" /\ rerun = FALSE /\ inactive = FALSE /\ guard = FALSE
  /\ excused = FALSE /\ due = 0
  /\ spent = [bound \in DOMAIN Limit |-> 0]

NewRun(preview, manual, forCheck) ==
  [preview |-> preview, manual |-> manual, check |-> forCheck,
   stage |-> "starting", local |-> 0, remote |-> 0]

\* The foreground check is waiting for a run to end and none is left: its
\* continuation starts a run before any other callback is called.
Settled == ~ (run = None /\ check \in {"probe", "apply"})

-----------------------------------------------------------------------------
(***************************************************************************)
(* SyncController.sync: a request made while a run is current joins it and *)
(* leaves `queued` behind; an automatic one is refused during the backoff. *)
(***************************************************************************)
\* Mutant of Join: a request that joins the current run leaves nothing behind.
JoinOnly == UNCHANGED <<run, queued, backoff, excused>>

Join ==
  /\ queued' = TRUE
  /\ UNCHANGED <<run, backoff, excused>>

Sync(preview, manual) ==
  /\ Settled
  /\ \/ run # None /\ Join
     \/ /\ run = None /\ (manual \/ ~ backoff)
        /\ run' = NewRun(preview, manual, FALSE)
        /\ UNCHANGED <<queued, backoff, excused>>
     \/ /\ run = None /\ ~ manual /\ backoff
        /\ excused' = TRUE
        /\ UNCHANGED <<run, queued, backoff>>

-----------------------------------------------------------------------------
(***************************************************************************)
(* The user and the other devices.                                         *)
(***************************************************************************)

\* The guard and the review are modal: the user edits when neither is up.
Edit ==
  /\ Settled
  /\ edited < MaxEdits /\ ~ guard /\ (run # None => run.stage # "review")
  /\ edited' = edited + 1 /\ noticed' = TRUE
  /\ UNCHANGED <<synced, remote, seen, controller, foreground, paused, debounce, excused, spent>>

\* handle's continuation and localChange.
NoticeChange ==
  /\ Settled
  /\ noticed /\ noticed' = FALSE
  /\ \/ ~ paused /\ debounce' = TRUE /\ UNCHANGED excused
     \/ paused /\ excused' = TRUE /\ UNCHANGED debounce
  /\ UNCHANGED <<edited, synced, remote, seen, controller, foreground, paused, spent>>

Publish ==
  /\ remote < MaxRemote /\ remote' = remote + 1
  /\ UNCHANGED <<edited, noticed, synced, seen, controller, foreground, paused, debounce,
                 excused, spent>>

\* syncNow, preview, validateVault and the save on "beforeunload".
Command(preview) ==
  /\ Spend("requests")
  /\ Sync(preview, TRUE)
  /\ UNCHANGED <<vault, foreground, awaited, paused, debounce>>

\* setPaused: configure stops the timers and starts the intervals again.
SetPaused ==
  /\ Settled /\ Spend("pauses")
  /\ paused' = ~ paused
  /\ debounce' = FALSE
  /\ excused' = (excused \/ debounce)
  /\ UNCHANGED <<vault, controller, foreground>>

\* Any other setting saved in the settings tab.
ChangeSetting ==
  /\ Settled /\ Spend("settings")
  /\ debounce' = FALSE
  /\ UNCHANGED <<vault, controller, foreground, paused, excused>>

-----------------------------------------------------------------------------
(***************************************************************************)
(* The timers of AutoSyncScheduler and the end of the backoff.             *)
(***************************************************************************)
DebounceFires ==
  /\ debounce /\ debounce' = FALSE
  /\ Sync(FALSE, FALSE)
  /\ awaited' = (run' # None)
  /\ UNCHANGED <<vault, foreground, paused, spent>>

\* The periodic timer does not look at paused; the verification timer does.
IntervalFires ==
  /\ Periodic \/ ~ paused
  /\ IF run = None THEN UNCHANGED spent ELSE Spend("overlaps")
  /\ Sync(FALSE, FALSE)
  /\ UNCHANGED <<vault, foreground, awaited, paused, debounce>>

BackoffEnds ==
  /\ Settled
  /\ backoff /\ backoff' = FALSE
  /\ UNCHANGED <<vault, run, queued, awaited, foreground, paused, debounce, excused, spent>>

-----------------------------------------------------------------------------
(***************************************************************************)
(* The foreground coordinator.                                             *)
(***************************************************************************)
\* Mutant of RequestCheck: a check asked for while one is going on is taken to be that one.
RequestOnce ==
  /\ due' = remote
  /\ check' = (IF check = "idle" THEN "loading" ELSE check)
  /\ UNCHANGED rerun

RequestCheck ==
  /\ due' = remote
  /\ \/ check = "idle" /\ check' = "loading" /\ UNCHANGED rerun
     \/ check # "idle" /\ rerun' = TRUE /\ UNCHANGED check

\* The "online" event, and the commands that end with a check.
CheckNow ==
  /\ Settled /\ Spend("requests")
  /\ RequestCheck
  /\ UNCHANGED <<vault, controller, inactive, guard, paused, debounce, excused>>

Blur ==
  /\ Settled
  /\ ~ inactive /\ inactive' = TRUE
  /\ UNCHANGED <<vault, controller, check, rerun, guard, due, paused, debounce, excused, spent>>

Focus ==
  /\ Settled /\ Spend("requests")
  /\ inactive /\ inactive' = FALSE
  /\ RequestCheck
  /\ UNCHANGED <<vault, controller, guard, paused, debounce, excused>>

\* Mutant of EndCheck: the guard is released when the check succeeds, not in a finally.
EndCheckThen(succeeded) ==
  /\ guard' = (guard /\ ~ succeeded)
  /\ rerun' = FALSE
  /\ check' = IF rerun THEN "loading" ELSE "idle"
  /\ due' = IF succeeded \/ rerun THEN due ELSE 0
  /\ UNCHANGED inactive

\* runActivationSync's finally, and the do-while of runLoop.
EndCheck(succeeded) ==
  /\ guard' = FALSE
  /\ rerun' = FALSE
  /\ check' = IF rerun THEN "loading" ELSE "idle"
  /\ due' = IF succeeded \/ rerun THEN due ELSE 0
  /\ UNCHANGED inactive

LoadForCheck ==
  /\ Settled
  /\ check = "loading"
  /\ \/ paused /\ EndCheck(FALSE)
     \/ ~ paused /\ check' = "probe" /\ UNCHANGED <<rerun, inactive, guard, due>>
  /\ UNCHANGED <<vault, controller, paused, debounce, excused, spent>>

\* syncFresh, once no run is current: the probe, then the run that applies.
SyncFresh ==
  /\ run = None /\ check \in {"probe", "apply"}
  /\ run' = NewRun(check = "probe", TRUE, TRUE)
  /\ UNCHANGED <<vault, queued, backoff, awaited, foreground, paused, debounce, excused, spent>>

-----------------------------------------------------------------------------
(***************************************************************************)
(* SyncController.run.                                                     *)
(***************************************************************************)

\* Mutant of EndRun: the queued request is started and stays queued.
EndRunStillQueued(inBackoff) ==
  /\ backoff' = inBackoff /\ awaited' = FALSE
  /\ UNCHANGED queued
  /\ run' = IF queued /\ ~ inBackoff THEN NewRun(FALSE, FALSE, FALSE) ELSE None

\* Mutant of EndRun: then for finally, so an automatic run that fails stays the current one.
EndRunThen(inBackoff) ==
  /\ backoff' = inBackoff /\ awaited' = FALSE
  /\ queued' = FALSE
  /\ run' = IF queued /\ ~ inBackoff THEN NewRun(FALSE, FALSE, FALSE)
            ELSE IF inBackoff /\ ~ run.check THEN run ELSE None

\* The finally of sync: the queued request becomes an automatic run.
EndRun(inBackoff) ==
  /\ backoff' = inBackoff /\ awaited' = FALSE
  /\ queued' = FALSE
  /\ run' = IF queued /\ ~ inBackoff THEN NewRun(FALSE, FALSE, FALSE) ELSE None

\* A run that brought the edits up to run.local and run.remote together.
Success(inBackoff) ==
  /\ synced' = run.local /\ seen' = run.remote
  /\ EndRun(inBackoff)
  /\ excused' = ((excused /\ edited > run.local) \/ (queued /\ inBackoff))
  /\ IF run.check THEN EndCheck(TRUE) ELSE UNCHANGED foreground
  /\ UNCHANGED <<edited, noticed, remote, paused, debounce, spent>>

Fails ==
  /\ EndRun(TRUE)
  /\ excused' = TRUE
  /\ IF run.check THEN EndCheck(FALSE) ELSE UNCHANGED foreground
  /\ UNCHANGED <<vault, paused, debounce>>

\* The network, Drive, a hard block or the user's cancel ends the run.
Fail ==
  /\ run # None /\ run.stage # "review"
  /\ Spend("failures")
  /\ Fails

RefusePaused ==
  /\ run # None /\ run.stage = "starting" /\ paused /\ ~ run.manual
  /\ Fails
  /\ UNCHANGED spent

\* The scan and the manifest read.
Scan ==
  /\ run # None /\ run.stage = "starting" /\ (paused => run.manual)
  /\ run' = [run EXCEPT !.stage = "scanned", !.local = edited, !.remote = remote]
  /\ UNCHANGED <<vault, queued, backoff, awaited, foreground, paused, debounce, excused, spent>>

\* A preview stops here.  The check's goes on if it found incoming changes.
Preview ==
  /\ run # None /\ run.stage = "scanned" /\ run.preview
  /\ EndRun(backoff)
  /\ excused' = (excused \/ (queued /\ backoff))
  /\ IF ~ run.check THEN UNCHANGED foreground
     ELSE IF run.remote = seen THEN EndCheck(TRUE)
     ELSE /\ check' = "apply" /\ guard' = TRUE
          /\ UNCHANGED <<rerun, inactive, due>>
  /\ UNCHANGED <<vault, paused, debounce, spent>>

NothingToDo == run.local = synced /\ run.remote = seen

\* The no-op branch leaves nextAllowedAt as it is.
UpToDate ==
  /\ run # None /\ run.stage = "scanned" /\ ~ run.preview /\ NothingToDo
  /\ Success(backoff)

\* requiresSafetyPreview: main.ts takes the guard down for the dialog.
Review ==
  /\ run # None /\ run.stage = "scanned" /\ ~ run.preview /\ ~ NothingToDo
  /\ run' = [run EXCEPT !.stage = "review"]
  /\ guard' = FALSE
  /\ UNCHANGED <<vault, queued, backoff, awaited, check, rerun, inactive, due, paused, debounce,
                 excused, spent>>

\* Mutant of Approve: the guard taken down for the dialog does not come back.
ApproveUnguarded ==
  /\ run # None /\ run.stage = "review"
  /\ run' = [run EXCEPT !.stage = "executing"]
  /\ guard' = FALSE
  /\ UNCHANGED <<vault, queued, backoff, awaited, check, rerun, inactive, due, paused, debounce,
                 excused, spent>>

\* The guard comes back if it was up, which is when the check is applying.
Approve ==
  /\ run # None /\ run.stage = "review"
  /\ run' = [run EXCEPT !.stage = "executing"]
  /\ guard' = (check = "apply")
  /\ UNCHANGED <<vault, queued, backoff, awaited, check, rerun, inactive, due, paused, debounce,
                 excused, spent>>

\* The dialog is dismissed: the guard comes back before the run ends.
Decline ==
  /\ run # None /\ run.stage = "review"
  /\ Spend("failures")
  /\ EndRun(TRUE)
  /\ excused' = TRUE
  /\ IF run.check THEN EndCheck(FALSE)
     ELSE guard' = (check = "apply") /\ UNCHANGED <<check, rerun, inactive, due>>
  /\ UNCHANGED <<vault, paused, debounce>>

Execute ==
  /\ run # None /\ run.stage = "scanned" /\ ~ run.preview /\ ~ NothingToDo
  /\ run' = [run EXCEPT !.stage = "executing"]
  /\ UNCHANGED <<vault, queued, backoff, awaited, foreground, paused, debounce, excused, spent>>

Commit ==
  /\ run # None /\ run.stage = "executing" /\ remote = run.remote
  /\ Success(FALSE)

\* MANIFEST_CONFLICT: another device published after the scan.
RemoteMoved ==
  /\ run # None /\ run.stage = "executing" /\ remote # run.remote
  /\ Fails
  /\ UNCHANGED spent

\* LOCAL_CHANGED: a source of an upload was edited after the scan.  A debounce
\* timer that waited for the run is armed again.
LocalChanged ==
  /\ run # None /\ run.stage = "executing" /\ run.local > synced /\ edited > run.local
  /\ EndRun(FALSE)
  /\ IF run.check THEN EndCheck(FALSE) ELSE UNCHANGED foreground
  /\ debounce' = (debounce \/ awaited)
  /\ UNCHANGED <<vault, paused, excused, spent>>

-----------------------------------------------------------------------------
RunSteps ==
  \/ Scan \/ Preview \/ UpToDate \/ Review \/ Approve \/ Execute
  \/ Commit \/ RemoteMoved \/ LocalChanged \/ RefusePaused

Next ==
  \/ Edit \/ NoticeChange \/ Publish \/ SetPaused \/ ChangeSetting
  \/ \E preview \in BOOLEAN : Command(preview)
  \/ DebounceFires \/ IntervalFires \/ BackoffEnds
  \/ CheckNow \/ Blur \/ Focus \/ LoadForCheck \/ SyncFresh
  \/ RunSteps \/ Fail \/ Decline

Spec == Init /\ [][Next]_vars

\* Every request settles in the end (the code sets no deadline of its own and
\* relies on the platform's), dialogs are answered, timers fire, and event
\* handlers are called.
FairSpec ==
  /\ Spec
  /\ WF_vars(RunSteps) /\ WF_vars(SyncFresh) /\ WF_vars(LoadForCheck)
  /\ WF_vars(NoticeChange) /\ WF_vars(DebounceFires)
  /\ WF_vars(IntervalFires) /\ WF_vars(BackoffEnds)

-----------------------------------------------------------------------------
\* An edit that Drive does not hold is never forgotten.  Its event or its
\* debounce is pending, a request is queued behind the current run, the run
\* still has to scan or has scanned it, or it waits for the next interval
\* because a run failed or auto-sync was paused.
NothingForgotten ==
  edited > synced /\ ~ excused =>
    \/ noticed \/ debounce \/ queued
    \/ run # None /\ ~ run.preview /\ (run.stage = "starting" \/ run.local = edited)

\* Saving a setting, which drops the debounce timer of an edit, is the only way
\* to forget it: whatever runs, previews, reviews and requests do, no edit is
\* forgotten before a setting is saved.
OnlySettingsForget == spent.settings = 0 => NothingForgotten

\* Returning to the foreground brings the device up to date.  When the check
\* has ended, and it neither failed nor found auto-sync paused, everything
\* published before the last activation has been applied, whatever was
\* running or being asked for meanwhile.
ActivationSeesRemote == check = "idle" => seen >= due

\* The guard closes the race between the scan and the application of incoming
\* changes: the user has edited nothing since the check's second run scanned,
\* whether or not a review took the guard down in between.
GuardedRunIsCurrent ==
  run # None /\ run.check /\ ~ run.preview /\ run.stage # "starting" => run.local = edited

\* The editor is never left trapped behind the guard.
GuardLifted == guard ~> ~ guard

\* The device catches up.  Unless auto-sync stays paused, every edit reaches
\* Drive and every published revision this device, whatever failed on the way.
CatchesUp ==
  (<>[] ~ paused) => <>[] (synced = edited /\ seen = remote)
=============================================================================

------------------------- MODULE SyncScheduleProofs -------------------------
(***************************************************************************)
(* The safety properties of SyncSchedule for every value of its bounds.    *)
(* They are proved from one inductive invariant: what the current run has  *)
(* scanned is never older than what is already applied, the guard is up    *)
(* exactly while the check applies (a review apart), and a check that no   *)
(* later request supersedes scans what its request asked for.              *)
(***************************************************************************)
EXTENDS SyncSchedule, TLAPS

Scanned == run # None /\ run.stage # "starting"

\* Runs are single-flight, so nothing is applied behind the scan of a run.
ScanIsFresh ==
  Scanned => /\ run.local \in synced..edited
             /\ run.remote \in seen..remote

\* The guard is up while the check applies, and only then; the review of a
\* run is the one moment at which it is down.
GuardFollowsCheck ==
  /\ guard => check = "apply"
  /\ check = "apply" /\ ~ guard => run # None /\ run.stage = "review"
  /\ run # None /\ run.stage = "review" => ~ guard

\* What the last request asked for is read by the check's own runs, unless
\* another round of the check is due.
CheckAnswersRequest ==
  Scanned /\ run.check /\ ~ rerun => run.remote >= due

Inv ==
  /\ TypeOK
  /\ ScanIsFresh
  /\ GuardFollowsCheck
  /\ CheckAnswersRequest
  /\ ActivationSeesRemote
  /\ GuardedRunIsCurrent

-----------------------------------------------------------------------------
(***************************************************************************)
(* Every action keeps Inv.                                                 *)
(***************************************************************************)

\* The initial state satisfies the invariant.
LEMMA InitInv == Init => Inv
<1> SUFFICES ASSUME Init PROVE Inv
  OBVIOUS
<1>1. CountersOK
  BY BoundsAreNumbers DEF Init, CountersOK
<1>2. FlagsOK /\ RunOK
  BY DEF Init, FlagsOK, RunOK
<1> QED
  BY <1>1, <1>2
  DEF Init, Inv, TypeOK, CountersOK, ScanIsFresh, GuardFollowsCheck, CheckAnswersRequest,
      ActivationSeesRemote, GuardedRunIsCurrent, Scanned

\* A run that begins is a run, and has scanned nothing.
LEMMA NewRunType ==
  ASSUME NEW p \in BOOLEAN, NEW m \in BOOLEAN, NEW c \in BOOLEAN
  PROVE  /\ NewRun(p, m, c) \in Run /\ NewRun(p, m, c) # None
         /\ NewRun(p, m, c).preview = p /\ NewRun(p, m, c).manual = m
         /\ NewRun(p, m, c).check = c /\ NewRun(p, m, c).stage = "starting"
  BY BoundsAreNumbers, NoneIsNoRun DEF NewRun, Run

\* A bound that is spent stays a number.
LEMMA SpendType ==
  ASSUME spent \in [DOMAIN Limit -> Nat], NEW b \in DOMAIN Limit, Spend(b)
  PROVE  spent' \in [DOMAIN Limit -> Nat]
  BY DEF Spend

\* What the user and the other devices do.
LEMMA OutsideStep ==
  ASSUME Inv, Edit \/ NoticeChange \/ Publish \/ SetPaused \/ ChangeSetting
  PROVE  Inv'
<1> USE BoundsAreNumbers, NoneIsNoRun
    DEF Inv, TypeOK, CountersOK, FlagsOK, RunOK, ScanIsFresh, GuardFollowsCheck,
        CheckAnswersRequest, ActivationSeesRemote, GuardedRunIsCurrent, Scanned, vault, controller, foreground
<1>1. CASE Edit
  BY <1>1 DEF Edit, Run
<1>2. CASE NoticeChange
  <2>1. CountersOK'
    BY <1>2 DEF NoticeChange
  <2>2. FlagsOK'
    BY <1>2 DEF NoticeChange
  <2>3. RunOK'
    BY <1>2 DEF NoticeChange
  <2>4. ScanIsFresh'
    BY <1>2 DEF NoticeChange
  <2>5. GuardFollowsCheck'
    BY <1>2 DEF NoticeChange
  <2>6. CheckAnswersRequest'
    BY <1>2 DEF NoticeChange
  <2>7. ActivationSeesRemote'
    BY <1>2 DEF NoticeChange
  <2>8. GuardedRunIsCurrent'
    BY <1>2 DEF NoticeChange
  <2> QED BY <2>1, <2>2, <2>3, <2>4, <2>5, <2>6, <2>7, <2>8
<1>3. CASE Publish
  BY <1>3 DEF Publish, Run
<1>4. CASE SetPaused
  <2>0. spent' \in [DOMAIN Limit -> Nat]
    BY <1>4, SpendType DEF SetPaused, Limit
  <2>1. CountersOK'
    BY <1>4, <2>0 DEF SetPaused
  <2>2. FlagsOK'
    BY <1>4, <2>0 DEF SetPaused
  <2>3. RunOK'
    BY <1>4, <2>0 DEF SetPaused
  <2>4. ScanIsFresh'
    BY <1>4, <2>0 DEF SetPaused
  <2>5. GuardFollowsCheck'
    BY <1>4, <2>0 DEF SetPaused
  <2>6. CheckAnswersRequest'
    BY <1>4, <2>0 DEF SetPaused
  <2>7. ActivationSeesRemote'
    BY <1>4, <2>0 DEF SetPaused
  <2>8. GuardedRunIsCurrent'
    BY <1>4, <2>0 DEF SetPaused
  <2> QED BY <2>1, <2>2, <2>3, <2>4, <2>5, <2>6, <2>7, <2>8
<1>5. CASE ChangeSetting
  <2>1. spent' \in [DOMAIN Limit -> Nat]
    BY <1>5, SpendType DEF ChangeSetting, Limit
  <2>2. CountersOK'
    BY <1>5, <2>1 DEF ChangeSetting
  <2>3. FlagsOK'
    BY <1>5, <2>1 DEF ChangeSetting
  <2>4. RunOK'
    BY <1>5, <2>1 DEF ChangeSetting
  <2>5. ScanIsFresh'
    BY <1>5, <2>1 DEF ChangeSetting
  <2>6. GuardFollowsCheck'
    BY <1>5, <2>1 DEF ChangeSetting
  <2>7. CheckAnswersRequest'
    BY <1>5, <2>1 DEF ChangeSetting
  <2>8. ActivationSeesRemote'
    BY <1>5, <2>1 DEF ChangeSetting
  <2>9. GuardedRunIsCurrent'
    BY <1>5, <2>1 DEF ChangeSetting
  <2> QED BY <2>2, <2>3, <2>4, <2>5, <2>6, <2>7, <2>8, <2>9
<1> QED BY <1>1, <1>2, <1>3, <1>4, <1>5

\* What starts a run, joins one, or is refused.
LEMMA RequestStep ==
  ASSUME Inv, (\E preview \in BOOLEAN : Command(preview)) \/ DebounceFires \/ IntervalFires
                \/ BackoffEnds \/ SyncFresh
  PROVE  Inv'
<1> USE BoundsAreNumbers, NoneIsNoRun
    DEF Inv, TypeOK, CountersOK, FlagsOK, RunOK, ScanIsFresh, GuardFollowsCheck,
        CheckAnswersRequest, ActivationSeesRemote, GuardedRunIsCurrent, Scanned, vault, controller, foreground
<1>1. ASSUME NEW preview \in BOOLEAN, NEW manual \in BOOLEAN, Sync(preview, manual),
             spent' \in [DOMAIN Limit -> Nat], debounce' \in BOOLEAN,
             awaited' = awaited \/ awaited' = (run' # None),
             UNCHANGED <<vault, foreground, paused>>
      PROVE  Inv'
  <2>1. CASE run # None /\ Join
    <3>1. CountersOK'
      BY <1>1, <2>1 DEF Join
    <3>2. FlagsOK'
      BY <1>1, <2>1 DEF Join
    <3>3. RunOK'
      BY <1>1, <2>1 DEF Join
    <3>4. ScanIsFresh'
      BY <1>1, <2>1 DEF Join
    <3>5. GuardFollowsCheck'
      BY <1>1, <2>1 DEF Join
    <3>6. CheckAnswersRequest'
      BY <1>1, <2>1 DEF Join
    <3>7. ActivationSeesRemote'
      BY <1>1, <2>1 DEF Join
    <3>8. GuardedRunIsCurrent'
      BY <1>1, <2>1 DEF Join
    <3> QED BY <3>1, <3>2, <3>3, <3>4, <3>5, <3>6, <3>7, <3>8
  <2>2. CASE run = None /\ Settled /\ run' = NewRun(preview, manual, FALSE) /\ UNCHANGED <<queued, backoff, excused>>
    <3>1. run' \in Run /\ run' # None /\ ~ run'.check /\ run'.stage = "starting"
      BY <1>1, <2>2, NewRunType
    <3>2. CountersOK'
      BY <1>1, <2>2, <3>1 DEF Settled
    <3>3. FlagsOK'
      BY <1>1, <2>2, <3>1 DEF Settled
    <3>4. RunOK'
      BY <1>1, <2>2, <3>1 DEF Settled
    <3>5. ScanIsFresh'
      BY <1>1, <2>2, <3>1 DEF Settled
    <3>6. GuardFollowsCheck'
      BY <1>1, <2>2, <3>1 DEF Settled
    <3>7. CheckAnswersRequest'
      BY <1>1, <2>2, <3>1 DEF Settled
    <3>8. ActivationSeesRemote'
      BY <1>1, <2>2, <3>1 DEF Settled
    <3>9. GuardedRunIsCurrent'
      BY <1>1, <2>2, <3>1 DEF Settled
    <3> QED BY <3>2, <3>3, <3>4, <3>5, <3>6, <3>7, <3>8, <3>9
  <2>3. CASE run = None /\ excused' = TRUE /\ UNCHANGED <<run, queued, backoff>>
    BY <1>1, <2>3
  <2> QED BY <1>1, <2>1, <2>2, <2>3 DEF Sync
<1>2. ASSUME NEW preview \in BOOLEAN, Command(preview) PROVE Inv'
  <2>1. spent' \in [DOMAIN Limit -> Nat]
    BY <1>2, SpendType DEF Command, Limit
  <2> QED BY <1>1, <1>2, <2>1 DEF Command
<1>3. CASE DebounceFires
  BY <1>1, <1>3 DEF DebounceFires
<1>4. CASE IntervalFires
  <2>1. spent' \in [DOMAIN Limit -> Nat]
    BY <1>4, SpendType DEF IntervalFires, Limit
  <2> QED BY <1>1, <1>4, <2>1 DEF IntervalFires
<1>5. CASE BackoffEnds
  <2>1. CountersOK'
    BY <1>5 DEF BackoffEnds
  <2>2. FlagsOK'
    BY <1>5 DEF BackoffEnds
  <2>3. RunOK'
    BY <1>5 DEF BackoffEnds
  <2>4. ScanIsFresh'
    BY <1>5 DEF BackoffEnds
  <2>5. GuardFollowsCheck'
    BY <1>5 DEF BackoffEnds
  <2>6. CheckAnswersRequest'
    BY <1>5 DEF BackoffEnds
  <2>7. ActivationSeesRemote'
    BY <1>5 DEF BackoffEnds
  <2>8. GuardedRunIsCurrent'
    BY <1>5 DEF BackoffEnds
  <2> QED BY <2>1, <2>2, <2>3, <2>4, <2>5, <2>6, <2>7, <2>8
<1>6. CASE SyncFresh
  BY <1>6, NewRunType DEF SyncFresh
<1> QED BY <1>2, <1>3, <1>4, <1>5, <1>6

\* The coordinator's own steps.
LEMMA CheckStep ==
  ASSUME Inv, CheckNow \/ Blur \/ Focus \/ LoadForCheck
  PROVE  Inv'
<1> USE BoundsAreNumbers, NoneIsNoRun
    DEF Inv, TypeOK, CountersOK, FlagsOK, RunOK, ScanIsFresh, GuardFollowsCheck,
        CheckAnswersRequest, ActivationSeesRemote, GuardedRunIsCurrent, Scanned, vault, controller, foreground
<1>1. CASE CheckNow
  <2>1. spent' \in [DOMAIN Limit -> Nat]
    BY <1>1, SpendType DEF CheckNow, Limit
  <2>2. CountersOK'
    BY <1>1, <2>1 DEF CheckNow, RequestCheck, Settled
  <2>3. FlagsOK'
    BY <1>1, <2>1 DEF CheckNow, RequestCheck, Settled
  <2>4. RunOK'
    BY <1>1, <2>1 DEF CheckNow, RequestCheck, Settled
  <2>5. ScanIsFresh'
    BY <1>1, <2>1 DEF CheckNow, RequestCheck, Settled
  <2>6. GuardFollowsCheck'
    BY <1>1, <2>1 DEF CheckNow, RequestCheck, Settled
  <2>7. CheckAnswersRequest'
    BY <1>1, <2>1 DEF CheckNow, RequestCheck, Settled
  <2>8. ActivationSeesRemote'
    BY <1>1, <2>1 DEF CheckNow, RequestCheck, Settled
  <2>9. GuardedRunIsCurrent'
    BY <1>1, <2>1 DEF CheckNow, RequestCheck, Settled
  <2> QED BY <2>2, <2>3, <2>4, <2>5, <2>6, <2>7, <2>8, <2>9
<1>2. CASE Blur
  BY <1>2 DEF Blur
<1>3. CASE Focus
  <2>1. spent' \in [DOMAIN Limit -> Nat]
    BY <1>3, SpendType DEF Focus, Limit
  <2>2. CountersOK'
    BY <1>3, <2>1 DEF Focus, RequestCheck, Settled
  <2>3. FlagsOK'
    BY <1>3, <2>1 DEF Focus, RequestCheck, Settled
  <2>4. RunOK'
    BY <1>3, <2>1 DEF Focus, RequestCheck, Settled
  <2>5. ScanIsFresh'
    BY <1>3, <2>1 DEF Focus, RequestCheck, Settled
  <2>6. GuardFollowsCheck'
    BY <1>3, <2>1 DEF Focus, RequestCheck, Settled
  <2>7. CheckAnswersRequest'
    BY <1>3, <2>1 DEF Focus, RequestCheck, Settled
  <2>8. ActivationSeesRemote'
    BY <1>3, <2>1 DEF Focus, RequestCheck, Settled
  <2>9. GuardedRunIsCurrent'
    BY <1>3, <2>1 DEF Focus, RequestCheck, Settled
  <2> QED BY <2>2, <2>3, <2>4, <2>5, <2>6, <2>7, <2>8, <2>9
<1>4. CASE LoadForCheck
  <2>1. CountersOK'
    BY <1>4 DEF LoadForCheck, EndCheck, Settled
  <2>2. FlagsOK'
    BY <1>4 DEF LoadForCheck, EndCheck, Settled
  <2>3. RunOK'
    BY <1>4 DEF LoadForCheck, EndCheck, Settled
  <2>4. ScanIsFresh'
    BY <1>4 DEF LoadForCheck, EndCheck, Settled
  <2>5. GuardFollowsCheck'
    BY <1>4 DEF LoadForCheck, EndCheck, Settled
  <2>6. CheckAnswersRequest'
    BY <1>4 DEF LoadForCheck, EndCheck, Settled
  <2>7. ActivationSeesRemote'
    BY <1>4 DEF LoadForCheck, EndCheck, Settled
  <2>8. GuardedRunIsCurrent'
    BY <1>4 DEF LoadForCheck, EndCheck, Settled
  <2> QED BY <2>1, <2>2, <2>3, <2>4, <2>5, <2>6, <2>7, <2>8
<1> QED BY <1>1, <1>2, <1>3, <1>4

\* When a run ends, the one that takes its place has scanned nothing.
LEMMA EndRunType ==
  ASSUME NEW b \in BOOLEAN, EndRun(b)
  PROVE  /\ run' \in Run \cup {None} /\ queued' = FALSE /\ backoff' = b /\ awaited' = FALSE
         /\ run' # None => ~ run'.check /\ run'.stage = "starting"
  BY NewRunType DEF EndRun

\* A run that succeeds applies what it scanned.
LEMMA SuccessStep ==
  ASSUME Inv, run # None, run.stage \in {"scanned", "executing"}, ~ run.preview,
         NEW b \in BOOLEAN, Success(b)
  PROVE  Inv'
<1> USE BoundsAreNumbers, NoneIsNoRun
    DEF Inv, TypeOK, CountersOK, FlagsOK, RunOK, ScanIsFresh, GuardFollowsCheck,
        CheckAnswersRequest, ActivationSeesRemote, GuardedRunIsCurrent, Scanned, vault,
        controller, foreground
<1>1. /\ run' \in Run \cup {None} /\ queued' = FALSE /\ backoff' = b /\ awaited' = FALSE
      /\ run' # None => ~ run'.check /\ run'.stage = "starting"
  BY EndRunType DEF Success
<1>2. /\ run \in Run /\ excused' \in BOOLEAN
      /\ synced' = run.local /\ seen' = run.remote
      /\ UNCHANGED <<edited, noticed, remote, paused, debounce, spent>>
  BY DEF Success
<1>3. CASE run.check /\ EndCheck(TRUE)
  <2>1. CountersOK'
    BY <1>1, <1>2, <1>3 DEF EndCheck
  <2>2. FlagsOK'
    BY <1>1, <1>2, <1>3 DEF EndCheck
  <2>3. RunOK'
    BY <1>1, <1>2, <1>3 DEF EndCheck
  <2>4. ScanIsFresh'
    BY <1>1, <1>2, <1>3 DEF EndCheck
  <2>5. GuardFollowsCheck'
    BY <1>1, <1>2, <1>3 DEF EndCheck
  <2>6. CheckAnswersRequest'
    BY <1>1, <1>2, <1>3 DEF EndCheck
  <2>7. ActivationSeesRemote'
    BY <1>1, <1>2, <1>3 DEF EndCheck
  <2>8. GuardedRunIsCurrent'
    BY <1>1, <1>2, <1>3 DEF EndCheck
  <2> QED BY <2>1, <2>2, <2>3, <2>4, <2>5, <2>6, <2>7, <2>8
<1>4. CASE ~ run.check /\ UNCHANGED foreground
  <2>1. CountersOK'
    BY <1>1, <1>2, <1>4
  <2>2. FlagsOK'
    BY <1>1, <1>2, <1>4
  <2>3. RunOK'
    BY <1>1, <1>2, <1>4
  <2>4. ScanIsFresh'
    BY <1>1, <1>2, <1>4
  <2>5. GuardFollowsCheck'
    BY <1>1, <1>2, <1>4
  <2>6. CheckAnswersRequest'
    BY <1>1, <1>2, <1>4
  <2>7. ActivationSeesRemote'
    BY <1>1, <1>2, <1>4
  <2>8. GuardedRunIsCurrent'
    BY <1>1, <1>2, <1>4
  <2> QED BY <2>1, <2>2, <2>3, <2>4, <2>5, <2>6, <2>7, <2>8
<1> QED BY <1>3, <1>4 DEF Success

\* A run that ends without one applies nothing, and takes the guard down if it
\* was the check's.
LEMMA AbandonStep ==
  ASSUME Inv, run # None, run.stage # "review", NEW b \in BOOLEAN, EndRun(b),
         excused' \in BOOLEAN, spent' \in [DOMAIN Limit -> Nat],
         IF run.check THEN EndCheck(FALSE) ELSE UNCHANGED foreground,
         debounce' \in BOOLEAN, UNCHANGED <<vault, paused>>
  PROVE  Inv'
<1> USE BoundsAreNumbers, NoneIsNoRun
    DEF Inv, TypeOK, CountersOK, FlagsOK, RunOK, ScanIsFresh, GuardFollowsCheck,
        CheckAnswersRequest, ActivationSeesRemote, GuardedRunIsCurrent, Scanned, vault,
        controller, foreground
<1>1. /\ run' \in Run \cup {None} /\ queued' = FALSE /\ backoff' = b /\ awaited' = FALSE
      /\ run' # None => ~ run'.check /\ run'.stage = "starting"
  BY EndRunType
<1>3. CASE run.check /\ EndCheck(FALSE)
  <2>1. CountersOK'
    BY <1>1, <1>3 DEF EndCheck
  <2>2. FlagsOK'
    BY <1>1, <1>3 DEF EndCheck
  <2>3. RunOK'
    BY <1>1, <1>3 DEF EndCheck
  <2>4. ScanIsFresh'
    BY <1>1, <1>3 DEF EndCheck
  <2>5. GuardFollowsCheck'
    BY <1>1, <1>3 DEF EndCheck
  <2>6. CheckAnswersRequest'
    BY <1>1, <1>3 DEF EndCheck
  <2>7. ActivationSeesRemote'
    BY <1>1, <1>3 DEF EndCheck
  <2>8. GuardedRunIsCurrent'
    BY <1>1, <1>3 DEF EndCheck
  <2> QED BY <2>1, <2>2, <2>3, <2>4, <2>5, <2>6, <2>7, <2>8
<1>4. CASE ~ run.check /\ UNCHANGED foreground
  <2>1. CountersOK'
    BY <1>1, <1>4
  <2>2. FlagsOK'
    BY <1>1, <1>4
  <2>3. RunOK'
    BY <1>1, <1>4
  <2>4. ScanIsFresh'
    BY <1>1, <1>4
  <2>5. GuardFollowsCheck'
    BY <1>1, <1>4
  <2>6. CheckAnswersRequest'
    BY <1>1, <1>4
  <2>7. ActivationSeesRemote'
    BY <1>1, <1>4
  <2>8. GuardedRunIsCurrent'
    BY <1>1, <1>4
  <2> QED BY <2>1, <2>2, <2>3, <2>4, <2>5, <2>6, <2>7, <2>8
<1> QED BY <1>3, <1>4

\* The ends of a run that applies nothing.
LEMMA FailStep ==
  ASSUME Inv, Fail \/ RefusePaused \/ RemoteMoved \/ LocalChanged
  PROVE  Inv'
<1>1. CASE Fail
  <2>1. spent' \in [DOMAIN Limit -> Nat]
    BY <1>1, SpendType DEF Fail, Limit, Inv, TypeOK, CountersOK
  <2> QED BY <1>1, <2>1, AbandonStep DEF Fail, Fails, Inv, TypeOK, FlagsOK
<1>2. CASE RefusePaused
  BY <1>2, AbandonStep DEF RefusePaused, Fails, Inv, TypeOK, CountersOK, FlagsOK
<1>3. CASE RemoteMoved
  BY <1>3, AbandonStep DEF RemoteMoved, Fails, Inv, TypeOK, CountersOK, FlagsOK
<1>4. CASE LocalChanged
  BY <1>4, AbandonStep DEF LocalChanged, Inv, TypeOK, CountersOK, FlagsOK
<1> QED BY <1>1, <1>2, <1>3, <1>4

\* The steps of a run.
LEMMA RunStep ==
  ASSUME Inv, Scan \/ Preview \/ UpToDate \/ Review \/ Approve \/ Decline \/ Execute \/ Commit
  PROVE  Inv'
<1> USE BoundsAreNumbers, NoneIsNoRun
    DEF Inv, TypeOK, CountersOK, FlagsOK, RunOK, ScanIsFresh, GuardFollowsCheck,
        CheckAnswersRequest, ActivationSeesRemote, GuardedRunIsCurrent, Scanned, vault,
        controller, foreground
<1>1. CASE Scan
  <2>0. /\ run' \in Run /\ run' # None /\ run'.local = edited /\ run'.remote = remote
        /\ run'.stage = "scanned" /\ run'.check = run.check /\ run'.preview = run.preview
    BY <1>1 DEF Scan, Run
  <2>1. CountersOK'
    BY <1>1, <2>0 DEF Scan
  <2>2. FlagsOK'
    BY <1>1, <2>0 DEF Scan
  <2>3. RunOK'
    BY <1>1, <2>0 DEF Scan
  <2>4. ScanIsFresh'
    BY <1>1, <2>0 DEF Scan
  <2>5. GuardFollowsCheck'
    BY <1>1, <2>0 DEF Scan
  <2>6. CheckAnswersRequest'
    BY <1>1, <2>0 DEF Scan
  <2>7. ActivationSeesRemote'
    BY <1>1, <2>0 DEF Scan
  <2>8. GuardedRunIsCurrent'
    BY <1>1, <2>0 DEF Scan
  <2> QED BY <2>1, <2>2, <2>3, <2>4, <2>5, <2>6, <2>7, <2>8
<1>2. CASE Preview
  <2>0. /\ run' \in Run \cup {None} /\ queued' = FALSE /\ backoff' \in BOOLEAN /\ awaited' = FALSE
        /\ run' # None => ~ run'.check /\ run'.stage = "starting"
    BY <1>2, EndRunType DEF Preview
  <2>1. CountersOK'
    BY <1>2, <2>0 DEF Preview, EndCheck, Run
  <2>2. FlagsOK'
    BY <1>2, <2>0 DEF Preview, EndCheck, Run
  <2>3. RunOK'
    BY <1>2, <2>0 DEF Preview, EndCheck, Run
  <2>4. ScanIsFresh'
    BY <1>2, <2>0 DEF Preview, EndCheck, Run
  <2>5. GuardFollowsCheck'
    BY <1>2, <2>0 DEF Preview, EndCheck, Run
  <2>6. CheckAnswersRequest'
    BY <1>2, <2>0 DEF Preview, EndCheck, Run
  <2>7. ActivationSeesRemote'
    BY <1>2, <2>0 DEF Preview, EndCheck, Run
  <2>8. GuardedRunIsCurrent'
    BY <1>2, <2>0 DEF Preview, EndCheck, Run
  <2> QED BY <2>1, <2>2, <2>3, <2>4, <2>5, <2>6, <2>7, <2>8
<1>3. CASE UpToDate
  BY <1>3, SuccessStep DEF UpToDate
<1>4. CASE Review
  <2>0. /\ run' \in Run /\ run' # None /\ run'.local = run.local /\ run'.remote = run.remote
        /\ run'.stage = "review" /\ run'.check = run.check /\ run'.preview = run.preview
    BY <1>4 DEF Review, Run
  <2>1. CountersOK'
    BY <1>4, <2>0 DEF Review
  <2>2. FlagsOK'
    BY <1>4, <2>0 DEF Review
  <2>3. RunOK'
    BY <1>4, <2>0 DEF Review
  <2>4. ScanIsFresh'
    BY <1>4, <2>0 DEF Review
  <2>5. GuardFollowsCheck'
    BY <1>4, <2>0 DEF Review
  <2>6. CheckAnswersRequest'
    BY <1>4, <2>0 DEF Review
  <2>7. ActivationSeesRemote'
    BY <1>4, <2>0 DEF Review
  <2>8. GuardedRunIsCurrent'
    BY <1>4, <2>0 DEF Review
  <2> QED BY <2>1, <2>2, <2>3, <2>4, <2>5, <2>6, <2>7, <2>8
<1>5. CASE Approve
  <2>0. /\ run' \in Run /\ run' # None /\ run'.local = run.local /\ run'.remote = run.remote
        /\ run'.stage = "executing" /\ run'.check = run.check /\ run'.preview = run.preview
    BY <1>5 DEF Approve, Run
  <2>1. CountersOK'
    BY <1>5, <2>0 DEF Approve
  <2>2. FlagsOK'
    BY <1>5, <2>0 DEF Approve
  <2>3. RunOK'
    BY <1>5, <2>0 DEF Approve
  <2>4. ScanIsFresh'
    BY <1>5, <2>0 DEF Approve
  <2>5. GuardFollowsCheck'
    BY <1>5, <2>0 DEF Approve
  <2>6. CheckAnswersRequest'
    BY <1>5, <2>0 DEF Approve
  <2>7. ActivationSeesRemote'
    BY <1>5, <2>0 DEF Approve
  <2>8. GuardedRunIsCurrent'
    BY <1>5, <2>0 DEF Approve
  <2> QED BY <2>1, <2>2, <2>3, <2>4, <2>5, <2>6, <2>7, <2>8
<1>6. CASE Decline
  <2>0. /\ run' \in Run \cup {None} /\ queued' = FALSE /\ backoff' \in BOOLEAN /\ awaited' = FALSE
        /\ run' # None => ~ run'.check /\ run'.stage = "starting"
    BY <1>6, EndRunType DEF Decline
  <2>9. spent' \in [DOMAIN Limit -> Nat]
    BY <1>6, SpendType DEF Decline, Limit
  <2>1. CountersOK'
    BY <1>6, <2>0, <2>9 DEF Decline, EndCheck
  <2>2. FlagsOK'
    BY <1>6, <2>0, <2>9 DEF Decline, EndCheck
  <2>3. RunOK'
    BY <1>6, <2>0, <2>9 DEF Decline, EndCheck
  <2>4. ScanIsFresh'
    BY <1>6, <2>0, <2>9 DEF Decline, EndCheck
  <2>5. GuardFollowsCheck'
    BY <1>6, <2>0, <2>9 DEF Decline, EndCheck
  <2>6. CheckAnswersRequest'
    BY <1>6, <2>0, <2>9 DEF Decline, EndCheck
  <2>7. ActivationSeesRemote'
    BY <1>6, <2>0, <2>9 DEF Decline, EndCheck
  <2>8. GuardedRunIsCurrent'
    BY <1>6, <2>0, <2>9 DEF Decline, EndCheck
  <2> QED BY <2>1, <2>2, <2>3, <2>4, <2>5, <2>6, <2>7, <2>8
<1>7. CASE Execute
  <2>0. /\ run' \in Run /\ run' # None /\ run'.local = run.local /\ run'.remote = run.remote
        /\ run'.stage = "executing" /\ run'.check = run.check /\ run'.preview = run.preview
    BY <1>7 DEF Execute, Run
  <2>1. CountersOK'
    BY <1>7, <2>0 DEF Execute
  <2>2. FlagsOK'
    BY <1>7, <2>0 DEF Execute
  <2>3. RunOK'
    BY <1>7, <2>0 DEF Execute
  <2>4. ScanIsFresh'
    BY <1>7, <2>0 DEF Execute
  <2>5. GuardFollowsCheck'
    BY <1>7, <2>0 DEF Execute
  <2>6. CheckAnswersRequest'
    BY <1>7, <2>0 DEF Execute
  <2>7. ActivationSeesRemote'
    BY <1>7, <2>0 DEF Execute
  <2>8. GuardedRunIsCurrent'
    BY <1>7, <2>0 DEF Execute
  <2> QED BY <2>1, <2>2, <2>3, <2>4, <2>5, <2>6, <2>7, <2>8
<1>8. CASE Commit
  BY <1>8, SuccessStep DEF Commit
<1> QED BY <1>1, <1>2, <1>3, <1>4, <1>5, <1>6, <1>7, <1>8

\* Inv holds in every state the device can reach, whatever the bounds.
THEOREM Invariance == Spec => []Inv
<1>1. Inv /\ [Next]_vars => Inv'
  <2> SUFFICES ASSUME Inv, [Next]_vars PROVE Inv'
    OBVIOUS
  <2>1. CASE Next
    BY <2>1, OutsideStep, RequestStep, CheckStep, FailStep, RunStep DEF Next, RunSteps
  <2>2. CASE UNCHANGED vars
    BY <2>2
    DEF vars, vault, controller, foreground, Inv, TypeOK, CountersOK, FlagsOK, RunOK,
        ScanIsFresh, GuardFollowsCheck, CheckAnswersRequest, ActivationSeesRemote,
        GuardedRunIsCurrent, Scanned
  <2> QED BY <2>1, <2>2
<1> QED BY InitInv, <1>1, PTL DEF Spec

\* Every variable keeps its type.
THEOREM TypeCorrect == Spec => []TypeOK
<1>1. Inv => TypeOK
  BY DEF Inv
<1> QED BY Invariance, <1>1, PTL

\* Coming back to the foreground brings the device up to date, whatever runs,
\* timers and commands the check meets on its way: they are all single-flight
\* with it, and a request made during a check makes it go round again.
THEOREM ActivationSeesRemoteHolds == Spec => []ActivationSeesRemote
<1>1. Inv => ActivationSeesRemote
  BY DEF Inv
<1> QED BY Invariance, <1>1, PTL

\* Behind the guard nothing the check's second run scanned is edited before it
\* is applied, through any number of reviews.
THEOREM GuardedRunIsCurrentHolds == Spec => []GuardedRunIsCurrent
<1>1. Inv => GuardedRunIsCurrent
  BY DEF Inv
<1> QED BY Invariance, <1>1, PTL

-----------------------------------------------------------------------------
(***************************************************************************)
(* Until a setting is saved, no edit is forgotten.                         *)
(***************************************************************************)

\* That a setting was saved is not taken back.
LEMMA SavedStaysSaved ==
  ASSUME Inv, Next, spent.settings # 0 PROVE spent'.settings # 0
<1>1. /\ spent \in [DOMAIN Limit -> Nat]
      /\ DOMAIN Limit = {"failures", "pauses", "settings", "requests", "overlaps"}
  BY DEF Inv, TypeOK, CountersOK, Limit
<1>2. ASSUME NEW b \in DOMAIN Limit, Spend(b) PROVE spent'.settings # 0
  BY <1>1, <1>2 DEF Spend
<1> DEFINE Kept == UNCHANGED spent \/ \E b \in DOMAIN Limit : Spend(b)
<1>3. Edit \/ NoticeChange \/ Publish \/ SetPaused \/ ChangeSetting => Kept
  BY <1>1 DEF Edit, NoticeChange, Publish, SetPaused, ChangeSetting
<1>4. (\E preview \in BOOLEAN : Command(preview)) => Kept
  BY <1>1 DEF Command
<1>5. DebounceFires \/ IntervalFires \/ BackoffEnds => Kept
  BY <1>1 DEF DebounceFires, IntervalFires, BackoffEnds
<1>6. CheckNow \/ Blur \/ Focus \/ LoadForCheck \/ SyncFresh => Kept
  BY <1>1 DEF CheckNow, Blur, Focus, LoadForCheck, SyncFresh
<1>7. Scan \/ Preview \/ UpToDate \/ Review \/ Approve => Kept
  <2>1. Scan => Kept
    BY <1>1, Zenon DEF Scan
  <2>2. Preview => Kept
    BY <1>1, Zenon DEF Preview
  <2>3. UpToDate => Kept
    BY <1>1, Zenon DEF UpToDate, Success
  <2>4. Review => Kept
    BY <1>1, Zenon DEF Review
  <2>5. Approve => Kept
    BY <1>1, Zenon DEF Approve
  <2> QED BY <2>1, <2>2, <2>3, <2>4, <2>5
<1>8. Decline \/ Execute \/ Commit \/ RemoteMoved \/ LocalChanged => Kept
  <2>1. Decline => Kept
    BY <1>1, Zenon DEF Decline
  <2>2. Execute => Kept
    BY <1>1, Zenon DEF Execute
  <2>3. Commit => Kept
    BY <1>1, Zenon DEF Commit, Success
  <2>4. RemoteMoved => Kept
    BY <1>1, Zenon DEF RemoteMoved
  <2>5. LocalChanged => Kept
    BY <1>1, Zenon DEF LocalChanged
  <2> QED BY <2>1, <2>2, <2>3, <2>4, <2>5
<1>9. RefusePaused \/ Fail => Kept
  BY <1>1 DEF RefusePaused, Fail
<1> QED
  BY <1>2, <1>3, <1>4, <1>5, <1>6, <1>7, <1>8, <1>9 DEF Next, RunSteps

\* A change of another setting clears the debounce timer (the run
\* MCSyncScheduleSettings); every other step passes a pending edit on.
LEMMA RememberStep ==
  ASSUME spent'.settings = 0, Inv, NothingForgotten, Next
  PROVE  NothingForgotten'
<1> USE BoundsAreNumbers, NoneIsNoRun
    DEF Inv, TypeOK, CountersOK, FlagsOK, RunOK, ScanIsFresh, NothingForgotten, Scanned,
        vault, controller, foreground
<1>0. ASSUME Sync(FALSE, FALSE)
      PROVE  excused' \/ queued' \/ (run' # None /\ ~ run'.preview /\ run'.stage = "starting")
  <2>1. CASE Join
    BY <2>1 DEF Join
  <2>2. CASE run' = NewRun(FALSE, FALSE, FALSE)
    BY <2>2, NewRunType
  <2> QED BY <1>0, <2>1, <2>2 DEF Sync
<1>c. ASSUME NEW preview \in BOOLEAN, Command(preview) PROVE NothingForgotten'
  <2>1. UNCHANGED <<edited, noticed, synced, debounce>>
    BY <1>c DEF Command
  <2>2. CASE Join
    BY <2>1, <2>2 DEF Join
  <2>3. CASE run = None /\ (excused => excused')
    BY <2>1, <2>3
  <2>4. Sync(preview, TRUE)
    BY <1>c DEF Command
  <2>5. Join \/ (run = None /\ (excused => excused'))
    BY <2>4, Zenon DEF Sync
  <2> QED BY <2>2, <2>3, <2>5
<1>e. ASSUME NEW b \in BOOLEAN, EndRun(b), queued, ~ b
      PROVE  run' # None /\ ~ run'.preview /\ run'.stage = "starting"
  BY <1>e, NewRunType DEF EndRun
<1>s. ASSUME NEW b \in BOOLEAN, Success(b), run \in Run, run.stage # "starting"
      PROVE  NothingForgotten'
  <2>1. excused' = ((excused /\ edited > run.local) \/ (queued /\ b))
    BY <1>s DEF Success
  <2>2. /\ synced' = run.local
        /\ UNCHANGED <<edited, noticed, debounce>>
    BY <1>s DEF Success
  <2>3. ASSUME queued, ~ b PROVE run' # None /\ ~ run'.preview /\ run'.stage = "starting"
    BY <1>s, <2>3, <1>e DEF Success
  <2> QED BY <1>s, <2>1, <2>2, <2>3 DEF Run
<1>1. CASE Edit
  BY <1>1 DEF Edit
<1>2. CASE NoticeChange
  BY <1>2 DEF NoticeChange
<1>3. CASE Publish
  BY <1>3 DEF Publish
<1>4. CASE SetPaused
  BY <1>4 DEF SetPaused
<1>5. CASE ChangeSetting
  <2>1. "settings" \in DOMAIN spent /\ spent["settings"] \in Nat
    BY DEF Limit
  <2>2. spent'["settings"] = spent["settings"] + 1
    BY <1>5, <2>1 DEF ChangeSetting, Spend
  <2> QED BY <2>1, <2>2
<1>6. CASE DebounceFires
  BY <1>6, <1>0 DEF DebounceFires
<1>7. CASE IntervalFires
  BY <1>7, <1>0 DEF IntervalFires
<1>8. CASE BackoffEnds
  BY <1>8 DEF BackoffEnds
<1>9. CASE CheckNow
  BY <1>9 DEF CheckNow
<1>10. CASE Blur
  BY <1>10 DEF Blur
<1>11. CASE Focus
  BY <1>11 DEF Focus
<1>12. CASE LoadForCheck
  BY <1>12 DEF LoadForCheck
<1>13. CASE SyncFresh
  BY <1>13, NewRunType DEF SyncFresh
<1>14. CASE Scan
  BY <1>14 DEF Scan, Run
<1>15. CASE Preview
  BY <1>15, <1>e DEF Preview
<1>16. CASE UpToDate
  BY <1>16, <1>s DEF UpToDate
<1>17. CASE Review
  BY <1>17 DEF Review, Run
<1>18. CASE Approve
  BY <1>18 DEF Approve, Run
<1>19. CASE Decline
  BY <1>19 DEF Decline
<1>20. CASE Execute
  BY <1>20 DEF Execute, Run
<1>21. CASE Commit
  BY <1>21, <1>s DEF Commit
<1>22. CASE RemoteMoved
  BY <1>22 DEF RemoteMoved, Fails
<1>23. CASE LocalChanged
  <2>1. /\ run \in Run /\ run.stage = "executing" /\ edited > run.local
        /\ EndRun(FALSE) /\ UNCHANGED <<edited, noticed, synced, excused>>
        /\ debounce => debounce'
    BY <1>23, Zenon DEF LocalChanged
  <2>2. CASE queued
    BY <2>1, <2>2, <1>e
  <2>3. CASE ~ queued
    <3>1. edited \in Nat /\ run.local \in Nat
      BY <2>1 DEF Run
    <3> QED BY <2>1, <2>3, <3>1
  <2> QED BY <2>2, <2>3
<1>24. CASE RefusePaused
  BY <1>24 DEF RefusePaused, Fails
<1>25. CASE Fail
  BY <1>25 DEF Fail, Fails
<1> QED
  BY <1>c, <1>1, <1>2, <1>3, <1>4, <1>5, <1>6, <1>7, <1>8, <1>9, <1>10, <1>11, <1>12,
     <1>13, <1>14, <1>15, <1>16, <1>17, <1>18, <1>19, <1>20, <1>21, <1>22, <1>23, <1>24,
     <1>25 DEF Next, RunSteps

\* Until a setting is saved, an edit Drive does not hold always has a run, a
\* request, a timer or an event handler on its way, unless a run failed or
\* auto-sync was paused.
THEOREM OnlySettingsForgetHolds == Spec => []OnlySettingsForget
<1>1. Init => OnlySettingsForget
  BY DEF Init, OnlySettingsForget, NothingForgotten
<1>2. Inv /\ OnlySettingsForget /\ [Next]_vars => OnlySettingsForget'
  <2> SUFFICES ASSUME Inv, OnlySettingsForget, [Next]_vars, spent'.settings = 0
               PROVE  NothingForgotten'
    BY DEF OnlySettingsForget
  <2>1. CASE UNCHANGED vars
    BY <2>1 DEF vars, vault, controller, OnlySettingsForget, NothingForgotten
  <2>2. CASE Next
    <3>1. spent.settings = 0
      BY <2>2, SavedStaysSaved
    <3> QED BY <2>2, <3>1, RememberStep DEF OnlySettingsForget
  <2> QED BY <2>1, <2>2
<1> QED BY Invariance, <1>1, <1>2, PTL DEF Spec
=============================================================================

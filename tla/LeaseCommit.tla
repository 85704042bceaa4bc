----------------------------- MODULE LeaseCommit -----------------------------
(***************************************************************************)
(* The commit protocol of src/src/sync/executor.ts (step 8 of a            *)
(* synchronization): LeaseManager.acquire, ManifestStore.commit and        *)
(* LeaseHandle.release over the app-data store, for several devices that   *)
(* share one vault.                                                        *)
(*                                                                         *)
(* Every request is a step of its own.  AppDataStore.get is a list request *)
(* followed by a download, so each read of the lease is two steps.  A      *)
(* request can fail, and one that changes a file (a lease write, a lease   *)
(* deletion, a manifest write) stays on its way for ever: rawRequest       *)
(* repeats it after a lost answer, and an attempt can take effect at any   *)
(* later time, more than once, after another attempt was answered, after   *)
(* its sender gave up or crashed.  Devices crash at any step and restart   *)
(* with what their local state file holds.                                 *)
(*                                                                         *)
(* The code cannot keep a vault safe from every such request, so the       *)
(* history variable late records when one of two kinds took effect: a      *)
(* manifest write whose sender has lost its lease record meanwhile and     *)
(* last looked at it Settle or more ticks ago, and a lease write that      *)
(* comes once more after it was acknowledged, while its sender counts on   *)
(* the record.  What the protocol promises, it promises until then.        *)
(***************************************************************************)
EXTENDS Integers

CONSTANTS
  Device,        \* the devices that synchronize the vault
  FileId,        \* ids that Drive gives to lease files (each id once)
  None,          \* no file, no record
  Unlisted,      \* the list request of the current read was not made yet
  Ttl,           \* lifetime of a lease, in ticks (30 s in the code)
  Settle,        \* ticks between a lease write and its verification (100 ms)
  Skew,          \* Skew[d]: how far the clock of d runs ahead
  MaxAttempts,   \* bound: lease records a device writes
  MaxTime        \* bound: ticks of real time

Token == Device \X Nat
Lease == [token : Token, expires : Nat]
Manifest == [rev : Nat, id : Token \cup {None}, base : Token \cup {None}]
LeaseWrite == [lease : Lease, file : FileId \cup {None}]
Put == [man : Manifest, since : Nat]

ASSUME NoneAssumption ==
  /\ None \notin FileId \cup Lease \cup Token
  /\ Unlisted \notin FileId \cup {None}
ASSUME TimeAssumption ==
  /\ {Ttl, Settle, MaxAttempts, MaxTime} \subseteq Nat
  /\ Skew \in [Device -> Nat]

VARIABLES
  now,        \* real time
  lease,      \* lease[i]: the lease record in file i, or None
  used,       \* ids Drive has given out
  manifest,   \* the remote manifest
  wire,       \* manifest writes that were sent, and when their senders last
              \* listed the lease files
  requests,   \* lease writes that were sent: record, and file to update
  deletions,  \* files whose deletion was sent
  pc,         \* pc[d]: the step device d is at
  listed,     \* listed[d]: file found by the list request, None, or Unlisted
  listedAt,   \* listedAt[d]: when that list request was answered
  serial,     \* serial[d]: number of lease tokens d has drawn
  expires,    \* expires[d]: expiry of the lease record d is writing
  ready,      \* ready[d]: when the settle timer of d fires
  plan,       \* plan[d]: the remote manifest d planned on
  confirmed,  \* confirmed[d]: commit returned normally
  saved,      \* saved[d]: base manifest in the local state file of d
  gone,       \* history: tokens that were in a lease file and are no longer
  late        \* history: a write that was too late has taken effect

leaseVars == <<lease, used, requests, deletions, gone>>
remoteVars == <<leaseVars, manifest, wire, late>>
memory == <<expires, ready, plan, confirmed>>
deviceVars == <<pc, listed, listedAt, serial, memory>>
vars == <<now, remoteVars, deviceVars, saved>>

Genesis == [rev |-> 0, id |-> None, base |-> None]

\* randomId(24): a token no other acquisition draws.
TokenOf(d) == <<d, serial[d]>>

\* Date.now() on device d.
Clock(d) == now + Skew[d]

\* Stages whose next requests are those of AppDataStore.get on the lease.
LeaseReads == {"readLease", "putLease", "verifyLease", "assert1", "assert2",
               "release", "removeLease"}

AcquireStages == {"readLease", "putLease", "sendLease", "leaseSent",
                  "settle", "verifyLease"}
CommitStages == {"assert1", "recheck", "assert2", "putManifest", "putLanded",
                 "confirm"}
ReleaseStages == {"release", "removeLease", "deleteLease"}
Stages == {"idle", "executing", "saveState"}
            \cup AcquireStages \cup CommitStages \cup ReleaseStages

Init ==
  /\ now = 0
  /\ lease = [i \in FileId |-> None]
  /\ used = {}
  /\ manifest = Genesis
  /\ wire = {}
  /\ requests = {}
  /\ deletions = {}
  /\ gone = {}
  /\ late = FALSE
  /\ pc = [d \in Device |-> "idle"]
  /\ listed = [d \in Device |-> Unlisted]
  /\ listedAt = [d \in Device |-> 0]
  /\ serial = [d \in Device |-> 0]
  /\ expires = [d \in Device |-> 0]
  /\ ready = [d \in Device |-> 0]
  /\ plan = [d \in Device |-> Genesis]
  /\ confirmed = [d \in Device |-> FALSE]
  /\ saved = [d \in Device |-> Genesis]

------------------------------------------------------------------------------
(* Control flow *)

\* Device d goes to stage s; the read it was making, if any, is over.
Goto(d, s) ==
  /\ pc' = [pc EXCEPT ![d] = s]
  /\ listed' = [listed EXCEPT ![d] = Unlisted]
  /\ listedAt' = [listedAt EXCEPT ![d] = 0]

Continue(d, s) == Goto(d, s) /\ UNCHANGED memory

\* The synchronization of d is over and what it kept in memory is gone.
Stop(d) ==
  /\ Goto(d, "idle")
  /\ expires' = [expires EXCEPT ![d] = 0]
  /\ ready' = [ready EXCEPT ![d] = 0]
  /\ plan' = [plan EXCEPT ![d] = Genesis]
  /\ confirmed' = [confirmed EXCEPT ![d] = FALSE]

\* Leaves release: the finally block has run.
Released(d) == IF confirmed[d] THEN Continue(d, "saveState") ELSE Stop(d)

\* An exception: acquire throws out of the transaction, a throw in commit runs
\* the release in the finally block, and a throw in release is swallowed.
Throw(d) ==
  \/ pc[d] \in CommitStages /\ Continue(d, "release")
  \/ pc[d] \in ReleaseStages /\ Released(d)
  \/ pc[d] \in {"executing"} \cup AcquireStages /\ Stop(d)

Files == {i \in FileId : lease[i] # None}

\* The tokens that a lease file holds.
Standing == {lease[i].token : i \in Files}

\* The download that follows the list request succeeds.
Downloaded(d) ==
  /\ listed[d] # Unlisted
  /\ listed[d] # None => lease[listed[d]] # None

\* The token in the downloaded lease is the one d wrote.
ReadsOwnToken(d) ==
  /\ listed[d] # None
  /\ lease[listed[d]].token = TokenOf(d)

Expired(d, l) == l.expires <= Clock(d)

\* LeaseHandle.assertHeld does not throw.
Holds(d) == ReadsOwnToken(d) /\ ~Expired(d, lease[listed[d]])

------------------------------------------------------------------------------
(* A synchronization up to the commit phase *)

\* Reads the remote manifest and plans on it.
Plan(d) ==
  /\ pc[d] = "idle"
  /\ Goto(d, "executing")
  /\ plan' = [plan EXCEPT ![d] = manifest]
  /\ UNCHANGED <<now, remoteVars, serial, expires, ready, confirmed, saved>>

\* Nothing to do: the remote manifest becomes the base.
NoOp(d) ==
  /\ pc[d] = "executing"
  /\ saved' = [saved EXCEPT ![d] = plan[d]]
  /\ Stop(d)
  /\ UNCHANGED <<now, remoteVars, serial>>

\* The transfers and moves are done; the executor asks for the lease.
Acquire(d) ==
  /\ pc[d] = "executing"
  /\ serial[d] < MaxAttempts
  /\ Continue(d, "readLease")
  /\ UNCHANGED <<now, remoteVars, serial, saved>>

------------------------------------------------------------------------------
(* AppDataStore.get on the lease file *)

\* The list request finds at most one file of that name.
ListLease(d) ==
  /\ pc[d] \in LeaseReads
  /\ listed[d] = Unlisted
  /\ \/ Files = {} /\ listed' = [listed EXCEPT ![d] = None]
     \/ \E i \in Files : Files = {i} /\ listed' = [listed EXCEPT ![d] = i]
  /\ listedAt' = [listedAt EXCEPT ![d] = now]
  /\ UNCHANGED <<now, remoteVars, pc, serial, memory, saved>>

\* More than one file of that name: get throws "Duplicate app-data records".
ListDuplicates(d) ==
  /\ pc[d] \in LeaseReads
  /\ listed[d] = Unlisted
  /\ \E i, j \in Files : i # j
  /\ Throw(d)
  /\ UNCHANGED <<now, remoteVars, serial, saved>>

\* The file was deleted between the list request and the download.
DownloadMissing(d) ==
  /\ pc[d] \in LeaseReads
  /\ listed[d] \in FileId
  /\ lease[listed[d]] = None
  /\ Throw(d)
  /\ UNCHANGED <<now, remoteVars, serial, saved>>

------------------------------------------------------------------------------
(* LeaseManager.acquire *)

\* The lease read first belongs to another device and has not expired.
Refused(d) ==
  /\ listed[d] # None
  /\ ~Expired(d, lease[listed[d]])
  /\ lease[listed[d]].token[1] # d

RefuseLease(d) ==
  /\ pc[d] = "readLease"
  /\ Downloaded(d)
  /\ Refused(d)
  /\ Throw(d)
  /\ UNCHANGED <<now, remoteVars, serial, saved>>

\* Mutant of BuildLease: the expiry is computed with the wrong sign.
BuildStaleLease(d) ==
  /\ pc[d] = "readLease"
  /\ Downloaded(d)
  /\ ~Refused(d)
  /\ Goto(d, "putLease")
  /\ serial' = [serial EXCEPT ![d] = @ + 1]
  /\ expires' = [expires EXCEPT ![d] = Clock(d) - Ttl]
  /\ UNCHANGED <<now, remoteVars, ready, plan, confirmed, saved>>

\* Builds the lease record with a fresh token.
BuildLease(d) ==
  /\ pc[d] = "readLease"
  /\ Downloaded(d)
  /\ ~Refused(d)
  /\ Goto(d, "putLease")
  /\ serial' = [serial EXCEPT ![d] = @ + 1]
  /\ expires' = [expires EXCEPT ![d] = Clock(d) + Ttl]
  /\ UNCHANGED <<now, remoteVars, ready, plan, confirmed, saved>>

\* AppDataStore.put has read the record: it sends a create or an update.
ResolvePut(d) ==
  /\ pc[d] = "putLease"
  /\ Downloaded(d)
  /\ pc' = [pc EXCEPT ![d] = "sendLease"]
  /\ requests' = requests \cup
       {[lease |-> [token |-> TokenOf(d), expires |-> expires[d]],
         file |-> listed[d]]}
  /\ UNCHANGED <<now, lease, used, deletions, gone, manifest, wire, late, listed,
                 listedAt, serial, memory, saved>>

\* The devices whose settle timer runs or has fired, and that have not made
\* their last check of the lease.
Checking == {"verifyLease", "assert1", "recheck", "assert2"}
CountsOnLease(d) == pc[d] \in {"settle"} \cup Checking

\* A lease write takes effect, not necessarily for the first time; its sender
\* may still be waiting for the answer.
LandLease(w) ==
  /\ \/ /\ w.file = None
        /\ \E i \in FileId \ used :
             /\ lease' = [lease EXCEPT ![i] = w.lease]
             /\ used' = used \cup {i}
     \/ /\ w.file \in Files
        /\ lease' = [lease EXCEPT ![w.file] = w.lease]
        /\ used' = used
  /\ gone' = gone \cup (Standing \ Standing')
  /\ pc' = [d \in Device |->
              IF pc[d] = "sendLease" /\ w.lease.token = TokenOf(d)
              THEN "leaseSent" ELSE pc[d]]
  /\ late' = (late \/ \E d \in Device :
                        CountsOnLease(d) /\ w.lease.token = TokenOf(d))
  /\ UNCHANGED <<now, requests, deletions, manifest, wire, listed, listedAt,
                 serial, memory, saved>>

\* The file to update was deleted meanwhile.
UpdateMissing(d) ==
  /\ pc[d] \in {"sendLease", "leaseSent"}
  /\ listed[d] \in FileId \ Files
  /\ Throw(d)
  /\ UNCHANGED <<now, remoteVars, serial, saved>>

\* The answer arrives and the settle timer starts.
AckLease(d) ==
  /\ pc[d] = "leaseSent"
  /\ Goto(d, "settle")
  /\ ready' = [ready EXCEPT ![d] = now + Settle]
  /\ expires' = [expires EXCEPT ![d] = 0]
  /\ UNCHANGED <<now, remoteVars, serial, plan, confirmed, saved>>

\* Mutant of EndSettle: the settle delay is not awaited.
SkipSettle(d) ==
  /\ pc[d] = "settle"
  /\ Goto(d, "verifyLease")
  /\ ready' = [ready EXCEPT ![d] = 0]
  /\ UNCHANGED <<now, remoteVars, serial, expires, plan, confirmed, saved>>

EndSettle(d) ==
  /\ pc[d] = "settle"
  /\ ready[d] <= now
  /\ Goto(d, "verifyLease")
  /\ ready' = [ready EXCEPT ![d] = 0]
  /\ UNCHANGED <<now, remoteVars, serial, expires, plan, confirmed, saved>>

\* acquire returns a handle when the lease still carries the token.
VerifyLease(d) ==
  /\ pc[d] = "verifyLease"
  /\ Downloaded(d)
  /\ IF ReadsOwnToken(d) THEN Continue(d, "assert1") ELSE Throw(d)
  /\ UNCHANGED <<now, remoteVars, serial, saved>>

------------------------------------------------------------------------------
(* ManifestStore.commit *)

Assert1(d) ==
  /\ pc[d] = "assert1"
  /\ Downloaded(d)
  /\ IF Holds(d) THEN Continue(d, "recheck") ELSE Throw(d)
  /\ UNCHANGED <<now, remoteVars, serial, saved>>

\* Mutant of Recheck: the revision is read again, but not compared.
RecheckNothing(d) ==
  /\ pc[d] = "recheck"
  /\ Continue(d, "assert2")
  /\ UNCHANGED <<now, remoteVars, serial, saved>>

\* The remote manifest still has the revision that was planned on.
Recheck(d) ==
  /\ pc[d] = "recheck"
  /\ IF manifest.rev = plan[d].rev THEN Continue(d, "assert2") ELSE Throw(d)
  /\ UNCHANGED <<now, remoteVars, serial, saved>>

\* Mutant of Proposal: the revision is not incremented.
ProposalOfSameRevision(d) ==
  [rev |-> plan[d].rev, id |-> TokenOf(d), base |-> plan[d].id]

\* The manifest d publishes: it starts from a copy of the one planned on.
Proposal(d) ==
  [rev |-> plan[d].rev + 1, id |-> TokenOf(d), base |-> plan[d].id]

\* Mutant of Assert2: the lease is not checked again before the write.
WriteUnasserted(d) ==
  /\ pc[d] = "assert2"
  /\ Downloaded(d)
  /\ Continue(d, "putManifest")
  /\ wire' = wire \cup {[man |-> Proposal(d), since |-> listedAt[d]]}
  /\ UNCHANGED <<now, leaseVars, manifest, late, serial, saved>>

\* The last check of the lease; the manifest write follows.
Assert2(d) ==
  /\ pc[d] = "assert2"
  /\ Downloaded(d)
  /\ IF Holds(d)
     THEN /\ Continue(d, "putManifest")
          /\ wire' = wire \cup {[man |-> Proposal(d), since |-> listedAt[d]]}
     ELSE Throw(d) /\ wire' = wire
  /\ UNCHANGED <<now, leaseVars, manifest, late, serial, saved>>

\* A manifest write that takes effect now is in time: its sender listed the
\* lease files less than the settle delay ago, or its lease record has stood
\* ever since.
InTime(m) == now < m.since + Settle \/ m.man.id \notin gone

\* A manifest write takes effect, not necessarily for the first time; its
\* sender may still be there to learn of it.
LandPut(m) ==
  /\ manifest' = m.man
  /\ late' = (late \/ ~InTime(m))
  /\ pc' = [d \in Device |-> IF pc[d] = "putManifest" /\ m.man = Proposal(d)
                             THEN "putLanded" ELSE pc[d]]
  /\ UNCHANGED <<now, leaseVars, wire, listed, listedAt, serial, memory, saved>>

\* The answer to the manifest write arrives.
AckPut(d) ==
  /\ pc[d] = "putLanded"
  /\ Continue(d, "confirm")
  /\ UNCHANGED <<now, remoteVars, serial, saved>>

\* commit reads the manifest back and compares revision and checksum.
Confirm(d) ==
  /\ pc[d] = "confirm"
  /\ Goto(d, "release")
  /\ confirmed' = [confirmed EXCEPT ![d] = manifest = Proposal(d)]
  /\ UNCHANGED <<now, remoteVars, serial, expires, ready, plan, saved>>

------------------------------------------------------------------------------
(* LeaseHandle.release, and the end of the transaction *)

CheckRelease(d) ==
  /\ pc[d] = "release"
  /\ Downloaded(d)
  /\ IF ReadsOwnToken(d) THEN Continue(d, "removeLease") ELSE Released(d)
  /\ UNCHANGED <<now, remoteVars, serial, saved>>

\* AppDataStore.remove reads the record once more, without looking at it, and
\* sends the deletion of its file.
ResolveRemove(d) ==
  /\ pc[d] = "removeLease"
  /\ Downloaded(d)
  /\ \/ listed[d] = None /\ Released(d) /\ deletions' = deletions
     \/ /\ listed[d] # None
        /\ pc' = [pc EXCEPT ![d] = "deleteLease"]
        /\ deletions' = deletions \cup {listed[d]}
        /\ UNCHANGED <<listed, listedAt, memory>>
  /\ UNCHANGED <<now, lease, used, requests, gone, manifest, wire, late, serial,
                 saved>>

\* The deletion of file i takes effect.
LandDelete(i) ==
  /\ i \in Files
  /\ lease' = [lease EXCEPT ![i] = None]
  /\ gone' = gone \cup (Standing \ Standing')
  /\ UNCHANGED <<now, used, requests, deletions, manifest, wire, late, deviceVars,
                 saved>>

\* The answer arrives: the file is gone, by this request or another one.
DeleteLease(d) ==
  /\ pc[d] = "deleteLease"
  /\ lease[listed[d]] = None
  /\ Released(d)
  /\ UNCHANGED <<now, remoteVars, serial, saved>>

\* The committed manifest becomes the base in the local state file.
SaveState(d) ==
  /\ pc[d] = "saveState"
  /\ saved' = [saved EXCEPT ![d] = Proposal(d)]
  /\ Stop(d)
  /\ UNCHANGED <<now, remoteVars, serial>>

------------------------------------------------------------------------------
(* Environment *)

\* A request fails for good, or the user cancels.
Fail(d) ==
  /\ pc[d] \notin {"idle", "settle", "saveState"}
  /\ Throw(d)
  /\ UNCHANGED <<now, remoteVars, serial, saved>>

\* The application stops; what it sent to Drive is still on its way.
Crash(d) ==
  /\ pc[d] # "idle"
  /\ Stop(d)
  /\ UNCHANGED <<now, remoteVars, serial, saved>>

Tick ==
  /\ now < MaxTime
  /\ now' = now + 1
  /\ UNCHANGED <<remoteVars, deviceVars, saved>>

------------------------------------------------------------------------------

DeviceStep(d) ==
  \/ Plan(d) \/ NoOp(d) \/ Acquire(d)
  \/ ListLease(d) \/ ListDuplicates(d) \/ DownloadMissing(d)
  \/ RefuseLease(d) \/ BuildLease(d) \/ ResolvePut(d)
  \/ UpdateMissing(d) \/ AckLease(d) \/ EndSettle(d) \/ VerifyLease(d)
  \/ Assert1(d) \/ Recheck(d) \/ Assert2(d) \/ AckPut(d) \/ Confirm(d)
  \/ CheckRelease(d) \/ ResolveRemove(d) \/ DeleteLease(d) \/ SaveState(d)
  \/ Fail(d) \/ Crash(d)

Next ==
  \/ \E d \in Device : DeviceStep(d)
  \/ \E w \in requests : LandLease(w)
  \/ \E i \in deletions : LandDelete(i)
  \/ \E m \in wire : LandPut(m)
  \/ Tick

Spec == Init /\ [][Next]_vars

------------------------------------------------------------------------------
(* Properties *)

TypeOK ==
  /\ now \in Nat
  /\ lease \in [FileId -> Lease \cup {None}]
  /\ used \subseteq FileId
  /\ manifest \in Manifest
  /\ wire \subseteq Put
  /\ requests \subseteq LeaseWrite
  /\ deletions \subseteq FileId
  /\ gone \subseteq Token
  /\ late \in BOOLEAN
  /\ pc \in [Device -> Stages]
  /\ listed \in [Device -> FileId \cup {None, Unlisted}]
  /\ listedAt \in [Device -> Nat]
  /\ serial \in [Device -> Nat]
  /\ expires \in [Device -> Nat]
  /\ ready \in [Device -> Nat]
  /\ plan \in [Device -> Manifest]
  /\ confirmed \in [Device -> BOOLEAN]
  /\ saved \in [Device -> Manifest]

\* Until a write comes too late, a manifest write replaces the very manifest
\* its writer planned on, so no device's commit disappears from the vault: the
\* reason for the lease and for the second reading of the revision in
\* ManifestStore.commit.
NoLostUpdate ==
  [][manifest' # manifest /\ ~late' => manifest'.base = manifest.id]_vars

\* Until a write comes too late, at most one manifest write that could still
\* take effect in time is on its way: two devices never both pass the last
\* check of the lease with their records intact or their checks fresh, whatever
\* their clocks say and whoever took an expired lease from whom.
OneWriteInFlight ==
  ~late => \A m, n \in wire : InTime(m) /\ InTime(n) => m = n

\* Until a write comes too late, the base a device keeps in its state file is a
\* revision of the remote chain: never ahead of it, and identical to it at the
\* same revision.  A base ahead of the remote blocks every later plan
\* (BASE_AHEAD_OF_REMOTE).
BaseInChain ==
  ~late => \A d \in Device :
             /\ saved[d].rev <= manifest.rev
             /\ saved[d].rev = manifest.rev => saved[d] = manifest

\* The protocol implements a chain of manifests that holds until a write comes
\* too late: commits extend the newest one and bases move forward along it
\* (ManifestStore.commit, the state saved by SyncExecutor.execute).
Chain == INSTANCE ManifestChain
           WITH head <- manifest, base <- saved, broken <- late
ChainSpec == Chain!ChainSpec

\* Two devices that commit to the same manifest do not both succeed: the lease
\* or the revision check aborts one of them, which plans anew (step 9 of the
\* manual release gates in docs/TESTING.md).
ConcurrentCommitAborts ==
  \A d, e \in Device :
    d # e /\ confirmed[d] /\ confirmed[e] => plan[d] # plan[e]

\* Once every lease record has expired, a device that asks for the lease is not
\* turned away by what is left of earlier ones (LeaseManager.acquire).
ExpiredLeasesCeaseBlocking ==
  \A d \in Device :
    (\A i \in Files : Expired(d, lease[i])) => ~\E i, j \in Files : i # j
==============================================================================

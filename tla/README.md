# VaultBridge Drive: TLA+ verification

VaultBridge Drive is an Obsidian plugin that keeps a vault (a tree of notes and
folders) the same on several devices through the user's Google Drive.  There is
no server of its own: each device reads a *manifest* from Drive's app-data
folder, compares it with its vault and with the manifest it last agreed on (the
*base*), moves file contents to and from a Drive folder, and publishes the next
manifest under a short *lease*.

This directory holds TLA+ models of that program, the TLC configurations that
check them on small instances, and TLAPS proofs of what matters most for every
instance.  `PROJECT.json` is the index: components, runs, theorems, findings,
hazards, and for every definition the source lines it stands for.

    tlc -workers 2 -config MCSyncSerial.cfg MCSyncVault.tla     one run
    tlapm LeaseCommitProofs.tla                                 one proof module

## 1. Inventory

Paths are below `src/src`.

| Component | State it keeps | Operations | Interacts with |
|---|---|---|---|
| **Commit protocol**: `drive/lease-manager`, `drive/appdata-store`, `manifest/manifest-store` | the lease file and the manifest file in app data; in memory the token and expiry of a `LeaseHandle` | `acquire`, `assertHeld`, `release`, `load`, `commit` | Drive requests, the executor's last phase |
| **Planner**: `sync/planner`, `rename-detector`, `classifier`, `conflict-policy`, `sync-plan` | none (pure) | `planSync`, `assignLocalLogicalIds` | called by the controller on a scan and a manifest |
| **Executor**: `sync/executor`, `drive/vault-drive-client`, `recovery/tombstones` | a working manifest, staged downloads, backups, the journal | uploads, staging, local moves, installation, remote moves, recoveries, tombstones, commit, state save | local adapter, Drive client, lease, local state |
| **Local side**: `local/event-queue`, `vault-scanner`, `obsidian-adapter` | queue of events, hash cache | enqueue, drain, scan, file operations | Obsidian events, controller, executor |
| **Scheduling**: `sync/sync-controller`, `auto-sync`, `foreground-sync`, `main` | `current`, `queued`, `nextAllowedAt`; timers; `rerunRequested`; the activation gate | `sync`, `syncFresh`, timers, activation check, review dialog | everything above |
| **Manifest schema**: `manifest/manifest-schema`, `migrations` | none | parse, validate | manifest store, executor |
| **Drive client**: `drive/drive-client`, `retry-policy`, `net/obsidian-http` | none | requests with retries | Google Drive |
| **Conflict resolution**: `sync/conflict-resolution`, `ui/modals` | the choices made, in the memory of the controller | `applyConflictResolutions`, merge | controller |
| **Stores**: `storage/*`, `sync/transaction-journal` | plugin data: settings, base manifest, journal, history | read-modify-write of one JSON object, rebuild | all |
| **Registries**: `registry/*` | the vault registry and device records in app data; the active vault in the settings | create, choose, pair, list | app data, folders, the controller |
| **Credentials**: `auth/token-manager`, the credential stores | Keychain entries, the envelope of earlier versions, the refresh in flight | refresh, save, clear, migrate | Drive client, commands of `main` |
| **OAuth and pairing**: `auth/desktop-oauth`, `loopback-server`, `oauth-pkce`, `pairing` | the session whose consent page is open; bundles | connect, cancel, import, export | browser, token manager |
| **Resumable upload**: `drive/resumable-upload` | a session and an offset | chunk loop | Drive client |
| **Shell**: `main`, `commands`, `ui`, `logging`, `utils` | the status bar | commands | controller |

Behaviours that are hard:

* *Several devices, one Drive.*  Drive has no transactions, no unique names and,
  as used here, no conditional writes.  Lease and manifest are plain files; every
  request may be slow, be re-sent, or have its answer lost.
* *A synchronization is long.*  Scan, manifest read, review dialog, transfers and
  commit are separated by awaits, and users go on editing in between.
* *It may stop anywhere*: a crash, a cancel, a network error, a refused commit.
  Everything it did on Drive and locally stays.
* *Identity is inferred.*  A local file has no identifier of its own: the planner
  derives one from path, rename events and content.
* *Copies of the credential* are taken before a request and saved whole after it,
  while commands forget or replace the original.
* *Setup is not under the lease*: creating a vault is a sequence of requests that may
  be cut off, repeated, or interleaved with another device's.
* *One run at a time per device*, asked for by timers, edits, commands, the
  foreground check and "online" events, with a review dialog and an editing guard
  that come and go.

What makes each component correct:

* commit protocol: revisions form one chain, no committed update is overwritten,
  a device's base is a manifest that was published;
* planner: what somebody wrote survives; nothing planned means nothing differs;
  a deletion is propagated only if the other side left the object alone;
  tombstones dominate;
* executor: no content is lost at any step, interrupted or not; every entry of
  the manifest has its content on Drive and sits where it says; the devices
  agree in the end; a device whose user does nothing is not disturbed;
* scheduling: no edit is forgotten, a check brings the device up to date, nothing
  is edited between scan and application while the guard is meant to be up, the
  guard is always taken down, the device catches up;
* uploads: no byte is skipped, one file per resumable upload, an end;
* setup: a registered vault is complete and stays, nothing a failure leaves behind
  blocks the next creation, the files of vaults do not mix, a device gets to
  synchronize with the vault it chose;
* credentials: the last command wins, a token belongs to the grant beside it, a
  refused token is not repeated, access comes back while the grant is live.

## 2. Modules

| Module | What it is | Built on |
|---|---|---|
| `ManifestChain` | abstract: the manifest as a chain of revisions, each the successor of what its author had read | |
| `LeaseCommit` | the commit protocol, one action per Drive request | refines `ManifestChain` |
| `ThreeWay` | `planNewObject` and `planTrackedObject`: what is planned for one logical object | |
| `Planner` | `planSync`: identities, the plans of all objects, collisions, mass-deletion guard | extends `ThreeWay` |
| `ConflictResolution` | `applyConflictResolutions`: what the choices of a user do to a plan | extends `Planner` |
| `SyncVault` | devices with vaults, users, planner, executor and Drive | extends `ConflictResolution` |
| `SyncSchedule` | one device's controller, timers, foreground check and guard | |
| `Transfer` | abstract: what an upload promises the executor | |
| `Upload` | `uploadVaultFile`: the chunk loop and the multipart request, with their retries | refines `Transfer` |
| `VaultSetup` | creating, registering, choosing, pairing and synchronizing vaults on several devices | |
| `Credentials` | the Google account of one device: token manager, Keychain, envelope, commands | |
| `LeaseCommitProofs`, `PlannerProofs`, `SyncVaultProofs`, `SyncHistoryProofs`, `SyncScheduleProofs`, `UploadProofs`, `VaultSetupProofs`, `CredentialsProofs` | theorems | extend the module they are about; `SyncVaultProofs` also `PlannerProofs`, and `SyncHistoryProofs` extends `SyncVaultProofs` |
| `MC...` | constants for TLC | |

How they compose.  `SyncVault` runs `Planner`'s operators on the states its
devices reach, and its `Commit` is atomic: reading the revision, the lease
and the write are one step.  That this is what the protocol provides until a
write comes too late is `LeaseCommit`'s `ChainSpec`; section 5 says what it rests on.  `SyncSchedule`
abstracts a run's work to two counters (edits brought to Drive, revisions applied);
what the work does is `SyncVault`'s.  `SyncVault` uploads an object in one step;
that an upload stores a whole file or fails is `Upload`'s `KeepsPromise`.
`VaultSetup` reduces a run to which vault's files it brings together, and its requests
to what `LeaseCommit` and `Credentials` say of them: they take effect once, twice, or
not at all.

### LeaseCommit

`lease[f]` is what each lease file holds (Drive allows several files of one name,
so a file is an element of `FileId`); `manifest` is the manifest on Drive and
`wire` the manifest writes that were sent, `requests` and `deletions` the lease writes
and lease deletions.  `pc[d]` follows `SyncExecutor`'s last phase through
`LeaseManager.acquire` (list, download, put, settle, verify), `ManifestStore.commit`
(assert, recheck the revision, assert, write, confirm), `release` and the state
save.  `AppDataStore.get` is two requests, listing and downloading, and `remove`
finds the file again by its name, so other devices come between.  `rawRequest`
re-sends, and what was sent cannot be called back: nothing ever leaves `wire`, `requests`
or `deletions`, so each of these requests may take effect at any later time and as
often as it likes, whether its sender waits, has had an answer, has given up or has
crashed.  A lost answer is a failure after the effect.  Every device has its own clock.

`gone` (tokens that were in a lease file and are no longer) and `late` are
auxiliary.  A manifest write is in time (`InTime`) when its sender listed the lease
files less than `Settle` ago, or when its lease record still stands, expired or not.
`late` becomes true when a manifest write takes effect that is not in time, or when a lease
write takes effect once more after it was acknowledged and while its sender counts on
the record.  Neither can be prevented by the code, which bounds no request and sends no
precondition; the properties of the protocol are stated for the time before
(`~late`), and nothing is assumed of how long a request takes.

### ThreeWay and Planner

A logical object has up to three sides, *base*, *local* and *remote*, each a record
of path and content or `Nothing`.  `PlanObject` is `planSync`'s loop body: the cases of
the code in the code's order.  Plans are records of sets of operations.
`AssignIds` is `assignLocalLogicalIds` (`AllClaims`: by path, by rename event, by equal
content; the rest is new), `Colliding` the collision check on projected paths, `MassDeletion` the
threshold.  An identifier derived by hashing is the tuple that is hashed.
Paths are sequences of names, one at least (`IsPath`), contents are model strings, and
`Folder` stands for a folder's.  `f ++ g` is `f`, and `g` where `f` is not defined.

### SyncVault

| Model | Code |
|---|---|
| `vault`, `trash`, `queue` | the vault's files, the local recovery folder, `LocalEventQueue`'s renames |
| `base` | `state.baseManifest` in the plugin data |
| `manifest`, `drive` | the published manifest, the Drive objects with their parent |
| `pc`, `job` | where `SyncController.run` is and what it keeps in memory: snapshot, plan, operations left, working manifest, staged and set-aside files |
| `Write`, `MakeFolder`, `Delete`, `Rename` | the user, and the events Obsidian raises |
| `AfterMove` | the events a rename raises, for the file and what is below it; the executor's own local moves raise them too |
| `Scan`, `UpToDate`, `Blocked`, `Start` | `SyncController.run` up to the executor |
| `ExecuteUpload` ... `RecoverRemote` | one operation of the plan each, with the checks of `verifyAllowed` and `assertLocalUnchanged` |
| `LocalChanged`, `LocalMoveFails`, `InstallFails`, `DownloadDenied`, `MoveDenied`, `RecoveryDenied` | the same operations when a check, or the vault, refuses them: what was done before stays, and the run ends |
| `IsTree`, `IsSnapshot` | what a vault can hold: finitely many paths, each below folders |
| `Commit`, `CommitRefused`, `SaveState`, `Retire`, `Finish` | the end of `SyncExecutor.execute` |
| `shown`, `choices` | the conflicts of `getLastPlan` and the `resolutions` of the controller |
| `Preview`, `Choose`, `Merge` | a preview-only run, and the Conflict Center |
| `Rebuild` | the command "Rebuild local index": a preview, then the remote manifest becomes the base |
| `Interrupt`, `Crash` | a cancel or a failed request between any two steps; a restart, which loses what is in memory |
| `kept`, `gone` | auxiliary: contents users wrote and did not, or did, discard |

Operations of one phase run in the order of their identifiers, which are hashes,
so the model runs them in any order; where the code sorts by something else
(`sortUploads`), so does the model.

### SyncSchedule

`run` is `SyncController.current`, `queued` and `backoff` are its other fields;
`awaited` says that a debounce timer's callback holds the promise of the current
run (it re-arms on `LOCAL_CHANGED`); `noticed` is an edit whose handler is loading
the settings; `debounce` is the debounce timer; `check`, `rerun` and `inactive` are
the foreground coordinator's, `guard` is `main`'s activation gate.  JavaScript runs
callbacks one at a time, and what settles with a promise without waiting for I/O is
part of the same action (`Settled`).  `due` (what was published at the last
activation) and `excused` (an edit waits because a run failed or auto-sync was
paused) are auxiliary.

### Upload and Transfer

`stage`, `session` and `offset` are the locals of `resumableUpload`, `attempt` and
`asked` those of `rawRequest`, `reply` an answer that has not been received.  `wire` holds every request Drive has not handled: one
the client has given up may still arrive, any time, or never.  Drive (`Open`, `Post`,
`Put`) commits any prefix of a chunk and says so in the `Range` of a 308; a chunk that
starts beyond what the session holds changes nothing.  A session or file is named by
the attempt that made it.  `Transfer` knows only the files on Drive, the file given to
the caller and whether the caller was given an error.

### VaultSetup

`creation[v]` is where `createVault` is for the vault whose identifier it drew, with
the registry it loaded; every request is a step.  `records` are the app-data files named
`vault-registry.json` (Drive allows several), `containers` the number of "VaultBridge" folders,
`roots`, `recoveries` and `manifests` what was made for each vault.  A POST whose
answer is lost is made twice.  `active[d]` is `settings.activeVaultId`, `tab[d]` the settings and
the list an open settings tab has read and saves whole; `base[d]` is the vault of
`state.baseManifest`, or `Invalid` when the local state cannot be parsed.  Of a file
only the vault it came from is kept: `content[v]` and `folder[d]`.  `disturbed`
(creations overlapped or a request was repeated) and `torn` (runs that moved files
and did not save their base) are auxiliary.

### Credentials

| Model | Code |
|---|---|
| `keychain`, `clientSecret` | what `SecretCredentialStore` and `GoogleClientSecretStore` keep; their accesses complete at once.  A secret is named by the client ID it belongs to |
| `clientId` | `settings.googleClientId`; a credential keeps the client ID it was issued for (`client`), and only the secret of that client makes a refresh succeed (`Authentic`) |
| `legacy` | the envelope of earlier versions in `PluginDataStore`: in memory, on disk, and whether the chain of writes is broken |
| `refreshInFlight` | `TokenManager.refreshInFlight`, with the copy it refreshes |
| `task[t]` | a request or a command under way: what it does, where it is, the copy of the credential it holds, the token it was sent with and those refused to it |
| `activeSession` | `DesktopOAuthService.activeSession` |
| `Ask`, `Refused`, `Unanswered`, `Retry`, `Answered` | `rawRequest` with `getAccessToken` |
| `RefreshGranted`, `RefreshFails` | `TokenManager.refresh` |
| `Connect` ... `ConnectFails`, `Cancel` | the consent page and `exchangeCode` |
| `Forget`, `Disconnect`, `Revoke`, `Import`, `EnterSecret`, `RemoveSecret`, `ClearLegacy` | the commands of `main`, each ending where it next waits.  A secret that is entered is the configured client's and reaches the Keychain's credential only if that is of the same client (`main.ts:516`); a removal asks for no client |
| `EnterClientId` | the settings tab |
| `EnterPassphrase`, `Migrate`, `Postpone`, `Restart` | `migrateLegacyCredentials`, and a restart |
| `owner`, `live`, `issued`, `honoured`, `aged` | Google: grants, their accounts, the tokens issued and accepted; tokens past the minute the device counts on |

A grant (a refresh token) is a number, an access token too; a number nothing refers
to any more may be issued again and then stands for another token.  `latest` (what
the last command left) and `raced` (a command replaced the credential while another
task or the refresh held an older copy) are auxiliary.  `latest` is `Unknown` while the
credential was removed and its envelope was not; `LatestCommandWins` promises nothing then, nor
once a command has `raced`.

## 3. Runs

| Run | Checks | Instance |
|---|---|---|
| `MCLeaseCommit` | `TypeOK`, `OneWriteInFlight`, `BaseInChain`, `NoLostUpdate`, `ChainSpec` | two devices, clocks a tick apart, two lease files, one attempt each, leases of 3 ticks, a settle delay of 2, 5 ticks in all; crashes, lost answers, re-sent and arbitrarily late requests everywhere |
| `MCSyncSerial` | `ContentPreserved`, `ManifestUsable`, `TombstonesDominate`, `Convergence` | two users, 3 edits, files at the root, 3 contents; one preview, and choices and merges for every conflict shown; one synchronization at a time |
| `MCSyncOverlap` | `TypeOK`, `ContentPreserved`, `BaseIsPublished`, `HistoryGoesOn` | two users, 2 edits, files and folders, folder renames; synchronizations overlap and one is interrupted; the two devices are symmetric, and no liveness is checked |
| `MCSyncRaces` | `FollowerUndisturbed`, `UpToDateIsTrue`, `EntriesBacked`, `ParentsMatchPaths`, `UserDeletesOnly` | one user or two, 3 edits or rebuilds, files between two folders and the root, made before, between or during synchronizations |
| `MCSyncSchedule` | `TypeOK`, `OnlySettingsForget`, `ActivationSeesRemote`, `GuardedRunIsCurrent`, `GuardLifted`, `CatchesUp` | 2 edits, 1 remote revision, 1 failure, 2 pauses, 1 setting, 1 activation or command |
| `MCUpload` | `TypeOK`, `NoGap`, `OneFile`, `UploadEnds`, `KeepsPromise` | content of 1, 2, 4 and 5 units, chunks of 2, resumable from 2; 3 attempts per request, 4 faults |
| `MCVaultSetup` | `TypeOK`, `RegisteredIsComplete`, `SetupNotBlocked`, `VaultsApart`, `VaultsKept`, `DeviceSyncs` | two devices, two vaults, 4 commands, 1 fault |
| `MCCredentials` | `TypeOK`, `LatestCommandWins`, `RetryUsesNewToken`, `TokenOfItsGrant`, `AccessRestored` | two tasks, one account, two client IDs, bundles with and without client secret and address, 2 attempts per request, 2 commands, 1 fault |
| `MCConcurrentCommits` | `ConcurrentCommitAborts`, violated | two devices as in `MCLeaseCommit`, a settle delay of 1 tick, leases of 4 and 2 ticks in all, so no lease expires |
| `MCSyncInterrupted` | `ManifestUsable`, violated | one user, one edit, one interruption |
| `MCSyncEditDuringSync` | `ContentPreserved`, violated | an edit during the device's own synchronization |
| `MCSyncRebuilt` | `NoStaleContent`, violated | one user edits and synchronizes; the other device rebuilds its index first |

**Bounds and why they are enough.**  `MaxEdits`, `MaxPreviews`, `MaxInterrupts`
and `MaxFiles` bound what users do, how often a synchronization is interrupted or the
application stops, and how many Drive objects are made.  `StaleChoices` is `FALSE` in
`MCSyncSerial`: a user looks again after an edit before choosing, and does not edit
between a choice and the commit that applies it; section 4 says what happens otherwise.  `MaxFiles` is out of reach in `MCSyncSerial`;
in the other two it is reached only by a synchronization whose commit is refused
again and again and which leaves its uploads behind every time.  Three edits suffice for every
case of the three-way comparison between two devices to occur: each side of an
object takes one edit to differ from the base, and the third makes an object move,
reappear or collide.  `ContentPreserved` is run with three contents so that both users can change one
file differently.  `MaxAttempts` and `MaxTime` in `LeaseCommit` let a
lease be acquired, expire and be taken over, and the second owner pass its settle
delay, while the first owner's write is still on its way.  In `SyncSchedule` two edits let one be scanned and the next fall behind
the scan; a run can be asked for during another by a debounce, a command or an
activation; `MaxOverlaps` (interval timers that expire during a run, which do what a
debounce does there) is 0 in the passing run.  In `Upload` the sizes are one chunk or less, exactly two chunks, and two with a
remainder; three attempts let one be lost, one be late and one arrive, and four faults
let a chunk be committed in part and repeated.  In `VaultSetup` four commands let both
devices create a vault and choose or pair, or one create two and switch; one fault
cuts a creation or a run off.  In `Credentials` two tasks let a command run during a request or during another command, 2
commands let one replace what the other has left, and the fault is a request or refresh that fails, a
token that ends early, a restart, or a write to disk that fails; eight tokens are more than are referred to at once.  There is one
account: that the address of one is not saved beside the grant of another is checked only as far as
`LatestCommandWins` compares grants.
The theorems of section 5 hold for every value of these bounds.

Deadlock is checked for `SyncSchedule`.  In the other models it is not: once the
bounds are used up a device may stop, and so may the system.

**Fairness.**  `SyncVault!FairSpec`: every device synchronizes again and again
(timers, start-up, activation), and what it starts comes to an end (every stage
has an enabled step).  `SyncSchedule!FairSpec`: weak fairness of the steps of a run,
of timers, of event handlers and of the coordinator's loop.  JavaScript fires timers
and calls handlers; that every request settles is assumed, because the code sets no
deadline and relies on the platform's, and so is that a review is answered
(`Decline` or `Approve`).  Users owe nothing: no edit, command, activation, pause or
setting is fair, and neither is a failure.  `Upload!FairSpec`: the client goes on when it has an answer, and the request it waits
for is handled; the number of faults is bounded, so in the end Drive commits whole
chunks.  `VaultSetup!FairSpec`: a creation's requests are answered or fail, timers start
runs, and runs end.  `Credentials!FairSpec`: what is under way comes to an end (the network
answers, a consent page times out after three minutes, a prompt is closed), and
requests are made again and again (strongly fair: a free task is not always there).
`Convergence` needs no assumption about
how long the users rest; the edits are bounded, so they stop.

## 4. Findings

The runs marked violated each contradict a statement of the repository; the
quotation is in `PROJECT.json`.

1. `manifest-store.ts:60`: two devices that commit to the same manifest can both
   succeed, with neither lease expired.  Both find no lease; the second to write its record
   replaces the first one's after that device's last check, waits, and reads a revision
   that is still the old one; the first write lands and is confirmed; the second
   device's last check looks at the lease only, and its write, which carries no
   precondition, replaces the first manifest.  Step 9 of the manual release gates
   (`docs/TESTING.md:42`) expects the lease or the revision to abort one of them.  The
   README (:149-151), `THREAT_MODEL.md:51-52` and `DECISIONS.md:16-18` do say that the lease is
   no linearizable lock; `DECISIONS.md:18` adds that "a revision mismatch aborts and
   replans", which here it does not, since the revision is read before it changes.
2. `executor.ts:164`: a deletion moves the Drive object to recovery before the commit.
   Interrupted in between, the published manifest still lists the object where it no
   longer is, and repeating the deletion fails the parent check.
3. `executor.ts:446`: a download is installed without comparing the file with the
   scan; an edit made since becomes the backup, which is removed.
4. `main.ts:449`: rebuilding the index makes the remote manifest the base of a device
   that has not downloaded it; its old files are taken for edits and uploaded over
   the new contents.

Further counterexamples met while modelling.  Each is a property that the runs above
check only where it holds; the change of a configuration that shows it is given.

| Behaviour | Source | Shown by |
|---|---|---|
| Two devices that find no lease create one each; every later read fails with "Duplicate app-data records", although "Expired leases cease blocking sync" (`docs/ARCHITECTURE.md:73`) | `appdata-store.ts:27` | `MCLeaseCommit` with `ExpiredLeasesCeaseBlocking` |
| A folder deleted and created again gets its tombstoned identifier, is taken for a stale copy, and is moved to recovery with the new files in it | `rename-detector.ts:82` | `MCSyncRaces` with `Recreates = TRUE`: `UserDeletesOnly` |
| Saving any setting drops the debounce of an edit; nothing but an interval timer or a later edit synchronizes it | `auto-sync.ts:43` | `MCSyncSchedule` with `NothingForgotten` |
| A renamed folder becomes moves of the folder and of each descendant, in the order of their ids.  A descendant that comes first finds no folder at its new parent path and is moved to the root of the vault on Drive, with no parent in the manifest | `executor.ts:127`, `:501` | `MCSyncRaces` with `FolderRenames = TRUE`: `ParentsMatchPaths` |
| On the follower the same moves run into each other: the destination exists already and the synchronization stops | `executor.ts:479` | `MCSyncRaces` with `FolderRenames = TRUE`: `FollowerUndisturbed` |
| A file deleted and written again at its old path blocks the other device with a path collision that nothing resolves | `planner.ts:523` | `MCSyncRaces` with `PathReused` removed from `FollowerUndisturbed` |
| One device modifies a file, the other deletes it: the copy preserved on one side is deleted by the next plans | `planner.ts:224` | `MCSyncSerial` with `UserDeletesOnly` |
| One device edits a file in a folder another deletes: the folder is moved to recovery before `validateManifest` refuses the commit, every time | `executor.ts:185` | `MCSyncSerial` with `Initial <- FileInFolder`, `NestedPaths`, `FolderPaths`: `ManifestUsable` |
| A deletion takes the Drive id from the base; if another device has replaced the object by one with the same content, the recovery is refused forever | `planner.ts:391` | `MCSyncSerial` with `Reverts = TRUE`: `Convergence` |
| A choice is kept by logical id.  Made for one conflict and not yet applied, it decides the next one of that id: "keep remote" overwrites what the user has written since, or another file that has taken the id | `conflict-resolution.ts:12` | `MCSyncSerial` with `StaleChoices = TRUE`: `ContentPreserved` |
| A crash between the commit and the state save leaves an old base; a file put back to its base content then counts as unchanged and is overwritten | `executor.ts:250` | `MCSyncSerial` with `EditorSets <- OneUser`, `Reverts = TRUE`, `MaxInterrupts = 1`: `ContentPreserved` |
| A POST whose answer is lost is sent again: a file uploaded in one request, a folder, a registry record is made twice | `drive-client.ts:335` | `MCUpload` with `Resumable =>` removed from `OneFile` |
| Two devices create vaults at the same time: one loses its registry entry, or two containers or registry records refuse every later creation and synchronization | `vault-registry.ts:121`, `:133` | `MCVaultSetup` with `~disturbed` removed from `VaultsKept` or `SetupNotBlocked` |
| A device's first run moves files and fails before it saves its base; with another vault selected, the files of the first go into it | `executor.ts:213` | `MCVaultSetup` with `torn` removed from `VaultsApart` |
| A local state that cannot be read says "rebuild it", but the rebuild's preview reads it first and throws; the same when the base is of another vault | `local-state-store.ts:45`, `main.ts:448` | `MCVaultSetup` with the condition on `base` removed from `Settled`: `DeviceSyncs` |
| The settings tab saves the settings it read when it was rendered; a vault selected or paired meanwhile is dropped | `settings-tab.ts:424` | `MCVaultSetup` with the invariant that `active` is what the last creation or pairing set |
| A refresh, or a request for the account's address, saves a copy of the credential taken before: a forgotten credential comes back, or an imported one is overwritten | `token-manager.ts:121`, `main.ts:588` | `MCCredentials` with `raced` removed from `LatestCommandWins` |

## 5. Proofs

The proofs hold for every value of the constants: any number of devices, files,
edits, failures and clocks, subject to the assumptions named here.

**LeaseCommitProofs.**  Nothing is assumed of how long a request, a lease or the settle
delay takes, or of the clocks.  What is proved holds until a write comes too late (`late`,
section 2): a manifest write that lands the settle delay or more after its sender last
listed the lease files, when its lease record has been replaced or deleted; or a
lease write repeated after it was acknowledged.  In the code the settle delay is 100 ms and
a write often takes longer, so what carries the promise in practice is the other half:
a write in flight is harmless for as long as its lease record stands.
`MCConcurrentCommits` shows what the first such write can do.

`NoLostUpdate` alone is not inductive: it says nothing of a write that is under way.
`IInv` adds, at all times, types, fresh tokens (`TokensDrawn`), `Clocks`, and that the
record behind a write stands or is known to be gone (`WritersStood`); and until a write
comes too late:

* `AtMostOne`: at most one manifest write can still take effect in time;
* `SettlersWait`: while one can, a device whose token is in a lease file is still
  settling, or must notice in its verification that the file is another's;
* `LateFiles`: the same of a device that has listed the files for its last check and found
  its own record;
* `PlanIsCurrent`: after its second reading of the revision a device that keeps its
  token has planned on the current manifest;
* `WriteExtends`, `MemoryInChain`: what writes and devices carry are revisions of the chain.

All steps of a device but drawing a token and sending the manifest change neither
lease, manifest nor wire (`CalmSteps`) and are dealt with together; the steps of Drive
(`LandLease`, `LandDelete`, `LandPut`) have lemmas of their own.  From `IInv`
follow `OneWriteInFlightHolds`, `BaseInChainHolds`, `NoLostUpdateHolds` and
`ChainRefinement`: every step publishes the next revision of `ManifestChain`, adopts
a published one, or stutters, and the write that comes too late is its action `Break`,
after which `ManifestChain` promises nothing.

**PlannerProofs.**  Case analysis over the planner, for any
three sides of an object:

* `NothingPlannedAgree`: nothing planned means both sides agree;
* `LocalEditSurvives`, `RemoteEditSurvives`: what was written on a side is uploaded or
  downloaded, unless the other side has it too (or, locally, it is moved to recovery);
* `DownloadsSpareLocalEdits`: no download goes to the path of a locally changed
  object, assuming a conflict copy's path is not the object's own;
* `OnlyUnchangedIsDeleted`: a tombstone needs an object gone locally and unchanged
  remotely;
* `TombstoneDominates`: nothing is created under a tombstoned identifier, assuming a
  conflict copy's identifier is not the one it is derived from;
* `PlanIsComplete`: no stage of `planSync` drops an operation planned for an object;
* `NoOpMeansAgreement`: if the whole plan is empty, vault and manifest agree on every
  identifier.  The controller makes the remote manifest its base in that case, so a
  hidden difference would never be looked at again;
* `EveryPathHasOneId`: the identities the planner infers are a bijection with the paths
  of the snapshot, whatever rename events and equal contents there are;
* `NoOpMeansSameVault`: the two together: nothing to do means the snapshot has exactly
  the paths and contents of the manifest;
* `PlannedPathsOK`: no operation has an empty path, conflict copies included;
* `FollowerPlan`: when the snapshot is what the base says, nothing is planned for Drive, and
  there is no conflict and no block but for the number of deletions, unless a path was reused.
  Here identities are trivial (`MirrorKeepsIds`), and what has to be shown is that a file in the way of
  another one's entry will have moved away (`ProjectedPath`).

The assignment of identities is a fold over the events and over the paths of the
snapshot.  The library's induction theorems take an operator as a parameter and cannot
be used, but that `<` is well-founded on the naturals can (`WFMin`): from it follows that
a set of numbers has a least element (`LeastNat`), and from that induction for a *set* of
numbers (`SetInduction`).  A fold is then unfolded to the recursive function it is
defined by, and its invariant (no identifier is claimed twice, every claim is a path of
the snapshot) is shown for the set of the lengths at which it holds.

**SyncVaultProofs.**  For any number of devices, any paths, contents, edits, choices and
interruptions, with or without overlapping runs, edits during them, folder renames and
rebuilt indexes.  `PathAssumption` is all that is assumed: what users write has a name,
and the vault they start from is a tree.  None of the properties is inductive, because
what a commit publishes was read, planned and put together many steps before.  `IInv` says:

* `ManifestOK`: the manifest is valid and every entry has its Drive object with its
  content;
* `LocalOK`: a vault is a tree; a base is a valid manifest, no newer than the one on Drive,
  and equal to it if it has its revision (`Published`);
* `ExecutionOK`: what a device has in memory while it executes a plan: the manifest it
  read was published, the working manifest's entries have their objects with their
  contents already, its tombstones are those it read, and every path is one;
* `JobOK`: where `pc` says a manifest was committed, it is valid and was published.

No step removes a Drive object or changes its content, so what backs an entry goes on
backing it.  `Commit` compares the revision with the one the device read; with
`Published` that makes the manifest it read the current one, so the new tombstones
include the old, and the revision after it is one no base has.  There is a lemma for
each action.  From `IInv` follow:

* `TypeCorrect`; `BackedAlways` (`EntriesBacked`);
* `UpToDateTells` (`UpToDateIsTrue`): with `NoOpMeansSameVault`, a device that finds
  nothing to do has what the manifest says in its vault;
* `DeletedStaysDeleted` (`TombstonesDominate`): no commit drops a tombstone or brings
  its identifier back.

As in the runs, reading the revision, lease and write are one step of `Commit`; that is
`LeaseCommitProofs`' `ChainRefinement`, until a write comes too late.

**SyncHistoryProofs.**  What one manifest has in common with the next.  The lemmas for
each action are summed up first as kinds of steps (`StepKinds`): every step is a user's act, an
end, a scan or start, an upload, a remote move, an operation on the vault, a commit, a
save or a retirement of one device, and each kind says what becomes of base, manifest and job.

`HistoryOK` says that what a device knows is behind what is published: the identifiers of its base
are all in the manifest, as entries or tombstones; while it executes, its working manifest has
every entry it read, and it read no older revision than its base; and what it has
committed and not yet saved is in the manifest too.  From it follow, with no assumption but
`PathAssumption`:

* `HistoryOnlyGrows` (`HistoryGoesOn`): no commit loses an object, and no base goes back;
* `OneHistory` (`BaseIsPublished`): a base was published under its revision, and what it lists
  and the manifest does not has a tombstone.  `planTrackedObject` takes what is absent
  remotely for deleted; this is why it may.

The folders of entries (`ParentsMatchPaths`) rest on this: a folder's identifier is
derived from its path, and a folder that is never renamed keeps the path its identifier
was derived from, in every manifest, plan and tombstone (`AtHome`).  `FoldersOK` says that
every entry below the root has the folder of its path for its parent, or that folder has a tombstone;
`OutgoingOK` that the same will hold of what an executing device commits, given what it has still
to upload.  It is here that the order of uploads matters (`UploadsFirst`, folders before what
is in them): `FindParent` finds the folder because it was uploaded before.  Moves are of files only,
and a tombstone of a folder leaves the second disjunct behind.

* `FoldersStay`: `Spec /\ []EventsLeadToFiles => []ParentsMatchPaths`, for any overlap, edits,
  interruption and rebuild, where `EventsLeadToFiles` says that no rename event in the queue of
  a device that plans leads to a folder of its snapshot;
* `RenamesLeadToFiles`: so it is if users rename files only (`~FolderRenames`) and do
  not edit during their device's synchronization (`~EditDuringSync`).  The executor's own
  renames raise events as well: `MovesFiles` says that the local moves a device has still to
  make take away files, each by one move, so these events lead to files too;
* `EntriesBelowFolders`: the two together.

`FollowersOnlyFollow` says of the whole system what `FollowerPlan` says of a plan: a device that
scans a vault that is as its base has it (`AtBase`) publishes no change and asks its user
nothing, unless `PathReused`.  It rests on the same invariant: an identifier is a
folder's in every manifest or in none, and a folder's path is always the same, so that only files move.

`FolderRenames` breaks `ParentsMatchPaths` in the code (section 4).  `EditDuringSync` matters because the
queue is read later than the vault: between the two a user can delete a folder, write a
file at its path, and rename it to the path of a folder of the snapshot, which then takes the
first folder's identifier.  `NoneIsNoId` says that the model's `None` is not an identifier, `NoneIsNoPath` that it is not a path.

**SyncScheduleProofs.**  `TypeCorrect`, `ActivationSeesRemoteHolds`,
`GuardedRunIsCurrentHolds` and `OnlySettingsForgetHolds`, for any number of edits,
revisions, failures, pauses, settings and requests.  The inductive invariant `Inv`
adds `ScanIsFresh` (a run's scan is never older than what is applied, because runs are
single-flight), `GuardFollowsCheck` (the guard is up exactly while the check applies,
but for a review) and `CheckAnswersRequest` (a check that no later request supersedes
has scanned what its request asked for).

**UploadProofs.**  `TypeCorrect`, `NoGapEver`, `AtMostOneFile` and `PromiseKept`, for
every size, chunk size, threshold and number of attempts, and any number of faults.  The
inductive invariant `Session` adds which session and offset the client has at each stage
(`Stages`), that answers under way tell no more than Drive holds (`Answers`), and that every
chunk and every file is of the one session the client uses (`OneSession`); the refinement then has one step per
action, and only `Post`, `Put`, `Completed`, `GiveUp` and `Cancel` are not stutters.

**VaultSetupProofs.**  `TypeCorrect`, `RegisteredAreComplete`, `NeverBlocked`,
`VaultsAreKept` and `VaultsStayApart`, for any number of devices and vaults.  The
invariants say what a creation has made when it is at each stage (`Built`), that while nothing is
disturbed at most one creation is under way and has loaded what is registered (`Alone`), and
that the files of a device are those of its base's vault unless a run was torn (`Tied`).

**CredentialsProofs.**  `TypeCorrect`, `TokensBelong`, `RetriesUseNewTokens` and `LatestWins`, for
any number of tasks, accounts, tokens, commands and faults.  `TokenOfItsGrant` says only
what is in the Keychain; the invariant follows every copy, in `TokenManager` and in each
task: its token was issued for its grant (`Grants`), a task that waits for an answer
has the copy it will save (`Shape`), and what Google accepts was issued for a live
grant (`Google`).  A token that is issued is one nothing refers to, so no copy
changes its meaning (`IssueEffect`).

`LatestWins` (`LatestCommandWins`) needs a second invariant, `Won`: unless a command raced with a copy,
every copy that a task or the refresh may still save is of the grant the latest command
left, with no other client's secret and, when the secret entered last is its own client's
or was removed, with that one (`IsCurrent`, `SecretFits`); the token a task asks for an address
with was issued for that grant; and while the credential of an earlier version has not
moved, its envelope is there and no task is about to clear it (`StillThere`).  A command
that finds no copy out leaves none that could undo it (`Replaced`).

**Only model-checked.**

* Everything about fairness (`Convergence`, `GuardLifted`, `CatchesUp`, `UploadEnds`,
  `DeviceSyncs`, `AccessRestored`): TLAPS does not reason about `ENABLED`.
* `ContentPreserved`, `ManifestUsable` and `FollowerUndisturbed`: they do not hold for
  every value of the constants.  Edits during a run, interruptions, folder renames and stale
  choices break them (section 4), and each run checks them where they should hold.
* Of `FollowerUndisturbed` the planner's part is proved (`FollowersOnlyFollow`), not that a
  device whose user does nothing has its base in its vault: a folder deleted by another device can
  stay behind for one synchronization when the files in it are moved to recovery before it
  (`executor.ts:543`), and a commit that is refused leaves new files with an old base.
* `ParentsMatchPaths` while users edit during a run: `FoldersStay` needs
  `EventsLeadToFiles`, and `MCSyncRaces` checks it without.
* `UserDeletesOnly`: the same for folders created again.

## 6. Not modelled

* `LeaseHandle.renew`, the recovery service, the device registry, saving to the encrypted
  envelope and changing its passphrase: nothing calls them.  Purges: the
  planner plans none.  Restore, modification times, the dry run of the executor.
* The transaction journal: it is written and never read back.
* Exclusions, the hash cache, the limits of the event queue, path validation: the
  models' paths are valid and files are read as they are.
* A Conflict Center that stays open while later plans are drawn up still shows the
  older conflicts; `SyncVault` shows those of the last plan.  "Keep both" is the plan as
  it is and is not offered in the runs.
* `SyncSchedule` leaves out the results that commands return to the user, the dry
  run, and `autoSyncAfterChanges = false`; a locked credential store, cellular
  connections and Drive errors are one action, `Fail`.  That a preview which joins a run
  leaves a full synchronization queued (`sync-controller.ts:62`) is in the model, but no
  property states it.
* When a renamed and modified file keeps its identifier (`event-queue.ts:10`), and the
  boundary of the mass-deletion limit (`planner.ts:640`) against a definition of its own.
* `VaultSetup` reduces the contents of a synchronization to the vaults they came from,
  and has one bundle at a time, which does not expire.  Deleting a vault's folders on
  Drive by hand is left out.
* `Credentials`: PKCE, the loopback server's HTTP, encryption, scopes, and rotation of
  the refresh token; a secret that is not the configured client's, entered by
  mistake, and a connect with no client ID configured, which fails at once; access tokens end early or on time, but a minute is not told from
  another.  A cancel before the loopback server listens is missed, and a connect that
  ends clears a newer attempt's session (`desktop-oauth.ts:50`): both are in the model,
  and no property says that they should not happen.
* Logging, notices, settings screens, encodings: presentation and I/O.

## 7. Plan

Done, in order: the commit protocol and its refinement; the planner; the executor on
several devices; scheduling; conflict resolution; uploads and their refinement; vault
setup and the rebuild of the index; credentials; the proofs of section 5, those of
`SyncVault` last.  What would come next:

1. **Answers of `SyncController.sync`**: what a preview or a command that joins a run
   is told, and the full run a preview leaves queued.
2. **Planner references**: the mass-deletion threshold against its definition over
   small vaults; when a rename keeps its identity.
3. **Proofs**: `ContentPreserved`, `ManifestUsable` and `FollowerUndisturbed` under
   assumptions on the constants that leave out what section 4 lists; that what `SyncVault`
   does to the manifest is `ManifestChain`'s steps.

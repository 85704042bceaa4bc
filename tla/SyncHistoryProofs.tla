------------------------- MODULE SyncHistoryProofs -------------------------
(***************************************************************************)
(* What one manifest has in common with the next, for any number of        *)
(* devices: nothing is forgotten, and the folders of entries stay theirs.  *)
(***************************************************************************)
EXTENDS SyncVaultProofs

------------------------------------------------------------------------------
(* Steps.  Edits, plans, operations, commits and ends are told apart by what *)
(* they do to base, pc and job of their device and to the manifest.          *)

Others(d) ==
  \A e \in Device \ {d} :
    /\ vault'[e] = vault[e]
    /\ queue'[e] = queue[e]
    /\ base'[e] = base[e]
    /\ pc'[e] = pc[e]
    /\ job'[e] = job[e]

\* The user does something.
Acts(d) ==
  /\ Edit(d) \/ Resolve(d)
  /\ base' = base /\ pc' = pc /\ job' = job /\ manifest' = manifest

\* Nothing is taken from the vault v, or changed in it.
Stays(v, w) == \A p \in DOMAIN v : p \in DOMAIN w /\ w[p] = v[p]

\* The synchronization ends.
Ends(d) ==
  /\ pc'[d] = "idle"
  /\ queue'[d] \in {queue[d], <<>>}
  /\ Stays(vault[d], vault'[d])
  /\ base'[d] \in {base[d], manifest}
  /\ manifest' = manifest

Scans(d) ==
  /\ pc'[d] = "scanned" /\ job'[d].snap = vault[d]
  /\ vault' = vault /\ queue' = queue

Starts(d) ==
  /\ pc[d] = "scanned" /\ pc'[d] = "executing"
  /\ HardBlocked(PlanOf(d)) = {}
  /\ job'[d].remote = manifest
  /\ job'[d].working = manifest
  /\ job'[d].todo = PlanOf(d)
  /\ vault' = vault /\ queue'[d] = <<>>

Plans(d) ==
  base' = base /\ manifest' = manifest /\ (Scans(d) \/ Starts(d))

\* The upload u gives its id an entry.
Uploads(d, u) ==
  LET entries == job[d].working.entries IN
    /\ u \in job[d].todo.uploads
    /\ \A o \in job[d].todo.uploads : ~UploadsFirst(o, u)
    /\ job'[d].todo.uploads = job[d].todo.uploads \ {u}
    /\ job'[d].todo.remoteMoves = job[d].todo.remoteMoves
    /\ job'[d].working.tombs = job[d].working.tombs
    /\ job'[d].working.entries =
         [i \in {u.id} |-> [path |-> u.path, data |-> u.data,
                            file |-> Len(drive) + 1,
                            parent |-> FindParent(entries, u.path)]] ++ entries

\* The move m changes the path and the parent of an entry, and the paths of
\* those below it, or there is nothing left to move.
Moves(d, m) ==
  LET entries == job[d].working.entries IN
    /\ m \in job[d].todo.remoteMoves
    /\ job[d].todo.uploads = {}
    /\ job'[d].todo.uploads = job[d].todo.uploads
    /\ job'[d].todo.remoteMoves = job[d].todo.remoteMoves \ {m}
    /\ job'[d].working.tombs = job[d].working.tombs
    /\ \/ job'[d].working.entries = entries
       \/ /\ m.id \in DOMAIN entries
          /\ job'[d].working.entries =
               MovedEntries(entries, m.id, m.to, FindParent(entries, m.to))

\* Something is done that no entry tells of.
Transfers(d) ==
  /\ job'[d].working = job[d].working
  /\ job'[d].todo.uploads = job[d].todo.uploads
  /\ job'[d].todo.remoteMoves = job[d].todo.remoteMoves

\* An operation is carried out; others are left to do.
Operates(d) ==
  /\ base' = base /\ manifest' = manifest
  /\ pc[d] = "executing" /\ pc' = pc
  /\ \/ vault' = vault /\ queue' = queue
     \/ LocalMove(d) \/ SetAside(d) \/ Install(d) \/ RecoverLocal(d)
  /\ job'[d].todo.localMoves \subseteq job[d].todo.localMoves
  /\ job'[d].remote = job[d].remote
  /\ DOMAIN job[d].working.entries \subseteq DOMAIN job'[d].working.entries
  /\ \/ Transfers(d)
     \/ \E u : Uploads(d, u)
     \/ \E m : Moves(d, m)

Commits(d) ==
  /\ pc[d] = "executing" /\ pc'[d] = "committed"
  /\ base' = base /\ job' = job /\ vault' = vault /\ queue' = queue
  /\ manifest' = NextManifest(d)
  /\ job[d].remote = manifest

Saves(d) ==
  /\ pc[d] = "committed" /\ pc'[d] = "retiring"
  /\ base'[d] = NextManifest(d)
  /\ manifest' = manifest /\ vault' = vault /\ queue' = queue

Retires(d) ==
  /\ pc[d] = "retiring" /\ pc' = pc /\ base' = base /\ manifest' = manifest
  /\ vault' = vault /\ queue' = queue

LEMMA EditActs ==
  ASSUME VariablesOK, NEW d \in Device, Edit(d) \/ Resolve(d)
  PROVE  Others(d) /\ Acts(d)
<1> DEFINE Leaves == base' = base /\ pc' = pc /\ job' = job /\ manifest' = manifest
<1>1. /\ DOMAIN vault = Device /\ DOMAIN queue = Device
  BY DEF VariablesOK
<1>2. ASSUME NEW p, NEW c, Write(d, p, c) PROVE Others(d) /\ Leaves
  BY <1>1, <1>2 DEF Write, MayEdit, Others, remoteVars
<1>3. ASSUME NEW p, MakeFolder(d, p) PROVE Others(d) /\ Leaves
  BY <1>1, <1>3 DEF MakeFolder, MayEdit, Others, remoteVars
<1>4. ASSUME NEW p, Delete(d, p) PROVE Others(d) /\ Leaves
  BY <1>1, <1>4 DEF Delete, MayEdit, Others, remoteVars
<1>5. ASSUME NEW p, NEW q, Rename(d, p, q) PROVE Others(d) /\ Leaves
  BY <1>1, <1>5 DEF Rename, MayEdit, Others, remoteVars
<1>6. ASSUME NEW c, NEW choice, Choose(d, c, choice) PROVE Others(d) /\ Leaves
  BY <1>1, <1>6 DEF Choose, Others, remoteVars, localVars
<1>7. ASSUME NEW c, NEW text, Merge(d, c, text) PROVE Others(d) /\ Leaves
  BY <1>1, <1>7 DEF Merge, MayEdit, Others, remoteVars
<1>8. Others(d) /\ Leaves
  <2> HIDE DEF Leaves
  <2> QED BY <1>2, <1>3, <1>4, <1>5, <1>6, <1>7 DEF Edit, Resolve
<1> QED BY <1>8, Zenon DEF Acts

LEMMA EndEnds ==
  ASSUME VariablesOK, NEW d \in Device,
         \/ UpToDate(d) \/ Blocked(d) \/ Preview(d) \/ Rebuild(d)
         \/ Abort(d) \/ LocalMoveFails(d) \/ Finish(d)
         \/ Interrupt(d) \/ Crash(d)
  PROVE  Others(d) /\ Ends(d)
<1>1. /\ DOMAIN vault = Device /\ DOMAIN queue = Device /\ DOMAIN base = Device
      /\ DOMAIN pc = Device /\ DOMAIN job = Device
  BY DEF VariablesOK
<1>3. vault' = vault => Stays(vault[d], vault'[d])
  BY DEF Stays
<1>2. /\ Idle(d)
      /\ manifest' = manifest
      /\ \A e \in Device \ {d} : vault'[e] = vault[e]
      /\ Stays(vault[d], vault'[d])
      /\ queue' = queue \/ queue' = [queue EXCEPT ![d] = <<>>]
      /\ base' = base \/ base' = [base EXCEPT ![d] = manifest]
  <2>1. CASE UpToDate(d)
    BY <1>3, <2>1 DEF UpToDate, remoteVars
  <2>2. CASE Blocked(d)
    BY <1>3, <2>2 DEF Blocked, remoteVars
  <2>3. CASE Preview(d)
    BY <1>3, <2>3 DEF Preview, remoteVars, localVars
  <2>4. CASE Rebuild(d)
    BY <1>3, <2>4 DEF Rebuild, remoteVars, localVars
  <2>5. CASE Abort(d)
    BY <1>3, <2>5 DEF Abort, remoteVars, localVars
  <2>6. CASE LocalMoveFails(d)
    <3>1. /\ \A e \in Device \ {d} : vault'[e] = vault[e]
          /\ Stays(vault[d], vault'[d])
      <4>1. PICK m : vault' = IF FileInWay(vault[d], m.to) THEN vault
                         ELSE [vault EXCEPT ![d] = EnsureParent(vault[d], m.to)]
        BY <2>6 DEF LocalMoveFails
      <4>2. \A p : Stays(vault[d], EnsureParent(vault[d], p))
        BY DEF Stays, EnsureParent, EnsureFolders, ++
      <4> QED BY <1>1, <1>3, <4>1, <4>2
    <3> QED BY <2>6, <3>1 DEF LocalMoveFails, remoteVars
  <2>7. CASE Finish(d)
    BY <1>3, <2>7 DEF Finish, remoteVars, localVars
  <2>8. CASE Interrupt(d)
    <3>1. /\ \A e \in Device \ {d} : vault'[e] = vault[e]
          /\ Stays(vault[d], vault'[d])
      BY <1>1, <1>3, <2>8 DEF Interrupt, Stays, ++
    <3> QED BY <2>8, <3>1 DEF Interrupt, remoteVars
  <2>9. CASE Crash(d)
    BY <1>3, <2>9 DEF Crash, remoteVars
  <2> QED BY <2>1, <2>2, <2>3, <2>4, <2>5, <2>6, <2>7, <2>8, <2>9
<1> QED BY <1>1, <1>2 DEF Others, Ends, Idle

LEMMA PlanPlans ==
  ASSUME VariablesOK, NEW d \in Device, Scan(d) \/ Start(d)
  PROVE  Others(d) /\ Plans(d)
<1>1. /\ DOMAIN vault = Device /\ DOMAIN queue = Device
      /\ DOMAIN pc = Device /\ DOMAIN job = Device
  BY DEF VariablesOK
<1>2. CASE Scan(d)
  BY <1>1, <1>2 DEF Scan, Others, Plans, Scans, localVars, remoteVars
<1>3. CASE Start(d)
  <2> DEFINE new == [plan |-> PlanOf(d), todo |-> PlanOf(d),
                     snap |-> job[d].snap, remote |-> manifest,
                     working |-> manifest, staged |-> {}, aside |-> Nothing,
                     replaced |-> {}, trashed |-> {}]
  <2>1. /\ pc' = [pc EXCEPT ![d] = "executing"]
        /\ job' = [job EXCEPT ![d] = new]
        /\ queue' = [queue EXCEPT ![d] = <<>>]
        /\ vault' = vault /\ base' = base /\ manifest' = manifest
        /\ pc[d] = "scanned" /\ HardBlocked(PlanOf(d)) = {}
    BY <1>3, Zenon DEF Start, remoteVars
  <2>2. new.remote = manifest /\ new.working = manifest /\ new.todo = PlanOf(d)
    OBVIOUS
  <2> HIDE DEF new
  <2> QED BY <1>1, <2>1, <2>2 DEF Others, Plans, Starts
<1> QED BY <1>2, <1>3

\* d carries out an operation that puts no entry into its working manifest.
LEMMA SideOperates ==
  ASSUME IInv, NEW d \in Device,
         \/ StageDownload(d) \/ LocalMove(d) \/ SetAside(d) \/ Install(d)
         \/ RecoverLocal(d) \/ RecoverRemote(d)
  PROVE  Others(d) /\ Operates(d)
<1> DEFINE j == job[d]
           k == job'[d]
<1>1. /\ pc[d] = "executing"
      /\ base' = base /\ manifest' = manifest /\ pc' = pc
  BY DEF StageDownload, LocalMove, SetAside, Install, RecoverLocal,
         RecoverRemote, DoneUploads, DoneStaging, DoneLocalMoves,
         DoneInstalling, DoneRemoteMoves, Executing, localVars, remoteVars
<1>2. /\ DOMAIN vault = Device /\ DOMAIN queue = Device /\ DOMAIN job = Device
      /\ ExecutionOK(d)
  BY <1>1 DEF IInv, VariablesOK, JobOK
<1>3. /\ DOMAIN j = {"plan", "todo", "snap", "remote", "working", "staged",
                     "aside", "replaced", "trashed"}
      /\ DOMAIN j.todo = DOMAIN NoOperations
  BY <1>2 DEF ExecutionOK
<1>4. /\ \A e \in Device \ {d} : vault'[e] = vault[e] /\ job'[e] = job[e]
      /\ k.remote = j.remote /\ k.working = j.working
      /\ k.todo.uploads = j.todo.uploads
      /\ k.todo.remoteMoves = j.todo.remoteMoves
      /\ k.todo.localMoves \subseteq j.todo.localMoves
      /\ \A e \in Device \ {d} : queue'[e] = queue[e]
      /\ \/ vault' = vault /\ queue' = queue
         \/ LocalMove(d) \/ SetAside(d) \/ Install(d) \/ RecoverLocal(d)
  <2> HIDE DEF j
  <2>1. CASE StageDownload(d)
    <3>1. PICK o, s : job' = [job EXCEPT ![d].todo.downloads = @ \ {o},
                                         ![d].staged = @ \cup {s}]
      BY <2>1 DEF StageDownload
    <3>2. vault' = vault /\ queue' = queue
      BY <2>1 DEF StageDownload, localVars
    <3> QED BY <1>2, <1>3, <3>1, <3>2 DEF j, NoOperations
  <2>2. CASE LocalMove(d)
    <3>1. PICK m : job' = [job EXCEPT ![d].todo.localMoves = @ \ {m}]
      BY <2>2, ZenonT(60) DEF LocalMove
    <3>2. \E v : vault' = vault \/ vault' = [vault EXCEPT ![d] = v]
      BY <2>2, ZenonT(60) DEF LocalMove
    <3>3. \E q : queue' = queue \/ queue' = [queue EXCEPT ![d] = q]
      BY <2>2, ZenonT(60) DEF LocalMove
    <3> QED BY <1>2, <1>3, <2>2, <3>1, <3>2, <3>3 DEF j, NoOperations
  <2>3. CASE SetAside(d)
    <3>1. PICK x : job' = [job EXCEPT ![d].aside = x]
      BY <2>3, ZenonT(60) DEF SetAside
    <3>2. \E v : vault' = [vault EXCEPT ![d] = v]
      BY <2>3, ZenonT(60) DEF SetAside
    <3>3. \E q : queue' = [queue EXCEPT ![d] = q]
      BY <2>3, ZenonT(60) DEF SetAside
    <3> QED BY <1>2, <1>3, <2>3, <3>1, <3>2, <3>3 DEF j, NoOperations
  <2>4. CASE Install(d)
    <3>1. PICK s : job' = [job EXCEPT ![d].staged = @ \ {s},
                                      ![d].aside = Nothing]
      BY <2>4, ZenonT(60) DEF Install
    <3>2. \E v : vault' = [vault EXCEPT ![d] = v]
      BY <2>4, ZenonT(60) DEF Install
    <3>3. queue' = queue
      BY <2>4 DEF Install
    <3> QED BY <1>2, <1>3, <2>4, <3>1, <3>2, <3>3 DEF j, NoOperations
  <2>5. CASE RecoverLocal(d)
    <3>1. PICK r, t : job' = [job EXCEPT ![d].todo.recoveries = @ \ {r},
                                         ![d].trashed = @ \cup t]
      BY <2>5, ZenonT(60) DEF RecoverLocal
    <3>2. \E v : vault' = [vault EXCEPT ![d] = v]
      BY <2>5, ZenonT(60) DEF RecoverLocal
    <3>3. \E q : queue' = [queue EXCEPT ![d] = q]
      BY <2>5, ZenonT(60) DEF RecoverLocal
    <3> QED BY <1>2, <1>3, <2>5, <3>1, <3>2, <3>3 DEF j, NoOperations
  <2>6. CASE RecoverRemote(d)
    <3>1. PICK r : job' = [job EXCEPT ![d].todo.recoveries = @ \ {r}]
      BY <2>6, ZenonT(60) DEF RecoverRemote
    <3>2. vault' = vault /\ queue' = queue
      BY <2>6 DEF RecoverRemote, localVars
    <3> QED BY <1>2, <1>3, <3>1, <3>2 DEF j, NoOperations
  <2> QED BY <2>1, <2>2, <2>3, <2>4, <2>5, <2>6
<1> QED BY <1>1, <1>4 DEF Others, Operates, Transfers

\* d creates an object on Drive.
LEMMA UploadOperates ==
  ASSUME IInv, NEW d \in Device, ExecuteUpload(d)
  PROVE  Others(d) /\ Operates(d)
<1> DEFINE j == job[d]
           k == job'[d]
           entries == j.working.entries
           Entry(u) == [path |-> u.path, data |-> u.data,
                        file |-> Len(drive) + 1,
                        parent |-> FindParent(entries, u.path)]
           After(u) == [i \in {u.id} |-> Entry(u)] ++ entries
<1>1. /\ pc[d] = "executing" /\ vault' = vault
      /\ base' = base /\ manifest' = manifest /\ pc' = pc /\ queue' = queue
  BY DEF ExecuteUpload, Executing, localVars
<1>2. DOMAIN job = Device /\ ExecutionOK(d)
  BY <1>1 DEF IInv, VariablesOK, JobOK
<1>3. /\ DOMAIN j = {"plan", "todo", "snap", "remote", "working", "staged",
                     "aside", "replaced", "trashed"}
      /\ DOMAIN j.todo = DOMAIN NoOperations
      /\ j.working = [rev |-> j.working.rev, entries |-> j.working.entries,
                      tombs |-> j.working.tombs]
  BY <1>2 DEF ExecutionOK, IsManifest
<1>4. PICK u \in j.todo.uploads :
        (\A o \in j.todo.uploads : ~UploadsFirst(o, u)) /\ CreateObject(d, u)
  BY DEF ExecuteUpload
<1> DEFINE after == After(u)
<1>5. DOMAIN entries \subseteq DOMAIN after
  BY DEF ++
<1>6. /\ \A e \in Device \ {d} : job'[e] = job[e]
      /\ k.remote = j.remote
      /\ k.todo.uploads = j.todo.uploads \ {u}
      /\ k.todo.remoteMoves = j.todo.remoteMoves
      /\ k.todo.localMoves = j.todo.localMoves
      /\ k.working.tombs = j.working.tombs
      /\ k.working.entries = after
  <2> HIDE DEF j, after
  <2> PICK x : job' = [job EXCEPT ![d].todo.uploads = @ \ {u},
                                  ![d].working.entries = after,
                                  ![d].replaced = x]
    BY <1>4, Zenon DEF CreateObject, j, after
  <2> QED BY <1>2, <1>3 DEF j, NoOperations
<1>7. Uploads(d, u)
  BY <1>4, <1>6, Zenon DEF Uploads
<1> HIDE DEF after
<1> QED BY <1>1, <1>5, <1>6, <1>7 DEF Others, Operates

\* d moves an object on Drive.
LEMMA MoveOperates ==
  ASSUME IInv, NEW d \in Device, RemoteMove(d)
  PROVE  Others(d) /\ Operates(d)
<1> DEFINE j == job[d]
           k == job'[d]
           entries == j.working.entries
           Moved(m) == MovedEntries(entries, m.id, m.to, FindParent(entries, m.to))
           After(m) == IF MoveNeeded(d, m) THEN Moved(m) ELSE entries
<1>1. /\ pc[d] = "executing" /\ vault' = vault /\ j.todo.uploads = {}
      /\ base' = base /\ manifest' = manifest /\ pc' = pc /\ queue' = queue
  BY DEF RemoteMove, DoneInstalling, DoneLocalMoves, Executing, localVars
<1>2. DOMAIN job = Device /\ ExecutionOK(d)
  BY <1>1 DEF IInv, VariablesOK, JobOK
<1>3. /\ DOMAIN j = {"plan", "todo", "snap", "remote", "working", "staged",
                     "aside", "replaced", "trashed"}
      /\ DOMAIN j.todo = DOMAIN NoOperations
      /\ j.working = [rev |-> j.working.rev, entries |-> j.working.entries,
                      tombs |-> j.working.tombs]
  BY <1>2 DEF ExecutionOK, IsManifest
<1>4. PICK m \in j.todo.remoteMoves :
        job' = [job EXCEPT ![d].todo.remoteMoves = @ \ {m},
                           ![d].working.entries = After(m)]
  BY Zenon DEF RemoteMove
<1> DEFINE after == After(m)
<1>5. /\ \A e \in Device \ {d} : job'[e] = job[e]
      /\ k.remote = j.remote
      /\ k.todo.uploads = j.todo.uploads
      /\ k.todo.remoteMoves = j.todo.remoteMoves \ {m}
      /\ k.todo.localMoves = j.todo.localMoves
      /\ k.working.tombs = j.working.tombs
      /\ k.working.entries = after
  <2>1. job' = [job EXCEPT ![d].todo.remoteMoves = @ \ {m},
                           ![d].working.entries = after]
    BY <1>4
  <2> HIDE DEF j, after
  <2> QED BY <1>2, <1>3, <2>1 DEF j, NoOperations
<1>6. DOMAIN after = DOMAIN entries
  <2>1. DOMAIN Moved(m) = DOMAIN entries
    BY DEF MovedEntries
  <2> HIDE DEF Moved
  <2> QED BY <2>1
<1>7. \/ after = entries
      \/ m.id \in DOMAIN entries /\ after = Moved(m)
  BY DEF MoveNeeded
<1> HIDE DEF After
<1>8. Moves(d, m)
  BY <1>1, <1>4, <1>5, <1>7 DEF Moves
<1> QED BY <1>1, <1>5, <1>6, <1>8 DEF Others, Operates

\* What is committed replaces what the plan was made for.
LEMMA CommitCommits ==
  ASSUME IInv, NEW d \in Device, Commit(d)
  PROVE  Others(d) /\ Commits(d)
<1>1. /\ pc[d] = "executing" /\ pc' = [pc EXCEPT ![d] = "committed"]
      /\ base' = base /\ job' = job /\ vault' = vault /\ queue' = queue
      /\ manifest' = NextManifest(d)
      /\ manifest.rev = job[d].remote.rev
  BY DEF Commit, DoneRecoveries, DoneRemoteMoves, DoneInstalling,
         DoneLocalMoves, Executing, localVars
<1>2. DOMAIN pc = Device /\ ExecutionOK(d)
  BY <1>1 DEF IInv, VariablesOK, JobOK
<1>3. job[d].remote = manifest
  BY <1>1, <1>2 DEF ExecutionOK, Published
<1> QED BY <1>1, <1>2, <1>3 DEF Others, Commits

LEMMA SaveSaves ==
  ASSUME VariablesOK, NEW d \in Device, SaveState(d)
  PROVE  Others(d) /\ Saves(d)
<1>1. DOMAIN pc = Device /\ DOMAIN base = Device
  BY DEF VariablesOK
<1> QED BY <1>1 DEF SaveState, Others, Saves, localVars, remoteVars

LEMMA RetireRetires ==
  ASSUME VariablesOK, NEW d \in Device, Retire(d)
  PROVE  Others(d) /\ Retires(d)
<1>1. DOMAIN job = Device
  BY DEF VariablesOK
<1>2. PICK r : job' = [job EXCEPT ![d].replaced = @ \ {r}]
  BY Zenon DEF Retire
<1>3. /\ pc[d] = "retiring" /\ pc' = pc /\ base' = base /\ manifest' = manifest
      /\ vault' = vault /\ queue' = queue
  BY DEF Retire, localVars
<1> QED BY <1>1, <1>2, <1>3 DEF Others, Retires

\* These are all the steps there are.
LEMMA StepKinds ==
  ASSUME IInv, [Next]_vars
  PROVE  \/ UNCHANGED vars
         \/ \E d \in Device :
              /\ Others(d)
              /\ \/ Acts(d) \/ Ends(d) \/ Plans(d) \/ Operates(d)
                 \/ Commits(d) \/ Saves(d) \/ Retires(d)
<1> SUFFICES ASSUME NEW d \in Device,
                    \/ Edit(d) \/ Preview(d) \/ Rebuild(d) \/ Resolve(d)
                    \/ Sync(d) \/ Interrupt(d) \/ Crash(d)
             PROVE  /\ Others(d)
                    /\ \/ Acts(d) \/ Ends(d) \/ Plans(d) \/ Operates(d)
                       \/ Commits(d) \/ Saves(d) \/ Retires(d)
  BY DEF Next
<1>1. VariablesOK
  BY DEF IInv
<1>2. CASE Edit(d) \/ Resolve(d)
  BY <1>1, <1>2, EditActs
<1>3. CASE Preview(d) \/ Rebuild(d) \/ Interrupt(d) \/ Crash(d)
  BY <1>1, <1>3, EndEnds
<1>4. CASE Sync(d)
  <2>1. CASE Scan(d) \/ Start(d)
    BY <1>1, <2>1, PlanPlans
  <2>2. CASE UpToDate(d) \/ Blocked(d) \/ LocalMoveFails(d) \/ Finish(d)
    BY <1>1, <2>2, EndEnds
  <2>3. CASE \/ LocalChanged(d) \/ DownloadDenied(d) \/ InstallFails(d)
             \/ MoveDenied(d) \/ RecoveryDenied(d) \/ CommitRefused(d)
    <3>1. Abort(d)
      BY <2>3 DEF LocalChanged, DownloadDenied, InstallFails, MoveDenied,
                  RecoveryDenied, CommitRefused
    <3> QED BY <1>1, <3>1, EndEnds
  <2>4. CASE \/ StageDownload(d) \/ LocalMove(d) \/ SetAside(d) \/ Install(d)
             \/ RecoverLocal(d) \/ RecoverRemote(d)
    BY <2>4, SideOperates
  <2>5. CASE \/ ExecuteUpload(d) \/ RemoteMove(d) \/ Commit(d) \/ SaveState(d)
             \/ Retire(d)
    BY <1>1, <2>5, UploadOperates, MoveOperates, CommitCommits, SaveSaves,
       RetireRetires
  <2> QED BY <1>4, <2>1, <2>2, <2>3, <2>4, <2>5 DEF Sync, Execute
<1> QED BY <1>2, <1>3, <1>4

------------------------------------------------------------------------------
(* Nothing is forgotten *)

Known(m) == DOMAIN m.entries \subseteq Ids(manifest)

\* What a device has seen of the manifest is in it still, what it is going to
\* commit has everything it read, and is newer than its base.
HistoryOK(d) ==
  /\ Known(base[d])
  /\ pc[d] \in {"executing", "committed"} =>
       /\ DOMAIN job[d].remote.entries \subseteq DOMAIN job[d].working.entries
       /\ base[d].rev <= job[d].remote.rev
  /\ pc[d] = "committed" => Known(NextManifest(d))

HInv == IInv /\ \A d \in Device : HistoryOK(d)

\* A commit turns entries into tombstones, adds entries and drops nothing.
LEMMA IdsOfNextManifest ==
  ASSUME NEW d, ExecutionOK(d),
         DOMAIN job[d].remote.entries \subseteq DOMAIN job[d].working.entries
  PROVE  Ids(job[d].remote) \subseteq Ids(NextManifest(d))
<1> DEFINE m == job[d].working
           dead == job[d].plan.tombstones \cap DOMAIN m.entries
           n == NextManifest(d)
<1>1. m.tombs = job[d].remote.tombs
  BY DEF ExecutionOK
<1>2. /\ DOMAIN n.entries = DOMAIN m.entries \ dead
      /\ DOMAIN n.tombs = dead \cup DOMAIN m.tombs
  BY DEF NextManifest, Restrict, ++
<1> HIDE DEF n, dead
<1> QED BY <1>1, <1>2 DEF Ids, n

LEMMA CommitKeepsIds ==
  ASSUME HInv, NEW d \in Device, Commits(d)
  PROVE  Ids(manifest) \subseteq Ids(manifest')
<1>1. ExecutionOK(d) /\ HistoryOK(d)
  BY DEF HInv, IInv, JobOK, Commits
<1> QED BY <1>1, IdsOfNextManifest DEF Commits, HistoryOK

LEMMA StepKeepsIds ==
  ASSUME HInv, [Next]_vars
  PROVE  Ids(manifest) \subseteq Ids(manifest')
<1>1. CASE UNCHANGED vars
  BY <1>1 DEF vars, remoteVars
<1>2. ASSUME NEW d \in Device,
             Acts(d) \/ Ends(d) \/ Plans(d) \/ Operates(d) \/ Saves(d) \/ Retires(d)
      PROVE  manifest' = manifest
  BY <1>2 DEF Acts, Ends, Plans, Operates, Saves, Retires
<1> QED BY <1>1, <1>2, StepKinds, CommitKeepsIds DEF HInv

LEMMA HistoryStays ==
  ASSUME NEW d, HistoryOK(d), Ids(manifest) \subseteq Ids(manifest'),
         base'[d] = base[d], pc'[d] = pc[d], job'[d] = job[d]
  PROVE  HistoryOK(d)'
<1>1. NextManifest(d)' = NextManifest(d)
  BY DEF NextManifest
<1> QED BY <1>1 DEF HistoryOK, Known

\* One case for each kind of step, for the device that takes it.
LEMMA HistoryOfStep ==
  ASSUME HInv, [Next]_vars, NEW d \in Device,
         \/ Acts(d) \/ Ends(d) \/ Plans(d) \/ Operates(d)
         \/ Commits(d) \/ Saves(d) \/ Retires(d)
  PROVE  HistoryOK(d)' /\ base[d].rev <= base'[d].rev
<1>1. Ids(manifest) \subseteq Ids(manifest')
  BY StepKeepsIds
<1>2. /\ HistoryOK(d) /\ JobOK(d) /\ IsManifest(base[d]) /\ Published(base[d])
      /\ IsManifest(manifest) /\ VariablesOK
  BY DEF HInv, IInv, LocalOK, ManifestOK
<1>3. base[d].rev \in Nat /\ manifest.rev \in Nat
  BY <1>2 DEF IsManifest
<1>4. CASE Acts(d)
  BY <1>1, <1>2, <1>3, <1>4, HistoryStays DEF Acts
<1>5. CASE Ends(d)
  <2>1. Known(base[d])'
    BY <1>2, <1>5 DEF Ends, HistoryOK, Known, Ids
  <2>2. base[d].rev <= base'[d].rev
    BY <1>2, <1>3, <1>5 DEF Ends, Published
  <2> QED BY <1>5, <2>1, <2>2 DEF Ends, HistoryOK
<1>6. CASE Plans(d)
  <2>1. Known(base[d])'
    BY <1>2, <1>6 DEF Plans, HistoryOK, Known
  <2> QED BY <1>2, <1>3, <1>6, <2>1 DEF Plans, Scans, Starts, HistoryOK, Published
<1>7. CASE Operates(d)
  <2>1. Known(base[d])'
    BY <1>2, <1>7 DEF Operates, HistoryOK, Known
  <2> QED BY <1>2, <1>3, <1>7, <2>1 DEF Operates, HistoryOK
<1>8. CASE Commits(d)
  <2>1. Known(base[d])'
    BY <1>1, <1>2, <1>8 DEF Commits, HistoryOK, Known
  <2>2. NextManifest(d)' = manifest'
    BY <1>8 DEF Commits, NextManifest
  <2>3. Known(NextManifest(d))'
    BY <2>2 DEF Known, Ids
  <2> QED BY <1>2, <1>3, <1>8, <2>1, <2>3 DEF Commits, HistoryOK
<1>9. CASE Saves(d)
  <2>1. ExecutionOK(d)
    BY <1>2, <1>9 DEF JobOK, Saves
  <2>2. NextManifest(d).rev = job[d].remote.rev + 1 /\ job[d].remote.rev \in Nat
    BY <2>1, NextManifestOK DEF ExecutionOK, IsManifest
  <2>3. base[d].rev <= job[d].remote.rev
    BY <1>2, <1>9 DEF HistoryOK, Saves
  <2>4. Known(base[d])'
    BY <1>2, <1>9 DEF Saves, HistoryOK, Known
  <2> QED BY <1>3, <1>9, <2>2, <2>3, <2>4 DEF Saves, HistoryOK
<1>10. CASE Retires(d)
  <2>1. Known(base[d])'
    BY <1>2, <1>10 DEF Retires, HistoryOK, Known
  <2> QED BY <1>2, <1>3, <1>10, <2>1 DEF Retires, HistoryOK
<1> QED BY <1>4, <1>5, <1>6, <1>7, <1>8, <1>9, <1>10

LEMMA HistoryStep ==
  ASSUME HInv, [Next]_vars
  PROVE  /\ HInv'
         /\ Ids(manifest) \subseteq Ids(manifest')
         /\ \A d \in Device : base[d].rev <= base'[d].rev
<1>1. IInv' /\ Ids(manifest) \subseteq Ids(manifest')
  BY StepKeepsInvariant, StepKeepsIds DEF HInv
<1>2. ASSUME NEW e \in Device, base'[e] = base[e], pc'[e] = pc[e], job'[e] = job[e]
      PROVE  HistoryOK(e)' /\ base[e].rev <= base'[e].rev
  <2>1. HistoryOK(e) /\ base[e].rev \in Nat
    BY DEF HInv, IInv, LocalOK, IsManifest
  <2> QED BY <1>1, <1>2, <2>1, HistoryStays
<1>3. CASE UNCHANGED vars
  BY <1>1, <1>2, <1>3 DEF vars, HInv
<1>4. ASSUME NEW d \in Device, Others(d),
             \/ Acts(d) \/ Ends(d) \/ Plans(d) \/ Operates(d)
             \/ Commits(d) \/ Saves(d) \/ Retires(d)
      PROVE  HInv' /\ \A e \in Device : base[e].rev <= base'[e].rev
  <2>1. ASSUME NEW e \in Device
        PROVE  HistoryOK(e)' /\ base[e].rev <= base'[e].rev
    <3>1. CASE e = d
      BY <1>4, <3>1, HistoryOfStep
    <3>2. CASE e # d
      BY <1>2, <1>4, <3>2 DEF Others
    <3> QED BY <3>1, <3>2
  <2> QED BY <1>1, <2>1 DEF HInv
<1> QED BY <1>1, <1>3, <1>4, StepKinds DEF HInv

LEMMA HistoryStarts ==
  ASSUME Init
  PROVE  HInv
<1>1. IInv
  BY InitOK
<1>2. /\ manifest = InitialManifest
      /\ \A d \in Device : base[d] = InitialManifest /\ pc[d] = "idle"
  BY DEF Init
<1>3. \A d \in Device : HistoryOK(d)
  BY <1>2 DEF HistoryOK, Known, Ids
<1> QED BY <1>1, <1>3 DEF HInv

LEMMA HistoryInvariant == Spec => []HInv
<1>1. HInv /\ [Next]_vars => HInv'
  BY HistoryStep
<1> QED BY <1>1, HistoryStarts, PTL DEF Spec

\* Whatever a device missed while it planned, uploaded and moved: what it
\* publishes has every id that was published before, as an entry or as deleted,
\* and what it takes for its base is never older than its base.
THEOREM HistoryOnlyGrows == Spec => HistoryGoesOn
<1> DEFINE GoesOn == /\ Ids(manifest) \subseteq Ids(manifest')
                     /\ \A d \in Device : base[d].rev <= base'[d].rev
<1>1. HInv /\ [Next]_vars => [GoesOn]_<<manifest, base>>
  BY HistoryStep
<1> QED BY <1>1, HistoryInvariant, PTL DEF Spec, HistoryGoesOn

\* A commit replaces the revision it was planned for, so that what devices take
\* for the base was published under its revision.  What a base lists and the
\* manifest does not was deleted by somebody, and the planner is right to take it
\* for deleted.
THEOREM OneHistory == Spec => []BaseIsPublished
<1>1. HInv => BaseIsPublished
  BY DEF HInv, HistoryOK, Known, IInv, LocalOK, Published, BaseIsPublished
<1> QED BY <1>1, HistoryInvariant, PTL

------------------------------------------------------------------------------
(* Folders.  While nobody renames a folder, its path is in its id, so every  *)
(* manifest has it where every other one does, and what was planned below it *)
(* finds it there, or finds its tombstone.                                   *)

\* The id that the folder p is given.
IsFolderId(i, p) == \E n \in Nat : i = <<"l", p, Folder, n>>

AtHome(r) ==
  \A i \in DOMAIN r :
    /\ r[i].data = Folder => IsFolderId(i, r[i].path)
    /\ \A p : IsFolderId(i, p) => r[i].data = Folder /\ r[i].path = p

\* Entries are below the entries of their folders, unless these are deleted.
Placed(entries, tombs) ==
  \A i \in DOMAIN entries :
    LET e == entries[i] IN
      Len(e.path) > 1 =>
        \/ e.parent \in DOMAIN entries /\ IsFolderId(e.parent, Front(e.path))
        \/ \E t \in DOMAIN tombs : IsFolderId(t, Front(e.path))

FoldersOK(m) ==
  /\ AtHome(m.entries)
  /\ AtHome(m.tombs)
  /\ Placed(m.entries, m.tombs)

\* What is put at p has an entry to be below, or gets one from an upload, unless
\* the folder is deleted.
Grounded(m, uploads, p) ==
  Len(p) > 1 =>
    \E i \in Ids(m) \cup {u.id : u \in uploads} : IsFolderId(i, Front(p))

IsFileId(i) == \A p : ~IsFolderId(i, p)

IsHomeUpload(u) ==
  IF u.data = Folder THEN IsFolderId(u.id, u.path) ELSE IsFileId(u.id)

\* Uploads give no folder another id, only files move, and what goes to Drive
\* has its folder there.
OutgoingOK(m, uploads, moves) ==
  /\ \A u \in uploads : IsHomeUpload(u) /\ Grounded(m, uploads, u.path)
  /\ \A o \in moves : IsFileId(o.id) /\ Grounded(m, uploads, o.to)

\* No id is None.
NoneIsNoId == \A p, n : None # <<"l", p, Folder, n>>

LEMMA FolderIds ==
  /\ \A i, p, q : IsFolderId(i, p) /\ IsFolderId(i, q) => p = q
  /\ \A i, p : IsFileId(ConflictId(i, p))
  /\ \A p, data, n : data # Folder => IsFileId(<<"l", p, data, n>>)
  /\ \A p, n : n \in Nat => IsFolderId(<<"l", p, Folder, n>>, p)
BY DEF IsFolderId, IsFileId, ConflictId

LEMMA FrontOfPath ==
  ASSUME NEW p, IsPath(p), Len(p) > 1
  PROVE  /\ IsPath(Front(p))
         /\ Len(Front(p)) = Len(p) - 1
         /\ \A i \in 1..(Len(p) - 1) : Front(p)[i] = p[i]
         /\ Front(p) \in FoldersOf(p)
<1> DEFINE n == Len(p) - 1
<1>1. n \in 1..Len(p) /\ n \in 1..n
  BY PathIsSequence
<1>2. Front(p) = SubSeq(p, 1, n)
  BY DEF Front
<1>3. FoldersOf(p) = {SubSeq(p, 1, i) : i \in 1..n}
  BY DEF FoldersOf
<1> HIDE DEF n
<1>4. /\ IsPath(Front(p)) /\ Len(Front(p)) = n
      /\ \A i \in 1..n : Front(p)[i] = p[i]
  BY <1>1, <1>2, Beginning
<1> QED BY <1>1, <1>2, <1>3, <1>4 DEF n

\* In the same folder.
Beside(p, q) == Len(p) = Len(q) /\ (Len(p) > 1 => Front(p) = Front(q))

\* A conflict copy is beside the file.
LEMMA ConflictPathBeside ==
  ASSUME NEW p, IsPath(p), NEW id, NEW time
  PROVE  Beside(ConflictPath(p, id, time), p)
<1> DEFINE q == ConflictPath(p, id, time)
           x == <<p[Len(p)], id, time>>
<1>1. IsPath(q)
  BY ConflictPathIsPath
<1>2. q = [p EXCEPT ![Len(p)] = x]
  BY DEF ConflictPath
<1>3. /\ Len(p) \in Nat \ {0} /\ DOMAIN p = 1..Len(p)
      /\ Len(q) \in Nat \ {0} /\ DOMAIN q = 1..Len(q)
  BY <1>1, PathIsSequence
<1> HIDE DEF q, x
<1>4. DOMAIN q = DOMAIN p /\ \A i \in DOMAIN p : i # Len(p) => q[i] = p[i]
  BY <1>2
<1>5. Len(q) = Len(p)
  <2> DEFINE m == Len(p)
             n == Len(q)
  <2>1. m \in Nat \ {0} /\ n \in Nat \ {0} /\ 1..m = 1..n
    BY <1>3, <1>4
  <2> HIDE DEF m, n
  <2>2. m \in 1..n /\ n \in 1..m
    BY <2>1
  <2>3. m = n
    BY <2>1, <2>2
  <2> QED BY <2>3 DEF m, n
<1>6. ASSUME Len(p) > 1 PROVE Front(q) = Front(p)
  <2>1. /\ IsPath(Front(q)) /\ Len(Front(q)) = Len(p) - 1
        /\ \A i \in 1..(Len(p) - 1) : Front(q)[i] = q[i]
    BY <1>1, <1>5, <1>6, FrontOfPath
  <2>2. /\ IsPath(Front(p)) /\ Len(Front(p)) = Len(p) - 1
        /\ \A i \in 1..(Len(p) - 1) : Front(p)[i] = p[i]
    BY <1>6, FrontOfPath
  <2>3. \A i \in 1..(Len(p) - 1) : q[i] = p[i]
    BY <1>3, <1>4
  <2> HIDE DEF Front
  <2>4. \A i \in 1..Len(Front(q)) : Front(q)[i] = Front(p)[i]
    BY <2>1, <2>2, <2>3
  <2> QED BY <2>1, <2>2, <2>4, SamePath
<1> QED BY <1>5, <1>6 DEF Beside, q

LEMMA GroundedBeside ==
  ASSUME NEW m, NEW uploads, NEW p, NEW q, Beside(p, q), Grounded(m, uploads, q)
  PROVE  Grounded(m, uploads, p)
BY Zenon DEF Beside, Grounded

\* What a choice adds to what goes to Drive, and what it takes away.
LEMMA ResolvedUploads ==
  ASSUME NEW plan, NEW choice
  PROVE  LET result == ApplyConflictResolutions(plan, choice) IN
           /\ result.blocked = plan.blocked
           /\ result.remoteMoves \subseteq plan.remoteMoves
           /\ \A u \in result.uploads :
                \/ u \in plan.uploads
                \/ \E c \in plan.conflicts : /\ Decided(c, choice)
                                             /\ u = Upload(c.id, c.local)
           /\ \A u \in plan.uploads :
                u \in result.uploads \/ \E i, p : u.id = ConflictId(i, p)
<1> DEFINE Settled == {c \in plan.conflicts : Decided(c, choice)}
           P(c) == Preserving(plan, c)
           D(c) == Deciding(c, choice[c.id])
           dropped == MergePlans({P(c) : c \in Settled})
           added == MergePlans({D(c) : c \in Settled})
           result == ApplyConflictResolutions(plan, choice)
<1>1. result = [k \in DOMAIN NoOperations |->
                  (plan[k] \ dropped[k]) \cup added[k]]
  BY DEF ApplyConflictResolutions
<1>2. {"blocked", "remoteMoves", "uploads"} \subseteq DOMAIN NoOperations
  BY DEF NoOperations
<1>3. \A k \in DOMAIN NoOperations : /\ dropped[k] = UNION {P(c)[k] : c \in Settled}
                                     /\ added[k] = UNION {D(c)[k] : c \in Settled}
  <2> HIDE DEF Settled, P, D
  <2> QED BY DEF MergePlans
<1>4. \A c : /\ P(c).blocked = {}
             /\ P(c).uploads \subseteq {u \in plan.uploads : u.id = ConflictId(c.id, c.path)}
  BY DEF Preserving, NoOperations
<1>5. \A c : /\ D(c).blocked = {} /\ D(c).remoteMoves = {}
             /\ D(c).uploads \subseteq {Upload(c.id, c.local)}
  BY DEF Deciding, NoOperations
<1>6. /\ result.blocked = (plan.blocked \ dropped.blocked) \cup added.blocked
      /\ result.remoteMoves =
           (plan.remoteMoves \ dropped.remoteMoves) \cup added.remoteMoves
      /\ result.uploads = (plan.uploads \ dropped.uploads) \cup added.uploads
  <2> HIDE DEF dropped, added, result
  <2> QED BY <1>1, <1>2
<1>7. /\ dropped.blocked = UNION {P(c).blocked : c \in Settled}
      /\ dropped.uploads = UNION {P(c).uploads : c \in Settled}
      /\ added.blocked = UNION {D(c).blocked : c \in Settled}
      /\ added.remoteMoves = UNION {D(c).remoteMoves : c \in Settled}
      /\ added.uploads = UNION {D(c).uploads : c \in Settled}
  <2> HIDE DEF dropped, added, result, P, D, Settled
  <2> QED BY <1>2, <1>3
<1>8. \A c \in Settled : c \in plan.conflicts /\ Decided(c, choice)
  OBVIOUS
<1> HIDE DEF dropped, added, result, P, D, Settled
<1>9. /\ dropped.blocked = {} /\ added.blocked = {} /\ added.remoteMoves = {}
      /\ \A u \in dropped.uploads : \E i, p : u.id = ConflictId(i, p)
      /\ \A u \in added.uploads :
           \E c \in plan.conflicts : Decided(c, choice) /\ u = Upload(c.id, c.local)
  BY <1>4, <1>5, <1>7, <1>8
<1> QED BY <1>6, <1>9 DEF result

------------------------------------------------------------------------------
(* A plan that is let through sends no folder to another place. *)

\* What a device plans on, when its plan is let through.
PlansOn(old, m, snap, events) ==
  /\ IsManifest(old) /\ Valid(old) /\ AtHome(old.entries)
  /\ IsManifest(m) /\ FoldersOK(m)
  /\ DOMAIN old.entries \subseteq Ids(m)
  /\ IsSnapshot(snap)
  /\ IsList(events) /\ FilesOnly(snap, events)
  /\ HardBlocked(PlanSync(old, m, snap, events)) = {}

\* The objects of the vault.
LEMMA LocalObjects ==
  ASSUME NEW old, NEW m, NEW snap, NEW events, PlansOn(old, m, snap, events)
  PROVE  LET local == AssignIds(old.entries, snap, events) IN
           /\ \A id \in DOMAIN local :
                /\ local[id].path \in DOMAIN snap
                /\ local[id].data = snap[local[id].path]
                /\ local[id] # Nothing
                /\ \/ id \in DOMAIN old.entries
                   \/ /\ id \notin DOMAIN old.entries
                      /\ \E k \in Nat :
                           id = <<"l", local[id].path, local[id].data, k>>
           /\ \A path \in DOMAIN snap :
                \E id \in DOMAIN local : local[id].path = path
           /\ \A i, j \in DOMAIN local : local[i].path = local[j].path => i = j
<1> DEFINE local == AssignIds(old.entries, snap, events)
           entries == old.entries
<1>1. IsFiniteSet(DOMAIN entries) /\ DistinctPaths(entries)
  BY DEF PlansOn, IsManifest, IsEntries, Valid, DistinctPaths
<1>2. IsFiniteSet(DOMAIN snap)
  BY DEF PlansOn, IsSnapshot
<1>3. Len(events) \in Nat /\ DOMAIN events = 1..Len(events)
  BY ListIsSequence DEF PlansOn
<1>4. FilesOnly(snap, events)
  BY DEF PlansOn
<1> HIDE DEF entries
<1>5. /\ \A id \in DOMAIN local :
           /\ local[id].path \in DOMAIN snap
           /\ local[id] = [path |-> local[id].path,
                           data |-> snap[local[id].path]]
      /\ \A path \in DOMAIN snap :
           \E id \in DOMAIN local : local[id].path = path
      /\ \A i, j \in DOMAIN local : local[i].path = local[j].path => i = j
  BY <1>1, <1>2, <1>3, EveryPathHasOneId DEF entries
<1>6. \A id \in DOMAIN local :
        \/ id \in DOMAIN entries
        \/ /\ id \notin DOMAIN entries
           /\ \E k \in Nat : id = <<"l", local[id].path, local[id].data, k>>
  BY <1>1, <1>2, <1>3, <1>4, FoldersKeepTheirIds DEF entries
<1> HIDE DEF local
<1>7. \A id \in DOMAIN local : local[id].data = snap[local[id].path]
                               /\ local[id] # Nothing
  BY <1>5 DEF Nothing
<1> QED BY <1>5, <1>6, <1>7 DEF local, entries

\* What is planned for an object of the vault, given that nothing is blocked.
LEMMA ObjectUnblocked ==
  ASSUME NEW old, NEW m, NEW snap, NEW events, PlansOn(old, m, snap, events),
         NEW id
  PROVE  LET local == AssignIds(old.entries, snap, events)
             b == ObjectOf(old.entries, id)
             l == ObjectOf(local, id)
             r == ObjectOf(m.entries, id)
             t == id \in DOMAIN m.tombs
             p == ObjectPlan(old, m, local, id)
         IN /\ ~(old.rev > m.rev)
            /\ (id \in PlannedIds(old, m, local) => p.blocked = {})
            /\ p = PlanObject(id, b, l, r, t, m.rev)
<1> DEFINE local == AssignIds(old.entries, snap, events)
<1>1. /\ ~(old.rev > m.rev)
      /\ \A i \in PlannedIds(old, m, local) : ObjectPlan(old, m, local, i).blocked = {}
  BY UnblockedPlan DEF PlansOn
<1> HIDE DEF local
<1>2. (id \in PlannedIds(old, m, local)) => ObjectPlan(old, m, local, id).blocked = {}
  BY <1>1
<1>3. ObjectPlan(old, m, local, id) =
        PlanObject(id, ObjectOf(old.entries, id), ObjectOf(local, id),
                   ObjectOf(m.entries, id), id \in DOMAIN m.tombs, m.rev)
  BY DEF ObjectPlan
<1> QED BY <1>1, <1>2, <1>3 DEF local

LEMMA EntriesAreSomething ==
  ASSUME NEW m, IsManifest(m), NEW id \in DOMAIN m.entries
  PROVE  /\ m.entries[id] # Nothing /\ IsPath(m.entries[id].path)
         /\ ObjectOf(m.entries, id) = m.entries[id]
<1>1. IsEntry(m.entries[id])
  BY DEF IsManifest, IsEntries
<1>2. m.entries[id] # Nothing
  <2> DEFINE e == m.entries[id]
  <2>1. e = [path |-> e.path, data |-> e.data, file |-> e.file, parent |-> e.parent]
    BY <1>1 DEF IsEntry
  <2> HIDE DEF e
  <2>2. e # Nothing
    BY <2>1 DEF Nothing
  <2> QED BY <2>2 DEF e
<1> QED BY <1>1, <1>2 DEF IsEntry, ObjectOf

\* The folders of the vault: their ids are theirs, in every manifest that has
\* them, and new ones are uploaded.
LEMMA LocalFolders ==
  ASSUME NEW old, NEW m, NEW snap, NEW events, PlansOn(old, m, snap, events),
         NEW id \in DOMAIN AssignIds(old.entries, snap, events),
         IsFolder(AssignIds(old.entries, snap, events)[id])
  PROVE  LET local == AssignIds(old.entries, snap, events)
             plan == PlanSync(old, m, snap, events)
         IN /\ IsFolderId(id, local[id].path)
            /\ id \in DOMAIN old.entries =>
                 old.entries[id].path = local[id].path
            /\ \/ id \in Ids(m)
               \/ Upload(id, local[id]) \in plan.uploads
<1> DEFINE local == AssignIds(old.entries, snap, events)
           plan == PlanSync(old, m, snap, events)
           b == ObjectOf(old.entries, id)
           l == ObjectOf(local, id)
           r == ObjectOf(m.entries, id)
           t == id \in DOMAIN m.tombs
           p == PlanObject(id, b, l, r, t, m.rev)
<1>1. /\ local[id] # Nothing
      /\ \/ id \in DOMAIN old.entries
         \/ /\ id \notin DOMAIN old.entries
            /\ \E k \in Nat : id = <<"l", local[id].path, local[id].data, k>>
  BY LocalObjects
<1>2. l = local[id]
  BY DEF ObjectOf
<1>3. id \in PlannedIds(old, m, local)
  BY DEF PlannedIds
<1>4. ~(old.rev > m.rev) /\ p.blocked = {} /\ ObjectPlan(old, m, local, id) = p
  BY <1>3, ObjectUnblocked
<1>5. t \in BOOLEAN
  OBVIOUS
<1>6. /\ b = Nothing \/ IsFolder(b)
      /\ b = Nothing /\ r = Nothing /\ ~t => Upload(id, l) \in p.uploads
  <2> HIDE DEF b, l, r, t, local
  <2> QED BY <1>1, <1>2, <1>4, <1>5, FoldersAgree DEF local
<1>7. p.uploads \subseteq plan.uploads
  <2>1. "uploads" \in DOMAIN NoOperations
    BY DEF NoOperations
  <2> HIDE DEF p, plan
  <2> QED BY <1>3, <1>4, <2>1, PlanIsComplete DEF plan
<1>8. CASE id \in DOMAIN old.entries
  <2>1. b = old.entries[id] /\ b # Nothing
    BY <1>8, EntriesAreSomething DEF PlansOn
  <2>2. IsFolderId(id, old.entries[id].path)
    BY <1>6, <1>8, <2>1 DEF IsFolder, PlansOn, AtHome
  <2>3. old.entries[id].path = local[id].path
    <3> DEFINE entries == old.entries
    <3>1. IsFiniteSet(DOMAIN entries) /\ DistinctPaths(entries)
      BY DEF PlansOn, IsManifest, IsEntries, Valid, DistinctPaths
    <3>2. IsFiniteSet(DOMAIN snap)
      BY DEF PlansOn, IsSnapshot
    <3>3. Len(events) \in Nat /\ DOMAIN events = 1..Len(events)
      BY ListIsSequence DEF PlansOn
    <3>4. FilesOnly(snap, events)
      BY DEF PlansOn
    <3> HIDE DEF entries
    <3>5. \/ IsFolder(local[id]) => entries[id].path = local[id].path
          \/ id \notin DOMAIN entries
      BY <3>1, <3>2, <3>3, <3>4, FoldersKeepTheirIds DEF entries
    <3> QED BY <1>8, <3>5 DEF entries
  <2>4. id \in Ids(m)
    BY <1>8 DEF PlansOn
  <2> QED BY <2>2, <2>3, <2>4
<1>9. CASE id \notin DOMAIN old.entries
  <2>1. b = Nothing
    BY <1>9 DEF ObjectOf
  <2>2. IsFolderId(id, local[id].path)
    BY <1>1, <1>9, FolderIds DEF IsFolder
  <2>3. id \in Ids(m) \/ (r = Nothing /\ ~t)
    BY DEF Ids, ObjectOf
  <2> HIDE DEF b, l, r, t, p, local, plan
  <2>4. id \in Ids(m) \/ Upload(id, local[id]) \in plan.uploads
    BY <1>2, <1>6, <1>7, <2>1, <2>3
  <2> QED BY <1>9, <2>2, <2>4 DEF local, plan
<1> QED BY <1>8, <1>9

\* The id of a file that was not a folder is not that of a folder.
LEMMA LocalFiles ==
  ASSUME NEW old, NEW m, NEW snap, NEW events, PlansOn(old, m, snap, events),
         NEW id \in DOMAIN AssignIds(old.entries, snap, events),
         ~IsFolder(AssignIds(old.entries, snap, events)[id]),
         \/ id \notin DOMAIN old.entries
         \/ ~TypeChanged(old.entries[id],
                         AssignIds(old.entries, snap, events)[id])
  PROVE  IsFileId(id)
<1> DEFINE local == AssignIds(old.entries, snap, events)
<1>1. /\ local[id] # Nothing
      /\ \/ id \in DOMAIN old.entries
         \/ /\ id \notin DOMAIN old.entries
            /\ \E k \in Nat : id = <<"l", local[id].path, local[id].data, k>>
  BY LocalObjects
<1> HIDE DEF local
<1>2. CASE id \in DOMAIN old.entries
  <2>1. old.entries[id].data # Folder
    BY <1>1, <1>2 DEF TypeChanged, IsFolder, local
  <2> QED BY <1>2, <2>1 DEF PlansOn, AtHome, IsFileId
<1>3. CASE id \notin DOMAIN old.entries
  <2>1. local[id].data # Folder
    BY DEF IsFolder, local
  <2> QED BY <1>1, <1>3, <2>1, FolderIds
<1> QED BY <1>2, <1>3

\* Every object keeps the id of a folder or of a file when it is uploaded.
LEMMA PlannedUploads ==
  ASSUME NEW old, NEW m, NEW snap, NEW events, PlansOn(old, m, snap, events),
         NEW u \in PlanSync(old, m, snap, events).uploads
  PROVE  IsHomeUpload(u) /\ u.path \in DOMAIN snap
<1> DEFINE local == AssignIds(old.entries, snap, events)
           B(i) == ObjectOf(old.entries, i)
           L(i) == ObjectOf(local, i)
<1>1. PICK id : u \in ObjectPlan(old, m, local, id).uploads
  <2>1. "uploads" \in DOMAIN NoOperations \ {"conflicts", "blocked"}
    BY DEF NoOperations
  <2>2. ~(old.rev > m.rev)
    BY ObjectUnblocked
  <2> QED BY <2>1, <2>2, PlanIsSound
<1>2. UploadsLocal(ObjectPlan(old, m, local, id), id, B(id), L(id))
  BY ObjectOperations
<1>3. /\ L(id) # Nothing
      /\ u.path = L(id).path /\ u.data = L(id).data
      /\ \/ u.id = id /\ (B(id) = Nothing \/ ~TypeChanged(B(id), L(id)))
         \/ u.id = ConflictId(id, L(id).path) /\ ~IsFolder(L(id))
  <2> HIDE DEF local, B, L
  <2> QED BY <1>1, <1>2 DEF UploadsLocal
<1>4. id \in DOMAIN local /\ L(id) = local[id]
  BY <1>3 DEF ObjectOf
<1>5. local[id].path \in DOMAIN snap
  BY <1>4, LocalObjects
<1>6. id \notin DOMAIN old.entries \/ (B(id) = old.entries[id] /\ B(id) # Nothing)
  BY EntriesAreSomething DEF PlansOn
<1>7. CASE IsFolder(local[id])
  <2>1. IsFolderId(id, local[id].path)
    BY <1>4, <1>7, LocalFolders
  <2> HIDE DEF local, B, L
  <2>2. u.id = id /\ u.data = Folder
    BY <1>3, <1>4, <1>7 DEF IsFolder
  <2> QED BY <1>3, <1>4, <1>5, <2>1, <2>2 DEF IsHomeUpload
<1> HIDE DEF B, L
<1>8. CASE ~IsFolder(local[id])
  <2>1. ASSUME u.id = ConflictId(id, L(id).path)
        PROVE  IsFileId(u.id)
    <3>1. IsFileId(ConflictId(id, L(id).path))
      BY FolderIds, Zenon
    <3> QED BY <2>1, <3>1
  <2>2. ASSUME u.id = id, B(id) = Nothing \/ ~TypeChanged(B(id), L(id))
        PROVE  IsFileId(u.id)
    <3>1. \/ id \notin DOMAIN old.entries
          \/ ~TypeChanged(old.entries[id], local[id])
      <4> HIDE DEF local
      <4> QED BY <1>4, <1>6, <2>2
    <3> QED BY <1>4, <1>8, <2>2, <3>1, LocalFiles
  <2> HIDE DEF local
  <2>3. IsFileId(u.id)
    BY <1>3, <2>1, <2>2
  <2>4. u.data # Folder
    BY <1>3, <1>4, <1>8 DEF IsFolder
  <2> QED BY <1>3, <1>4, <1>5, <2>3, <2>4 DEF IsHomeUpload
<1> QED BY <1>7, <1>8

\* So it is when a user decides to keep the local side of a conflict.
LEMMA DecidedUploads ==
  ASSUME NEW old, NEW m, NEW snap, NEW events, PlansOn(old, m, snap, events),
         NEW choice,
         NEW c \in PlanSync(old, m, snap, events).conflicts, Decided(c, choice)
  PROVE  IsHomeUpload(Upload(c.id, c.local)) /\ c.local.path \in DOMAIN snap
<1> DEFINE local == AssignIds(old.entries, snap, events)
           B(i) == ObjectOf(old.entries, i)
           L(i) == ObjectOf(local, i)
           R(i) == ObjectOf(m.entries, i)
<1>1. c.local # Nothing /\ c.kind \notin {"path-collision", "type-collision"}
  BY DEF Decided, Resolvable
<1>2. PICK id \in PlannedIds(old, m, local) :
        c \in ObjectPlan(old, m, local, id).conflicts
  <2>1. ~(old.rev > m.rev)
    BY ObjectUnblocked
  <2> QED BY <1>1, <2>1, PlanIsSound
<1>3. /\ ShowsSides(ObjectPlan(old, m, local, id), id, B(id), L(id), R(id))
      /\ ObjectPlan(old, m, local, id).blocked = {}
  <2>1. ObjectPlan(old, m, local, id).blocked = {}
    BY <1>2, ObjectUnblocked
  <2>2. ShowsSides(ObjectPlan(old, m, local, id), id, B(id), L(id), R(id))
    BY ObjectOperations
  <2> QED BY <2>1, <2>2
<1>4. /\ c.id = id /\ c.local = L(id)
      /\ B(id) = Nothing \/ ~TypeChanged(B(id), L(id))
      /\ ~IsFolder(L(id)) /\ L(id) # Nothing
  <2> HIDE DEF local, B, L, R
  <2> QED BY <1>1, <1>2, <1>3 DEF ShowsSides
<1>5. id \in DOMAIN local /\ L(id) = local[id]
  BY <1>4 DEF ObjectOf
<1>6. local[id].path \in DOMAIN snap
  BY <1>5, LocalObjects
<1>7. id \notin DOMAIN old.entries \/ (B(id) = old.entries[id] /\ B(id) # Nothing)
  BY EntriesAreSomething DEF PlansOn
<1>8. IsFileId(id)
  <2>1. ~IsFolder(local[id])
    BY <1>4, <1>5
  <2>2. \/ id \notin DOMAIN old.entries
        \/ ~TypeChanged(old.entries[id], local[id])
    <3> HIDE DEF local, B, L, R
    <3> QED BY <1>4, <1>5, <1>7
  <2> QED BY <1>5, <2>1, <2>2, LocalFiles
<1> HIDE DEF local, B, L, R
<1> QED BY <1>4, <1>5, <1>6, <1>8 DEF Upload, IsHomeUpload, IsFolder

\* Only files move, to a place beside one of the vault or of the manifest.
LEMMA PlannedMoves ==
  ASSUME NEW old, NEW m, NEW snap, NEW events, PlansOn(old, m, snap, events),
         NEW o \in PlanSync(old, m, snap, events).remoteMoves
  PROVE  /\ IsFileId(o.id)
         /\ \E q : /\ Beside(o.to, q)
                   /\ \/ q \in DOMAIN snap
                      \/ \E i \in DOMAIN m.entries : q = m.entries[i].path
<1> DEFINE local == AssignIds(old.entries, snap, events)
           B(i) == ObjectOf(old.entries, i)
           L(i) == ObjectOf(local, i)
           R(i) == ObjectOf(m.entries, i)
<1>1. PICK id : o \in ObjectPlan(old, m, local, id).remoteMoves
  <2>1. "remoteMoves" \in DOMAIN NoOperations \ {"conflicts", "blocked"}
    BY DEF NoOperations
  <2>2. ~(old.rev > m.rev)
    BY ObjectUnblocked
  <2> QED BY <2>1, <2>2, PlanIsSound
<1>2. MovesRemote(ObjectPlan(old, m, local, id), id, B(id), L(id), R(id), m.rev)
  BY ObjectOperations
<1>3. /\ o.id = id
      /\ R(id) # Nothing
      /\ \/ /\ ~IsFolder(R(id))
            /\ \E x \in {L(id), R(id)} \ {Nothing} :
                 o.to = ConflictPath(x.path, id, m.rev)
         \/ /\ B(id) # Nothing /\ L(id) # Nothing
            /\ IsFolder(L(id)) = IsFolder(R(id))
            /\ L(id).path # B(id).path
            /\ o.to = L(id).path
  <2> HIDE DEF local, B, L, R
  <2> QED BY <1>1, <1>2 DEF MovesRemote
<1>4. id \in DOMAIN m.entries /\ R(id) = m.entries[id] /\ IsPath(R(id).path)
  <2>1. id \in DOMAIN m.entries
    BY <1>3 DEF ObjectOf
  <2> QED BY <2>1, EntriesAreSomething DEF PlansOn
<1>5. L(id) # Nothing => /\ id \in DOMAIN local /\ L(id) = local[id]
                         /\ L(id).path \in DOMAIN snap /\ IsPath(L(id).path)
  <2>1. L(id) # Nothing => id \in DOMAIN local /\ L(id) = local[id]
    BY DEF ObjectOf
  <2>2. \A i \in DOMAIN local : local[i].path \in DOMAIN snap
    BY LocalObjects
  <2>3. \A p \in DOMAIN snap : IsPath(p)
    BY DEF PlansOn, IsSnapshot, IsTree
  <2> QED BY <2>1, <2>2, <2>3
<1>6. ~IsFolder(R(id))
  <2> SUFFICES ASSUME IsFolder(R(id)) PROVE FALSE
    OBVIOUS
  <2>1. /\ B(id) # Nothing /\ L(id) # Nothing /\ IsFolder(L(id))
        /\ L(id).path # B(id).path
    BY <1>3
  <2>2. id \in DOMAIN old.entries /\ B(id) = old.entries[id]
    BY <2>1 DEF ObjectOf
  <2>3. old.entries[id].path = local[id].path
    <3>1. id \in DOMAIN local /\ IsFolder(local[id])
      BY <1>5, <2>1
    <3> QED BY <2>2, <3>1, LocalFolders
  <2> HIDE DEF local, B, L, R
  <2> QED BY <1>5, <2>1, <2>2, <2>3
<1>7. IsFileId(id)
  <2>1. m.entries[id].data # Folder
    BY <1>4, <1>6 DEF IsFolder
  <2> QED BY <1>4, <2>1 DEF PlansOn, FoldersOK, AtHome, IsFileId
<1>8. \E q : /\ Beside(o.to, q)
             /\ \/ q \in DOMAIN snap
                \/ \E i \in DOMAIN m.entries : q = m.entries[i].path
  <2>1. \A q : Beside(q, q)
    BY DEF Beside
  <2>2. ASSUME NEW x \in {L(id), R(id)} \ {Nothing},
               o.to = ConflictPath(x.path, id, m.rev)
        PROVE  /\ Beside(o.to, x.path)
               /\ \/ x.path \in DOMAIN snap
                  \/ \E i \in DOMAIN m.entries : x.path = m.entries[i].path
    <3> HIDE DEF local, B, L, R
    <3>1. IsPath(x.path) /\ (x.path \in DOMAIN snap \/ x = R(id))
      BY <1>4, <1>5
    <3> QED BY <1>4, <2>2, <3>1, ConflictPathBeside
  <2> HIDE DEF local, B, L, R
  <2> QED BY <1>3, <1>5, <2>1, <2>2
<1> QED BY <1>3, <1>7, <1>8

\* The folder of whatever is in the vault is in the manifest, or goes there.
LEMMA VaultGrounded ==
  ASSUME NEW old, NEW m, NEW snap, NEW events, PlansOn(old, m, snap, events),
         NEW p \in DOMAIN snap
  PROVE  Grounded(m, PlanSync(old, m, snap, events).uploads, p)
<1> DEFINE local == AssignIds(old.entries, snap, events)
           plan == PlanSync(old, m, snap, events)
           f == Front(p)
<1> SUFFICES ASSUME Len(p) > 1
             PROVE  \E i \in Ids(m) \cup {u.id : u \in plan.uploads} :
                      IsFolderId(i, f)
  BY DEF Grounded
<1>1. f \in DOMAIN snap /\ snap[f] = Folder
  <2>1. IsPath(p) /\ \A q \in FoldersOf(p) : q \in DOMAIN snap /\ snap[q] = Folder
    BY DEF PlansOn, IsSnapshot, IsTree
  <2> QED BY <2>1, FrontOfPath
<1> HIDE DEF f
<1>2. /\ \A i \in DOMAIN local : local[i].data = snap[local[i].path]
      /\ \A q \in DOMAIN snap : \E i \in DOMAIN local : local[i].path = q
  <2> HIDE DEF plan
  <2>1. ASSUME NEW i \in DOMAIN local
        PROVE  local[i].data = snap[local[i].path]
    BY LocalObjects, SMTT(60)
  <2>2. ASSUME NEW q \in DOMAIN snap
        PROVE  \E i \in DOMAIN local : local[i].path = q
    BY LocalObjects, SMTT(60)
  <2> QED BY <2>1, <2>2
<1> HIDE DEF local
<1>3. PICK id \in DOMAIN local : local[id].path = f
  BY <1>1, <1>2
<1>4. local[id].data = Folder
  BY <1>1, <1>2, <1>3
<1>5. /\ IsFolderId(id, f)
      /\ id \in Ids(m) \/ Upload(id, local[id]) \in plan.uploads
  BY <1>3, <1>4, LocalFolders DEF IsFolder, local
<1> HIDE DEF plan
<1>6. Upload(id, local[id]).id = id
  BY DEF Upload
<1> QED BY <1>5, <1>6

\* What a device that lets its plan through is going to do on Drive.
LEMMA PlannedOutgoing ==
  ASSUME NEW old, NEW m, NEW snap, NEW events, PlansOn(old, m, snap, events),
         NEW choice
  PROVE  LET result == ApplyConflictResolutions(
                         PlanSync(old, m, snap, events), choice)
         IN OutgoingOK(m, result.uploads, result.remoteMoves)
<1> DEFINE plan == PlanSync(old, m, snap, events)
           result == ApplyConflictResolutions(plan, choice)
<1>1. /\ \A u \in plan.uploads : IsHomeUpload(u) /\ u.path \in DOMAIN snap
      /\ \A c \in plan.conflicts : Decided(c, choice) =>
           IsHomeUpload(Upload(c.id, c.local)) /\ c.local.path \in DOMAIN snap
      /\ \A p \in DOMAIN snap : Grounded(m, plan.uploads, p)
      /\ \A o \in plan.remoteMoves :
           /\ IsFileId(o.id)
           /\ \E q : /\ Beside(o.to, q)
                     /\ \/ q \in DOMAIN snap
                        \/ \E i \in DOMAIN m.entries : q = m.entries[i].path
  BY PlannedUploads, DecidedUploads, VaultGrounded, PlannedMoves
<1> HIDE DEF plan
<1>2. /\ result.remoteMoves \subseteq plan.remoteMoves
      /\ \A u \in result.uploads :
           \/ u \in plan.uploads
           \/ \E c \in plan.conflicts : /\ Decided(c, choice)
                                        /\ u = Upload(c.id, c.local)
      /\ \A u \in plan.uploads :
           u \in result.uploads \/ \E i, p : u.id = ConflictId(i, p)
  BY ResolvedUploads
<1> HIDE DEF result
<1>3. \A u \in plan.uploads : \A p : IsFolderId(u.id, p) => u \in result.uploads
  BY <1>2, FolderIds DEF IsFileId
<1>4. ASSUME NEW p \in DOMAIN snap, Len(p) > 1
      PROVE  \E i \in Ids(m) \cup {u.id : u \in result.uploads} :
               IsFolderId(i, Front(p))
  <2>1. PICK i \in Ids(m) \cup {u.id : u \in plan.uploads} :
               IsFolderId(i, Front(p))
    BY <1>1, <1>4 DEF Grounded
  <2> QED BY <1>3, <2>1
<1>5. \A i \in DOMAIN m.entries : Grounded(m, result.uploads, m.entries[i].path)
  BY DEF PlansOn, FoldersOK, Placed, Grounded, Ids
<1>6. \A u \in result.uploads : IsHomeUpload(u) /\ u.path \in DOMAIN snap
  BY <1>1, <1>2 DEF Upload
<1>7. ASSUME NEW o \in result.remoteMoves
      PROVE  IsFileId(o.id) /\ Grounded(m, result.uploads, o.to)
  <2>1. PICK q : /\ Beside(o.to, q)
                 /\ \/ q \in DOMAIN snap
                    \/ \E i \in DOMAIN m.entries : q = m.entries[i].path
    BY <1>1, <1>2
  <2>2. Grounded(m, result.uploads, q)
    BY <1>4, <1>5, <2>1 DEF Grounded
  <2> QED BY <1>1, <1>2, <2>1, <2>2, GroundedBeside
<1>8. OutgoingOK(m, result.uploads, result.remoteMoves)
  BY <1>4, <1>6, <1>7 DEF OutgoingOK, Grounded
<1> QED BY <1>8 DEF result, plan

\* The files that moves in the vault v take away are there, one for each move.
MovesFiles(v, moves) ==
  \A m \in moves : m.from # None =>
    /\ m.from \in DOMAIN v /\ v[m.from] # Folder
    /\ \A n \in moves : n.from = m.from => n = m

\* What a choice adds to what moves in the vault.
LEMMA ResolvedLocalMoves ==
  ASSUME NEW plan, NEW choice,
         NEW m \in ApplyConflictResolutions(plan, choice).localMoves
  PROVE  \/ m \in plan.localMoves
         \/ \E c \in plan.conflicts :
              /\ Decided(c, choice)
              /\ m = Move(c.id, c.local.path, c.remote.path, c.local)
<1> DEFINE Settled == {c \in plan.conflicts : Decided(c, choice)}
           D(c) == Deciding(c, choice[c.id])
           dropped == MergePlans({Preserving(plan, c) : c \in Settled})
           added == MergePlans({D(c) : c \in Settled})
<1>1. ApplyConflictResolutions(plan, choice) =
        [k \in DOMAIN NoOperations |-> (plan[k] \ dropped[k]) \cup added[k]]
  BY DEF ApplyConflictResolutions
<1>2. "localMoves" \in DOMAIN NoOperations
  BY DEF NoOperations
<1>3. added.localMoves = UNION {D(c).localMoves : c \in Settled}
  <2>1. added["localMoves"] = UNION {D(c)["localMoves"] : c \in Settled}
    <3> HIDE DEF Settled, D
    <3> QED BY <1>2 DEF MergePlans
  <2> QED BY <2>1
<1>4. \A c : D(c).localMoves \subseteq
               {Move(c.id, c.local.path, c.remote.path, c.local)}
  BY DEF Deciding, NoOperations
<1>5. \A c \in Settled : c \in plan.conflicts /\ Decided(c, choice)
  OBVIOUS
<1> HIDE DEF dropped, added, D, Settled
<1>6. m \in plan.localMoves \/ m \in added.localMoves
  BY <1>1, <1>2
<1> QED BY <1>3, <1>4, <1>5, <1>6

\* A move in the vault starts at the place of a file, and there is no other for
\* its id.
LEMMA LocalMoveOrigin ==
  ASSUME NEW old, NEW m, NEW snap, NEW events, PlansOn(old, m, snap, events),
         NEW choice,
         NEW o \in ApplyConflictResolutions(
                     PlanSync(old, m, snap, events), choice).localMoves,
         o.from # None
  PROVE  LET local == AssignIds(old.entries, snap, events)
             p == ObjectPlan(old, m, local, o.id)
         IN /\ o.id \in DOMAIN local
            /\ o.from = local[o.id].path
            /\ ~IsFolder(local[o.id])
            /\ \/ o \in p.localMoves
               \/ \E c \in p.conflicts :
                    o = Move(c.id, c.local.path, c.remote.path, c.local)
<1> DEFINE local == AssignIds(old.entries, snap, events)
           plan == PlanSync(old, m, snap, events)
           P(i) == ObjectPlan(old, m, local, i)
           B(i) == ObjectOf(old.entries, i)
           L(i) == ObjectOf(local, i)
           R(i) == ObjectOf(m.entries, i)
<1>1. ~(old.rev > m.rev)
  BY ObjectUnblocked
<1>2. \A i : /\ ShowsSides(P(i), i, B(i), L(i), R(i))
             /\ MovesLocal(P(i), i, B(i), L(i), R(i))
  BY ObjectOperations
<1>3. \A i : L(i) # Nothing => i \in DOMAIN local /\ L(i) = local[i]
  BY DEF ObjectOf
<1>4. CASE o \in plan.localMoves
  <2>1. PICK id : o \in P(id).localMoves
    <3>1. "localMoves" \in DOMAIN NoOperations \ {"conflicts", "blocked"}
      BY DEF NoOperations
    <3> QED BY <1>1, <1>4, <3>1, PlanIsSound
  <2> HIDE DEF P, B, L, R, local
  <2>2. /\ o.id = id
        /\ L(id) # Nothing /\ R(id) # Nothing
        /\ o.from = L(id).path /\ R(id).path # L(id).path
    BY <1>2, <2>1 DEF MovesLocal
  <2>3. id \in DOMAIN local /\ L(id) = local[id]
    BY <1>3, <2>2
  <2>4. ~IsFolder(local[id])
    <3> SUFFICES ASSUME IsFolder(local[id]) PROVE FALSE
      OBVIOUS
    <3>1. IsFolderId(id, local[id].path)
      BY <2>3, LocalFolders DEF local
    <3>2. id \in DOMAIN m.entries /\ R(id) = m.entries[id]
      BY <2>2 DEF R, ObjectOf
    <3> QED BY <2>2, <2>3, <3>1, <3>2 DEF PlansOn, FoldersOK, AtHome
  <2> QED BY <2>1, <2>2, <2>3, <2>4 DEF P, local
<1>5. ASSUME NEW c \in plan.conflicts, Decided(c, choice),
             o = Move(c.id, c.local.path, c.remote.path, c.local)
      PROVE  /\ o.id \in DOMAIN local
             /\ o.from = local[o.id].path
             /\ ~IsFolder(local[o.id])
             /\ c \in P(o.id).conflicts
  <2>1. c.local # Nothing /\ c.kind # "path-collision"
    BY <1>5 DEF Decided, Resolvable
  <2>2. PICK id \in PlannedIds(old, m, local) : c \in P(id).conflicts
    BY <1>1, <2>1, PlanIsSound
  <2>3. P(id).blocked = {}
    BY <2>2, ObjectUnblocked
  <2> HIDE DEF P, B, L, R, local
  <2>4. c.id = id /\ c.local = L(id) /\ ~IsFolder(L(id)) /\ L(id) # Nothing
    BY <1>2, <2>1, <2>2, <2>3 DEF ShowsSides
  <2>5. o.id = c.id /\ o.from = c.local.path
    BY <1>5 DEF Move
  <2> QED BY <1>3, <2>2, <2>4, <2>5
<1>6. \/ o \in plan.localMoves
      \/ \E c \in plan.conflicts :
           Decided(c, choice) /\ o = Move(c.id, c.local.path, c.remote.path, c.local)
  BY ResolvedLocalMoves
<1> HIDE DEF local, plan, P
<1>7. CASE o \in plan.localMoves
  BY <1>4, <1>7 DEF local, P
<1>8. CASE \E c \in plan.conflicts :
             Decided(c, choice) /\ o = Move(c.id, c.local.path, c.remote.path, c.local)
  <2>1. PICK c \in plan.conflicts :
          Decided(c, choice) /\ o = Move(c.id, c.local.path, c.remote.path, c.local)
    BY <1>8
  <2>2. /\ o.id \in DOMAIN local
        /\ o.from = local[o.id].path
        /\ ~IsFolder(local[o.id])
        /\ c \in P(o.id).conflicts
    BY <1>5, <2>1
  <2> QED BY <2>1, <2>2 DEF local, P
<1> QED BY <1>6, <1>7, <1>8

\* So a plan that is let through moves files, each to one place.
LEMMA PlannedLocalMoves ==
  ASSUME NEW old, NEW m, NEW snap, NEW events, PlansOn(old, m, snap, events),
         NEW choice
  PROVE  MovesFiles(snap, ApplyConflictResolutions(
                            PlanSync(old, m, snap, events), choice).localMoves)
<1> DEFINE local == AssignIds(old.entries, snap, events)
           moves == ApplyConflictResolutions(
                      PlanSync(old, m, snap, events), choice).localMoves
           P(i) == ObjectPlan(old, m, local, i)
           Settles(o, c) == o = Move(c.id, c.local.path, c.remote.path, c.local)
<1>1. \A o \in moves : o.from # None =>
        /\ o.id \in DOMAIN local /\ o.from = local[o.id].path
        /\ ~IsFolder(local[o.id])
        /\ o \in P(o.id).localMoves \/ \E c \in P(o.id).conflicts : Settles(o, c)
  BY LocalMoveOrigin
<1>2. /\ \A i \in DOMAIN local :
           local[i].path \in DOMAIN snap /\ local[i].data = snap[local[i].path]
      /\ \A i, j \in DOMAIN local : local[i].path = local[j].path => i = j
  BY LocalObjects
<1>3. \A i : /\ \A n, o \in P(i).localMoves : n = o
             /\ \A c, e \in P(i).conflicts : c = e
             /\ P(i).conflicts # {} => P(i).localMoves = {}
  BY ObjectOperations DEF MovesLocal
<1> HIDE DEF local, moves, P
<1>4. ASSUME NEW o \in moves, o.from # None
      PROVE  /\ o.from \in DOMAIN snap /\ snap[o.from] # Folder
             /\ \A n \in moves : n.from = o.from => n = o
  <2>1. o.from \in DOMAIN snap /\ snap[o.from] # Folder
    BY <1>1, <1>2, <1>4 DEF IsFolder
  <2>2. ASSUME NEW n \in moves, n.from = o.from PROVE n = o
    <3>1. n.id = o.id
      BY <1>1, <1>2, <1>4, <2>2
    <3> HIDE DEF Settles
    <3>2. \/ n \in P(o.id).localMoves /\ o \in P(o.id).localMoves
          \/ \E c \in P(o.id).conflicts : Settles(n, c) /\ Settles(o, c)
      BY <1>1, <1>3, <1>4, <2>2, <3>1
    <3> QED BY <1>3, <3>2 DEF Settles
  <2> QED BY <2>1, <2>2
<1>5. MovesFiles(snap, moves)
  BY <1>4 DEF MovesFiles
<1> QED BY <1>5 DEF moves

------------------------------------------------------------------------------
(* What goes to Drive finds its folder there. *)

LEMMA FindParentFolder ==
  ASSUME NEW entries, AtHome(entries), NEW p, Len(p) > 1,
         NEW i \in DOMAIN entries, IsFolderId(i, Front(p))
  PROVE  LET f == FindParent(entries, p) IN
           f \in DOMAIN entries /\ IsFolderId(f, Front(p))
<1> DEFINE Parents == {id \in DOMAIN entries :
                         entries[id].data = Folder /\ entries[id].path = Front(p)}
           f == CHOOSE id \in Parents : TRUE
<1>1. i \in Parents
  BY DEF AtHome
<1>2. FindParent(entries, p) = f
  BY <1>1 DEF FindParent
<1>3. f \in Parents
  BY <1>1
<1> HIDE DEF f
<1> QED BY <1>2, <1>3 DEF AtHome

\* An upload: the uploads of folders come first, so none is left for the folder
\* it goes to.
LEMMA UploadKeepsFolders ==
  ASSUME NEW m, NEW n, NEW uploads, NEW moves,
         FoldersOK(m), OutgoingOK(m, uploads, moves),
         NEW u \in uploads, IsPath(u.path),
         \A o \in uploads : ~UploadsFirst(o, u),
         NEW file, n.tombs = m.tombs,
         n.entries = [i \in {u.id} |->
                        [path |-> u.path, data |-> u.data, file |-> file,
                         parent |-> FindParent(m.entries, u.path)]] ++ m.entries
  PROVE  FoldersOK(n) /\ OutgoingOK(n, uploads \ {u}, moves)
<1> DEFINE f == FindParent(m.entries, u.path)
           e == [path |-> u.path, data |-> u.data, file |-> file, parent |-> f]
<1>1. /\ DOMAIN n.entries = DOMAIN m.entries \cup {u.id}
      /\ n.entries[u.id] = e
      /\ \A i \in DOMAIN m.entries : i # u.id => n.entries[i] = m.entries[i]
  <2> HIDE DEF e
  <2> QED BY DEF ++, e
<1>2. e.path = u.path /\ e.data = u.data /\ e.parent = f
  OBVIOUS
<1> HIDE DEF e
<1>3. /\ IsHomeUpload(u) /\ Grounded(m, uploads, u.path)
      /\ AtHome(m.entries) /\ AtHome(m.tombs) /\ Placed(m.entries, m.tombs)
  BY DEF FoldersOK, OutgoingOK
<1>4. AtHome(n.entries)
  <2>1. /\ u.data = Folder => IsFolderId(u.id, u.path)
        /\ \A p : IsFolderId(u.id, p) => u.data = Folder /\ u.path = p
    BY <1>3, FolderIds DEF IsHomeUpload, IsFileId
  <2> QED BY <1>1, <1>2, <1>3, <2>1 DEF AtHome
<1>5. ASSUME Len(u.path) > 1
      PROVE  \/ f \in DOMAIN m.entries /\ IsFolderId(f, Front(u.path))
             \/ \E t \in DOMAIN m.tombs : IsFolderId(t, Front(u.path))
  <2>1. PICK i \in Ids(m) \cup {o.id : o \in uploads} : IsFolderId(i, Front(u.path))
    BY <1>3, <1>5 DEF Grounded
  <2>2. ASSUME NEW o \in uploads, o.id = i PROVE FALSE
    <3>1. o.data = Folder /\ o.path = Front(u.path)
      BY <2>1, <2>2, FolderIds DEF OutgoingOK, IsHomeUpload, IsFileId
    <3>2. Len(Front(u.path)) = Len(u.path) - 1
      BY <1>5, FrontOfPath
    <3>3. Len(u.path) \in Nat
      BY PathIsSequence
    <3>4. Len(o.path) < Len(u.path)
      <4> DEFINE k == Len(u.path)
      <4>1. k \in Nat /\ Len(o.path) = k - 1
        BY <3>1, <3>2, <3>3
      <4> HIDE DEF k
      <4>2. Len(o.path) < k
        BY <4>1
      <4> QED BY <4>2 DEF k
    <3> QED BY <3>1, <3>4 DEF UploadsFirst
  <2>3. CASE i \in DOMAIN m.tombs
    BY <2>1, <2>3
  <2>4. CASE i \in DOMAIN m.entries
    BY <1>3, <1>5, <2>1, <2>4, FindParentFolder
  <2> QED BY <2>1, <2>2, <2>3, <2>4 DEF Ids
<1>6. Placed(n.entries, n.tombs)
  BY <1>1, <1>2, <1>3, <1>5 DEF Placed
<1>7. FoldersOK(n)
  BY <1>3, <1>4, <1>6 DEF FoldersOK
<1>8. \A p : Grounded(m, uploads, p) => Grounded(n, uploads \ {u}, p)
  <2>1. Ids(m) \cup {o.id : o \in uploads} \subseteq
          Ids(n) \cup {o.id : o \in uploads \ {u}}
    BY <1>1 DEF Ids
  <2> QED BY <2>1 DEF Grounded
<1>9. OutgoingOK(n, uploads \ {u}, moves)
  BY <1>8 DEF OutgoingOK
<1> QED BY <1>7, <1>9

\* A move: what moves is a file, so nothing else does.
LEMMA MoveKeepsFolders ==
  ASSUME NEW m, NEW n, NEW moves, FoldersOK(m), OutgoingOK(m, {}, moves),
         NEW o \in moves, o.id \in DOMAIN m.entries, n.tombs = m.tombs,
         IsEntries(m.entries),
         n.entries = MovedEntries(m.entries, o.id, o.to,
                                  FindParent(m.entries, o.to))
  PROVE  FoldersOK(n) /\ OutgoingOK(n, {}, moves \ {o})
<1> DEFINE f == FindParent(m.entries, o.to)
           e == m.entries[o.id]
<1>1. /\ IsFileId(o.id) /\ Grounded(m, {}, o.to)
      /\ AtHome(m.entries) /\ AtHome(m.tombs) /\ Placed(m.entries, m.tombs)
  BY DEF FoldersOK, OutgoingOK
<1>2. e.data # Folder
  BY <1>1 DEF AtHome, IsFileId
<1>3. \A i \in DOMAIN m.entries :
        m.entries[i] = [path |-> m.entries[i].path, data |-> m.entries[i].data,
                        file |-> m.entries[i].file,
                        parent |-> m.entries[i].parent]
  BY DEF IsEntries, IsEntry
<1> HIDE DEF f
<1>4. /\ DOMAIN n.entries = DOMAIN m.entries
      /\ n.entries[o.id] = [e EXCEPT !.path = o.to, !.parent = f]
      /\ \A i \in DOMAIN m.entries : i # o.id =>
           n.entries[i] = [m.entries[i] EXCEPT !.path = m.entries[i].path]
  <2> DEFINE New(i) == Rebase(m.entries[i].path, e.path, o.to)
             In(i) == e.data = Folder /\ Below(e.path, m.entries[i].path)
             Moved(i) == IF i = o.id
                         THEN [m.entries[i] EXCEPT !.path = o.to, !.parent = f]
                         ELSE [m.entries[i] EXCEPT
                                 !.path = IF In(i) THEN New(i)
                                          ELSE m.entries[i].path]
  <2>1. n.entries = [i \in DOMAIN m.entries |-> Moved(i)]
    BY Zenon DEF MovedEntries, f
  <2>2. /\ Moved(o.id) = [e EXCEPT !.path = o.to, !.parent = f]
        /\ \A i \in DOMAIN m.entries : i # o.id =>
             Moved(i) = [m.entries[i] EXCEPT !.path = m.entries[i].path]
    BY <1>2
  <2> HIDE DEF Moved, e
  <2> QED BY <2>1, <2>2
<1>5. /\ DOMAIN n.entries = DOMAIN m.entries
      /\ n.entries[o.id].path = o.to /\ n.entries[o.id].data = e.data
      /\ n.entries[o.id].parent = f
      /\ \A i \in DOMAIN m.entries : i # o.id =>
           /\ n.entries[i].path = m.entries[i].path
           /\ n.entries[i].data = m.entries[i].data
           /\ n.entries[i].parent = m.entries[i].parent
  <2>1. ASSUME NEW x, NEW p, NEW q,
               x = [path |-> x.path, data |-> x.data, file |-> x.file,
                    parent |-> x.parent]
        PROVE  LET y == [x EXCEPT !.path = p, !.parent = q]
                   z == [x EXCEPT !.path = p]
               IN /\ y.path = p /\ y.data = x.data /\ y.parent = q
                  /\ z.path = p /\ z.data = x.data /\ z.parent = x.parent
    BY <2>1
  <2>2. e = [path |-> e.path, data |-> e.data, file |-> e.file,
             parent |-> e.parent]
    BY <1>3
  <2>3. /\ n.entries[o.id].path = o.to /\ n.entries[o.id].data = e.data
        /\ n.entries[o.id].parent = f
    <3> HIDE DEF e
    <3> QED BY <1>4, <2>1, <2>2
  <2>4. ASSUME NEW i \in DOMAIN m.entries, i # o.id
        PROVE  /\ n.entries[i].path = m.entries[i].path
               /\ n.entries[i].data = m.entries[i].data
               /\ n.entries[i].parent = m.entries[i].parent
    <3> DEFINE x == m.entries[i]
    <3>1. x = [path |-> x.path, data |-> x.data, file |-> x.file,
               parent |-> x.parent]
      BY <1>3
    <3>2. n.entries[i] = [x EXCEPT !.path = x.path]
      BY <1>4, <2>4
    <3> HIDE DEF x
    <3>3. /\ n.entries[i].path = x.path /\ n.entries[i].data = x.data
          /\ n.entries[i].parent = x.parent
      BY <2>1, <3>1, <3>2
    <3> QED BY <3>3 DEF x
  <2> QED BY <1>4, <2>3, <2>4
<1> HIDE DEF e
<1>6. AtHome(n.entries)
  <2> USE DEF AtHome
  <2> TAKE i \in DOMAIN n.entries
  <2>1. CASE i = o.id
    BY <1>1, <1>2, <1>5, <2>1 DEF IsFileId
  <2>2. CASE i # o.id
    BY <1>1, <1>5, <2>2 DEF AtHome
  <2> QED BY <2>1, <2>2
<1>7. ASSUME Len(o.to) > 1
      PROVE  \/ f \in DOMAIN m.entries /\ IsFolderId(f, Front(o.to))
             \/ \E t \in DOMAIN m.tombs : IsFolderId(t, Front(o.to))
  <2>1. PICK i \in Ids(m) : IsFolderId(i, Front(o.to))
    BY <1>1, <1>7 DEF Grounded
  <2>2. CASE i \in DOMAIN m.tombs
    BY <2>1, <2>2
  <2>3. CASE i \in DOMAIN m.entries
    BY <1>1, <1>7, <2>1, <2>3, FindParentFolder DEF f
  <2> QED BY <2>1, <2>2, <2>3 DEF Ids
<1>8. Placed(n.entries, n.tombs)
  BY <1>1, <1>5, <1>7 DEF Placed
<1>9. FoldersOK(n)
  BY <1>1, <1>6, <1>8 DEF FoldersOK
<1>10. OutgoingOK(n, {}, moves \ {o})
  <2>1. Ids(n) = Ids(m)
    BY <1>4 DEF Ids
  <2> QED BY <2>1 DEF OutgoingOK, Grounded
<1> QED BY <1>9, <1>10

\* The tombstones take the place of the entries that are gone.
LEMMA CommitKeepsFolders ==
  ASSUME NEW d, FoldersOK(job[d].working)
  PROVE  FoldersOK(NextManifest(d))
<1> DEFINE m == job[d].working
           dead == job[d].plan.tombstones \cap DOMAIN m.entries
           n == NextManifest(d)
<1>1. /\ DOMAIN n.entries = DOMAIN m.entries \ dead
      /\ \A i \in DOMAIN n.entries : n.entries[i] = m.entries[i]
      /\ DOMAIN n.tombs = dead \cup DOMAIN m.tombs
      /\ \A t \in DOMAIN n.tombs :
           \/ t \in DOMAIN m.entries /\ n.tombs[t] = m.entries[t]
           \/ t \in DOMAIN m.tombs /\ n.tombs[t] = m.tombs[t]
  BY DEF NextManifest, Restrict, ++
<1> HIDE DEF n, dead
<1>2. AtHome(m.entries) /\ AtHome(m.tombs) /\ Placed(m.entries, m.tombs)
  BY DEF FoldersOK
<1>3. AtHome(n.entries) /\ AtHome(n.tombs)
  BY <1>1, <1>2 DEF AtHome
<1>4. Placed(n.entries, n.tombs)
  BY <1>1, <1>2 DEF Placed
<1> QED BY <1>3, <1>4 DEF FoldersOK, n

------------------------------------------------------------------------------
(* Every step leaves the folders of all manifests where they are. *)

\* What d is going to commit has its folders, and finds them.
FolderOK(d) ==
  /\ AtHome(base[d].entries)
  /\ pc[d] \in {"executing", "committed"} => FoldersOK(job[d].working)
  /\ pc[d] = "executing" =>
       OutgoingOK(job[d].working, job[d].todo.uploads, job[d].todo.remoteMoves)

FInv ==
  /\ HInv
  /\ FoldersOK(manifest)
  /\ \A d \in Device : FolderOK(d)

\* No rename event leads to a folder when a device plans.
EventsLeadToFiles ==
  \A d \in Device : pc[d] = "scanned" => FilesOnly(job[d].snap, queue[d])

\* A device that starts to carry out its plan.
LEMMA StartsOn ==
  ASSUME FInv, EventsLeadToFiles, NEW d \in Device, Starts(d)
  PROVE  PlansOn(base[d], manifest, job[d].snap, queue[d])
<1> DEFINE plan == PlanSync(base[d], manifest, job[d].snap, queue[d])
<1>1. /\ LocalOK(d) /\ JobOK(d) /\ ManifestOK /\ HistoryOK(d)
      /\ FolderOK(d) /\ FoldersOK(manifest)
      /\ pc[d] = "scanned" /\ HardBlocked(PlanOf(d)) = {}
  BY DEF FInv, HInv, IInv, Starts
<1>2. PlanOf(d) = ApplyConflictResolutions(plan, choices[d])
  BY DEF PlanOf
<1>3. PlanOf(d).blocked = plan.blocked
  <2> HIDE DEF plan
  <2> QED BY <1>2, ResolvedUploads
<1>4. HardBlocked(plan) = {}
  <2> HIDE DEF plan
  <2> QED BY <1>1, <1>3 DEF HardBlocked
<1>5. FilesOnly(job[d].snap, queue[d])
  BY <1>1 DEF EventsLeadToFiles
<1> QED BY <1>1, <1>4, <1>5
        DEF PlansOn, LocalOK, JobOK, ManifestOK, HistoryOK, Known, FolderOK

LEMMA StartsOutgoing ==
  ASSUME FInv, EventsLeadToFiles, NEW d \in Device, Starts(d)
  PROVE  OutgoingOK(manifest, PlanOf(d).uploads, PlanOf(d).remoteMoves)
BY StartsOn, PlannedOutgoing DEF PlanOf

LEMMA OperationKeepsFolders ==
  ASSUME FInv, NEW d \in Device, Operates(d)
  PROVE  FolderOK(d)'
<1> DEFINE m == job[d].working
           n == job'[d].working
           uploads == job[d].todo.uploads
           moves == job[d].todo.remoteMoves
<1>1. /\ ExecutionOK(d) /\ AtHome(base[d].entries)
      /\ FoldersOK(m) /\ OutgoingOK(m, uploads, moves)
  BY DEF FInv, HInv, IInv, JobOK, FolderOK, Operates
<1>2. /\ base' = base /\ pc[d] = "executing" /\ pc' = pc
      /\ \/ Transfers(d)
         \/ \E u : Uploads(d, u)
         \/ \E o : Moves(d, o)
  BY DEF Operates
<1>3. /\ FoldersOK(n)
      /\ OutgoingOK(n, job'[d].todo.uploads, job'[d].todo.remoteMoves)
  <2>1. CASE Transfers(d)
    BY <1>1, <2>1 DEF Transfers
  <2>2. ASSUME NEW u, Uploads(d, u)
        PROVE  /\ FoldersOK(n)
               /\ OutgoingOK(n, job'[d].todo.uploads, job'[d].todo.remoteMoves)
    <3>1. u \in uploads /\ \A o \in uploads : ~UploadsFirst(o, u)
      BY <2>2 DEF Uploads
    <3>2. IsPath(u.path)
      BY <1>1, <3>1 DEF ExecutionOK, PathsOK
    <3>3. /\ n.tombs = m.tombs
          /\ n.entries = [i \in {u.id} |->
                            [path |-> u.path, data |-> u.data,
                             file |-> Len(drive) + 1,
                             parent |-> FindParent(m.entries, u.path)]] ++ m.entries
          /\ job'[d].todo.uploads = uploads \ {u}
          /\ job'[d].todo.remoteMoves = moves
      BY <2>2, Zenon DEF Uploads
    <3> HIDE DEF m, n, uploads, moves
    <3> DEFINE file == Len(drive) + 1
    <3>4. n.entries = [i \in {u.id} |->
                         [path |-> u.path, data |-> u.data, file |-> file,
                          parent |-> FindParent(m.entries, u.path)]] ++ m.entries
      BY <3>3
    <3> HIDE DEF file
    <3>5. FoldersOK(n) /\ OutgoingOK(n, uploads \ {u}, moves)
      BY <1>1, <3>1, <3>2, <3>3, <3>4, UploadKeepsFolders
    <3> QED BY <3>3, <3>5
  <2>3. ASSUME NEW o, Moves(d, o)
        PROVE  /\ FoldersOK(n)
               /\ OutgoingOK(n, job'[d].todo.uploads, job'[d].todo.remoteMoves)
    <3>1. /\ o \in moves /\ uploads = {} /\ n.tombs = m.tombs
          /\ job'[d].todo.uploads = {}
          /\ job'[d].todo.remoteMoves = moves \ {o}
          /\ \/ n.entries = m.entries
             \/ /\ o.id \in DOMAIN m.entries
                /\ n.entries = MovedEntries(m.entries, o.id, o.to,
                                            FindParent(m.entries, o.to))
      BY <2>3, Zenon DEF Moves
    <3>2. IsEntries(m.entries)
      BY <1>1 DEF ExecutionOK, IsManifest
    <3> HIDE DEF m, n, uploads, moves
    <3>3. CASE n.entries = m.entries
      <4>1. FoldersOK(n)
        BY <1>1, <3>1, <3>3 DEF FoldersOK
      <4>2. OutgoingOK(n, {}, moves \ {o})
        BY <1>1, <3>1, <3>3 DEF OutgoingOK, Grounded, Ids
      <4> QED BY <3>1, <4>1, <4>2
    <3>4. CASE n.entries # m.entries
      <4>1. FoldersOK(n) /\ OutgoingOK(n, {}, moves \ {o})
        BY <1>1, <3>1, <3>2, <3>4, MoveKeepsFolders
      <4> QED BY <3>1, <4>1
    <3> QED BY <3>3, <3>4
  <2> QED BY <1>2, <2>1, <2>2, <2>3
<1> QED BY <1>1, <1>2, <1>3 DEF FolderOK

\* One case for each kind of step, for the device that takes it.
LEMMA FolderOfStep ==
  ASSUME FInv, EventsLeadToFiles, NEW d \in Device,
         \/ Acts(d) \/ Ends(d) \/ Plans(d) \/ Operates(d)
         \/ Commits(d) \/ Saves(d) \/ Retires(d)
  PROVE  FoldersOK(manifest)' /\ FolderOK(d)'
<1>1. FolderOK(d) /\ FoldersOK(manifest)
  BY DEF FInv
<1>2. CASE Acts(d)
  <2>1. base' = base /\ pc' = pc /\ job' = job /\ manifest' = manifest
    BY <1>2, Zenon DEF Acts
  <2> QED BY <1>1, <2>1 DEF FolderOK
<1>3. CASE Ends(d)
  BY <1>1, <1>3 DEF Ends, FolderOK, FoldersOK
<1>4. CASE Plans(d)
  <2>1. CASE Scans(d)
    BY <1>1, <1>4, <2>1 DEF Plans, Scans, FolderOK
  <2>2. CASE Starts(d)
    <3>1. OutgoingOK(manifest, PlanOf(d).uploads, PlanOf(d).remoteMoves)
      BY <2>2, StartsOutgoing
    <3>2. /\ pc'[d] = "executing" /\ job'[d].working = manifest
          /\ job'[d].todo = PlanOf(d)
          /\ base' = base /\ manifest' = manifest
      BY <1>4, <2>2 DEF Plans, Starts
    <3> QED BY <1>1, <3>1, <3>2 DEF FolderOK
  <2> QED BY <1>4, <2>1, <2>2 DEF Plans
<1>5. CASE Operates(d)
  <2>1. FolderOK(d)'
    BY <1>5, OperationKeepsFolders
  <2> QED BY <1>1, <1>5, <2>1 DEF Operates
<1>6. CASE Commits(d)
  <2>1. FoldersOK(NextManifest(d))
    BY <1>1, <1>6, CommitKeepsFolders DEF Commits, FolderOK
  <2> QED BY <1>1, <1>6, <2>1 DEF Commits, FolderOK
<1>7. CASE Saves(d)
  <2>1. FoldersOK(NextManifest(d))
    BY <1>1, <1>7, CommitKeepsFolders DEF Saves, FolderOK
  <2> QED BY <1>1, <1>7, <2>1 DEF Saves, FolderOK, FoldersOK
<1>8. CASE Retires(d)
  BY <1>1, <1>8 DEF Retires, FolderOK
<1> QED BY <1>2, <1>3, <1>4, <1>5, <1>6, <1>7, <1>8

LEMMA FolderStep ==
  ASSUME FInv, EventsLeadToFiles, [Next]_vars
  PROVE  FInv'
<1>1. HInv' /\ IInv
  BY HistoryStep DEF FInv, HInv
<1>2. ASSUME NEW e \in Device, base'[e] = base[e], pc'[e] = pc[e], job'[e] = job[e]
      PROVE  FolderOK(e)'
  BY <1>2 DEF FInv, FolderOK
<1>3. CASE UNCHANGED vars
  BY <1>1, <1>2, <1>3 DEF vars, remoteVars, FInv
<1>4. ASSUME NEW d \in Device, Others(d),
             \/ Acts(d) \/ Ends(d) \/ Plans(d) \/ Operates(d)
             \/ Commits(d) \/ Saves(d) \/ Retires(d)
      PROVE  FInv'
  <2>1. FoldersOK(manifest)' /\ FolderOK(d)'
    BY <1>4, FolderOfStep
  <2>2. \A e \in Device \ {d} : FolderOK(e)'
    BY <1>2, <1>4 DEF Others
  <2> QED BY <1>1, <2>1, <2>2 DEF FInv
<1> QED BY <1>1, <1>3, <1>4, StepKinds

LEMMA FolderStarts ==
  ASSUME Init
  PROVE  FInv
<1> DEFINE m == InitialManifest
<1>1. HInv /\ manifest = m
  BY HistoryStarts DEF Init
<1>2. /\ DOMAIN m.entries = {InitialId(p) : p \in DOMAIN Initial}
      /\ \A p \in DOMAIN Initial :
           /\ m.entries[InitialId(p)].path = p
           /\ m.entries[InitialId(p)].data = Initial[p]
           /\ m.entries[InitialId(p)].parent = InitialParent(p)
  BY InitialEntries, Zenon
<1>3. DOMAIN m.tombs = {}
  BY DEF InitialManifest
<1> HIDE DEF m
<1>4. \A p : /\ Initial[p] = Folder => IsFolderId(InitialId(p), p)
             /\ Initial[p] # Folder => IsFileId(InitialId(p))
  BY FolderIds DEF InitialId
<1>5. AtHome(m.entries)
  <2> SUFFICES ASSUME NEW p \in DOMAIN Initial
               PROVE  LET i == InitialId(p) IN
                        /\ m.entries[i].data = Folder =>
                             IsFolderId(i, m.entries[i].path)
                        /\ \A q : IsFolderId(i, q) =>
                             m.entries[i].data = Folder /\ m.entries[i].path = q
    BY <1>2 DEF AtHome
  <2> QED BY <1>2, <1>4, FolderIds DEF IsFileId
<1>6. Placed(m.entries, m.tombs)
  <2> SUFFICES ASSUME NEW p \in DOMAIN Initial, Len(p) > 1
               PROVE  LET e == m.entries[InitialId(p)] IN
                        e.parent \in DOMAIN m.entries /\ IsFolderId(e.parent, Front(p))
    BY <1>2 DEF Placed
  <2>1. Len(p) # 1
    <3> DEFINE n == Len(p)
    <3>1. n \in Nat /\ n > 1
      BY PathAssumption, SnapshotPaths, PathIsSequence
    <3> HIDE DEF n
    <3>2. n # 1
      BY <3>1
    <3> QED BY <3>2 DEF n
  <2>2. Front(p) \in DOMAIN Initial /\ Initial[Front(p)] = Folder
    BY <2>1, InitialFolder
  <2>3. m.entries[InitialId(p)].parent = InitialId(Front(p))
    BY <1>2, <2>1 DEF InitialParent
  <2> QED BY <1>2, <1>4, <2>2, <2>3
<1>7. FoldersOK(m)
  BY <1>3, <1>5, <1>6 DEF FoldersOK, AtHome
<1>8. ASSUME NEW d \in Device PROVE FolderOK(d)
  <2>1. base[d] = m /\ pc[d] = "idle"
    BY <1>8 DEF Init, m
  <2> QED BY <1>7, <2>1 DEF FolderOK, FoldersOK
<1> QED BY <1>1, <1>7, <1>8 DEF FInv

LEMMA FoldersMatch ==
  ASSUME FInv, NoneIsNoId
  PROVE  ParentsMatchPaths
<1> SUFFICES ASSUME NEW i \in DOMAIN manifest.entries,
                    Len(manifest.entries[i].path) > 1
             PROVE  LET e == manifest.entries[i] IN
                      \/ /\ e.parent # None
                         /\ manifest.entries[e.parent].path = Front(e.path)
                      \/ \E t \in DOMAIN manifest.tombs :
                           manifest.tombs[t].path = Front(e.path)
  BY DEF ParentsMatchPaths
<1> DEFINE e == manifest.entries[i]
<1>1. /\ AtHome(manifest.entries) /\ AtHome(manifest.tombs)
      /\ \/ e.parent \in DOMAIN manifest.entries /\ IsFolderId(e.parent, Front(e.path))
         \/ \E t \in DOMAIN manifest.tombs : IsFolderId(t, Front(e.path))
  BY DEF FInv, FoldersOK, Placed
<1> HIDE DEF e
<1>2. \A p : ~IsFolderId(None, p)
  BY DEF NoneIsNoId, IsFolderId
<1>3. \/ e.parent # None /\ manifest.entries[e.parent].path = Front(e.path)
      \/ \E t \in DOMAIN manifest.tombs : manifest.tombs[t].path = Front(e.path)
  BY <1>1, <1>2 DEF AtHome
<1> QED BY <1>3 DEF e

\* Whatever devices upload, move and delete at the same time, and however often
\* they fail: every entry of the manifest is below the folder of its path, or
\* that folder has a tombstone, as long as no rename event leads to a folder
\* when a device plans.
THEOREM FoldersStay ==
  ASSUME NoneIsNoId
  PROVE  Spec /\ []EventsLeadToFiles => []ParentsMatchPaths
<1>1. FInv /\ EventsLeadToFiles /\ [Next]_vars => FInv'
  BY FolderStep
<1>2. FInv => ParentsMatchPaths
  BY FoldersMatch
<1> QED BY <1>1, <1>2, FolderStarts, PTL DEF Spec

------------------------------------------------------------------------------
(* Rename events lead to the files of the vault, when no folder is renamed. *)

FilesAt(v, events) ==
  \A n \in DOMAIN events :
    events[n].new \in DOMAIN v /\ v[events[n].new] # Folder

\* d plans with the files its events lead to, and moves files.
QueueOK(d) ==
  /\ FilesAt(vault[d], queue[d])
  /\ pc[d] = "scanned" => job[d].snap = vault[d]
  /\ pc[d] = "executing" => MovesFiles(vault[d], job[d].todo.localMoves)

\* An edit at some paths leaves the events that lead elsewhere.
LEMMA EventsLeft ==
  ASSUME NEW v, NEW events, IsList(events), FilesAt(v, events),
         NEW paths, NEW w,
         \A x \in DOMAIN v \ paths : x \in DOMAIN w /\ w[x] = v[x]
  PROVE  FilesAt(w, EventsElsewhere(events, paths))
<1> DEFINE others == EventsElsewhere(events, paths)
<1>1. \A k \in DOMAIN others : /\ others[k].new \notin paths
                               /\ \E i \in DOMAIN events : others[k] = events[i]
  BY EventsElsewhereIsList
<1> HIDE DEF others
<1>2. FilesAt(w, others)
  BY <1>1 DEF FilesAt
<1> QED BY <1>2 DEF others

LEMMA EventsJoined ==
  ASSUME NEW v, NEW s, NEW t, IsList(s), IsList(t), FilesAt(v, s), FilesAt(v, t)
  PROVE  FilesAt(v, s \o t)
<1>1. /\ Len(s) \in Nat /\ DOMAIN s = 1..Len(s)
      /\ Len(t) \in Nat /\ DOMAIN t = 1..Len(t)
  BY ListIsSequence
<1>2. s \in Seq({s[n] : n \in DOMAIN s}) /\ t \in Seq({t[n] : n \in DOMAIN t})
  BY DEF IsList
<1>3. ASSUME NEW n \in DOMAIN (s \o t)
      PROVE  \/ n \in DOMAIN s /\ (s \o t)[n] = s[n]
             \/ n - Len(s) \in DOMAIN t /\ (s \o t)[n] = t[n - Len(s)]
  BY <1>1, <1>2, <1>3
<1> QED BY <1>3 DEF FilesAt

\* What a rename reports, and the paths it is about.
EventsOf(v, p, q) ==
  LET old == SetToSeq(Tree(v, p))
      Event(n) == [old |-> old[n], new |-> Rebase(old[n], p, q)]
  IN [n \in 1..Len(old) |-> Event(n)]

Touched(events) == UNION {{e.old, e.new} : e \in ToSet(events)}

LEMMA TreeOfFile ==
  ASSUME NEW v, IsSnapshot(v), NEW p \in DOMAIN v, v[p] # Folder
  PROVE  Tree(v, p) = {p}
<1>1. IsPath(p)
  BY SnapshotPaths
<1>2. \A x \in DOMAIN v : Within(p, x) => x = p
  BY <1>1, BelowFolder
<1>3. Within(p, p)
  BY <1>1, WithinOrder
<1> QED BY <1>2, <1>3 DEF Tree

\* The rename of a file.
LEMMA FileRenamed ==
  ASSUME NEW v, IsSnapshot(v), NEW p \in DOMAIN v, v[p] # Folder,
         NEW q, IsPath(q), q \notin DOMAIN v
  PROVE  LET w == MoveTree(v, p, q)
             events == EventsOf(v, p, q)
         IN /\ IsList(events)
            /\ q \in DOMAIN w /\ w[q] = v[p]
            /\ \A n \in DOMAIN events : events[n].new = q
            /\ p \in Touched(events)
            /\ \A x \in DOMAIN v \ {p} : x \in DOMAIN w /\ w[x] = v[x]
<1> DEFINE w == MoveTree(v, p, q)
           old == SetToSeq(Tree(v, p))
           Event(n) == [old |-> old[n], new |-> Rebase(old[n], p, q)]
           events == [n \in 1..Len(old) |-> Event(n)]
           touched == Touched(events)
<1>0. events = EventsOf(v, p, q) /\ IsList(events)
  BY EventsOfTree, Zenon DEF EventsOf
<1>1. IsPath(p)
  BY SnapshotPaths
<1>2. Tree(v, p) = {p}
  BY TreeOfFile
<1>3. Rebase(p, p, q) = q /\ Rebase(q, q, p) = p
  BY <1>1, RebaseRoot
<1>4. /\ DOMAIN w = (DOMAIN v \ {p}) \cup {q}
      /\ w[q] = v[p]
      /\ \A x \in DOMAIN v \ {p} : w[x] = v[x]
  BY <1>2, <1>3 DEF MoveTree, RemoveTree, Restrict, ++
<1>5. /\ Len(old) \in Nat /\ DOMAIN old = 1..Len(old)
      /\ old \in Seq({p})
      /\ \E n \in 1..Len(old) : old[n] = p
  <2>1. IsFiniteSet({p})
    BY FS_Singleton
  <2> QED BY <1>2, <2>1, SetHasOrder
<1> HIDE DEF w, old
<1>6. \A n \in 1..Len(old) : old[n] = p
  BY <1>5
<1>7. /\ DOMAIN events = 1..Len(old)
      /\ \A n \in DOMAIN events : events[n].old = p /\ events[n].new = q
  BY <1>3, <1>6
<1>8. p \in touched
  <2>1. PICK n \in DOMAIN events : events[n].old = p
    BY <1>5, <1>7
  <2> HIDE DEF events
  <2>2. events[n] \in ToSet(events)
    BY DEF ToSet
  <2>3. {events[n].old, events[n].new} \in {{e.old, e.new} : e \in ToSet(events)}
    BY <2>2
  <2> QED BY <2>1, <2>3 DEF Touched
<1> HIDE DEF events, touched
<1>9. \A x \in DOMAIN v \ {p} : x \in DOMAIN w /\ w[x] = v[x]
  BY <1>4
<1>10. /\ q \in DOMAIN w /\ w[q] = v[p]
       /\ \A n \in DOMAIN events : events[n].new = q
  BY <1>4, <1>7
<1> QED BY <1>0, <1>8, <1>9, <1>10 DEF w, touched

\* The events lead to files after a file has moved, in a vault that may have got
\* folders before.
LEMMA MoveQueue ==
  ASSUME NEW v, IsSnapshot(v), NEW u, IsSnapshot(u), Stays(v, u),
         NEW p \in DOMAIN v, v[p] # Folder,
         NEW q, IsPath(q), q \notin DOMAIN u,
         NEW events, IsList(events), FilesAt(v, events)
  PROVE  /\ FilesAt(MoveTree(u, p, q), AfterMove(events, v, p, q))
         /\ \A x \in DOMAIN v \ {p} :
              /\ x \in DOMAIN MoveTree(u, p, q)
              /\ MoveTree(u, p, q)[x] = v[x]
<1> DEFINE w == MoveTree(u, p, q)
           moves == EventsOf(v, p, q)
           others == EventsElsewhere(events, Touched(moves))
<1>1. p \in DOMAIN u /\ u[p] = v[p]
  BY DEF Stays
<1>2. moves = EventsOf(u, p, q)
  <2>1. Tree(v, p) = {p} /\ Tree(u, p) = {p}
    BY <1>1, TreeOfFile
  <2> QED BY <2>1 DEF EventsOf
<1>3. /\ IsList(moves)
      /\ q \in DOMAIN w /\ w[q] = v[p]
      /\ \A n \in DOMAIN moves : moves[n].new = q
      /\ p \in Touched(moves)
      /\ \A x \in DOMAIN u \ {p} : x \in DOMAIN w /\ w[x] = u[x]
  BY <1>1, <1>2, FileRenamed
<1>4. AfterMove(events, v, p, q) = others \o moves
  BY Zenon DEF AfterMove, EventsOf, Touched
<1> HIDE DEF w, moves
<1>5. \A x \in DOMAIN v \ {p} : x \in DOMAIN w /\ w[x] = v[x]
  BY <1>3 DEF Stays
<1>6. IsList(others) /\ FilesAt(w, others)
  BY <1>3, <1>5, EventsLeft, EventsElsewhereIsList
<1>7. FilesAt(w, moves)
  BY <1>3 DEF FilesAt
<1> HIDE DEF others
<1>8. FilesAt(w, others \o moves)
  BY <1>3, <1>6, <1>7, EventsJoined
<1> QED BY <1>4, <1>5, <1>8 DEF w

LEMMA EditQueue ==
  ASSUME IInv, ~FolderRenames, ~EditDuringSync,
         NEW d \in Device, QueueOK(d), Acts(d)
  PROVE  QueueOK(d)'
<1> DEFINE Good == FilesAt(vault'[d], queue'[d])
                   /\ (pc[d] = "idle" \/ (vault'[d] = vault[d] /\ queue'[d] = queue[d]))
<1>1. /\ DOMAIN vault = Device /\ DOMAIN queue = Device
      /\ IsSnapshot(vault[d]) /\ IsList(queue[d]) /\ FilesAt(vault[d], queue[d])
      /\ \A c \in shown[d] : c.local = Nothing \/ IsPath(c.local.path)
  BY DEF IInv, VariablesOK, LocalOK, QueueOK
<1>2. MayEdit(d) => pc[d] = "idle"
  BY DEF MayEdit
<1>3. ASSUME NEW p, NEW c, Write(d, p, c) PROVE Good
  <2>1. /\ MayEdit(d)
        /\ vault'[d] = [q \in {p} |-> c] ++ vault[d]
        /\ queue'[d] = EventsElsewhere(queue[d], {p})
    BY <1>1, <1>3 DEF Write
  <2>2. \A x \in DOMAIN vault[d] \ {p} :
          x \in DOMAIN vault'[d] /\ vault'[d][x] = vault[d][x]
    BY <2>1 DEF ++
  <2> QED BY <1>1, <1>2, <2>1, <2>2, EventsLeft
<1>4. ASSUME NEW p, MakeFolder(d, p) PROVE Good
  <2>1. /\ MayEdit(d)
        /\ vault'[d] = EnsureFolders(vault[d], {p})
        /\ queue'[d] = EventsElsewhere(queue[d], {p})
    BY <1>1, <1>4 DEF MakeFolder
  <2>2. \A x \in DOMAIN vault[d] \ {p} :
          x \in DOMAIN vault'[d] /\ vault'[d][x] = vault[d][x]
    BY <2>1 DEF EnsureFolders, ++
  <2> QED BY <1>1, <1>2, <2>1, <2>2, EventsLeft
<1>5. ASSUME NEW p, Delete(d, p) PROVE Good
  <2>1. /\ MayEdit(d)
        /\ vault'[d] = RemoveTree(vault[d], p)
        /\ queue'[d] = EventsElsewhere(queue[d], Tree(vault[d], p))
    BY <1>1, <1>5 DEF Delete
  <2>2. \A x \in DOMAIN vault[d] \ Tree(vault[d], p) :
          x \in DOMAIN vault'[d] /\ vault'[d][x] = vault[d][x]
    BY <2>1 DEF RemoveTree, Restrict
  <2> QED BY <1>1, <1>2, <2>1, <2>2, EventsLeft
<1>6. ASSUME NEW p, NEW q \in FilePath \cup FolderPath, Rename(d, p, q) PROVE Good
  <2> DEFINE v == vault[d]
             w == MoveTree(v, p, q)
             k == AfterMove(queue[d], v, p, q)
  <2>1. /\ MayEdit(d)
        /\ p \in DOMAIN v /\ v[p] # Folder /\ q \notin DOMAIN v
        /\ vault' = [vault EXCEPT ![d] = w]
        /\ queue' = [queue EXCEPT ![d] = k]
    BY <1>6, Zenon DEF Rename
  <2>2. IsPath(q)
    BY PathAssumption
  <2>3. Stays(v, v)
    BY DEF Stays
  <2>4. FilesAt(w, k)
    BY <1>1, <2>1, <2>2, <2>3, MoveQueue
  <2> HIDE DEF w, k
  <2> QED BY <1>1, <1>2, <2>1, <2>4
<1>7. ASSUME NEW c, NEW choice, Choose(d, c, choice) PROVE Good
  BY <1>1, <1>7 DEF Choose, localVars
<1>8. ASSUME NEW c \in shown[d], NEW text, Merge(d, c, text) PROVE Good
  <2> DEFINE p == c.local.path
             u == EnsureParent(vault[d], p)
  <2>1. /\ MayEdit(d)
        /\ vault' = [vault EXCEPT ![d] = [x \in {p} |-> text] ++ u]
        /\ queue' = [queue EXCEPT ![d] = EventsElsewhere(queue[d], {p})]
    BY <1>8, Zenon DEF Merge
  <2>2. /\ vault'[d] = [x \in {p} |-> text] ++ u
        /\ queue'[d] = EventsElsewhere(queue[d], {p})
    BY <1>1, <2>1
  <2> HIDE DEF p
  <2>3. \A x \in DOMAIN vault[d] : x \in DOMAIN u /\ u[x] = vault[d][x]
    BY DEF EnsureParent, EnsureFolders, ++
  <2> HIDE DEF u
  <2>4. \A x \in DOMAIN vault[d] \ {p} :
          x \in DOMAIN vault'[d] /\ vault'[d][x] = vault[d][x]
    BY <2>2, <2>3 DEF ++
  <2> QED BY <1>1, <1>2, <2>1, <2>2, <2>4, EventsLeft
<1>9. Good
  <2> HIDE DEF Good
  <2> QED BY <1>3, <1>4, <1>5, <1>6, <1>7, <1>8 DEF Acts, Edit, Resolve
<1>10. pc' = pc /\ job' = job
  BY Zenon DEF Acts
<1> QED BY <1>9, <1>10 DEF QueueOK

\* What is only added to leaves the events and the moves.
LEMMA NothingTaken ==
  ASSUME NEW v, NEW w, Stays(v, w), NEW events, FilesAt(v, events),
         NEW moves, MovesFiles(v, moves), NEW fewer \in SUBSET moves
  PROVE  FilesAt(w, events) /\ MovesFiles(w, fewer)
BY DEF Stays, FilesAt, MovesFiles

\* What the executor itself does to the vault: Obsidian reports the renames.
LEMMA LocalMoveQueue ==
  ASSUME IInv, NEW d \in Device, pc[d] = "executing", QueueOK(d), LocalMove(d)
  PROVE  /\ FilesAt(vault'[d], queue'[d])
         /\ MovesFiles(vault'[d], job'[d].todo.localMoves)
<1> DEFINE v == vault[d]
           u(m) == EnsureParent(v, m.to)
           moves == job[d].todo.localMoves
<1>1. /\ LocalOK(d) /\ VariablesOK /\ ExecutionOK(d)
      /\ FilesAt(v, queue[d]) /\ MovesFiles(v, moves)
  BY DEF IInv, JobOK, QueueOK
<1>2. PICK m \in moves :
        /\ job' = [job EXCEPT ![d].todo.localMoves = @ \ {m}]
        /\ \/ /\ m.from = None /\ ~Hindered(d, m)
              /\ vault' = [vault EXCEPT ![d] = EnsureFolder(v, m.to)]
              /\ queue' = queue
           \/ vault' = vault /\ queue' = queue
           \/ /\ m.from # None /\ m.from \in DOMAIN v
              /\ ~Hindered(d, m)
              /\ vault' = [vault EXCEPT ![d] = MoveTree(u(m), m.from, m.to)]
              /\ queue' = [queue EXCEPT
                             ![d] = AfterMove(queue[d], v, m.from, m.to)]
  BY Zenon DEF LocalMove
<1>3. job'[d].todo.localMoves = moves \ {m}
  <2>1. /\ DOMAIN job = Device /\ "todo" \in DOMAIN job[d]
        /\ "localMoves" \in DOMAIN job[d].todo
    BY <1>1 DEF VariablesOK, ExecutionOK, NoOperations
  <2> QED BY <1>2, <2>1
<1>4. /\ IsPath(m.to) /\ IsSnapshot(v) /\ IsList(queue[d])
      /\ DOMAIN vault = Device /\ DOMAIN queue = Device
  BY <1>1 DEF ExecutionOK, PathsOK, LocalOK, VariablesOK
<1>5. Stays(v, v) /\ Stays(v, u(m)) /\ Stays(v, EnsureFolder(v, m.to))
  BY DEF Stays, EnsureFolder, EnsureParent, EnsureFolders, ++
<1>6. ASSUME Stays(v, vault'[d]), queue' = queue
      PROVE  /\ FilesAt(vault'[d], queue'[d])
             /\ MovesFiles(vault'[d], moves \ {m})
  <2> DEFINE w == vault'[d]
  <2>1. Stays(v, w) /\ queue'[d] = queue[d]
    BY <1>6
  <2> HIDE DEF v, w, moves
  <2> QED BY <1>1, <2>1, NothingTaken DEF v, w
<1>7. CASE /\ m.from # None /\ m.from \in DOMAIN v
           /\ ~Hindered(d, m)
           /\ vault' = [vault EXCEPT ![d] = MoveTree(u(m), m.from, m.to)]
           /\ queue' = [queue EXCEPT
                          ![d] = AfterMove(queue[d], v, m.from, m.to)]
  <2> DEFINE w == MoveTree(u(m), m.from, m.to)
             k == AfterMove(queue[d], v, m.from, m.to)
  <2>1. ~FileInWay(v, m.to) /\ m.to \notin DOMAIN v
    BY <1>7 DEF Hindered
  <2>2. IsSnapshot(u(m)) /\ m.to \notin DOMAIN u(m)
    <3>1. m.to \notin FoldersOf(m.to)
      BY <1>4, FoldersOfPath
    <3>2. IsSnapshot(u(m)) /\ DOMAIN u(m) = DOMAIN v \cup FoldersOf(m.to)
      BY <1>4, <2>1, EnsureParentOK
    <3> HIDE DEF u
    <3> QED BY <2>1, <3>1, <3>2
  <2>3. v[m.from] # Folder /\ \A n \in moves : n.from = m.from => n = m
    BY <1>1, <1>7 DEF MovesFiles
  <2> HIDE DEF u
  <2>4. /\ FilesAt(w, k)
        /\ \A x \in DOMAIN v \ {m.from} : x \in DOMAIN w /\ w[x] = v[x]
    BY <1>1, <1>4, <1>5, <1>7, <2>2, <2>3, MoveQueue
  <2>5. vault'[d] = w /\ queue'[d] = k
    BY <1>4, <1>7
  <2> HIDE DEF v, w, k, moves
  <2>6. MovesFiles(w, moves \ {m})
    BY <1>1, <2>3, <2>4 DEF MovesFiles
  <2> QED BY <1>3, <2>4, <2>5, <2>6
<1>8. CASE \/ /\ m.from = None /\ ~Hindered(d, m)
              /\ vault' = [vault EXCEPT ![d] = EnsureFolder(v, m.to)]
              /\ queue' = queue
           \/ vault' = vault /\ queue' = queue
  <2>1. Stays(v, vault'[d]) /\ queue' = queue
    BY <1>4, <1>5, <1>8
  <2> HIDE DEF v, moves
  <2> QED BY <1>3, <1>6, <2>1
<1> QED BY <1>2, <1>7, <1>8

\* Files are taken out of the vault or come into it when nothing is left to
\* move.
LEMMA LaterQueue ==
  ASSUME IInv, NEW d \in Device, pc[d] = "executing", QueueOK(d),
         SetAside(d) \/ Install(d) \/ RecoverLocal(d)
  PROVE  FilesAt(vault'[d], queue'[d]) /\ job[d].todo.localMoves = {}
<1> DEFINE v == vault[d]
           Kept(paths) == [x \in DOMAIN v \ paths |-> v[x]]
<1>1. /\ IsSnapshot(v) /\ IsList(queue[d]) /\ FilesAt(v, queue[d])
      /\ DOMAIN vault = Device /\ DOMAIN queue = Device
  BY DEF IInv, LocalOK, VariablesOK, QueueOK
<1>2. ASSUME NEW paths, vault' = [vault EXCEPT ![d] = Kept(paths)],
             queue' = [queue EXCEPT ![d] = EventsElsewhere(queue[d], paths)]
      PROVE  FilesAt(vault'[d], queue'[d])
  <2> DEFINE w == Kept(paths)
  <2>1. \A x \in DOMAIN v \ paths : x \in DOMAIN w /\ w[x] = v[x]
    OBVIOUS
  <2>2. vault'[d] = w /\ queue'[d] = EventsElsewhere(queue[d], paths)
    BY <1>1, <1>2
  <2> HIDE DEF v, w
  <2> QED BY <1>1, <2>1, <2>2, EventsLeft
<1>3. CASE SetAside(d)
  <2>1. PICK p : /\ vault' = [vault EXCEPT ![d] = RemoveTree(v, p)]
                 /\ queue' = [queue EXCEPT
                                ![d] = EventsElsewhere(queue[d], Tree(v, p))]
    BY <1>3, Zenon DEF SetAside
  <2>2. RemoveTree(v, p) = Kept(Tree(v, p))
    BY DEF RemoveTree, Restrict
  <2> HIDE DEF Kept, v
  <2>3. FilesAt(vault'[d], queue'[d])
    BY <1>2, <2>1, <2>2
  <2> QED BY <1>3, <2>3 DEF SetAside, DoneLocalMoves, Executing
<1>4. CASE Install(d)
  <2>1. PICK s : /\ s.path \notin DOMAIN v
                 /\ vault' = [vault EXCEPT ![d] = [p \in {s.path} |-> s.data]
                                                    ++ EnsureParent(v, s.path)]
    BY <1>4, Zenon DEF Install, Installable
  <2> DEFINE w == [p \in {s.path} |-> s.data] ++ EnsureParent(v, s.path)
  <2>2. \A x \in DOMAIN v : x \in DOMAIN w /\ w[x] = v[x]
    BY <2>1 DEF EnsureParent, EnsureFolders, ++
  <2>3. vault'[d] = w /\ queue'[d] = queue[d]
    BY <1>1, <1>4, <2>1 DEF Install
  <2> HIDE DEF v, w
  <2>4. FilesAt(vault'[d], queue'[d])
    BY <1>1, <2>2, <2>3 DEF FilesAt
  <2> QED BY <1>4, <2>4 DEF Install, DoneLocalMoves, Executing
<1>5. CASE RecoverLocal(d)
  <2> DEFINE Taken(r) == IF /\ r.path \in DOMAIN v
                            /\ ~\E p \in job[d].trashed : Within(r.path, p)
                         THEN Tree(v, r.path) ELSE {}
  <2>1. PICK t : /\ vault' = [vault EXCEPT ![d] = Restrict(v, DOMAIN v \ t)]
                 /\ queue' = [queue EXCEPT ![d] = EventsElsewhere(queue[d], t)]
    <3>1. PICK r : /\ vault' = [vault EXCEPT ![d] = Restrict(v, DOMAIN v \ Taken(r))]
                   /\ queue' = [queue EXCEPT ![d] = EventsElsewhere(queue[d], Taken(r))]
      BY <1>5, Zenon DEF RecoverLocal
    <3> QED BY <3>1, Zenon
  <2>2. Restrict(v, DOMAIN v \ t) = Kept(t)
    BY DEF Restrict
  <2> HIDE DEF Kept, v
  <2>3. FilesAt(vault'[d], queue'[d])
    BY <1>2, <2>1, <2>2
  <2> QED BY <1>5, <2>3 DEF RecoverLocal, DoneRemoteMoves, DoneInstalling,
                            DoneLocalMoves, Executing
<1> QED BY <1>3, <1>4, <1>5

QInv == FInv /\ \A d \in Device : QueueOK(d)

LEMMA QueueLeads ==
  ASSUME QInv
  PROVE  EventsLeadToFiles
BY DEF QInv, QueueOK, FilesAt, EventsLeadToFiles, FilesOnly

\* One case for each kind of step, for the device that takes it.
LEMMA QueueOfStep ==
  ASSUME QInv, ~FolderRenames, ~EditDuringSync, NEW d \in Device,
         \/ Acts(d) \/ Ends(d) \/ Plans(d) \/ Operates(d)
         \/ Commits(d) \/ Saves(d) \/ Retires(d)
  PROVE  QueueOK(d)'
<1>1. IInv /\ FInv /\ EventsLeadToFiles /\ QueueOK(d)
  BY QueueLeads DEF QInv, FInv, HInv
<1>2. \A v : FilesAt(v, <<>>)
  BY DEF FilesAt
<1>3. CASE Acts(d)
  BY <1>1, <1>3, EditQueue
<1>4. CASE Ends(d)
  BY <1>1, <1>2, <1>4 DEF Ends, Stays, QueueOK, FilesAt
<1>5. CASE Plans(d)
  <2>1. CASE Scans(d)
    BY <1>1, <2>1 DEF Scans, QueueOK
  <2>2. CASE Starts(d)
    <3>1. PlansOn(base[d], manifest, job[d].snap, queue[d])
      BY <1>1, <2>2, StartsOn
    <3>2. MovesFiles(job[d].snap, PlanOf(d).localMoves)
      BY <3>1, PlannedLocalMoves DEF PlanOf
    <3>3. /\ pc[d] = "scanned" /\ pc'[d] = "executing"
          /\ job'[d].todo = PlanOf(d)
          /\ vault' = vault /\ queue'[d] = <<>>
      BY <2>2 DEF Starts
    <3>4. job[d].snap = vault[d]
      BY <1>1, <3>3 DEF QueueOK
    <3> QED BY <1>2, <3>2, <3>3, <3>4 DEF QueueOK
  <2> QED BY <1>5, <2>1, <2>2 DEF Plans
<1>6. CASE Operates(d)
  <2>1. /\ pc[d] = "executing" /\ pc' = pc
        /\ job'[d].todo.localMoves \subseteq job[d].todo.localMoves
    BY <1>6 DEF Operates
  <2>2. FilesAt(vault[d], queue[d]) /\ MovesFiles(vault[d], job[d].todo.localMoves)
    BY <1>1, <2>1 DEF QueueOK
  <2>3. /\ FilesAt(vault'[d], queue'[d])
        /\ MovesFiles(vault'[d], job'[d].todo.localMoves)
    <3>1. CASE vault' = vault /\ queue' = queue
      <4>1. Stays(vault[d], vault[d])
        BY DEF Stays
      <4> QED BY <2>1, <2>2, <3>1, <4>1, NothingTaken
    <3>2. CASE LocalMove(d)
      BY <1>1, <2>1, <3>2, LocalMoveQueue
    <3>3. CASE SetAside(d) \/ Install(d) \/ RecoverLocal(d)
      BY <1>1, <2>1, <3>3, LaterQueue DEF MovesFiles
    <3> QED BY <1>6, <3>1, <3>2, <3>3 DEF Operates
  <2> QED BY <2>1, <2>3 DEF QueueOK
<1>7. CASE Commits(d) \/ Saves(d) \/ Retires(d)
  BY <1>1, <1>7 DEF Commits, Saves, Retires, QueueOK
<1> QED BY <1>3, <1>4, <1>5, <1>6, <1>7

LEMMA QueueStep ==
  ASSUME QInv, ~FolderRenames, ~EditDuringSync, [Next]_vars
  PROVE  QInv'
<1>1. FInv' /\ IInv
  BY QueueLeads, FolderStep DEF QInv, FInv, HInv
<1>2. ASSUME NEW e \in Device, vault'[e] = vault[e], queue'[e] = queue[e],
             pc'[e] = pc[e], job'[e] = job[e]
      PROVE  QueueOK(e)'
  BY <1>2 DEF QInv, QueueOK
<1>3. CASE UNCHANGED vars
  BY <1>1, <1>2, <1>3 DEF vars, localVars, QInv
<1>4. ASSUME NEW d \in Device, Others(d),
             \/ Acts(d) \/ Ends(d) \/ Plans(d) \/ Operates(d)
             \/ Commits(d) \/ Saves(d) \/ Retires(d)
      PROVE  QInv'
  <2>1. QueueOK(d)'
    BY <1>4, QueueOfStep
  <2>2. \A e \in Device \ {d} : QueueOK(e)'
    BY <1>2, <1>4 DEF Others
  <2> QED BY <1>1, <2>1, <2>2 DEF QInv
<1> QED BY <1>1, <1>3, <1>4, StepKinds

\* So it is when users rename files only, and none while his device
\* synchronizes: he cannot make a file of a folder between a scan and the plan.
\* Nor does the executor rename a folder then.
THEOREM RenamesLeadToFiles ==
  ASSUME ~FolderRenames, ~EditDuringSync
  PROVE  Spec => []EventsLeadToFiles
<1>1. QInv /\ [Next]_vars => QInv'
  BY QueueStep
<1>2. Init => QInv
  <2> SUFFICES ASSUME Init PROVE QInv
    OBVIOUS
  <2>1. \A d \in Device : pc[d] = "idle" /\ queue[d] = <<>>
    BY DEF Init
  <2> QED BY <2>1, FolderStarts DEF QInv, QueueOK, FilesAt
<1>3. QInv => EventsLeadToFiles
  BY QueueLeads
<1> QED BY <1>1, <1>2, <1>3, PTL DEF Spec

\* Then every entry of the manifest is below the folder of its path, or that
\* folder has a tombstone.
THEOREM EntriesBelowFolders ==
  ASSUME ~FolderRenames, ~EditDuringSync, NoneIsNoId
  PROVE  Spec => []ParentsMatchPaths
BY FoldersStay, RenamesLeadToFiles, PTL

------------------------------------------------------------------------------
(* A device whose vault is as its base has it. *)

NoneIsNoPath == ~IsPath(None)

AtBase(d) == pc[d] = "scanned" /\ job[d].snap = ViewOf(base[d])

\* Nothing it plans changes the manifest, and nothing stops it but the number of
\* deletions or a path that was reused.
OnlyFollows ==
  \A d \in Device : AtBase(d) =>
    LET plan == PlanOf(d) IN
      /\ plan.uploads = {} /\ plan.remoteMoves = {} /\ plan.tombstones = {}
      /\ \/ HardBlocked(plan) = {} /\ plan.conflicts = {}
         \/ PathReused(d)

LEMMA NothingSettled ==
  ASSUME NEW plan, \A c \in plan.conflicts : c.kind = "path-collision", NEW picked
  PROVE  \A k \in DOMAIN NoOperations :
           ApplyConflictResolutions(plan, picked)[k] = plan[k]
<1> DEFINE Settled == {c \in plan.conflicts : Decided(c, picked)}
           dropped == MergePlans({Preserving(plan, c) : c \in Settled})
           added == MergePlans({Deciding(c, picked[c.id]) : c \in Settled})
<1>1. Settled = {}
  BY DEF Decided, Resolvable
<1> HIDE DEF Settled
<1>2. \A k \in DOMAIN NoOperations : dropped[k] = {} /\ added[k] = {}
  BY <1>1 DEF MergePlans
<1>3. ApplyConflictResolutions(plan, picked) =
        [k \in DOMAIN NoOperations |-> (plan[k] \ dropped[k]) \cup added[k]]
  BY DEF ApplyConflictResolutions, Settled
<1> HIDE DEF dropped, added
<1> QED BY <1>2, <1>3

LEMMA FollowersFollow ==
  ASSUME FInv, NoneIsNoPath
  PROVE  OnlyFollows
<1> SUFFICES ASSUME NEW d \in Device, AtBase(d)
             PROVE  /\ PlanOf(d).uploads = {} /\ PlanOf(d).remoteMoves = {}
                    /\ PlanOf(d).tombstones = {}
                    /\ \/ HardBlocked(PlanOf(d)) = {} /\ PlanOf(d).conflicts = {}
                       \/ PathReused(d)
  BY DEF OnlyFollows
<1> DEFINE B == base[d].entries
           R == manifest.entries
           snap == job[d].snap
           q == queue[d]
           plan == PlanSync(base[d], manifest, snap, q)
           result == PlanOf(d)
<1>1. /\ IsManifest(base[d]) /\ Valid(base[d]) /\ Published(base[d])
      /\ IsManifest(manifest) /\ Valid(manifest)
      /\ IsList(q) /\ IsSnapshot(snap)
      /\ AtHome(B) /\ AtHome(R)
  BY DEF FInv, HInv, IInv, LocalOK, ManifestOK, JobOK, FolderOK, FoldersOK, AtBase
<1>2. Len(q) \in Nat /\ DOMAIN q = 1..Len(q) /\ ~(base[d].rev > manifest.rev)
  BY <1>1 DEF IsList, Published, IsManifest
<1>3. IsFiniteSet(DOMAIN snap) /\ DistinctPaths(B) /\ DistinctPaths(R)
  BY <1>1 DEF IsSnapshot, Valid, DistinctPaths
<1>4. /\ \A i \in DOMAIN B : B[i] # Nothing /\ B[i].path # None
      /\ \A i \in DOMAIN R : R[i] # Nothing
  <2>1. \A i \in DOMAIN B : IsEntry(B[i])
    BY <1>1 DEF IsManifest, IsEntries
  <2>2. \A i \in DOMAIN R : IsEntry(R[i])
    BY <1>1 DEF IsManifest, IsEntries
  <2>3. \A e : IsEntry(e) => e # Nothing /\ e.path # None
    BY DEF IsEntry, Nothing, NoneIsNoPath
  <2> QED BY <2>1, <2>2, <2>3
<1>5. SameKinds(B, R)
  BY <1>1 DEF SameKinds, AtHome, IsFolder
<1>6. Mirrors(snap, B)
  <2> DEFINE Owner(p) == CHOOSE i \in DOMAIN B : B[i].path = p
             paths == {B[i].path : i \in DOMAIN B}
  <2>1. snap = [p \in paths |-> B[Owner(p)].data]
    BY DEF AtBase, ViewOf
  <2>2. \A i \in DOMAIN B : Owner(B[i].path) = i
    <3> TAKE i \in DOMAIN B
    <3>1. /\ Owner(B[i].path) \in DOMAIN B
          /\ B[Owner(B[i].path)].path = B[i].path
      OBVIOUS
    <3> HIDE DEF Owner, B
    <3> QED BY <1>3, <3>1 DEF DistinctPaths
  <2> HIDE DEF Owner, snap, B
  <2>3. \A i \in DOMAIN B : snap[B[i].path] = B[i].data
    BY <2>1, <2>2
  <2> QED BY <2>1, <2>3 DEF Mirrors
<1>7. /\ plan.uploads = {} /\ plan.remoteMoves = {} /\ plan.tombstones = {}
      /\ \A c \in plan.conflicts : c.kind = "path-collision"
      /\ \/ plan.conflicts = {} /\ HardBlocked(plan) = {}
         \/ Reused(B, R)
  <2> DEFINE n == Len(q)
             old == base[d]
  <2> HIDE DEF snap, q, n, old
  <2> QED BY <1>2, <1>3, <1>4, <1>5, <1>6, FollowerPlan DEF n, old
<1>8. \A k \in DOMAIN NoOperations : result[k] = plan[k]
  <2>1. result = ApplyConflictResolutions(plan, choices[d])
    BY DEF PlanOf
  <2> HIDE DEF plan, result
  <2> QED BY <1>7, <2>1, NothingSettled
<1>9. /\ result.uploads = plan.uploads /\ result.remoteMoves = plan.remoteMoves
      /\ result.tombstones = plan.tombstones
      /\ result.conflicts = plan.conflicts /\ result.blocked = plan.blocked
  <2> HIDE DEF result, plan
  <2> QED BY <1>8 DEF NoOperations
<1>10. Reused(B, R) => PathReused(d)
  BY DEF Reused, PathReused
<1> HIDE DEF plan, result
<1> QED BY <1>7, <1>9, <1>10 DEF HardBlocked, result

\* A device that finds its vault as its base has it only takes over what others
\* did, whatever rename events it has and whatever its user chose before: it
\* publishes no change of the entries, and asks its user nothing, unless a path
\* was reused.
THEOREM FollowersOnlyFollow ==
  ASSUME NoneIsNoPath
  PROVE  Spec /\ []EventsLeadToFiles => []OnlyFollows
<1>1. FInv /\ EventsLeadToFiles /\ [Next]_vars => FInv'
  BY FolderStep
<1>2. FInv => OnlyFollows
  BY FollowersFollow
<1> QED BY <1>1, <1>2, FolderStarts, PTL DEF Spec
=============================================================================

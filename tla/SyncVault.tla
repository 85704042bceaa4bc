----------------------------- MODULE SyncVault -----------------------------
(***************************************************************************)
(* Devices that synchronize their vaults through one manifest and one      *)
(* Drive folder: SyncController.run with the planner and                   *)
(* SyncExecutor.execute of src/src/sync, and the users who edit the vaults *)
(* between (or during) synchronizations.                                   *)
(*                                                                         *)
(* Each operation of a plan is a step; operations of one phase come in the *)
(* order of their ids, which are hashes, so in any order.  A commit is     *)
(* atomic here: LeaseCommit shows what that rests on.  What a              *)
(* synchronization keeps in memory is lost when it is interrupted; the     *)
(* journal is written but never read back, and is left out.                *)
(***************************************************************************)
EXTENDS ConflictResolution

CONSTANTS
  Device,          \* the devices
  EditorSets,      \* which users edit: sets of devices, one of them is the case
  Content,         \* contents users write
  FilePath,        \* paths of files that users write, rename and delete
  FolderPath,      \* paths of folders that users create and delete
  FolderRenames,   \* users rename folders
  Initial,         \* the vault all devices start from: a snapshot
  Recreates,       \* users create folders where one was deleted before
  Rebuilds,    \* users rebuild the index
  Reverts,         \* users write contents that were discarded before
  EditDuringSync,  \* users edit while their device synchronizes
  Overlap,         \* synchronizations of different devices overlap
  Offered,         \* the choices users make for conflicts
  StaleChoices,    \* users edit between a plan and the choices made for it,
                   \* or between a choice and its application
  MaxEdits,        \* bound: edits
  MaxInterrupts,   \* bound: interrupted synchronizations and crashes
  MaxPreviews,     \* bound: previews
  MaxFiles         \* bound: objects on Drive

ASSUME BoundAssumption ==
  /\ {MaxEdits, MaxInterrupts, MaxPreviews, MaxFiles} \subseteq Nat
  /\ {FolderRenames, Recreates, Rebuilds, Reverts, EditDuringSync, StaleChoices,
      Overlap} \subseteq BOOLEAN
  /\ Offered \subseteq Choice
  /\ EditorSets \subseteq SUBSET Device

VARIABLES
  vault,       \* vault[d]: the files and folders of d, a snapshot
  trash,       \* trash[d]: contents in the local recovery folder
  queue,       \* queue[d]: rename events, oldest first
  base,        \* base[d]: base manifest in the local state file of d
  manifest,    \* the manifest on Drive
  drive,       \* the objects on Drive, by their ids 1, 2, ...
  pc,          \* pc[d]: where d is in a synchronization
  job,         \* job[d]: what the synchronization of d keeps in memory
  shown,       \* shown[d]: conflicts of the last plan of d
  choices,     \* choices[d]: what the user of d chose, by id
  editor,      \* the devices whose users edit
  kept,        \* contents that users wrote and nobody discarded
  gone,        \* contents that a user overwrote or deleted
  edits, interrupts, previews

localVars == <<vault, trash, queue>>
remoteVars == <<manifest, drive>>
centerVars == <<shown, choices>>
ghostVars == <<editor, kept, gone, edits, interrupts, previews>>
vars == <<localVars, base, remoteVars, pc, job, centerVars, ghostVars>>

\* Drive ids of the root and the recovery folder of the vault.
Root == 0
RecoveryFolder == -1

------------------------------------------------------------------------------
(* Paths and folders *)

Within(p, q) == IsPrefix(p, q)
Below(p, q) == IsStrictPrefix(p, q)
Basename(p) == p[Len(p)]

Rebase(q, from, to) == to \o SubSeq(q, Len(from) + 1, Len(q))

Contents(v) == {v[p] : p \in DOMAIN v} \ {Folder}

Tree(v, p) == {q \in DOMAIN v : Within(p, q)}

RemoveTree(v, p) == Restrict(v, DOMAIN v \ Tree(v, p))

MoveTree(v, from, to) ==
  RemoveTree(v, from)
    ++ [q \in {Rebase(q, from, to) : q \in Tree(v, from)} |->
          v[Rebase(q, to, from)]]

\* The folders a path goes through.
FoldersOf(p) == {SubSeq(p, 1, n) : n \in 1..(Len(p) - 1)}

\* ensureDirectory and ensureParent: whatever is there stays.
EnsureFolders(v, paths) == v ++ [p \in paths |-> Folder]
EnsureParent(v, p) == EnsureFolders(v, FoldersOf(p))
EnsureFolder(v, p) == EnsureFolders(EnsureParent(v, p), {p})

ParentExists(v, p) ==
  Len(p) = 1 \/ (Front(p) \in DOMAIN v /\ v[Front(p)] = Folder)

\* Nothing can be put at p: a file is where p needs a folder.
FileInWay(v, p) == \E q \in FoldersOf(p) \cap DOMAIN v : v[q] # Folder

\* What a file system holds: whatever is in a folder is in an existing one.
IsTree(v) ==
  \A p \in DOMAIN v :
    /\ IsPath(p)
    /\ \A q \in FoldersOf(p) : q \in DOMAIN v /\ v[q] = Folder

IsSnapshot(v) ==
  /\ v = [p \in DOMAIN v |-> v[p]]
  /\ IsFiniteSet(DOMAIN v)
  /\ IsTree(v)

ASSUME PathAssumption ==
  /\ IsSnapshot(Initial)
  /\ \A p \in FilePath \cup FolderPath : IsPath(p)

------------------------------------------------------------------------------
(* Manifests *)

\* findParentLogicalId: the folder entry at the parent path of p, if any.
FindParent(entries, p) ==
  LET Parents == {id \in DOMAIN entries :
                    entries[id].data = Folder /\ entries[id].path = Front(p)}
  IN IF Len(p) > 1 /\ Parents # {} THEN CHOOSE id \in Parents : TRUE ELSE None

\* parentDriveId, and the Drive folder of what FindParent found.
FolderFile(entries, parent) ==
  IF parent = None THEN Root ELSE entries[parent].file

\* validateManifest, where a plan can go against it.
Valid(m) ==
  /\ \A i, j \in DOMAIN m.entries : i # j =>
       /\ m.entries[i].file # m.entries[j].file
       /\ m.entries[i].path # m.entries[j].path
  /\ \A i \in DOMAIN m.entries : m.entries[i].parent # None =>
       /\ m.entries[i].parent \in DOMAIN m.entries
       /\ m.entries[m.entries[i].parent].data = Folder
  /\ DOMAIN m.entries \cap DOMAIN m.tombs = {}

\* What a device that follows the manifest has in its vault.
ViewOf(m) ==
  [p \in {m.entries[i].path : i \in DOMAIN m.entries} |->
     m.entries[CHOOSE i \in DOMAIN m.entries : m.entries[i].path = p].data]

InitialPaths == SetToSeq(DOMAIN Initial)
InitialId(p) == <<"l", p, Initial[p], 0>>
InitialFile(p) == CHOOSE n \in 1..Len(InitialPaths) : InitialPaths[n] = p

InitialManifest ==
  [rev |-> 0,
   entries |->
     [id \in {InitialId(p) : p \in DOMAIN Initial} |->
        [path |-> id[2], data |-> id[3], file |-> InitialFile(id[2]),
         parent |-> IF Len(id[2]) = 1 THEN None ELSE InitialId(Front(id[2]))]],
   tombs |-> [id \in {} |-> None]]

NoChoices == [id \in {} |-> None]

Init ==
  /\ vault = [d \in Device |-> Initial]
  /\ trash = [d \in Device |-> {}]
  /\ queue = [d \in Device |-> <<>>]
  /\ base = [d \in Device |-> InitialManifest]
  /\ manifest = InitialManifest
  /\ drive = [n \in 1..Len(InitialPaths) |->
                LET p == InitialPaths[n] IN
                  [data |-> Initial[p],
                   parent |-> IF Len(p) = 1 THEN Root
                              ELSE InitialFile(Front(p))]]
  /\ pc = [d \in Device |-> "idle"]
  /\ job = [d \in Device |-> Nothing]
  /\ shown = [d \in Device |-> {}]
  /\ choices = [d \in Device |-> NoChoices]
  /\ editor \in EditorSets
  /\ kept = Contents(Initial)
  /\ gone = {}
  /\ edits = 0
  /\ interrupts = 0
  /\ previews = 0

------------------------------------------------------------------------------
(* Users.  Obsidian reports what they do to EventQueue.enqueue, of which the *)
(* planner reads the rename events.  An event at a path replaces the one     *)
(* that was there, and a rename also removes the one at its old path.        *)

EventElsewhere(others, e, paths) ==
  IF e.new \in paths THEN others ELSE Append(others, e)

EventsElsewhere(events, paths) ==
  FoldLeft(LAMBDA k, e : EventElsewhere(k, e, paths), <<>>, events)

\* The events after what is at p in the vault v has moved to q.
AfterMove(events, v, p, q) ==
  LET old == SetToSeq(Tree(v, p))
      moves == [n \in 1..Len(old) |->
                  [old |-> old[n], new |-> Rebase(old[n], p, q)]]
      touched == UNION {{e.old, e.new} : e \in ToSet(moves)}
  IN EventsElsewhere(events, touched) \o moves

Discard(contents, new) ==
  /\ kept' = (kept \ contents) \cup new
  /\ gone' = (gone \cup contents) \ new

MayEdit(d) ==
  /\ d \in editor
  /\ edits < MaxEdits
  /\ EditDuringSync \/ pc[d] = "idle"
  /\ edits' = edits + 1
  /\ StaleChoices \/ choices[d] = NoChoices
  /\ shown' = IF StaleChoices THEN shown ELSE [shown EXCEPT ![d] = {}]
  /\ UNCHANGED <<trash, base, remoteVars, pc, job, editor, interrupts, previews>>

Write(d, p, c) ==
  /\ MayEdit(d)
  /\ ParentExists(vault[d], p)
  /\ Lookup(vault[d], p) \notin {c, Folder}
  /\ c \in gone => Reverts
  /\ vault' = [vault EXCEPT ![d] = [q \in {p} |-> c] ++ @]
  /\ queue' = [queue EXCEPT ![d] = EventsElsewhere(@, {p})]
  /\ Discard({Lookup(vault[d], p)} \ {None}, {c})
  /\ UNCHANGED choices

MakeFolder(d, p) ==
  /\ MayEdit(d)
  /\ p \notin DOMAIN vault[d]
  /\ ParentExists(vault[d], p)
  /\ Recreates \/ \A r \in {manifest.entries, manifest.tombs} :
                    \A id \in DOMAIN r : r[id].path # p
  /\ vault' = [vault EXCEPT ![d] = EnsureFolders(@, {p})]
  /\ queue' = [queue EXCEPT ![d] = EventsElsewhere(@, {p})]
  /\ Discard({}, {})
  /\ UNCHANGED choices

Delete(d, p) ==
  /\ MayEdit(d)
  /\ p \in DOMAIN vault[d]
  /\ vault' = [vault EXCEPT ![d] = RemoveTree(@, p)]
  /\ queue' = [queue EXCEPT ![d] = EventsElsewhere(@, Tree(vault[d], p))]
  /\ Discard(Contents(Restrict(vault[d], Tree(vault[d], p))), {})
  /\ UNCHANGED choices

Rename(d, p, q) ==
  /\ MayEdit(d)
  /\ p \in DOMAIN vault[d]
  /\ vault[d][p] = Folder => FolderRenames
  /\ q \notin DOMAIN vault[d]
  /\ ParentExists(vault[d], q)
  /\ ~Within(p, q)
  /\ vault' = [vault EXCEPT ![d] = MoveTree(@, p, q)]
  /\ queue' = [queue EXCEPT ![d] = AfterMove(@, vault[d], p, q)]
  /\ Discard({}, {})
  /\ UNCHANGED choices

------------------------------------------------------------------------------
(* The Conflict Center.  It shows the conflicts of the last plan, whatever    *)
(* became of them, and compares them with the files as they are by then.      *)

\* What is at the local path of c when the user looks.
LocalVersion(d, c) ==
  IF c.local = Nothing THEN {}
  ELSE {Lookup(vault[d], c.local.path)} \ {None, Folder}

\* setConflictResolution.  Who keeps the remote version discards the local one.
Choose(d, c, choice) ==
  /\ EditDuringSync \/ pc[d] = "idle"
  /\ Resolvable(c)
  /\ choice = "manual" => c.local = Nothing
  /\ choices' = [choices EXCEPT ![d] = [id \in {c.id} |-> choice] ++ @]
  /\ Discard(IF choice = "keep-remote" THEN LocalVersion(d, c) ELSE {}, {})
  /\ UNCHANGED <<localVars, base, remoteVars, pc, job, shown, editor, edits,
                 interrupts, previews>>

\* writeManualMerge, then setConflictResolution.
Merge(d, c, text) ==
  /\ MayEdit(d)
  /\ Resolvable(c)
  /\ "manual" \in Offered
  /\ c.local # Nothing
  /\ text \in gone => Reverts
  /\ Lookup(vault[d], c.local.path) # Folder
  /\ ~FileInWay(vault[d], c.local.path)
  /\ vault' = [vault EXCEPT ![d] = [p \in {c.local.path} |-> text]
                                     ++ EnsureParent(@, c.local.path)]
  /\ queue' = [queue EXCEPT ![d] = EventsElsewhere(@, {c.local.path})]
  /\ choices' = [choices EXCEPT ![d] = [id \in {c.id} |-> "manual"] ++ @]
  /\ Discard(LocalVersion(d, c), {text})

------------------------------------------------------------------------------
(* SyncController.run: scan, read the remote manifest, plan *)

Idle(d) ==
  /\ pc' = [pc EXCEPT ![d] = "idle"]
  /\ job' = [job EXCEPT ![d] = Nothing]

Scan(d) ==
  /\ pc[d] = "idle"
  /\ Overlap \/ \A e \in Device : pc[e] = "idle"
  /\ pc' = [pc EXCEPT ![d] = "scanned"]
  /\ job' = [job EXCEPT ![d] = [snap |-> vault[d]]]
  /\ UNCHANGED <<localVars, base, remoteVars, centerVars, ghostVars>>

\* The plan of d for the snapshot it has taken.
PlanOf(d) ==
  ApplyConflictResolutions(PlanSync(base[d], manifest, job[d].snap, queue[d]),
                           choices[d])

Show(d) == shown' = [shown EXCEPT ![d] = PlanOf(d).conflicts]

\* Mutant of UpToDate: the remote manifest is not saved as the base.
UpToDateKeepsBase(d) ==
  /\ pc[d] = "scanned"
  /\ IsNoOp(PlanOf(d))
  /\ queue' = [queue EXCEPT ![d] = <<>>]
  /\ Show(d)
  /\ Idle(d)
  /\ UNCHANGED <<vault, trash, base, remoteVars, choices, ghostVars>>

\* Nothing to do: the remote manifest becomes the base.
UpToDate(d) ==
  /\ pc[d] = "scanned"
  /\ IsNoOp(PlanOf(d))
  /\ base' = [base EXCEPT ![d] = manifest]
  /\ queue' = [queue EXCEPT ![d] = <<>>]
  /\ Show(d)
  /\ Idle(d)
  /\ UNCHANGED <<vault, trash, remoteVars, choices, ghostVars>>

\* The plan is refused; the events it drained are gone.
Blocked(d) ==
  /\ pc[d] = "scanned"
  /\ HardBlocked(PlanOf(d)) # {}
  /\ queue' = [queue EXCEPT ![d] = <<>>]
  /\ Show(d)
  /\ Idle(d)
  /\ UNCHANGED <<vault, trash, base, remoteVars, choices, ghostVars>>

\* A preview reads the events without draining them.
Preview(d) ==
  /\ pc[d] = "scanned"
  /\ previews < MaxPreviews
  /\ previews' = previews + 1
  /\ Show(d)
  /\ Idle(d)
  /\ UNCHANGED <<localVars, base, remoteVars, choices, editor, kept, gone,
                 edits, interrupts>>

\* Rebuild index: a preview, then the remote manifest becomes the base whatever
\* the vault holds.
Rebuild(d) ==
  /\ Rebuilds
  /\ pc[d] = "scanned"
  /\ edits < MaxEdits
  /\ edits' = edits + 1
  /\ editor' = editor \cup {d}
  /\ base' = [base EXCEPT ![d] = manifest]
  /\ Show(d)
  /\ Idle(d)
  /\ UNCHANGED <<localVars, remoteVars, choices, kept, gone, interrupts, previews>>

\* The user lets the plan proceed, when it has to be reviewed.
Start(d) ==
  /\ pc[d] = "scanned"
  /\ ~IsNoOp(PlanOf(d))
  /\ HardBlocked(PlanOf(d)) = {}
  /\ pc' = [pc EXCEPT ![d] = "executing"]
  /\ job' = [job EXCEPT ![d] =
               [plan |-> PlanOf(d), todo |-> PlanOf(d), snap |-> @.snap,
                remote |-> manifest, working |-> manifest, staged |-> {},
                aside |-> Nothing, replaced |-> {}, trashed |-> {}]]
  /\ queue' = [queue EXCEPT ![d] = <<>>]
  /\ Show(d)
  /\ UNCHANGED <<vault, trash, base, remoteVars, choices, ghostVars>>

------------------------------------------------------------------------------
(* SyncExecutor.execute *)

\* d is executing and the operations of these kinds are done.
Executing(d, kinds) ==
  /\ pc[d] = "executing"
  /\ \A k \in kinds : job[d].todo[k] = {}

DoneUploads(d) == Executing(d, {"uploads"})
DoneStaging(d) == Executing(d, {"uploads", "downloads"})
DoneLocalMoves(d) == Executing(d, {"uploads", "downloads", "localMoves"})

\* Mutant of DoneInstalling: the installations are not awaited.
DoneStarting(d) == DoneLocalMoves(d)

DoneInstalling(d) == DoneLocalMoves(d) /\ job[d].staged = {}
DoneRemoteMoves(d) == DoneInstalling(d) /\ job[d].todo.remoteMoves = {}
DoneRecoveries(d) == DoneRemoteMoves(d) /\ job[d].todo.recoveries = {}

\* The synchronization ends with an error.
Abort(d) ==
  /\ Idle(d)
  /\ UNCHANGED <<localVars, base, remoteVars, centerVars, ghostVars>>

\* VaultDriveClient.verifyAllowed: the manifest names the file for the id, and
\* the file is in the folder where the caller expects it.
Verified(d, id, file, folder) ==
  /\ id \in DOMAIN job[d].remote.entries
  /\ job[d].remote.entries[id].file = file
  /\ drive[file].parent = folder

\* Mutant of UploadsFirst: uploads are not sorted.
AnyUploadFirst(o, u) == FALSE

\* sortUploads: folders first, then shallow paths.
UploadsFirst(o, u) ==
  \/ o.data = Folder /\ u.data # Folder
  \/ (o.data = Folder <=> u.data = Folder) /\ Len(o.path) < Len(u.path)

\* Mutant of CreateObject: an entry that existed keeps its Drive id.
CreateUnderOldFile(d, u) ==
  LET working == job[d].working.entries
      source == IF u.data = Folder THEN Folder ELSE Lookup(vault[d], u.path)
      previous == ObjectOf(working, u.id)
      parent == FindParent(working, u.path)
      entry == [path |-> u.path, data |-> u.data,
                file |-> IF previous = Nothing THEN Len(drive) + 1
                         ELSE previous.file,
                parent |-> parent]
      orphan == [id |-> u.id, file |-> previous.file,
                 folder |-> FolderFile(working, previous.parent)]
  IN /\ drive' = Append(drive, [data |-> source,
                                parent |-> FolderFile(working, parent)])
     /\ job' = [job EXCEPT
                  ![d].todo.uploads = @ \ {u},
                  ![d].working.entries = [i \in {u.id} |-> entry] ++ @,
                  ![d].replaced = IF previous = Nothing \/ u.data = Folder THEN @
                                  ELSE @ \cup {orphan}]

\* Creates a Drive object with what is in the vault for the upload u; the object
\* of the entry it replaces, if any, is remembered.
CreateObject(d, u) ==
  LET working == job[d].working.entries
      source == IF u.data = Folder THEN Folder ELSE Lookup(vault[d], u.path)
      previous == ObjectOf(working, u.id)
      parent == FindParent(working, u.path)
      entry == [path |-> u.path, data |-> u.data, file |-> Len(drive) + 1,
                parent |-> parent]
      orphan == [id |-> u.id, file |-> previous.file,
                 folder |-> FolderFile(working, previous.parent)]
  IN /\ drive' = Append(drive, [data |-> source,
                                parent |-> FolderFile(working, parent)])
     /\ job' = [job EXCEPT
                  ![d].todo.uploads = @ \ {u},
                  ![d].working.entries = [i \in {u.id} |-> entry] ++ @,
                  ![d].replaced = IF previous = Nothing \/ u.data = Folder THEN @
                                  ELSE @ \cup {orphan}]

\* Mutant of ExecuteUpload: the file is not compared with the scan.
ExecuteUncheckedUpload(d) ==
  /\ Executing(d, {})
  /\ Len(drive) < MaxFiles
  /\ \E u \in job[d].todo.uploads :
       /\ \A o \in job[d].todo.uploads : ~UploadsFirst(o, u)
       /\ u.data = Folder \/ u.path \in DOMAIN vault[d]
       /\ CreateObject(d, u)
  /\ UNCHANGED <<localVars, base, manifest, pc, centerVars, ghostVars>>

\* executeUpload, if the file still is what the scan saw.
ExecuteUpload(d) ==
  /\ Executing(d, {})
  /\ Len(drive) < MaxFiles
  /\ \E u \in job[d].todo.uploads :
       /\ \A o \in job[d].todo.uploads : ~UploadsFirst(o, u)
       /\ u.data = Folder \/ Lookup(vault[d], u.path) = u.data
       /\ CreateObject(d, u)
  /\ UNCHANGED <<localVars, base, manifest, pc, centerVars, ghostVars>>

\* The file to upload has changed since the scan, or is gone.
LocalChanged(d) ==
  /\ Executing(d, {})
  /\ \E u \in job[d].todo.uploads :
       u.data # Folder /\ Lookup(vault[d], u.path) # u.data
  /\ Abort(d)

\* The download o is let through: its file is where the planned manifest has it.
DownloadVerified(d, o) ==
  LET entries == job[d].remote.entries IN
    Verified(d, o.id, o.file, FolderFile(entries, entries[o.id].parent))

\* stageDownloads: the content goes to a temporary file.
StageDownload(d) ==
  /\ DoneUploads(d)
  /\ \E o \in job[d].todo.downloads :
       /\ DownloadVerified(d, o)
       /\ job' = [job EXCEPT
                    ![d].todo.downloads = @ \ {o},
                    ![d].staged = @ \cup {[path |-> o.path,
                                           data |-> drive[o.file].data]}]
  /\ UNCHANGED <<localVars, base, remoteVars, pc, centerVars, ghostVars>>

DownloadDenied(d) ==
  /\ DoneUploads(d)
  /\ \E o \in job[d].todo.downloads : ~DownloadVerified(d, o)
  /\ Abort(d)

\* Folders are created before anything is moved.
MoveTurn(d, m) ==
  m.from = None \/ \A o \in job[d].todo.localMoves : o.from # None

\* Something is at the destination of the move m, or nothing can be put there.
Hindered(d, m) ==
  \/ FileInWay(vault[d], m.to)
  \/ m.from # None /\ (m.to \in DOMAIN vault[d] \/ Within(m.from, m.to))

\* executeLocalMove; a file that is gone is left alone.
LocalMove(d) ==
  /\ DoneStaging(d)
  /\ \E m \in job[d].todo.localMoves :
       /\ MoveTurn(d, m)
       /\ \/ /\ m.from = None /\ ~Hindered(d, m)
             /\ vault' = [vault EXCEPT ![d] = EnsureFolder(@, m.to)]
             /\ queue' = queue
          \/ /\ m.from # None /\ m.from \notin DOMAIN vault[d]
             /\ UNCHANGED <<vault, queue>>
          \/ /\ m.from # None /\ m.from \in DOMAIN vault[d]
             /\ ~Hindered(d, m)
             /\ vault' = [vault EXCEPT
                            ![d] = MoveTree(EnsureParent(@, m.to),
                                            m.from, m.to)]
             /\ queue' = [queue EXCEPT
                            ![d] = AfterMove(@, vault[d], m.from, m.to)]
       /\ job' = [job EXCEPT ![d].todo.localMoves = @ \ {m}]
  /\ UNCHANGED <<trash, base, remoteVars, pc, centerVars, ghostVars>>

\* The folders above the destination are made before the rename fails.
LocalMoveFails(d) ==
  /\ DoneStaging(d)
  /\ \E m \in job[d].todo.localMoves :
       /\ MoveTurn(d, m)
       /\ m.from = None \/ m.from \in DOMAIN vault[d]
       /\ Hindered(d, m)
       /\ vault' = IF FileInWay(vault[d], m.to) THEN vault
                   ELSE [vault EXCEPT ![d] = EnsureParent(@, m.to)]
  /\ Idle(d)
  /\ UNCHANGED <<trash, queue, base, remoteVars, centerVars, ghostVars>>

\* finalizeDownload, first half: what is at the path becomes a backup.
SetAside(d) ==
  /\ DoneLocalMoves(d)
  /\ job[d].aside = Nothing
  /\ \E s \in job[d].staged :
       /\ s.path \in DOMAIN vault[d]
       /\ job' = [job EXCEPT ![d].aside = [path |-> s.path,
                                           data |-> vault[d][s.path]]]
       /\ vault' = [vault EXCEPT ![d] = RemoveTree(@, s.path)]
       /\ queue' = [queue EXCEPT
                      ![d] = EventsElsewhere(@, Tree(vault[d], s.path))]
  /\ UNCHANGED <<trash, base, remoteVars, pc, centerVars, ghostVars>>

\* The download s can take its place: nobody has put something there, or taken
\* its folder away, since the backup was made.
Installable(d, s) ==
  /\ s.path \notin DOMAIN vault[d]
  /\ IF job[d].aside = Nothing THEN ~FileInWay(vault[d], s.path)
                               ELSE ParentExists(vault[d], s.path)

\* Second half: the download takes its place and the backup is removed.
Install(d) ==
  /\ DoneLocalMoves(d)
  /\ \E s \in job[d].staged :
       /\ job[d].aside # Nothing => s.path = job[d].aside.path
       /\ Installable(d, s)
       /\ vault' = [vault EXCEPT ![d] = [p \in {s.path} |-> s.data]
                                          ++ EnsureParent(@, s.path)]
       /\ job' = [job EXCEPT ![d].staged = @ \ {s}, ![d].aside = Nothing]
  /\ UNCHANGED <<trash, queue, base, remoteVars, pc, centerVars, ghostVars>>

\* Then the backup cannot be put back either.
InstallFails(d) ==
  /\ DoneLocalMoves(d)
  /\ \E s \in job[d].staged :
       /\ IF job[d].aside = Nothing THEN s.path \notin DOMAIN vault[d]
                                    ELSE s.path = job[d].aside.path
       /\ ~Installable(d, s)
  /\ Abort(d)

\* The entries after the one of id has moved to path, below the folder parent.
MovedEntries(entries, id, path, parent) ==
  LET old == entries[id].path
      Inside(i) == entries[id].data = Folder /\ Below(old, entries[i].path)
  IN [i \in DOMAIN entries |->
        IF i = id
        THEN [entries[i] EXCEPT !.path = path, !.parent = parent]
        ELSE [entries[i] EXCEPT !.path = IF Inside(i)
                                         THEN Rebase(@, old, path) ELSE @]]

\* An upload that replaced the object has put it in its new place already.
MoveNeeded(d, m) ==
  /\ m.id \in DOMAIN job[d].working.entries
  /\ ~\E r \in job[d].replaced : r.id = m.id

\* The Drive calls of executeRemoteMove, if there are any, are let through.
MoveVerified(d, m) ==
  LET entries == job[d].working.entries
      from == FolderFile(entries, entries[m.id].parent)
      to == FolderFile(entries, FindParent(entries, m.to))
  IN from # to \/ Basename(m.from) # Basename(m.to) =>
       Verified(d, m.id, entries[m.id].file, from)

RemoteMove(d) ==
  /\ DoneInstalling(d)
  /\ \E m \in job[d].todo.remoteMoves :
       LET entries == job[d].working.entries
           parent == FindParent(entries, m.to)
           folder == FolderFile(entries, parent)
       IN /\ MoveNeeded(d, m) => MoveVerified(d, m)
          /\ drive' = IF /\ MoveNeeded(d, m)
                         /\ FolderFile(entries, entries[m.id].parent) # folder
                      THEN [drive EXCEPT ![entries[m.id].file].parent = folder]
                      ELSE drive
          /\ job' = [job EXCEPT
                       ![d].todo.remoteMoves = @ \ {m},
                       ![d].working.entries =
                         IF MoveNeeded(d, m)
                         THEN MovedEntries(@, m.id, m.to, parent) ELSE @]
  /\ UNCHANGED <<localVars, base, manifest, pc, centerVars, ghostVars>>

MoveDenied(d) ==
  /\ DoneInstalling(d)
  /\ \E m \in job[d].todo.remoteMoves :
       MoveNeeded(d, m) /\ ~MoveVerified(d, m)
  /\ Abort(d)

\* moveLocalToRecovery: nothing happens when the path is gone, or when its
\* place in the recovery folder of this synchronization is taken.
RecoverLocal(d) ==
  /\ DoneRemoteMoves(d)
  /\ \E r \in job[d].todo.recoveries :
       LET moves == /\ r.path \in DOMAIN vault[d]
                    /\ ~\E p \in job[d].trashed : Within(r.path, p)
           tree == IF moves THEN Tree(vault[d], r.path) ELSE {}
       IN /\ r.side = "local"
          /\ vault' = [vault EXCEPT ![d] = Restrict(@, DOMAIN @ \ tree)]
          /\ queue' = [queue EXCEPT ![d] = EventsElsewhere(@, tree)]
          /\ trash' = [trash EXCEPT
                         ![d] = @ \cup Contents(Restrict(vault[d], tree))]
          /\ job' = [job EXCEPT ![d].todo.recoveries = @ \ {r},
                                ![d].trashed = @ \cup tree]
  /\ UNCHANGED <<base, remoteVars, pc, centerVars, ghostVars>>

\* The Drive object goes to the recovery folder, unless its folder does.
RecoveryNeeded(d, r) ==
  /\ r.id \in DOMAIN job[d].working.entries
  /\ \A o \in job[d].plan.recoveries :
       o.side = "remote" => ~Below(o.path, r.path)

RecoveryVerified(d, r) ==
  LET entries == job[d].working.entries IN
    Verified(d, r.id, r.file, FolderFile(entries, entries[r.id].parent))

RecoverRemote(d) ==
  /\ DoneRemoteMoves(d)
  /\ \E r \in job[d].todo.recoveries :
       /\ r.side = "remote"
       /\ RecoveryNeeded(d, r) => RecoveryVerified(d, r)
       /\ drive' = IF RecoveryNeeded(d, r)
                   THEN [drive EXCEPT ![r.file].parent = RecoveryFolder]
                   ELSE drive
       /\ job' = [job EXCEPT ![d].todo.recoveries = @ \ {r}]
  /\ UNCHANGED <<localVars, base, manifest, pc, centerVars, ghostVars>>

RecoveryDenied(d) ==
  /\ DoneRemoteMoves(d)
  /\ \E r \in job[d].todo.recoveries :
       r.side = "remote" /\ RecoveryNeeded(d, r) /\ ~RecoveryVerified(d, r)
  /\ Abort(d)

\* Mutant of NextManifest: only the tombstones of the plan are written.
ForgetfulManifest(d) ==
  LET m == job[d].working
      dead == job[d].plan.tombstones \cap DOMAIN m.entries
  IN [rev |-> job[d].remote.rev + 1,
      entries |-> Restrict(m.entries, DOMAIN m.entries \ dead),
      tombs |-> [id \in dead |-> m.entries[id]]]

\* applyTombstones, and the manifest to commit.
NextManifest(d) ==
  LET m == job[d].working
      dead == job[d].plan.tombstones \cap DOMAIN m.entries
  IN [rev |-> job[d].remote.rev + 1,
      entries |-> Restrict(m.entries, DOMAIN m.entries \ dead),
      tombs |-> [id \in dead |-> m.entries[id]] ++ m.tombs]

\* Mutant of Commit: another device may have committed meanwhile.
CommitAnyway(d) ==
  /\ DoneRecoveries(d)
  /\ Valid(NextManifest(d))
  /\ manifest' = NextManifest(d)
  /\ pc' = [pc EXCEPT ![d] = "committed"]
  /\ UNCHANGED <<localVars, base, drive, job, centerVars, ghostVars>>

\* Mutant of Commit: the manifest is not validated.
CommitUnchecked(d) ==
  /\ DoneRecoveries(d)
  /\ manifest.rev = job[d].remote.rev
  /\ manifest' = NextManifest(d)
  /\ pc' = [pc EXCEPT ![d] = "committed"]
  /\ UNCHANGED <<localVars, base, drive, job, centerVars, ghostVars>>

Commit(d) ==
  /\ DoneRecoveries(d)
  /\ Valid(NextManifest(d))
  /\ manifest.rev = job[d].remote.rev
  /\ manifest' = NextManifest(d)
  /\ pc' = [pc EXCEPT ![d] = "committed"]
  /\ UNCHANGED <<localVars, base, drive, job, centerVars, ghostVars>>

\* The manifest to commit is invalid, or another device has committed.
CommitRefused(d) ==
  /\ DoneRecoveries(d)
  /\ ~Valid(NextManifest(d)) \/ manifest.rev # job[d].remote.rev
  /\ Abort(d)

\* The committed manifest becomes the base.
SaveState(d) ==
  /\ pc[d] = "committed"
  /\ base' = [base EXCEPT ![d] = NextManifest(d)]
  /\ pc' = [pc EXCEPT ![d] = "retiring"]
  /\ UNCHANGED <<localVars, remoteVars, job, centerVars, ghostVars>>

\* Replaced Drive objects go to the recovery folder, if they are in place.
Retire(d) ==
  /\ pc[d] = "retiring"
  /\ \E r \in job[d].replaced :
       /\ drive' = IF Verified(d, r.id, r.file, r.folder)
                   THEN [drive EXCEPT ![r.file].parent = RecoveryFolder]
                   ELSE drive
       /\ job' = [job EXCEPT ![d].replaced = @ \ {r}]
  /\ UNCHANGED <<localVars, base, manifest, pc, centerVars, ghostVars>>

Finish(d) ==
  /\ pc[d] = "retiring"
  /\ job[d].replaced = {}
  /\ choices' = [choices EXCEPT ![d] = NoChoices]
  /\ Idle(d)
  /\ UNCHANGED <<localVars, base, remoteVars, shown, ghostVars>>

\* A request fails for good, or the user cancels or declines the plan.  The
\* error handler of finalizeDownload puts the backup back, if it can.
Interrupt(d) ==
  /\ pc[d] # "idle"
  /\ interrupts < MaxInterrupts
  /\ interrupts' = interrupts + 1
  /\ \/ vault' = vault
     \/ /\ pc[d] = "executing"
        /\ job[d].aside # Nothing
        /\ job[d].aside.path \notin DOMAIN vault[d]
        /\ ParentExists(vault[d], job[d].aside.path)
        /\ vault' = [vault EXCEPT ![d] = [p \in {job[d].aside.path} |->
                                            job[d].aside.data] ++ @]
  /\ Idle(d)
  /\ UNCHANGED <<trash, queue, base, remoteVars, centerVars, editor, kept, gone,
                 edits, previews>>

\* The application stops and starts again, with what is in its files.
Crash(d) ==
  /\ interrupts < MaxInterrupts
  /\ interrupts' = interrupts + 1
  /\ queue' = [queue EXCEPT ![d] = <<>>]
  /\ shown' = [shown EXCEPT ![d] = {}]
  /\ choices' = [choices EXCEPT ![d] = NoChoices]
  /\ Idle(d)
  /\ UNCHANGED <<vault, trash, base, remoteVars, editor, kept, gone, edits,
                 previews>>

------------------------------------------------------------------------------

Edit(d) ==
  \/ \E p \in FilePath, c \in Content : Write(d, p, c)
  \/ \E p \in FolderPath : MakeFolder(d, p)
  \/ \E p \in FilePath \cup FolderPath : Delete(d, p)
  \/ \E p, q \in FilePath : Rename(d, p, q)
  \/ \E p, q \in FolderPath : Rename(d, p, q)

Execute(d) ==
  \/ ExecuteUpload(d) \/ LocalChanged(d)
  \/ StageDownload(d) \/ DownloadDenied(d)
  \/ LocalMove(d) \/ LocalMoveFails(d)
  \/ SetAside(d) \/ Install(d) \/ InstallFails(d)
  \/ RemoteMove(d) \/ MoveDenied(d)
  \/ RecoverLocal(d) \/ RecoverRemote(d) \/ RecoveryDenied(d)
  \/ Commit(d) \/ CommitRefused(d)
  \/ SaveState(d) \/ Retire(d) \/ Finish(d)

Sync(d) == Scan(d) \/ UpToDate(d) \/ Blocked(d) \/ Start(d) \/ Execute(d)

Resolve(d) ==
  \E c \in shown[d] :
    \/ \E choice \in Offered : Choose(d, c, choice)
    \/ \E text \in Content : Merge(d, c, text)

Next ==
  \E d \in Device :
    Edit(d) \/ Preview(d) \/ Rebuild(d) \/ Resolve(d) \/ Sync(d) \/ Interrupt(d) \/ Crash(d)

Spec == Init /\ [][Next]_vars

\* Every device synchronizes again and again: on a timer, on start and when
\* the application returns to the foreground.
\* What it starts comes to an end: a step is enabled whenever it is not idle,
\* so the second part is weak fairness.
FairSpec ==
  /\ Spec
  /\ \A d \in Device :
       /\ SF_vars(Scan(d))
       /\ []<>(pc[d] = "idle") \/ []<><<Sync(d)>>_vars

------------------------------------------------------------------------------
(* Properties *)

TypeOK ==
  /\ pc \in [Device -> {"idle", "scanned", "executing", "committed",
                        "retiring"}]
  /\ manifest.rev \in Nat
  /\ Valid(manifest)
  /\ \A d \in Device :
       /\ Valid(base[d])
       /\ job[d] = Nothing <=> pc[d] = "idle"
       /\ IsTree(vault[d])

\* What d holds: its vault, its trash and the backup of a file being replaced.
Held(d) ==
  Contents(vault[d]) \cup trash[d]
    \cup (IF pc[d] = "executing" /\ job[d].aside # Nothing
          THEN {job[d].aside.data} ELSE {})

\* No content is lost that no user discarded: a device holds it, or the manifest
\* names it, or it lies in the recovery folder.
ContentPreserved ==
  kept \subseteq
    UNION {Held(d) : d \in Device}
      \cup {manifest.entries[i].data : i \in DOMAIN manifest.entries}
      \cup {drive[n].data : n \in {n \in DOMAIN drive :
                                     drive[n].parent = RecoveryFolder}}

\* A device reports that it is up to date only when its vault is what the
\* manifest says.
UpToDateIsTrue ==
  \A d \in Device :
    pc[d] = "scanned" /\ IsNoOp(PlanOf(d)) => job[d].snap = ViewOf(manifest)

\* Every entry of the manifest is backed by a Drive object with its content.
EntriesBacked ==
  \A i \in DOMAIN manifest.entries :
    drive[manifest.entries[i].file].data = manifest.entries[i].data

\* While nobody synchronizes, the objects the manifest names are in the folders
\* it says, where verifyAllowed expects them.
ManifestUsable ==
  (\A d \in Device : pc[d] = "idle") =>
    \A i \in DOMAIN manifest.entries :
      LET e == manifest.entries[i] IN
        drive[e.file].parent = FolderFile(manifest.entries, e.parent)

\* What nobody discarded is not deleted: its entry only gives way to another one
\* with the same content.
UserDeletesOnly ==
  [][Cardinality(editor) = 1 =>
     \A id \in DOMAIN manifest'.tombs \ DOMAIN manifest.tombs :
       manifest'.tombs[id].data \notin
         kept \ {manifest'.entries[i].data : i \in DOMAIN manifest'.entries}]_manifest

\* A deleted id stays deleted.
TombstonesDominate ==
  [][/\ DOMAIN manifest.tombs \subseteq DOMAIN manifest'.tombs
     /\ DOMAIN manifest.tombs \cap DOMAIN manifest'.entries = {}]_manifest

Ids(m) == DOMAIN m.entries \cup DOMAIN m.tombs

\* The manifests that devices take for the base have one history: no base is
\* ahead of the manifest on Drive, and one of its revision is that manifest.
\* planTrackedObject takes what the remote manifest does not list any more for
\* deleted, and it is: the manifest has a tombstone of all it lacks of a base.
BaseIsPublished ==
  \A d \in Device :
    /\ base[d].rev <= manifest.rev
    /\ base[d].rev = manifest.rev => base[d] = manifest
    /\ DOMAIN base[d].entries \subseteq Ids(manifest)

\* No commit loses an object: an id of the manifest is in the next one, as an
\* entry or as deleted.  No device goes back to an older base.
HistoryGoesOn ==
  [][/\ Ids(manifest) \subseteq Ids(manifest')
     /\ \A d \in Device : base[d].rev <= base'[d].rev]_<<manifest, base>>

\* An entry never gets back a content a user replaced.
NoStaleContent ==
  [][\A i \in DOMAIN manifest.entries \cap DOMAIN manifest'.entries :
       manifest'.entries[i].data # manifest.entries[i].data
         => manifest'.entries[i].data \notin gone]_manifest

\* A path d knows was given to another object after a deletion, or is where
\* another object d knows was renamed to.
PathReused(d) ==
  \E i \in DOMAIN base[d].entries, j \in DOMAIN manifest.entries :
    /\ i # j
    /\ base[d].entries[i].path = manifest.entries[j].path
    /\ i \notin DOMAIN manifest.entries \/ j \in DOMAIN base[d].entries

\* A device whose user does nothing is never left with a conflict, or blocked
\* for another reason than the number of deletions, unless a path was reused.
FollowerUndisturbed ==
  \A d \in Device \ editor :
    pc[d] = "scanned" =>
      \/ HardBlocked(PlanOf(d)) = {} /\ PlanOf(d).conflicts = {}
      \/ PathReused(d)

\* An entry lies below the entry of the folder in its path, unless that folder
\* was deleted.
ParentsMatchPaths ==
  \A i \in DOMAIN manifest.entries :
    LET e == manifest.entries[i] IN
      Len(e.path) > 1 =>
        \/ e.parent # None /\ manifest.entries[e.parent].path = Front(e.path)
        \/ \E t \in DOMAIN manifest.tombs :
             manifest.tombs[t].path = Front(e.path)

\* A commit after which nothing was edited leaves the vault as committed.
Converged(d) == vault[d] = ViewOf(manifest) /\ base[d] = manifest

Convergence ==
  <>[](\A d \in Device : Converged(d) \/ HardBlocked(
        PlanSync(base[d], manifest, vault[d], queue[d])) # {})
==============================================================================

------------------------------ MODULE ThreeWay ------------------------------
(***************************************************************************)
(* The three-way comparison of src/src/sync/planner.ts for one logical id: *)
(* what is planned for an object, given its entry in the base manifest,    *)
(* its state in the local snapshot and its entry in the remote manifest.   *)
(*                                                                         *)
(* A path is a sequence of names.  The data of an object is Folder, or the *)
(* content of a file (its SHA-256 hash and size, which the scanner always  *)
(* fills in).  A local object is [path, data]; a manifest entry is         *)
(* [path, data, file, parent], file being its Drive id and parent the id   *)
(* of the entry of its folder, or None.  Where an object may be missing    *)
(* there is Nothing.                                                       *)
(***************************************************************************)
EXTENDS Sequences

CONSTANTS
  None,      \* no path, no id, no file
  Folder     \* the data of a folder

\* No object, no entry: a record that shares no field with one.
Nothing == [nothing |-> TRUE]

\* A path has a name at least.
IsPath(p) == p # <<>> /\ p \in Seq({p[n] : n \in DOMAIN p})

IsFolder(o) == o.data = Folder

\* The classification of o against b is "unchanged".
Same(b, o) ==
  /\ o # Nothing
  /\ o.path = b.path
  /\ o.data = b.data

TypeChanged(b, o) == o # Nothing /\ IsFolder(b) # IsFolder(o)

------------------------------------------------------------------------------
(* Operations of a plan.  A plan is a record of sets of operations. *)

NoOperations ==
  [uploads |-> {}, downloads |-> {}, remoteMoves |-> {}, localMoves |-> {},
   conflicts |-> {}, tombstones |-> {}, recoveries |-> {}, blocked |-> {}]

Upload(id, o) == [id |-> id, path |-> o.path, data |-> o.data]

Download(id, path, r) ==
  [id |-> id, path |-> path, file |-> r.file, data |-> r.data]

\* A move from None creates a folder.
Move(id, from, to, o) ==
  [id |-> id, from |-> from, to |-> to, folder |-> IsFolder(o)]

\* Moves a local object to the trash, or the Drive object named file to the
\* recovery folder.
Recovery(id, path, side, file) ==
  [id |-> id, path |-> path, side |-> side, file |-> file]

\* Where the remote side of a conflict goes: next to path, under a name made
\* of its name, the id and the time the remote manifest was updated.
ConflictPath(path, id, time) ==
  [path EXCEPT ![Len(path)] = <<@, id, time>>]

\* The id under which the local side of a conflict is uploaded.
ConflictId(id, path) == <<"c", id, path>>

\* Both sides are kept: the remote file moves to a conflict path, on Drive and
\* as a download, and the local file is uploaded as an object of its own.
\* Folders are left to the user.
Conflict(kind, id, l, r, time) ==
  LET path == IF l # Nothing THEN l.path ELSE r.path
      copy == ConflictPath(path, id, time)
      remoteFile == r # Nothing /\ ~IsFolder(r)
      localFile == l # Nothing /\ ~IsFolder(l)
  IN [NoOperations EXCEPT
        !.conflicts = {[id |-> id, kind |-> kind, path |-> path,
                        local |-> l, remote |-> r]},
        !.remoteMoves = IF remoteFile THEN {Move(id, r.path, copy, r)} ELSE {},
        !.downloads = IF remoteFile THEN {Download(id, copy, r)} ELSE {},
        !.uploads = IF localFile THEN {Upload(ConflictId(id, path), l)}
                                 ELSE {},
        !.blocked = IF \E o \in {l, r} : o # Nothing /\ IsFolder(o)
                    THEN {"FOLDER_CONFLICT_REVIEW"} ELSE {}]

------------------------------------------------------------------------------
(* planNewObject: the base manifest has no entry *)

RemoteCreation(id, r) ==
  IF IsFolder(r)
  THEN [NoOperations EXCEPT !.localMoves = {Move(id, None, r.path, r)}]
  ELSE [NoOperations EXCEPT !.downloads = {Download(id, r.path, r)}]

PlanNewObject(id, l, r, tombstoned, time) ==
  CASE tombstoned /\ l # Nothing ->
         [NoOperations EXCEPT
            !.recoveries = {Recovery(id, l.path, "local", None)}]
    [] tombstoned /\ l = Nothing -> NoOperations
    [] ~tombstoned /\ l = Nothing /\ r = Nothing -> NoOperations
    [] ~tombstoned /\ l # Nothing /\ r = Nothing ->
         [NoOperations EXCEPT !.uploads = {Upload(id, l)}]
    [] ~tombstoned /\ l = Nothing /\ r # Nothing -> RemoteCreation(id, r)
    [] OTHER ->
         CASE IsFolder(l) # IsFolder(r) ->
                Conflict("type-collision", id, l, r, time)
           [] IsFolder(l) = IsFolder(r) /\ l.data # r.data ->
                Conflict("both-modified", id, l, r, time)
           [] l.data = r.data /\ l.path # r.path ->
                Conflict("rename-rename", id, l, r, time)
           [] OTHER -> NoOperations

------------------------------------------------------------------------------
(* planTrackedObject: the base manifest has the entry b *)

\* The object is gone locally.
LocallyDeleted(id, b, r, time) ==
  CASE r = Nothing -> NoOperations
    [] r # Nothing /\ Same(b, r) ->
         [NoOperations EXCEPT
            !.tombstones = {id},
            !.recoveries = {Recovery(id, b.path, "remote", b.file)}]
    [] OTHER -> Conflict("modify-delete", id, Nothing, r, time)

\* The object is gone from the remote manifest; the local one is moved away.
RemotelyDeleted(id, b, l, time) ==
  LET kind == IF l.path # b.path /\ l.data = b.data
              THEN "rename-delete" ELSE "modify-delete"
      plan == IF Same(b, l) THEN NoOperations
              ELSE Conflict(kind, id, l, Nothing, time)
  IN [plan EXCEPT !.recoveries = {Recovery(id, l.path, "local", None)}]

\* Mutant of RemoteChange: a remote rename is not followed.
RemoteContentChange(id, b, r) ==
  [NoOperations EXCEPT
     !.downloads = IF r.data # b.data THEN {Download(id, r.path, r)} ELSE {}]

\* Only the remote side can differ from the base.
RemoteChange(id, b, r) ==
  [NoOperations EXCEPT
     !.localMoves = IF r.path # b.path THEN {Move(id, b.path, r.path, r)}
                    ELSE {},
     !.downloads = IF r.data # b.data THEN {Download(id, r.path, r)} ELSE {}]

\* Only the local side differs from the base.
LocalChange(id, b, l, r) ==
  [NoOperations EXCEPT
     !.remoteMoves = IF l.path # b.path THEN {Move(id, b.path, l.path, r)}
                     ELSE {},
     !.uploads = IF l.data # b.data THEN {Upload(id, l)} ELSE {}]

\* Both sides changed and hold the same data.
Reconcile(id, b, l, r, time) ==
  CASE l.path = r.path -> NoOperations
    [] l.path # r.path /\ r.path = b.path ->
         [NoOperations EXCEPT !.remoteMoves = {Move(id, b.path, l.path, r)}]
    [] l.path # r.path /\ l.path = b.path ->
         [NoOperations EXCEPT !.localMoves = {Move(id, b.path, r.path, r)}]
    [] OTHER -> Conflict("rename-rename", id, l, r, time)

\* Mutant of BothPresent: the remote side wins over a divergent local one.
RemoteWins(id, b, l, r, time) ==
  CASE Same(b, l) -> RemoteChange(id, b, r)
    [] ~Same(b, l) /\ Same(b, r) -> LocalChange(id, b, l, r)
    [] ~Same(b, l) /\ ~Same(b, r) /\ l.data = r.data ->
         Reconcile(id, b, l, r, time)
    [] OTHER -> RemoteChange(id, b, r)

BothPresent(id, b, l, r, time) ==
  CASE Same(b, l) -> RemoteChange(id, b, r)
    [] ~Same(b, l) /\ Same(b, r) -> LocalChange(id, b, l, r)
    [] ~Same(b, l) /\ ~Same(b, r) /\ l.data = r.data ->
         Reconcile(id, b, l, r, time)
    [] OTHER ->
         Conflict(IF (l.path # b.path) # (r.path # b.path)
                  THEN "rename-modify" ELSE "both-modified", id, l, r, time)

\* A type change with nothing on either side of the conflict cannot occur.
PlanTrackedObject(id, b, l, r, time) ==
  IF TypeChanged(b, l) \/ TypeChanged(b, r)
  THEN Conflict("type-collision", id, l, r, time)
  ELSE CASE l = Nothing -> LocallyDeleted(id, b, r, time)
         [] l # Nothing /\ r = Nothing -> RemotelyDeleted(id, b, l, time)
         [] OTHER -> BothPresent(id, b, l, r, time)

\* The plan for one logical id.  Valid manifests never hold a tombstone and an
\* entry for the same id, so a tombstone means that r is Nothing.
PlanObject(id, b, l, r, tombstoned, time) ==
  IF b = Nothing
  THEN PlanNewObject(id, l, r, tombstoned, time)
  ELSE PlanTrackedObject(id, b, l, r, time)
==============================================================================

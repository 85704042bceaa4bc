--------------------------- MODULE PlannerProofs ---------------------------
(***************************************************************************)
(* What the planner of src/src/sync/planner.ts guarantees: first the       *)
(* three-way comparison for one logical id, whatever the base, the local   *)
(* and the remote side are, then whole plans: what planSync does not plan  *)
(* needs no plan, and what it plans for an object is in the plan.          *)
(*                                                                         *)
(* A side is Nothing or a record with a path and data; the theorems need   *)
(* to know nothing else of it.                                             *)
(***************************************************************************)
EXTENDS Planner, TLAPS, FiniteSetTheorems, WellFoundedInduction

------------------------------------------------------------------------------
(* One object *)

\* The two sides hold the same object, or none.
Agree(l, r) ==
  \/ l = Nothing /\ r = Nothing
  \/ l # Nothing /\ r # Nothing /\ l.path = r.path /\ l.data = r.data

\* A plan without operations.
Empty(plan) ==
  /\ plan.uploads = {}
  /\ plan.downloads = {}
  /\ plan.remoteMoves = {}
  /\ plan.localMoves = {}
  /\ plan.conflicts = {}
  /\ plan.tombstones = {}
  /\ plan.recoveries = {}
  /\ plan.blocked = {}

\* A conflict always shows in the plan.
LEMMA ConflictShows ==
  ASSUME NEW kind, NEW id, NEW l, NEW r, NEW time
  PROVE  Conflict(kind, id, l, r, time).conflicts # {}
BY DEF Conflict, NoOperations

\* Nothing is planned for an object only when both sides agree on it: an id for
\* which planSync plans nothing does not hide a difference.
THEOREM NothingPlannedAgree ==
  ASSUME NEW id, NEW b, NEW l, NEW r, NEW tombstoned \in BOOLEAN, NEW time,
         tombstoned => r = Nothing,
         Empty(PlanObject(id, b, l, r, tombstoned, time))
  PROVE  Agree(l, r)
<1>1. CASE b = Nothing
  <2>1. Empty(PlanNewObject(id, l, r, tombstoned, time))
    BY <1>1 DEF PlanObject
  <2>2. CASE tombstoned
    BY <2>1, <2>2 DEF PlanNewObject, NoOperations, Empty, Agree
  <2>3. CASE ~tombstoned /\ l = Nothing /\ r # Nothing
    BY <2>1, <2>3 DEF PlanNewObject, RemoteCreation, NoOperations, Empty
  <2>4. CASE ~tombstoned /\ l # Nothing /\ r = Nothing
    BY <2>1, <2>4 DEF PlanNewObject, NoOperations, Empty
  <2>5. CASE ~tombstoned /\ l # Nothing /\ r # Nothing
    BY <2>1, <2>5, ConflictShows
    DEF PlanNewObject, IsFolder, NoOperations, Empty, Agree
  <2> QED BY <2>2, <2>3, <2>4, <2>5 DEF Agree
<1>2. CASE b # Nothing
  <2>1. Empty(PlanTrackedObject(id, b, l, r, time))
    BY <1>2 DEF PlanObject
  <2>2. ~TypeChanged(b, l) /\ ~TypeChanged(b, r)
    BY <2>1, ConflictShows DEF PlanTrackedObject, NoOperations, Empty
  <2>3. CASE l = Nothing
    <3>1. Empty(LocallyDeleted(id, b, r, time))
      BY <2>1, <2>2, <2>3 DEF PlanTrackedObject
    <3>2. CASE r # Nothing /\ Same(b, r)
      BY <3>1, <3>2 DEF LocallyDeleted, NoOperations, Empty
    <3>3. CASE r # Nothing /\ ~Same(b, r)
      BY <3>1, <3>3, ConflictShows DEF LocallyDeleted, NoOperations, Empty, Same
    <3> QED BY <2>3, <3>2, <3>3 DEF Agree
  <2>4. CASE l # Nothing /\ r = Nothing
    <3>1. Empty(RemotelyDeleted(id, b, l, time))
      BY <2>1, <2>2, <2>4 DEF PlanTrackedObject
    <3> QED BY <3>1 DEF RemotelyDeleted, Conflict, NoOperations, Empty
  <2>5. CASE l # Nothing /\ r # Nothing
    <3>1. Empty(BothPresent(id, b, l, r, time))
      BY <2>1, <2>2, <2>5 DEF PlanTrackedObject
    <3>2. CASE Same(b, l)
      BY <3>1, <3>2, <2>5
      DEF BothPresent, RemoteChange, NoOperations, Empty, Same, Agree
    <3>3. CASE ~Same(b, l) /\ Same(b, r)
      BY <3>1, <3>3, <2>5
      DEF BothPresent, LocalChange, NoOperations, Empty, Same
    <3>4. CASE ~Same(b, l) /\ ~Same(b, r)
      BY <3>1, <3>4, <2>5, ConflictShows
      DEF BothPresent, Reconcile, NoOperations, Empty, Agree
    <3> QED BY <3>2, <3>3, <3>4
  <2> QED BY <2>3, <2>4, <2>5
<1> QED BY <1>1, <1>2

------------------------------------------------------------------------------
(* Neither side loses what it alone has *)

\* In a conflict the local file is uploaded ...
LEMMA ConflictKeepsLocal ==
  ASSUME NEW kind, NEW id, NEW l, NEW r, NEW time, l # Nothing, ~IsFolder(l)
  PROVE  Upload(ConflictId(id, l.path), l)
           \in Conflict(kind, id, l, r, time).uploads
BY DEF Conflict, NoOperations

\* ... and the remote one downloaded.
LEMMA ConflictKeepsRemote ==
  ASSUME NEW kind, NEW id, NEW l, NEW r, NEW time, r # Nothing, ~IsFolder(r)
  PROVE  \E o \in Conflict(kind, id, l, r, time).downloads :
           o.file = r.file /\ o.data = r.data
<1> DEFINE copy == ConflictPath(IF l # Nothing THEN l.path ELSE r.path, id, time)
<1>1. Download(id, copy, r) \in Conflict(kind, id, l, r, time).downloads
  BY DEF Conflict, NoOperations
<1>2. Download(id, copy, r).file = r.file /\ Download(id, copy, r).data = r.data
  BY DEF Download
<1> QED BY <1>1, <1>2

Uploaded(plan, l) == \E u \in plan.uploads : u.path = l.path /\ u.data = l.data

Downloaded(plan, r) ==
  \E o \in plan.downloads : o.file = r.file /\ o.data = r.data

\* What a user wrote into a file is uploaded, unless the remote side has it too
\* or the file is moved to the recovery folder because the object was deleted.
THEOREM LocalEditSurvives ==
  ASSUME NEW id, NEW b, NEW l, NEW r, NEW tombstoned \in BOOLEAN, NEW time,
         l # Nothing, ~IsFolder(l),
         b = Nothing \/ l.data # b.data
  PROVE  LET plan == PlanObject(id, b, l, r, tombstoned, time) IN
           \/ r # Nothing /\ r.data = l.data
           \/ Uploaded(plan, l)
           \/ Recovery(id, l.path, "local", None) \in plan.recoveries
<1> DEFINE plan == PlanObject(id, b, l, r, tombstoned, time)
<1>0. ASSUME NEW p, NEW i, Upload(i, l) \in p.uploads
      PROVE  Uploaded(p, l)
  BY <1>0 DEF Uploaded, Upload
<1>1. \A kind : Uploaded(Conflict(kind, id, l, r, time), l)
  BY <1>0, ConflictKeepsLocal
<1>2. CASE b = Nothing
  <2>1. plan = PlanNewObject(id, l, r, tombstoned, time)
    BY <1>2 DEF PlanObject
  <2>2. CASE tombstoned
    BY <2>1, <2>2 DEF PlanNewObject, NoOperations
  <2>3. CASE ~tombstoned /\ r = Nothing
    <3>1. Upload(id, l) \in plan.uploads
      BY <2>1, <2>3 DEF PlanNewObject, NoOperations
    <3> QED BY <3>1, <1>0
  <2>4. CASE ~tombstoned /\ r # Nothing /\ r.data # l.data
    BY <2>1, <2>4, <1>1 DEF PlanNewObject, IsFolder
  <2> QED BY <2>2, <2>3, <2>4
<1>3. CASE b # Nothing
  <2>1. plan = PlanTrackedObject(id, b, l, r, time)
    BY <1>3 DEF PlanObject
  <2>2. CASE TypeChanged(b, l) \/ TypeChanged(b, r)
    BY <2>1, <2>2, <1>1 DEF PlanTrackedObject
  <2>3. CASE ~(TypeChanged(b, l) \/ TypeChanged(b, r)) /\ r = Nothing
    <3>1. plan = RemotelyDeleted(id, b, l, time)
      BY <2>1, <2>3 DEF PlanTrackedObject
    <3>2. \A kind : DOMAIN Conflict(kind, id, l, Nothing, time)
                      = DOMAIN NoOperations
      BY DEF Conflict, NoOperations
    <3> QED BY <3>1, <3>2 DEF RemotelyDeleted, NoOperations
  <2>4. CASE ~(TypeChanged(b, l) \/ TypeChanged(b, r)) /\ r # Nothing
    <3>1. plan = BothPresent(id, b, l, r, time)
      BY <2>1, <2>4 DEF PlanTrackedObject
    <3>2. ~Same(b, l)
      BY <1>3 DEF Same
    <3>3. CASE Same(b, r)
      <4>1. Upload(id, l) \in plan.uploads
        BY <3>1, <3>2, <3>3, <1>3 DEF BothPresent, LocalChange, NoOperations
      <4> QED BY <4>1, <1>0
    <3>4. CASE ~Same(b, r) /\ r.data # l.data
      BY <3>1, <3>2, <3>4, <1>1 DEF BothPresent
    <3> QED BY <2>4, <3>3, <3>4
  <2> QED BY <2>2, <2>3, <2>4
<1> QED BY <1>2, <1>3

\* A remote change of a file is downloaded, unless the local file has it too.
THEOREM RemoteEditSurvives ==
  ASSUME NEW id, NEW b, NEW l, NEW r, NEW time,
         r # Nothing, ~IsFolder(r),
         b = Nothing \/ r.data # b.data
  PROVE  \/ l # Nothing /\ l.data = r.data
         \/ Downloaded(PlanObject(id, b, l, r, FALSE, time), r)
<1> DEFINE plan == PlanObject(id, b, l, r, FALSE, time)
<1>0. ASSUME NEW p, NEW path, Download(id, path, r) \in p.downloads
      PROVE  Downloaded(p, r)
  BY <1>0 DEF Downloaded, Download
<1>1. \A kind : Downloaded(Conflict(kind, id, l, r, time), r)
  BY ConflictKeepsRemote DEF Downloaded
<1>2. CASE b = Nothing
  <2>1. plan = PlanNewObject(id, l, r, FALSE, time)
    BY <1>2 DEF PlanObject
  <2>2. CASE l = Nothing
    <3>1. Download(id, r.path, r) \in plan.downloads
      BY <2>1, <2>2 DEF PlanNewObject, RemoteCreation, NoOperations
    <3> QED BY <3>1, <1>0
  <2>3. CASE l # Nothing /\ l.data # r.data
    BY <2>1, <2>3, <1>1 DEF PlanNewObject, IsFolder
  <2> QED BY <2>2, <2>3
<1>3. CASE b # Nothing
  <2>1. plan = PlanTrackedObject(id, b, l, r, time)
    BY <1>3 DEF PlanObject
  <2>2. ~Same(b, r)
    BY <1>3 DEF Same
  <2>3. CASE TypeChanged(b, l) \/ TypeChanged(b, r)
    BY <2>1, <2>3, <1>1 DEF PlanTrackedObject
  <2>4. CASE ~(TypeChanged(b, l) \/ TypeChanged(b, r)) /\ l = Nothing
    <3>1. plan = LocallyDeleted(id, b, r, time)
      BY <2>1, <2>4 DEF PlanTrackedObject
    <3>2. plan = Conflict("modify-delete", id, l, r, time)
      BY <3>1, <2>2, <2>4 DEF LocallyDeleted
    <3> QED BY <3>2, <1>1
  <2>5. CASE ~(TypeChanged(b, l) \/ TypeChanged(b, r)) /\ l # Nothing
    <3>1. plan = BothPresent(id, b, l, r, time)
      BY <2>1, <2>5 DEF PlanTrackedObject
    <3>2. CASE Same(b, l)
      <4>1. Download(id, r.path, r) \in plan.downloads
        BY <3>1, <3>2, <1>3 DEF BothPresent, RemoteChange, NoOperations
      <4> QED BY <4>1, <1>0
    <3>3. CASE ~Same(b, l) /\ l.data # r.data
      BY <3>1, <3>3, <2>2, <1>1 DEF BothPresent
    <3> QED BY <2>5, <3>2, <3>3
  <2> QED BY <2>3, <2>4, <2>5
<1> QED BY <1>2, <1>3

\* A download never goes to the place of a local object that differs from the
\* base: conflict copies have a path of their own.
THEOREM DownloadsSpareLocalEdits ==
  ASSUME NEW id, NEW b, NEW l, NEW r, NEW tombstoned \in BOOLEAN, NEW time,
         l # Nothing, b = Nothing \/ ~Same(b, l),
         ConflictPath(l.path, id, time) # l.path
  PROVE  \A o \in PlanObject(id, b, l, r, tombstoned, time).downloads :
           o.path # l.path
<1> DEFINE plan == PlanObject(id, b, l, r, tombstoned, time)
           Spares(p) == \A o \in p.downloads : o.path # l.path
<1>1. \A kind, q : Spares(Conflict(kind, id, l, q, time))
  BY DEF Conflict, NoOperations, Download
<1>2. \A p : p.downloads = {} => Spares(p)
  OBVIOUS
<1> SUFFICES Spares(plan)
  OBVIOUS
<1> HIDE DEF Spares
<1>3. CASE b = Nothing
  <2>1. plan = PlanNewObject(id, l, r, tombstoned, time)
    BY <1>3 DEF PlanObject
  <2>2. CASE tombstoned \/ r = Nothing
    <3>1. plan.downloads = {}
      BY <2>1, <2>2 DEF PlanNewObject, NoOperations
    <3> QED BY <3>1, <1>2
  <2>3. CASE ~tombstoned /\ r # Nothing
    <3>1. \/ plan.downloads = {}
          \/ \E kind : plan = Conflict(kind, id, l, r, time)
      BY <2>1, <2>3 DEF PlanNewObject, IsFolder, NoOperations
    <3> QED BY <3>1, <1>1, <1>2
  <2> QED BY <2>2, <2>3
<1>4. CASE b # Nothing
  <2>1. plan = PlanTrackedObject(id, b, l, r, time)
    BY <1>4 DEF PlanObject
  <2>2. CASE TypeChanged(b, l) \/ TypeChanged(b, r)
    BY <2>1, <2>2, <1>1 DEF PlanTrackedObject
  <2>3. CASE ~(TypeChanged(b, l) \/ TypeChanged(b, r)) /\ r = Nothing
    <3>1. plan = RemotelyDeleted(id, b, l, time)
      BY <2>1, <2>3 DEF PlanTrackedObject
    <3>2. plan.downloads = {}
      BY <3>1 DEF RemotelyDeleted, Conflict, NoOperations
    <3> QED BY <3>2, <1>2
  <2>4. CASE ~(TypeChanged(b, l) \/ TypeChanged(b, r)) /\ r # Nothing
    <3>1. plan = BothPresent(id, b, l, r, time)
      BY <2>1, <2>4 DEF PlanTrackedObject
    <3>2. \/ plan.downloads = {}
          \/ \E kind : plan = Conflict(kind, id, l, r, time)
      BY <3>1, <1>4
      DEF BothPresent, LocalChange, Reconcile, NoOperations, Same
    <3> QED BY <3>2, <1>1, <1>2
  <2> QED BY <2>2, <2>3, <2>4
<1> QED BY <1>3, <1>4

------------------------------------------------------------------------------
(* Deletions *)

\* A tombstone is planned only for an object that is gone locally and unchanged
\* remotely: neither a local nor a remote change is ever deleted by its own id.
THEOREM OnlyUnchangedIsDeleted ==
  ASSUME NEW id, NEW b, NEW l, NEW r, NEW tombstoned \in BOOLEAN, NEW time,
         PlanObject(id, b, l, r, tombstoned, time).tombstones # {}
  PROVE  b # Nothing /\ l = Nothing /\ r # Nothing /\ Same(b, r)
<1> DEFINE plan == PlanObject(id, b, l, r, tombstoned, time)
<1>1. \A kind, q : Conflict(kind, id, l, q, time).tombstones = {}
  BY DEF Conflict, NoOperations
<1>2. b # Nothing
  <2> SUFFICES ASSUME b = Nothing PROVE plan.tombstones = {}
    OBVIOUS
  <2>1. plan = PlanNewObject(id, l, r, tombstoned, time)
    BY DEF PlanObject
  <2> QED BY <2>1, <1>1 DEF PlanNewObject, RemoteCreation, IsFolder, NoOperations
<1>3. plan = PlanTrackedObject(id, b, l, r, time)
  BY <1>2 DEF PlanObject
<1>4. ~(TypeChanged(b, l) \/ TypeChanged(b, r))
  BY <1>1, <1>3 DEF PlanTrackedObject
<1>5. l = Nothing
  <2> SUFFICES ASSUME l # Nothing PROVE plan.tombstones = {}
    OBVIOUS
  <2>1. CASE r = Nothing
    <3>1. plan = RemotelyDeleted(id, b, l, time)
      BY <1>3, <1>4, <2>1 DEF PlanTrackedObject
    <3> QED BY <3>1 DEF RemotelyDeleted, Conflict, NoOperations
  <2>2. CASE r # Nothing
    <3>1. plan = BothPresent(id, b, l, r, time)
      BY <1>3, <1>4, <2>2 DEF PlanTrackedObject
    <3> QED BY <3>1, <1>1
      DEF BothPresent, RemoteChange, LocalChange, Reconcile, NoOperations, Same
  <2> QED BY <2>1, <2>2
<1>6. plan = LocallyDeleted(id, b, r, time)
  BY <1>3, <1>4, <1>5 DEF PlanTrackedObject
<1>7. r # Nothing
  BY <1>6 DEF LocallyDeleted, NoOperations
<1>8. Same(b, r)
  BY <1>1, <1>5, <1>6, <1>7 DEF LocallyDeleted, Same
<1> QED BY <1>2, <1>5, <1>7, <1>8

\* A tombstoned id is never given an object again: nothing is uploaded, moved or
\* downloaded under it, whatever a stale local snapshot holds.
THEOREM TombstoneDominates ==
  ASSUME NEW id, NEW b, NEW l, NEW time,
         \A path : ConflictId(id, path) # id
  PROVE  LET plan == PlanObject(id, b, l, Nothing, TRUE, time) IN
           /\ \A u \in plan.uploads : u.id # id
           /\ plan.downloads = {}
           /\ plan.remoteMoves = {}
<1> DEFINE plan == PlanObject(id, b, l, Nothing, TRUE, time)
           Sound(p) == /\ \A u \in p.uploads : u.id # id
                       /\ p.downloads = {}
                       /\ p.remoteMoves = {}
<1>1. \A kind : Sound(Conflict(kind, id, l, Nothing, time))
  BY DEF Conflict, NoOperations, Upload
<1>2. \A recoveries :
        Sound([NoOperations EXCEPT !.recoveries = recoveries])
  BY DEF NoOperations
<1>3. Sound(NoOperations)
  BY DEF NoOperations
<1>4. CASE b = Nothing
  <2>1. plan = PlanNewObject(id, l, Nothing, TRUE, time)
    BY <1>4 DEF PlanObject
  <2>2. \/ plan = NoOperations
        \/ plan = [NoOperations EXCEPT
                     !.recoveries = {Recovery(id, l.path, "local", None)}]
    BY <2>1 DEF PlanNewObject
  <2> HIDE DEF plan, Sound
  <2>3. Sound(plan)
    BY <2>2, <1>2, <1>3
  <2> QED BY <2>3 DEF plan, Sound
<1>5. CASE b # Nothing
  <2>1. plan = PlanTrackedObject(id, b, l, Nothing, time)
    BY <1>5 DEF PlanObject
  <2>2. CASE TypeChanged(b, l) \/ TypeChanged(b, Nothing)
    BY <2>1, <2>2, <1>1 DEF PlanTrackedObject
  <2>3. CASE ~(TypeChanged(b, l) \/ TypeChanged(b, Nothing)) /\ l = Nothing
    BY <2>1, <2>3, <1>3 DEF PlanTrackedObject, LocallyDeleted
  <2>4. CASE ~(TypeChanged(b, l) \/ TypeChanged(b, Nothing)) /\ l # Nothing
    <3>1. plan = RemotelyDeleted(id, b, l, time)
      <4> HIDE DEF plan, Sound
      <4> QED BY <2>1, <2>4 DEF PlanTrackedObject
    <3>2. /\ \A kind : DOMAIN Conflict(kind, id, l, Nothing, time)
                         = DOMAIN NoOperations
          /\ \A kind : Sound(Conflict(kind, id, l, Nothing, time))
      BY <1>1 DEF Conflict, NoOperations
    <3>3. \E p : /\ Sound(p)
                 /\ DOMAIN p = DOMAIN NoOperations
                 /\ \E recoveries : plan = [p EXCEPT !.recoveries = recoveries]
      <4>1. CASE Same(b, l)
        BY <3>1, <4>1, <1>3 DEF RemotelyDeleted
      <4>2. CASE ~Same(b, l)
        BY <3>1, <3>2, <4>2 DEF RemotelyDeleted
      <4> QED BY <4>1, <4>2
    <3> QED BY <3>3 DEF NoOperations
  <2> QED BY <2>2, <2>3, <2>4
<1> QED BY <1>4, <1>5

------------------------------------------------------------------------------
(* Where a plan puts things *)

\* Whatever the plan takes somewhere, or shows as a conflict, has a path.
PathsOK(plan) ==
  /\ \A o \in plan.uploads \cup plan.downloads : IsPath(o.path)
  /\ \A m \in plan.remoteMoves \cup plan.localMoves : IsPath(m.to)
  /\ \A c \in plan.conflicts : \A o \in {c.local, c.remote} :
       o = Nothing \/ IsPath(o.path)

LEMMA ConflictPathIsPath ==
  ASSUME NEW path, IsPath(path), NEW id, NEW time
  PROVE  IsPath(ConflictPath(path, id, time))
<1> DEFINE q == ConflictPath(path, id, time)
           S == {path[n] : n \in DOMAIN path}
           x == <<path[Len(path)], id, time>>
<1>1. Len(path) \in Nat \ {0} /\ DOMAIN path = 1..Len(path)
  BY DEF IsPath
<1>2. q = [path EXCEPT ![Len(path)] = x]
  BY DEF ConflictPath
<1> HIDE DEF q, x
<1>3. DOMAIN q = 1..Len(path) /\ q = [n \in 1..Len(path) |-> q[n]]
  BY <1>1, <1>2
<1>4. q \in Seq({q[n] : n \in DOMAIN q}) /\ q # <<>>
  BY <1>1, <1>3
<1> QED BY <1>4 DEF IsPath, q

LEMMA ConflictPathsOK ==
  ASSUME NEW kind, NEW id, NEW l, NEW r, NEW time,
         l = Nothing \/ IsPath(l.path), r = Nothing \/ IsPath(r.path),
         ~(l = Nothing /\ r = Nothing)
  PROVE  PathsOK(Conflict(kind, id, l, r, time))
<1> DEFINE path == IF l # Nothing THEN l.path ELSE r.path
<1>1. IsPath(path) /\ IsPath(ConflictPath(path, id, time))
  BY ConflictPathIsPath
<1> QED BY <1>1 DEF Conflict, NoOperations, PathsOK, Move, Upload, Download

\* Every path in the plan for an object is a path, if those it is made from are.
LEMMA ObjectPathsOK ==
  ASSUME NEW id, NEW b, NEW l, NEW r, NEW tombstoned \in BOOLEAN, NEW time,
         l = Nothing \/ IsPath(l.path), r = Nothing \/ IsPath(r.path)
  PROVE  PathsOK(PlanObject(id, b, l, r, tombstoned, time))
<1>0. PathsOK(NoOperations)
  BY DEF NoOperations, PathsOK
<1>1. CASE b = Nothing
  <2>1. PlanObject(id, b, l, r, tombstoned, time) =
          PlanNewObject(id, l, r, tombstoned, time)
    BY <1>1 DEF PlanObject
  <2> SUFFICES PathsOK(PlanNewObject(id, l, r, tombstoned, time))
    BY <2>1
  <2>2. CASE tombstoned
    BY <1>0, <2>2 DEF PlanNewObject, NoOperations, PathsOK
  <2>3. CASE ~tombstoned /\ l = Nothing /\ r # Nothing
    BY <2>3 DEF PlanNewObject, RemoteCreation, NoOperations, PathsOK, Move, Download
  <2>4. CASE ~tombstoned /\ r = Nothing
    BY <1>0, <2>4 DEF PlanNewObject, NoOperations, PathsOK, Upload
  <2>5. CASE ~tombstoned /\ l # Nothing /\ r # Nothing
    BY <1>0, <2>5, ConflictPathsOK DEF PlanNewObject
  <2> QED BY <2>2, <2>3, <2>4, <2>5
<1>2. CASE b # Nothing
  <2>1. PlanObject(id, b, l, r, tombstoned, time) =
          PlanTrackedObject(id, b, l, r, time)
    BY <1>2 DEF PlanObject
  <2> SUFFICES PathsOK(PlanTrackedObject(id, b, l, r, time))
    BY <2>1
  <2>2. CASE TypeChanged(b, l) \/ TypeChanged(b, r)
    BY <2>2, ConflictPathsOK DEF PlanTrackedObject, TypeChanged
  <2>3. CASE ~TypeChanged(b, l) /\ ~TypeChanged(b, r) /\ l = Nothing
    <3>1. PlanTrackedObject(id, b, l, r, time) = LocallyDeleted(id, b, r, time)
      BY <2>3 DEF PlanTrackedObject
    <3> SUFFICES PathsOK(LocallyDeleted(id, b, r, time))
      BY <3>1
    <3>2. CASE r # Nothing /\ Same(b, r)
      BY <3>2 DEF LocallyDeleted, NoOperations, PathsOK
    <3>3. CASE r # Nothing /\ ~Same(b, r)
      BY <3>3, ConflictPathsOK DEF LocallyDeleted
    <3>4. CASE r = Nothing
      BY <1>0, <3>4 DEF LocallyDeleted
    <3> QED BY <3>2, <3>3, <3>4
  <2>4. CASE ~TypeChanged(b, l) /\ ~TypeChanged(b, r)
             /\ l # Nothing /\ r = Nothing
    <3>1. PlanTrackedObject(id, b, l, r, time) = RemotelyDeleted(id, b, l, time)
      BY <2>4 DEF PlanTrackedObject
    <3> SUFFICES PathsOK(RemotelyDeleted(id, b, l, time))
      BY <3>1
    <3>2. \A kind : PathsOK(Conflict(kind, id, l, Nothing, time))
      BY <2>4, ConflictPathsOK
    <3> DEFINE Plan(p) == [p EXCEPT !.recoveries =
                             {Recovery(id, l.path, "local", None)}]
    <3>3. ASSUME NEW kind
          PROVE  PathsOK(Plan(Conflict(kind, id, l, Nothing, time)))
      BY <3>2 DEF PathsOK, Conflict, NoOperations
    <3>4. PathsOK(Plan(NoOperations))
      BY DEF PathsOK, NoOperations
    <3>5. CASE Same(b, l)
      BY <3>4, <3>5 DEF RemotelyDeleted
    <3>6. CASE ~Same(b, l)
      <4> DEFINE kind == IF l.path # b.path /\ l.data = b.data
                         THEN "rename-delete" ELSE "modify-delete"
      <4>1. RemotelyDeleted(id, b, l, time) =
              Plan(IF Same(b, l) THEN NoOperations
                   ELSE Conflict(kind, id, l, Nothing, time))
        BY DEF RemotelyDeleted
      <4> HIDE DEF Plan, kind
      <4> QED BY <3>3, <3>6, <4>1
    <3> QED BY <3>5, <3>6
  <2>5. CASE ~TypeChanged(b, l) /\ ~TypeChanged(b, r)
             /\ l # Nothing /\ r # Nothing
    <3>1. PlanTrackedObject(id, b, l, r, time) = BothPresent(id, b, l, r, time)
      BY <2>5 DEF PlanTrackedObject
    <3> SUFFICES PathsOK(BothPresent(id, b, l, r, time))
      BY <3>1
    <3>2. \A kind : PathsOK(Conflict(kind, id, l, r, time))
      BY <2>5, ConflictPathsOK
    <3>3. CASE Same(b, l)
      <4>1. BothPresent(id, b, l, r, time) = RemoteChange(id, b, r)
        BY <3>3 DEF BothPresent
      <4> QED BY <2>5, <4>1 DEF RemoteChange, NoOperations, PathsOK, Move, Download
    <3>4. CASE ~Same(b, l) /\ Same(b, r)
      <4>1. BothPresent(id, b, l, r, time) = LocalChange(id, b, l, r)
        BY <3>4 DEF BothPresent
      <4> QED BY <2>5, <4>1 DEF LocalChange, NoOperations, PathsOK, Move, Upload
    <3>5. CASE ~Same(b, l) /\ ~Same(b, r) /\ l.data = r.data
      <4>1. BothPresent(id, b, l, r, time) = Reconcile(id, b, l, r, time)
        BY <3>5 DEF BothPresent
      <4>2. PathsOK(Reconcile(id, b, l, r, time))
        BY <1>0, <2>5, <3>2 DEF Reconcile, NoOperations, PathsOK, Move
      <4> QED BY <4>1, <4>2
    <3>6. CASE ~Same(b, l) /\ ~Same(b, r) /\ l.data # r.data
      BY <3>2, <3>6 DEF BothPresent
    <3> QED BY <3>3, <3>4, <3>5, <3>6
  <2> QED BY <2>2, <2>3, <2>4, <2>5
<1> QED BY <1>1, <1>2

------------------------------------------------------------------------------
(* What goes to Drive *)

\* The ways in which the uploads and the moves on Drive of a plan come about:
\* there are none, they keep both sides, or they take a new object or a change
\* of the local side to Drive.
Outgoing(plan, id, b, l, r, tombstoned, time) ==
  \/ plan.uploads = {} /\ plan.remoteMoves = {}
  \/ /\ ~(l = Nothing /\ r = Nothing)
     /\ \E kind : /\ plan.uploads = Conflict(kind, id, l, r, time).uploads
                  /\ plan.remoteMoves = Conflict(kind, id, l, r, time).remoteMoves
  \/ /\ b = Nothing /\ ~tombstoned /\ l # Nothing /\ r = Nothing
     /\ plan.uploads = {Upload(id, l)} /\ plan.remoteMoves = {}
  \/ /\ b # Nothing /\ l # Nothing /\ r # Nothing
     /\ ~TypeChanged(b, l) /\ ~TypeChanged(b, r)
     /\ plan.uploads \in {{}, {Upload(id, l)}}
     /\ \/ plan.remoteMoves = {}
        \/ /\ l.path # b.path
           /\ plan.remoteMoves = {Move(id, b.path, l.path, r)}

LEMMA OutgoingOperations ==
  ASSUME NEW id, NEW b, NEW l, NEW r, NEW tombstoned \in BOOLEAN, NEW time
  PROVE  Outgoing(PlanObject(id, b, l, r, tombstoned, time),
                  id, b, l, r, tombstoned, time)
<1> DEFINE plan == PlanObject(id, b, l, r, tombstoned, time)
           Clash(kind) == Conflict(kind, id, l, r, time)
<1> SUFFICES Outgoing(plan, id, b, l, r, tombstoned, time)
  OBVIOUS
<1> USE DEF Outgoing
<1>1. CASE b = Nothing
  <2>1. plan = PlanNewObject(id, l, r, tombstoned, time)
    BY <1>1 DEF PlanObject
  <2>2. CASE tombstoned \/ l = Nothing
    <3>1. plan.uploads = {} /\ plan.remoteMoves = {}
      BY <2>1, <2>2 DEF PlanNewObject, RemoteCreation, NoOperations
    <3> QED BY <3>1
  <2>3. CASE ~tombstoned /\ l # Nothing /\ r = Nothing
    <3>1. plan.uploads = {Upload(id, l)} /\ plan.remoteMoves = {}
      BY <2>1, <2>3 DEF PlanNewObject, NoOperations
    <3> QED BY <1>1, <2>3, <3>1
  <2>4. CASE ~tombstoned /\ l # Nothing /\ r # Nothing
    <3>1. \/ plan.uploads = {} /\ plan.remoteMoves = {}
          \/ \E kind : plan = Clash(kind)
      BY <2>1, <2>4 DEF PlanNewObject, IsFolder, NoOperations
    <3> QED BY <2>4, <3>1
  <2> QED BY <2>2, <2>3, <2>4
<1>2. CASE b # Nothing
  <2>1. plan = PlanTrackedObject(id, b, l, r, time)
    BY <1>2 DEF PlanObject
  <2>2. CASE TypeChanged(b, l) \/ TypeChanged(b, r)
    <3>1. plan = Clash("type-collision")
      BY <2>1, <2>2 DEF PlanTrackedObject
    <3> QED BY <2>2, <3>1 DEF TypeChanged
  <2>3. CASE ~(TypeChanged(b, l) \/ TypeChanged(b, r)) /\ l = Nothing
    <3>1. plan = LocallyDeleted(id, b, r, time)
      BY <2>1, <2>3 DEF PlanTrackedObject
    <3>2. \/ plan.uploads = {} /\ plan.remoteMoves = {}
          \/ r # Nothing /\ \E kind : plan = Clash(kind)
      BY <2>3, <3>1 DEF LocallyDeleted, NoOperations
    <3> QED BY <3>2
  <2>4. CASE ~(TypeChanged(b, l) \/ TypeChanged(b, r)) /\ l # Nothing /\ r = Nothing
    <3>1. plan = RemotelyDeleted(id, b, l, time)
      BY <2>1, <2>4 DEF PlanTrackedObject
    <3>2. CASE Same(b, l)
      <4>1. plan.uploads = {} /\ plan.remoteMoves = {}
        BY <3>1, <3>2 DEF RemotelyDeleted, NoOperations
      <4> QED BY <4>1
    <3>3. CASE ~Same(b, l)
      <4> DEFINE kind == IF l.path # b.path /\ l.data = b.data
                         THEN "rename-delete" ELSE "modify-delete"
      <4>1. plan = [Clash(kind) EXCEPT
                      !.recoveries = {Recovery(id, l.path, "local", None)}]
        BY <2>4, <3>1, <3>3 DEF RemotelyDeleted
      <4> HIDE DEF kind, plan
      <4>2. /\ plan.uploads = Clash(kind).uploads
            /\ plan.remoteMoves = Clash(kind).remoteMoves
        BY <4>1 DEF Conflict, NoOperations
      <4> QED BY <2>4, <4>2 DEF plan
    <3> QED BY <3>2, <3>3
  <2>5. CASE ~(TypeChanged(b, l) \/ TypeChanged(b, r)) /\ l # Nothing /\ r # Nothing
    <3>1. plan = BothPresent(id, b, l, r, time)
      BY <2>1, <2>5 DEF PlanTrackedObject
    <3>2. CASE Same(b, l)
      <4>1. plan.uploads = {} /\ plan.remoteMoves = {}
        BY <3>1, <3>2 DEF BothPresent, RemoteChange, NoOperations
      <4> QED BY <4>1
    <3>3. CASE ~Same(b, l) /\ Same(b, r)
      <4>1. plan = LocalChange(id, b, l, r)
        BY <3>1, <3>3 DEF BothPresent
      <4>2. /\ plan.uploads \in {{}, {Upload(id, l)}}
            /\ \/ plan.remoteMoves = {}
               \/ /\ l.path # b.path
                  /\ plan.remoteMoves = {Move(id, b.path, l.path, r)}
        BY <4>1 DEF LocalChange, NoOperations
      <4> QED BY <1>2, <2>5, <4>2
    <3>4. CASE ~Same(b, l) /\ ~Same(b, r) /\ l.data = r.data
      <4>1. plan = Reconcile(id, b, l, r, time)
        BY <3>1, <3>4 DEF BothPresent
      <4>2. CASE l.path # r.path /\ r.path = b.path
        <5>1. /\ plan.uploads = {}
              /\ plan.remoteMoves = {Move(id, b.path, l.path, r)}
          BY <4>1, <4>2 DEF Reconcile, NoOperations
        <5> QED BY <1>2, <2>5, <4>2, <5>1
      <4>3. CASE ~(l.path # r.path /\ r.path = b.path)
        <5>1. \/ plan.uploads = {} /\ plan.remoteMoves = {}
              \/ plan = Clash("rename-rename")
          BY <4>1, <4>3 DEF Reconcile, NoOperations
        <5> QED BY <2>5, <5>1
      <4> QED BY <4>2, <4>3
    <3>5. CASE ~Same(b, l) /\ ~Same(b, r) /\ l.data # r.data
      <4>1. \E kind : plan = Clash(kind)
        BY <3>1, <3>5 DEF BothPresent
      <4> QED BY <2>5, <4>1
    <3> QED BY <3>2, <3>3, <3>4, <3>5
  <2> QED BY <2>2, <2>3, <2>4, <2>5
<1> QED BY <1>1, <1>2

\* Uploads are of the local object, under its own id or, of a file in conflict,
\* under one of their own.
UploadsLocal(plan, id, b, l) ==
  \A u \in plan.uploads :
    /\ l # Nothing
    /\ u.path = l.path /\ u.data = l.data
    /\ \/ u.id = id /\ (b = Nothing \/ ~TypeChanged(b, l))
       \/ u.id = ConflictId(id, l.path) /\ ~IsFolder(l)

LEMMA UploadsOfObject ==
  ASSUME NEW id, NEW b, NEW l, NEW r, NEW tombstoned \in BOOLEAN, NEW time
  PROVE  UploadsLocal(PlanObject(id, b, l, r, tombstoned, time), id, b, l)
<1> DEFINE plan == PlanObject(id, b, l, r, tombstoned, time)
<1>0. Outgoing(plan, id, b, l, r, tombstoned, time)
  BY OutgoingOperations
<1> HIDE DEF plan
<1>1. ASSUME NEW kind, NEW u \in Conflict(kind, id, l, r, time).uploads
      PROVE  l # Nothing /\ ~IsFolder(l) /\ u = Upload(ConflictId(id, l.path), l)
  BY <1>1 DEF Conflict, NoOperations
<1>2. ASSUME NEW u \in plan.uploads
      PROVE  \/ /\ l # Nothing /\ u = Upload(id, l)
                /\ b = Nothing \/ ~TypeChanged(b, l)
             \/ l # Nothing /\ ~IsFolder(l) /\ u = Upload(ConflictId(id, l.path), l)
  BY <1>0, <1>1, <1>2 DEF Outgoing
<1> QED BY <1>2 DEF UploadsLocal, Upload, plan

\* Moves on Drive are of the remote object: a file goes to a conflict path next
\* to the place of a side, or an object follows the local one to another place.
MovesRemote(plan, id, b, l, r, time) ==
  \A m \in plan.remoteMoves :
    /\ m.id = id
    /\ r # Nothing
    /\ \/ /\ ~IsFolder(r)
          /\ \E o \in {l, r} \ {Nothing} : m.to = ConflictPath(o.path, id, time)
       \/ /\ b # Nothing /\ l # Nothing
          /\ IsFolder(l) = IsFolder(r)
          /\ l.path # b.path
          /\ m.to = l.path

LEMMA RemoteMovesOfObject ==
  ASSUME NEW id, NEW b, NEW l, NEW r, NEW tombstoned \in BOOLEAN, NEW time
  PROVE  MovesRemote(PlanObject(id, b, l, r, tombstoned, time), id, b, l, r, time)
<1> DEFINE plan == PlanObject(id, b, l, r, tombstoned, time)
           Copy(m, o) == m = Move(id, r.path, ConflictPath(o.path, id, time), r)
<1>0. Outgoing(plan, id, b, l, r, tombstoned, time)
  BY OutgoingOperations
<1> HIDE DEF plan
<1>1. ASSUME NEW kind, NEW m \in Conflict(kind, id, l, r, time).remoteMoves
      PROVE  /\ r # Nothing /\ ~IsFolder(r)
             /\ \E o \in {l, r} \ {Nothing} : Copy(m, o)
  BY <1>1 DEF Conflict, NoOperations
<1>2. ASSUME NEW m \in plan.remoteMoves
      PROVE  /\ r # Nothing
             /\ \/ ~IsFolder(r) /\ \E o \in {l, r} \ {Nothing} : Copy(m, o)
                \/ /\ b # Nothing /\ l # Nothing
                   /\ ~TypeChanged(b, l) /\ ~TypeChanged(b, r)
                   /\ l.path # b.path
                   /\ m = Move(id, b.path, l.path, r)
  <2> HIDE DEF Copy
  <2> QED BY <1>0, <1>1, <1>2 DEF Outgoing
<1> QED BY <1>2 DEF MovesRemote, Move, TypeChanged, plan

\* A folder of the vault that the plan does not hold back is a folder in the
\* base and in the remote manifest, if they have it; a new one is uploaded.
LEMMA FoldersAgree ==
  ASSUME NEW id, NEW b, NEW l, NEW r, NEW tombstoned \in BOOLEAN, NEW time,
         l # Nothing, IsFolder(l),
         PlanObject(id, b, l, r, tombstoned, time).blocked = {}
  PROVE  /\ b = Nothing \/ IsFolder(b)
         /\ r = Nothing \/ tombstoned \/ IsFolder(r)
         /\ b = Nothing /\ r = Nothing /\ ~tombstoned =>
              Upload(id, l) \in PlanObject(id, b, l, r, tombstoned, time).uploads
<1> DEFINE plan == PlanObject(id, b, l, r, tombstoned, time)
<1>1. \A kind : Conflict(kind, id, l, r, time).blocked # {}
  BY DEF Conflict, NoOperations
<1>2. CASE b = Nothing
  <2>1. plan = PlanNewObject(id, l, r, tombstoned, time)
    BY <1>2 DEF PlanObject
  <2>2. CASE ~tombstoned /\ r = Nothing
    BY <1>2, <2>1, <2>2 DEF PlanNewObject, NoOperations
  <2>3. CASE ~tombstoned /\ r # Nothing
    BY <1>1, <1>2, <2>1, <2>3 DEF PlanNewObject, IsFolder
  <2> QED BY <1>2, <2>2, <2>3
<1>3. CASE b # Nothing
  <2>1. plan = PlanTrackedObject(id, b, l, r, time)
    BY <1>3 DEF PlanObject
  <2>2. ~TypeChanged(b, l) /\ ~TypeChanged(b, r)
    BY <1>1, <2>1 DEF PlanTrackedObject
  <2> QED BY <1>3, <2>2 DEF TypeChanged
<1> QED BY <1>2, <1>3


\* A conflict names the two sides, and folders in it hold the plan back.
ShowsSides(plan, id, b, l, r) ==
  /\ plan.blocked \subseteq {"FOLDER_CONFLICT_REVIEW"}
  /\ \A c \in plan.conflicts :
       /\ c.id = id /\ c.local = l /\ c.remote = r
       /\ c.kind = "type-collision" \/ b = Nothing \/ ~TypeChanged(b, l)
       /\ plan.blocked = {} => \A o \in {l, r} \ {Nothing} : ~IsFolder(o)

LEMMA ConflictsOfObject ==
  ASSUME NEW id, NEW b, NEW l, NEW r, NEW tombstoned \in BOOLEAN, NEW time
  PROVE  ShowsSides(PlanObject(id, b, l, r, tombstoned, time), id, b, l, r)
<1> DEFINE plan == PlanObject(id, b, l, r, tombstoned, time)
           Good(p) == ShowsSides(p, id, b, l, r)
<1>1. ASSUME NEW kind,
             kind = "type-collision" \/ b = Nothing \/ ~TypeChanged(b, l)
      PROVE  Good(Conflict(kind, id, l, r, time))
  <2> DEFINE p == Conflict(kind, id, l, r, time)
  <2>1. /\ p.blocked = IF \E o \in {l, r} : o # Nothing /\ IsFolder(o)
                       THEN {"FOLDER_CONFLICT_REVIEW"} ELSE {}
        /\ \A c \in p.conflicts : /\ c.id = id /\ c.kind = kind
                                  /\ c.local = l /\ c.remote = r
    BY DEF Conflict, NoOperations
  <2> HIDE DEF p
  <2>2. Good(p)
    BY <1>1, <2>1 DEF ShowsSides
  <2> QED BY <2>2 DEF p
<1>2. \A p : p.blocked = {} /\ p.conflicts = {} => Good(p)
  BY DEF ShowsSides
<1> SUFFICES Good(plan)
  OBVIOUS
<1> HIDE DEF Good
<1>3. CASE b = Nothing
  <2>1. plan = PlanNewObject(id, l, r, tombstoned, time)
    BY <1>3 DEF PlanObject
  <2>2. \/ plan.blocked = {} /\ plan.conflicts = {}
        \/ \E kind : plan = Conflict(kind, id, l, r, time)
    BY <2>1 DEF PlanNewObject, RemoteCreation, IsFolder, NoOperations
  <2> QED BY <1>1, <1>2, <1>3, <2>2
<1>4. CASE b # Nothing
  <2>1. plan = PlanTrackedObject(id, b, l, r, time)
    BY <1>4 DEF PlanObject
  <2>2. CASE TypeChanged(b, l) \/ TypeChanged(b, r)
    <3>1. plan = Conflict("type-collision", id, l, r, time)
      BY <2>1, <2>2 DEF PlanTrackedObject
    <3> QED BY <1>1, <3>1
  <2>3. CASE ~(TypeChanged(b, l) \/ TypeChanged(b, r)) /\ l = Nothing
    <3>1. plan = LocallyDeleted(id, b, r, time)
      BY <2>1, <2>3 DEF PlanTrackedObject
    <3>2. \/ plan.blocked = {} /\ plan.conflicts = {}
          \/ \E kind : plan = Conflict(kind, id, l, r, time)
      BY <2>3, <3>1 DEF LocallyDeleted, NoOperations
    <3> QED BY <1>1, <1>2, <2>3, <3>2
  <2>4. CASE ~(TypeChanged(b, l) \/ TypeChanged(b, r)) /\ l # Nothing /\ r = Nothing
    <3>1. plan = RemotelyDeleted(id, b, l, time)
      BY <2>1, <2>4 DEF PlanTrackedObject
    <3>2. CASE Same(b, l)
      <4>1. plan.blocked = {} /\ plan.conflicts = {}
        BY <3>1, <3>2 DEF RemotelyDeleted, NoOperations
      <4> QED BY <1>2, <4>1
    <3>3. CASE ~Same(b, l)
      <4> DEFINE kind == IF l.path # b.path /\ l.data = b.data
                         THEN "rename-delete" ELSE "modify-delete"
                 clash == Conflict(kind, id, l, r, time)
      <4>1. plan = [clash EXCEPT
                      !.recoveries = {Recovery(id, l.path, "local", None)}]
        BY <2>4, <3>1, <3>3 DEF RemotelyDeleted
      <4>2. Good(clash)
        BY <1>1, <2>4
      <4>3. DOMAIN clash = DOMAIN NoOperations
        BY DEF Conflict, NoOperations
      <4> HIDE DEF plan, clash
      <4>4. plan.blocked = clash.blocked /\ plan.conflicts = clash.conflicts
        BY <4>1, <4>3 DEF NoOperations
      <4> QED BY <4>2, <4>4 DEF Good, ShowsSides
    <3> QED BY <3>2, <3>3
  <2>5. CASE ~(TypeChanged(b, l) \/ TypeChanged(b, r)) /\ l # Nothing /\ r # Nothing
    <3>1. plan = BothPresent(id, b, l, r, time)
      BY <2>1, <2>5 DEF PlanTrackedObject
    <3>2. \/ plan.blocked = {} /\ plan.conflicts = {}
          \/ \E kind : plan = Conflict(kind, id, l, r, time)
      BY <3>1 DEF BothPresent, RemoteChange, LocalChange, Reconcile, NoOperations
    <3> QED BY <1>1, <1>2, <2>5, <3>2
  <2> QED BY <2>2, <2>3, <2>4, <2>5
<1> QED BY <1>3, <1>4

\* A move in the vault is made for no conflict, and alone for its id; it creates
\* a folder, or takes the local object from where it is to the remote place.
MovesLocal(plan, id, b, l, r) ==
  /\ \A m, n \in plan.localMoves : m = n
  /\ \A c, e \in plan.conflicts : c = e
  /\ plan.conflicts # {} => plan.localMoves = {}
  /\ \A m \in plan.localMoves :
       /\ m.id = id
       /\ \/ m.from = None
          \/ /\ b # Nothing /\ l # Nothing /\ r # Nothing
             /\ m.from = l.path /\ l.path = b.path /\ r.path # b.path

LEMMA LocalMovesOfObject ==
  ASSUME NEW id, NEW b, NEW l, NEW r, NEW tombstoned \in BOOLEAN, NEW time
  PROVE  MovesLocal(PlanObject(id, b, l, r, tombstoned, time), id, b, l, r)
<1> DEFINE plan == PlanObject(id, b, l, r, tombstoned, time)
           Good(p) == MovesLocal(p, id, b, l, r)
           Clash(kind, x, y) == Conflict(kind, id, x, y, time)
<1>1. ASSUME NEW p, NEW kind, NEW x, NEW y,
             p.localMoves = Clash(kind, x, y).localMoves,
             p.conflicts = Clash(kind, x, y).conflicts
      PROVE  Good(p)
  <2> DEFINE k == Clash(kind, x, y)
  <2>1. /\ k.localMoves = {}
        /\ \A c, e \in k.conflicts : c = e
    BY DEF Conflict, NoOperations
  <2> HIDE DEF k
  <2> QED BY <1>1, <2>1 DEF MovesLocal, k
<1>2. \A p : p.localMoves = {} /\ p.conflicts = {} => Good(p)
  BY DEF MovesLocal
<1>3. ASSUME NEW p, p.conflicts = {}, p.localMoves = {Move(id, None, r.path, r)}
      PROVE  Good(p)
  BY <1>3 DEF MovesLocal, Move
<1>4. ASSUME NEW p, p.conflicts = {}, p.localMoves = {Move(id, b.path, r.path, r)},
             b # Nothing, l # Nothing, r # Nothing,
             l.path = b.path, r.path # b.path
      PROVE  Good(p)
  BY <1>4 DEF MovesLocal, Move
<1> SUFFICES Good(plan)
  OBVIOUS
<1> HIDE DEF Good, Clash
<1>5. CASE b = Nothing
  <2>1. plan = PlanNewObject(id, l, r, tombstoned, time)
    BY <1>5 DEF PlanObject
  <2>2. \/ plan.localMoves = {} /\ plan.conflicts = {}
        \/ plan.conflicts = {} /\ plan.localMoves = {Move(id, None, r.path, r)}
        \/ \E kind : plan = Clash(kind, l, r)
    BY <2>1 DEF PlanNewObject, RemoteCreation, IsFolder, NoOperations, Clash
  <2> HIDE DEF plan
  <2> QED BY <1>1, <1>2, <1>3, <2>2
<1>6. CASE b # Nothing
  <2>1. plan = PlanTrackedObject(id, b, l, r, time)
    BY <1>6 DEF PlanObject
  <2>2. CASE TypeChanged(b, l) \/ TypeChanged(b, r)
    <3>1. plan = Clash("type-collision", l, r)
      BY <2>1, <2>2 DEF PlanTrackedObject, Clash
    <3> QED BY <1>1, <3>1
  <2>3. CASE ~(TypeChanged(b, l) \/ TypeChanged(b, r)) /\ l = Nothing
    <3>1. plan = LocallyDeleted(id, b, r, time)
      BY <2>1, <2>3 DEF PlanTrackedObject
    <3>2. \/ plan.localMoves = {} /\ plan.conflicts = {}
          \/ \E kind : plan = Clash(kind, l, r)
      BY <2>3, <3>1 DEF LocallyDeleted, NoOperations, Clash
    <3> QED BY <1>1, <1>2, <3>2
  <2>4. CASE ~(TypeChanged(b, l) \/ TypeChanged(b, r)) /\ l # Nothing /\ r = Nothing
    <3>1. plan = RemotelyDeleted(id, b, l, time)
      BY <2>1, <2>4 DEF PlanTrackedObject
    <3>2. CASE Same(b, l)
      <4>1. plan.localMoves = {} /\ plan.conflicts = {}
        BY <3>1, <3>2 DEF RemotelyDeleted, NoOperations
      <4> QED BY <1>2, <4>1
    <3>3. CASE ~Same(b, l)
      <4> DEFINE kind == IF l.path # b.path /\ l.data = b.data
                         THEN "rename-delete" ELSE "modify-delete"
                 clash == Clash(kind, l, r)
      <4>1. plan = [clash EXCEPT
                      !.recoveries = {Recovery(id, l.path, "local", None)}]
        BY <2>4, <3>1, <3>3 DEF RemotelyDeleted, Clash
      <4>2. DOMAIN clash = DOMAIN NoOperations
        BY DEF Conflict, NoOperations, Clash
      <4> HIDE DEF plan, clash, kind
      <4>3. /\ plan.localMoves = clash.localMoves
            /\ plan.conflicts = clash.conflicts
        BY <4>1, <4>2 DEF NoOperations
      <4> QED BY <1>1, <4>3 DEF clash
    <3> QED BY <3>2, <3>3
  <2>5. CASE ~(TypeChanged(b, l) \/ TypeChanged(b, r)) /\ l # Nothing /\ r # Nothing
    <3>1. plan = BothPresent(id, b, l, r, time)
      BY <2>1, <2>5 DEF PlanTrackedObject
    <3>2. \/ plan.localMoves = {} /\ plan.conflicts = {}
          \/ /\ l.path = b.path /\ r.path # b.path
             /\ plan.conflicts = {}
             /\ plan.localMoves = {Move(id, b.path, r.path, r)}
          \/ \E kind : plan = Clash(kind, l, r)
      BY <3>1 DEF BothPresent, RemoteChange, LocalChange, Reconcile, NoOperations,
                  Same, Clash
    <3> QED BY <1>1, <1>2, <1>4, <1>6, <2>5, <3>2
  <2> QED BY <2>2, <2>3, <2>4, <2>5
<1> QED BY <1>5, <1>6

------------------------------------------------------------------------------
(* Whole plans *)

\* The operations that planSync plans for one id, given the local objects.
ObjectPlan(base, remote, local, id) ==
  PlanObject(id, ObjectOf(base.entries, id), ObjectOf(local, id),
             ObjectOf(remote.entries, id), id \in DOMAIN remote.tombs,
             remote.rev)

\* The ids a plan looks at.
PlannedIds(base, remote, local) ==
  UNION {DOMAIN base.entries, DOMAIN remote.entries, DOMAIN remote.tombs,
         DOMAIN local}

\* The plan before collisions and mass deletions are looked for.
ObjectPlans(base, remote, local) ==
  MergePlans({ObjectPlan(base, remote, local, id) :
                id \in PlannedIds(base, remote, local)})

\* A plan starts with what is planned for each id.
LEMMA PlanOfObjects ==
  ASSUME NEW base, NEW remote, NEW snap, NEW events, ~(base.rev > remote.rev)
  PROVE  PlanSync(base, remote, snap, events) =
           LET local == AssignIds(base.entries, snap, events)
           IN AddMassDeletionGuard(
                AddCollisions(ObjectPlans(base, remote, local), local,
                              remote.entries),
                Cardinality(DOMAIN base.entries))
BY DEF PlanSync, ObjectPlans, ObjectPlan, PlannedIds

\* A merged plan has every operation of the plans it is made of.
LEMMA MergeKeepsOperations ==
  ASSUME NEW plans, NEW p \in plans, NEW k \in DOMAIN NoOperations
  PROVE  p[k] \subseteq MergePlans(plans)[k]
BY DEF MergePlans

\* What is added to a plan afterwards takes nothing away.
LEMMA GuardsKeepOperations ==
  ASSUME NEW plans, NEW local, NEW remote, NEW tracked,
         NEW k \in DOMAIN NoOperations
  PROVE  MergePlans(plans)[k] \subseteq
           AddMassDeletionGuard(
             AddCollisions(MergePlans(plans), local, remote), tracked)[k]
<1> DEFINE merged == MergePlans(plans)
           collided == AddCollisions(merged, local, remote)
<1>1. DOMAIN merged = DOMAIN NoOperations
  BY DEF MergePlans
<1>2. merged[k] \subseteq collided[k] /\ DOMAIN collided = DOMAIN merged
  <2> DEFINE more == {Collision(id, ProjectedPath(merged, local, id)) :
                        id \in Colliding(merged, local, remote)}
             some == Colliding(merged, local, remote) # {}
  <2>1. collided = [merged EXCEPT
                      !.conflicts = @ \cup more,
                      !.blocked = IF some
                                  THEN @ \cup {"PATH_COLLISION_REVIEW"}
                                  ELSE @]
    BY DEF AddCollisions
  <2> HIDE DEF merged, more, some, collided
  <2> QED BY <1>1, <2>1
<1>3. collided[k] \subseteq AddMassDeletionGuard(collided, tracked)[k]
  <2> HIDE DEF merged, collided
  <2> QED BY <1>1, <1>2 DEF AddMassDeletionGuard
<1> QED BY <1>2, <1>3

\* Whatever is planned for one object is in the plan: no later stage of planSync
\* drops an operation, it only adds blocks.
THEOREM PlanIsComplete ==
  ASSUME NEW base, NEW remote, NEW snap, NEW events, ~(base.rev > remote.rev),
         NEW k \in DOMAIN NoOperations,
         NEW id \in PlannedIds(base, remote,
                               AssignIds(base.entries, snap, events))
  PROVE  ObjectPlan(base, remote, AssignIds(base.entries, snap, events), id)[k]
           \subseteq PlanSync(base, remote, snap, events)[k]
<1> DEFINE local == AssignIds(base.entries, snap, events)
           plans == {ObjectPlan(base, remote, local, i) :
                       i \in PlannedIds(base, remote, local)}
<1>1. ObjectPlan(base, remote, local, id)[k] \subseteq MergePlans(plans)[k]
  BY MergeKeepsOperations
<1>2. MergePlans(plans)[k] \subseteq PlanSync(base, remote, snap, events)[k]
  <2>1. PlanSync(base, remote, snap, events) =
          AddMassDeletionGuard(
            AddCollisions(MergePlans(plans), local, remote.entries),
            Cardinality(DOMAIN base.entries))
    BY PlanOfObjects DEF ObjectPlans
  <2> HIDE DEF plans, local
  <2> QED BY <2>1, GuardsKeepOperations
<1> QED BY <1>1, <1>2

\* What is planned for an object, and what is shown of its conflicts.
LEMMA ObjectOperations ==
  ASSUME NEW base, NEW remote, NEW local, NEW id
  PROVE  LET p == ObjectPlan(base, remote, local, id)
             b == ObjectOf(base.entries, id)
             l == ObjectOf(local, id)
             r == ObjectOf(remote.entries, id)
         IN /\ ShowsSides(p, id, b, l, r)
            /\ UploadsLocal(p, id, b, l)
            /\ MovesRemote(p, id, b, l, r, remote.rev)
            /\ MovesLocal(p, id, b, l, r)
<1> DEFINE p == ObjectPlan(base, remote, local, id)
           b == ObjectOf(base.entries, id)
           l == ObjectOf(local, id)
           r == ObjectOf(remote.entries, id)
           t == id \in DOMAIN remote.tombs
<1>1. t \in BOOLEAN /\ p = PlanObject(id, b, l, r, t, remote.rev)
  BY DEF ObjectPlan
<1> HIDE DEF p, b, l, r, t
<1>2. /\ ShowsSides(p, id, b, l, r)
      /\ UploadsLocal(p, id, b, l)
      /\ MovesRemote(p, id, b, l, r, remote.rev)
      /\ MovesLocal(p, id, b, l, r)
  BY <1>1, ConflictsOfObject, UploadsOfObject, RemoteMovesOfObject,
     LocalMovesOfObject
<1> QED BY <1>2 DEF p, b, l, r

\* What goes into a plan when collisions and mass deletions are looked for.
LEMMA GuardsAddBlocks ==
  ASSUME NEW plan, DOMAIN plan = DOMAIN NoOperations,
         NEW local, NEW remote, NEW tracked
  PROVE  LET result == AddMassDeletionGuard(AddCollisions(plan, local, remote),
                                            tracked) IN
           /\ \A k \in DOMAIN NoOperations \ {"conflicts", "blocked"} :
                result[k] = plan[k]
           /\ result.conflicts =
                plan.conflicts
                  \cup {Collision(id, ProjectedPath(plan, local, id)) :
                          id \in Colliding(plan, local, remote)}
           /\ \/ Colliding(plan, local, remote) = {}
              \/ "PATH_COLLISION_REVIEW" \in result.blocked
<1> DEFINE collided == AddCollisions(plan, local, remote)
           more == {Collision(id, ProjectedPath(plan, local, id)) :
                      id \in Colliding(plan, local, remote)}
           some == Colliding(plan, local, remote) # {}
           result == AddMassDeletionGuard(collided, tracked)
<1>1. collided = [plan EXCEPT
                    !.conflicts = @ \cup more,
                    !.blocked = IF some THEN @ \cup {"PATH_COLLISION_REVIEW"}
                                ELSE @]
  BY DEF AddCollisions
<1>2. \/ result = collided
      \/ result = [collided EXCEPT !.blocked = @ \cup {"MASS_DELETION_BLOCKED"}]
  BY DEF AddMassDeletionGuard
<1>3. "conflicts" \in DOMAIN plan /\ "blocked" \in DOMAIN plan
  BY DEF NoOperations
<1> HIDE DEF more, collided, result
<1>4. /\ \A k \in DOMAIN plan \ {"conflicts", "blocked"} : result[k] = plan[k]
      /\ result.conflicts = plan.conflicts \cup more
      /\ some => "PATH_COLLISION_REVIEW" \in result.blocked
  <2> HIDE DEF some
  <2> QED BY <1>1, <1>2, <1>3
<1> QED BY <1>4 DEF result, more, collided

\* Whatever is in a plan was planned for some object, but for the collisions.
LEMMA PlanIsSound ==
  ASSUME NEW base, NEW remote, NEW snap, NEW events, ~(base.rev > remote.rev)
  PROVE  LET plan == PlanSync(base, remote, snap, events)
             local == AssignIds(base.entries, snap, events)
             ids == PlannedIds(base, remote, local)
         IN /\ \A k \in DOMAIN NoOperations \ {"conflicts", "blocked"} :
                 \A o \in plan[k] :
                   \E id \in ids : o \in ObjectPlan(base, remote, local, id)[k]
            /\ \A c \in plan.conflicts :
                 \/ c.kind = "path-collision"
                 \/ \E id \in ids :
                      c \in ObjectPlan(base, remote, local, id).conflicts
<1> DEFINE plan == PlanSync(base, remote, snap, events)
           local == AssignIds(base.entries, snap, events)
           ids == PlannedIds(base, remote, local)
           objects == ObjectPlans(base, remote, local)
           P(id) == ObjectPlan(base, remote, local, id)
<1>1. plan = AddMassDeletionGuard(AddCollisions(objects, local, remote.entries),
                                  Cardinality(DOMAIN base.entries))
  BY PlanOfObjects
<1>2. /\ DOMAIN objects = DOMAIN NoOperations
      /\ \A k \in DOMAIN NoOperations : objects[k] = UNION {P(id)[k] : id \in ids}
  BY DEF ObjectPlans, MergePlans
<1> HIDE DEF plan, objects, P
<1>3. /\ \A k \in DOMAIN NoOperations \ {"conflicts", "blocked"} :
           plan[k] = objects[k]
      /\ \A c \in plan.conflicts \ objects.conflicts :
           \E id, path : c = Collision(id, path)
  <2> HIDE DEF local
  <2> QED BY <1>1, <1>2, GuardsAddBlocks
<1>4. \A c \in plan.conflicts \ objects.conflicts : c.kind = "path-collision"
  BY <1>3 DEF Collision
<1>5. "conflicts" \in DOMAIN NoOperations
  BY DEF NoOperations
<1> HIDE DEF ids, local
<1> QED BY <1>2, <1>3, <1>4, <1>5 DEF plan, P, ids, local

\* A plan that is let through was made on the base or on what came after it, and
\* blocks nothing for any object; nor is anything in the way of an entry.
LEMMA UnblockedPlan ==
  ASSUME NEW base, NEW remote, NEW snap, NEW events,
         HardBlocked(PlanSync(base, remote, snap, events)) = {}
  PROVE  LET local == AssignIds(base.entries, snap, events) IN
           /\ ~(base.rev > remote.rev)
           /\ \A id \in PlannedIds(base, remote, local) :
                ObjectPlan(base, remote, local, id).blocked = {}
           /\ Colliding(ObjectPlans(base, remote, local), local,
                        remote.entries) = {}
<1> DEFINE plan == PlanSync(base, remote, snap, events)
           local == AssignIds(base.entries, snap, events)
           objects == ObjectPlans(base, remote, local)
<1>1. plan.blocked \subseteq {"MASS_DELETION_BLOCKED"}
  BY DEF HardBlocked
<1>2. ~(base.rev > remote.rev)
  <2> SUFFICES ASSUME base.rev > remote.rev PROVE FALSE
    OBVIOUS
  <2>1. "BASE_AHEAD_OF_REMOTE" \in plan.blocked
    BY DEF PlanSync, NoOperations
  <2> QED BY <1>1, <2>1
<1>3. ASSUME NEW id \in PlannedIds(base, remote, local)
      PROVE  ObjectPlan(base, remote, local, id).blocked = {}
  <2> DEFINE p == ObjectPlan(base, remote, local, id)
  <2>1. p.blocked \subseteq {"FOLDER_CONFLICT_REVIEW"}
    BY ObjectOperations DEF ShowsSides
  <2>2. p.blocked \subseteq plan.blocked
    <3>1. "blocked" \in DOMAIN NoOperations
      BY DEF NoOperations
    <3> QED BY <1>2, <3>1, PlanIsComplete
  <2> HIDE DEF p, plan
  <2>3. p.blocked = {}
    BY <1>1, <2>1, <2>2
  <2> QED BY <2>3 DEF p
<1>4. Colliding(objects, local, remote.entries) = {}
  <2>1. plan = AddMassDeletionGuard(AddCollisions(objects, local, remote.entries),
                                    Cardinality(DOMAIN base.entries))
    BY <1>2, PlanOfObjects
  <2>2. DOMAIN objects = DOMAIN NoOperations
    BY DEF ObjectPlans, MergePlans
  <2> HIDE DEF plan, objects, local
  <2>3. \/ Colliding(objects, local, remote.entries) = {}
        \/ "PATH_COLLISION_REVIEW" \in plan.blocked
    BY <2>1, <2>2, GuardsAddBlocks
  <2> QED BY <1>1, <2>3
<1> QED BY <1>2, <1>3, <1>4

\* When planSync has nothing to do, so that the controller reports the vault up
\* to date and adopts the remote manifest as its base, then for every id the
\* local object and the remote entry are the same.
THEOREM NoOpMeansAgreement ==
  ASSUME NEW base, NEW remote, NEW snap, NEW events,
         DOMAIN remote.entries \cap DOMAIN remote.tombs = {},
         IsNoOp(PlanSync(base, remote, snap, events))
  PROVE  LET local == AssignIds(base.entries, snap, events) IN
           \A id \in DOMAIN local \cup DOMAIN remote.entries :
             Agree(ObjectOf(local, id), ObjectOf(remote.entries, id))
<1> DEFINE local == AssignIds(base.entries, snap, events)
<1>1. ~(base.rev > remote.rev)
  BY DEF PlanSync, IsNoOp, NoOperations
<1>2. ASSUME NEW id \in DOMAIN local \cup DOMAIN remote.entries
      PROVE  Agree(ObjectOf(local, id), ObjectOf(remote.entries, id))
  <2> DEFINE plan == ObjectPlan(base, remote, local, id)
  <2>1. id \in PlannedIds(base, remote, local)
    BY DEF PlannedIds
  <2>2. \A k \in DOMAIN NoOperations : plan[k] = {}
    BY <1>1, <2>1, PlanIsComplete DEF IsNoOp
  <2>3. Empty(plan)
    BY <2>2 DEF Empty, NoOperations
  <2>4. id \in DOMAIN remote.tombs => ObjectOf(remote.entries, id) = Nothing
    BY DEF ObjectOf
  <2> DEFINE tombstoned == id \in DOMAIN remote.tombs
  <2>5. tombstoned \in BOOLEAN
    OBVIOUS
  <2>6. Empty(PlanObject(id, ObjectOf(base.entries, id), ObjectOf(local, id),
                         ObjectOf(remote.entries, id), tombstoned, remote.rev))
    BY <2>3 DEF ObjectPlan
  <2> HIDE DEF tombstoned, plan, local
  <2> QED BY <2>4, <2>5, <2>6, NothingPlannedAgree DEF tombstoned
<1> QED BY <1>2

------------------------------------------------------------------------------
(* Recursion over sequences.  The theorems of the library about induction     *)
(* have operators as parameters; that < is well-founded on Nat has not, and   *)
(* is what these rest on.                                                     *)

\* Every set of natural numbers that is not empty has a least element.
LEMMA LeastNat ==
  ASSUME NEW S \in SUBSET Nat, S # {}
  PROVE  \E m \in S : \A n \in S : m <= n
<1>1. PICK m \in S : \A k \in S : <<k, m>> \notin OpToRel(<, Nat)
  BY WFMin, NatLessThanWellFounded, Zenon
<1>2. \A k \in S : ~(k < m)
  BY <1>1, Zenon DEF OpToRel
<1> QED BY <1>2

\* Induction, for a set of numbers.
LEMMA SetInduction ==
  ASSUME NEW S, 0 \in S, \A k \in Nat : k \in S => k + 1 \in S
  PROVE  Nat \subseteq S
<1> SUFFICES ASSUME ~(Nat \subseteq S) PROVE FALSE
  OBVIOUS
<1>1. PICK m \in Nat \ S : \A n \in Nat \ S : m <= n
  <2>1. Nat \ S \in SUBSET Nat /\ Nat \ S # {}
    OBVIOUS
  <2> QED BY <2>1, LeastNat
<1>2. m # 0 /\ m - 1 \in Nat
  OBVIOUS
<1>3. m - 1 \in S
  BY <1>1, <1>2
<1> QED BY <1>2, <1>3

LEMMA MaxOfInterval ==
  ASSUME NEW n \in Nat, NEW t \in SUBSET (1..n), t # {}
  PROVE  Max(t) \in t /\ \A i \in t : i <= Max(t)
<1> DEFINE S == {k \in Nat : \A i \in t : i <= k}
<1>1. PICK m \in S : \A k \in S : m <= k
  <2>1. n \in S
    OBVIOUS
  <2> QED BY <2>1, LeastNat
<1>2. m \in t
  <2> SUFFICES ASSUME m \notin t PROVE FALSE
    OBVIOUS
  <2>1. m # 0
    <3>1. PICK i \in t : TRUE
      OBVIOUS
    <3> QED BY <3>1
  <2>2. \A i \in t : i <= m - 1
    BY <1>1
  <2>3. m - 1 \in S
    BY <2>1, <2>2
  <2> QED BY <1>1, <2>3
<1>3. \A i \in t : m >= i
  OBVIOUS
<1> QED BY <1>2, <1>3 DEF Max

\* g is a fold over 1..n from b on, by the sets of the numbers folded so far; F
\* is its step.
FoldSteps(n, b, F, g) ==
  g = [t \in SUBSET (1..n) |->
         IF t = {} THEN b ELSE F[<<g[t \ {Max(t)}], Max(t)>>]]

\* Recursion over a sequence is well defined.
LEMMA FoldExists ==
  ASSUME NEW X, NEW b \in X, NEW n \in Nat, NEW F \in [X \X (1..n) -> X]
  PROVE  \E g \in [SUBSET (1..n) -> X] : FoldSteps(n, b, F, g)
<1> DEFINE Fold(k) == \E g \in [SUBSET (1..k) -> X] : FoldSteps(k, b, F, g)
           Done == {k \in Nat : k > n \/ Fold(k)}
<1>1. 0 \in Done
  <2> DEFINE g == [t \in SUBSET (1..0) |-> b]
  <2>1. g \in [SUBSET (1..0) -> X]
    OBVIOUS
  <2>2. SUBSET (1..0) = {{}}
    OBVIOUS
  <2>3. FoldSteps(0, b, F, g)
    BY <2>2 DEF FoldSteps
  <2> QED BY <2>1, <2>3
<1>2. ASSUME NEW k \in Nat, k \in Done
      PROVE  k + 1 \in Done
  <2> HIDE DEF Fold
  <2> SUFFICES ASSUME k + 1 <= n
               PROVE  Fold(k + 1)
    OBVIOUS
  <2>0. Fold(k)
    BY <1>2
  <2> USE DEF Fold
  <2>1. PICK g \in [SUBSET (1..k) -> X] : FoldSteps(k, b, F, g)
    BY <2>0
  <2> DEFINE top == k + 1
             h == [t \in SUBSET (1..top) |->
                     IF top \in t THEN F[<<g[t \ {top}], top>>]
                     ELSE g[t]]
  <2>2. \A t \in SUBSET (1..top) : t \ {top} \in SUBSET (1..k)
    OBVIOUS
  <2>3. h \in [SUBSET (1..top) -> X]
    <3>1. top \in 1..n
      OBVIOUS
    <3> QED BY <2>2, <3>1
  <2>4. ASSUME NEW t \in SUBSET (1..top)
        PROVE  h[t] = IF t = {} THEN b
                      ELSE F[<<h[t \ {Max(t)}], Max(t)>>]
    <3>1. CASE top \in t
      <4>1. Max(t) = top
        <5>1. top \in Nat /\ t # {}
          BY <3>1
        <5>2. Max(t) \in t /\ \A i \in t : i <= Max(t)
          BY <5>1, MaxOfInterval
        <5>3. Max(t) \in 1..top /\ top <= Max(t)
          BY <3>1, <5>2
        <5> HIDE DEF h
        <5> QED BY <5>3
      <4>2. h[t \ {top}] = g[t \ {top}]
        BY <2>2
      <4> QED BY <3>1, <4>1, <4>2
    <3>2. CASE top \notin t
      <4>1. t \in SUBSET (1..k)
        BY <2>2, <3>2
      <4>2. h[t] = g[t] /\ h[t \ {Max(t)}] = g[t \ {Max(t)}]
        BY <3>2
      <4> HIDE DEF h
      <4> QED BY <2>1, <4>1, <4>2 DEF FoldSteps
    <3> QED BY <3>1, <3>2
  <2>5. FoldSteps(top, b, F, h)
    BY <2>4 DEF FoldSteps
  <2> HIDE DEF h
  <2> QED BY <2>3, <2>5
<1> HIDE DEF Done
<1>3. Nat \subseteq Done
  BY <1>1, <1>2, SetInduction
<1> HIDE DEF Fold
<1>4. Fold(n)
  BY <1>3 DEF Done
<1> QED BY <1>4 DEF Fold

\* What holds of the base and is kept by every step holds of the result.
LEMMA FoldStays ==
  ASSUME NEW X, NEW n \in Nat, NEW g,
         g[{}] \in X,
         \A t \in SUBSET (1..n) :
           t # {} /\ g[t \ {Max(t)}] \in X => g[t] \in X
  PROVE  g[1..n] \in X
<1> DEFINE Done == {k \in Nat : k > n \/ g[1..k] \in X}
<1>1. 0 \in Done
  <2>1. 1..0 = {}
    OBVIOUS
  <2> QED BY <2>1
<1>2. ASSUME NEW k \in Nat, k \in Done
      PROVE  k + 1 \in Done
  <2> SUFFICES ASSUME k + 1 <= n
               PROVE  g[1..(k + 1)] \in X
    OBVIOUS
  <2> DEFINE t == 1..(k + 1)
  <2>1. t # {} /\ t \in SUBSET (1..n)
    OBVIOUS
  <2>2. Max(t) = k + 1
    <3>1. Max(t) \in t /\ \A i \in t : i <= Max(t)
      BY <2>1, MaxOfInterval
    <3> QED BY <3>1
  <2>3. t \ {k + 1} = 1..k
    OBVIOUS
  <2>4. g[1..k] \in X
    BY <1>2
  <2> HIDE DEF t
  <2>5. g[t] \in X
    BY <2>1, <2>2, <2>3, <2>4
  <2> QED BY <2>5 DEF t
<1> HIDE DEF Done
<1>3. Nat \subseteq Done
  BY <1>1, <1>2, SetInduction
<1>4. n \in Done
  BY <1>3
<1> QED BY <1>4 DEF Done

------------------------------------------------------------------------------
(* The logical ids of the local snapshot *)

\* The ways to give some ids of entries to paths of snap, each to its own.
Claims(entries, snap) ==
  {c \in UNION {[ids -> DOMAIN snap] : ids \in SUBSET DOMAIN entries} :
     \A i, j \in DOMAIN c : c[i] = c[j] => i = j}

DistinctPaths(entries) ==
  \A i, j \in DOMAIN entries : i # j => entries[i].path # entries[j].path

LEMMA ClaimsKept ==
  ASSUME NEW entries, NEW snap, DistinctPaths(entries)
  PROVE  ClaimsByPath(entries, snap) \in Claims(entries, snap)
<1> DEFINE c == ClaimsByPath(entries, snap)
<1>1. /\ DOMAIN c \in SUBSET DOMAIN entries
      /\ c \in [DOMAIN c -> DOMAIN snap]
      /\ \A i \in DOMAIN c : c[i] = entries[i].path
  BY DEF ClaimsByPath
<1> HIDE DEF c
<1>2. \A i, j \in DOMAIN c : c[i] = c[j] => i = j
  BY <1>1 DEF DistinctPaths
<1>3. c \in Claims(entries, snap)
  BY <1>1, <1>2 DEF Claims
<1> QED BY <1>3 DEF c

LEMMA ClaimAdded ==
  ASSUME NEW entries, NEW snap, NEW c \in Claims(entries, snap),
         NEW path \in DOMAIN snap, ~ClaimedPath(c, path),
         NEW ids \in SUBSET (DOMAIN entries \ DOMAIN c),
         \A i, j \in ids : i = j
  PROVE  c ++ [id \in ids |-> path] \in Claims(entries, snap)
<1> DEFINE e == c ++ [id \in ids |-> path]
<1>1. /\ DOMAIN e = DOMAIN c \cup ids
      /\ \A i \in DOMAIN c : e[i] = c[i]
      /\ \A i \in ids : e[i] = path
      /\ e = [i \in DOMAIN e |-> e[i]]
  BY DEF ++
<1>2. /\ DOMAIN c \in SUBSET DOMAIN entries
      /\ \A i \in DOMAIN c : c[i] \in DOMAIN snap
      /\ \A i, j \in DOMAIN c : c[i] = c[j] => i = j
  BY DEF Claims
<1> HIDE DEF e
<1>3. e \in [DOMAIN c \cup ids -> DOMAIN snap]
  BY <1>1, <1>2
<1>4. \A i, j \in DOMAIN e : e[i] = e[j] => i = j
  BY <1>1, <1>2 DEF ClaimedPath
<1>5. DOMAIN c \cup ids \in SUBSET DOMAIN entries
  BY <1>2
<1>6. e \in Claims(entries, snap)
  BY <1>3, <1>4, <1>5 DEF Claims
<1> QED BY <1>6 DEF e

LEMMA ClaimByEventKeeps ==
  ASSUME NEW entries, NEW snap, DistinctPaths(entries),
         NEW c \in Claims(entries, snap), NEW event
  PROVE  ClaimByEvent(entries, snap, c, event) \in Claims(entries, snap)
<1> DEFINE Moved == {id \in DOMAIN entries \ DOMAIN c :
                       entries[id].path = event.old}
<1>1. Moved \in SUBSET (DOMAIN entries \ DOMAIN c)
      /\ \A i, j \in Moved : i = j
  BY DEF DistinctPaths
<1>2. CASE event.new \in DOMAIN snap /\ ~ClaimedPath(c, event.new)
  <2>1. ClaimByEvent(entries, snap, c, event) =
          c ++ [id \in Moved |-> event.new]
    BY <1>2 DEF ClaimByEvent
  <2> HIDE DEF Moved
  <2> QED BY <1>1, <1>2, <2>1, ClaimAdded
<1>3. CASE ~(event.new \in DOMAIN snap /\ ~ClaimedPath(c, event.new))
  BY <1>3 DEF ClaimByEvent
<1> QED BY <1>2, <1>3

LEMMA ClaimByContentKeeps ==
  ASSUME NEW entries, NEW snap, IsFiniteSet(DOMAIN entries),
         NEW c \in Claims(entries, snap), NEW path \in DOMAIN snap
  PROVE  ClaimByContent(entries, snap, c, path) \in Claims(entries, snap)
<1> DEFINE Candidates == {id \in DOMAIN entries \ DOMAIN c :
                            entries[id].data = snap[path]}
           Matches == /\ snap[path] # Folder
                      /\ ~ClaimedPath(c, path)
                      /\ Cardinality(Candidates) = 1
<1>1. Candidates \in SUBSET (DOMAIN entries \ DOMAIN c)
  OBVIOUS
<1>2. IsFiniteSet(Candidates)
  BY <1>1, FS_Subset
<1>3. CASE Matches
  <2>1. ClaimByContent(entries, snap, c, path) =
          c ++ [id \in Candidates |-> path]
    BY <1>3 DEF ClaimByContent
  <2>2. \A i, j \in Candidates : i = j
    BY <1>2, <1>3, FS_Singleton
  <2> HIDE DEF Candidates
  <2> QED BY <1>1, <1>3, <2>1, <2>2, ClaimAdded
<1>4. CASE ~Matches
  BY <1>4 DEF ClaimByContent
<1> QED BY <1>3, <1>4

\* What every event keeps, all events together keep.
LEMMA EventsStay ==
  ASSUME NEW entries, NEW snap, NEW X, NEW b \in X,
         NEW n \in Nat, NEW events, DOMAIN events = 1..n,
         \A c \in X, i \in 1..n : ClaimByEvent(entries, snap, c, events[i]) \in X
  PROVE  ClaimsByEvents(entries, snap, b, events) \in X
<1> DEFINE C(c, i) == ClaimByEvent(entries, snap, c, events[i])
           F == [x \in X \X (1..n) |-> C(x[1], x[2])]
           Step(g) == [t \in SUBSET (1..n) |->
                         IF t = {} THEN b ELSE C(g[t \ {Max(t)}], Max(t))]
           fold == CHOOSE g : g = Step(g)
<1>1. \A c \in X, i \in 1..n : C(c, i) \in X
  OBVIOUS
<1>2. ClaimsByEvents(entries, snap, b, events) = fold[1..n]
  BY DEF ClaimsByEvents, FoldLeft, MapThenFoldSet
<1> HIDE DEF C
<1>3. PICK g \in [SUBSET (1..n) -> X] : FoldSteps(n, b, F, g)
  <2>1. b \in X /\ F \in [X \X (1..n) -> X]
    BY <1>1
  <2> HIDE DEF F
  <2> QED BY <2>1, FoldExists
<1>4. g = Step(g)
  <2>1. ASSUME NEW t \in SUBSET (1..n), t # {}
        PROVE  F[<<g[t \ {Max(t)}], Max(t)>>] = C(g[t \ {Max(t)}], Max(t))
    BY <1>3, <2>1, MaxOfInterval
  <2> HIDE DEF F
  <2> QED BY <1>3, <2>1 DEF FoldSteps
<1>5. fold = Step(fold)
  BY <1>4
<1> HIDE DEF fold
<1>6. fold[{}] \in X
  BY <1>5
<1>7. ASSUME NEW t \in SUBSET (1..n), t # {}, fold[t \ {Max(t)}] \in X
      PROVE  fold[t] \in X
  <2>1. Max(t) \in 1..n
    BY <1>7, MaxOfInterval
  <2>2. fold[t] = C(fold[t \ {Max(t)}], Max(t))
    BY <1>5, <1>7
  <2> QED BY <1>1, <1>7, <2>1, <2>2
<1>8. fold[1..n] \in X
  BY <1>6, <1>7, FoldStays
<1> QED BY <1>2, <1>8

\* Whatever the events are, they give no path away twice.
LEMMA EventsKeepClaims ==
  ASSUME NEW entries, NEW snap, DistinctPaths(entries),
         NEW b \in Claims(entries, snap),
         NEW n \in Nat, NEW events, DOMAIN events = 1..n
  PROVE  ClaimsByEvents(entries, snap, b, events) \in Claims(entries, snap)
BY ClaimByEventKeeps, EventsStay

\* A finite set can be put in order.
LEMMA SetInOrder ==
  ASSUME NEW S, IsFiniteSet(S)
  PROVE  /\ Cardinality(S) \in Nat
         /\ SetToSeq(S) \in [1..Cardinality(S) -> S]
<1>1. Cardinality(S) \in Nat /\ ExistsBijection(1..Cardinality(S), S)
  BY FS_CardinalityType
<1>2. PICK f \in [1..Cardinality(S) -> S] : IsInjective(f)
  BY <1>1 DEF ExistsBijection, Bijection, Injection
<1> QED BY <1>1, <1>2 DEF SetToSeq

\* What every content keeps, all contents together keep.
LEMMA ContentsStay ==
  ASSUME NEW entries, NEW snap, IsFiniteSet(DOMAIN snap), NEW X, NEW b \in X,
         \A c \in X, p \in DOMAIN snap : ClaimByContent(entries, snap, c, p) \in X
  PROVE  ClaimsByContent(entries, snap, b) \in X
<1> DEFINE n == Cardinality(DOMAIN snap)
           paths == SetToSeq(DOMAIN snap)
           C(c, i) == ClaimByContent(entries, snap, c, paths[i])
           F == [x \in X \X (1..n) |-> C(x[1], x[2])]
           Step(g) == [t \in SUBSET (1..n) |->
                         IF t = {} THEN b ELSE C(g[t \ {Max(t)}], Max(t))]
           fold == CHOOSE g : g = Step(g)
<1>1. n \in Nat /\ paths \in [1..n -> DOMAIN snap]
  BY SetInOrder
<1>2. ClaimsByContent(entries, snap, b) = fold[1..n]
  <2>1. DOMAIN paths = 1..n
    BY <1>1
  <2> HIDE DEF n, paths
  <2> QED BY <2>1 DEF ClaimsByContent, FoldLeft, MapThenFoldSet, paths
<1> HIDE DEF n, paths
<1>3. \A c \in X, i \in 1..n : C(c, i) \in X
  BY <1>1
<1> HIDE DEF C
<1>4. PICK g \in [SUBSET (1..n) -> X] : FoldSteps(n, b, F, g)
  <2>1. b \in X /\ F \in [X \X (1..n) -> X]
    BY <1>3
  <2> HIDE DEF F
  <2> QED BY <1>1, <2>1, FoldExists
<1>5. g = Step(g)
  <2>1. ASSUME NEW t \in SUBSET (1..n), t # {}
        PROVE  F[<<g[t \ {Max(t)}], Max(t)>>] = C(g[t \ {Max(t)}], Max(t))
    BY <1>1, <1>4, <2>1, MaxOfInterval
  <2> HIDE DEF F
  <2> QED BY <1>4, <2>1 DEF FoldSteps
<1>6. fold = Step(fold)
  BY <1>5
<1> HIDE DEF fold
<1>7. fold[{}] \in X
  BY <1>6
<1>8. ASSUME NEW t \in SUBSET (1..n), t # {}, fold[t \ {Max(t)}] \in X
      PROVE  fold[t] \in X
  <2>1. Max(t) \in 1..n
    BY <1>1, <1>8, MaxOfInterval
  <2>2. fold[t] = C(fold[t \ {Max(t)}], Max(t))
    BY <1>6, <1>8
  <2> QED BY <1>3, <1>8, <2>1, <2>2
<1>9. fold[1..n] \in X
  BY <1>1, <1>7, <1>8, FoldStays
<1> QED BY <1>2, <1>9

\* Nor do the contents give a path away twice.
LEMMA ContentsKeepClaims ==
  ASSUME NEW entries, NEW snap, IsFiniteSet(DOMAIN entries),
         IsFiniteSet(DOMAIN snap), NEW b \in Claims(entries, snap)
  PROVE  ClaimsByContent(entries, snap, b) \in Claims(entries, snap)
BY ClaimByContentKeeps, ContentsStay

\* The claims are what they should be.
LEMMA AllClaimsType ==
  ASSUME NEW entries, NEW snap, IsFiniteSet(DOMAIN entries),
         IsFiniteSet(DOMAIN snap), DistinctPaths(entries),
         NEW n \in Nat, NEW events, DOMAIN events = 1..n
  PROVE  AllClaims(entries, snap, events) \in Claims(entries, snap)
BY ClaimsKept, EventsKeepClaims, ContentsKeepClaims DEF AllClaims

\* One number more than T has elements is one too many.
LEMMA TooManyNumbers ==
  ASSUME NEW T, IsFiniteSet(T), NEW f \in [0..Cardinality(T) -> T]
  PROVE  \E i, j \in 0..Cardinality(T) : i # j /\ f[i] = f[j]
<1> DEFINE D == 0..Cardinality(T)
<1>1. Cardinality(T) \in Nat
  BY FS_CardinalityType
<1>2. IsFiniteSet(D) /\ Cardinality(D) = Cardinality(T) + 1
  BY <1>1, FS_Interval
<1>3. Cardinality(T) < Cardinality(D)
  BY <1>1, <1>2
<1>4. f \in [D -> T]
  OBVIOUS
<1> HIDE DEF D
<1>5. \E i, j \in D : i # j /\ f[i] = f[j]
  BY <1>2, <1>3, <1>4, FS_PigeonHole
<1> QED BY <1>5 DEF D

\* The ids that are made up are in use for nothing else.
LEMMA LocalIdIsFree ==
  ASSUME NEW entries, IsFiniteSet(DOMAIN entries), NEW path, NEW data
  PROVE  /\ LocalId(entries, path, data) \notin DOMAIN entries
         /\ \E n \in Nat : LocalId(entries, path, data) = <<"l", path, data, n>>
<1> DEFINE Series(k) == <<"l", path, data, k>>
           N == Cardinality(DOMAIN entries)
           Free(n) == /\ Series(n) \notin DOMAIN entries
                      /\ \A m \in 0..(n - 1) : Series(m) \in DOMAIN entries
           S == {k \in 0..N : Series(k) \notin DOMAIN entries}
<1>1. N \in Nat
  BY FS_CardinalityType
<1>2. S # {}
  <2> SUFFICES ASSUME S = {} PROVE FALSE
    OBVIOUS
  <2> DEFINE f == [k \in 0..N |-> Series(k)]
  <2> HIDE DEF N
  <2>1. f \in [0..N -> DOMAIN entries]
    OBVIOUS
  <2>2. \E i, j \in 0..N : i # j /\ f[i] = f[j]
    <3> HIDE DEF f
    <3> QED BY <2>1, TooManyNumbers DEF N
  <2> QED BY <2>2
<1> HIDE DEF N
<1>3. PICK k \in S : \A m \in S : k <= m
  <2>1. S \in SUBSET Nat
    OBVIOUS
  <2> HIDE DEF S
  <2> QED BY <1>2, <2>1, LeastNat
<1>4. Free(k)
  BY <1>1, <1>3
<1> HIDE DEF Free
<1>5. \E n \in 0..N : Free(n)
  BY <1>3, <1>4
<1> DEFINE free == CHOOSE n \in 0..N : Free(n)
<1>6. free \in 0..N /\ Free(free)
  BY <1>5
<1>7. LocalId(entries, path, data) = Series(free)
  BY DEF LocalId, N, Free
<1> HIDE DEF free
<1> QED BY <1>6, <1>7 DEF Free

\* assignLocalLogicalIds leaves no object out and gives none two ids, whatever
\* the rename events say and whichever files look alike: the ids stand for the
\* paths of the snapshot, one for one.
THEOREM EveryPathHasOneId ==
  ASSUME NEW entries, NEW snap, IsFiniteSet(DOMAIN entries),
         IsFiniteSet(DOMAIN snap), DistinctPaths(entries),
         NEW n \in Nat, NEW events, DOMAIN events = 1..n
  PROVE  LET local == AssignIds(entries, snap, events) IN
           /\ \A id \in DOMAIN local :
                /\ local[id].path \in DOMAIN snap
                /\ local[id] = [path |-> local[id].path,
                                data |-> snap[local[id].path]]
           /\ \A path \in DOMAIN snap :
                \E id \in DOMAIN local : local[id].path = path
           /\ \A i, j \in DOMAIN local : local[i].path = local[j].path => i = j
<1> DEFINE local == AssignIds(entries, snap, events)
           claims == AllClaims(entries, snap, events)
           fresh == {path \in DOMAIN snap : ~ClaimedPath(claims, path)}
           Object(path) == [path |-> path, data |-> snap[path]]
           IdOf(path) == LocalId(entries, path, snap[path])
           Owner(id) == CHOOSE path \in fresh : IdOf(path) = id
           new == {IdOf(path) : path \in fresh}
<1>1. /\ DOMAIN claims \subseteq DOMAIN entries
      /\ \A id \in DOMAIN claims : claims[id] \in DOMAIN snap
      /\ \A i, j \in DOMAIN claims : claims[i] = claims[j] => i = j
  <2> HIDE DEF claims
  <2>1. claims \in Claims(entries, snap)
    BY AllClaimsType DEF claims
  <2> QED BY <2>1 DEF Claims
<1>2. local = [id \in DOMAIN claims |-> Object(claims[id])]
                ++ [id \in new |-> Object(Owner(id))]
  BY DEF AssignIds
<1> HIDE DEF local, claims
<1>3. \A path : IdOf(path) \notin DOMAIN claims
  BY <1>1, LocalIdIsFree
<1>4. \A p, q : IdOf(p) = IdOf(q) => p = q
  <2> TAKE p, q
  <2>1. PICK k : IdOf(p) = <<"l", p, snap[p], k>>
    BY LocalIdIsFree
  <2>2. PICK m : IdOf(q) = <<"l", q, snap[q], m>>
    BY LocalIdIsFree
  <2> HIDE DEF IdOf
  <2> QED BY <2>1, <2>2
<1> HIDE DEF IdOf
<1>5. \A path \in fresh : IdOf(path) \in new /\ Owner(IdOf(path)) = path
  BY <1>4
<1>6. \A id \in new : Owner(id) \in fresh /\ IdOf(Owner(id)) = id
  BY <1>4
<1> HIDE DEF Owner
<1>7. /\ DOMAIN local = DOMAIN claims \cup new
      /\ \A id \in DOMAIN claims : local[id] = Object(claims[id])
      /\ \A id \in new : local[id] = Object(Owner(id))
  <2>1. \A id \in new : id \notin DOMAIN claims
    BY <1>3
  <2> HIDE DEF new, Object
  <2> QED BY <1>2, <2>1 DEF ++
<1> HIDE DEF new
<1>8. ASSUME NEW id \in DOMAIN local
      PROVE  /\ local[id].path \in DOMAIN snap
             /\ local[id] = [path |-> local[id].path,
                             data |-> snap[local[id].path]]
  BY <1>1, <1>6, <1>7
<1>9. ASSUME NEW path \in DOMAIN snap
      PROVE  \E id \in DOMAIN local : local[id].path = path
  <2>1. CASE ClaimedPath(claims, path)
    BY <1>7, <2>1 DEF ClaimedPath
  <2>2. CASE path \in fresh
    BY <1>5, <1>7, <2>2
  <2> QED BY <2>1, <2>2
<1>10. ASSUME NEW i \in DOMAIN local, NEW j \in DOMAIN local,
              local[i].path = local[j].path
       PROVE  i = j
  <2>1. CASE i \in DOMAIN claims /\ j \in DOMAIN claims
    BY <1>1, <1>7, <1>10, <2>1
  <2>2. CASE i \in new /\ j \in new
    BY <1>6, <1>7, <1>10, <2>2
  <2>3. CASE i \in DOMAIN claims /\ j \in new
    BY <1>6, <1>7, <1>10, <2>3 DEF ClaimedPath
  <2>4. CASE i \in new /\ j \in DOMAIN claims
    BY <1>6, <1>7, <1>10, <2>4 DEF ClaimedPath
  <2> QED BY <1>7, <2>1, <2>2, <2>3, <2>4
<1> QED BY <1>8, <1>9, <1>10 DEF local

\* When planSync has nothing to do, the snapshot is what the remote manifest
\* says: the same paths, and at each of them what its entry has.
THEOREM NoOpMeansSameVault ==
  ASSUME NEW base, NEW remote, NEW snap, NEW events,
         IsFiniteSet(DOMAIN base.entries), DistinctPaths(base.entries),
         IsFiniteSet(DOMAIN snap),
         NEW n \in Nat, DOMAIN events = 1..n,
         DOMAIN remote.entries \cap DOMAIN remote.tombs = {},
         \A i \in DOMAIN remote.entries : remote.entries[i] # Nothing,
         IsNoOp(PlanSync(base, remote, snap, events))
  PROVE  /\ DOMAIN snap = {remote.entries[i].path : i \in DOMAIN remote.entries}
         /\ \A i \in DOMAIN remote.entries :
              snap[remote.entries[i].path] = remote.entries[i].data
<1> DEFINE local == AssignIds(base.entries, snap, events)
<1>1. \A id \in DOMAIN local \cup DOMAIN remote.entries :
        Agree(ObjectOf(local, id), ObjectOf(remote.entries, id))
  BY NoOpMeansAgreement
<1>2. /\ \A id \in DOMAIN local :
           /\ local[id].path \in DOMAIN snap
           /\ local[id] = [path |-> local[id].path,
                           data |-> snap[local[id].path]]
      /\ \A path \in DOMAIN snap :
           \E id \in DOMAIN local : local[id].path = path
  BY EveryPathHasOneId
<1> HIDE DEF local
<1>3. \A id \in DOMAIN local : local[id] # Nothing
  BY <1>2 DEF Nothing
<1>4. \A id \in DOMAIN local :
        /\ id \in DOMAIN remote.entries
        /\ remote.entries[id].path = local[id].path
  BY <1>1, <1>3 DEF ObjectOf, Agree
<1>5. \A id \in DOMAIN remote.entries :
        /\ id \in DOMAIN local
        /\ remote.entries[id].path = local[id].path
        /\ remote.entries[id].data = local[id].data
  BY <1>1 DEF ObjectOf, Agree
<1>6. \A id \in DOMAIN remote.entries :
        /\ remote.entries[id].path \in DOMAIN snap
        /\ snap[remote.entries[id].path] = remote.entries[id].data
  BY <1>2, <1>5
<1>7. \A path \in DOMAIN snap :
        \E id \in DOMAIN remote.entries : remote.entries[id].path = path
  BY <1>2, <1>4
<1>8. DOMAIN snap = {remote.entries[i].path : i \in DOMAIN remote.entries}
  <2> DEFINE paths == {remote.entries[i].path : i \in DOMAIN remote.entries}
  <2>1. \A path \in DOMAIN snap : path \in paths
    BY <1>7
  <2>2. \A path \in paths : path \in DOMAIN snap
    BY <1>6
  <2> HIDE DEF paths
  <2>3. DOMAIN snap = paths
    BY <2>1, <2>2
  <2> QED BY <2>3 DEF paths
<1> QED BY <1>6, <1>8

\* Every path in a plan is a path, if those of the snapshot and of the remote
\* manifest are.
THEOREM PlannedPathsOK ==
  ASSUME NEW base, NEW remote, NEW snap, NEW events,
         IsFiniteSet(DOMAIN base.entries), DistinctPaths(base.entries),
         IsFiniteSet(DOMAIN snap), \A p \in DOMAIN snap : IsPath(p),
         NEW n \in Nat, DOMAIN events = 1..n,
         \A i \in DOMAIN remote.entries : IsPath(remote.entries[i].path)
  PROVE  PathsOK(PlanSync(base, remote, snap, events))
<1> DEFINE local == AssignIds(base.entries, snap, events)
           objects == ObjectPlans(base, remote, local)
           collided == AddCollisions(objects, local, remote.entries)
           tracked == Cardinality(DOMAIN base.entries)
<1>1. CASE base.rev > remote.rev
  BY <1>1 DEF PlanSync, NoOperations, PathsOK
<1>2. CASE ~(base.rev > remote.rev)
  <2>1. PlanSync(base, remote, snap, events) =
          AddMassDeletionGuard(collided, tracked)
    BY <1>2, PlanOfObjects
  <2>2. \A id \in DOMAIN local : IsPath(local[id].path)
    BY EveryPathHasOneId
  <2> HIDE DEF local
  <2>3. \A id : PathsOK(ObjectPlan(base, remote, local, id))
    <3> TAKE id
    <3> DEFINE l == ObjectOf(local, id)
               r == ObjectOf(remote.entries, id)
               t == id \in DOMAIN remote.tombs
    <3>1. (l = Nothing \/ IsPath(l.path)) /\ (r = Nothing \/ IsPath(r.path))
      BY <2>2 DEF ObjectOf
    <3>2. t \in BOOLEAN
      OBVIOUS
    <3> HIDE DEF l, r, t
    <3>3. PathsOK(PlanObject(id, ObjectOf(base.entries, id), l, r, t, remote.rev))
      BY <3>1, <3>2, ObjectPathsOK
    <3> QED BY <3>3 DEF ObjectPlan, l, r, t
  <2>4. /\ DOMAIN objects = DOMAIN NoOperations
        /\ \A k \in DOMAIN NoOperations : \A o \in objects[k] :
             \E id : o \in ObjectPlan(base, remote, local, id)[k]
    BY DEF ObjectPlans, MergePlans
  <2>5. PathsOK(objects)
    <3> HIDE DEF objects
    <3> QED BY <2>3, <2>4 DEF PathsOK, NoOperations
  <2> DEFINE more == {Collision(id, ProjectedPath(objects, local, id)) :
                        id \in Colliding(objects, local, remote.entries)}
             some == Colliding(objects, local, remote.entries) # {}
  <2>6. collided = [objects EXCEPT
                      !.conflicts = @ \cup more,
                      !.blocked = IF some
                                  THEN @ \cup {"PATH_COLLISION_REVIEW"}
                                  ELSE @]
    BY DEF AddCollisions
  <2>7. \A c \in more : c.local = Nothing /\ c.remote = Nothing
    BY DEF Collision
  <2> HIDE DEF objects, more, some, collided
  <2>8. PathsOK(collided) /\ DOMAIN collided = DOMAIN NoOperations
    BY <2>4, <2>5, <2>6, <2>7 DEF PathsOK, NoOperations
  <2>9. PathsOK(AddMassDeletionGuard(collided, tracked))
    BY <2>8 DEF AddMassDeletionGuard, PathsOK, NoOperations
  <2> QED BY <2>1, <2>9
<1> QED BY <1>1, <1>2

------------------------------------------------------------------------------
(* Folders keep their ids.  Only files are found again by their content, and *)
(* no event of the queue leads to a folder, so the ids of folders are those  *)
(* of their own paths.                                                       *)

FolderClaims(entries, snap) ==
  {c \in Claims(entries, snap) :
     \A id \in DOMAIN c : snap[c[id]] = Folder => entries[id].path = c[id]}

FilesOnly(snap, events) ==
  \A k \in DOMAIN events :
    events[k].new \in DOMAIN snap => snap[events[k].new] # Folder

\* To claim what is not a folder leaves folders alone.
LEMMA FileClaimAdded ==
  ASSUME NEW entries, NEW snap, NEW c \in FolderClaims(entries, snap),
         NEW ids, NEW path \in DOMAIN snap, snap[path] # Folder,
         c ++ [id \in ids |-> path] \in Claims(entries, snap)
  PROVE  c ++ [id \in ids |-> path] \in FolderClaims(entries, snap)
<1> DEFINE e == c ++ [id \in ids |-> path]
<1>1. \A id \in DOMAIN e : \/ id \in DOMAIN c /\ e[id] = c[id]
                           \/ e[id] = path
  BY DEF ++
<1> HIDE DEF e
<1>2. e \in FolderClaims(entries, snap)
  BY <1>1 DEF FolderClaims, e
<1> QED BY <1>2 DEF e

LEMMA FoldersClaimTheirPaths ==
  ASSUME NEW entries, NEW snap, IsFiniteSet(DOMAIN entries),
         IsFiniteSet(DOMAIN snap), DistinctPaths(entries),
         NEW n \in Nat, NEW events, DOMAIN events = 1..n,
         FilesOnly(snap, events)
  PROVE  AllClaims(entries, snap, events) \in FolderClaims(entries, snap)
<1> DEFINE X == FolderClaims(entries, snap)
<1>1. ClaimsByPath(entries, snap) \in X
  <2>1. ClaimsByPath(entries, snap) \in Claims(entries, snap)
    BY ClaimsKept
  <2>2. \A id \in DOMAIN ClaimsByPath(entries, snap) :
          entries[id].path = ClaimsByPath(entries, snap)[id]
    BY DEF ClaimsByPath
  <2> QED BY <2>1, <2>2 DEF FolderClaims
<1>2. ASSUME NEW c \in X, NEW i \in 1..n
      PROVE  ClaimByEvent(entries, snap, c, events[i]) \in X
  <2> DEFINE e == events[i]
             Moved == {id \in DOMAIN entries \ DOMAIN c :
                         entries[id].path = e.old}
  <2>1. ClaimByEvent(entries, snap, c, e) \in Claims(entries, snap)
    BY ClaimByEventKeeps DEF FolderClaims
  <2>2. CASE e.new \in DOMAIN snap /\ ~ClaimedPath(c, e.new)
    <3>1. ClaimByEvent(entries, snap, c, e) = c ++ [id \in Moved |-> e.new]
      BY <2>2 DEF ClaimByEvent
    <3>2. snap[e.new] # Folder
      BY <2>2 DEF FilesOnly
    <3> HIDE DEF Moved, e
    <3> QED BY <2>1, <2>2, <3>1, <3>2, FileClaimAdded DEF e
  <2>3. CASE ~(e.new \in DOMAIN snap /\ ~ClaimedPath(c, e.new))
    BY <2>3 DEF ClaimByEvent
  <2> QED BY <2>2, <2>3
<1>3. ASSUME NEW c \in X, NEW p \in DOMAIN snap
      PROVE  ClaimByContent(entries, snap, c, p) \in X
  <2> DEFINE Candidates == {id \in DOMAIN entries \ DOMAIN c :
                              entries[id].data = snap[p]}
             Matches == /\ snap[p] # Folder
                        /\ ~ClaimedPath(c, p)
                        /\ Cardinality(Candidates) = 1
  <2>1. ClaimByContent(entries, snap, c, p) \in Claims(entries, snap)
    BY ClaimByContentKeeps DEF FolderClaims
  <2>2. CASE Matches
    <3>1. ClaimByContent(entries, snap, c, p) = c ++ [id \in Candidates |-> p]
      BY <2>2 DEF ClaimByContent
    <3> HIDE DEF Candidates
    <3> QED BY <2>1, <2>2, <3>1, FileClaimAdded
  <2>3. CASE ~Matches
    BY <2>3 DEF ClaimByContent
  <2> QED BY <2>2, <2>3
<1> HIDE DEF X
<1> QED BY <1>1, <1>2, <1>3, EventsStay, ContentsStay DEF AllClaims, X

\* Where a snapshot has a folder, its id is claimed by an entry at its path or
\* made up of its path.
LEMMA FoldersKeepTheirIds ==
  ASSUME NEW entries, NEW snap, IsFiniteSet(DOMAIN entries),
         IsFiniteSet(DOMAIN snap), DistinctPaths(entries),
         NEW n \in Nat, NEW events, DOMAIN events = 1..n,
         FilesOnly(snap, events)
  PROVE  LET local == AssignIds(entries, snap, events) IN
           \A id \in DOMAIN local :
             \/ /\ id \in DOMAIN entries
                /\ IsFolder(local[id]) => entries[id].path = local[id].path
             \/ /\ id \notin DOMAIN entries
                /\ \E k \in Nat :
                     id = <<"l", local[id].path, local[id].data, k>>
<1> DEFINE local == AssignIds(entries, snap, events)
           claims == AllClaims(entries, snap, events)
           fresh == {path \in DOMAIN snap : ~ClaimedPath(claims, path)}
           Object(path) == [path |-> path, data |-> snap[path]]
           IdOf(path) == LocalId(entries, path, snap[path])
           Owner(id) == CHOOSE path \in fresh : IdOf(path) = id
           new == {IdOf(path) : path \in fresh}
<1>1. claims \in FolderClaims(entries, snap)
  BY FoldersClaimTheirPaths
<1>2. local = [id \in DOMAIN claims |-> Object(claims[id])]
                ++ [id \in new |-> Object(Owner(id))]
  BY DEF AssignIds
<1> HIDE DEF claims, local
<1>3. /\ DOMAIN claims \subseteq DOMAIN entries
      /\ \A id \in DOMAIN claims :
           snap[claims[id]] = Folder => entries[id].path = claims[id]
  BY <1>1 DEF FolderClaims, Claims
<1>4. \A path : /\ IdOf(path) \notin DOMAIN entries
                /\ \E k \in Nat : IdOf(path) = <<"l", path, snap[path], k>>
  BY LocalIdIsFree
<1> HIDE DEF IdOf
<1>5. \A id \in new : IdOf(Owner(id)) = id
  OBVIOUS
<1> HIDE DEF Owner, fresh
<1>6. \A id \in DOMAIN local :
        \/ id \in DOMAIN claims /\ local[id] = Object(claims[id])
        \/ id \in new /\ local[id] = Object(Owner(id))
  <2> HIDE DEF new, Object
  <2> QED BY <1>2 DEF ++
<1>7. ASSUME NEW id \in new, local[id] = Object(Owner(id))
      PROVE  /\ id \notin DOMAIN entries
             /\ \E k \in Nat : id = <<"l", local[id].path, local[id].data, k>>
  <2> HIDE DEF new
  <2> QED BY <1>4, <1>5, <1>7
<1> HIDE DEF new
<1> QED BY <1>3, <1>6, <1>7 DEF IsFolder, local

------------------------------------------------------------------------------
(* A device whose user did nothing since its base was saved *)

\* The vault holds what the entries say, and nothing else.
Mirrors(snap, entries) ==
  /\ DOMAIN snap = {entries[i].path : i \in DOMAIN entries}
  /\ \A i \in DOMAIN entries : snap[entries[i].path] = entries[i].data

\* Every object is found where it was, and no rename event or equal content
\* counts.
LEMMA MirrorKeepsIds ==
  ASSUME NEW entries, NEW snap, IsFiniteSet(DOMAIN snap), Mirrors(snap, entries),
         NEW n \in Nat, NEW events, DOMAIN events = 1..n
  PROVE  LET local == AssignIds(entries, snap, events) IN
           /\ DOMAIN local = DOMAIN entries
           /\ \A i \in DOMAIN entries :
                local[i] = [path |-> entries[i].path, data |-> entries[i].data]
<1> DEFINE local == AssignIds(entries, snap, events)
           c == ClaimsByPath(entries, snap)
           all == AllClaims(entries, snap, events)
           fresh == {path \in DOMAIN snap : ~ClaimedPath(all, path)}
           Object(path) == [path |-> path, data |-> snap[path]]
           IdOf(path) == LocalId(entries, path, snap[path])
<1>1. /\ DOMAIN c = DOMAIN entries
      /\ \A i \in DOMAIN entries : c[i] = entries[i].path
      /\ c = [i \in DOMAIN c |-> c[i]]
  BY DEF ClaimsByPath, Mirrors
<1> HIDE DEF c
<1>2. \A x : c ++ [i \in {} |-> x] = c
  BY <1>1 DEF ++
<1>3. ASSUME NEW event PROVE ClaimByEvent(entries, snap, c, event) = c
  <2> DEFINE Moved == {i \in DOMAIN entries \ DOMAIN c :
                         entries[i].path = event.old}
  <2>1. Moved = {}
    BY <1>1
  <2>2. \/ ClaimByEvent(entries, snap, c, event) = c
        \/ ClaimByEvent(entries, snap, c, event)
             = c ++ [i \in Moved |-> event.new]
    BY DEF ClaimByEvent
  <2> HIDE DEF Moved
  <2> QED BY <1>2, <2>1, <2>2
<1>4. ASSUME NEW path PROVE ClaimByContent(entries, snap, c, path) = c
  <2> DEFINE Candidates == {i \in DOMAIN entries \ DOMAIN c :
                              entries[i].data = snap[path]}
  <2>1. Candidates = {}
    BY <1>1
  <2>2. \/ ClaimByContent(entries, snap, c, path) = c
        \/ ClaimByContent(entries, snap, c, path)
             = c ++ [i \in Candidates |-> path]
    BY DEF ClaimByContent
  <2> HIDE DEF Candidates
  <2> QED BY <1>2, <2>1, <2>2
<1>5. all = c
  <2>1. ClaimsByEvents(entries, snap, c, events) \in {c}
    <3> DEFINE X == {c}
    <3>1. c \in X /\ \A k \in X, i \in 1..n :
            ClaimByEvent(entries, snap, k, events[i]) \in X
      BY <1>3
    <3> HIDE DEF X
    <3>2. ClaimsByEvents(entries, snap, c, events) \in X
      BY <3>1, EventsStay
    <3> QED BY <3>2 DEF X
  <2>2. ClaimsByContent(entries, snap, c) \in {c}
    <3> DEFINE X == {c}
    <3>1. c \in X /\ \A k \in X, path \in DOMAIN snap :
            ClaimByContent(entries, snap, k, path) \in X
      BY <1>4
    <3> HIDE DEF X
    <3>2. ClaimsByContent(entries, snap, c) \in X
      BY <3>1, ContentsStay
    <3> QED BY <3>2 DEF X
  <2> QED BY <2>1, <2>2 DEF AllClaims, c
<1>6. fresh = {}
  BY <1>1, <1>5 DEF ClaimedPath, Mirrors
<1>7. local = [i \in DOMAIN all |-> Object(all[i])]
                ++ [i \in {IdOf(path) : path \in fresh} |->
                      Object(CHOOSE path \in fresh : IdOf(path) = i)]
  BY DEF AssignIds
<1> HIDE DEF all, fresh, local, IdOf
<1>8. /\ DOMAIN local = DOMAIN all
      /\ \A i \in DOMAIN all : local[i] = Object(all[i])
  BY <1>6, <1>7 DEF ++
<1>9. \A i \in DOMAIN entries :
        Object(all[i]) = [path |-> entries[i].path, data |-> entries[i].data]
  BY <1>1, <1>5 DEF Mirrors
<1> HIDE DEF Object
<1> QED BY <1>1, <1>5, <1>8, <1>9 DEF local

\* What an unchanged object or a missing one has planned: nothing that Drive or
\* the user would notice.
Follows(plan) ==
  /\ plan.uploads = {} /\ plan.remoteMoves = {} /\ plan.tombstones = {}
  /\ plan.conflicts = {} /\ plan.blocked = {}
  /\ \A o \in plan.recoveries : o.side = "local"

\* Local moves make folders, or take the object where r is.
FollowsRemote(plan, id, b, r) ==
  /\ Follows(plan)
  /\ \A m \in plan.localMoves :
       /\ m.id = id
       /\ \/ m.from = None
          \/ /\ b # Nothing /\ r # Nothing
             /\ m = Move(id, b.path, r.path, r)
  /\ b # Nothing /\ r # Nothing /\ r.path # b.path =>
       plan.localMoves = {Move(id, b.path, r.path, r)}

LEMMA FollowerObject ==
  ASSUME NEW id, NEW b, NEW l, NEW r, NEW tombstoned \in BOOLEAN, NEW time,
         \/ b = Nothing /\ l = Nothing
         \/ /\ b # Nothing /\ Same(b, l)
            /\ r = Nothing \/ IsFolder(r) = IsFolder(b)
  PROVE  FollowsRemote(PlanObject(id, b, l, r, tombstoned, time), id, b, r)
<1> DEFINE plan == PlanObject(id, b, l, r, tombstoned, time)
<1>1. CASE b = Nothing /\ l = Nothing
  <2>1. plan = NoOperations \/ plan = RemoteCreation(id, r)
    BY <1>1 DEF PlanObject, PlanNewObject
  <2> QED BY <1>1, <2>1 DEF RemoteCreation, NoOperations, Move, Follows,
                               FollowsRemote
<1>2. CASE /\ b # Nothing /\ Same(b, l)
           /\ r = Nothing \/ IsFolder(r) = IsFolder(b)
  <2>1. /\ l # Nothing
        /\ ~(TypeChanged(b, l) \/ TypeChanged(b, r))
    BY <1>2 DEF Same, TypeChanged, IsFolder
  <2>2. plan = PlanTrackedObject(id, b, l, r, time)
    BY <1>2 DEF PlanObject
  <2>3. CASE r = Nothing
    <3>1. plan = RemotelyDeleted(id, b, l, time)
      BY <2>1, <2>2, <2>3 DEF PlanTrackedObject
    <3>2. plan = [NoOperations EXCEPT
                    !.recoveries = {Recovery(id, l.path, "local", None)}]
      BY <1>2, <3>1 DEF RemotelyDeleted
    <3> QED BY <2>3, <3>2 DEF NoOperations, Recovery, Follows, FollowsRemote
  <2>4. CASE r # Nothing
    <3>1. plan = BothPresent(id, b, l, r, time)
      BY <2>1, <2>2, <2>4 DEF PlanTrackedObject
    <3>2. plan = RemoteChange(id, b, r)
      BY <1>2, <3>1 DEF BothPresent
    <3> QED BY <1>2, <2>4, <3>2 DEF RemoteChange, NoOperations, Follows,
                                    FollowsRemote, Move
  <2> QED BY <2>3, <2>4
<1> QED BY <1>1, <1>2

\* A path of entries is another object's in remote: it was given away after a
\* deletion, or the other object moved there.
Reused(entries, remote) ==
  \E i \in DOMAIN entries, j \in DOMAIN remote :
    /\ i # j
    /\ entries[i].path = remote[j].path
    /\ i \notin DOMAIN remote \/ j \in DOMAIN entries

\* A plan that leaves Drive as it is and stops for what collides only.
StopsForCollisions(plan, colliding) ==
  /\ plan.uploads = {} /\ plan.remoteMoves = {} /\ plan.tombstones = {}
  /\ \A o \in plan.recoveries : o.side = "local"
  /\ \A c \in plan.conflicts : c.kind = "path-collision"
  /\ colliding = {} => plan.conflicts = {} /\ HardBlocked(plan) = {}

\* What followers plan, when it is put together.
LEMMA FollowerPlans ==
  ASSUME NEW base, NEW remote, NEW local,
         \A id : Follows(ObjectPlan(base, remote, local, id)),
         NEW tracked
  PROVE  LET objects == ObjectPlans(base, remote, local)
             collided == AddCollisions(objects, local, remote.entries)
         IN StopsForCollisions(AddMassDeletionGuard(collided, tracked),
                               Colliding(objects, local, remote.entries))
<1> DEFINE objects == ObjectPlans(base, remote, local)
           collided == AddCollisions(objects, local, remote.entries)
           plan == AddMassDeletionGuard(collided, tracked)
           P(id) == ObjectPlan(base, remote, local, id)
           ids == PlannedIds(base, remote, local)
           colliding == Colliding(objects, local, remote.entries)
<1>1. /\ DOMAIN objects = DOMAIN NoOperations
      /\ \A k \in DOMAIN NoOperations : objects[k] = UNION {P(id)[k] : id \in ids}
  BY DEF ObjectPlans, MergePlans
<1>2. DOMAIN NoOperations = {"uploads", "downloads", "remoteMoves", "localMoves",
                             "conflicts", "tombstones", "recoveries", "blocked"}
  BY DEF NoOperations
<1>3. \A id : /\ P(id).uploads = {} /\ P(id).remoteMoves = {}
              /\ P(id).tombstones = {} /\ P(id).conflicts = {}
              /\ P(id).blocked = {}
              /\ \A o \in P(id).recoveries : o.side = "local"
  BY DEF Follows
<1> HIDE DEF P, ids
<1>4. /\ objects.uploads = {} /\ objects.remoteMoves = {}
      /\ objects.tombstones = {} /\ objects.conflicts = {}
      /\ objects.blocked = {}
      /\ \A o \in objects.recoveries : o.side = "local"
  <2> HIDE DEF objects
  <2>1. /\ objects.uploads = UNION {P(id).uploads : id \in ids}
        /\ objects.remoteMoves = UNION {P(id).remoteMoves : id \in ids}
        /\ objects.tombstones = UNION {P(id).tombstones : id \in ids}
        /\ objects.conflicts = UNION {P(id).conflicts : id \in ids}
        /\ objects.blocked = UNION {P(id).blocked : id \in ids}
        /\ objects.recoveries = UNION {P(id).recoveries : id \in ids}
    BY <1>1, <1>2
  <2> QED BY <1>3, <2>1
<1> HIDE DEF objects
<1>5. /\ \A k \in DOMAIN NoOperations \ {"conflicts", "blocked"} :
           plan[k] = objects[k]
      /\ plan.conflicts = objects.conflicts
           \cup {Collision(id, ProjectedPath(objects, local, id)) : id \in colliding}
  BY <1>1, GuardsAddBlocks
<1>6. colliding = {} => collided.blocked = {}
  BY <1>1, <1>2, <1>4 DEF AddCollisions
<1>7. plan.blocked \subseteq collided.blocked \cup {"MASS_DELETION_BLOCKED"}
  <2>1. "blocked" \in DOMAIN collided
    BY <1>1, <1>2 DEF AddCollisions
  <2> HIDE DEF collided
  <2> QED BY <2>1 DEF AddMassDeletionGuard
<1> HIDE DEF plan, collided, colliding
<1>8. colliding = {} => plan.conflicts = {} /\ HardBlocked(plan) = {}
  BY <1>4, <1>5, <1>6, <1>7 DEF HardBlocked
<1>9. /\ plan.uploads = {} /\ plan.remoteMoves = {} /\ plan.tombstones = {}
      /\ \A o \in plan.recoveries : o.side = "local"
  BY <1>2, <1>4, <1>5
<1>10. \A c \in plan.conflicts : c.kind = "path-collision"
  <2> SUFFICES ASSUME NEW c \in plan.conflicts PROVE c.kind = "path-collision"
    OBVIOUS
  <2>1. PICK id \in colliding :
          c = Collision(id, ProjectedPath(objects, local, id))
    BY <1>4, <1>5
  <2> QED BY <2>1 DEF Collision
<1>11. StopsForCollisions(plan, colliding)
  BY <1>8, <1>9, <1>10 DEF StopsForCollisions
<1> QED BY <1>11 DEF plan, collided, colliding, objects

\* Entries of one id are both of a folder at one path, or both of files.
SameKinds(entries, remote) ==
  \A i \in DOMAIN entries \cap DOMAIN remote :
    /\ IsFolder(entries[i]) = IsFolder(remote[i])
    /\ IsFolder(entries[i]) => entries[i].path = remote[i].path

\* A device whose vault is as its base has it, wherever rename events point and
\* however many files look alike, plans nothing for Drive: it takes over what
\* others did.  It can, without a conflict or a block but for the number of
\* deletions, unless a path that it knows was given to another object.
THEOREM FollowerPlan ==
  ASSUME NEW base, NEW remote, NEW snap, NEW events,
         NEW n \in Nat, DOMAIN events = 1..n,
         ~(base.rev > remote.rev),
         IsFiniteSet(DOMAIN snap), Mirrors(snap, base.entries),
         DistinctPaths(base.entries), DistinctPaths(remote.entries),
         SameKinds(base.entries, remote.entries),
         \A i \in DOMAIN base.entries :
           base.entries[i] # Nothing /\ base.entries[i].path # None,
         \A i \in DOMAIN remote.entries : remote.entries[i] # Nothing
  PROVE  LET plan == PlanSync(base, remote, snap, events) IN
           /\ plan.uploads = {} /\ plan.remoteMoves = {} /\ plan.tombstones = {}
           /\ \A o \in plan.recoveries : o.side = "local"
           /\ \A c \in plan.conflicts : c.kind = "path-collision"
           /\ \/ plan.conflicts = {} /\ HardBlocked(plan) = {}
              \/ Reused(base.entries, remote.entries)
<1> DEFINE plan == PlanSync(base, remote, snap, events)
           local == AssignIds(base.entries, snap, events)
           objects == ObjectPlans(base, remote, local)
           P(id) == ObjectPlan(base, remote, local, id)
           ids == PlannedIds(base, remote, local)
           B == base.entries
           R == remote.entries
<1>1. plan = AddMassDeletionGuard(AddCollisions(objects, local, R),
                                  Cardinality(DOMAIN B))
  BY PlanOfObjects
<1>2. /\ DOMAIN local = DOMAIN B
      /\ \A i \in DOMAIN B : local[i] = [path |-> B[i].path, data |-> B[i].data]
  BY MirrorKeepsIds
<1> HIDE DEF local
<1>0. \A i \in DOMAIN B : /\ local[i] # Nothing
                           /\ local[i].path = B[i].path
                           /\ local[i].data = B[i].data
  <2> SUFFICES ASSUME NEW i \in DOMAIN B
               PROVE  /\ local[i] # Nothing
                      /\ local[i].path = B[i].path
                      /\ local[i].data = B[i].data
    OBVIOUS
  <2>1. local[i] = [path |-> B[i].path, data |-> B[i].data]
    BY <1>2
  <2> HIDE DEF B
  <2> QED BY <2>1 DEF Nothing
<1>3. \A id : FollowsRemote(P(id), id, ObjectOf(B, id), ObjectOf(R, id))
  <2> TAKE id
  <2> DEFINE b == ObjectOf(B, id)
             l == ObjectOf(local, id)
             r == ObjectOf(R, id)
             t == id \in DOMAIN remote.tombs
  <2>1. t \in BOOLEAN /\ P(id) = PlanObject(id, b, l, r, t, remote.rev)
    BY DEF ObjectPlan
  <2>2. \/ b = Nothing /\ l = Nothing
        \/ /\ b # Nothing /\ Same(b, l)
           /\ r = Nothing \/ IsFolder(r) = IsFolder(b)
    BY <1>0, <1>2 DEF ObjectOf, Same, SameKinds
  <2> HIDE DEF b, l, r, t, P
  <2>3. FollowsRemote(P(id), id, b, r)
    BY <2>1, <2>2, FollowerObject
  <2> QED BY <2>3 DEF b, r
<1> HIDE DEF P
<1>4. objects.localMoves = UNION {P(id).localMoves : id \in ids}
  BY DEF ObjectPlans, MergePlans, P, NoOperations
<1>5. \A id \in DOMAIN B \cup DOMAIN R : id \in ids
  BY DEF PlannedIds
<1> HIDE DEF objects, ids
\* The moves that are not of new folders are those of the entries that moved.
<1>6. ASSUME NEW m \in objects.localMoves
      PROVE  \/ m.from = None
             \/ /\ m.id \in DOMAIN B \cap DOMAIN R
                /\ m = Move(m.id, B[m.id].path, R[m.id].path, R[m.id])
  <2>1. PICK id \in ids : m \in P(id).localMoves
    BY <1>4
  <2> QED BY <1>3, <2>1 DEF ObjectOf, FollowsRemote
<1>7. ASSUME NEW id \in DOMAIN B \cap DOMAIN R, R[id].path # B[id].path
      PROVE  {m \in objects.localMoves : m.id = id}
               = {Move(id, B[id].path, R[id].path, R[id])}
  <2>1. P(id).localMoves = {Move(id, B[id].path, R[id].path, R[id])}
    BY <1>3, <1>7 DEF ObjectOf, FollowsRemote
  <2>2. \A j \in ids : \A m \in P(j).localMoves : m.id = j
    BY <1>3 DEF FollowsRemote
  <2>3. \A m : m \in objects.localMoves /\ m.id = id <=> m \in P(id).localMoves
    BY <1>4, <1>5, <2>2
  <2> QED BY <2>1, <2>3
<1>8. ASSUME ~Reused(B, R), NEW id \in DOMAIN local, NEW j \in DOMAIN R \ {id},
             R[j].path = ProjectedPath(objects, local, id)
      PROVE  FALSE
  <2> DEFINE Moving == {m \in objects.localMoves : m.from # None}
             Safe(m) == /\ m.id = id
                        /\ ~m.folder
                        /\ m.from = local[id].path
                        /\ m.to # m.from
                        /\ \A k \in Moving \ {m} : k.to # m.to
                        /\ \A i \in DOMAIN local : local[i].path # m.to
             away == /\ ~IsFolder(local[id])
                     /\ Cardinality({m \in objects.localMoves : m.id = id}) = 1
                     /\ \E m \in Moving : Safe(m)
  <2>1. ProjectedPath(objects, local, id) =
          IF away THEN (CHOOSE m \in Moving : Safe(m)).to ELSE local[id].path
    BY DEF ProjectedPath
  <2>2. id \in DOMAIN B /\ local[id].path = B[id].path
        /\ local[id].data = B[id].data
    BY <1>0, <1>2
  <2>3. CASE away
    <3>1. PICK m \in Moving : /\ Safe(m)
                              /\ ProjectedPath(objects, local, id) = m.to
      BY <2>1, <2>3
    <3>2. id \in DOMAIN R /\ m = Move(id, B[id].path, R[id].path, R[id])
      BY <1>6, <3>1
    <3>3. m.to = R[id].path
      BY <3>2 DEF Move
    <3> QED BY <1>8, <3>1, <3>2, <3>3 DEF DistinctPaths
  <2>4. CASE ~away
    <3>1. R[j].path = B[id].path
      BY <1>8, <2>1, <2>2, <2>4
    <3>2. id \in DOMAIN R /\ j \notin DOMAIN B
      BY <1>8, <2>2, <3>1 DEF Reused
    <3>3. R[id].path # B[id].path
      BY <1>8, <3>1, <3>2 DEF DistinctPaths
    <3>4. ~IsFolder(B[id]) /\ ~IsFolder(R[id])
      BY <2>2, <3>2, <3>3 DEF SameKinds
    <3> DEFINE m == Move(id, B[id].path, R[id].path, R[id])
    <3>5. /\ m.id = id /\ m.from = B[id].path /\ m.to = R[id].path
          /\ m.folder = FALSE
      BY <3>4 DEF Move, IsFolder
    <3>6. {o \in objects.localMoves : o.id = id} = {m}
      BY <1>7, <2>2, <3>2, <3>3
    <3> HIDE DEF m
    <3>7. Cardinality({o \in objects.localMoves : o.id = id}) = 1
      BY <3>6, FS_Singleton
    <3>8. m \in Moving
      BY <2>2, <3>5, <3>6
    <3>9. ASSUME NEW k \in Moving \ {m} PROVE k.to # m.to
      <4>1. /\ k.id \in DOMAIN B \cap DOMAIN R
            /\ k = Move(k.id, B[k.id].path, R[k.id].path, R[k.id])
        BY <1>6
      <4>2. k.id # id
        BY <3>6, <3>9
      <4>3. k.to = R[k.id].path
        BY <4>1 DEF Move
      <4> QED BY <3>2, <3>5, <4>1, <4>2, <4>3 DEF DistinctPaths
    <3>10. ASSUME NEW i \in DOMAIN local PROVE local[i].path # m.to
      <4>1. i \in DOMAIN B /\ local[i].path = B[i].path
        BY <1>0, <1>2
      <4>2. CASE i = id
        BY <2>2, <3>3, <3>5, <4>2
      <4>3. CASE i # id
        BY <1>8, <2>2, <3>2, <3>5, <4>1, <4>3 DEF Reused
      <4> QED BY <4>2, <4>3
    <3>11. Safe(m)
      BY <2>2, <3>3, <3>5, <3>9, <3>10
    <3>12. ~IsFolder(local[id])
      BY <2>2, <3>4 DEF IsFolder
    <3> HIDE DEF Safe, Moving
    <3> QED BY <2>4, <3>7, <3>8, <3>11, <3>12
  <2> QED BY <2>3, <2>4
<1>9. Colliding(objects, local, R) = {} \/ Reused(B, R)
  BY <1>8 DEF Colliding
<1>10. StopsForCollisions(plan, Colliding(objects, local, R))
  <2>1. \A id : Follows(ObjectPlan(base, remote, local, id))
    BY <1>3 DEF P, FollowsRemote
  <2> HIDE DEF plan, B, R
  <2> QED BY <1>1, <2>1, FollowerPlans DEF objects, R
<1> HIDE DEF plan, B, R
<1> QED BY <1>9, <1>10 DEF StopsForCollisions, plan, B, R
==============================================================================

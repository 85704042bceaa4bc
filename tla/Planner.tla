------------------------------ MODULE Planner ------------------------------
(***************************************************************************)
(* planSync of src/src/sync/planner.ts: logical ids are assigned to the    *)
(* objects of the local snapshot, each id is compared three ways, paths    *)
(* that two ids claim are blocked and mass deletions are held back.        *)
(*                                                                         *)
(* A snapshot maps paths to data.  A manifest is a record of its revision, *)
(* its entries and its tombstones, functions from ids.  Paths are equal    *)
(* here when the code finds them equal after case folding.                 *)
(***************************************************************************)
EXTENDS ThreeWay, Integers, FiniteSets, SequencesExt

CONSTANTS
  FileThreshold,      \* deletions a plan may hold without confirmation
  PercentThreshold    \* the same, in percent of the tracked objects

ASSUME ThresholdAssumption ==
  FileThreshold \in Nat /\ PercentThreshold \in Nat

\* f, and g where f is not defined.  It is @@ of TLC, with a definition the
\* provers see.
f ++ g ==
  [x \in DOMAIN f \cup DOMAIN g |-> IF x \in DOMAIN f THEN f[x] ELSE g[x]]

Lookup(f, x) == IF x \in DOMAIN f THEN f[x] ELSE None

\* The object or the entry of id, if there is one.
ObjectOf(f, id) == IF id \in DOMAIN f THEN f[id] ELSE Nothing

------------------------------------------------------------------------------
(* assignLocalLogicalIds.  claims maps ids to the paths they are given to. *)

ClaimedPath(claims, path) == \E id \in DOMAIN claims : claims[id] = path

\* Objects that are where the base manifest has them.
ClaimsByPath(entries, snap) ==
  LET Kept == {id \in DOMAIN entries : entries[id].path \in DOMAIN snap}
  IN [id \in Kept |-> entries[id].path]

\* Objects that a rename event took from their place in the base manifest.
ClaimByEvent(entries, snap, claims, event) ==
  LET Moved == {id \in DOMAIN entries \ DOMAIN claims :
                  entries[id].path = event.old}
  IN IF event.new \in DOMAIN snap /\ ~ClaimedPath(claims, event.new)
     THEN claims ++ [id \in Moved |-> event.new]
     ELSE claims

ClaimsByEvents(entries, snap, claims, events) ==
  FoldLeft(LAMBDA c, e : ClaimByEvent(entries, snap, c, e), claims, events)

\* A file whose content one unclaimed entry alone has is that entry's.
ClaimByContent(entries, snap, claims, path) ==
  LET Candidates == {id \in DOMAIN entries \ DOMAIN claims :
                       entries[id].data = snap[path]}
  IN IF /\ snap[path] # Folder
        /\ ~ClaimedPath(claims, path)
        /\ Cardinality(Candidates) = 1
     THEN claims ++ [id \in Candidates |-> path]
     ELSE claims

\* In some fixed order of their paths.
ClaimsByContent(entries, snap, claims) ==
  FoldLeft(LAMBDA c, p : ClaimByContent(entries, snap, c, p), claims,
           SetToSeq(DOMAIN snap))

\* The id that an object gets from its own type, path and content: the first
\* one of its series that the base manifest does not use.
LocalId(entries, path, data) ==
  LET Series(n) == <<"l", path, data, n>>
      free == CHOOSE n \in 0..Cardinality(DOMAIN entries) :
                /\ Series(n) \notin DOMAIN entries
                /\ \A m \in 0..(n - 1) : Series(m) \in DOMAIN entries
  IN Series(free)

\* What is claimed where it was, by a rename event or by its content.
AllClaims(entries, snap, events) ==
  ClaimsByContent(entries, snap,
    ClaimsByEvents(entries, snap, ClaimsByPath(entries, snap), events))

\* The snapshot by logical id.
AssignIds(entries, snap, events) ==
  LET claims == AllClaims(entries, snap, events)
      fresh == {path \in DOMAIN snap : ~ClaimedPath(claims, path)}
      Object(path) == [path |-> path, data |-> snap[path]]
      IdOf(path) == LocalId(entries, path, snap[path])
  IN [id \in DOMAIN claims |-> Object(claims[id])]
       ++ [id \in {IdOf(path) : path \in fresh} |->
             Object(CHOOSE path \in fresh : IdOf(path) = id)]

------------------------------------------------------------------------------
(* Plans *)

MergePlans(plans) ==
  [k \in DOMAIN NoOperations |-> UNION {p[k] : p \in plans}]

\* Mutant of ProjectedPath: files that will have moved away are still in the way.
CurrentPath(plan, local, id) == local[id].path

\* Where the files of local will be once the local moves of the plan are done,
\* as far as the plan makes sure of it: a file that one move alone takes to a
\* place nobody is at and no other move goes to.
ProjectedPath(plan, local, id) ==
  LET Moves == {m \in plan.localMoves : m.from # None}
      Safe(m) ==
        /\ m.id = id
        /\ ~m.folder
        /\ m.from = local[id].path
        /\ m.to # m.from
        /\ \A n \in Moves \ {m} : n.to # m.to
        /\ \A i \in DOMAIN local : local[i].path # m.to
  IN IF /\ ~IsFolder(local[id])
        /\ Cardinality({m \in plan.localMoves : m.id = id}) = 1
        /\ \E m \in Moves : Safe(m)
     THEN (CHOOSE m \in Moves : Safe(m)).to
     ELSE local[id].path

\* Ids whose local object is in the way of another id's remote entry.
Colliding(plan, local, remote) ==
  {id \in DOMAIN local :
     \E other \in DOMAIN remote \ {id} :
       remote[other].path = ProjectedPath(plan, local, id)}

\* Nobody chooses a side of a collision, so the conflict does not name them.
Collision(id, path) ==
  [id |-> id, kind |-> "path-collision", path |-> path,
   local |-> Nothing, remote |-> Nothing]

AddCollisions(plan, local, remote) ==
  [plan EXCEPT
     !.conflicts = @ \cup {Collision(id, ProjectedPath(plan, local, id)) :
                             id \in Colliding(plan, local, remote)},
     !.blocked = IF Colliding(plan, local, remote) # {}
                 THEN @ \cup {"PATH_COLLISION_REVIEW"} ELSE @]

\* Deletions of a plan, and how many it may hold without a confirmation.
Deletions(plan) ==
  Cardinality(plan.tombstones)
    + Cardinality({r \in plan.recoveries : r.side = "local"})

DeletionLimit(tracked) ==
  Min({FileThreshold,
       Max({1, (tracked * PercentThreshold + 99) \div 100})})

MassDeletion(plan, tracked) ==
  tracked # 0 /\ Deletions(plan) > DeletionLimit(tracked)

AddMassDeletionGuard(plan, tracked) ==
  IF MassDeletion(plan, tracked)
  THEN [plan EXCEPT !.blocked = @ \cup {"MASS_DELETION_BLOCKED"}]
  ELSE plan

PlanSync(base, remote, snap, events) ==
  IF base.rev > remote.rev
  THEN [NoOperations EXCEPT !.blocked = {"BASE_AHEAD_OF_REMOTE"}]
  ELSE
    LET local == AssignIds(base.entries, snap, events)
        ids == UNION {DOMAIN base.entries, DOMAIN remote.entries,
                      DOMAIN remote.tombs, DOMAIN local}
        PlanOf(id) == PlanObject(id, ObjectOf(base.entries, id),
                                 ObjectOf(local, id),
                                 ObjectOf(remote.entries, id),
                                 id \in DOMAIN remote.tombs, remote.rev)
        objects == MergePlans({PlanOf(id) : id \in ids})
    IN AddMassDeletionGuard(AddCollisions(objects, local, remote.entries),
                            Cardinality(DOMAIN base.entries))

\* Blocked operations that no confirmation lets pass.
HardBlocked(plan) == plan.blocked \ {"MASS_DELETION_BLOCKED"}

IsNoOp(plan) == \A k \in DOMAIN NoOperations : plan[k] = {}
==============================================================================

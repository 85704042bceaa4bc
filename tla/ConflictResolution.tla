------------------------- MODULE ConflictResolution -------------------------
(***************************************************************************)
(* applyConflictResolutions of src/src/sync/conflict-resolution.ts: what   *)
(* the choices a user made for conflicts do to a plan.                     *)
(*                                                                         *)
(* choices maps ids to choices.  A choice is not tied to one conflict: it  *)
(* applies to whatever conflict a later plan has for the id.               *)
(***************************************************************************)
EXTENDS Planner

Choice == {"keep-local", "keep-remote", "keep-both", "manual"}

\* Conflicts the Conflict Center offers choices for.
Resolvable(c) == c.kind \notin {"path-collision", "type-collision"}

\* The choice replaces what was planned; otherwise both sides are kept.
Decided(c, choices) ==
  /\ Lookup(choices, c.id) \notin {None, "keep-both"}
  /\ Resolvable(c)
  /\ c.local # Nothing
  /\ c.remote # Nothing

\* What the conflict c itself has planned, to preserve both sides.
Preserving(plan, c) ==
  [NoOperations EXCEPT
     !.conflicts = {c},
     !.uploads = {u \in plan.uploads : u.id = ConflictId(c.id, c.path)},
     !.downloads = {o \in plan.downloads : o.id = c.id},
     !.remoteMoves = {m \in plan.remoteMoves : m.id = c.id}]

\* What is done instead.  A manual merge is in the local file by now.
Deciding(c, choice) ==
  IF choice = "keep-remote"
  THEN [NoOperations EXCEPT
          !.localMoves = IF c.local.path = c.remote.path THEN {}
                         ELSE {Move(c.id, c.local.path, c.remote.path, c.local)},
          !.downloads = {Download(c.id, c.remote.path, c.remote)}]
  ELSE [NoOperations EXCEPT !.uploads = {Upload(c.id, c.local)}]

ApplyConflictResolutions(plan, choices) ==
  LET Settled == {c \in plan.conflicts : Decided(c, choices)}
      dropped == MergePlans({Preserving(plan, c) : c \in Settled})
      added == MergePlans({Deciding(c, choices[c.id]) : c \in Settled})
  IN [k \in DOMAIN NoOperations |-> (plan[k] \ dropped[k]) \cup added[k]]
=============================================================================

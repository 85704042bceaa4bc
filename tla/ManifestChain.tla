---------------------------- MODULE ManifestChain ----------------------------
(***************************************************************************)
(* What the commit protocol promises: the manifest of a vault is one chain *)
(* of revisions.  A commit extends the newest revision and nothing else,   *)
(* and the base a device keeps for its next three-way comparison only      *)
(* moves forward, to a revision that is part of the chain.  The promise    *)
(* ends when the chain is broken from outside, by a write that takes       *)
(* effect when its writer no longer holds the lease.                       *)
(***************************************************************************)
EXTENDS Integers

CONSTANTS
  Device,    \* the devices that share a vault
  Manifest   \* manifests: records with fields rev, id and base

VARIABLES
  head,      \* the manifest stored in the app-data folder
  base,      \* base[d]: the manifest device d compares against next time
  broken     \* a write that nothing protects has taken effect

chainVars == <<head, base, broken>>

\* m is the newest revision, or older than it.
InChain(m) ==
  /\ m.rev <= head.rev
  /\ m.rev = head.rev => m = head

ChainInit ==
  /\ head \in Manifest
  /\ head.rev = 0
  /\ base = [d \in Device |-> head]
  /\ broken = FALSE

\* A device publishes a manifest that it planned on the newest one.
Publish ==
  /\ head' \in Manifest
  /\ head'.rev = head.rev + 1
  /\ head'.base = head.id
  /\ base' = base

\* A device adopts a published manifest, never an older one than it has, as
\* its common base.
Adopt(d) ==
  /\ InChain(base'[d])
  /\ base[d].rev <= base'[d].rev
  /\ base' = [base EXCEPT ![d] = base'[d]]
  /\ head' = head

\* Nothing is promised from here on.
Break == broken'

ChainNext ==
  \/ ~broken' /\ ~broken /\ (Publish \/ \E d \in Device : Adopt(d))
  \/ Break

ChainSpec == ChainInit /\ [][ChainNext]_chainVars
==============================================================================

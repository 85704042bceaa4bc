-------------------------- MODULE SyncVaultProofs --------------------------
(***************************************************************************)
(* Devices that synchronize through one manifest: what holds for any       *)
(* vaults, any edits, however many devices, and synchronizations that      *)
(* overlap, fail and are cut short as often as they like.                  *)
(***************************************************************************)
EXTENDS SyncVault, PlannerProofs, SequenceTheorems

------------------------------------------------------------------------------
(* The inductive invariant *)

IsList(s) == s \in Seq({s[n] : n \in DOMAIN s})

IsEntry(e) ==
  /\ e = [path |-> e.path, data |-> e.data, file |-> e.file,
          parent |-> e.parent]
  /\ IsPath(e.path)

IsEntries(entries) ==
  /\ entries = [i \in DOMAIN entries |-> entries[i]]
  /\ IsFiniteSet(DOMAIN entries)
  /\ \A i \in DOMAIN entries : IsEntry(entries[i])

IsManifest(m) ==
  /\ m = [rev |-> m.rev, entries |-> m.entries, tombs |-> m.tombs]
  /\ m.rev \in Nat
  /\ IsEntries(m.entries)

IsDrive(objects) ==
  /\ IsList(objects)
  /\ \A n \in DOMAIN objects :
       objects[n] = [data |-> objects[n].data, parent |-> objects[n].parent]

\* The manifest m is one of those on Drive so far.
Published(m) ==
  /\ m.rev <= manifest.rev
  /\ m.rev = manifest.rev => m = manifest

\* Drive has the objects of the entries, with their contents.
Backed(entries) ==
  \A i \in DOMAIN entries :
    /\ entries[i].file \in DOMAIN drive
    /\ drive[entries[i].file].data = entries[i].data

VariablesOK ==
  /\ pc \in [Device -> {"idle", "scanned", "executing", "committed",
                        "retiring"}]
  /\ DOMAIN vault = Device
  /\ DOMAIN queue = Device
  /\ DOMAIN base = Device
  /\ DOMAIN job = Device
  /\ DOMAIN shown = Device
  /\ IsDrive(drive)

\* What is on the disk of d.
LocalOK(d) ==
  /\ IsSnapshot(vault[d])
  /\ IsList(queue[d])
  /\ IsManifest(base[d])
  /\ Valid(base[d])
  /\ Published(base[d])
  /\ \A c \in shown[d] : c.local = Nothing \/ IsPath(c.local.path)

ManifestOK ==
  /\ IsManifest(manifest)
  /\ Valid(manifest)
  /\ Backed(manifest.entries)

\* What d keeps in memory while it carries a plan out.
ExecutionOK(d) ==
  /\ DOMAIN job[d] = {"plan", "todo", "snap", "remote", "working", "staged",
                      "aside", "replaced", "trashed"}
  /\ DOMAIN job[d].todo = DOMAIN NoOperations
  /\ PathsOK(job[d].todo)
  /\ \A s \in job[d].staged : IsPath(s.path)
  /\ job[d].aside = Nothing \/ IsPath(job[d].aside.path)
  /\ IsManifest(job[d].remote)
  /\ Published(job[d].remote)
  /\ IsManifest(job[d].working)
  /\ Backed(job[d].working.entries)
  /\ job[d].working.tombs = job[d].remote.tombs

JobOK(d) ==
  /\ pc[d] = "idle" => job[d] = Nothing
  /\ pc[d] = "scanned" => /\ job[d] = [snap |-> job[d].snap]
                          /\ IsSnapshot(job[d].snap)
  /\ pc[d] \in {"executing", "committed", "retiring"} => ExecutionOK(d)
  /\ pc[d] = "committed" => /\ Valid(NextManifest(d))
                            /\ Published(NextManifest(d))

IInv ==
  /\ VariablesOK
  /\ ManifestOK
  /\ \A d \in Device : LocalOK(d) /\ JobOK(d)
------------------------------------------------------------------------------
(* Paths *)

LEMMA PathIsSequence ==
  ASSUME NEW p, IsPath(p)
  PROVE  /\ Len(p) \in Nat \ {0}
         /\ DOMAIN p = 1..Len(p)
         /\ p = [n \in 1..Len(p) |-> p[n]]
         /\ \A S : (\A n \in 1..Len(p) : p[n] \in S) => p \in Seq(S)
BY DEF IsPath

\* A sequence of names, one at least, is a path.
LEMMA SequenceIsPath ==
  ASSUME NEW n \in Nat, n > 0, NEW p, DOMAIN p = 1..n,
         p = [i \in 1..n |-> p[i]]
  PROVE  IsPath(p) /\ Len(p) = n
<1> DEFINE S == {p[i] : i \in DOMAIN p}
<1>1. p \in [1..n -> S]
  OBVIOUS
<1> HIDE DEF S
<1>2. p \in Seq(S) /\ Len(p) = n
  BY <1>1
<1>3. p # <<>>
  BY <1>2
<1> QED BY <1>2, <1>3 DEF IsPath, S

\* The beginning of a path.
LEMMA Beginning ==
  ASSUME NEW p, IsPath(p), NEW n \in 1..Len(p)
  PROVE  LET q == SubSeq(p, 1, n) IN
           /\ IsPath(q)
           /\ Len(q) = n
           /\ \A i \in 1..n : q[i] = p[i]
<1> DEFINE S == {p[i] : i \in DOMAIN p}
           q == SubSeq(p, 1, n)
<1>1. p \in Seq(S) /\ Len(p) \in Nat
  BY DEF IsPath
<1> HIDE DEF S
<1>2. q = [i \in 1..n |-> p[i]]
  BY <1>1
<1> HIDE DEF q
<1>3. IsPath(q) /\ Len(q) = n
  BY <1>1, <1>2, SequenceIsPath
<1>4. \A i \in 1..n : q[i] = p[i]
  BY <1>2
<1> QED BY <1>3, <1>4 DEF q

LEMMA SamePath ==
  ASSUME NEW p, NEW q, IsPath(p), IsPath(q), Len(p) = Len(q),
         \A i \in 1..Len(p) : p[i] = q[i]
  PROVE  p = q
BY PathIsSequence

\* p is a prefix of q when it agrees with it as far as it goes.
LEMMA WithinMeans ==
  ASSUME NEW p, NEW q, IsPath(p), IsPath(q)
  PROVE  Within(p, q) <=> /\ Len(p) <= Len(q)
                          /\ \A i \in 1..Len(p) : p[i] = q[i]
<1>1. CASE Len(p) > Len(q)
  BY <1>1, PathIsSequence DEF Within, IsPrefix
<1>2. CASE Len(p) <= Len(q)
  <2> DEFINE n == Len(p)
             pn == SubSeq(p, 1, n)
             qn == SubSeq(q, 1, n)
  <2>1. n \in 1..Len(p) /\ n \in 1..Len(q)
    BY <1>2, PathIsSequence
  <2>2. IsPath(pn) /\ Len(pn) = n /\ \A i \in 1..n : pn[i] = p[i]
    BY <2>1, Beginning
  <2>3. IsPath(qn) /\ Len(qn) = n /\ \A i \in 1..n : qn[i] = q[i]
    BY <2>1, Beginning
  <2>4. Within(p, q) <=> pn = qn
    BY <1>2 DEF Within, IsPrefix
  <2> HIDE DEF pn, qn
  <2>5. pn = qn <=> \A i \in 1..n : p[i] = q[i]
    BY <2>2, <2>3, SamePath
  <2> QED BY <1>2, <2>4, <2>5
<1> QED BY <1>1, <1>2, PathIsSequence

\* Being within is a partial order ...
LEMMA WithinOrder ==
  /\ \A p : IsPath(p) => Within(p, p)
  /\ \A p, q, r : IsPath(p) /\ IsPath(q) /\ IsPath(r)
                    /\ Within(p, q) /\ Within(q, r) => Within(p, r)
  /\ \A p, q : IsPath(p) /\ IsPath(q) /\ Within(p, q) /\ Within(q, p) => p = q
<1>1. ASSUME NEW p, IsPath(p) PROVE Within(p, p)
  BY <1>1, WithinMeans, PathIsSequence
<1>2. ASSUME NEW p, NEW q, NEW r, IsPath(p), IsPath(q), IsPath(r),
             Within(p, q), Within(q, r)
      PROVE  Within(p, r)
  <2>1. /\ Len(p) <= Len(q) /\ Len(q) <= Len(r)
        /\ \A i \in 1..Len(p) : p[i] = q[i]
        /\ \A i \in 1..Len(q) : q[i] = r[i]
    BY <1>2, WithinMeans
  <2>2. Len(p) \in Nat /\ Len(q) \in Nat /\ Len(r) \in Nat
    BY <1>2, PathIsSequence
  <2>3. Len(p) <= Len(r) /\ \A i \in 1..Len(p) : p[i] = r[i]
    BY <2>1, <2>2
  <2> QED BY <1>2, <2>3, WithinMeans
<1>3. ASSUME NEW p, NEW q, IsPath(p), IsPath(q), Within(p, q), Within(q, p)
      PROVE  p = q
  BY <1>3, WithinMeans, PathIsSequence, SamePath
<1> QED BY <1>1, <1>2, <1>3

\* ... and the paths that p is within are in a line.
LEMMA WithinLine ==
  ASSUME NEW p, NEW q, NEW r, IsPath(p), IsPath(q), IsPath(r),
         Within(p, r), Within(q, r)
  PROVE  Within(p, q) \/ Within(q, p)
<1>1. /\ Len(p) \in Nat /\ Len(q) \in Nat
      /\ \A i \in 1..Len(p) : p[i] = r[i]
      /\ \A i \in 1..Len(q) : q[i] = r[i]
  BY WithinMeans, PathIsSequence
<1>2. CASE Len(p) <= Len(q)
  <2>1. \A i \in 1..Len(p) : p[i] = q[i]
    BY <1>1, <1>2
  <2> QED BY <1>2, <2>1, WithinMeans
<1>3. CASE Len(q) <= Len(p)
  <2>1. \A i \in 1..Len(q) : q[i] = p[i]
    BY <1>1, <1>3
  <2> QED BY <1>3, <2>1, WithinMeans
<1> QED BY <1>1, <1>2, <1>3

\* The folders of a path are the other paths it is within.
LEMMA FoldersOfPath ==
  ASSUME NEW p, IsPath(p)
  PROVE  \A q : q \in FoldersOf(p) <=> IsPath(q) /\ Within(q, p) /\ q # p
<1>0. Len(p) \in Nat \ {0}
  BY PathIsSequence
<1>1. ASSUME NEW q, q \in FoldersOf(p)
      PROVE  IsPath(q) /\ Within(q, p) /\ q # p
  <2>1. PICK n \in 1..(Len(p) - 1) : q = SubSeq(p, 1, n)
    BY <1>1 DEF FoldersOf
  <2>2. n \in 1..Len(p) /\ n < Len(p) /\ n \in Nat
    BY <1>0
  <2>3. IsPath(q) /\ Len(q) = n /\ \A i \in 1..n : q[i] = p[i]
    BY <2>1, <2>2, Beginning
  <2> QED BY <1>0, <2>2, <2>3, WithinMeans
<1>2. ASSUME NEW q, IsPath(q), Within(q, p), q # p
      PROVE  q \in FoldersOf(p)
  <2>1. Len(q) <= Len(p) /\ \A i \in 1..Len(q) : q[i] = p[i]
    BY <1>2, WithinMeans
  <2>2. Len(q) \in Nat \ {0}
    BY <1>2, PathIsSequence
  <2>3. Len(q) # Len(p)
    BY <1>2, <2>1, SamePath
  <2>4. Len(q) \in 1..(Len(p) - 1) /\ Len(q) \in 1..Len(p)
    BY <1>0, <2>1, <2>2, <2>3
  <2> DEFINE f == SubSeq(p, 1, Len(q))
  <2>5. IsPath(f) /\ Len(f) = Len(q) /\ \A i \in 1..Len(q) : f[i] = p[i]
    BY <2>4, Beginning
  <2> HIDE DEF f
  <2>6. q = f
    BY <1>2, <2>1, <2>5, SamePath
  <2>7. SubSeq(p, 1, Len(q)) \in FoldersOf(p)
    <3> DEFINE n == Len(q)
    <3>1. n \in 1..(Len(p) - 1)
      BY <2>4
    <3> HIDE DEF n
    <3>2. SubSeq(p, 1, n) \in FoldersOf(p)
      BY <3>1 DEF FoldersOf
    <3> QED BY <3>2 DEF n
  <2> QED BY <2>6, <2>7 DEF f
<1> QED BY <1>1, <1>2

\* There are finitely many.
LEMMA ImageFinite ==
  ASSUME NEW S, IsFiniteSet(S), NEW f, DOMAIN f = S
  PROVE  IsFiniteSet({f[x] : x \in S})
<1> DEFINE T == {f[x] : x \in S}
           g == [x \in S |-> f[x]]
<1>1. g \in Surjection(S, T)
  BY DEF Surjection
<1> HIDE DEF T, g
<1> QED BY <1>1, FS_Surjection DEF T

LEMMA FoldersFinite ==
  ASSUME NEW p, IsPath(p)
  PROVE  IsFiniteSet(FoldersOf(p))
<1> DEFINE f == [n \in 1..(Len(p) - 1) |-> SubSeq(p, 1, n)]
<1>1. IsFiniteSet(1..(Len(p) - 1))
  <2>1. Len(p) - 1 \in Int /\ 1 \in Int
    BY PathIsSequence
  <2> HIDE DEF f
  <2> QED BY <2>1, FS_Interval
<1>2. FoldersOf(p) = {f[n] : n \in 1..(Len(p) - 1)}
  BY DEF FoldersOf
<1>3. DOMAIN f = 1..(Len(p) - 1)
  OBVIOUS
<1> HIDE DEF f
<1> QED BY <1>1, <1>2, <1>3, ImageFinite

\* What rebasing does, element by element.
LEMMA RebaseMeans ==
  ASSUME NEW q, NEW from, NEW to, IsPath(q), IsPath(from), IsPath(to),
         Within(from, q)
  PROVE  LET r == Rebase(q, from, to) IN
           /\ IsPath(r)
           /\ Len(r) = Len(to) + Len(q) - Len(from)
           /\ \A i \in 1..Len(to) : r[i] = to[i]
           /\ \A i \in (Len(to) + 1)..Len(r) : r[i] = q[i - Len(to) + Len(from)]
<1> DEFINE r == Rebase(q, from, to)
           rest == SubSeq(q, Len(from) + 1, Len(q))
           S == {q[i] : i \in DOMAIN q} \cup {to[i] : i \in DOMAIN to}
<1>1. /\ Len(q) \in Nat /\ Len(from) \in Nat \ {0} /\ Len(to) \in Nat \ {0}
      /\ Len(from) <= Len(q)
  BY PathIsSequence, WithinMeans
<1>2. q \in Seq(S) /\ to \in Seq(S)
  BY PathIsSequence
<1> HIDE DEF S
<1>3. /\ rest \in Seq(S)
      /\ Len(rest) = Len(q) - Len(from)
      /\ \A i \in 1..Len(rest) : rest[i] = q[i + Len(from)]
  BY <1>1, <1>2
<1>4. r = to \o rest
  BY DEF Rebase
<1> HIDE DEF rest, r
<1>5. /\ r \in Seq(S)
      /\ Len(r) = Len(to) + Len(rest)
      /\ \A i \in 1..Len(to) : r[i] = to[i]
      /\ \A i \in (Len(to) + 1)..Len(r) : r[i] = rest[i - Len(to)]
  <2>1. /\ r \in Seq(S)
        /\ Len(r) = Len(to) + Len(rest)
        /\ \A i \in 1..(Len(to) + Len(rest)) :
             r[i] = IF i <= Len(to) THEN to[i] ELSE rest[i - Len(to)]
    <3>1. /\ to \o rest \in Seq(S)
          /\ Len(to \o rest) = Len(to) + Len(rest)
          /\ \A i \in 1 .. Len(to) + Len(rest) :
               (to \o rest)[i] = IF i <= Len(to) THEN to[i]
                                 ELSE rest[i - Len(to)]
      <4>1. to \in Seq(S) /\ rest \in Seq(S)
        BY <1>2, <1>3
      <4> QED BY <4>1, ConcatProperties, Zenon
    <3> QED BY <1>4, <3>1, Zenon
  <2>2. Len(rest) \in Nat
    BY <1>1, <1>3
  <2>3. ASSUME NEW i \in 1..Len(to) PROVE r[i] = to[i]
    BY <1>1, <2>1, <2>2
  <2>4. ASSUME NEW i \in (Len(to) + 1)..Len(r) PROVE r[i] = rest[i - Len(to)]
    BY <1>1, <2>1, <2>2
  <2> QED BY <2>1, <2>3, <2>4
<1>6. IsPath(r)
  <2>1. /\ Len(r) \in Nat /\ Len(r) > 0 /\ DOMAIN r = 1..Len(r)
        /\ r = [i \in 1..Len(r) |-> r[i]]
    BY <1>1, <1>3, <1>5
  <2> QED BY <2>1, SequenceIsPath
<1>7. \A i \in (Len(to) + 1)..Len(r) : r[i] = q[i - Len(to) + Len(from)]
  <2> TAKE i \in (Len(to) + 1)..Len(r)
  <2>1. i - Len(to) \in 1..Len(rest)
    BY <1>1, <1>3, <1>5
  <2> QED BY <1>3, <1>5, <2>1
<1> QED BY <1>1, <1>3, <1>5, <1>6, <1>7 DEF r

\* A rebased path is below its new place, and can be taken back.
LEMMA RebaseBack ==
  ASSUME NEW q, NEW from, NEW to, IsPath(q), IsPath(from), IsPath(to),
         Within(from, q)
  PROVE  LET r == Rebase(q, from, to) IN
           /\ IsPath(r)
           /\ Within(to, r)
           /\ Rebase(r, to, from) = q
<1> DEFINE r == Rebase(q, from, to)
           b == Rebase(r, to, from)
<1>1. /\ IsPath(r)
      /\ Len(r) = Len(to) + Len(q) - Len(from)
      /\ \A i \in 1..Len(to) : r[i] = to[i]
      /\ \A i \in (Len(to) + 1)..Len(r) : r[i] = q[i - Len(to) + Len(from)]
  BY RebaseMeans
<1>2. /\ Len(q) \in Nat /\ Len(from) \in Nat \ {0} /\ Len(to) \in Nat \ {0}
      /\ Len(from) <= Len(q) /\ \A i \in 1..Len(from) : from[i] = q[i]
  BY PathIsSequence, WithinMeans
<1> HIDE DEF r
<1>3. Within(to, r)
  BY <1>1, <1>2, WithinMeans
<1>4. /\ IsPath(b)
      /\ Len(b) = Len(from) + Len(r) - Len(to)
      /\ \A i \in 1..Len(from) : b[i] = from[i]
      /\ \A i \in (Len(from) + 1)..Len(b) : b[i] = r[i - Len(from) + Len(to)]
  BY <1>1, <1>3, RebaseMeans
<1> HIDE DEF b
<1>5. Len(b) = Len(q)
  BY <1>1, <1>2, <1>4
<1>6. ASSUME NEW i \in 1..Len(b) PROVE b[i] = q[i]
  <2>1. CASE i <= Len(from)
    BY <1>2, <1>4, <1>5, <2>1
  <2>2. CASE i > Len(from)
    <3> DEFINE j == i - Len(from) + Len(to)
    <3>1. j \in (Len(to) + 1)..Len(r) /\ i \in (Len(from) + 1)..Len(b)
      BY <1>1, <1>2, <1>5, <2>2
    <3>2. j - Len(to) + Len(from) = i
      BY <1>2
    <3>3. b[i] = r[j]
      BY <1>4, <3>1
    <3> HIDE DEF j
    <3> QED BY <1>1, <3>1, <3>2, <3>3
  <2> QED BY <1>2, <1>5, <2>1, <2>2
<1>7. b = q
  BY <1>4, <1>5, <1>6, SamePath
<1> QED BY <1>1, <1>3, <1>7 DEF r, b

\* Rebasing keeps the order.
LEMMA RebaseMonotonic ==
  ASSUME NEW p, NEW q, NEW from, NEW to, IsPath(p), IsPath(q), IsPath(from),
         IsPath(to), Within(from, p), Within(p, q)
  PROVE  Within(Rebase(p, from, to), Rebase(q, from, to))
<1> DEFINE x == Rebase(p, from, to)
           y == Rebase(q, from, to)
<1>0. Within(from, q)
  BY WithinOrder
<1>1. /\ IsPath(x)
      /\ Len(x) = Len(to) + Len(p) - Len(from)
      /\ \A i \in 1..Len(to) : x[i] = to[i]
      /\ \A i \in (Len(to) + 1)..Len(x) : x[i] = p[i - Len(to) + Len(from)]
  BY RebaseMeans
<1>2. /\ IsPath(y)
      /\ Len(y) = Len(to) + Len(q) - Len(from)
      /\ \A i \in 1..Len(to) : y[i] = to[i]
      /\ \A i \in (Len(to) + 1)..Len(y) : y[i] = q[i - Len(to) + Len(from)]
  BY <1>0, RebaseMeans
<1>3. /\ Len(p) \in Nat /\ Len(q) \in Nat
      /\ Len(from) \in Nat \ {0} /\ Len(to) \in Nat \ {0}
      /\ Len(from) <= Len(p) /\ Len(p) <= Len(q)
      /\ \A i \in 1..Len(p) : p[i] = q[i]
  BY PathIsSequence, WithinMeans
<1> HIDE DEF x, y
<1>4. ASSUME NEW i \in 1..Len(x) PROVE x[i] = y[i]
  <2>1. CASE i <= Len(to)
    BY <1>1, <1>2, <1>3, <2>1
  <2>2. CASE i > Len(to)
    <3> DEFINE j == i - Len(to) + Len(from)
    <3>1. /\ i \in (Len(to) + 1)..Len(x) /\ i \in (Len(to) + 1)..Len(y)
          /\ j \in 1..Len(p)
      BY <1>1, <1>2, <1>3, <2>2
    <3>2. x[i] = p[j] /\ y[i] = q[j]
      BY <1>1, <1>2, <3>1
    <3> HIDE DEF j
    <3> QED BY <1>3, <3>1, <3>2
  <2> QED BY <1>1, <1>3, <2>1, <2>2
<1>5. Len(x) <= Len(y)
  BY <1>1, <1>2, <1>3
<1>6. Within(x, y)
  BY <1>1, <1>2, <1>4, <1>5, WithinMeans
<1> QED BY <1>6 DEF x, y

LEMMA RebaseRoot ==
  ASSUME NEW from, NEW to, IsPath(from), IsPath(to)
  PROVE  Rebase(from, from, to) = to
<1> DEFINE r == Rebase(from, from, to)
<1>1. /\ IsPath(r)
      /\ Len(r) = Len(to) + Len(from) - Len(from)
      /\ \A i \in 1..Len(to) : r[i] = to[i]
  BY WithinOrder, RebaseMeans
<1>2. Len(r) = Len(to)
  BY <1>1, PathIsSequence
<1> HIDE DEF r
<1>3. r = to
  BY <1>1, <1>2, SamePath
<1> QED BY <1>3 DEF r

------------------------------------------------------------------------------
(* Vaults *)

LEMMA SnapshotPaths ==
  ASSUME NEW v, IsSnapshot(v), NEW p \in DOMAIN v
  PROVE  /\ IsPath(p)
         /\ \A q \in FoldersOf(p) : q \in DOMAIN v /\ v[q] = Folder
BY DEF IsSnapshot, IsTree

\* Whatever is below something is below a folder.
LEMMA BelowFolder ==
  ASSUME NEW v, IsSnapshot(v), NEW p, IsPath(p), NEW q \in DOMAIN v,
         Within(p, q)
  PROVE  p \in DOMAIN v /\ (p = q \/ v[p] = Folder)
BY SnapshotPaths, FoldersOfPath

\* The folders above a path can be made, if no file is in the way.
LEMMA EnsureParentOK ==
  ASSUME NEW v, IsSnapshot(v), NEW p, IsPath(p), ~FileInWay(v, p)
  PROVE  LET w == EnsureParent(v, p) IN
           /\ IsSnapshot(w)
           /\ DOMAIN w = DOMAIN v \cup FoldersOf(p)
           /\ \A q \in DOMAIN v : w[q] = v[q]
           /\ \A q \in FoldersOf(p) : w[q] = Folder
<1> DEFINE w == EnsureParent(v, p)
           F == FoldersOf(p)
<1>1. /\ w = [q \in DOMAIN w |-> w[q]]
      /\ DOMAIN w = DOMAIN v \cup F
      /\ \A q \in DOMAIN v : w[q] = v[q]
      /\ \A q \in F \ DOMAIN v : w[q] = Folder
  <2> HIDE DEF F
  <2> QED BY DEF EnsureParent, EnsureFolders, ++, F
<1> HIDE DEF w
<1>2. \A q \in F : w[q] = Folder
  BY <1>1 DEF FileInWay
<1>3. IsFiniteSet(DOMAIN w)
  <2>1. IsFiniteSet(F) /\ IsFiniteSet(DOMAIN v)
    BY FoldersFinite DEF IsSnapshot
  <2> QED BY <1>1, <2>1, FS_Union
<1>4. ASSUME NEW q \in DOMAIN w
      PROVE  /\ IsPath(q)
             /\ \A f \in FoldersOf(q) : f \in DOMAIN w /\ w[f] = Folder
  <2>1. CASE q \in DOMAIN v
    BY <1>1, <2>1, SnapshotPaths
  <2>2. CASE q \in F
    <3>1. IsPath(q) /\ Within(q, p)
      BY <2>2, FoldersOfPath
    <3>2. ASSUME NEW f \in FoldersOf(q) PROVE f \in F
      <4>1. IsPath(f) /\ Within(f, q) /\ f # q
        BY <3>1, FoldersOfPath
      <4>2. Within(f, p)
        BY <3>1, <4>1, WithinOrder
      <4>3. f # p
        BY <3>1, <4>1, WithinOrder
      <4> QED BY <4>1, <4>2, <4>3, FoldersOfPath
    <3> QED BY <1>1, <1>2, <3>1, <3>2
  <2> QED BY <1>1, <2>1, <2>2
<1>5. IsSnapshot(w)
  BY <1>1, <1>3, <1>4 DEF IsSnapshot, IsTree
<1> QED BY <1>1, <1>2, <1>5 DEF w

\* A file, or a folder where nothing is, can be put into a folder.
LEMMA PutOK ==
  ASSUME NEW v, IsSnapshot(v), NEW p, IsPath(p), NEW x,
         \A q \in FoldersOf(p) : q \in DOMAIN v /\ v[q] = Folder,
         p \in DOMAIN v => v[p] # Folder
  PROVE  IsSnapshot([q \in {p} |-> x] ++ v)
<1> DEFINE w == [q \in {p} |-> x] ++ v
<1>1. /\ w = [q \in DOMAIN w |-> w[q]]
      /\ DOMAIN w = DOMAIN v \cup {p}
      /\ \A q \in DOMAIN v : q # p => w[q] = v[q]
  BY DEF ++
<1> HIDE DEF w
<1>2. IsFiniteSet(DOMAIN w)
  BY <1>1, FS_AddElement DEF IsSnapshot
<1>3. ASSUME NEW q \in DOMAIN w
      PROVE  /\ IsPath(q)
             /\ \A f \in FoldersOf(q) : f \in DOMAIN w /\ w[f] = Folder
  <2>1. CASE q = p
    <3>1. p \notin FoldersOf(p)
      BY FoldersOfPath
    <3> QED BY <1>1, <2>1, <3>1
  <2>2. CASE q \in DOMAIN v
    BY <1>1, <2>2, SnapshotPaths
  <2> QED BY <1>1, <2>1, <2>2
<1>4. IsSnapshot(w)
  BY <1>1, <1>2, <1>3 DEF IsSnapshot, IsTree
<1> QED BY <1>4 DEF w

\* So can a folder that may be there.
LEMMA EnsureFolderOK ==
  ASSUME NEW v, IsSnapshot(v), NEW p, IsPath(p),
         \A q \in FoldersOf(p) : q \in DOMAIN v /\ v[q] = Folder
  PROVE  IsSnapshot(EnsureFolders(v, {p}))
<1> DEFINE w == EnsureFolders(v, {p})
<1>1. /\ w = [q \in DOMAIN w |-> w[q]]
      /\ DOMAIN w = DOMAIN v \cup {p}
      /\ \A q \in DOMAIN v : w[q] = v[q]
  BY DEF EnsureFolders, ++
<1> HIDE DEF w
<1>2. IsFiniteSet(DOMAIN w)
  BY <1>1, FS_AddElement DEF IsSnapshot
<1>3. ASSUME NEW q \in DOMAIN w
      PROVE  /\ IsPath(q)
             /\ \A f \in FoldersOf(q) : f \in DOMAIN w /\ w[f] = Folder
  BY <1>1, SnapshotPaths
<1>4. IsSnapshot(w)
  BY <1>1, <1>2, <1>3 DEF IsSnapshot, IsTree
<1> QED BY <1>4 DEF w

\* A folder is taken away with what is in it.
LEMMA RemoveTreeOK ==
  ASSUME NEW v, IsSnapshot(v), NEW p, IsPath(p)
  PROVE  IsSnapshot(Restrict(v, DOMAIN v \ Tree(v, p)))
<1> DEFINE w == Restrict(v, DOMAIN v \ Tree(v, p))
<1>1. /\ w = [q \in DOMAIN w |-> w[q]]
      /\ DOMAIN w = {q \in DOMAIN v : ~Within(p, q)}
      /\ \A q \in DOMAIN w : w[q] = v[q]
  BY DEF Restrict, Tree
<1> HIDE DEF w
<1>2. IsFiniteSet(DOMAIN w)
  BY <1>1, FS_Subset DEF IsSnapshot
<1>3. ASSUME NEW q \in DOMAIN w
      PROVE  /\ IsPath(q)
             /\ \A f \in FoldersOf(q) : f \in DOMAIN w /\ w[f] = Folder
  <2>1. q \in DOMAIN v /\ IsPath(q) /\ ~Within(p, q)
    BY <1>1, SnapshotPaths
  <2>2. ASSUME NEW f \in FoldersOf(q) PROVE f \in DOMAIN w /\ w[f] = Folder
    <3>1. f \in DOMAIN v /\ v[f] = Folder /\ IsPath(f) /\ Within(f, q)
      BY <2>1, SnapshotPaths, FoldersOfPath
    <3>2. ~Within(p, f)
      BY <2>1, <3>1, WithinOrder
    <3> QED BY <1>1, <3>1, <3>2
  <2> QED BY <2>1, <2>2
<1>4. IsSnapshot(w)
  BY <1>1, <1>2, <1>3 DEF IsSnapshot, IsTree
<1> QED BY <1>4 DEF w

\* A move takes what is in a folder along, to a place where nothing is.
LEMMA MoveTreeOK ==
  ASSUME NEW v, IsSnapshot(v), NEW from \in DOMAIN v,
         NEW to, IsPath(to), to \notin DOMAIN v, ~Within(from, to),
         \A q \in FoldersOf(to) : q \in DOMAIN v /\ v[q] = Folder
  PROVE  IsSnapshot(MoveTree(v, from, to))
<1> DEFINE tree == Tree(v, from)
           rest == RemoveTree(v, from)
           New(q) == Rebase(q, from, to)
           Old(q) == Rebase(q, to, from)
           moved == {New(q) : q \in tree}
           w == MoveTree(v, from, to)
<1>0. IsPath(from) /\ \A q \in DOMAIN v : IsPath(q)
  BY SnapshotPaths
<1>1. /\ rest = [q \in DOMAIN rest |-> rest[q]]
      /\ DOMAIN rest = {q \in DOMAIN v : ~Within(from, q)}
      /\ \A q \in DOMAIN rest : rest[q] = v[q]
  BY DEF RemoveTree, Restrict, Tree
<1>2. IsSnapshot(rest)
  BY <1>0, RemoveTreeOK DEF RemoveTree
<1>3. w = rest ++ [q \in moved |-> v[Old(q)]]
  BY DEF MoveTree
<1>4. ASSUME NEW q \in tree
      PROVE  /\ q \in DOMAIN v /\ IsPath(q) /\ Within(from, q)
             /\ IsPath(New(q)) /\ Within(to, New(q)) /\ Old(New(q)) = q
  <2>1. q \in DOMAIN v /\ IsPath(q) /\ Within(from, q)
    BY <1>0 DEF Tree
  <2> QED BY <1>0, <2>1, RebaseBack
<1>5. \A q \in DOMAIN v : ~Within(to, q)
  BY <1>0, BelowFolder
<1> HIDE DEF rest, w
<1>6. /\ w = [q \in DOMAIN w |-> w[q]]
      /\ DOMAIN w = DOMAIN rest \cup moved
      /\ \A q \in DOMAIN rest : w[q] = rest[q]
      /\ \A q \in moved : w[q] = v[Old(q)]
  <2>1. \A q \in moved : q \notin DOMAIN rest
    BY <1>1, <1>4, <1>5
  <2> HIDE DEF moved, Old
  <2> QED BY <1>3, <2>1 DEF ++
<1>7. IsFiniteSet(DOMAIN w)
  <2> DEFINE f == [q \in tree |-> New(q)]
  <2>1. IsFiniteSet(tree)
    <3>1. IsFiniteSet(DOMAIN v) /\ tree \in SUBSET DOMAIN v
      BY DEF IsSnapshot, Tree
    <3> QED BY <3>1, FS_Subset
  <2>2. moved = {f[q] : q \in tree}
    OBVIOUS
  <2>3. DOMAIN f = tree
    OBVIOUS
  <2> HIDE DEF f, tree, moved
  <2>4. IsFiniteSet(moved)
    BY <2>1, <2>2, <2>3, ImageFinite
  <2>5. IsFiniteSet(DOMAIN rest)
    BY <1>2 DEF IsSnapshot
  <2>6. IsFiniteSet(DOMAIN rest \cup moved)
    BY <2>4, <2>5, FS_Union
  <2> QED BY <1>6, <2>6, Zenon
<1>8. ASSUME NEW q \in DOMAIN w
      PROVE  /\ IsPath(q)
             /\ \A f \in FoldersOf(q) : f \in DOMAIN w /\ w[f] = Folder
  <2>1. CASE q \in DOMAIN rest
    BY <1>2, <1>6, <2>1, SnapshotPaths
  <2>2. CASE q \in moved
    <3>1. PICK x \in tree : q = New(x)
      BY <2>2
    <3>2. /\ x \in DOMAIN v /\ IsPath(x) /\ Within(from, x)
          /\ IsPath(q) /\ Within(to, q) /\ Old(q) = x
      BY <1>4, <3>1
    <3> HIDE DEF New, Old, moved, tree
    <3>3. ASSUME NEW f \in FoldersOf(q)
          PROVE  f \in DOMAIN w /\ w[f] = Folder
      <4>1. IsPath(f) /\ Within(f, q) /\ f # q
        BY <3>2, FoldersOfPath
      <4>2. CASE ~Within(to, f)
        <5>1. Within(f, to) /\ f # to
          BY <3>2, <4>1, <4>2, WithinLine, WithinOrder
        <5>2. f \in DOMAIN v /\ v[f] = Folder
          BY <4>1, <5>1, FoldersOfPath
        <5>3. ~Within(from, f)
          BY <1>0, <4>1, <5>1, WithinOrder
        <5> QED BY <1>1, <1>6, <5>2, <5>3
      <4>3. CASE Within(to, f)
        <5> DEFINE y == Old(f)
        <5>1. IsPath(y) /\ Within(from, y) /\ New(y) = f
          BY <1>0, <4>1, <4>3, RebaseBack DEF Old, New
        <5>2. Within(y, x)
          <6>1. Within(Old(f), Old(q))
            BY <1>0, <3>2, <4>1, <4>3, RebaseMonotonic DEF Old
          <6> QED BY <3>2, <6>1
        <5> HIDE DEF y
        <5>3. y # x
          BY <3>1, <4>1, <5>1
        <5>4. y \in DOMAIN v /\ v[y] = Folder
          BY <3>2, <5>1, <5>2, <5>3, SnapshotPaths, FoldersOfPath
        <5>5. y \in tree
          BY <5>1, <5>4 DEF tree, Tree
        <5>6. f \in moved
          BY <5>1, <5>5 DEF moved
        <5> QED BY <1>6, <5>4, <5>6 DEF y
      <4> QED BY <4>2, <4>3
    <3> QED BY <3>2, <3>3
  <2> QED BY <1>6, <2>1, <2>2
<1>9. IsSnapshot(w)
  BY <1>6, <1>7, <1>8 DEF IsSnapshot, IsTree
<1> QED BY <1>9 DEF w

------------------------------------------------------------------------------
(* Rename events *)

LEMMA ListIsSequence ==
  ASSUME NEW s, IsList(s)
  PROVE  Len(s) \in Nat /\ DOMAIN s = 1..Len(s)
BY DEF IsList

LEMMA SequenceIsList ==
  ASSUME NEW S, NEW s \in Seq(S)
  PROVE  IsList(s)
<1> DEFINE T == {s[n] : n \in DOMAIN s}
<1>1. Len(s) \in Nat /\ s \in [1..Len(s) -> T]
  OBVIOUS
<1> HIDE DEF T
<1>2. s \in Seq(T)
  BY <1>1
<1> QED BY <1>2 DEF IsList, T

\* What is left are events that lead elsewhere.
LEMMA EventsElsewhereIsList ==
  ASSUME NEW events, IsList(events), NEW paths
  PROVE  LET others == EventsElsewhere(events, paths) IN
           /\ IsList(others)
           /\ \A k \in DOMAIN others :
                /\ others[k].new \notin paths
                /\ \E i \in DOMAIN events : others[k] = events[i]
<1> DEFINE n == Len(events)
           S == {e \in {events[i] : i \in DOMAIN events} : e.new \notin paths}
           X == Seq(S)
           C(c, i) == EventElsewhere(c, events[i], paths)
           F == [x \in X \X (1..n) |-> C(x[1], x[2])]
           Step(g) == [t \in SUBSET (1..n) |->
                         IF t = {} THEN <<>> ELSE C(g[t \ {Max(t)}], Max(t))]
           fold == CHOOSE g : g = Step(g)
<1>1. n \in Nat /\ DOMAIN events = 1..n
  BY ListIsSequence
<1>2. EventsElsewhere(events, paths) = fold[1..n]
  <2> HIDE DEF n
  <2> QED BY <1>1 DEF EventsElsewhere, FoldLeft, MapThenFoldSet
<1>3. \A c \in X, i \in 1..n : C(c, i) \in X
  <2>1. \A i \in 1..n : events[i].new \in paths \/ events[i] \in S
    BY <1>1
  <2> HIDE DEF S
  <2> QED BY <2>1 DEF EventElsewhere
<1>4. <<>> \in X
  OBVIOUS
<1> HIDE DEF n, X, C
<1>5. PICK g \in [SUBSET (1..n) -> X] : FoldSteps(n, <<>>, F, g)
  <2>1. F \in [X \X (1..n) -> X]
    BY <1>3
  <2> HIDE DEF F
  <2> QED BY <1>1, <1>4, <2>1, FoldExists
<1>6. g = Step(g)
  <2>1. ASSUME NEW t \in SUBSET (1..n), t # {}
        PROVE  F[<<g[t \ {Max(t)}], Max(t)>>] = C(g[t \ {Max(t)}], Max(t))
    BY <1>1, <1>5, <2>1, MaxOfInterval
  <2> HIDE DEF F
  <2> QED BY <1>5, <2>1 DEF FoldSteps
<1>7. fold = Step(fold)
  BY <1>6
<1> HIDE DEF fold
<1>8. fold[{}] \in X
  BY <1>4, <1>7
<1>9. ASSUME NEW t \in SUBSET (1..n), t # {}, fold[t \ {Max(t)}] \in X
      PROVE  fold[t] \in X
  <2>1. Max(t) \in 1..n
    BY <1>1, <1>9, MaxOfInterval
  <2>2. fold[t] = C(fold[t \ {Max(t)}], Max(t))
    BY <1>7, <1>9
  <2> QED BY <1>3, <1>9, <2>1, <2>2
<1>10. fold[1..n] \in X
  BY <1>1, <1>8, <1>9, FoldStays
<1> DEFINE others == EventsElsewhere(events, paths)
<1>11. others \in Seq(S)
  BY <1>2, <1>10 DEF X
<1> HIDE DEF S, others
<1>12. IsList(others) /\ \A k \in DOMAIN others : others[k] \in S
  BY <1>11, SequenceIsList
<1> QED BY <1>12 DEF S, others

LEMMA ConcatIsList ==
  ASSUME NEW s, NEW t, IsList(s), IsList(t)
  PROVE  IsList(s \o t)
<1> DEFINE S == {s[n] : n \in DOMAIN s} \cup {t[n] : n \in DOMAIN t}
<1>1. s \in Seq(S) /\ t \in Seq(S)
  BY SeqMonotonic DEF IsList
<1> HIDE DEF S
<1>2. s \o t \in Seq(S)
  BY <1>1
<1> QED BY <1>2, SequenceIsList

\* A rename reports one event for everything that moves.
LEMMA EventsOfTree ==
  ASSUME NEW v, IsSnapshot(v), NEW p, NEW q
  PROVE  LET old == SetToSeq(Tree(v, p))
             Event(n) == [old |-> old[n], new |-> Rebase(old[n], p, q)]
         IN IsList([n \in 1..Len(old) |-> Event(n)])
<1> DEFINE old == SetToSeq(Tree(v, p))
           Event(n) == [old |-> old[n], new |-> Rebase(old[n], p, q)]
           S == {Event(n) : n \in 1..Len(old)}
           events == [n \in 1..Len(old) |-> Event(n)]
<1>1. Len(old) \in Nat
  <2>1. IsFiniteSet(DOMAIN v) /\ Tree(v, p) \in SUBSET DOMAIN v
    BY DEF IsSnapshot, Tree
  <2>2. IsFiniteSet(Tree(v, p))
    BY <2>1, FS_Subset
  <2>3. /\ Cardinality(Tree(v, p)) \in Nat
        /\ old \in [1..Cardinality(Tree(v, p)) -> Tree(v, p)]
    BY <2>2, SetInOrder
  <2> HIDE DEF old
  <2> QED BY <2>3
<1>2. events \in [1..Len(old) -> S]
  OBVIOUS
<1> HIDE DEF old, Event, S, events
<1>3. events \in Seq(S)
  BY <1>1, <1>2
<1>4. IsList(events)
  BY <1>3, SequenceIsList
<1> QED BY <1>4 DEF events, old, Event

LEMMA AfterMoveIsList ==
  ASSUME NEW v, IsSnapshot(v), NEW events, IsList(events), NEW p, NEW q
  PROVE  IsList(AfterMove(events, v, p, q))
<1> DEFINE old == SetToSeq(Tree(v, p))
           moves == [n \in 1..Len(old) |->
                       [old |-> old[n], new |-> Rebase(old[n], p, q)]]
           touched == UNION {{e.old, e.new} : e \in ToSet(moves)}
           others == EventsElsewhere(events, touched)
<1>1. IsList(moves)
  BY EventsOfTree
<1>2. IsList(others)
  BY EventsElsewhereIsList
<1>3. AfterMove(events, v, p, q) = others \o moves
  BY Zenon DEF AfterMove
<1> HIDE DEF moves, others
<1> QED BY <1>1, <1>2, <1>3, ConcatIsList

------------------------------------------------------------------------------
(* Plans *)

\* A choice changes what is planned, and takes no path that was not a side of
\* a conflict.
LEMMA ResolutionsPathsOK ==
  ASSUME NEW plan, PathsOK(plan), NEW choice
  PROVE  PathsOK(ApplyConflictResolutions(plan, choice))
<1> DEFINE Settled == {c \in plan.conflicts : Decided(c, choice)}
           added == MergePlans({Deciding(c, choice[c.id]) : c \in Settled})
           result == ApplyConflictResolutions(plan, choice)
<1>1. \A c \in Settled : /\ c \in plan.conflicts
                         /\ IsPath(c.local.path) /\ IsPath(c.remote.path)
  BY DEF Decided, PathsOK
<1>2. /\ \A o \in added.uploads \cup added.downloads : IsPath(o.path)
      /\ \A m \in added.localMoves : IsPath(m.to)
      /\ added.remoteMoves = {} /\ added.conflicts = {}
  <2>1. \A k \in DOMAIN NoOperations :
          added[k] = UNION {Deciding(c, choice[c.id])[k] : c \in Settled}
    <3> HIDE DEF Settled
    <3> QED BY DEF MergePlans
  <2>2. DOMAIN NoOperations =
          {"uploads", "downloads", "remoteMoves", "localMoves", "conflicts",
           "tombstones", "recoveries", "blocked"}
    BY DEF NoOperations
  <2>3. ASSUME NEW c \in Settled
        PROVE  LET p == Deciding(c, choice[c.id]) IN
                 /\ \A o \in p.uploads \cup p.downloads : IsPath(o.path)
                 /\ \A m \in p.localMoves : IsPath(m.to)
                 /\ p.remoteMoves = {} /\ p.conflicts = {}
    <3>1. IsPath(c.local.path) /\ IsPath(c.remote.path)
      BY <1>1
    <3> HIDE DEF Settled
    <3> QED BY <3>1 DEF Deciding, NoOperations, Upload, Download, Move
  <2> DEFINE D(c) == Deciding(c, choice[c.id])
  <2>4. /\ added.uploads = UNION {D(c).uploads : c \in Settled}
        /\ added.downloads = UNION {D(c).downloads : c \in Settled}
        /\ added.localMoves = UNION {D(c).localMoves : c \in Settled}
        /\ added.remoteMoves = UNION {D(c).remoteMoves : c \in Settled}
        /\ added.conflicts = UNION {D(c).conflicts : c \in Settled}
    <3> HIDE DEF Settled, added
    <3> QED BY <2>1, <2>2
  <2>5. \A c \in Settled :
          /\ \A o \in D(c).uploads \cup D(c).downloads : IsPath(o.path)
          /\ \A m \in D(c).localMoves : IsPath(m.to)
          /\ D(c).remoteMoves = {} /\ D(c).conflicts = {}
    BY <2>3
  <2> HIDE DEF Settled, added, D
  <2> QED BY <2>4, <2>5
<1>3. /\ result.uploads \subseteq plan.uploads \cup added.uploads
      /\ result.downloads \subseteq plan.downloads \cup added.downloads
      /\ result.localMoves \subseteq plan.localMoves \cup added.localMoves
      /\ result.remoteMoves \subseteq plan.remoteMoves \cup added.remoteMoves
      /\ result.conflicts \subseteq plan.conflicts \cup added.conflicts
  <2> HIDE DEF added
  <2> QED BY DEF ApplyConflictResolutions, NoOperations, added
<1> HIDE DEF Settled, added, result
<1>4. PathsOK(result)
  BY <1>2, <1>3 DEF PathsOK
<1> QED BY <1>4 DEF result

\* A choice that applies leaves something to do.
LEMMA ResolutionsDoSomething ==
  ASSUME NEW plan, NEW choice, IsNoOp(ApplyConflictResolutions(plan, choice))
  PROVE  IsNoOp(plan)
<1> DEFINE Settled == {c \in plan.conflicts : Decided(c, choice)}
           dropped == MergePlans({Preserving(plan, c) : c \in Settled})
           added == MergePlans({Deciding(c, choice[c.id]) : c \in Settled})
<1>1. \A k \in DOMAIN NoOperations : (plan[k] \ dropped[k]) \cup added[k] = {}
  <2> HIDE DEF Settled
  <2> QED BY DEF ApplyConflictResolutions, IsNoOp, Settled
<1>2. Settled = {}
  <2> SUFFICES ASSUME NEW c \in Settled PROVE FALSE
    OBVIOUS
  <2>1. \E k \in DOMAIN NoOperations : Deciding(c, choice[c.id])[k] # {}
    <3>1. /\ "uploads" \in DOMAIN NoOperations
          /\ "downloads" \in DOMAIN NoOperations
      BY DEF NoOperations
    <3>2. \/ Deciding(c, choice[c.id])["uploads"] # {}
          \/ Deciding(c, choice[c.id])["downloads"] # {}
      BY DEF Deciding, NoOperations
    <3> QED BY <3>1, <3>2
  <2> HIDE DEF Settled
  <2>2. \E k \in DOMAIN NoOperations : added[k] # {}
    BY <2>1 DEF MergePlans
  <2> HIDE DEF added, dropped
  <2> QED BY <1>1, <2>2
<1>3. \A k \in DOMAIN NoOperations : dropped[k] = {}
  <2> HIDE DEF Settled
  <2> QED BY <1>2 DEF MergePlans
<1> HIDE DEF Settled, added, dropped
<1>4. \A k \in DOMAIN NoOperations : plan[k] = {}
  BY <1>1, <1>3
<1> QED BY <1>4 DEF IsNoOp

\* What the invariant says of the plan of a device.
LEMMA PlanOfOK ==
  ASSUME IInv, NEW d \in Device, pc[d] = "scanned"
  PROVE  /\ DOMAIN PlanOf(d) = DOMAIN NoOperations
         /\ PathsOK(PlanOf(d))
         /\ \A c \in PlanOf(d).conflicts :
              c.local = Nothing \/ IsPath(c.local.path)
<1> DEFINE plan == PlanSync(base[d], manifest, job[d].snap, queue[d])
<1>1. IsFiniteSet(DOMAIN base[d].entries) /\ DistinctPaths(base[d].entries)
  <2>1. IsManifest(base[d]) /\ Valid(base[d])
    BY DEF IInv, LocalOK
  <2> QED BY <2>1 DEF IsManifest, IsEntries, Valid, DistinctPaths
<1>2. IsSnapshot(job[d].snap)
  BY DEF IInv, JobOK
<1>3. IsFiniteSet(DOMAIN job[d].snap) /\ \A p \in DOMAIN job[d].snap : IsPath(p)
  BY <1>2 DEF IsSnapshot, IsTree
<1>4. Len(queue[d]) \in Nat /\ DOMAIN queue[d] = 1..Len(queue[d])
  BY ListIsSequence DEF IInv, LocalOK
<1>5. \A i \in DOMAIN manifest.entries : IsPath(manifest.entries[i].path)
  BY DEF IInv, ManifestOK, IsManifest, IsEntries, IsEntry
<1>6. PathsOK(plan)
  BY <1>1, <1>3, <1>4, <1>5, PlannedPathsOK
<1> HIDE DEF plan
<1>7. PathsOK(ApplyConflictResolutions(plan, choices[d]))
  BY <1>6, ResolutionsPathsOK
<1>8. PathsOK(PlanOf(d))
  BY <1>7 DEF PlanOf, plan
<1>9. DOMAIN PlanOf(d) = DOMAIN NoOperations
  BY DEF PlanOf, ApplyConflictResolutions
<1> QED BY <1>8, <1>9 DEF PathsOK
------------------------------------------------------------------------------
(* Manifests *)

LEMMA EntryAdded ==
  ASSUME NEW entries, IsEntries(entries), NEW id, NEW e, IsEntry(e)
  PROVE  IsEntries([i \in {id} |-> e] ++ entries)
<1> DEFINE r == [i \in {id} |-> e] ++ entries
<1>1. /\ r = [i \in DOMAIN r |-> r[i]]
      /\ DOMAIN r = DOMAIN entries \cup {id}
      /\ \A i \in DOMAIN r :
           \/ r[i] = e
           \/ i \in DOMAIN entries /\ r[i] = entries[i]
  BY DEF ++
<1> HIDE DEF r
<1>2. IsFiniteSet(DOMAIN r)
  <2>1. IsFiniteSet(DOMAIN entries)
    BY DEF IsEntries
  <2> QED BY <1>1, <2>1, FS_AddElement
<1>3. \A i \in DOMAIN r : IsEntry(r[i])
  <2>1. \A i \in DOMAIN entries : IsEntry(entries[i])
    BY DEF IsEntries
  <2> QED BY <1>1, <2>1
<1>4. IsEntries(r)
  BY <1>1, <1>2, <1>3 DEF IsEntries
<1> QED BY <1>4 DEF r

\* A move takes the entries below along and changes nothing but paths and
\* parents.
LEMMA MovedEntriesOK ==
  ASSUME NEW entries, IsEntries(entries), NEW id \in DOMAIN entries,
         NEW path, IsPath(path), NEW parent
  PROVE  LET r == MovedEntries(entries, id, path, parent) IN
           /\ IsEntries(r)
           /\ DOMAIN r = DOMAIN entries
           /\ \A i \in DOMAIN r : /\ r[i].file = entries[i].file
                                  /\ r[i].data = entries[i].data
<1> DEFINE r == MovedEntries(entries, id, path, parent)
           old == entries[id].path
           Inside(i) == entries[id].data = Folder /\ Below(old, entries[i].path)
           New(i) == Rebase(entries[i].path, old, path)
           Moved(i) == IF i = id
                       THEN [entries[i] EXCEPT !.path = path, !.parent = parent]
                       ELSE [entries[i] EXCEPT
                               !.path = IF Inside(i) THEN New(i)
                                        ELSE entries[i].path]
<1>1. /\ IsFiniteSet(DOMAIN entries)
      /\ \A i \in DOMAIN entries : IsEntry(entries[i])
  BY DEF IsEntries
<1>2. IsPath(old)
  BY <1>1 DEF IsEntry
<1>3. r = [i \in DOMAIN entries |-> Moved(i)]
  BY Zenon DEF MovedEntries
<1>4. ASSUME NEW i \in DOMAIN entries
      PROVE  \E p, q : /\ IsPath(p)
                       /\ r[i] = [path |-> p, data |-> entries[i].data,
                                  file |-> entries[i].file, parent |-> q]
  <2> DEFINE e == entries[i]
             new == New(i)
  <2>1. /\ e = [path |-> e.path, data |-> e.data, file |-> e.file,
                parent |-> e.parent]
        /\ IsPath(e.path)
    BY <1>1 DEF IsEntry
  <2>2. Below(old, e.path) => IsPath(new)
    <3>1. Below(old, e.path) => Within(old, e.path)
      BY DEF Below, Within, IsStrictPrefix
    <3> QED BY <1>2, <2>1, <3>1, RebaseBack
  <2> HIDE DEF new
  <2>3. \/ r[i] = [e EXCEPT !.path = path, !.parent = parent]
        \/ r[i] = [e EXCEPT !.path = e.path]
        \/ Below(old, e.path) /\ r[i] = [e EXCEPT !.path = new]
    <3>1. r[i] = Moved(i)
      BY <1>3, Zenon
    <3> HIDE DEF r
    <3> QED BY <3>1, Zenon DEF new
  <2> HIDE DEF e, r
  <2>4. CASE r[i] = [e EXCEPT !.path = path, !.parent = parent]
    BY <2>1, <2>4 DEF e
  <2>5. CASE r[i] = [e EXCEPT !.path = e.path]
    BY <2>1, <2>5 DEF e
  <2>6. CASE Below(old, e.path) /\ r[i] = [e EXCEPT !.path = new]
    BY <2>1, <2>2, <2>6 DEF e
  <2> QED BY <2>3, <2>4, <2>5, <2>6
<1>5. r = [i \in DOMAIN r |-> r[i]] /\ DOMAIN r = DOMAIN entries
  <2> HIDE DEF Moved, r
  <2> QED BY <1>3
<1> HIDE DEF r
<1>6. \A i \in DOMAIN r : /\ IsEntry(r[i])
                          /\ r[i].file = entries[i].file
                          /\ r[i].data = entries[i].data
  <2> TAKE i \in DOMAIN r
  <2>1. PICK p, q : /\ IsPath(p)
                    /\ r[i] = [path |-> p, data |-> entries[i].data,
                               file |-> entries[i].file, parent |-> q]
    BY <1>4, <1>5
  <2> QED BY <2>1 DEF IsEntry
<1>7. IsEntries(r)
  BY <1>1, <1>5, <1>6 DEF IsEntries
<1> QED BY <1>5, <1>6, <1>7 DEF r

\* The manifest a synchronization is going to commit.
LEMMA NextManifestOK ==
  ASSUME NEW d, ExecutionOK(d)
  PROVE  /\ IsManifest(NextManifest(d))
         /\ NextManifest(d).rev = job[d].remote.rev + 1
         /\ Backed(NextManifest(d).entries)
         /\ DOMAIN job[d].remote.tombs \subseteq DOMAIN NextManifest(d).tombs
<1> DEFINE m == job[d].working
           dead == job[d].plan.tombstones \cap DOMAIN m.entries
           left == Restrict(m.entries, DOMAIN m.entries \ dead)
           n == NextManifest(d)
<1>1. IsManifest(m) /\ Backed(m.entries) /\ m.tombs = job[d].remote.tombs
  BY DEF ExecutionOK
<1>2. job[d].remote.rev \in Nat
  BY DEF ExecutionOK, IsManifest
<1>3. /\ IsFiniteSet(DOMAIN m.entries)
      /\ \A i \in DOMAIN m.entries : IsEntry(m.entries[i])
  BY <1>1 DEF IsManifest, IsEntries
<1>4. /\ left = [i \in DOMAIN left |-> left[i]]
      /\ DOMAIN left \subseteq DOMAIN m.entries
      /\ \A i \in DOMAIN left : left[i] = m.entries[i]
  BY DEF Restrict
<1>5. /\ n = [rev |-> n.rev, entries |-> n.entries, tombs |-> n.tombs]
      /\ n.rev = job[d].remote.rev + 1
      /\ n.entries = left
      /\ DOMAIN m.tombs \subseteq DOMAIN n.tombs
  BY DEF NextManifest, ++
<1> HIDE DEF n, left
<1>6. IsFiniteSet(DOMAIN left)
  BY <1>3, <1>4, FS_Subset
<1>7. IsManifest(n)
  BY <1>2, <1>3, <1>4, <1>5, <1>6 DEF IsManifest, IsEntries
<1>8. Backed(n.entries)
  BY <1>1, <1>4, <1>5 DEF Backed
<1> QED BY <1>1, <1>5, <1>7, <1>8 DEF n
------------------------------------------------------------------------------
(* Steps of one device *)

\* Nothing happens to the other devices ...
Frame(d) ==
  /\ VariablesOK'
  /\ \A e \in Device \ {d} :
       /\ vault'[e] = vault[e]
       /\ queue'[e] = queue[e]
       /\ base'[e] = base[e]
       /\ pc'[e] = pc[e]
       /\ job'[e] = job[e]
       /\ shown'[e] = shown[e]

\* ... nor to the objects on Drive, but that they move.
DriveKept ==
  \A n \in DOMAIN drive : n \in DOMAIN drive' /\ drive'[n].data = drive[n].data

LEMMA BackedStays ==
  ASSUME NEW entries, Backed(entries), DriveKept
  PROVE  Backed(entries)'
BY DEF Backed, DriveKept

LEMMA JobStays ==
  ASSUME NEW d, JobOK(d), DriveKept, manifest' = manifest,
         pc'[d] = pc[d], job'[d] = job[d]
  PROVE  JobOK(d)'
<1>1. ExecutionOK(d) => ExecutionOK(d)'
  BY DEF ExecutionOK, Published, Backed, DriveKept
<1>2. NextManifest(d)' = NextManifest(d)
  BY DEF NextManifest
<1> QED BY <1>1, <1>2 DEF JobOK, Published

LEMMA StepOfOne ==
  ASSUME IInv, NEW d \in Device, Frame(d), DriveKept, manifest' = manifest,
         LocalOK(d)', JobOK(d)'
  PROVE  IInv'
<1>1. ManifestOK'
  <2>1. IsManifest(manifest) /\ Valid(manifest) /\ Backed(manifest.entries)
    BY DEF IInv, ManifestOK
  <2>2. Backed(manifest.entries)'
    BY <2>1 DEF Backed, DriveKept
  <2> QED BY <2>1, <2>2 DEF ManifestOK
<1>2. ASSUME NEW e \in Device \ {d} PROVE LocalOK(e)' /\ JobOK(e)'
  <2>1. LocalOK(e) /\ JobOK(e)
    BY DEF IInv
  <2>2. LocalOK(e)'
    BY <2>1 DEF LocalOK, Frame, Published
  <2>3. JobOK(e)'
    BY <2>1, JobStays DEF Frame
  <2> QED BY <2>2, <2>3
<1> QED BY <1>1, <1>2 DEF IInv, Frame

LEMMA LocalStays ==
  ASSUME IInv, NEW d \in Device, manifest' = manifest,
         base'[d] \in {base[d], manifest},
         IsSnapshot(vault'[d]), IsList(queue'[d]),
         \A c \in shown'[d] : c.local = Nothing \/ IsPath(c.local.path)
  PROVE  LocalOK(d)'
<1>1. LocalOK(d) /\ IsManifest(manifest) /\ Valid(manifest)
  BY DEF IInv, ManifestOK
<1>2. /\ IsManifest(base'[d])
      /\ Valid(base'[d])
      /\ Published(base[d])'
  <2>1. CASE base'[d] = base[d]
    BY <1>1, <2>1 DEF LocalOK, Published
  <2>2. CASE base'[d] = manifest
    <3>1. manifest.rev <= manifest.rev
      BY <1>1 DEF IsManifest
    <3> QED BY <1>1, <2>2, <3>1 DEF Published
  <2> QED BY <2>1, <2>2
<1> QED BY <1>2 DEF LocalOK

LEMMA ParentExistsMeans ==
  ASSUME NEW v, IsSnapshot(v), NEW p, IsPath(p), ParentExists(v, p)
  PROVE  \A q \in FoldersOf(p) : q \in DOMAIN v /\ v[q] = Folder
<1> SUFFICES ASSUME NEW q \in FoldersOf(p)
             PROVE  q \in DOMAIN v /\ v[q] = Folder
  OBVIOUS
<1> DEFINE f == Front(p)
<1>1. /\ Len(p) \in Nat \ {0} /\ Len(q) \in Nat \ {0}
      /\ IsPath(q) /\ Len(q) <= Len(p)
      /\ \A i \in 1..Len(q) : q[i] = p[i]
  BY FoldersOfPath, WithinMeans, PathIsSequence
<1>2. Len(q) # Len(p)
  BY <1>1, FoldersOfPath, SamePath
<1>3. f \in DOMAIN v /\ v[f] = Folder
  <2>1. Len(p) # 1
    BY <1>1, <1>2
  <2> QED BY <2>1, Zenon DEF ParentExists
<1>4. /\ IsPath(f) /\ Len(f) = Len(p) - 1
      /\ \A i \in 1..(Len(p) - 1) : f[i] = p[i]
  <2>1. f = SubSeq(p, 1, Len(p) - 1)
    BY DEF Front
  <2>2. Len(p) - 1 \in 1..Len(p)
    BY <1>1, <1>2
  <2> HIDE DEF f
  <2> DEFINE n == Len(p) - 1
  <2>3. n \in 1..Len(p) /\ f = SubSeq(p, 1, n)
    BY <2>1, <2>2
  <2> HIDE DEF n
  <2>4. IsPath(f) /\ Len(f) = n /\ \A i \in 1..n : f[i] = p[i]
    BY <2>3, Beginning
  <2> QED BY <2>4 DEF n
<1> HIDE DEF f
<1>5. Within(q, f)
  BY <1>1, <1>2, <1>4, WithinMeans
<1> QED BY <1>1, <1>3, <1>4, <1>5, BelowFolder, SnapshotPaths, FoldersOfPath

------------------------------------------------------------------------------
(* Users *)

\* The edit of a user keeps the vault what a file system holds.
LEMMA EditOK ==
  ASSUME IInv, NEW d \in Device, MayEdit(d),
         NEW v, vault' = [vault EXCEPT ![d] = v], IsSnapshot(v),
         NEW q, queue' = [queue EXCEPT ![d] = q], IsList(q)
  PROVE  IInv'
<1>1. LocalOK(d) /\ JobOK(d) /\ VariablesOK
  BY DEF IInv
<1>2. /\ base' = base /\ manifest' = manifest /\ drive' = drive
      /\ pc' = pc /\ job' = job
      /\ \/ shown' = shown
         \/ shown' = [shown EXCEPT ![d] = {}]
  BY DEF MayEdit, remoteVars
<1>3. Frame(d)
  BY <1>1, <1>2 DEF Frame, VariablesOK
<1>4. DriveKept
  BY <1>2 DEF DriveKept
<1>5. LocalOK(d)'
  <2>1. vault'[d] = v /\ queue'[d] = q
    BY <1>1 DEF VariablesOK
  <2>2. \A c \in shown'[d] : c \in shown[d]
    BY <1>1, <1>2 DEF VariablesOK
  <2> QED BY <1>1, <1>2, <2>1, <2>2, LocalStays DEF LocalOK
<1>6. JobOK(d)'
  BY <1>1, <1>2, <1>4, JobStays
<1> QED BY <1>2, <1>3, <1>4, <1>5, <1>6, StepOfOne

LEMMA WriteOK ==
  ASSUME IInv, NEW d \in Device, NEW p \in FilePath, NEW c, Write(d, p, c)
  PROVE  IInv'
<1> DEFINE v == [q \in {p} |-> c] ++ vault[d]
           q == EventsElsewhere(queue[d], {p})
<1>1. IsSnapshot(vault[d]) /\ IsList(queue[d]) /\ IsPath(p)
  BY PathAssumption DEF IInv, LocalOK
<1>2. IsSnapshot(v)
  <2>1. p \in DOMAIN vault[d] => vault[d][p] # Folder
    BY DEF Write, Lookup
  <2>2. \A f \in FoldersOf(p) : f \in DOMAIN vault[d] /\ vault[d][f] = Folder
    BY <1>1, ParentExistsMeans DEF Write
  <2> QED BY <1>1, <2>1, <2>2, PutOK
<1>3. IsList(q)
  BY <1>1, EventsElsewhereIsList
<1>4. /\ MayEdit(d)
      /\ vault' = [vault EXCEPT ![d] = v]
      /\ queue' = [queue EXCEPT ![d] = q]
  BY DEF Write
<1> HIDE DEF v, q
<1> QED BY <1>2, <1>3, <1>4, EditOK
LEMMA MakeFolderOK ==
  ASSUME IInv, NEW d \in Device, NEW p \in FolderPath, MakeFolder(d, p)
  PROVE  IInv'
<1> DEFINE v == EnsureFolders(vault[d], {p})
           q == EventsElsewhere(queue[d], {p})
<1>1. IsSnapshot(vault[d]) /\ IsList(queue[d]) /\ IsPath(p)
  BY PathAssumption DEF IInv, LocalOK
<1>2. IsSnapshot(v)
  <2>1. \A f \in FoldersOf(p) : f \in DOMAIN vault[d] /\ vault[d][f] = Folder
    BY <1>1, ParentExistsMeans DEF MakeFolder
  <2> QED BY <1>1, <2>1, EnsureFolderOK
<1>3. IsList(q)
  BY <1>1, EventsElsewhereIsList
<1>4. /\ MayEdit(d)
      /\ vault' = [vault EXCEPT ![d] = v]
      /\ queue' = [queue EXCEPT ![d] = q]
  BY DEF MakeFolder
<1> HIDE DEF v, q
<1> QED BY <1>2, <1>3, <1>4, EditOK

LEMMA DeleteOK ==
  ASSUME IInv, NEW d \in Device, NEW p, Delete(d, p)
  PROVE  IInv'
<1> DEFINE v == RemoveTree(vault[d], p)
           q == EventsElsewhere(queue[d], Tree(vault[d], p))
<1>1. IsSnapshot(vault[d]) /\ IsList(queue[d])
  BY DEF IInv, LocalOK
<1>2. IsSnapshot(v)
  <2>1. IsPath(p)
    BY <1>1, SnapshotPaths DEF Delete
  <2> QED BY <1>1, <2>1, RemoveTreeOK DEF RemoveTree
<1>3. IsList(q)
  BY <1>1, EventsElsewhereIsList
<1>4. /\ MayEdit(d)
      /\ vault' = [vault EXCEPT ![d] = v]
      /\ queue' = [queue EXCEPT ![d] = q]
  BY DEF Delete
<1> HIDE DEF v, q
<1> QED BY <1>2, <1>3, <1>4, EditOK

LEMMA RenameOK ==
  ASSUME IInv, NEW d \in Device, NEW p, NEW q \in FilePath \cup FolderPath,
         Rename(d, p, q)
  PROVE  IInv'
<1> DEFINE v == MoveTree(vault[d], p, q)
           k == AfterMove(queue[d], vault[d], p, q)
<1>1. IsSnapshot(vault[d]) /\ IsList(queue[d]) /\ IsPath(q)
  BY PathAssumption DEF IInv, LocalOK
<1>2. IsSnapshot(v)
  <2>1. \A f \in FoldersOf(q) : f \in DOMAIN vault[d] /\ vault[d][f] = Folder
    BY <1>1, ParentExistsMeans DEF Rename
  <2>2. p \in DOMAIN vault[d] /\ q \notin DOMAIN vault[d] /\ ~Within(p, q)
    BY DEF Rename
  <2> QED BY <1>1, <2>1, <2>2, MoveTreeOK
<1>3. IsList(k)
  BY <1>1, AfterMoveIsList
<1>4. /\ MayEdit(d)
      /\ vault' = [vault EXCEPT ![d] = v]
      /\ queue' = [queue EXCEPT ![d] = k]
  BY Zenon DEF Rename
<1> HIDE DEF v, k
<1> QED BY <1>2, <1>3, <1>4, EditOK

LEMMA MergeOK ==
  ASSUME IInv, NEW d \in Device, NEW c \in shown[d], NEW text, Merge(d, c, text)
  PROVE  IInv'
<1> DEFINE p == c.local.path
           w == EnsureParent(vault[d], p)
           v == [x \in {p} |-> text] ++ w
           q == EventsElsewhere(queue[d], {p})
<1>1. IsSnapshot(vault[d]) /\ IsList(queue[d])
  BY DEF IInv, LocalOK
<1>2. IsPath(p)
  BY DEF IInv, LocalOK, Merge
<1>3. /\ MayEdit(d)
      /\ Lookup(vault[d], p) # Folder
      /\ ~FileInWay(vault[d], p)
      /\ vault' = [vault EXCEPT ![d] = v]
      /\ queue' = [queue EXCEPT ![d] = q]
  BY Zenon DEF Merge
<1> HIDE DEF p
<1>4. /\ IsSnapshot(w)
      /\ DOMAIN w = DOMAIN vault[d] \cup FoldersOf(p)
      /\ \A f \in DOMAIN vault[d] : w[f] = vault[d][f]
      /\ \A f \in FoldersOf(p) : w[f] = Folder
  BY <1>1, <1>2, <1>3, EnsureParentOK
<1>5. p \in DOMAIN w => w[p] # Folder
  <2>1. p \notin FoldersOf(p)
    BY <1>2, FoldersOfPath
  <2> HIDE DEF w
  <2> QED BY <1>3, <1>4, <2>1 DEF Lookup
<1> HIDE DEF w
<1>6. IsSnapshot(v)
  BY <1>2, <1>4, <1>5, PutOK
<1>7. IsList(q)
  BY <1>1, EventsElsewhereIsList
<1> HIDE DEF v, q
<1> QED BY <1>3, <1>6, <1>7, EditOK

LEMMA ChooseOK ==
  ASSUME IInv, NEW d \in Device, NEW c, NEW choice, Choose(d, c, choice)
  PROVE  IInv'
<1>1. LocalOK(d) /\ JobOK(d) /\ VariablesOK
  BY DEF IInv
<1>2. /\ vault' = vault /\ queue' = queue /\ base' = base /\ shown' = shown
      /\ manifest' = manifest /\ drive' = drive /\ pc' = pc /\ job' = job
  BY DEF Choose, localVars, remoteVars
<1>3. Frame(d) /\ DriveKept
  BY <1>1, <1>2 DEF Frame, VariablesOK, DriveKept
<1>4. LocalOK(d)'
  BY <1>1, <1>2, LocalStays DEF LocalOK
<1>5. JobOK(d)'
  BY <1>1, <1>2, <1>3, JobStays
<1> QED BY <1>2, <1>3, <1>4, <1>5, StepOfOne
------------------------------------------------------------------------------
(* Scan, plan, start *)

LEMMA EmptyIsList == IsList(<<>>)
<1> DEFINE S == {}
<1>1. <<>> \in Seq(S)
  OBVIOUS
<1> QED BY <1>1, SequenceIsList

LEMMA JobEnds ==
  ASSUME VariablesOK, NEW d \in Device, Idle(d)
  PROVE  JobOK(d)'
<1>1. pc'[d] = "idle" /\ job'[d] = Nothing
  BY DEF Idle, VariablesOK
<1> QED BY <1>1 DEF JobOK

\* A synchronization ends on the device it runs on.
LEMMA EndOK ==
  ASSUME IInv, NEW d \in Device, Idle(d),
         manifest' = manifest, drive' = drive,
         DOMAIN vault' = Device, IsSnapshot(vault'[d]),
         \A e \in Device \ {d} : vault'[e] = vault[e],
         DOMAIN shown' = Device,
         \A c \in shown'[d] : c.local = Nothing \/ IsPath(c.local.path),
         \A e \in Device \ {d} : shown'[e] = shown[e],
         queue' = queue \/ queue' = [queue EXCEPT ![d] = <<>>],
         base' = base \/ base' = [base EXCEPT ![d] = manifest]
  PROVE  IInv'
<1>1. LocalOK(d) /\ VariablesOK
  BY DEF IInv
<1>2. Frame(d)
  BY <1>1 DEF Frame, VariablesOK, Idle
<1>3. DriveKept
  BY DEF DriveKept
<1>4. LocalOK(d)'
  <2>1. /\ queue'[d] = queue[d] \/ queue'[d] = <<>>
        /\ base'[d] \in {base[d], manifest}
    BY <1>1 DEF VariablesOK
  <2>2. IsList(queue'[d])
    BY <1>1, <2>1, EmptyIsList DEF LocalOK
  <2> QED BY <2>1, <2>2, LocalStays
<1>5. JobOK(d)'
  BY <1>1, JobEnds
<1> QED BY <1>2, <1>3, <1>4, <1>5, StepOfOne

\* What a user is shown once there is a plan.
LEMMA ShowOK ==
  ASSUME IInv, NEW d \in Device, pc[d] = "scanned", Show(d)
  PROVE  /\ DOMAIN shown' = Device
         /\ \A c \in shown'[d] : c.local = Nothing \/ IsPath(c.local.path)
         /\ \A e \in Device \ {d} : shown'[e] = shown[e]
<1>1. DOMAIN shown = Device
  BY DEF IInv, VariablesOK
<1> DEFINE s == PlanOf(d).conflicts
<1>2. \A c \in s : c.local = Nothing \/ IsPath(c.local.path)
  BY PlanOfOK
<1>3. shown' = [shown EXCEPT ![d] = s]
  BY DEF Show
<1> HIDE DEF s
<1> QED BY <1>1, <1>2, <1>3

\* A synchronization that ends with its plan.
LEMMA PlanEndsOK ==
  ASSUME IInv, NEW d \in Device,
         UpToDate(d) \/ Blocked(d) \/ Preview(d) \/ Rebuild(d)
  PROVE  IInv'
<1>1. /\ pc[d] = "scanned" /\ Show(d) /\ Idle(d)
      /\ vault' = vault /\ manifest' = manifest /\ drive' = drive
      /\ queue' = queue \/ queue' = [queue EXCEPT ![d] = <<>>]
      /\ base' = base \/ base' = [base EXCEPT ![d] = manifest]
  <2>1. CASE UpToDate(d)
    BY <2>1 DEF UpToDate, remoteVars
  <2>2. CASE Blocked(d)
    BY <2>2 DEF Blocked, remoteVars
  <2>3. CASE Preview(d)
    BY <2>3 DEF Preview, localVars, remoteVars
  <2>4. CASE Rebuild(d)
    BY <2>4 DEF Rebuild, localVars, remoteVars
  <2> QED BY <2>1, <2>2, <2>3, <2>4
<1>2. DOMAIN vault = Device /\ IsSnapshot(vault[d])
  BY DEF IInv, VariablesOK, LocalOK
<1> QED BY <1>1, <1>2, ShowOK, EndOK

LEMMA ScanOK ==
  ASSUME IInv, NEW d \in Device, Scan(d)
  PROVE  IInv'
<1>1. LocalOK(d) /\ VariablesOK
  BY DEF IInv
<1>2. /\ pc' = [pc EXCEPT ![d] = "scanned"]
      /\ job' = [job EXCEPT ![d] = [snap |-> vault[d]]]
      /\ vault' = vault /\ queue' = queue /\ base' = base /\ shown' = shown
      /\ manifest' = manifest /\ drive' = drive
  BY DEF Scan, localVars, remoteVars, centerVars
<1>3. Frame(d) /\ DriveKept
  BY <1>1, <1>2 DEF Frame, VariablesOK, DriveKept
<1>4. LocalOK(d)'
  BY <1>1, <1>2, LocalStays DEF LocalOK
<1>5. JobOK(d)'
  <2>1. pc'[d] = "scanned" /\ job'[d] = [snap |-> vault[d]]
    BY <1>1, <1>2 DEF VariablesOK
  <2> QED BY <1>1, <2>1 DEF JobOK, LocalOK
<1> QED BY <1>2, <1>3, <1>4, <1>5, StepOfOne

LEMMA StartOK ==
  ASSUME IInv, NEW d \in Device, Start(d)
  PROVE  IInv'
<1> DEFINE plan == PlanOf(d)
           new == [plan |-> plan, todo |-> plan, snap |-> job[d].snap,
                   remote |-> manifest, working |-> manifest, staged |-> {},
                   aside |-> Nothing, replaced |-> {}, trashed |-> {}]
<1>1. LocalOK(d) /\ VariablesOK /\ ManifestOK
  BY DEF IInv
<1>2. /\ pc[d] = "scanned" /\ Show(d)
      /\ pc' = [pc EXCEPT ![d] = "executing"]
      /\ job' = [job EXCEPT ![d] = new]
      /\ queue' = [queue EXCEPT ![d] = <<>>]
      /\ vault' = vault /\ base' = base
      /\ manifest' = manifest /\ drive' = drive
  BY Zenon DEF Start, remoteVars
<1>3. /\ DOMAIN shown' = Device
      /\ \A c \in shown'[d] : c.local = Nothing \/ IsPath(c.local.path)
      /\ \A e \in Device \ {d} : shown'[e] = shown[e]
  BY <1>2, ShowOK
<1>4. DOMAIN plan = DOMAIN NoOperations /\ PathsOK(plan)
  BY <1>2, PlanOfOK
<1> HIDE DEF plan
<1>5. ExecutionOK(d)'
  <2>1. job'[d] = new
    BY <1>1, <1>2 DEF VariablesOK
  <2>2. Published(manifest)'
    BY <1>1, <1>2 DEF Published, ManifestOK, IsManifest
  <2>3. Backed(manifest.entries)' /\ IsManifest(manifest')
    BY <1>1, <1>2 DEF ManifestOK, Backed
  <2> QED BY <1>2, <1>4, <2>1, <2>2, <2>3 DEF ExecutionOK
<1> HIDE DEF new
<1>6. Frame(d) /\ DriveKept
  BY <1>1, <1>2, <1>3 DEF Frame, VariablesOK, DriveKept
<1>7. LocalOK(d)'
  <2>1. queue'[d] = <<>>
    BY <1>1, <1>2 DEF VariablesOK
  <2> QED BY <1>1, <1>2, <1>3, <2>1, EmptyIsList, LocalStays DEF LocalOK
<1>8. JobOK(d)'
  <2>1. pc'[d] = "executing"
    BY <1>1, <1>2 DEF VariablesOK
  <2> QED BY <1>5, <2>1 DEF JobOK
<1> QED BY <1>2, <1>6, <1>7, <1>8, StepOfOne
------------------------------------------------------------------------------
(* Execution *)

\* d takes a step of its execution.
Step(d) ==
  /\ DOMAIN vault' = Device
  /\ \A e \in Device \ {d} : vault'[e] = vault[e]
  /\ DOMAIN job' = Device
  /\ \A e \in Device \ {d} : job'[e] = job[e]
  /\ pc' = pc
  /\ \/ queue' = queue
     \/ \E q : IsList(q) /\ queue' = [queue EXCEPT ![d] = q]
  /\ base' = base
  /\ shown' = shown
  /\ manifest' = manifest
  /\ IsDrive(drive)'

LEMMA StepOK ==
  ASSUME IInv, NEW d \in Device, pc[d] \in {"executing", "retiring"},
         Step(d), DriveKept, IsSnapshot(vault'[d]), ExecutionOK(d)'
  PROVE  IInv'
<1>1. LocalOK(d) /\ VariablesOK
  BY DEF IInv
<1>2. Frame(d)
  BY <1>1 DEF Frame, VariablesOK, Step
<1>3. LocalOK(d)'
  <2>1. IsList(queue'[d])
    BY <1>1 DEF LocalOK, VariablesOK, Step
  <2> QED BY <1>1, <2>1, LocalStays DEF LocalOK, Step
<1>4. JobOK(d)'
  BY DEF JobOK, Step
<1>5. manifest' = manifest
  BY DEF Step
<1> QED BY <1>2, <1>3, <1>4, <1>5, StepOfOne

\* What d has in memory and what is left of its plan, when it makes progress
\* and the manifest it is going to commit stays.
LEMMA ProgressOK ==
  ASSUME NEW d, ExecutionOK(d), DriveKept, manifest' = manifest,
         DOMAIN job'[d] = DOMAIN job[d],
         DOMAIN job'[d].todo = DOMAIN job[d].todo,
         \A k \in DOMAIN NoOperations : job'[d].todo[k] \subseteq job[d].todo[k],
         \A s \in job'[d].staged : IsPath(s.path),
         job'[d].aside = Nothing \/ IsPath(job'[d].aside.path),
         job'[d].remote = job[d].remote,
         IsManifest(job'[d].working),
         Backed(job[d].working.entries)',
         job'[d].working.tombs = job[d].working.tombs
  PROVE  ExecutionOK(d)'
<1>1. PathsOK(job'[d].todo)
  <2>1. PathsOK(job[d].todo)
    BY DEF ExecutionOK
  <2>2. /\ job'[d].todo.uploads \subseteq job[d].todo.uploads
        /\ job'[d].todo.downloads \subseteq job[d].todo.downloads
        /\ job'[d].todo.remoteMoves \subseteq job[d].todo.remoteMoves
        /\ job'[d].todo.localMoves \subseteq job[d].todo.localMoves
        /\ job'[d].todo.conflicts \subseteq job[d].todo.conflicts
    BY DEF NoOperations
  <2> QED BY <2>1, <2>2 DEF PathsOK
<1>2. Published(job[d].remote)'
  BY DEF ExecutionOK, Published
<1> QED BY <1>1, <1>2 DEF ExecutionOK

\* The same when the manifest is left alone.
LEMMA ProgressOnly ==
  ASSUME NEW d, ExecutionOK(d), DriveKept, manifest' = manifest,
         DOMAIN job'[d] = DOMAIN job[d],
         DOMAIN job'[d].todo = DOMAIN job[d].todo,
         \A k \in DOMAIN NoOperations : job'[d].todo[k] \subseteq job[d].todo[k],
         \A s \in job'[d].staged : IsPath(s.path),
         job'[d].aside = Nothing \/ IsPath(job'[d].aside.path),
         job'[d].remote = job[d].remote,
         job'[d].working = job[d].working
  PROVE  ExecutionOK(d)'
<1>1. IsManifest(job'[d].working)
  BY DEF ExecutionOK
<1>2. Backed(job[d].working.entries)'
  BY DEF ExecutionOK, Backed, DriveKept
<1> QED BY <1>1, <1>2, ProgressOK

\* A step that the executor refuses, or an error of the Drive or the disk.
LEMMA AbortOK ==
  ASSUME IInv, NEW d \in Device, Abort(d)
  PROVE  IInv'
<1>1. LocalOK(d) /\ VariablesOK
  BY DEF IInv
<1>2. /\ Idle(d) /\ vault' = vault /\ queue' = queue /\ base' = base
      /\ shown' = shown /\ manifest' = manifest /\ drive' = drive
  BY DEF Abort, localVars, remoteVars, centerVars
<1> QED BY <1>1, <1>2, EndOK DEF LocalOK, VariablesOK

LEMMA StageDownloadOK ==
  ASSUME IInv, NEW d \in Device, StageDownload(d)
  PROVE  IInv'
<1>1. LocalOK(d) /\ VariablesOK /\ ExecutionOK(d) /\ pc[d] = "executing"
  BY DEF IInv, JobOK, StageDownload, DoneUploads, Executing
<1>2. PICK o \in job[d].todo.downloads :
        job' = [job EXCEPT
                  ![d].todo.downloads = @ \ {o},
                  ![d].staged = @ \cup {[path |-> o.path,
                                         data |-> drive[o.file].data]}]
  BY DEF StageDownload
<1>3. IsPath(o.path)
  BY <1>1 DEF ExecutionOK, PathsOK
<1>4. /\ vault' = vault /\ queue' = queue /\ base' = base /\ pc' = pc
      /\ shown' = shown /\ manifest' = manifest /\ drive' = drive
  BY DEF StageDownload, localVars, remoteVars, centerVars
<1>5. Step(d) /\ DriveKept
  BY <1>1, <1>2, <1>4 DEF Step, VariablesOK, DriveKept
<1>6. ExecutionOK(d)'
  <2> DEFINE x == [path |-> o.path, data |-> drive[o.file].data]
             j == job[d]
             k == job'[d]
  <2>1. k = [j EXCEPT !.todo.downloads = @ \ {o}, !.staged = @ \cup {x}]
    BY <1>1, <1>2 DEF VariablesOK
  <2>2. /\ "todo" \in DOMAIN j /\ "staged" \in DOMAIN j
        /\ "downloads" \in DOMAIN j.todo
    BY <1>1 DEF ExecutionOK, NoOperations
  <2>3. x.path = o.path
    OBVIOUS
  <2> HIDE DEF x, j, k
  <2>4. /\ DOMAIN k = DOMAIN j
        /\ k.todo = [j.todo EXCEPT !.downloads = @ \ {o}]
        /\ k.staged = j.staged \cup {x}
        /\ k.aside = j.aside /\ k.remote = j.remote /\ k.working = j.working
    BY <2>1, <2>2
  <2>5. /\ DOMAIN k.todo = DOMAIN j.todo
        /\ \A i \in DOMAIN NoOperations : k.todo[i] \subseteq j.todo[i]
    BY <1>1, <2>2, <2>4 DEF ExecutionOK, j
  <2>6. /\ \A s \in k.staged : IsPath(s.path)
        /\ k.aside = Nothing \/ IsPath(k.aside.path)
    BY <1>1, <1>3, <2>3, <2>4 DEF ExecutionOK, j
  <2> QED BY <1>1, <1>4, <1>5, <2>4, <2>5, <2>6, ProgressOnly DEF j, k
<1> QED BY <1>1, <1>4, <1>5, <1>6, StepOK DEF LocalOK
LEMMA ObjectCreated ==
  ASSUME IsDrive(drive), NEW x, NEW y,
         drive' = Append(drive, [data |-> x, parent |-> y])
  PROVE  /\ IsDrive(drive)'
         /\ DriveKept
         /\ Len(drive) + 1 \in DOMAIN drive'
         /\ drive'[Len(drive) + 1].data = x
<1> DEFINE o == [data |-> x, parent |-> y]
           S == {drive[n] : n \in DOMAIN drive} \cup {o}
           n == Len(drive)
<1>1. n \in Nat /\ DOMAIN drive = 1..n /\ drive \in Seq(S)
  BY SeqMonotonic DEF IsDrive, IsList
<1>2. o \in S /\ o = [data |-> o.data, parent |-> o.parent] /\ o.data = x
  OBVIOUS
<1>3. \A i \in 1..n : drive[i] = [data |-> drive[i].data,
                                  parent |-> drive[i].parent]
  BY <1>1 DEF IsDrive
<1> HIDE DEF S, o
<1>4. /\ drive' \in Seq(S)
      /\ DOMAIN drive' = 1..(n + 1)
      /\ \A i \in 1..n : drive'[i] = drive[i]
      /\ drive'[n + 1] = o
  BY <1>1, <1>2 DEF o
<1> HIDE DEF n
<1>5. IsList(drive')
  BY <1>4, SequenceIsList
<1>6. \A i \in DOMAIN drive' :
        drive'[i] = [data |-> drive'[i].data, parent |-> drive'[i].parent]
  BY <1>1, <1>2, <1>3, <1>4
<1>7. IsDrive(drive)'
  BY <1>5, <1>6 DEF IsDrive
<1>8. DriveKept
  BY <1>1, <1>4 DEF DriveKept
<1>9. n + 1 \in DOMAIN drive' /\ drive'[n + 1].data = x
  BY <1>1, <1>2, <1>4
<1> QED BY <1>7, <1>8, <1>9 DEF n

LEMMA ObjectMoved ==
  ASSUME IsDrive(drive), NEW f, NEW y,
         drive' = drive \/ drive' = [drive EXCEPT ![f].parent = y]
  PROVE  IsDrive(drive)' /\ DriveKept
<1>1. CASE drive' = drive
  BY <1>1 DEF IsDrive, DriveKept
<1>2. CASE drive' = [drive EXCEPT ![f].parent = y]
  <2> DEFINE n == Len(drive)
             S == {drive'[i] : i \in 1..n}
  <2>1. n \in Nat /\ DOMAIN drive = 1..n
    BY ListIsSequence DEF IsDrive
  <2>2. \A i \in 1..n : drive[i] = [data |-> drive[i].data,
                                    parent |-> drive[i].parent]
    BY <2>1 DEF IsDrive
  <2>3. DOMAIN drive' = 1..n /\ drive' = [i \in 1..n |-> drive'[i]]
    BY <1>2, <2>1
  <2>4. \A i \in 1..n : \/ drive'[i] = drive[i]
                        \/ drive'[i] = [drive[i] EXCEPT !.parent = y]
    BY <1>2, <2>1
  <2>5. \A i \in 1..n : /\ drive'[i] = [data |-> drive'[i].data,
                                        parent |-> drive'[i].parent]
                        /\ drive'[i].data = drive[i].data
    <3> TAKE i \in 1..n
    <3>1. CASE drive'[i] = drive[i]
      BY <2>2, <3>1
    <3>2. CASE drive'[i] = [drive[i] EXCEPT !.parent = y]
      <4> DEFINE o == drive[i]
                 e == drive'[i]
      <4>1. o = [data |-> o.data, parent |-> o.parent]
            /\ e = [o EXCEPT !.parent = y]
        BY <2>2, <3>2
      <4> HIDE DEF o, e
      <4>2. e = [data |-> e.data, parent |-> e.parent] /\ e.data = o.data
        BY <4>1
      <4> QED BY <4>2 DEF o, e
    <3> QED BY <2>4, <3>1, <3>2
  <2> HIDE DEF n
  <2>6. drive' \in Seq(S)
    <3>1. \A i \in 1..n : drive'[i] \in S
      OBVIOUS
    <3> HIDE DEF S
    <3>2. drive' \in [1..n -> S]
      BY <2>3, <3>1
    <3> QED BY <2>1, <3>2
  <2>7. IsList(drive')
    BY <2>6, SequenceIsList
  <2>8. IsDrive(drive)'
    BY <2>3, <2>5, <2>7 DEF IsDrive
  <2>9. DriveKept
    BY <2>1, <2>3, <2>5 DEF DriveKept
  <2> QED BY <2>8, <2>9
<1> QED BY <1>1, <1>2

\* What is uploaded is what the plan says, and its entry is backed at once.
LEMMA ExecuteUploadOK ==
  ASSUME IInv, NEW d \in Device, ExecuteUpload(d)
  PROVE  IInv'
<1>1. LocalOK(d) /\ VariablesOK /\ ExecutionOK(d) /\ pc[d] = "executing"
  BY DEF IInv, JobOK, ExecuteUpload, Executing
<1>2. PICK u \in job[d].todo.uploads :
        /\ u.data = Folder \/ Lookup(vault[d], u.path) = u.data
        /\ CreateObject(d, u)
  BY DEF ExecuteUpload
<1> DEFINE j == job[d]
           k == job'[d]
           working == j.working.entries
           file == Len(drive) + 1
           parent == FindParent(working, u.path)
           folder == FolderFile(working, parent)
           entry == [path |-> u.path, data |-> u.data, file |-> file,
                     parent |-> parent]
           entries == [i \in {u.id} |-> entry] ++ working
<1>3. PICK orphans :
        /\ drive' = Append(drive, [data |-> u.data, parent |-> folder])
        /\ job' = [job EXCEPT ![d].todo.uploads = @ \ {u},
                              ![d].working.entries = entries,
                              ![d].replaced = orphans]
  <2> DEFINE source == IF u.data = Folder THEN Folder
                       ELSE Lookup(vault[d], u.path)
  <2>1. source = u.data
    BY <1>2
  <2>2. drive' = Append(drive, [data |-> source, parent |-> folder])
    BY <1>2, Zenon DEF CreateObject
  <2>3. \E g : job' = [job EXCEPT ![d].todo.uploads = @ \ {u},
                                  ![d].working.entries = entries,
                                  ![d].replaced = g]
    BY <1>2, Zenon DEF CreateObject
  <2> HIDE DEF source, folder, entries
  <2> QED BY <2>1, <2>2, <2>3
<1>4. /\ vault' = vault /\ queue' = queue /\ base' = base /\ pc' = pc
      /\ shown' = shown /\ manifest' = manifest
  BY DEF ExecuteUpload, localVars, centerVars
<1>5. /\ IsDrive(drive)' /\ DriveKept
      /\ file \in DOMAIN drive' /\ drive'[file].data = u.data
  BY <1>1, <1>3, ObjectCreated DEF VariablesOK
<1>6. /\ k = [j EXCEPT !.todo.uploads = @ \ {u}, !.working.entries = entries,
                       !.replaced = orphans]
      /\ DOMAIN job' = Device
      /\ \A e \in Device \ {d} : job'[e] = job[e]
  BY <1>1, <1>3 DEF VariablesOK
<1>7. Step(d)
  BY <1>1, <1>4, <1>5, <1>6 DEF Step, VariablesOK
<1>8. IsEntries(entries)
  <2>1. IsPath(u.path)
    BY <1>1 DEF ExecutionOK, PathsOK
  <2>2. IsEntry(entry)
    BY <2>1 DEF IsEntry
  <2>3. IsEntries(working)
    BY <1>1 DEF ExecutionOK, IsManifest
  <2> HIDE DEF entry
  <2> QED BY <2>2, <2>3, EntryAdded
<1>9. \A i \in DOMAIN entries : /\ entries[i].file \in DOMAIN drive'
                                /\ drive'[entries[i].file].data = entries[i].data
  <2>1. Backed(working)
    BY <1>1 DEF ExecutionOK
  <2>2. entry.file = file /\ entry.data = u.data
    OBVIOUS
  <2> HIDE DEF entry, working
  <2>3. /\ DOMAIN entries = DOMAIN working \cup {u.id}
        /\ \A i \in DOMAIN entries : \/ entries[i] = entry
                                     \/ /\ i \in DOMAIN working
                                        /\ entries[i] = working[i]
    BY DEF ++
  <2> HIDE DEF entries, file
  <2> QED BY <1>5, <2>1, <2>2, <2>3 DEF Backed, DriveKept
<1>10. ExecutionOK(d)'
  <2> HIDE DEF entries, j, k
  <2>1. /\ DOMAIN j = {"plan", "todo", "snap", "remote", "working", "staged",
                       "aside", "replaced", "trashed"}
        /\ DOMAIN j.todo = DOMAIN NoOperations
        /\ "uploads" \in DOMAIN j.todo
        /\ j.working = [rev |-> j.working.rev, entries |-> j.working.entries,
                        tombs |-> j.working.tombs]
        /\ j.working.rev \in Nat
    BY <1>1 DEF ExecutionOK, j, NoOperations, IsManifest
  <2>2. /\ DOMAIN k = DOMAIN j
        /\ k.todo = [j.todo EXCEPT !.uploads = @ \ {u}]
        /\ k.working = [j.working EXCEPT !.entries = entries]
        /\ k.staged = j.staged /\ k.aside = j.aside /\ k.remote = j.remote
    BY <1>6, <2>1
  <2>3. /\ DOMAIN k.todo = DOMAIN j.todo
        /\ \A i \in DOMAIN NoOperations : k.todo[i] \subseteq j.todo[i]
    BY <2>1, <2>2
  <2>4. /\ k.working = [rev |-> j.working.rev, entries |-> entries,
                        tombs |-> j.working.tombs]
        /\ k.working.entries = entries /\ k.working.tombs = j.working.tombs
    BY <2>1, <2>2
  <2>5. /\ \A s \in k.staged : IsPath(s.path)
        /\ k.aside = Nothing \/ IsPath(k.aside.path)
    BY <1>1, <2>2 DEF ExecutionOK, j
  <2>6. IsManifest(k.working)
    BY <1>8, <2>1, <2>4 DEF IsManifest
  <2>7. Backed(job[d].working.entries)'
    BY <1>9, <2>4 DEF k, Backed
  <2> QED BY <1>1, <1>4, <1>5, <2>2, <2>3, <2>4, <2>5, <2>6, <2>7, ProgressOK
           DEF j, k
<1> QED BY <1>1, <1>4, <1>5, <1>7, <1>10, StepOK DEF LocalOK
\* The folders above the destination can be made, and the move can be made
\* then, if it is not hindered.
LEMMA LocalMoveVault ==
  ASSUME NEW v, IsSnapshot(v), NEW m, IsPath(m.to), ~FileInWay(v, m.to)
  PROVE  /\ IsSnapshot(EnsureParent(v, m.to))
         /\ IsSnapshot(EnsureFolder(v, m.to))
         /\ m.from \in DOMAIN v /\ m.to \notin DOMAIN v /\ ~Within(m.from, m.to)
              => IsSnapshot(MoveTree(EnsureParent(v, m.to), m.from, m.to))
<1> DEFINE w == EnsureParent(v, m.to)
<1>1. /\ IsSnapshot(w)
      /\ DOMAIN w = DOMAIN v \cup FoldersOf(m.to)
      /\ \A q \in FoldersOf(m.to) : w[q] = Folder
  BY EnsureParentOK
<1>2. EnsureFolder(v, m.to) = EnsureFolders(w, {m.to})
  BY DEF EnsureFolder
<1>3. m.to \notin FoldersOf(m.to)
  BY FoldersOfPath
<1> HIDE DEF w
<1>4. \A q \in FoldersOf(m.to) : q \in DOMAIN w /\ w[q] = Folder
  BY <1>1
<1>5. IsSnapshot(EnsureFolder(v, m.to))
  BY <1>1, <1>2, <1>4, EnsureFolderOK
<1>6. m.from \in DOMAIN v /\ m.to \notin DOMAIN v /\ ~Within(m.from, m.to)
        => IsSnapshot(MoveTree(w, m.from, m.to))
  BY <1>1, <1>3, <1>4, MoveTreeOK
<1> QED BY <1>1, <1>5, <1>6 DEF w

LEMMA LocalMoveOK ==
  ASSUME IInv, NEW d \in Device, LocalMove(d)
  PROVE  IInv'
<1> DEFINE v == vault[d]
           j == job[d]
           k == job'[d]
<1>1. LocalOK(d) /\ VariablesOK /\ ExecutionOK(d) /\ pc[d] = "executing"
  BY DEF IInv, JobOK, LocalMove, DoneStaging, Executing
<1>2. PICK m \in job[d].todo.localMoves :
        /\ job' = [job EXCEPT ![d].todo.localMoves = @ \ {m}]
        /\ \/ /\ m.from = None /\ ~Hindered(d, m)
              /\ vault' = [vault EXCEPT ![d] = EnsureFolder(v, m.to)]
              /\ queue' = queue
           \/ vault' = vault /\ queue' = queue
           \/ /\ m.from # None /\ m.from \in DOMAIN v
              /\ ~Hindered(d, m)
              /\ vault' = [vault EXCEPT
                             ![d] = MoveTree(EnsureParent(v, m.to),
                                             m.from, m.to)]
              /\ queue' = [queue EXCEPT
                             ![d] = AfterMove(queue[d], v, m.from, m.to)]
  BY Zenon DEF LocalMove
<1>3. IsPath(m.to) /\ IsSnapshot(v)
  BY <1>1 DEF ExecutionOK, PathsOK, LocalOK
<1>4. /\ base' = base /\ pc' = pc
      /\ shown' = shown /\ manifest' = manifest /\ drive' = drive
  BY DEF LocalMove, localVars, remoteVars, centerVars
<1>8. \/ queue' = queue
      \/ \E q : IsList(q) /\ queue' = [queue EXCEPT ![d] = q]
  <2>1. IsList(AfterMove(queue[d], v, m.from, m.to))
    BY <1>1, <1>3, AfterMoveIsList DEF LocalOK
  <2> QED BY <1>2, <2>1, Zenon
<1>5. Step(d) /\ DriveKept
  BY <1>1, <1>2, <1>4, <1>8 DEF Step, VariablesOK, DriveKept
<1>6. IsSnapshot(vault'[d])
  <2>1. ~Hindered(d, m) => ~FileInWay(v, m.to)
    BY DEF Hindered
  <2>2. ~Hindered(d, m) /\ m.from # None
          => m.to \notin DOMAIN v /\ ~Within(m.from, m.to)
    BY DEF Hindered
  <2>3. DOMAIN vault = Device
    BY <1>1 DEF VariablesOK
  <2> HIDE DEF v
  <2>4. CASE /\ m.from = None /\ ~Hindered(d, m)
             /\ vault' = [vault EXCEPT ![d] = EnsureFolder(v, m.to)]
    BY <1>3, <2>1, <2>3, <2>4, LocalMoveVault
  <2>5. CASE vault' = vault
    BY <1>3, <2>5 DEF v
  <2>6. CASE /\ m.from # None /\ m.from \in DOMAIN v
             /\ ~Hindered(d, m)
             /\ vault' = [vault EXCEPT
                            ![d] = MoveTree(EnsureParent(v, m.to),
                                            m.from, m.to)]
    BY <1>3, <2>1, <2>2, <2>3, <2>6, LocalMoveVault
  <2> QED BY <1>2, <2>4, <2>5, <2>6
<1>7. ExecutionOK(d)'
  <2>1. k = [j EXCEPT !.todo.localMoves = @ \ {m}]
    BY <1>1, <1>2 DEF VariablesOK
  <2>2. "todo" \in DOMAIN j /\ "localMoves" \in DOMAIN j.todo
    BY <1>1 DEF ExecutionOK, NoOperations
  <2> HIDE DEF j, k
  <2>3. /\ DOMAIN k = DOMAIN j
        /\ k.todo = [j.todo EXCEPT !.localMoves = @ \ {m}]
        /\ k.staged = j.staged
        /\ k.aside = j.aside /\ k.remote = j.remote /\ k.working = j.working
    BY <2>1, <2>2
  <2>4. /\ DOMAIN k.todo = DOMAIN j.todo
        /\ \A i \in DOMAIN NoOperations : k.todo[i] \subseteq j.todo[i]
    BY <1>1, <2>2, <2>3 DEF ExecutionOK, j
  <2>5. /\ \A s \in k.staged : IsPath(s.path)
        /\ k.aside = Nothing \/ IsPath(k.aside.path)
    BY <1>1, <2>3 DEF ExecutionOK, j
  <2> QED BY <1>1, <1>4, <1>5, <2>3, <2>4, <2>5, ProgressOnly DEF j, k
<1> QED BY <1>1, <1>5, <1>6, <1>7, StepOK

LEMMA LocalMoveFailsOK ==
  ASSUME IInv, NEW d \in Device, LocalMoveFails(d)
  PROVE  IInv'
<1> DEFINE v == vault[d]
<1>1. LocalOK(d) /\ VariablesOK /\ ExecutionOK(d) /\ pc[d] = "executing"
  BY DEF IInv, JobOK, LocalMoveFails, DoneStaging, Executing
<1>2. PICK m \in job[d].todo.localMoves :
        \/ vault' = vault
        \/ /\ ~FileInWay(v, m.to)
           /\ vault' = [vault EXCEPT ![d] = EnsureParent(v, m.to)]
  <2>1. PICK m \in job[d].todo.localMoves :
          vault' = IF FileInWay(v, m.to) THEN vault
                   ELSE [vault EXCEPT ![d] = EnsureParent(v, m.to)]
    BY Zenon DEF LocalMoveFails
  <2> HIDE DEF v
  <2> QED BY <2>1
<1>3. IsPath(m.to) /\ IsSnapshot(v)
  BY <1>1 DEF ExecutionOK, PathsOK, LocalOK
<1>4. /\ Idle(d) /\ queue' = queue /\ base' = base
      /\ shown' = shown /\ manifest' = manifest /\ drive' = drive
  BY DEF LocalMoveFails, remoteVars, centerVars
<1>5. /\ DOMAIN vault' = Device /\ IsSnapshot(vault'[d])
      /\ \A e \in Device \ {d} : vault'[e] = vault[e]
  <2>1. DOMAIN vault = Device
    BY <1>1 DEF VariablesOK
  <2>2. ~FileInWay(v, m.to) => IsSnapshot(EnsureParent(v, m.to))
    BY <1>3, LocalMoveVault
  <2> QED BY <1>2, <1>3, <2>1, <2>2
<1> QED BY <1>1, <1>4, <1>5, EndOK DEF LocalOK, VariablesOK
LEMMA SetAsideOK ==
  ASSUME IInv, NEW d \in Device, SetAside(d)
  PROVE  IInv'
<1> DEFINE v == vault[d]
           j == job[d]
           k == job'[d]
<1>1. LocalOK(d) /\ VariablesOK /\ ExecutionOK(d) /\ pc[d] = "executing"
  BY DEF IInv, JobOK, SetAside, DoneLocalMoves, Executing
<1>2. PICK s \in job[d].staged :
        /\ job' = [job EXCEPT ![d].aside = [path |-> s.path, data |-> v[s.path]]]
        /\ vault' = [vault EXCEPT ![d] = RemoveTree(v, s.path)]
        /\ queue' = [queue EXCEPT
                       ![d] = EventsElsewhere(queue[d], Tree(v, s.path))]
  BY Zenon DEF SetAside
<1>3. IsPath(s.path) /\ IsSnapshot(v)
  BY <1>1 DEF ExecutionOK, LocalOK
<1>4. /\ base' = base /\ pc' = pc
      /\ shown' = shown /\ manifest' = manifest /\ drive' = drive
  BY DEF SetAside, remoteVars, centerVars
<1>8. \E q : IsList(q) /\ queue' = [queue EXCEPT ![d] = q]
  <2>1. IsList(EventsElsewhere(queue[d], Tree(v, s.path)))
    BY <1>1, EventsElsewhereIsList DEF LocalOK
  <2> QED BY <1>2, <2>1, Zenon
<1>5. Step(d) /\ DriveKept
  BY <1>1, <1>2, <1>4, <1>8 DEF Step, VariablesOK, DriveKept
<1>6. IsSnapshot(vault'[d])
  <2>1. IsSnapshot(RemoveTree(v, s.path))
    BY <1>3, RemoveTreeOK DEF RemoveTree
  <2> QED BY <1>1, <1>2, <2>1 DEF VariablesOK
<1>7. ExecutionOK(d)'
  <2> DEFINE x == [path |-> s.path, data |-> v[s.path]]
  <2>1. k = [j EXCEPT !.aside = x]
    BY <1>1, <1>2 DEF VariablesOK
  <2>2. "aside" \in DOMAIN j
    BY <1>1 DEF ExecutionOK
  <2>3. x.path = s.path
    OBVIOUS
  <2> HIDE DEF j, k, x
  <2>4. /\ DOMAIN k = DOMAIN j /\ k.todo = j.todo /\ k.staged = j.staged
        /\ k.aside = x /\ k.remote = j.remote /\ k.working = j.working
    BY <2>1, <2>2
  <2>5. /\ \A o \in k.staged : IsPath(o.path)
        /\ k.aside = Nothing \/ IsPath(k.aside.path)
    BY <1>1, <1>3, <2>3, <2>4 DEF ExecutionOK, j
  <2> QED BY <1>1, <1>4, <1>5, <2>4, <2>5, ProgressOnly DEF j, k
<1> QED BY <1>1, <1>5, <1>6, <1>7, StepOK

\* A download takes the place it finds empty, in folders that are there or can
\* be made.
LEMMA InstallOK ==
  ASSUME IInv, NEW d \in Device, Install(d)
  PROVE  IInv'
<1> DEFINE v == vault[d]
           j == job[d]
           k == job'[d]
<1>1. LocalOK(d) /\ VariablesOK /\ ExecutionOK(d) /\ pc[d] = "executing"
  BY DEF IInv, JobOK, Install, DoneLocalMoves, Executing
<1>2. PICK s \in job[d].staged :
        /\ Installable(d, s)
        /\ vault' = [vault EXCEPT ![d] = [p \in {s.path} |-> s.data]
                                           ++ EnsureParent(v, s.path)]
        /\ job' = [job EXCEPT ![d].staged = @ \ {s}, ![d].aside = Nothing]
  BY Zenon DEF Install
<1>3. IsPath(s.path) /\ IsSnapshot(v)
  BY <1>1 DEF ExecutionOK, LocalOK
<1>4. /\ queue' = queue /\ base' = base /\ pc' = pc
      /\ shown' = shown /\ manifest' = manifest /\ drive' = drive
  BY DEF Install, remoteVars, centerVars
<1>5. Step(d) /\ DriveKept
  BY <1>1, <1>2, <1>4 DEF Step, VariablesOK, DriveKept
<1>6. IsSnapshot(vault'[d])
  <2> DEFINE p == s.path
             w == EnsureParent(v, p)
  <2>1. p \notin DOMAIN v /\ (~FileInWay(v, p) \/ ParentExists(v, p))
    BY <1>2 DEF Installable
  <2>2. ~FileInWay(v, p)
    BY <1>3, <2>1, ParentExistsMeans DEF FileInWay
  <2>3. /\ IsSnapshot(w)
        /\ DOMAIN w = DOMAIN v \cup FoldersOf(p)
        /\ \A q \in FoldersOf(p) : w[q] = Folder
    BY <1>3, <2>2, EnsureParentOK
  <2>4. p \notin FoldersOf(p)
    BY <1>3, FoldersOfPath
  <2> HIDE DEF p, w
  <2>5. IsSnapshot([q \in {p} |-> s.data] ++ w)
    <3>1. IsPath(p)
      BY <1>3 DEF p
    <3> QED BY <2>1, <2>3, <2>4, <3>1, PutOK
  <2> QED BY <1>1, <1>2, <2>5 DEF VariablesOK, p, w
<1>7. ExecutionOK(d)'
  <2>1. k = [j EXCEPT !.staged = @ \ {s}, !.aside = Nothing]
    BY <1>1, <1>2 DEF VariablesOK
  <2>2. "aside" \in DOMAIN j /\ "staged" \in DOMAIN j
    BY <1>1 DEF ExecutionOK
  <2> HIDE DEF j, k
  <2>3. /\ DOMAIN k = DOMAIN j /\ k.todo = j.todo /\ k.staged = j.staged \ {s}
        /\ k.aside = Nothing /\ k.remote = j.remote /\ k.working = j.working
    BY <2>1, <2>2
  <2>4. \A o \in k.staged : IsPath(o.path)
    BY <1>1, <2>3 DEF ExecutionOK, j
  <2> QED BY <1>1, <1>4, <1>5, <2>3, <2>4, ProgressOnly DEF j, k
<1> QED BY <1>1, <1>5, <1>6, <1>7, StepOK

LEMMA RecoverLocalOK ==
  ASSUME IInv, NEW d \in Device, RecoverLocal(d)
  PROVE  IInv'
<1> DEFINE v == vault[d]
           j == job[d]
           k == job'[d]
<1>1. LocalOK(d) /\ VariablesOK /\ ExecutionOK(d) /\ pc[d] = "executing"
  BY DEF IInv, JobOK, RecoverLocal, DoneRemoteMoves, DoneInstalling,
         DoneLocalMoves, Executing
<1> DEFINE Taken(r) == IF /\ r.path \in DOMAIN v
                          /\ ~\E p \in job[d].trashed : Within(r.path, p)
                       THEN Tree(v, r.path) ELSE {}
<1>2. PICK r \in job[d].todo.recoveries :
        /\ vault' = [vault EXCEPT ![d] = Restrict(v, DOMAIN v \ Taken(r))]
        /\ job' = [job EXCEPT ![d].todo.recoveries = @ \ {r},
                              ![d].trashed = @ \cup Taken(r)]
        /\ queue' = [queue EXCEPT ![d] = EventsElsewhere(queue[d], Taken(r))]
  BY Zenon DEF RecoverLocal
<1> DEFINE tree == Taken(r)
<1>0. \/ tree = {}
      \/ r.path \in DOMAIN v /\ tree = Tree(v, r.path)
  <2> DEFINE c == /\ r.path \in DOMAIN v
                  /\ ~\E p \in job[d].trashed : Within(r.path, p)
  <2>1. CASE c
    BY <2>1, Zenon
  <2>2. CASE ~c
    <3>1. tree = IF c THEN Tree(v, r.path) ELSE {}
      OBVIOUS
    <3> HIDE DEF c, tree
    <3> QED BY <2>2, <3>1
  <2> QED BY <2>1, <2>2
<1> HIDE DEF Taken
<1>3. IsSnapshot(v)
  BY <1>1 DEF LocalOK
<1>4. /\ base' = base /\ pc' = pc
      /\ shown' = shown /\ manifest' = manifest /\ drive' = drive
  BY DEF RecoverLocal, remoteVars, centerVars
<1>8. \E q : IsList(q) /\ queue' = [queue EXCEPT ![d] = q]
  <2>1. IsList(EventsElsewhere(queue[d], tree))
    BY <1>1, EventsElsewhereIsList DEF LocalOK
  <2> QED BY <1>2, <2>1, Zenon
<1>5. Step(d) /\ DriveKept
  BY <1>1, <1>2, <1>4, <1>8 DEF Step, VariablesOK, DriveKept
<1>6. IsSnapshot(vault'[d])
  <2>1. CASE tree = {}
    <3>1. DOMAIN v \ tree = DOMAIN v
      BY <2>1
    <3>2. v = [p \in DOMAIN v |-> v[p]]
      BY <1>3 DEF IsSnapshot
    <3>3. Restrict(v, DOMAIN v \ tree) = v
      BY <3>1, <3>2 DEF Restrict
    <3> QED BY <1>1, <1>2, <1>3, <3>3 DEF VariablesOK
  <2>2. CASE r.path \in DOMAIN v /\ tree = Tree(v, r.path)
    <3>1. IsSnapshot(Restrict(v, DOMAIN v \ tree))
      BY <1>3, <2>2, SnapshotPaths, RemoveTreeOK
    <3> QED BY <1>1, <1>2, <3>1 DEF VariablesOK
  <2> QED BY <1>0, <2>1, <2>2
<1>7. ExecutionOK(d)'
  <2>1. k = [j EXCEPT !.todo.recoveries = @ \ {r}, !.trashed = @ \cup tree]
    BY <1>1, <1>2 DEF VariablesOK
  <2>2. /\ "todo" \in DOMAIN j /\ "trashed" \in DOMAIN j
        /\ "recoveries" \in DOMAIN j.todo
    BY <1>1 DEF ExecutionOK, NoOperations
  <2> HIDE DEF j, k
  <2>3. /\ DOMAIN k = DOMAIN j
        /\ k.todo = [j.todo EXCEPT !.recoveries = @ \ {r}]
        /\ k.staged = j.staged
        /\ k.aside = j.aside /\ k.remote = j.remote /\ k.working = j.working
    BY <2>1, <2>2
  <2>4. /\ DOMAIN k.todo = DOMAIN j.todo
        /\ \A i \in DOMAIN NoOperations : k.todo[i] \subseteq j.todo[i]
    BY <1>1, <2>2, <2>3 DEF ExecutionOK, j
  <2>5. /\ \A s \in k.staged : IsPath(s.path)
        /\ k.aside = Nothing \/ IsPath(k.aside.path)
    BY <1>1, <2>3 DEF ExecutionOK, j
  <2> QED BY <1>1, <1>4, <1>5, <2>3, <2>4, <2>5, ProgressOnly DEF j, k
<1> QED BY <1>1, <1>5, <1>6, <1>7, StepOK
\* Objects move on Drive: the content behind an entry stays, and so does the
\* file that an entry names when its path changes.
LEMMA RemoteMoveOK ==
  ASSUME IInv, NEW d \in Device, RemoteMove(d)
  PROVE  IInv'
<1> DEFINE j == job[d]
           k == job'[d]
           entries == j.working.entries
           Parent(m) == FindParent(entries, m.to)
           After(m) == IF MoveNeeded(d, m)
                       THEN MovedEntries(entries, m.id, m.to, Parent(m))
                       ELSE entries
<1>1. LocalOK(d) /\ VariablesOK /\ ExecutionOK(d) /\ pc[d] = "executing"
  BY DEF IInv, JobOK, RemoteMove, DoneInstalling, DoneLocalMoves, Executing
<1>2. PICK m \in job[d].todo.remoteMoves :
        /\ \/ drive' = drive
           \/ drive' = [drive EXCEPT ![entries[m.id].file].parent =
                                         FolderFile(entries, Parent(m))]
        /\ job' = [job EXCEPT ![d].todo.remoteMoves = @ \ {m},
                              ![d].working.entries = After(m)]
  BY Zenon DEF RemoteMove
<1> DEFINE after == After(m)
<1>3. /\ IsEntries(after)
      /\ DOMAIN after = DOMAIN entries
      /\ \A i \in DOMAIN after : /\ after[i].file = entries[i].file
                                 /\ after[i].data = entries[i].data
  <2>1. IsEntries(entries) /\ IsPath(m.to)
    BY <1>1 DEF ExecutionOK, PathsOK, IsManifest
  <2>2. CASE MoveNeeded(d, m)
    <3>1. m.id \in DOMAIN entries
      BY <2>2 DEF MoveNeeded
    <3> DEFINE parent == Parent(m)
    <3>2. after = MovedEntries(entries, m.id, m.to, parent)
      BY <2>2
    <3> HIDE DEF after, parent, entries
    <3> QED BY <2>1, <3>1, <3>2, MovedEntriesOK
  <2>3. CASE ~MoveNeeded(d, m)
    <3>1. after = entries
      BY <2>3
    <3> QED BY <2>1, <3>1
  <2> QED BY <2>2, <2>3
<1>4. /\ vault' = vault /\ queue' = queue /\ base' = base /\ pc' = pc
      /\ shown' = shown /\ manifest' = manifest
  BY DEF RemoteMove, localVars, centerVars
<1>5. IsDrive(drive)' /\ DriveKept
  <2> DEFINE file == entries[m.id].file
             folder == FolderFile(entries, Parent(m))
  <2>1. drive' = drive \/ drive' = [drive EXCEPT ![file].parent = folder]
    BY <1>2, Zenon
  <2> HIDE DEF file, folder
  <2> QED BY <1>1, <2>1, ObjectMoved DEF VariablesOK
<1> HIDE DEF After, Parent
<1>6. k = [j EXCEPT !.todo.remoteMoves = @ \ {m}, !.working.entries = after]
  BY <1>1, <1>2 DEF VariablesOK
<1>7. Step(d)
  BY <1>1, <1>2, <1>4, <1>5 DEF Step, VariablesOK
<1>8. \A i \in DOMAIN after : /\ after[i].file \in DOMAIN drive'
                              /\ drive'[after[i].file].data = after[i].data
  <2>1. Backed(entries)
    BY <1>1 DEF ExecutionOK
  <2> HIDE DEF after, entries
  <2> QED BY <1>3, <1>5, <2>1 DEF Backed, DriveKept
<1> HIDE DEF after
<1>9. ExecutionOK(d)'
  <2> HIDE DEF j, k
  <2>1. /\ DOMAIN j = {"plan", "todo", "snap", "remote", "working", "staged",
                       "aside", "replaced", "trashed"}
        /\ DOMAIN j.todo = DOMAIN NoOperations
        /\ "remoteMoves" \in DOMAIN j.todo
        /\ j.working = [rev |-> j.working.rev, entries |-> j.working.entries,
                        tombs |-> j.working.tombs]
        /\ j.working.rev \in Nat
    BY <1>1 DEF ExecutionOK, j, NoOperations, IsManifest
  <2>2. /\ DOMAIN k = DOMAIN j
        /\ k.todo = [j.todo EXCEPT !.remoteMoves = @ \ {m}]
        /\ k.working = [j.working EXCEPT !.entries = after]
        /\ k.staged = j.staged /\ k.aside = j.aside /\ k.remote = j.remote
    BY <1>6, <2>1
  <2>3. /\ DOMAIN k.todo = DOMAIN j.todo
        /\ \A i \in DOMAIN NoOperations : k.todo[i] \subseteq j.todo[i]
    BY <2>1, <2>2
  <2>4. /\ k.working = [rev |-> j.working.rev, entries |-> after,
                        tombs |-> j.working.tombs]
        /\ k.working.entries = after /\ k.working.tombs = j.working.tombs
    BY <2>1, <2>2
  <2>5. /\ \A s \in k.staged : IsPath(s.path)
        /\ k.aside = Nothing \/ IsPath(k.aside.path)
    BY <1>1, <2>2 DEF ExecutionOK, j
  <2>6. IsManifest(k.working)
    BY <1>3, <2>1, <2>4 DEF IsManifest
  <2>7. Backed(job[d].working.entries)'
    BY <1>8, <2>4 DEF k, Backed
  <2> QED BY <1>1, <1>4, <1>5, <2>2, <2>3, <2>4, <2>5, <2>6, <2>7, ProgressOK
           DEF j, k
<1> QED BY <1>1, <1>4, <1>5, <1>7, <1>9, StepOK DEF LocalOK

LEMMA RecoverRemoteOK ==
  ASSUME IInv, NEW d \in Device, RecoverRemote(d)
  PROVE  IInv'
<1> DEFINE j == job[d]
           k == job'[d]
<1>1. LocalOK(d) /\ VariablesOK /\ ExecutionOK(d) /\ pc[d] = "executing"
  BY DEF IInv, JobOK, RecoverRemote, DoneRemoteMoves, DoneInstalling,
         DoneLocalMoves, Executing
<1>2. PICK r \in job[d].todo.recoveries :
        /\ drive' = IF RecoveryNeeded(d, r)
                    THEN [drive EXCEPT ![r.file].parent = RecoveryFolder]
                    ELSE drive
        /\ job' = [job EXCEPT ![d].todo.recoveries = @ \ {r}]
  BY Zenon DEF RecoverRemote
<1>3. /\ vault' = vault /\ queue' = queue /\ base' = base /\ pc' = pc
      /\ shown' = shown /\ manifest' = manifest
  BY DEF RecoverRemote, localVars, centerVars
<1>4. IsDrive(drive)' /\ DriveKept
  BY <1>1, <1>2, ObjectMoved DEF VariablesOK
<1>5. Step(d)
  BY <1>1, <1>2, <1>3, <1>4 DEF Step, VariablesOK
<1>6. ExecutionOK(d)'
  <2>1. k = [j EXCEPT !.todo.recoveries = @ \ {r}]
    BY <1>1, <1>2 DEF VariablesOK
  <2>2. "todo" \in DOMAIN j /\ "recoveries" \in DOMAIN j.todo
    BY <1>1 DEF ExecutionOK, NoOperations
  <2> HIDE DEF j, k
  <2>3. /\ DOMAIN k = DOMAIN j
        /\ k.todo = [j.todo EXCEPT !.recoveries = @ \ {r}]
        /\ k.staged = j.staged
        /\ k.aside = j.aside /\ k.remote = j.remote /\ k.working = j.working
    BY <2>1, <2>2
  <2>4. /\ DOMAIN k.todo = DOMAIN j.todo
        /\ \A i \in DOMAIN NoOperations : k.todo[i] \subseteq j.todo[i]
    BY <1>1, <2>2, <2>3 DEF ExecutionOK, j
  <2>5. /\ \A s \in k.staged : IsPath(s.path)
        /\ k.aside = Nothing \/ IsPath(k.aside.path)
    BY <1>1, <2>3 DEF ExecutionOK, j
  <2> QED BY <1>1, <1>3, <1>4, <2>3, <2>4, <2>5, ProgressOnly DEF j, k
<1> QED BY <1>1, <1>3, <1>4, <1>5, <1>6, StepOK DEF LocalOK

LEMMA RetireOK ==
  ASSUME IInv, NEW d \in Device, Retire(d)
  PROVE  IInv'
<1> DEFINE j == job[d]
           k == job'[d]
<1>1. LocalOK(d) /\ VariablesOK /\ ExecutionOK(d) /\ pc[d] = "retiring"
  BY DEF IInv, JobOK, Retire
<1>2. PICK r \in job[d].replaced :
        /\ drive' = IF Verified(d, r.id, r.file, r.folder)
                    THEN [drive EXCEPT ![r.file].parent = RecoveryFolder]
                    ELSE drive
        /\ job' = [job EXCEPT ![d].replaced = @ \ {r}]
  BY Zenon DEF Retire
<1>3. /\ vault' = vault /\ queue' = queue /\ base' = base /\ pc' = pc
      /\ shown' = shown /\ manifest' = manifest
  BY DEF Retire, localVars, centerVars
<1>4. IsDrive(drive)' /\ DriveKept
  BY <1>1, <1>2, ObjectMoved DEF VariablesOK
<1>5. Step(d)
  BY <1>1, <1>2, <1>3, <1>4 DEF Step, VariablesOK
<1>6. ExecutionOK(d)'
  <2>1. k = [j EXCEPT !.replaced = @ \ {r}]
    BY <1>1, <1>2 DEF VariablesOK
  <2>2. "replaced" \in DOMAIN j
    BY <1>1 DEF ExecutionOK
  <2> HIDE DEF j, k
  <2>3. /\ DOMAIN k = DOMAIN j /\ k.todo = j.todo /\ k.staged = j.staged
        /\ k.aside = j.aside /\ k.remote = j.remote /\ k.working = j.working
    BY <2>1, <2>2
  <2>4. /\ \A s \in k.staged : IsPath(s.path)
        /\ k.aside = Nothing \/ IsPath(k.aside.path)
    BY <1>1, <2>3 DEF ExecutionOK, j
  <2> QED BY <1>1, <1>3, <1>4, <2>3, <2>4, ProgressOnly DEF j, k
<1> QED BY <1>1, <1>3, <1>4, <1>5, <1>6, StepOK DEF LocalOK
------------------------------------------------------------------------------
(* Commit and end *)

LEMMA NextManifestStays ==
  ASSUME NEW d, job'[d] = job[d]
  PROVE  NextManifest(d)' = NextManifest(d)
BY DEF NextManifest

\* Every manifest that was published is one of an earlier revision now.
LEMMA CommitOK ==
  ASSUME IInv, NEW d \in Device, Commit(d)
  PROVE  IInv'
<1> DEFINE next == NextManifest(d)
<1>1. VariablesOK /\ ExecutionOK(d) /\ pc[d] = "executing"
  BY DEF IInv, JobOK, Commit, DoneRecoveries, DoneRemoteMoves, DoneInstalling,
         DoneLocalMoves, Executing
<1>2. /\ Valid(next) /\ manifest.rev = job[d].remote.rev /\ manifest' = next
      /\ pc' = [pc EXCEPT ![d] = "committed"]
      /\ vault' = vault /\ queue' = queue /\ base' = base /\ drive' = drive
      /\ job' = job /\ shown' = shown
  BY DEF Commit, localVars, centerVars
<1>3. /\ IsManifest(next) /\ Backed(next.entries)
      /\ next.rev = manifest.rev + 1
  BY <1>1, <1>2, NextManifestOK
<1> HIDE DEF next
<1>4. manifest.rev \in Nat
  BY DEF IInv, ManifestOK, IsManifest
<1>5. ASSUME NEW m, Published(m), m.rev \in Nat
      PROVE  m.rev <= manifest'.rev /\ m.rev # manifest'.rev
  BY <1>2, <1>3, <1>4, <1>5 DEF Published
<1>6. VariablesOK'
  BY <1>1, <1>2 DEF VariablesOK
<1>7. ManifestOK'
  BY <1>2, <1>3 DEF ManifestOK, Backed
<1>8. ASSUME NEW e \in Device PROVE LocalOK(e)'
  <2>1. LocalOK(e)
    BY DEF IInv
  <2>2. base[e].rev \in Nat
    BY <2>1 DEF LocalOK, IsManifest
  <2>3. base[e].rev <= manifest'.rev /\ base[e].rev # manifest'.rev
    BY <1>5, <2>1, <2>2 DEF LocalOK
  <2>4. Published(base[e])'
    BY <1>2, <2>3 DEF Published
  <2> QED BY <1>2, <2>1, <2>4 DEF LocalOK
<1>9. ASSUME NEW e \in Device, ExecutionOK(e) PROVE ExecutionOK(e)'
  <2>1. job[e].remote.rev \in Nat
    BY <1>9 DEF ExecutionOK, IsManifest
  <2>2. /\ job[e].remote.rev <= manifest'.rev
        /\ job[e].remote.rev # manifest'.rev
    BY <1>5, <1>9, <2>1 DEF ExecutionOK
  <2>3. Published(job[e].remote)'
    BY <1>2, <2>2 DEF Published
  <2> QED BY <1>2, <1>9, <2>3 DEF ExecutionOK, Backed
<1>10. JobOK(d)'
  <2>1. pc'[d] = "committed"
    BY <1>1, <1>2 DEF VariablesOK
  <2>2. NextManifest(d)' = manifest'
    BY <1>2, NextManifestStays DEF next
  <2>3. Valid(NextManifest(d))'
    BY <1>2, <2>2
  <2>4. Published(NextManifest(d))'
    BY <1>2, <1>3, <1>4, <2>2 DEF Published
  <2> QED BY <1>1, <1>9, <2>1, <2>3, <2>4 DEF JobOK
<1>11. ASSUME NEW e \in Device \ {d} PROVE JobOK(e)'
  <2>1. JobOK(e) /\ pc'[e] = pc[e]
    BY <1>1, <1>2 DEF IInv, VariablesOK
  <2>2. NextManifest(e)' = NextManifest(e)
    BY <1>2, NextManifestStays
  <2>3. ASSUME pc[e] = "committed"
        PROVE  Valid(NextManifest(e))' /\ Published(NextManifest(e))'
    <3>1. /\ ExecutionOK(e)
          /\ Valid(NextManifest(e)) /\ Published(NextManifest(e))
      BY <2>1, <2>3 DEF JobOK
    <3>2. NextManifest(e).rev \in Nat
      BY <3>1, NextManifestOK DEF IsManifest
    <3>3. /\ NextManifest(e).rev <= manifest'.rev
          /\ NextManifest(e).rev # manifest'.rev
      BY <1>5, <3>1, <3>2
    <3> QED BY <2>2, <3>1, <3>3 DEF Published
  <2> QED BY <1>2, <1>9, <2>1, <2>3 DEF JobOK
<1> QED BY <1>6, <1>7, <1>8, <1>10, <1>11 DEF IInv

\* What becomes the base was committed.
LEMMA SaveStateOK ==
  ASSUME IInv, NEW d \in Device, SaveState(d)
  PROVE  IInv'
<1> DEFINE next == NextManifest(d)
<1>1. LocalOK(d) /\ VariablesOK /\ ExecutionOK(d) /\ pc[d] = "committed"
  BY DEF IInv, JobOK, SaveState
<1>2. IsManifest(next) /\ Valid(next) /\ Published(next)
  BY <1>1, NextManifestOK DEF IInv, JobOK
<1>3. /\ base' = [base EXCEPT ![d] = next]
      /\ pc' = [pc EXCEPT ![d] = "retiring"]
      /\ vault' = vault /\ queue' = queue /\ manifest' = manifest
      /\ drive' = drive /\ job' = job /\ shown' = shown
  BY DEF SaveState, localVars, remoteVars, centerVars
<1> HIDE DEF next
<1>4. Frame(d) /\ DriveKept
  BY <1>1, <1>3 DEF Frame, VariablesOK, DriveKept
<1>5. LocalOK(d)'
  <2>1. base'[d] = next
    BY <1>1, <1>3 DEF VariablesOK
  <2> QED BY <1>1, <1>2, <1>3, <2>1 DEF LocalOK, Published
<1>6. JobOK(d)'
  <2>1. pc'[d] = "retiring"
    BY <1>1, <1>3 DEF VariablesOK
  <2>2. ExecutionOK(d)'
    BY <1>1, <1>3 DEF ExecutionOK, Published, Backed
  <2> QED BY <2>1, <2>2 DEF JobOK
<1> QED BY <1>3, <1>4, <1>5, <1>6, StepOfOne

LEMMA FinishOK ==
  ASSUME IInv, NEW d \in Device, Finish(d)
  PROVE  IInv'
<1>1. LocalOK(d) /\ VariablesOK
  BY DEF IInv
<1>2. /\ Idle(d) /\ vault' = vault /\ queue' = queue /\ base' = base
      /\ shown' = shown /\ manifest' = manifest /\ drive' = drive
  BY DEF Finish, localVars, remoteVars
<1> QED BY <1>1, <1>2, EndOK DEF LocalOK, VariablesOK

\* A backup that is put back finds its place empty, and its folder there.
LEMMA InterruptOK ==
  ASSUME IInv, NEW d \in Device, Interrupt(d)
  PROVE  IInv'
<1> DEFINE v == vault[d]
           back == job[d].aside
<1>1. LocalOK(d) /\ VariablesOK /\ JobOK(d)
  BY DEF IInv
<1>2. /\ Idle(d) /\ queue' = queue /\ base' = base
      /\ shown' = shown /\ manifest' = manifest /\ drive' = drive
  BY DEF Interrupt, remoteVars, centerVars
<1>3. \/ vault' = vault
      \/ /\ pc[d] = "executing" /\ back # Nothing
         /\ back.path \notin DOMAIN v /\ ParentExists(v, back.path)
         /\ vault' = [vault EXCEPT ![d] = [p \in {back.path} |-> back.data] ++ v]
  BY Zenon DEF Interrupt
<1>4. /\ DOMAIN vault' = Device /\ IsSnapshot(vault'[d])
      /\ \A e \in Device \ {d} : vault'[e] = vault[e]
  <2>1. DOMAIN vault = Device /\ IsSnapshot(v)
    BY <1>1 DEF VariablesOK, LocalOK
  <2>2. CASE vault' = vault
    BY <2>1, <2>2
  <2>3. CASE /\ pc[d] = "executing" /\ back # Nothing
             /\ back.path \notin DOMAIN v /\ ParentExists(v, back.path)
             /\ vault' = [vault EXCEPT
                            ![d] = [p \in {back.path} |-> back.data] ++ v]
    <3>1. IsPath(back.path)
      BY <1>1, <2>3 DEF JobOK, ExecutionOK
    <3>2. IsSnapshot([p \in {back.path} |-> back.data] ++ v)
      <4>1. \A q \in FoldersOf(back.path) : q \in DOMAIN v /\ v[q] = Folder
        BY <2>1, <2>3, <3>1, ParentExistsMeans
      <4> HIDE DEF v, back
      <4> QED BY <2>1, <2>3, <3>1, <4>1, PutOK
    <3> HIDE DEF back
    <3> QED BY <2>1, <2>3, <3>2
  <2> QED BY <1>3, <2>2, <2>3
<1> QED BY <1>1, <1>2, <1>4, EndOK DEF LocalOK, VariablesOK

LEMMA CrashOK ==
  ASSUME IInv, NEW d \in Device, Crash(d)
  PROVE  IInv'
<1>1. LocalOK(d) /\ VariablesOK
  BY DEF IInv
<1>2. /\ Idle(d) /\ queue' = [queue EXCEPT ![d] = <<>>] /\ base' = base
      /\ vault' = vault /\ shown' = [shown EXCEPT ![d] = {}]
      /\ manifest' = manifest /\ drive' = drive
  BY DEF Crash, remoteVars
<1>3. /\ DOMAIN shown' = Device /\ shown'[d] = {}
      /\ \A e \in Device \ {d} : shown'[e] = shown[e]
  BY <1>1, <1>2 DEF VariablesOK
<1> QED BY <1>1, <1>2, <1>3, EndOK DEF LocalOK, VariablesOK
------------------------------------------------------------------------------
(* The start *)

\* Everything in a finite set has its place.
LEMMA SetHasOrder ==
  ASSUME NEW S, IsFiniteSet(S), NEW s, s = SetToSeq(S)
  PROVE  /\ s \in Seq(S) /\ Len(s) \in Nat /\ DOMAIN s = 1..Len(s)
         /\ \A x \in S : \E n \in 1..Len(s) : s[n] = x
<1> DEFINE n == Cardinality(S)
<1>1. n \in Nat /\ ExistsBijection(1..n, S)
  BY FS_CardinalityType
<1>2. \E f \in [1..n -> S] : IsInjective(f)
  BY <1>1 DEF ExistsBijection, Bijection, Injection
<1>3. s \in [1..n -> S] /\ IsInjective(s)
  BY <1>2 DEF SetToSeq
<1>4. Cardinality(1..n) = n
  <2>1. 1 \in Int /\ n \in Int
    BY <1>1
  <2>2. Cardinality(1..n) = IF 1 > n THEN 0 ELSE n - 1 + 1
    <3> HIDE DEF n
    <3> QED BY <2>1, FS_Interval, Zenon
  <2> HIDE DEF n
  <2> QED BY <1>1, <2>2
<1>5. s \in Injection(1..n, S)
  BY <1>3 DEF Injection
<1>6. s \in Surjection(1..n, S)
  BY <1>4, <1>5, FS_Injection, Zenon
<1>7. \A x \in S : \E i \in 1..n : s[i] = x
  BY <1>6 DEF Surjection
<1> HIDE DEF n
<1>8. s \in Seq(S) /\ Len(s) = n
  BY <1>1, <1>3
<1> QED BY <1>1, <1>3, <1>7, <1>8

LEMMA InitialFiles ==
  /\ InitialPaths \in Seq(DOMAIN Initial)
  /\ Len(InitialPaths) \in Nat
  /\ DOMAIN InitialPaths = 1..Len(InitialPaths)
  /\ \A p \in DOMAIN Initial : /\ InitialFile(p) \in 1..Len(InitialPaths)
                               /\ InitialPaths[InitialFile(p)] = p
<1>1. IsFiniteSet(DOMAIN Initial)
  BY PathAssumption DEF IsSnapshot
<1>2. /\ InitialPaths \in Seq(DOMAIN Initial)
      /\ Len(InitialPaths) \in Nat
      /\ DOMAIN InitialPaths = 1..Len(InitialPaths)
      /\ \A x \in DOMAIN Initial :
           \E n \in 1..Len(InitialPaths) : InitialPaths[n] = x
  BY <1>1, SetHasOrder, Zenon DEF InitialPaths
<1>3. ASSUME NEW p \in DOMAIN Initial
      PROVE  /\ InitialFile(p) \in 1..Len(InitialPaths)
             /\ InitialPaths[InitialFile(p)] = p
  <2>1. \E n \in 1..Len(InitialPaths) : InitialPaths[n] = p
    BY <1>2, <1>3
  <2> QED BY <2>1, Zenon DEF InitialFile
<1> QED BY <1>2, <1>3

InitialParent(p) == IF Len(p) = 1 THEN None ELSE InitialId(Front(p))

\* The entries of the first manifest, by the paths they are made from.
LEMMA InitialEntries ==
  LET entries == InitialManifest.entries IN
    /\ entries = [i \in DOMAIN entries |-> entries[i]]
    /\ DOMAIN entries = {InitialId(p) : p \in DOMAIN Initial}
    /\ \A p \in DOMAIN Initial :
         LET e == entries[InitialId(p)] IN
           /\ e = [path |-> e.path, data |-> e.data, file |-> e.file,
                   parent |-> e.parent]
           /\ e.path = p /\ e.data = Initial[p]
           /\ e.file = InitialFile(p) /\ e.parent = InitialParent(p)
<1> DEFINE Entry(id) ==
             [path |-> id[2], data |-> id[3], file |-> InitialFile(id[2]),
              parent |-> InitialParent(id[2])]
           ids == {InitialId(p) : p \in DOMAIN Initial}
           entries == InitialManifest.entries
<1>1. entries = [id \in ids |-> Entry(id)]
  BY Zenon DEF InitialManifest, InitialParent
<1>2. ASSUME NEW p \in DOMAIN Initial
      PROVE  LET e == entries[InitialId(p)] IN
               /\ e = [path |-> e.path, data |-> e.data, file |-> e.file,
                       parent |-> e.parent]
               /\ e.path = p /\ e.data = Initial[p]
               /\ e.file = InitialFile(p) /\ e.parent = InitialParent(p)
  <2> DEFINE i == InitialId(p)
             e == entries[i]
  <2>1. i[2] = p /\ i[3] = Initial[p]
    BY DEF InitialId
  <2>2. i \in ids
    OBVIOUS
  <2> HIDE DEF i, entries, ids
  <2>3. e = Entry(i)
    <3> HIDE DEF Entry
    <3> QED BY <1>1, <2>2
  <2> HIDE DEF e
  <2>4. e = [path |-> p, data |-> Initial[p], file |-> InitialFile(p),
             parent |-> InitialParent(p)]
    BY <2>1, <2>3
  <2>5. /\ e = [path |-> e.path, data |-> e.data, file |-> e.file,
                parent |-> e.parent]
        /\ e.path = p /\ e.data = Initial[p]
        /\ e.file = InitialFile(p) /\ e.parent = InitialParent(p)
    BY <2>4
  <2> QED BY <2>5, Zenon DEF i, e, entries
<1>3. entries = [i \in DOMAIN entries |-> entries[i]] /\ DOMAIN entries = ids
  <2> HIDE DEF Entry, entries, ids
  <2> QED BY <1>1
<1> QED BY <1>2, <1>3, Zenon

LEMMA InitialFolder ==
  ASSUME NEW p \in DOMAIN Initial, Len(p) # 1
  PROVE  Front(p) \in DOMAIN Initial /\ Initial[Front(p)] = Folder
<1>1. IsPath(p) /\ \A q \in FoldersOf(p) : q \in DOMAIN Initial /\ Initial[q] = Folder
  BY PathAssumption, SnapshotPaths
<1>2. Front(p) \in FoldersOf(p)
  <2> DEFINE n == Len(p) - 1
  <2>1. n \in 1..n
    <3>1. Len(p) \in Nat \ {0}
      BY <1>1, PathIsSequence
    <3> QED BY <3>1
  <2>2. Front(p) = SubSeq(p, 1, n)
    BY DEF Front
  <2>3. FoldersOf(p) = {SubSeq(p, 1, i) : i \in 1..n}
    BY DEF FoldersOf
  <2> HIDE DEF n
  <2> QED BY <2>1, <2>2, <2>3
<1> QED BY <1>1, <1>2

LEMMA InitialManifestOK ==
  IsManifest(InitialManifest) /\ Valid(InitialManifest)
<1> DEFINE entries == InitialManifest.entries
           ids == DOMAIN entries
<1>1. /\ entries = [i \in ids |-> entries[i]]
      /\ ids = {InitialId(p) : p \in DOMAIN Initial}
  BY InitialEntries, Zenon
<1>2. /\ InitialManifest = [rev |-> InitialManifest.rev, entries |-> entries,
                            tombs |-> InitialManifest.tombs]
      /\ InitialManifest.rev = 0
      /\ DOMAIN InitialManifest.tombs = {}
  <2> DEFINE e == [id \in {InitialId(p) : p \in DOMAIN Initial} |->
                     [path |-> id[2], data |-> id[3],
                      file |-> InitialFile(id[2]),
                      parent |-> IF Len(id[2]) = 1 THEN None
                                 ELSE InitialId(Front(id[2]))]]
             t == [id \in {} |-> None]
             m == InitialManifest
  <2>1. m = [rev |-> 0, entries |-> e, tombs |-> t]
    BY Zenon DEF InitialManifest
  <2>2. DOMAIN t = {}
    OBVIOUS
  <2> HIDE DEF e, t, m
  <2>3. /\ m = [rev |-> m.rev, entries |-> m.entries, tombs |-> m.tombs]
        /\ m.rev = 0 /\ DOMAIN m.tombs = {}
    BY <2>1, <2>2
  <2> QED BY <2>3 DEF m
<1> HIDE DEF entries, ids
<1>3. \A i \in ids : \E p \in DOMAIN Initial :
        /\ i = InitialId(p)
        /\ entries[i].path = p
        /\ entries[i].file = InitialFile(p)
        /\ entries[i].parent = InitialParent(p)
        /\ IsEntry(entries[i])
  <2> TAKE i \in ids
  <2>1. PICK p \in DOMAIN Initial : i = InitialId(p)
    BY <1>1
  <2>2. /\ entries[i] = [path |-> entries[i].path, data |-> entries[i].data,
                         file |-> entries[i].file, parent |-> entries[i].parent]
        /\ entries[i].path = p
        /\ entries[i].file = InitialFile(p)
        /\ entries[i].parent = InitialParent(p)
    BY <2>1, InitialEntries, Zenon DEF entries
  <2>3. IsPath(p)
    BY PathAssumption, SnapshotPaths
  <2> QED BY <2>1, <2>2, <2>3, Zenon DEF IsEntry
<1>4. IsEntries(entries)
  <2>1. IsFiniteSet(ids)
    <3> DEFINE f == [p \in DOMAIN Initial |-> InitialId(p)]
    <3>1. IsFiniteSet(DOMAIN Initial)
      BY PathAssumption DEF IsSnapshot
    <3>2. DOMAIN f = DOMAIN Initial /\ ids = {f[p] : p \in DOMAIN Initial}
      BY <1>1
    <3> HIDE DEF f
    <3> QED BY <3>1, <3>2, ImageFinite, Zenon
  <2>2. \A i \in ids : IsEntry(entries[i])
    BY <1>3
  <2> QED BY <1>1, <2>1, <2>2 DEF IsEntries, ids
<1>5. IsManifest(InitialManifest)
  BY <1>2, <1>4 DEF IsManifest, entries
<1>6. ASSUME NEW i \in ids, NEW j \in ids, i # j
      PROVE  entries[i].file # entries[j].file /\ entries[i].path # entries[j].path
  <2>1. PICK p \in DOMAIN Initial :
          /\ i = InitialId(p)
          /\ entries[i].file = InitialFile(p) /\ entries[i].path = p
    BY <1>3
  <2>2. PICK q \in DOMAIN Initial :
          /\ j = InitialId(q)
          /\ entries[j].file = InitialFile(q) /\ entries[j].path = q
    BY <1>3
  <2>3. p # q
    BY <1>6, <2>1, <2>2
  <2>4. InitialFile(p) # InitialFile(q)
    BY <2>3, InitialFiles
  <2> QED BY <2>1, <2>2, <2>3, <2>4
<1>7. ASSUME NEW i \in ids, entries[i].parent # None
      PROVE  entries[i].parent \in ids /\ entries[entries[i].parent].data = Folder
  <2>1. PICK p \in DOMAIN Initial : entries[i].parent = InitialParent(p)
    BY <1>3
  <2> DEFINE f == Front(p)
  <2>2. Len(p) # 1 /\ entries[i].parent = InitialId(f)
    BY <1>7, <2>1 DEF InitialParent
  <2>3. f \in DOMAIN Initial /\ Initial[f] = Folder
    BY <2>2, InitialFolder
  <2> HIDE DEF f
  <2>4. InitialId(f) \in ids
    BY <1>1, <2>3
  <2>5. entries[InitialId(f)].data = Initial[f]
    BY <2>3, InitialEntries, Zenon DEF entries
  <2> QED BY <2>2, <2>3, <2>4, <2>5
<1>8. Valid(InitialManifest)
  <2>1. ids \cap DOMAIN InitialManifest.tombs = {}
    BY <1>2
  <2> QED BY <1>6, <1>7, <2>1, Zenon DEF Valid, entries, ids
<1> QED BY <1>5, <1>8

LEMMA InitOK ==
  ASSUME Init
  PROVE  IInv
<1> DEFINE entries == InitialManifest.entries
           n == Len(InitialPaths)
           Place(p) == IF Len(p) = 1 THEN Root ELSE InitialFile(Front(p))
<1>1. /\ vault = [d \in Device |-> Initial]
      /\ queue = [d \in Device |-> <<>>]
      /\ base = [d \in Device |-> InitialManifest]
      /\ manifest = InitialManifest
      /\ pc = [d \in Device |-> "idle"]
      /\ job = [d \in Device |-> Nothing]
      /\ shown = [d \in Device |-> {}]
  BY DEF Init
<1>2. drive = [i \in 1..n |-> [data |-> Initial[InitialPaths[i]],
                               parent |-> Place(InitialPaths[i])]]
  BY Zenon DEF Init
<1>3. IsManifest(InitialManifest) /\ Valid(InitialManifest)
  BY InitialManifestOK
<1> HIDE DEF Place
<1>4. /\ DOMAIN drive = 1..n
      /\ \A i \in 1..n : /\ drive[i] = [data |-> drive[i].data,
                                        parent |-> drive[i].parent]
                         /\ drive[i].data = Initial[InitialPaths[i]]
  <2> HIDE DEF n
  <2> QED BY <1>2
<1>5. IsDrive(drive)
  <2> DEFINE S == {drive[i] : i \in 1..n}
  <2>1. drive \in [1..n -> S]
    <3>1. \A i \in 1..n : drive[i] \in S
      OBVIOUS
    <3> HIDE DEF S, n
    <3> QED BY <1>2, <3>1
  <2> HIDE DEF S
  <2>2. drive \in Seq(S)
    <3>1. n \in Nat
      BY InitialFiles
    <3> HIDE DEF n
    <3> QED BY <2>1, <3>1
  <2> QED BY <1>4, <2>2, SequenceIsList DEF IsDrive
<1>6. Backed(entries)
  <2> SUFFICES ASSUME NEW i \in DOMAIN entries
               PROVE  /\ entries[i].file \in DOMAIN drive
                      /\ drive[entries[i].file].data = entries[i].data
    BY DEF Backed
  <2>1. PICK p \in DOMAIN Initial :
          entries[i].file = InitialFile(p) /\ entries[i].data = Initial[p]
    <3>1. PICK p \in DOMAIN Initial : i = InitialId(p)
      BY InitialEntries
    <3>2. entries[i].file = InitialFile(p) /\ entries[i].data = Initial[p]
      BY <3>1, InitialEntries, Zenon
    <3> QED BY <3>2
  <2>2. InitialFile(p) \in 1..n /\ InitialPaths[InitialFile(p)] = p
    BY InitialFiles
  <2> HIDE DEF n, entries
  <2> QED BY <1>4, <2>1, <2>2
<1>7. VariablesOK
  BY <1>1, <1>5 DEF VariablesOK
<1>8. ManifestOK
  BY <1>1, <1>3, <1>6 DEF ManifestOK
<1>9. ASSUME NEW d \in Device PROVE LocalOK(d) /\ JobOK(d)
  <2>1. Published(InitialManifest)
    <3>1. InitialManifest.rev \in Nat
      BY <1>3 DEF IsManifest
    <3> HIDE DEF entries
    <3> QED BY <1>1, <3>1 DEF Published
  <2>2. LocalOK(d)
    BY <1>1, <1>3, <2>1, EmptyIsList, PathAssumption DEF LocalOK
  <2>3. JobOK(d)
    BY <1>1 DEF JobOK
  <2> QED BY <2>2, <2>3
<1> QED BY <1>7, <1>8, <1>9 DEF IInv
------------------------------------------------------------------------------
(* Every step *)

LEMMA ExecuteOK ==
  ASSUME IInv, NEW d \in Device, Execute(d)
  PROVE  IInv'
<1>1. CASE ExecuteUpload(d)
  BY <1>1, ExecuteUploadOK
<1>2. CASE StageDownload(d)
  BY <1>2, StageDownloadOK
<1>3. CASE LocalMove(d)
  BY <1>3, LocalMoveOK
<1>4. CASE LocalMoveFails(d)
  BY <1>4, LocalMoveFailsOK
<1>5. CASE SetAside(d)
  BY <1>5, SetAsideOK
<1>6. CASE Install(d)
  BY <1>6, InstallOK
<1>7. CASE RemoteMove(d)
  BY <1>7, RemoteMoveOK
<1>8. CASE RecoverLocal(d)
  BY <1>8, RecoverLocalOK
<1>9. CASE RecoverRemote(d)
  BY <1>9, RecoverRemoteOK
<1>10. CASE Commit(d)
  BY <1>10, CommitOK
<1>11. CASE SaveState(d)
  BY <1>11, SaveStateOK
<1>12. CASE Retire(d)
  BY <1>12, RetireOK
<1>13. CASE Finish(d)
  BY <1>13, FinishOK
<1>14. CASE \/ LocalChanged(d) \/ DownloadDenied(d) \/ InstallFails(d)
            \/ MoveDenied(d) \/ RecoveryDenied(d) \/ CommitRefused(d)
  BY <1>14, AbortOK DEF LocalChanged, DownloadDenied, InstallFails, MoveDenied,
                        RecoveryDenied, CommitRefused
<1> QED BY <1>1, <1>2, <1>3, <1>4, <1>5, <1>6, <1>7, <1>8, <1>9, <1>10, <1>11,
           <1>12, <1>13, <1>14 DEF Execute

LEMMA StepKeepsInvariant ==
  ASSUME IInv, [Next]_vars
  PROVE  IInv'
<1>1. ASSUME NEW d \in Device, Edit(d) PROVE IInv'
  <2>1. CASE \E p \in FilePath, c \in Content : Write(d, p, c)
    BY <2>1, WriteOK
  <2>2. CASE \E p \in FolderPath : MakeFolder(d, p)
    BY <2>2, MakeFolderOK
  <2>3. CASE \E p \in FilePath \cup FolderPath : Delete(d, p)
    BY <2>3, DeleteOK
  <2>4. CASE \E p, q \in FilePath : Rename(d, p, q)
    BY <2>4, RenameOK
  <2>5. CASE \E p, q \in FolderPath : Rename(d, p, q)
    BY <2>5, RenameOK
  <2> QED BY <1>1, <2>1, <2>2, <2>3, <2>4, <2>5 DEF Edit
<1>2. ASSUME NEW d \in Device, Resolve(d) PROVE IInv'
  BY <1>2, ChooseOK, MergeOK DEF Resolve
<1>3. ASSUME NEW d \in Device, Sync(d) PROVE IInv'
  BY <1>3, ScanOK, PlanEndsOK, StartOK, ExecuteOK DEF Sync
<1>4. CASE UNCHANGED vars
  <2>1. /\ vault' = vault /\ queue' = queue /\ base' = base
        /\ manifest' = manifest /\ drive' = drive /\ pc' = pc /\ job' = job
        /\ shown' = shown
    BY <1>4 DEF vars, localVars, remoteVars, centerVars
  <2>2. VariablesOK'
    BY <2>1 DEF IInv, VariablesOK
  <2>3. ManifestOK'
    BY <2>1 DEF IInv, ManifestOK, Backed
  <2>4. ASSUME NEW d \in Device PROVE LocalOK(d)' /\ JobOK(d)'
    <3>1. LocalOK(d) /\ JobOK(d)
      BY DEF IInv
    <3>2. DriveKept
      BY <2>1 DEF DriveKept
    <3>3. LocalOK(d)'
      BY <2>1, <3>1 DEF LocalOK, Published
    <3>4. JobOK(d)'
      BY <2>1, <3>1, <3>2, JobStays
    <3> QED BY <3>3, <3>4
  <2> QED BY <2>2, <2>3, <2>4 DEF IInv
<1>5. CASE Next
  BY <1>1, <1>2, <1>3, <1>5, PlanEndsOK, InterruptOK, CrashOK DEF Next
<1> QED BY <1>4, <1>5

\* In every state that can be reached, whoever edits, synchronizes, fails or
\* stops when: vaults are what a file system holds, the manifest and the bases
\* are valid and of one history, and what the manifests name is on Drive.
THEOREM Invariant == Spec => []IInv
<1>1. Init => IInv
  BY InitOK
<1>2. IInv /\ [Next]_vars => IInv'
  BY StepKeepsInvariant
<1> QED BY <1>1, <1>2, PTL DEF Spec

\* A vault never holds something in a folder it does not have, no manifest that
\* validateManifest would refuse is on Drive or in a state file, and a device
\* has something in memory exactly when it synchronizes.
THEOREM TypeCorrect == Spec => []TypeOK
<1>1. IInv => TypeOK
  <2> SUFFICES ASSUME IInv PROVE TypeOK
    OBVIOUS
  <2>1. manifest.rev \in Nat /\ Valid(manifest)
    BY DEF IInv, ManifestOK, IsManifest
  <2>2. ASSUME NEW d \in Device
        PROVE  Valid(base[d]) /\ IsTree(vault[d])
    BY DEF IInv, LocalOK, IsSnapshot
  <2>3. ASSUME NEW d \in Device
        PROVE  job[d] = Nothing <=> pc[d] = "idle"
    <3>1. JobOK(d) /\ VariablesOK
      BY DEF IInv
    <3>2. DOMAIN Nothing = {"nothing"}
      BY DEF Nothing
    <3>3. CASE pc[d] = "idle"
      BY <3>1, <3>3 DEF JobOK
    <3>4. CASE pc[d] = "scanned"
      <4>1. DOMAIN job[d] = {"snap"}
        BY <3>1, <3>4 DEF JobOK
      <4> QED BY <3>2, <3>4, <4>1
    <3>5. CASE pc[d] \in {"executing", "committed", "retiring"}
      <4>1. "plan" \in DOMAIN job[d]
        BY <3>1, <3>5 DEF JobOK, ExecutionOK
      <4> QED BY <3>2, <3>5, <4>1
    <3> QED BY <3>1, <3>3, <3>4, <3>5 DEF VariablesOK
  <2> QED BY <2>1, <2>2, <2>3 DEF TypeOK, IInv, VariablesOK
<1> QED BY <1>1, Invariant, PTL

\* Whatever entries move and whatever objects are created, moved and retired,
\* the object an entry of the manifest names is there and has its content.
THEOREM BackedAlways == Spec => []EntriesBacked
<1>1. IInv => EntriesBacked
  BY DEF IInv, ManifestOK, Backed, EntriesBacked
<1> QED BY <1>1, Invariant, PTL

\* A device that finds nothing to do, whatever the rename events, the contents
\* and the choices of its user led it to take for the same object, has exactly
\* what the manifest says in its vault.
THEOREM UpToDateTells == Spec => []UpToDateIsTrue
<1>1. IInv => UpToDateIsTrue
  <2> SUFFICES ASSUME IInv, NEW d \in Device, pc[d] = "scanned",
                      IsNoOp(PlanOf(d))
               PROVE  job[d].snap = ViewOf(manifest)
    BY DEF UpToDateIsTrue
  <2> DEFINE snap == job[d].snap
             entries == manifest.entries
             plan == PlanSync(base[d], manifest, snap, queue[d])
  <2>1. IsFiniteSet(DOMAIN base[d].entries) /\ DistinctPaths(base[d].entries)
    <3>1. IsManifest(base[d]) /\ Valid(base[d])
      BY DEF IInv, LocalOK
    <3> QED BY <3>1 DEF IsManifest, IsEntries, Valid, DistinctPaths
  <2>2. IsSnapshot(snap)
    BY DEF IInv, JobOK
  <2>3. IsFiniteSet(DOMAIN snap) /\ snap = [p \in DOMAIN snap |-> snap[p]]
    BY <2>2 DEF IsSnapshot
  <2>4. Len(queue[d]) \in Nat /\ DOMAIN queue[d] = 1..Len(queue[d])
    BY ListIsSequence DEF IInv, LocalOK
  <2>5. /\ DOMAIN entries \cap DOMAIN manifest.tombs = {}
        /\ \A i \in DOMAIN entries : entries[i] # Nothing
    <3>1. IsManifest(manifest) /\ Valid(manifest)
      BY DEF IInv, ManifestOK
    <3>2. \A i \in DOMAIN entries : IsEntry(entries[i])
      BY <3>1 DEF IsManifest, IsEntries
    <3>3. \A e : IsEntry(e) => e # Nothing
      BY DEF IsEntry, Nothing
    <3> QED BY <3>1, <3>2, <3>3 DEF Valid
  <2>6. IsNoOp(plan)
    BY ResolutionsDoSomething DEF PlanOf
  <2>7. /\ DOMAIN snap = {entries[i].path : i \in DOMAIN entries}
        /\ \A i \in DOMAIN entries : snap[entries[i].path] = entries[i].data
    <3> DEFINE b == base[d]
               q == queue[d]
               n == Len(queue[d])
    <3>1. IsFiniteSet(DOMAIN b.entries) /\ DistinctPaths(b.entries)
      BY <2>1
    <3>2. IsFiniteSet(DOMAIN snap)
      BY <2>3
    <3>3. n \in Nat /\ DOMAIN q = 1..n
      BY <2>4
    <3>4. IsNoOp(PlanSync(b, manifest, snap, q))
      BY <2>6
    <3> HIDE DEF snap, b, q, n
    <3> QED BY <2>5, <3>1, <3>2, <3>3, <3>4, NoOpMeansSameVault
  <2> HIDE DEF snap, plan
  <2>8. ASSUME NEW p \in DOMAIN snap
        PROVE  entries[CHOOSE i \in DOMAIN entries : entries[i].path = p].data
                 = snap[p]
    BY <2>7
  <2>9. snap = [p \in {entries[i].path : i \in DOMAIN entries} |->
                  entries[CHOOSE i \in DOMAIN entries :
                            entries[i].path = p].data]
    BY <2>3, <2>7, <2>8
  <2> QED BY <2>9 DEF ViewOf, snap
<1> QED BY <1>1, Invariant, PTL

------------------------------------------------------------------------------
(* What a step may never do *)

LEMMA OnlyCommits ==
  ASSUME [Next]_vars
  PROVE  manifest' = manifest \/ \E d \in Device : Commit(d)
<1>1. ASSUME NEW d \in Device, Edit(d) PROVE manifest' = manifest
  BY <1>1 DEF Edit, Write, MakeFolder, Delete, Rename, MayEdit, remoteVars
<1>2. ASSUME NEW d \in Device, Resolve(d) PROVE manifest' = manifest
  BY <1>2 DEF Resolve, Choose, Merge, MayEdit, remoteVars
<1>3. ASSUME NEW d \in Device, Execute(d), ~Commit(d) PROVE manifest' = manifest
  BY <1>3 DEF Execute, ExecuteUpload, LocalChanged, StageDownload,
       DownloadDenied, LocalMove, LocalMoveFails, SetAside, Install,
       InstallFails, RemoteMove, MoveDenied, RecoverLocal, RecoverRemote,
       RecoveryDenied, CommitRefused, SaveState, Retire, Finish, Abort,
       remoteVars
<1>4. ASSUME NEW d \in Device, Sync(d), ~Commit(d) PROVE manifest' = manifest
  BY <1>3, <1>4 DEF Sync, Scan, UpToDate, Blocked, Start, remoteVars
<1>5. ASSUME NEW d \in Device,
             Preview(d) \/ Rebuild(d) \/ Interrupt(d) \/ Crash(d)
      PROVE  manifest' = manifest
  BY <1>5 DEF Preview, Rebuild, Interrupt, Crash, remoteVars
<1>6. CASE UNCHANGED vars
  BY <1>6 DEF vars, remoteVars
<1> QED BY <1>1, <1>2, <1>4, <1>5, <1>6 DEF Next

\* An id that was deleted has its tombstone in every manifest that comes after,
\* and never an entry again, although a device may commit a plan it made when
\* others had gone on.
THEOREM DeletedStaysDeleted == Spec => TombstonesDominate
<1> DEFINE Dominates ==
             /\ DOMAIN manifest.tombs \subseteq DOMAIN manifest'.tombs
             /\ DOMAIN manifest.tombs \cap DOMAIN manifest'.entries = {}
<1>1. IInv /\ [Next]_vars => [Dominates]_manifest
  <2> SUFFICES ASSUME IInv, NEW d \in Device, Commit(d)
               PROVE  Dominates
    BY OnlyCommits
  <2>1. /\ manifest' = NextManifest(d) /\ Valid(NextManifest(d))
        /\ manifest.rev = job[d].remote.rev /\ pc[d] = "executing"
    BY DEF Commit, DoneRecoveries, DoneRemoteMoves, DoneInstalling,
           DoneLocalMoves, Executing
  <2>2. ExecutionOK(d)
    BY <2>1 DEF IInv, JobOK
  <2>3. job[d].remote = manifest
    BY <2>1, <2>2 DEF ExecutionOK, Published
  <2>4. DOMAIN manifest.tombs \subseteq DOMAIN manifest'.tombs
    BY <2>1, <2>2, <2>3, NextManifestOK
  <2>5. DOMAIN manifest'.entries \cap DOMAIN manifest'.tombs = {}
    BY <2>1 DEF Valid
  <2> QED BY <2>4, <2>5
<1> QED BY <1>1, Invariant, PTL DEF Spec, TombstonesDominate
==============================================================================

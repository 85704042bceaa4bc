-------------------------- MODULE LeaseCommitProofs --------------------------
(***************************************************************************)
(* Proofs about LeaseCommit, for any number of devices, files, attempts    *)
(* and ticks, any lease lifetime and any clock skew.                       *)
(***************************************************************************)
EXTENDS LeaseCommit, TLAPS

USE DEF Continue

\* Every variable keeps its type in every step of the protocol.
LEMMA TypeStep == TypeOK /\ [Next]_vars => TypeOK'
<1> SUFFICES ASSUME TypeOK, [Next]_vars
             PROVE  TypeOK'
  OBVIOUS
<1> USE NoneAssumption, TimeAssumption
        DEF TypeOK, Stages, AcquireStages, CommitStages, ReleaseStages
<1> USE DEF leaseVars, remoteVars, memory, deviceVars
<1>l. Standing \subseteq Token
  BY DEF Standing, Files, Lease
<1>g. Genesis \in Manifest
  BY DEF Genesis, Manifest
<1>t. \A d \in Device : TokenOf(d) \in Token
  BY DEF TokenOf, Token
<1>p. \A d \in Device : Proposal(d) \in Manifest
  BY <1>t DEF Proposal, Manifest
<1>1. ASSUME NEW d \in Device, Plan(d) PROVE TypeOK'
  BY <1>1 DEF Plan, Goto
<1>2. ASSUME NEW d \in Device, NoOp(d) PROVE TypeOK'
  BY <1>2, <1>g DEF NoOp, Stop, Goto
<1>3. ASSUME NEW d \in Device, Acquire(d) PROVE TypeOK'
  BY <1>3 DEF Acquire, Goto
<1>4. ASSUME NEW d \in Device, ListLease(d) PROVE TypeOK'
  BY <1>4 DEF ListLease, Files
<1>s. ASSUME NEW d \in Device, Stop(d),
             UNCHANGED <<now, remoteVars, serial, saved>>
      PROVE  TypeOK'
  BY <1>s, <1>g DEF Stop, Goto
<1>r. ASSUME NEW d \in Device, Throw(d),
             UNCHANGED <<now, remoteVars, serial, saved>>
      PROVE  TypeOK'
  <2>1. CASE Stop(d)
    BY <2>1, <1>r, <1>s
  <2>2. CASE \E s \in Stages : Continue(d, s)
    BY <2>2, <1>r DEF Goto
  <2> QED
    BY <2>1, <2>2, <1>r DEF Throw, Released
<1>5. ASSUME NEW d \in Device, ListDuplicates(d) PROVE TypeOK'
  BY <1>5, <1>r DEF ListDuplicates
<1>6. ASSUME NEW d \in Device, DownloadMissing(d) PROVE TypeOK'
  BY <1>6, <1>r DEF DownloadMissing
<1>7. ASSUME NEW d \in Device, RefuseLease(d) PROVE TypeOK'
  BY <1>7, <1>r DEF RefuseLease
<1>8. ASSUME NEW d \in Device, BuildLease(d) PROVE TypeOK'
  BY <1>8 DEF BuildLease, Goto, Clock
<1>9. ASSUME NEW d \in Device, ResolvePut(d) PROVE TypeOK'
  <2>1. [lease |-> [token |-> TokenOf(d), expires |-> expires[d]],
         file |-> listed[d]] \in LeaseWrite
    BY <1>9, <1>t DEF ResolvePut, Downloaded, Lease, LeaseWrite
  <2> QED
    BY <1>9, <2>1 DEF ResolvePut
<1>10. ASSUME NEW w \in requests, LandLease(w) PROVE TypeOK'
  BY <1>10, <1>l DEF LandLease, LeaseWrite, Files
<1>11. ASSUME NEW d \in Device, UpdateMissing(d) PROVE TypeOK'
  BY <1>11, <1>r DEF UpdateMissing
<1>12. ASSUME NEW d \in Device, AckLease(d) PROVE TypeOK'
  BY <1>12 DEF AckLease, Goto
<1>13. ASSUME NEW d \in Device, EndSettle(d) PROVE TypeOK'
  BY <1>13 DEF EndSettle, Goto
<1>14. ASSUME NEW d \in Device, VerifyLease(d) PROVE TypeOK'
  BY <1>14, <1>r DEF VerifyLease, Goto
<1>15. ASSUME NEW d \in Device, Assert1(d) PROVE TypeOK'
  BY <1>15, <1>r DEF Assert1, Goto
<1>16. ASSUME NEW d \in Device, Recheck(d) PROVE TypeOK'
  BY <1>16, <1>r DEF Recheck, Goto
<1>17. ASSUME NEW d \in Device, Assert2(d) PROVE TypeOK'
  <2>1. CASE Throw(d) /\ wire' = wire
    BY <2>1, <1>17, <1>r DEF Assert2
  <2>2. CASE Continue(d, "putManifest")
    <3>1. [man |-> Proposal(d), since |-> listedAt[d]] \in Put
      BY <1>p DEF Put
    <3>2. wire' \subseteq Put
      BY <3>1, <1>17, <2>2 DEF Assert2
    <3> QED
      BY <3>2, <2>2, <1>17 DEF Assert2, Goto
  <2> QED
    BY <2>1, <2>2, <1>17 DEF Assert2
<1>18. ASSUME NEW m \in wire, LandPut(m) PROVE TypeOK'
  BY <1>18 DEF LandPut, Put
<1>19. ASSUME NEW d \in Device, AckPut(d) PROVE TypeOK'
  BY <1>19 DEF AckPut, Goto
<1>20. ASSUME NEW d \in Device, Confirm(d) PROVE TypeOK'
  BY <1>20 DEF Confirm, Goto
<1>21. ASSUME NEW d \in Device, CheckRelease(d) PROVE TypeOK'
  BY <1>21, <1>s DEF CheckRelease, Released, Goto
<1>22. ASSUME NEW d \in Device, ResolveRemove(d) PROVE TypeOK'
  <2>1. CASE Released(d) /\ deletions' = deletions
    BY <2>1, <1>22, <1>s DEF ResolveRemove, Released, Goto
  <2>2. CASE pc' = [pc EXCEPT ![d] = "deleteLease"] /\ listed[d] # None
             /\ deletions' = deletions \cup {listed[d]}
    BY <2>2, <1>22 DEF ResolveRemove, Downloaded
  <2> QED
    BY <2>1, <2>2, <1>22 DEF ResolveRemove
<1>23. ASSUME NEW d \in Device, DeleteLease(d) PROVE TypeOK'
  BY <1>23, <1>s DEF DeleteLease, Released, Goto
<1>29. ASSUME NEW i \in deletions, LandDelete(i) PROVE TypeOK'
  BY <1>29, <1>l DEF LandDelete
<1>24. ASSUME NEW d \in Device, SaveState(d) PROVE TypeOK'
  BY <1>24, <1>g, <1>p DEF SaveState, Stop, Goto
<1>25. ASSUME NEW d \in Device, Fail(d) PROVE TypeOK'
  BY <1>25, <1>r DEF Fail
<1>26. ASSUME NEW d \in Device, Crash(d) PROVE TypeOK'
  BY <1>26, <1>s DEF Crash
<1>27. CASE Tick
  BY <1>27 DEF Tick
<1>28. CASE UNCHANGED vars
  BY <1>28 DEF vars
<1> QED
  BY <1>1, <1>2, <1>3, <1>4, <1>5, <1>6, <1>7, <1>8, <1>9, <1>10, <1>11,
     <1>12, <1>13, <1>14, <1>15, <1>16, <1>17, <1>18, <1>19, <1>20, <1>21,
     <1>22, <1>23, <1>24, <1>25, <1>26, <1>27, <1>28, <1>29 DEF Next, DeviceStep

\* Every variable has its type at the start.
LEMMA TypeInit == Init => TypeOK
<1> SUFFICES ASSUME Init PROVE TypeOK
  OBVIOUS
<1>1. Genesis \in Manifest
  BY DEF Genesis, Manifest
<1>2. /\ wire \subseteq Put /\ requests \subseteq LeaseWrite
      /\ deletions \subseteq FileId /\ gone \subseteq Token
      /\ used \subseteq FileId /\ late \in BOOLEAN
  BY DEF Init
<1>3. /\ now \in Nat /\ manifest \in Manifest
      /\ lease \in [FileId -> Lease \cup {None}]
      /\ pc \in [Device -> Stages]
      /\ listed \in [Device -> FileId \cup {None, Unlisted}]
      /\ listedAt \in [Device -> Nat] /\ serial \in [Device -> Nat]
      /\ expires \in [Device -> Nat] /\ ready \in [Device -> Nat]
      /\ plan \in [Device -> Manifest] /\ confirmed \in [Device -> BOOLEAN]
      /\ saved \in [Device -> Manifest]
  BY <1>1 DEF Init, Stages
<1> QED
  BY <1>2, <1>3 DEF TypeOK

\* Every variable always has its type.
THEOREM TypeCorrect == Spec => []TypeOK
<1>1. Init => TypeOK
  BY TypeInit
<1> QED
  BY <1>1, TypeStep, PTL DEF Spec

------------------------------------------------------------------------------
(* The inductive invariant *)

\* Some lease file carries the token of d's current attempt.
HasToken(d) == TokenOf(d) \in Standing

\* The file d listed carries it.
ListedOwn(d) ==
  /\ listed[d] \in Files
  /\ lease[listed[d]].token = TokenOf(d)

\* d is in the middle of its checks of the lease and none has failed.
Passing(d) ==
  \/ pc[d] = "verifyLease" /\ ListedOwn(d)
  \/ pc[d] \in {"assert1", "recheck", "assert2"} /\ HasToken(d)

\* d has drawn its token and has not issued its manifest write.
BeforeWrite == {"putLease", "sendLease", "leaseSent", "settle"} \cup Checking

\* A manifest write carries a token that was drawn, of an attempt that is past
\* its last check.
TokensDrawn ==
  \A m \in wire, d \in Device :
    /\ m.man.id \in Token
    /\ m.man.id[1] = d => m.man.id[2] <= serial[d]
    /\ pc[d] \in BeforeWrite => m.man.id # TokenOf(d)

Clocks ==
  /\ \A d \in Device : listedAt[d] <= now
  /\ \A m \in wire : m.since <= now

\* The lease record behind a manifest write stands, or history knows that it
\* did.
WritersStood ==
  \A m \in wire : m.man.id \in Standing \cup gone

\* What holds whatever comes late.
Always ==
  /\ TypeOK
  /\ TokensDrawn
  /\ Clocks
  /\ WritersStood

\* A device that settles, or has settled since time t, with its token in a file
\* does so until t is a settle delay ago, and has not passed a check.
WaitsFor(d, t) ==
  /\ HasToken(d) /\ pc[d] = "settle" => t + Settle <= ready[d]
  /\ HasToken(d) /\ pc[d] \in Checking => t + Settle <= now
  /\ ~Passing(d)

\* While a manifest write could still take effect in time, no device is past
\* its settle delay without having to notice that writer's lease record.
SettlersWait ==
  \A m \in wire, d \in Device : InTime(m) => WaitsFor(d, m.since)

\* The same of a device that has listed the files for its last check and found
\* its own: the record of another one came later.
LateFiles ==
  \A e, d \in Device :
    pc[e] = "assert2" /\ ListedOwn(e) /\ d # e => WaitsFor(d, listedAt[e])

AtMostOne == \A m, n \in wire : InTime(m) /\ InTime(n) => m = n

\* What a write would replace is what it was planned on.
WriteExtends ==
  \A m \in wire :
    InTime(m) => \/ m.man = manifest
                 \/ m.man.base = manifest.id /\ m.man.rev = manifest.rev + 1

\* Between its second reading of the revision and its last check, a device
\* that keeps its token has planned on the current manifest.
PlanIsCurrent ==
  \A d \in Device : pc[d] = "assert2" /\ HasToken(d) => plan[d] = manifest

InChain(m) == m.rev <= manifest.rev /\ (m.rev = manifest.rev => m = manifest)

\* What devices remember are revisions of the chain.
MemoryInChain ==
  \A d \in Device :
    /\ InChain(saved[d])
    /\ pc[d] # "idle" => InChain(plan[d]) /\ saved[d].rev <= plan[d].rev
    /\ confirmed[d] => /\ pc[d] \in ReleaseStages \cup {"saveState"}
                       /\ InChain(Proposal(d))
    /\ pc[d] = "saveState" => confirmed[d]

\* The protocol keeps one writer at a time.
Exclusion ==
  /\ AtMostOne
  /\ SettlersWait
  /\ LateFiles
  /\ WriteExtends
  /\ PlanIsCurrent

IInv == Always /\ (~late => Exclusion /\ MemoryInChain)

------------------------------------------------------------------------------
(* Steps of a device *)

\* Device d makes a step that changes neither a lease file nor the manifest,
\* draws no token and sends no manifest write.
Calm(d) ==
  /\ UNCHANGED <<now, lease, gone, manifest, wire, late, serial>>
  /\ \A e \in Device \ {d} :
       /\ pc'[e] = pc[e] /\ listed'[e] = listed[e] /\ listedAt'[e] = listedAt[e]
       /\ ready'[e] = ready[e] /\ plan'[e] = plan[e]
       /\ confirmed'[e] = confirmed[e] /\ saved'[e] = saved[e]
  /\ listedAt'[d] <= now
  /\ pc'[d] \in BeforeWrite => pc[d] \in BeforeWrite

\* All steps of a device are calm but the draw of a token and the last check.
LEMMA CalmSteps ==
  ASSUME NEW d \in Device, Always, DeviceStep(d), ~BuildLease(d), ~Assert2(d)
  PROVE  Calm(d)
<1> USE DEF leaseVars, remoteVars, memory, Always, TypeOK, BeforeWrite, Checking
<1>c. \A e \in Device : listedAt[e] <= now
  BY DEF Clocks
<1>n. 0 <= now
  OBVIOUS
<1>s. ASSUME Stop(d), UNCHANGED <<now, leaseVars, manifest, wire, late, serial>>,
             \A e \in Device \ {d} : saved'[e] = saved[e]
      PROVE  Calm(d)
  BY <1>s, <1>n DEF Stop, Goto, Calm
<1>k. ASSUME NEW x \in Stages \ BeforeWrite, Continue(d, x),
             UNCHANGED <<now, remoteVars, serial, saved>>
      PROVE  Calm(d)
  BY <1>k, <1>n DEF Goto, Calm
<1>t. ASSUME Throw(d) \/ Released(d), UNCHANGED <<now, remoteVars, serial, saved>>
      PROVE  Calm(d)
  <2>1. CASE Stop(d)
    BY <2>1, <1>t, <1>s
  <2>2. CASE \E x \in {"release", "saveState"} : Continue(d, x)
    <3>1. {"release", "saveState"} \subseteq Stages \ BeforeWrite
      BY DEF Stages, ReleaseStages
    <3> QED
      BY <2>2, <3>1, <1>t, <1>k
  <2> QED
    BY <2>1, <2>2, <1>t DEF Throw, Released
<1>1. CASE Plan(d)
  BY <1>1, <1>n DEF Plan, Goto, Calm
<1>2. CASE NoOp(d)
  BY <1>2, <1>s DEF NoOp
<1>3. CASE Acquire(d)
  BY <1>3, <1>n DEF Acquire, Goto, Calm
<1>4. CASE ListLease(d)
  BY <1>4 DEF ListLease, Calm
<1>5. CASE ListDuplicates(d) \/ DownloadMissing(d) \/ RefuseLease(d)
           \/ UpdateMissing(d) \/ Fail(d)
  BY <1>5, <1>t DEF ListDuplicates, DownloadMissing, RefuseLease, UpdateMissing, Fail
<1>6. CASE ResolvePut(d)
  BY <1>6, <1>c DEF ResolvePut, Calm
<1>7. CASE AckLease(d)
  BY <1>7, <1>n DEF AckLease, Goto, Calm
<1>8. CASE EndSettle(d)
  BY <1>8, <1>n DEF EndSettle, Goto, Calm
<1>9. CASE VerifyLease(d)
  <2>1. CASE Continue(d, "assert1")
    BY <2>1, <1>9, <1>n DEF VerifyLease, Goto, Calm
  <2> QED
    BY <2>1, <1>9, <1>t DEF VerifyLease
<1>10. CASE Assert1(d)
  <2>1. CASE Continue(d, "recheck")
    BY <2>1, <1>10, <1>n DEF Assert1, Goto, Calm
  <2> QED
    BY <2>1, <1>10, <1>t DEF Assert1
<1>11. CASE Recheck(d)
  <2>1. CASE Continue(d, "assert2")
    BY <2>1, <1>11, <1>n DEF Recheck, Goto, Calm
  <2> QED
    BY <2>1, <1>11, <1>t DEF Recheck
<1>12. CASE AckPut(d)
  BY <1>12, <1>n DEF AckPut, Goto, Calm
<1>13. CASE Confirm(d)
  BY <1>13, <1>n DEF Confirm, Goto, Calm
<1>14. CASE CheckRelease(d)
  <2>1. CASE Continue(d, "removeLease")
    BY <2>1, <1>14, <1>n DEF CheckRelease, Goto, Calm
  <2> QED
    BY <2>1, <1>14, <1>t DEF CheckRelease
<1>15. CASE ResolveRemove(d)
  <2>1. CASE Released(d) /\ deletions' = deletions
    BY <2>1, <1>15, <1>t DEF ResolveRemove
  <2>2. CASE pc' = [pc EXCEPT ![d] = "deleteLease"]
             /\ UNCHANGED <<listed, listedAt, memory>>
    BY <2>2, <1>15, <1>c DEF ResolveRemove, Calm
  <2> QED
    BY <2>1, <2>2, <1>15 DEF ResolveRemove
<1>16. CASE DeleteLease(d)
  BY <1>16, <1>t DEF DeleteLease
<1>17. CASE SaveState(d)
  BY <1>17, <1>s DEF SaveState
<1>18. CASE Crash(d)
  BY <1>18, <1>s DEF Crash
<1> QED
  BY <1>1, <1>2, <1>3, <1>4, <1>5, <1>6, <1>7, <1>8, <1>9, <1>10, <1>11, <1>12,
     <1>13, <1>14, <1>15, <1>16, <1>17, <1>18 DEF DeviceStep

\* A file's record is replaced or deleted: a token that stood before stands or
\* is known to be gone.
LEMMA StoodBefore ==
  ASSUME gone' = gone \cup (Standing \ Standing')
  PROVE  Standing \cup gone \subseteq Standing' \cup gone'
OBVIOUS

\* What holds whatever comes late goes on to hold.
LEMMA AlwaysStep == Always /\ [Next]_vars => Always'
<1> SUFFICES ASSUME Always, [Next]_vars
             PROVE  Always'
  OBVIOUS
<1>0. TypeOK'
  BY TypeStep DEF Always
<1> USE DEF leaseVars, remoteVars, memory, deviceVars, Always, TypeOK
<1>1. ASSUME NEW d \in Device, Calm(d) PROVE Always'
  <2>1. Standing' = Standing
    BY <1>1 DEF Calm, Standing, Files
  <2>2. TokensDrawn'
    BY <1>1 DEF Calm, TokensDrawn, TokenOf
  <2>3. Clocks'
    BY <1>1 DEF Calm, Clocks
  <2>4. WritersStood'
    BY <1>1, <2>1 DEF Calm, WritersStood
  <2> QED
    BY <1>0, <2>2, <2>3, <2>4
<1>2. ASSUME NEW d \in Device, BuildLease(d) PROVE Always'
  <2>1. TokensDrawn'
    BY <1>2 DEF BuildLease, Goto, TokensDrawn, TokenOf, BeforeWrite, Token
  <2>2. Clocks'
    BY <1>2 DEF BuildLease, Goto, Clocks
  <2>3. WritersStood'
    BY <1>2 DEF BuildLease, WritersStood, Standing, Files
  <2> QED
    BY <1>0, <2>1, <2>2, <2>3
<1>3. ASSUME NEW d \in Device, Assert2(d) PROVE Always'
  <2>1. CASE Throw(d) /\ wire' = wire
    <3>1. Calm(d)
      <4>1. CASE Continue(d, "release")
        BY <2>1, <4>1, <1>3 DEF Assert2, Goto, Calm, BeforeWrite, Checking
      <4> QED
        BY <2>1, <4>1, <1>3 DEF Assert2, Throw, CommitStages, ReleaseStages,
                               AcquireStages
    <3> QED
      BY <3>1, <1>1
  <2>2. CASE Holds(d) /\ Continue(d, "putManifest")
    <3> DEFINE new == [man |-> Proposal(d), since |-> listedAt[d]]
    <3>1. /\ wire' = wire \cup {new}
          /\ pc' = [pc EXCEPT ![d] = "putManifest"]
          /\ listedAt' = [listedAt EXCEPT ![d] = 0]
          /\ UNCHANGED <<now, lease, gone, serial>>
          /\ pc[d] = "assert2"
      BY <2>2, <1>3 DEF Assert2, Goto
    <3>2. /\ new.man.id = TokenOf(d) /\ new.since = listedAt[d]
          /\ TokenOf(d) \in Token
      BY DEF Proposal, TokenOf, Token
    <3>3. TokenOf(d) \in Standing
      BY <2>2, <1>3 DEF Assert2, Holds, ReadsOwnToken, Downloaded, Standing, Files
    <3> HIDE DEF new
    <3>4. TokensDrawn'
      <4> SUFFICES ASSUME NEW m \in wire', NEW e \in Device
                   PROVE  /\ m.man.id \in Token
                          /\ m.man.id[1] = e => m.man.id[2] <= serial'[e]
                          /\ pc'[e] \in BeforeWrite => m.man.id # TokenOf(e)'
        BY DEF TokensDrawn
      <4>1. CASE m \in wire
        BY <4>1, <3>1 DEF TokensDrawn, TokenOf, BeforeWrite, Checking
      <4>2. CASE m = new
        BY <4>2, <3>1, <3>2 DEF TokenOf, BeforeWrite, Checking
      <4> QED
        BY <4>1, <4>2, <3>1
    <3>5. Clocks'
      BY <3>1, <3>2 DEF Clocks
    <3>6. WritersStood'
      BY <3>1, <3>2, <3>3 DEF WritersStood, Standing, Files
    <3> QED
      BY <1>0, <3>4, <3>5, <3>6
  <2> QED
    BY <2>1, <2>2, <1>3 DEF Assert2
<1>4. ASSUME NEW w \in requests, LandLease(w) PROVE Always'
  <2>1. /\ UNCHANGED <<now, wire, serial, listedAt>>
        /\ gone' = gone \cup (Standing \ Standing')
        /\ \A d \in Device : pc'[d] \in BeforeWrite => pc[d] \in BeforeWrite
    BY <1>4 DEF LandLease, BeforeWrite
  <2> QED
    BY <1>0, <2>1, StoodBefore DEF TokensDrawn, Clocks, WritersStood, TokenOf
<1>5. ASSUME NEW i \in deletions, LandDelete(i) PROVE Always'
  <2>1. /\ UNCHANGED <<now, wire, serial, listedAt, pc>>
        /\ gone' = gone \cup (Standing \ Standing')
    BY <1>5 DEF LandDelete
  <2> QED
    BY <1>0, <2>1, StoodBefore DEF TokensDrawn, Clocks, WritersStood, TokenOf
<1>6. ASSUME NEW m \in wire, LandPut(m) PROVE Always'
  BY <1>0, <1>6 DEF LandPut, TokensDrawn, Clocks, WritersStood, TokenOf, Standing,
                    Files, BeforeWrite, Checking
<1>7. CASE Tick
  <2>1. TokensDrawn' /\ WritersStood'
    BY <1>7 DEF Tick, TokensDrawn, WritersStood, TokenOf, Standing, Files
  <2>2. Clocks'
    BY <1>7 DEF Tick, Clocks, Put
  <2> QED
    BY <1>0, <2>1, <2>2
<1>8. CASE UNCHANGED vars
  BY <1>0, <1>8 DEF vars, TokensDrawn, Clocks, WritersStood, TokenOf, Standing, Files
<1> QED
  BY <1>1, <1>2, <1>3, <1>4, <1>5, <1>6, <1>7, <1>8, CalmSteps DEF Next

------------------------------------------------------------------------------
(* One writer at a time *)

\* No lease file carries a token but d's.
Alone(d) == pc[d] \in Checking /\ Standing = {TokenOf(d)}

\* What a step that sends or lands no manifest write may do to a device: start
\* its settle delay now, end one that is over, pass a check it has read its own
\* token for, list the lease files and find only its own.
Restrained(d) ==
  /\ TokenOf(d)' = TokenOf(d) \/ ~CountsOnLease(d)'
  /\ CountsOnLease(d)' /\ HasToken(d)' => HasToken(d)
  /\ Passing(d)' => Passing(d) \/ Alone(d)
  /\ pc'[d] = "assert2" /\ ListedOwn(d)' =>
       /\ pc[d] = "assert2"
       /\ \/ ListedOwn(d) /\ listedAt'[d] = listedAt[d]
          \/ Alone(d)
  /\ pc'[d] = "assert2" =>
       \/ pc[d] = "assert2" /\ plan'[d] = plan[d]
       \/ plan'[d] = manifest
  /\ pc'[d] = "settle" =>
       \/ pc[d] = "settle" /\ ready'[d] = ready[d]
       \/ now + Settle <= ready'[d]
  /\ pc'[d] \in Checking =>
       \/ pc[d] \in Checking
       \/ pc[d] = "settle" /\ ready[d] <= now

Restrains ==
  /\ now <= now'
  /\ wire' = wire /\ manifest' = manifest
  /\ \A m \in wire : InTime(m)' => InTime(m)
  /\ \A d \in Device : Restrained(d)

\* A device that is alone waits for no write and for no other device.
LEMMA AloneIsFree ==
  ASSUME Always, Exclusion, NEW d \in Device, Alone(d)
  PROVE  /\ \A m \in wire : ~InTime(m)
         /\ \A e \in Device \ {d} : ~HasToken(e) /\ ~ListedOwn(e) /\ ~Passing(e)
<1> USE TimeAssumption DEF Always, TypeOK
<1>1. \A m \in wire : ~InTime(m)
  <2> SUFFICES ASSUME NEW m \in wire, InTime(m)
               PROVE  FALSE
    OBVIOUS
  <2>1. m.since + Settle <= now
    BY DEF Exclusion, SettlersWait, WaitsFor, HasToken, Alone
  <2>2. m.since \in Nat
    BY DEF Put
  <2>3. m.man.id \in Standing
    BY <2>1, <2>2 DEF InTime, WritersStood
  <2> QED
    BY <2>3 DEF Alone, TokensDrawn, BeforeWrite
<1>2. ASSUME NEW e \in Device \ {d}
      PROVE  ~HasToken(e) /\ ~ListedOwn(e) /\ ~Passing(e)
  BY DEF Alone, HasToken, ListedOwn, Passing, TokenOf, Standing
<1> QED
  BY <1>1, <1>2

\* Such a step keeps exclusion.
LEMMA RestrainedStep ==
  ASSUME Always, Always', Exclusion, Restrains
  PROVE  Exclusion'
<1> USE TimeAssumption DEF Always, TypeOK, Restrains, Restrained, CountsOnLease
<1>1. ASSUME NEW d \in Device, NEW t \in Nat, t <= now, WaitsFor(d, t), ~Alone(d)
      PROVE  /\ HasToken(d)' /\ pc'[d] = "settle" => t + Settle <= ready'[d]
             /\ HasToken(d)' /\ pc'[d] \in Checking => t + Settle <= now'
             /\ ~Passing(d)'
  BY <1>1 DEF WaitsFor
<1>2. \A m \in wire : m.since \in Nat /\ m.since <= now
  BY DEF Put, Clocks
<1>3. SettlersWait'
  <2> SUFFICES ASSUME NEW m \in wire, NEW d \in Device, InTime(m)'
               PROVE  WaitsFor(d, m.since)'
    BY DEF SettlersWait
  <2>1. WaitsFor(d, m.since) /\ ~Alone(d)
    BY AloneIsFree DEF Exclusion, SettlersWait
  <2> QED
    BY <2>1, <1>1, <1>2 DEF WaitsFor
<1>4. LateFiles'
  <2> SUFFICES ASSUME NEW e \in Device, NEW d \in Device, d # e,
                      pc'[e] = "assert2", ListedOwn(e)'
               PROVE  WaitsFor(d, listedAt[e])'
    BY DEF LateFiles
  <2>1. CASE Alone(e)
    <3>1. ~HasToken(d) /\ ~Passing(d) /\ ~Alone(d)
      BY <2>1, AloneIsFree DEF Alone, HasToken
    <3> QED
      BY <3>1 DEF WaitsFor
  <2>2. CASE ListedOwn(e) /\ listedAt'[e] = listedAt[e]
    <3>1. WaitsFor(d, listedAt[e]) /\ ~Alone(d)
      BY <2>2, AloneIsFree DEF Exclusion, LateFiles
    <3>2. listedAt[e] \in Nat /\ listedAt[e] <= now
      BY DEF Clocks
    <3> QED
      BY <2>2, <3>1, <3>2, <1>1 DEF WaitsFor
  <2> QED
    BY <2>1, <2>2
<1>5. AtMostOne'
  BY DEF Exclusion, AtMostOne
<1>6. WriteExtends'
  BY DEF Exclusion, WriteExtends
<1>7. PlanIsCurrent'
  BY DEF Exclusion, PlanIsCurrent, Checking
<1> QED
  BY <1>3, <1>4, <1>5, <1>6, <1>7 DEF Exclusion

\* The steps of a device other than its last check restrain it, and the steps
\* that change a lease file restrain every device.
LEMMA DeviceRestrained ==
  ASSUME NEW d \in Device, Always, Always', Exclusion, MemoryInChain,
         DeviceStep(d), ~Assert2(d) \/ wire' = wire
  PROVE  Restrains
<1> USE TimeAssumption, NoneAssumption
    DEF leaseVars, remoteVars, memory, Always, TypeOK, CountsOnLease, Checking
<1>0. ASSUME UNCHANGED <<now, lease, gone, manifest, wire>>,
             \A e \in Device \ {d} :
               /\ pc'[e] = pc[e] /\ listed'[e] = listed[e]
               /\ listedAt'[e] = listedAt[e] /\ ready'[e] = ready[e]
               /\ plan'[e] = plan[e] /\ serial'[e] = serial[e],
             Restrained(d)
      PROVE  Restrains
  <2>1. \A m \in wire : InTime(m)' => InTime(m)
    BY <1>0 DEF InTime
  <2>2. ASSUME NEW e \in Device \ {d} PROVE Restrained(e)
    BY <1>0 DEF Restrained, HasToken, ListedOwn, Passing, TokenOf, Standing, Files
  <2> QED
    BY <1>0, <2>1, <2>2 DEF Restrains
<1>1. ASSUME Calm(d), pc'[d] \notin {"settle"} \cup Checking PROVE Restrains
  BY <1>0, <1>1 DEF Calm, Restrained, Passing
<1>2. CASE BuildLease(d)
  BY <1>0, <1>2 DEF BuildLease, Goto, Restrained, Passing
<1>3. CASE Assert2(d) /\ wire' = wire
  <2>1. CASE Throw(d)
    BY <1>0, <1>3, <2>1 DEF Assert2, Throw, Released, Stop, Goto, Restrained,
                           Passing, CommitStages, ReleaseStages, AcquireStages
  <2>2. CASE Continue(d, "putManifest")
    BY <1>0, <1>3, <2>2 DEF Assert2, Goto, Restrained, Passing
  <2> QED
    BY <1>3, <2>1, <2>2 DEF Assert2
<1>4. CASE AckLease(d)
  BY <1>0, <1>4 DEF AckLease, Goto, Restrained, Passing, HasToken, TokenOf,
                    Standing, Files
<1>5. CASE EndSettle(d)
  BY <1>0, <1>5 DEF EndSettle, Goto, Restrained, Passing, ListedOwn, HasToken,
                    TokenOf, Standing, Files
<1>6. CASE ListLease(d)
  <2>1. /\ UNCHANGED <<now, lease, gone, manifest, wire, pc, serial, ready, plan>>
        /\ \A e \in Device \ {d} :
             listed'[e] = listed[e] /\ listedAt'[e] = listedAt[e]
    BY <1>6 DEF ListLease
  <2>2. Standing' = Standing /\ HasToken(d)' = HasToken(d) /\ TokenOf(d)' = TokenOf(d)
    BY <2>1 DEF Standing, Files, HasToken, TokenOf
  <2>3. ListedOwn(d)' /\ pc[d] \in Checking => Alone(d)
    BY <1>6, <2>1 DEF ListLease, ListedOwn, Alone, Standing, Files, TokenOf
  <2>4. Restrained(d)
    BY <2>1, <2>2, <2>3 DEF Restrained, Passing
  <2> QED
    BY <1>0, <2>1, <2>4
<1>7. CASE VerifyLease(d) /\ Continue(d, "assert1")
  <2>1. ReadsOwnToken(d) => ListedOwn(d)
    BY <1>7 DEF VerifyLease, Downloaded, ReadsOwnToken, ListedOwn, Files
  <2>2. Throw(d) => pc'[d] \notin {"settle"} \cup Checking
    BY <1>7 DEF VerifyLease, Throw, CommitStages, ReleaseStages, Stop, Goto
  <2>3. ReadsOwnToken(d)
    BY <1>7, <2>2 DEF VerifyLease, Goto
  <2> QED
    BY <1>0, <1>7, <2>1, <2>3
       DEF VerifyLease, Goto, Restrained, Passing, HasToken, ListedOwn, TokenOf,
           Standing, Files
<1>8. CASE Assert1(d) /\ Continue(d, "recheck")
  BY <1>0, <1>8 DEF Assert1, Goto, Restrained, Passing, HasToken, TokenOf, Standing,
                    Files
<1>9. CASE Recheck(d) /\ manifest.rev = plan[d].rev /\ Continue(d, "assert2")
  <2>1. plan[d] = manifest
    BY <1>9 DEF Recheck, MemoryInChain, InChain
  <2> QED
    BY <1>0, <1>9, <2>1
       DEF Recheck, Goto, Restrained, Passing, ListedOwn, HasToken, TokenOf,
           Standing, Files
<1>10. ASSUME Calm(d), pc'[d] \in {"settle"} \cup Checking
       PROVE  \/ AckLease(d) \/ EndSettle(d) \/ ListLease(d)
              \/ VerifyLease(d) /\ Continue(d, "assert1")
              \/ Assert1(d) /\ Continue(d, "recheck")
              \/ Recheck(d) /\ manifest.rev = plan[d].rev /\ Continue(d, "assert2")
              \/ BuildLease(d) \/ Assert2(d)
  <2>1. ~Stop(d) /\ ~Throw(d) /\ ~(Released(d))
    BY <1>10 DEF Stop, Throw, Released, Goto, ReleaseStages
  <2> QED
    BY <1>10, <2>1 DEF DeviceStep, Plan, NoOp, Acquire, ListDuplicates,
       DownloadMissing, RefuseLease, ResolvePut, UpdateMissing, VerifyLease,
       Assert1, Recheck, AckPut, Confirm, CheckRelease, ResolveRemove, DeleteLease,
       SaveState, Fail, Crash, Goto
<1> QED
  BY <1>1, <1>2, <1>3, <1>4, <1>5, <1>6, <1>7, <1>8, <1>9, <1>10, CalmSteps

LEMMA FilesRestrain ==
  ASSUME Always, Always', ~late',
         \/ \E w \in requests : LandLease(w)
         \/ \E i \in deletions : LandDelete(i)
         \/ Tick
  PROVE  Restrains
<1> USE TimeAssumption, NoneAssumption
    DEF leaseVars, deviceVars, remoteVars, memory, Always, TypeOK, CountsOnLease
<1>1. ASSUME NEW w \in requests, LandLease(w) PROVE Restrains
  <2>1. /\ UNCHANGED <<now, wire, manifest, listed, listedAt, serial, ready, plan>>
        /\ gone \subseteq gone'
        /\ \A d \in Device : \/ pc'[d] = pc[d]
                             \/ pc[d] = "sendLease" /\ pc'[d] = "leaseSent"
        /\ \A d \in Device : CountsOnLease(d) => w.lease.token # TokenOf(d)
    BY <1>1 DEF LandLease
  <2>2. \A m \in wire : InTime(m)' => InTime(m)
    BY <2>1 DEF InTime
  <2>3. PICK k \in FileId : lease' = [lease EXCEPT ![k] = w.lease]
    BY <1>1 DEF LandLease, Files
  <2>4. ASSUME NEW d \in Device, CountsOnLease(d)
        PROVE  /\ HasToken(d)' => HasToken(d)
               /\ ListedOwn(d)' => ListedOwn(d)
    BY <2>1, <2>3, <2>4 DEF HasToken, ListedOwn, Standing, Files, TokenOf
  <2>5. ASSUME NEW d \in Device PROVE Restrained(d)
    BY <2>1, <2>4 DEF Restrained, Passing, Checking, TokenOf
  <2> QED
    BY <2>1, <2>2, <2>5 DEF Restrains
<1>2. ASSUME NEW i \in deletions, LandDelete(i) PROVE Restrains
  <2>1. /\ UNCHANGED <<now, wire, manifest, deviceVars>>
        /\ gone \subseteq gone'
        /\ lease' = [lease EXCEPT ![i] = None]
    BY <1>2 DEF LandDelete
  <2>2. \A m \in wire : InTime(m)' => InTime(m)
    BY <2>1 DEF InTime
  <2>3. ASSUME NEW d \in Device
        PROVE  /\ HasToken(d)' => HasToken(d)
               /\ ListedOwn(d)' => ListedOwn(d)
    BY <2>1 DEF HasToken, ListedOwn, Standing, Files, TokenOf
  <2>4. ASSUME NEW d \in Device PROVE Restrained(d)
    BY <2>1, <2>3 DEF Restrained, Passing, Checking, TokenOf
  <2> QED
    BY <2>1, <2>2, <2>4 DEF Restrains
<1>3. CASE Tick
  <2>1. \A m \in wire : InTime(m)' => InTime(m)
    BY <1>3 DEF Tick, InTime, Put
  <2>2. ASSUME NEW d \in Device PROVE Restrained(d)
    BY <1>3 DEF Tick, Restrained, Passing, HasToken, ListedOwn, Standing, Files,
                TokenOf
  <2> QED
    BY <1>3, <2>1, <2>2 DEF Tick, Restrains
<1> QED
  BY <1>1, <1>2, <1>3

\* The last check is passed and the manifest write is sent: no other write can
\* take effect in time, every other device with a lease record settles for long
\* enough, and the plan is current.
LEMMA WriteSent ==
  ASSUME NEW d \in Device, Always, Always', Exclusion, Assert2(d), wire' # wire
  PROVE  Exclusion'
<1> USE TimeAssumption, NoneAssumption
    DEF leaseVars, memory, Always, TypeOK
<1>0. PICK new : new = [man |-> Proposal(d), since |-> listedAt[d]]
  OBVIOUS
<1>1. /\ wire' = wire \cup {new}
      /\ pc' = [pc EXCEPT ![d] = "putManifest"]
      /\ listed' = [listed EXCEPT ![d] = Unlisted]
      /\ listedAt' = [listedAt EXCEPT ![d] = 0]
      /\ UNCHANGED <<now, lease, gone, manifest, serial, ready, plan>>
      /\ pc[d] = "assert2"
  BY <1>0 DEF Assert2, Goto
<1>2. ListedOwn(d) /\ HasToken(d) /\ Passing(d)
  BY <1>1 DEF Assert2, Downloaded, Holds, ReadsOwnToken, ListedOwn, HasToken,
              Passing, Standing, Files
<1>3. \A m \in wire : ~InTime(m)
  BY <1>2 DEF Exclusion, SettlersWait, WaitsFor
<1>4. new.since = listedAt[d] /\ new.man = Proposal(d)
  BY <1>0
<1>5. \A m \in wire : InTime(m)' <=> InTime(m)
  BY <1>1 DEF InTime
<1>6. \A m \in wire' : InTime(m)' => m = new
  BY <1>1, <1>3, <1>5
<1>7. /\ Standing' = Standing
      /\ \A e \in Device : HasToken(e)' = HasToken(e)
      /\ \A e \in Device \ {d} : ListedOwn(e)' = ListedOwn(e)
      /\ \A e \in Device \ {d} : Passing(e)' = Passing(e)
      /\ ~Passing(d)'
  BY <1>1 DEF Standing, Files, HasToken, ListedOwn, Passing, TokenOf
<1>8. ASSUME NEW e \in Device \ {d}, NEW t, WaitsFor(e, t)
      PROVE  /\ HasToken(e)' /\ pc'[e] = "settle" => t + Settle <= ready'[e]
             /\ HasToken(e)' /\ pc'[e] \in Checking => t + Settle <= now'
             /\ ~Passing(e)'
  BY <1>1, <1>7, <1>8 DEF WaitsFor
<1>9. ASSUME NEW t PROVE WaitsFor(d, t)'
  BY <1>1, <1>7 DEF WaitsFor, Checking
<1>10. SettlersWait'
  <2> SUFFICES ASSUME NEW e \in Device \ {d}
               PROVE  WaitsFor(e, new.since)'
    BY <1>6, <1>9 DEF SettlersWait
  <2>1. WaitsFor(e, listedAt[d])
    BY <1>1, <1>2 DEF Exclusion, LateFiles
  <2> QED
    BY <2>1, <1>4, <1>8 DEF WaitsFor
<1>11. LateFiles'
  <2> SUFFICES ASSUME NEW x \in Device, NEW e \in Device, e # x,
                      pc'[x] = "assert2", ListedOwn(x)', e # d
               PROVE  WaitsFor(e, listedAt[x])'
    BY <1>9 DEF LateFiles
  <2>1. x # d
    BY <1>1
  <2>2. WaitsFor(e, listedAt[x]) /\ listedAt'[x] = listedAt[x]
    BY <2>1, <1>1, <1>7 DEF Exclusion, LateFiles
  <2> QED
    BY <2>2, <1>8 DEF WaitsFor
<1>12. AtMostOne'
  BY <1>6 DEF AtMostOne
<1>13. WriteExtends'
  <2>1. plan[d] = manifest
    BY <1>1, <1>2 DEF Exclusion, PlanIsCurrent
  <2> QED
    BY <2>1, <1>1, <1>4, <1>6 DEF WriteExtends, Proposal
<1>14. PlanIsCurrent'
  BY <1>1, <1>7 DEF Exclusion, PlanIsCurrent
<1> QED
  BY <1>10, <1>11, <1>12, <1>13, <1>14 DEF Exclusion

\* A manifest write takes effect in time: it extends the manifest or repeats it.
LEMMA WriteLands ==
  ASSUME Always, Always', ~late', Exclusion, NEW w \in wire, LandPut(w)
  PROVE  /\ Exclusion'
         /\ \/ manifest' = manifest
            \/ manifest'.base = manifest.id /\ manifest'.rev = manifest.rev + 1
<1> USE DEF leaseVars, memory, Always, TypeOK
<1>1. /\ UNCHANGED <<now, lease, gone, wire, listed, listedAt, serial, memory>>
      /\ InTime(w) /\ manifest' = w.man
      /\ \A d \in Device : \/ pc'[d] = pc[d]
                           \/ pc[d] = "putManifest" /\ pc'[d] = "putLanded"
  BY DEF LandPut
<1>2. \A d \in Device : ~Passing(d)
  BY <1>1 DEF Exclusion, SettlersWait, WaitsFor
<1>3. /\ \A m \in wire : InTime(m)' <=> InTime(m)
      /\ \A d \in Device : /\ HasToken(d)' <=> HasToken(d)
                           /\ ListedOwn(d)' <=> ListedOwn(d)
                           /\ Passing(d)' <=> Passing(d)
  BY <1>1 DEF InTime, HasToken, ListedOwn, Passing, Standing, Files, TokenOf
<1>4. \A m \in wire : InTime(m) => m = w
  BY <1>1 DEF Exclusion, AtMostOne
<1>5. AtMostOne' /\ WriteExtends'
  BY <1>1, <1>3, <1>4 DEF AtMostOne, WriteExtends
<1>6. SettlersWait' /\ LateFiles'
  BY <1>1, <1>3 DEF Exclusion, SettlersWait, LateFiles, WaitsFor, Checking
<1>7. PlanIsCurrent'
  BY <1>2, <1>3, <1>1 DEF PlanIsCurrent, Passing
<1>8. \/ manifest' = manifest
      \/ manifest'.base = manifest.id /\ manifest'.rev = manifest.rev + 1
  BY <1>1 DEF Exclusion, WriteExtends
<1> QED
  BY <1>5, <1>6, <1>7, <1>8 DEF Exclusion

------------------------------------------------------------------------------
(* What devices remember *)

\* A step that leaves the manifest alone keeps memory in the chain if it does
\* for the device that makes it.
LEMMA MemoryOfDevice ==
  ASSUME NEW d \in Device, MemoryInChain, manifest' = manifest,
         \A e \in Device \ {d} :
           /\ pc'[e] = pc[e] /\ plan'[e] = plan[e] /\ serial'[e] = serial[e]
           /\ confirmed'[e] = confirmed[e] /\ saved'[e] = saved[e],
         /\ InChain(saved'[d])
         /\ pc'[d] # "idle" => InChain(plan'[d]) /\ saved'[d].rev <= plan'[d].rev
         /\ confirmed'[d] => /\ pc'[d] \in ReleaseStages \cup {"saveState"}
                             /\ InChain(Proposal(d)')
         /\ pc'[d] = "saveState" => confirmed'[d]
  PROVE  MemoryInChain'
<1>1. \A m : InChain(m) => m.rev <= manifest'.rev
                           /\ (m.rev = manifest'.rev => m = manifest')
  BY DEF InChain
<1>2. \A e \in Device \ {d} : Proposal(e)' = Proposal(e)
  BY DEF Proposal, TokenOf
<1> QED
  BY <1>1, <1>2 DEF MemoryInChain, InChain

\* Every step of a device keeps what it remembers in the chain.
LEMMA MemoryStep ==
  ASSUME NEW d \in Device, Always, Always', MemoryInChain, DeviceStep(d)
  PROVE  MemoryInChain'
<1> USE DEF leaseVars, remoteVars, memory, Always, TypeOK, TokenOf, ReleaseStages
<1>m. /\ InChain(saved[d])
      /\ pc[d] # "idle" => InChain(plan[d]) /\ saved[d].rev <= plan[d].rev
      /\ confirmed[d] => /\ pc[d] \in ReleaseStages \cup {"saveState"}
                         /\ InChain(Proposal(d))
      /\ pc[d] = "saveState" => confirmed[d]
  BY DEF MemoryInChain
<1>k. ASSUME UNCHANGED <<manifest, serial, saved, memory>>, pc[d] # "idle",
             \A e \in Device \ {d} : pc'[e] = pc[e],
             confirmed[d] => pc'[d] \in ReleaseStages \cup {"saveState"},
             pc'[d] = "saveState" => confirmed[d]
      PROVE  MemoryInChain'
  <2>1. Proposal(d)' = Proposal(d)
    BY <1>k DEF Proposal
  <2>2. /\ saved' = saved /\ plan' = plan /\ serial' = serial
        /\ confirmed' = confirmed /\ manifest' = manifest
    BY <1>k
  <2>3. InChain(Proposal(d)') <=> InChain(Proposal(d))
    BY <2>1
  <2> QED
    BY <1>k, <1>m, <2>2, <2>3, MemoryOfDevice
<1>s. ASSUME UNCHANGED <<manifest, serial, saved>>, Stop(d)
      PROVE  MemoryInChain'
  <2>1. pc'[d] = "idle" /\ confirmed'[d] = FALSE /\ saved'[d] = saved[d]
    BY <1>s DEF Stop, Goto
  <2>2. ASSUME NEW e \in Device \ {d}
        PROVE  /\ pc'[e] = pc[e] /\ plan'[e] = plan[e] /\ serial'[e] = serial[e]
               /\ confirmed'[e] = confirmed[e] /\ saved'[e] = saved[e]
    BY <1>s, <2>2 DEF Stop, Goto
  <2>3. manifest' = manifest
    BY <1>s
  <2> QED
    BY <2>1, <2>2, <2>3, <1>m, MemoryOfDevice
<1>t. ASSUME UNCHANGED <<manifest, serial, saved>>, pc[d] # "idle",
             Throw(d) \/ (Released(d) /\ pc[d] \in ReleaseStages)
      PROVE  MemoryInChain'
  <2>1. CASE Stop(d)
    BY <2>1, <1>t, <1>s
  <2>2. CASE pc[d] \in CommitStages /\ Continue(d, "release")
    BY <2>2, <1>t, <1>k DEF Goto
  <2>3. CASE pc[d] \in ReleaseStages /\ confirmed[d] /\ Continue(d, "saveState")
    BY <2>3, <1>t, <1>k DEF Goto
  <2> QED
    BY <2>1, <2>2, <2>3, <1>t DEF Throw, Released
<1>1. CASE Plan(d)
  <2>1. InChain(manifest)
    BY DEF InChain, Manifest
  <2>2. saved[d].rev <= manifest.rev
    BY <1>m DEF InChain
  <2> QED
    BY <1>1, <2>1, <2>2, <1>m, MemoryOfDevice DEF Plan, Goto, Proposal
<1>2. CASE NoOp(d)
  BY <1>2, <1>m, MemoryOfDevice DEF NoOp, Stop, Goto
<1>3. CASE SaveState(d)
  BY <1>3, <1>m, MemoryOfDevice DEF SaveState, Stop, Goto
<1>4. CASE BuildLease(d)
  BY <1>4, <1>m, MemoryOfDevice DEF BuildLease, Goto
<1>5. CASE AckLease(d) \/ EndSettle(d)
  BY <1>5, <1>m, MemoryOfDevice DEF AckLease, EndSettle, Goto
<1>6. CASE Confirm(d)
  <2>1. confirmed'[d] => manifest = Proposal(d)
    BY <1>6 DEF Confirm
  <2>2. Proposal(d)' = Proposal(d)
    BY <1>6 DEF Confirm, Proposal
  <2>3. InChain(manifest)
    BY DEF InChain, Manifest
  <2>4. confirmed'[d] => InChain(Proposal(d)')
    BY <2>1, <2>2, <2>3
  <2> QED
    BY <1>6, <2>4, <1>m, MemoryOfDevice DEF Confirm, Goto
<1>7. CASE Acquire(d) \/ ListLease(d) \/ AckPut(d)
  BY <1>7, <1>k, <1>m DEF Acquire, ListLease, AckPut, Goto, LeaseReads
<1>8. CASE ResolvePut(d)
  BY <1>8, <1>k, <1>m DEF ResolvePut
<1>9. CASE ListDuplicates(d) \/ DownloadMissing(d) \/ RefuseLease(d)
           \/ UpdateMissing(d) \/ Fail(d)
  BY <1>9, <1>t DEF ListDuplicates, DownloadMissing, RefuseLease, UpdateMissing,
                    Fail, LeaseReads
<1>10. CASE VerifyLease(d) \/ Assert1(d) \/ Recheck(d) \/ Assert2(d)
  <2>1. CASE Throw(d)
    BY <2>1, <1>10, <1>t DEF VerifyLease, Assert1, Recheck, Assert2
  <2>2. CASE \E s \in {"assert1", "recheck", "assert2", "putManifest"} :
               Continue(d, s)
    BY <2>2, <1>10, <1>k, <1>m DEF VerifyLease, Assert1, Recheck, Assert2, Goto
  <2> QED
    BY <2>1, <2>2, <1>10 DEF VerifyLease, Assert1, Recheck, Assert2
<1>11. CASE CheckRelease(d)
  <2>1. CASE Continue(d, "removeLease")
    BY <2>1, <1>11, <1>k DEF CheckRelease, Goto
  <2> QED
    BY <2>1, <1>11, <1>t DEF CheckRelease
<1>12. CASE ResolveRemove(d)
  <2>1. CASE Released(d)
    BY <2>1, <1>12, <1>t DEF ResolveRemove
  <2>2. CASE pc' = [pc EXCEPT ![d] = "deleteLease"] /\ UNCHANGED memory
    BY <2>2, <1>12, <1>k DEF ResolveRemove
  <2> QED
    BY <2>1, <2>2, <1>12 DEF ResolveRemove
<1>13. CASE DeleteLease(d)
  BY <1>13, <1>t DEF DeleteLease
<1>14. CASE Crash(d)
  BY <1>14, <1>s DEF Crash
<1> QED
  BY <1>1, <1>2, <1>3, <1>4, <1>5, <1>6, <1>7, <1>8, <1>9, <1>10, <1>11, <1>12,
     <1>13, <1>14 DEF DeviceStep

\* A write that takes effect in time makes the chain longer, or not.
LEMMA MemoryLands ==
  ASSUME Always, Always', ~late', Exclusion, MemoryInChain, NEW w \in wire,
         LandPut(w)
  PROVE  MemoryInChain'
<1> USE DEF leaseVars, memory, Always, TypeOK, TokenOf
<1>1. \/ manifest' = manifest
      \/ manifest'.base = manifest.id /\ manifest'.rev = manifest.rev + 1
  BY WriteLands
<1>2. ASSUME NEW x \in Manifest, InChain(x)
      PROVE  x.rev <= manifest'.rev /\ (x.rev = manifest'.rev => x = manifest')
  BY <1>1, <1>2 DEF InChain, Manifest
<1>3. \A d \in Device : /\ saved[d] \in Manifest /\ plan[d] \in Manifest
                        /\ Proposal(d) \in Manifest /\ Proposal(d)' = Proposal(d)
  BY DEF Proposal, Manifest, Token, LandPut
<1>4. /\ UNCHANGED <<memory, saved>>
      /\ \A d \in Device :
           /\ pc'[d] \in ReleaseStages \cup {"saveState"} <=>
                pc[d] \in ReleaseStages \cup {"saveState"}
           /\ pc'[d] = "saveState" <=> pc[d] = "saveState"
           /\ pc'[d] = "idle" <=> pc[d] = "idle"
  BY DEF LandPut, ReleaseStages
<1> QED
  BY <1>2, <1>3, <1>4 DEF MemoryInChain, InChain

------------------------------------------------------------------------------
(* The invariant holds, and what follows from it *)

\* Before any device has begun there is nothing for the invariant to refuse.
LEMMA InvInit == Init => IInv
<1> SUFFICES ASSUME Init PROVE IInv
  OBVIOUS
<1>1. TypeOK
  BY TypeInit
<1>2. TokensDrawn /\ Clocks /\ WritersStood /\ AtMostOne /\ WriteExtends
      /\ SettlersWait
  BY DEF Init, TokensDrawn, Clocks, WritersStood, AtMostOne, WriteExtends,
         SettlersWait
<1>3. LateFiles /\ PlanIsCurrent
  BY DEF Init, LateFiles, PlanIsCurrent
<1>4. MemoryInChain
  <2>1. InChain(Genesis)
    BY DEF Init, InChain, Genesis
  <2>2. \A d \in Device : pc[d] = "idle" /\ ~confirmed[d] /\ saved[d] = Genesis
    BY DEF Init
  <2> QED
    BY <2>1, <2>2 DEF MemoryInChain
<1> QED
  BY <1>1, <1>2, <1>3, <1>4 DEF IInv, Always, Exclusion

\* Every step keeps the invariant.
LEMMA InvStep == IInv /\ [Next]_vars => IInv'
<1> SUFFICES ASSUME IInv, [Next]_vars
             PROVE  IInv'
  OBVIOUS
<1>0. Always'
  BY AlwaysStep DEF IInv
<1> SUFFICES ASSUME ~late' PROVE Exclusion' /\ MemoryInChain'
  BY <1>0 DEF IInv
<1>1. ~late
  <2>1. ASSUME NEW d \in Device, DeviceStep(d) PROVE late' = late
    <3>1. CASE Calm(d)
      BY <3>1 DEF Calm
    <3>2. CASE BuildLease(d) \/ Assert2(d)
      BY <3>2 DEF BuildLease, Assert2, remoteVars
    <3> QED
      BY <3>1, <3>2, <2>1, CalmSteps DEF IInv
  <2> QED
    BY <2>1 DEF Next, LandLease, LandDelete, LandPut, Tick, vars, remoteVars
<1>2. Always /\ Exclusion /\ MemoryInChain
  BY <1>1 DEF IInv
<1>3. ASSUME NEW d \in Device, DeviceStep(d)
      PROVE  Exclusion' /\ MemoryInChain'
  <2>1. MemoryInChain'
    BY <1>0, <1>2, <1>3, MemoryStep
  <2>2. CASE Assert2(d) /\ wire' # wire
    BY <2>1, <2>2, <1>0, <1>2, WriteSent
  <2>3. CASE ~Assert2(d) \/ wire' = wire
    BY <2>1, <2>3, <1>0, <1>2, <1>3, DeviceRestrained, RestrainedStep
  <2> QED
    BY <2>2, <2>3
<1>4. CASE (\E w \in requests : LandLease(w)) \/ (\E i \in deletions : LandDelete(i))
           \/ Tick
  <2>1. Exclusion'
    BY <1>0, <1>2, <1>4, FilesRestrain, RestrainedStep
  <2>2. /\ UNCHANGED <<manifest, memory, serial, saved>>
        /\ \A d \in Device : \/ pc'[d] = pc[d]
                             \/ pc[d] = "sendLease" /\ pc'[d] = "leaseSent"
    BY <1>2, <1>4 DEF LandLease, LandDelete, Tick, deviceVars, remoteVars, leaseVars,
                      memory, Always, TypeOK
  <2>3. MemoryInChain'
    BY <1>2, <2>2 DEF MemoryInChain, InChain, Proposal, TokenOf, ReleaseStages, memory
  <2> QED
    BY <2>1, <2>3
<1>5. ASSUME NEW m \in wire, LandPut(m) PROVE Exclusion' /\ MemoryInChain'
  BY <1>0, <1>2, <1>5, WriteLands, MemoryLands
<1>6. CASE UNCHANGED vars
  <2> USE <1>6 DEF vars, remoteVars, leaseVars, deviceVars, memory
  <2>1. MemoryInChain'
    BY <1>2 DEF MemoryInChain, InChain, Proposal, TokenOf
  <2>2. Restrains
    BY <1>2 DEF Restrains, Restrained, InTime, HasToken, ListedOwn, Passing, Standing,
                Files, TokenOf, CountsOnLease, Always, TypeOK
  <2> QED
    BY <2>1, <2>2, <1>0, <1>2, RestrainedStep
<1> QED
  BY <1>3, <1>4, <1>5, <1>6 DEF Next

\* The inductive invariant holds in every reachable state.
THEOREM Invariance == Spec => []IInv
BY InvInit, InvStep, PTL DEF Spec

\* Until a write comes too late, at most one manifest write that could still
\* take effect in time is on its way to Drive.
THEOREM OneWriteInFlightHolds == Spec => []OneWriteInFlight
<1>1. IInv => OneWriteInFlight
  BY DEF IInv, Exclusion, AtMostOne, OneWriteInFlight
<1> QED
  BY <1>1, Invariance, PTL

\* Until a write comes too late, the base in every state file is a revision of
\* the remote chain.
THEOREM BaseInChainHolds == Spec => []BaseInChain
<1>1. IInv => BaseInChain
  BY DEF IInv, MemoryInChain, InChain, BaseInChain
<1> QED
  BY <1>1, Invariance, PTL

\* How the manifest can change: only by a write that extends it, unless that
\* write comes too late.
LEMMA ManifestStep ==
  ASSUME IInv, [Next]_vars, ~late'
  PROVE  /\ ~late
         /\ manifest' # manifest =>
              /\ manifest'.base = manifest.id
              /\ manifest'.rev = manifest.rev + 1
              /\ saved' = saved
<1> USE DEF leaseVars, remoteVars
<1>0. Always'
  BY AlwaysStep DEF IInv
<1>1. ASSUME NEW d \in Device, DeviceStep(d)
      PROVE  manifest' = manifest /\ late' = late
  <2>1. CASE Calm(d)
    BY <2>1 DEF Calm
  <2>2. CASE BuildLease(d) \/ Assert2(d)
    BY <2>2 DEF BuildLease, Assert2
  <2> QED
    BY <2>1, <2>2, <1>1, CalmSteps DEF IInv
<1>2. ~late
  BY <1>1 DEF Next, LandLease, LandDelete, LandPut, Tick, vars
<1>3. CASE \E w \in wire : LandPut(w)
  BY <1>0, <1>2, <1>3, WriteLands DEF LandPut, IInv
<1>4. ASSUME ~\E w \in wire : LandPut(w)
      PROVE  manifest' = manifest
  BY <1>4, <1>1 DEF Next, LandLease, LandDelete, Tick, vars
<1> QED
  BY <1>2, <1>3, <1>4

\* Until a write comes too late no commit is lost: every manifest write
\* replaces the manifest it was planned on.
THEOREM NoLostUpdateHolds == Spec => NoLostUpdate
<1>1. IInv /\ [Next]_vars =>
        [manifest' # manifest /\ ~late' => manifest'.base = manifest.id]_vars
  BY ManifestStep
<1> QED
  BY <1>1, Invariance, PTL DEF Spec, NoLostUpdate

\* How a saved base can change: forward, to a revision of the chain.
LEMMA SavedStep ==
  ASSUME IInv, ~late, [Next]_vars, saved' # saved
  PROVE  /\ manifest' = manifest
         /\ \E d \in Device : /\ saved' = [saved EXCEPT ![d] = saved'[d]]
                             /\ InChain(saved'[d])
                             /\ saved[d].rev <= saved'[d].rev
<1> USE DEF leaseVars, remoteVars, Always
<1>1. ASSUME NEW d \in Device, NoOp(d)
      PROVE  /\ manifest' = manifest
             /\ saved' = [saved EXCEPT ![d] = saved'[d]]
             /\ InChain(saved'[d]) /\ saved[d].rev <= saved'[d].rev
  BY <1>1 DEF NoOp, IInv, TypeOK, MemoryInChain
<1>2. ASSUME NEW d \in Device, SaveState(d)
      PROVE  /\ manifest' = manifest
             /\ saved' = [saved EXCEPT ![d] = saved'[d]]
             /\ InChain(saved'[d]) /\ saved[d].rev <= saved'[d].rev
  <2>1. saved[d].rev \in Nat /\ plan[d].rev \in Nat
    BY DEF IInv, TypeOK, Manifest
  <2>2. Proposal(d).rev = plan[d].rev + 1
    BY DEF Proposal
  <2> QED
    BY <1>2, <2>1, <2>2 DEF SaveState, IInv, TypeOK, MemoryInChain
<1>3. ASSUME NEW d \in Device, DeviceStep(d), saved' # saved
      PROVE  NoOp(d) \/ SaveState(d)
  BY <1>3 DEF DeviceStep, Plan, Acquire, ListLease, ListDuplicates,
     DownloadMissing, RefuseLease, BuildLease, ResolvePut, UpdateMissing, AckLease,
     EndSettle, VerifyLease, Assert1, Recheck, Assert2, AckPut, Confirm,
     CheckRelease, ResolveRemove, DeleteLease, Fail, Crash
<1>4. \E d \in Device : DeviceStep(d)
  BY DEF Next, LandPut, LandLease, LandDelete, Tick, vars
<1> QED
  BY <1>1, <1>2, <1>3, <1>4

\* The protocol implements the chain of manifests.
THEOREM ChainRefinement == Spec => ChainSpec
<1>1. Init => Chain!ChainInit
  BY NoneAssumption DEF Init, Chain!ChainInit, Genesis, Manifest
<1>2. IInv /\ [Next]_vars => [Chain!ChainNext]_(Chain!chainVars)
  <2> SUFFICES ASSUME IInv, [Next]_vars, ~late'
               PROVE  [Chain!ChainNext]_(Chain!chainVars)
    BY DEF Chain!ChainNext, Chain!Break
  <2>0. TypeOK' /\ ~late /\ (TypeOK /\ late' = FALSE /\ late = FALSE)
    BY TypeStep, ManifestStep DEF IInv, Always, TypeOK
  <2>1. CASE saved' # saved
    BY <2>0, <2>1, SavedStep
       DEF InChain, Chain!ChainNext, Chain!Adopt, Chain!InChain
  <2>2. CASE saved' = saved /\ manifest' # manifest
    <3>1. manifest' \in Manifest
      BY <2>0 DEF TypeOK
    <3> QED
      BY <3>1, <2>0, <2>2, ManifestStep DEF Chain!ChainNext, Chain!Publish
  <2>3. CASE saved' = saved /\ manifest' = manifest
    BY <2>0, <2>3 DEF Chain!chainVars
  <2> QED
    BY <2>1, <2>2, <2>3
<1> QED
  BY <1>1, <1>2, Invariance, PTL DEF Spec, ChainSpec, Chain!ChainSpec
==============================================================================

-------------------------- MODULE VaultSetupProofs --------------------------
(***************************************************************************)
(* Proofs about VaultSetup, for any devices, vaults, commands and faults.  *)
(***************************************************************************)
EXTENDS VaultSetup, FiniteSetTheorems, TLAPS

USE NoneIsNoVault, ClosedIsNoVault

(***************************************************************************)
(* Types                                                                   *)
(***************************************************************************)
LEMMA CreationFields ==
  ASSUME NEW c \in Creation, NEW s \in Stage, NEW d \in Device \union {None},
         NEW l \in SUBSET Vault, NEW t \in RecordId \union {None}
  PROVE  /\ [c EXCEPT !.at = s, !.by = d] \in Creation
         /\ [c EXCEPT !.at = s, !.loaded = l] \in Creation
         /\ [c EXCEPT !.at = s, !.target = t] \in Creation
<1>1. [c EXCEPT !.at = s] \in Creation
  BY DEF Creation
<1>2. ASSUME NEW e \in Creation
      PROVE  [e EXCEPT !.by = d] \in Creation /\ [e EXCEPT !.loaded = l] \in Creation
             /\ [e EXCEPT !.target = t] \in Creation
  BY DEF Creation
<1>3. [c EXCEPT !.at = s, !.by = d] = [[c EXCEPT !.at = s] EXCEPT !.by = d]
  OBVIOUS
<1>4. [c EXCEPT !.at = s, !.loaded = l] = [[c EXCEPT !.at = s] EXCEPT !.loaded = l]
  OBVIOUS
<1>5. [c EXCEPT !.at = s, !.target = t] = [[c EXCEPT !.at = s] EXCEPT !.target = t]
  OBVIOUS
<1> QED BY <1>1, <1>2, <1>3, <1>4, <1>5

LEMMA CreationOf == TypeOK => \A v \in Vault : creation[v] \in Creation
BY DEF TypeOK

LEMMA GoType ==
  ASSUME TypeOK, NEW v \in Vault, NEW s \in Stage, Go(v, s)
  PROVE  creation' \in [Vault -> Creation]
<1>1. creation[v] \in Creation
  BY DEF TypeOK
<1>2. [creation[v] EXCEPT !.at = s] \in Creation
  BY <1>1 DEF Creation
<1> QED BY <1>2 DEF TypeOK, Go

LEMMA FaultType ==
  ASSUME TypeOK, Fault
  PROVE  spent' \in [commands : Nat, faults : Nat]
BY DEF TypeOK, Fault, Spend

LEMMA MadeType ==
  ASSUME TypeOK, NEW n \in {1, 2}, Made(n)
  PROVE  disturbed' \in BOOLEAN /\ spent' \in [commands : Nat, faults : Nat]
<1>1. CASE Once
  BY <1>1 DEF TypeOK, Once
<1>2. CASE Twice
  BY <1>2, FaultType DEF Twice
<1> QED BY <1>1, <1>2 DEF Made

LEMMA SpendType ==
  ASSUME TypeOK, Command \/ Fault
  PROVE  spent' \in [commands : Nat, faults : Nat]
BY DEF TypeOK, Command, Fault, Spend

LEMMA RegisteredType == TypeOK => Registered \subseteq Vault
BY DEF TypeOK, Registered, Record

LEMMA CreationStepType == ASSUME TypeOK, NEW v \in Vault, CreationStep(v) PROVE TypeOK'
<1>1. CASE LoadRegistry(v)
  <2>1. PICK s \in {"list", "over"} :
          creation' = [creation EXCEPT ![v].at = s, ![v].loaded = Registered]
    BY <1>1 DEF LoadRegistry
  <2>2. [creation[v] EXCEPT !.at = s, !.loaded = Registered] \in Creation
    BY RegisteredType, CreationOf, CreationFields DEF Stage
  <2>3. creation' \in [Vault -> Creation]
    BY <2>1, <2>2 DEF TypeOK
  <2> QED BY <1>1, <2>3 DEF TypeOK, LoadRegistry, drive, device, files
<1>2. CASE ListContainers(v)
  <2>1. PICK s \in {"container", "root", "over"} : Go(v, s)
    BY <1>2 DEF ListContainers
  <2> QED BY <1>2, <2>1, GoType DEF TypeOK, ListContainers, Stage, drive, device, files
<1>3. CASE MakeContainer(v)
  <2>1. PICK n \in {1, 2} : Made(n) /\ containers' = containers + n
    BY <1>3 DEF MakeContainer
  <2> QED BY <1>3, <2>1, GoType, MadeType DEF TypeOK, MakeContainer, Stage, device, files
<1>4. CASE MakeRoot(v)
  BY <1>4, GoType DEF TypeOK, MakeRoot, Stage, device, files
<1>5. CASE MakeRecovery(v)
  BY <1>5, GoType DEF TypeOK, MakeRecovery, Stage, device, files
<1>6. CASE PutManifest(v)
  <2>1. PICK n \in {1, 2} : Made(n) /\ manifests' = [manifests EXCEPT ![v] = n]
    BY <1>6 DEF PutManifest
  <2> QED BY <1>6, <2>1, GoType, MadeType DEF TypeOK, PutManifest, Stage, device, files
<1>7. CASE LookUpRegistry(v)
  <2>1. creation' \in [Vault -> Creation]
    <3>1. CASE Readable
      <4>1. PICK target \in (IF records = {} THEN {None} ELSE {r.id : r \in records}) :
              creation' = [creation EXCEPT ![v].at = "write", ![v].target = target]
        BY <1>7, <3>1 DEF LookUpRegistry
      <4>2. target \in RecordId \union {None}
        BY DEF TypeOK, Record
      <4>3. [creation[v] EXCEPT !.at = "write", !.target = target] \in Creation
        BY <4>2, CreationOf, CreationFields DEF Stage
      <4> QED BY <4>1, <4>3 DEF TypeOK
    <3> QED BY <1>7, <3>1, GoType DEF LookUpRegistry, Stage
  <2> QED BY <1>7, <2>1 DEF TypeOK, LookUpRegistry, drive, device, files
<1>8. CASE SaveRegistry(v)
  <2>1. Listed(v) \subseteq Vault
    BY CreationOf DEF Creation, Listed
  <2>2. records' \subseteq Record /\ disturbed' \in BOOLEAN /\ spent' \in [commands : Nat, faults : Nat]
    <3>1. CASE creation[v].target = None
      <4>1. PICK n \in {1, 2} : /\ Made(n)
                                /\ records' = records \union [id : {v} \X (1..n), vaults : {Listed(v)}]
        BY <1>8, <3>1 DEF SaveRegistry
      <4>2. \A r \in [id : {v} \X (1..n), vaults : {Listed(v)}] : r \in Record
        BY <2>1 DEF Record, RecordId
      <4> QED BY <4>1, <4>2, MadeType DEF TypeOK
    <3>2. CASE creation[v].target # None
      BY <1>8, <2>1, <3>2 DEF SaveRegistry, Once, TypeOK, Record
    <3> QED BY <3>1, <3>2
  <2> QED BY <1>8, <2>2, GoType DEF TypeOK, SaveRegistry, Stage, device, files
<1>9. CASE SelectCreated(v)
  BY <1>9, GoType DEF TypeOK, SelectCreated, Stage, drive, files
<1> QED BY <1>1, <1>2, <1>3, <1>4, <1>5, <1>6, <1>7, <1>8, <1>9 DEF CreationStep

LEMMA CreateVaultType == ASSUME TypeOK, NEW v \in Vault, CreateVault(v) PROVE TypeOK'
<1>1. CASE \E d \in Device : StartCreation(v, d)
  <2>1. PICK d \in Device : StartCreation(v, d)
    BY <1>1
  <2>2. [creation[v] EXCEPT !.at = "load", !.by = d] \in Creation
    BY CreationOf, CreationFields DEF Stage
  <2>3. creation' \in [Vault -> Creation]
    BY <2>1, <2>2 DEF TypeOK, StartCreation
  <2> QED BY <2>1, <2>3, SpendType DEF TypeOK, StartCreation, drive, device, files
<1>2. CASE CreationFails(v)
  BY <1>2, GoType, SpendType DEF TypeOK, CreationFails, Stage, drive, device, files
<1> QED BY <1>1, <1>2, CreationStepType DEF CreateVault

LEMMA RunType == TypeOK => \A d \in Device : run[d] # None => run[d].vault \in Vault
BY DEF TypeOK

LEMMA OnDeviceType == ASSUME TypeOK, NEW d \in Device, OnDevice(d) PROVE TypeOK'
<1>1. CASE OpenTab(d)
  BY <1>1, SpendType, RegisteredType DEF TypeOK, OpenTab, drive, files
<1>2. CASE CloseTab(d)
  BY <1>2 DEF TypeOK, CloseTab, drive, files
<1>3. CASE \E choice \in Vault \union {None} : SaveTab(d, choice)
  <2>1. PICK choice \in Vault \union {None} : SaveTab(d, choice)
    BY <1>3
  <2>2. tab' \in [Device -> [active : Vault \union {None}, list : SUBSET Vault] \union {Closed}]
    BY <2>1 DEF TypeOK, SaveTab
  <2> QED BY <2>1, <2>2, SpendType DEF TypeOK, SaveTab, drive, files
<1>4. CASE ExportPairing(d)
  BY <1>4, SpendType, RegisteredType DEF TypeOK, ExportPairing, drive, device, files
<1>5. CASE ImportPairing(d)
  BY <1>5, SpendType DEF TypeOK, ImportPairing, drive, files
<1>6. ASSUME NEW purpose \in {"sync", "rebuild"}, StartRun(d, purpose) PROVE TypeOK'
  <2>1. spent' \in [commands : Nat, faults : Nat]
    BY <1>6, SpendType DEF TypeOK, StartRun
  <2> QED BY <1>6, <2>1 DEF TypeOK, StartRun, Reachable, drive, files
<1>7. CASE EndRun(d)
  <2>1. content' \in [Vault -> SUBSET Vault] /\ folder' \in [Device -> SUBSET Vault]
    BY <1>7, RunType DEF TypeOK, EndRun, Exchange
  <2> QED BY <1>7, <2>1, RunType DEF TypeOK, EndRun, drive
<1>8. CASE RunFails(d)
  <2>1. content' \in [Vault -> SUBSET Vault] /\ folder' \in [Device -> SUBSET Vault] /\ torn' \subseteq Vault
    <3>1. run[d].vault \in Vault
      BY <1>8, RunType DEF RunFails
    <3>2. CASE Exchange(d, run[d].vault) /\ torn' = torn \union {run[d].vault}
      BY <3>1, <3>2 DEF TypeOK, Exchange
    <3>3. CASE UNCHANGED <<folder, content, torn>>
      BY <3>3 DEF TypeOK
    <3> QED BY <1>8, <3>2, <3>3 DEF RunFails
  <2> QED BY <1>8, <2>1, SpendType DEF TypeOK, RunFails, drive
<1>9. CASE Damage(d)
  BY <1>9, SpendType DEF TypeOK, Damage, drive, files
<1> QED BY <1>1, <1>2, <1>3, <1>4, <1>5, <1>6, <1>7, <1>8, <1>9 DEF OnDevice

LEMMA InitType == Init => TypeOK
<1> SUFFICES ASSUME Init PROVE TypeOK
  OBVIOUS
<1>1. [at |-> "unused", by |-> None, loaded |-> {}, target |-> None] \in Creation
  BY DEF Creation, Stage
<1>2. creation \in [Vault -> Creation]
  BY <1>1 DEF Init
<1>3. spent \in [commands : Nat, faults : Nat] /\ run \in [Device -> [purpose : {"sync", "rebuild"}, vault : Vault] \union {None}]
  BY DEF Init
<1>4. /\ content \in [Vault -> SUBSET Vault] /\ folder \in [Device -> SUBSET Vault]
      /\ manifests \in [Vault -> 0..2]
  BY DEF Init
<1>5. /\ active \in [Device -> Vault \union {None}]
      /\ tab \in [Device -> [active : Vault \union {None}, list : SUBSET Vault] \union {Closed}]
      /\ base \in [Device -> Vault \union {None, Invalid}]
  BY DEF Init
<1>6. /\ containers \in Nat /\ records \subseteq Record /\ roots \subseteq Vault
      /\ recoveries \subseteq Vault /\ torn \subseteq Vault
      /\ bundle \in Vault \union {None} /\ disturbed \in BOOLEAN
  BY DEF Init
<1> QED BY <1>2, <1>3, <1>4, <1>5, <1>6 DEF TypeOK

LEMMA StepType == TypeOK /\ [Next]_vars => TypeOK'
<1> SUFFICES ASSUME TypeOK, [Next]_vars PROVE TypeOK'
  OBVIOUS
<1>1. CASE UNCHANGED vars
  BY <1>1 DEF TypeOK, vars, drive, device, files
<1> QED BY <1>1, CreateVaultType, OnDeviceType DEF Next

(* Every variable keeps to its type (domain.ts, vault-registry.ts).        *)
THEOREM TypeCorrect == Spec => []TypeOK
BY InitType, StepType, PTL DEF Spec

(***************************************************************************)
(* A registered vault is complete                                          *)
(***************************************************************************)
Complete(v) == v \in roots /\ v \in recoveries /\ manifests[v] > 0

(* What a creation has made by the stage it is at; what it loaded.         *)
Built ==
  \A v \in Vault :
    /\ creation[v].at \in {"recovery", "manifest", "look", "write", "select"} => v \in roots
    /\ creation[v].at \in {"manifest", "look", "write", "select"} => v \in recoveries
    /\ creation[v].at \in {"look", "write", "select"} => manifests[v] > 0
    /\ \A w \in creation[v].loaded : Complete(w)

OthersSame(v) == \A w \in Vault : w # v => creation'[w] = creation[w]

LEMMA GoEffect ==
  ASSUME TypeOK, NEW v \in Vault, NEW s, Go(v, s)
  PROVE  OthersSame(v) /\ creation'[v].at = s /\ creation'[v].loaded = creation[v].loaded
         /\ creation'[v].target = creation[v].target /\ creation'[v].by = creation[v].by
BY DEF TypeOK, Go, OthersSame, Creation

(* Nothing made is taken away.                                             *)
LEMMA DriveGrows ==
  ASSUME TypeOK, [Next]_vars
  PROVE  /\ roots \subseteq roots' /\ recoveries \subseteq recoveries'
         /\ \A w \in Vault : Complete(w) => Complete(w)'
<1>1. /\ roots \subseteq roots' /\ recoveries \subseteq recoveries'
      /\ \A w \in Vault : manifests'[w] = manifests[w] \/ manifests'[w] > 0
  <2>1. CASE UNCHANGED vars
    BY <2>1 DEF vars, drive
  <2>2. ASSUME NEW v \in Vault, CreateVault(v)
        PROVE  /\ roots \subseteq roots' /\ recoveries \subseteq recoveries'
               /\ \A w \in Vault : manifests'[w] = manifests[w] \/ manifests'[w] > 0
    <3>1. CASE PutManifest(v)
      BY <3>1 DEF PutManifest, TypeOK
    <3>2. CASE MakeRoot(v) \/ MakeRecovery(v) \/ MakeContainer(v) \/ SaveRegistry(v)
      BY <3>2 DEF MakeRoot, MakeRecovery, MakeContainer, SaveRegistry
    <3>3. CASE UNCHANGED drive
      BY <3>3 DEF drive
    <3> QED BY <2>2, <3>1, <3>2, <3>3 DEF CreateVault, CreationStep, StartCreation, CreationFails,
               LoadRegistry, ListContainers, LookUpRegistry, SelectCreated
  <2>3. ASSUME NEW d \in Device, OnDevice(d) PROVE UNCHANGED drive
    BY <2>3 DEF OnDevice, OpenTab, CloseTab, SaveTab, ExportPairing, ImportPairing, StartRun, EndRun,
            RunFails, Damage
  <2> QED BY <2>1, <2>2, <2>3 DEF Next, drive
<1> QED BY <1>1 DEF Complete

LEMMA OnDeviceKeeps ==
  ASSUME NEW d \in Device, OnDevice(d)
  PROVE  UNCHANGED <<drive, creation, disturbed>>
BY DEF OnDevice, OpenTab, CloseTab, SaveTab, ExportPairing, ImportPairing, StartRun, EndRun,
       RunFails, Damage, device

LEMMA BuiltStep ==
  ASSUME TypeOK, Built, RegisteredIsComplete, [Next]_vars
  PROVE  Built' /\ RegisteredIsComplete'
<1> USE DEF RegisteredIsComplete
<1>1. \A w \in Vault : Complete(w) => Complete(w)'
  BY DriveGrows
<1>2. \A w \in Registered : w \in Vault /\ Complete(w)
  BY RegisteredType DEF Complete
<1>3. CASE UNCHANGED <<drive, creation>>
  BY <1>3 DEF drive, Built, Complete, Registered
<1>4. ASSUME NEW v \in Vault, CreateVault(v) PROVE Built' /\ RegisteredIsComplete'
  <2>1. ASSUME OthersSame(v), creation'[v].loaded \subseteq Registered \union creation[v].loaded,
               \/ creation'[v].at \in {"load", "list", "container", "root", "over"}
               \/ creation'[v].at = "recovery" /\ v \in roots'
               \/ creation'[v].at = "manifest" /\ v \in roots' /\ v \in recoveries'
               \/ creation'[v].at \in {"look", "write", "select"} /\ Complete(v)'
        PROVE  Built'
    <3>1. \A w \in creation'[v].loaded : Complete(w)'
      BY <2>1, <1>1, <1>2, CreationOf DEF Built, Creation
    <3>2. ASSUME NEW u \in Vault, u # v
          PROVE  /\ creation'[u].at \in {"recovery", "manifest", "look", "write", "select"} => u \in roots'
                 /\ creation'[u].at \in {"manifest", "look", "write", "select"} => u \in recoveries'
                 /\ creation'[u].at \in {"look", "write", "select"} => manifests'[u] > 0
                 /\ \A w \in creation'[u].loaded : Complete(w)'
      <4>1. creation'[u] = creation[u]
        BY <2>1, <3>2 DEF OthersSame
      <4>2. creation[u].at \in {"look", "write", "select"} => Complete(u)
        BY DEF Built, Complete
      <4> QED BY <4>1, <4>2, <1>1, DriveGrows, CreationOf DEF Built, Complete, Creation
    <3>3. /\ creation'[v].at \in {"recovery", "manifest", "look", "write", "select"} => v \in roots'
          /\ creation'[v].at \in {"manifest", "look", "write", "select"} => v \in recoveries'
          /\ creation'[v].at \in {"look", "write", "select"} => manifests'[v] > 0
      BY <2>1 DEF Complete
    <3> QED BY <3>1, <3>2, <3>3 DEF Built, Complete
  <2>2. CASE UNCHANGED records
    <3>1. RegisteredIsComplete'
      BY <2>2, <1>1, <1>2 DEF Registered, Complete
    <3>2. /\ OthersSame(v)
          /\ creation'[v].loaded \subseteq Registered \union creation[v].loaded
          /\ \/ creation'[v].at \in {"load", "list", "container", "root", "over"}
             \/ creation'[v].at = "recovery" /\ v \in roots'
             \/ creation'[v].at = "manifest" /\ v \in roots' /\ v \in recoveries'
             \/ creation'[v].at \in {"look", "write", "select"} /\ Complete(v)'
      <4>1. CASE \E d \in Device : StartCreation(v, d)
        BY <4>1 DEF StartCreation, TypeOK, OthersSame, Creation
      <4>2. CASE LoadRegistry(v)
        BY <4>2 DEF LoadRegistry, TypeOK, OthersSame, Creation
      <4>3. CASE ListContainers(v) \/ MakeContainer(v) \/ SelectCreated(v) \/ CreationFails(v)
        <5>1. \E s \in {"container", "root", "over"} : Go(v, s)
          BY <4>3 DEF ListContainers, MakeContainer, SelectCreated, CreationFails
        <5> QED BY <5>1, GoEffect
      <4>4. CASE MakeRoot(v)
        BY <4>4, GoEffect DEF MakeRoot
      <4>5. CASE MakeRecovery(v)
        BY <4>5, GoEffect DEF MakeRecovery, At, Built
      <4>6. CASE PutManifest(v)
        <5>1. PICK n \in {1, 2} : manifests' = [manifests EXCEPT ![v] = n]
          BY <4>6 DEF PutManifest
        <5>2. Complete(v)'
          BY <4>6, <5>1 DEF PutManifest, At, Built, Complete, TypeOK
        <5> QED BY <4>6, <5>2, GoEffect DEF PutManifest
      <4>7. CASE LookUpRegistry(v)
        <5>1. Complete(v)'
          BY <4>7, <1>1 DEF LookUpRegistry, At, Built, Complete
        <5>2. CASE Readable
          <6>1. PICK target : creation' = [creation EXCEPT ![v].at = "write", ![v].target = target]
            BY <4>7, <5>2 DEF LookUpRegistry
          <6>2. /\ OthersSame(v) /\ creation'[v].at = "write"
                /\ creation'[v].loaded = creation[v].loaded
            BY <6>1 DEF TypeOK, OthersSame, Creation
          <6> QED BY <5>1, <6>2
        <5> QED BY <4>7, <5>2, GoEffect DEF LookUpRegistry
      <4>8. CASE SaveRegistry(v)
        <5>1. Complete(v)'
          BY <4>8, <1>1 DEF SaveRegistry, At, Built, Complete
        <5> QED BY <4>8, <5>1, GoEffect DEF SaveRegistry
      <4> QED BY <1>4, <4>1, <4>2, <4>3, <4>4, <4>5, <4>6, <4>7, <4>8 DEF CreateVault, CreationStep
    <3> QED BY <2>1, <3>1, <3>2
  <2>3. CASE SaveRegistry(v)
    <3>1. Complete(v)' /\ Complete(v)
      BY <2>3, <1>1 DEF SaveRegistry, At, Built, Complete
    <3>2. \A w \in Listed(v) : w \in Vault /\ Complete(w)'
      BY <1>1, <3>1, CreationOf DEF Listed, Built, Creation
    <3>3. \A r \in records' : r.vaults = Listed(v) \/ r \in records
      <4>1. CASE creation[v].target = None
        BY <2>3, <4>1 DEF SaveRegistry
      <4>2. CASE creation[v].target # None
        BY <2>3, <4>2 DEF SaveRegistry, TypeOK, Record
      <4> QED BY <4>1, <4>2
    <3>4. RegisteredIsComplete'
      BY <3>2, <3>3, <1>1, <1>2 DEF Registered, Complete
    <3>5. Built'
      BY <2>1, <2>3, <3>1, GoEffect DEF SaveRegistry
    <3> QED BY <3>4, <3>5
  <2> QED BY <1>4, <2>2, <2>3 DEF CreateVault, CreationStep, StartCreation, CreationFails,
             LoadRegistry, ListContainers, MakeContainer, MakeRoot, MakeRecovery, PutManifest,
             LookUpRegistry, SelectCreated, drive
<1> QED BY <1>3, <1>4, OnDeviceKeeps DEF Next, vars

(* A vault anybody can select has its folders and a manifest               *)
(* (vault-registry.ts:93-122).                                             *)
THEOREM RegisteredAreComplete == Spec => []RegisteredIsComplete
<1>1. Init => Built /\ RegisteredIsComplete
  BY DEF Init, Built, RegisteredIsComplete, Registered
<1>2. TypeOK /\ Built /\ RegisteredIsComplete /\ [Next]_vars => (Built /\ RegisteredIsComplete)'
  BY BuiltStep
<1> QED BY <1>1, <1>2, TypeCorrect, PTL DEF Spec

(***************************************************************************)
(* Creations that do not overlap                                           *)
(***************************************************************************)
(* One creation at a time, which has seen what it is about to change.      *)
Careful(v) ==
  /\ At(v, "container") => containers = 0
  /\ At(v, "write") /\ creation[v].target = None => records = {}
  /\ InProgress(v) /\ ~At(v, "load") /\ ~At(v, "select") => Registered \subseteq creation[v].loaded

Single == containers <= 1 /\ \A r, s \in records : r = s

Alone ==
  ~disturbed =>
    /\ Single
    /\ \A v, w \in Vault : InProgress(v) /\ InProgress(w) => v = w
    /\ \A v \in Vault : Careful(v)

LEMMA StaysDisturbed == TypeOK /\ [Next]_vars /\ disturbed => disturbed'
<1> SUFFICES ASSUME TypeOK, [Next]_vars, disturbed PROVE disturbed'
  OBVIOUS
<1>1. CASE UNCHANGED disturbed
  BY <1>1
<1>2. ASSUME NEW v \in Vault, CreateVault(v) PROVE disturbed'
  <2>1. ASSUME NEW n, Made(n) PROVE disturbed'
    BY <2>1 DEF Made, Once, Twice
  <2> QED BY <1>2, <2>1 DEF CreateVault, CreationStep, StartCreation, CreationFails, LoadRegistry,
             ListContainers, MakeContainer, MakeRoot, MakeRecovery, PutManifest, LookUpRegistry,
             SaveRegistry, SelectCreated, Once
<1> QED BY <1>1, <1>2, OnDeviceKeeps DEF Next, vars

LEMMA AloneStep ==
  ASSUME TypeOK, Alone, [Next]_vars, ~disturbed'
  PROVE  Alone' /\ Registered \subseteq Registered'
<1>1. ~disturbed /\ Single /\ \A v \in Vault : Careful(v)
  BY StaysDisturbed DEF Alone
<1>2. \A v, w \in Vault : InProgress(v) /\ InProgress(w) => v = w
  BY <1>1 DEF Alone
<1>3. CASE UNCHANGED <<drive, creation, disturbed>>
  BY <1>3 DEF Alone, Single, Careful, InProgress, At, Registered, drive
<1>4. ASSUME NEW v \in Vault, CreateVault(v) PROVE Alone' /\ Registered \subseteq Registered'
  <2>1. ASSUME OthersSame(v), Single', Careful(v)', \A w \in Vault : w # v => ~InProgress(w)
        PROVE  Alone'
    <3>1. \A w \in Vault : w # v => creation'[w].at \in {"unused", "over"}
      BY <2>1 DEF OthersSame, InProgress
    <3>2. \A w \in Vault : w # v => ~InProgress(w)' /\ Careful(w)'
      BY <3>1 DEF InProgress, Careful, At
    <3> QED BY <2>1, <3>2 DEF Alone
  <2>2. InProgress(v) => \A w \in Vault : w # v => ~InProgress(w)
    BY <1>2
  <2>3. CASE \E d \in Device : StartCreation(v, d)
    <3>1. OthersSame(v) /\ creation'[v].at = "load" /\ UNCHANGED drive
      BY <2>3 DEF StartCreation, TypeOK, OthersSame, Creation
    <3>2. \A w \in Vault : ~InProgress(w)
      BY <2>3 DEF StartCreation
    <3>3. Single' /\ Careful(v)' /\ Registered' = Registered
      BY <3>1, <1>1 DEF Single, Careful, At, InProgress, drive, Registered
    <3> QED BY <2>1, <3>1, <3>2, <3>3
  <2>4. CASE LoadRegistry(v)
    <3>1. /\ OthersSame(v) /\ creation'[v].at \in {"list", "over"} /\ UNCHANGED drive
          /\ creation'[v].loaded = Registered
      BY <2>4 DEF LoadRegistry, TypeOK, OthersSame, Creation
    <3>2. InProgress(v)
      BY <2>4 DEF LoadRegistry, At, InProgress
    <3>3. Single' /\ Careful(v)' /\ Registered' = Registered
      BY <3>1, <1>1 DEF Single, Careful, At, InProgress, drive, Registered
    <3> QED BY <2>1, <2>2, <3>1, <3>2, <3>3
  <2>5. CASE ListContainers(v)
    <3>1. /\ At(v, "list") /\ UNCHANGED drive
          /\ \/ containers = 0 /\ Go(v, "container")
             \/ Go(v, "root") \/ Go(v, "over")
      BY <2>5 DEF ListContainers
    <3>2. /\ OthersSame(v) /\ creation'[v].loaded = creation[v].loaded
          /\ creation'[v].at \in {"container", "root", "over"}
          /\ creation'[v].at = "container" => containers = 0
      BY <3>1, GoEffect
    <3>3. InProgress(v) /\ Registered \subseteq creation[v].loaded
      BY <3>1, <1>1 DEF At, InProgress, Careful
    <3>4. Single' /\ Careful(v)' /\ Registered' = Registered
      BY <3>1, <3>2, <3>3, <1>1 DEF Single, Careful, At, InProgress, drive, Registered
    <3> QED BY <2>1, <2>2, <3>2, <3>3, <3>4
  <2>6. CASE MakeContainer(v)
    <3>1. containers = 0 /\ InProgress(v) /\ Registered \subseteq creation[v].loaded
      BY <2>6, <1>1 DEF MakeContainer, Careful, At, InProgress
    <3>2. containers' = 1 /\ UNCHANGED records
      BY <2>6, <3>1 DEF MakeContainer, Made, Twice
    <3>3. OthersSame(v) /\ creation'[v].at = "root" /\ creation'[v].loaded = creation[v].loaded
      BY <2>6, GoEffect DEF MakeContainer
    <3>4. Single' /\ Careful(v)' /\ Registered' = Registered
      BY <3>1, <3>2, <3>3, <1>1 DEF Single, Careful, At, InProgress, Registered
    <3> QED BY <2>1, <2>2, <3>1, <3>3, <3>4
  <2>7. CASE MakeRoot(v) \/ MakeRecovery(v) \/ PutManifest(v)
    <3>1. /\ At(v, "root") \/ At(v, "recovery") \/ At(v, "manifest")
          /\ Go(v, "recovery") \/ Go(v, "manifest") \/ Go(v, "look")
          /\ UNCHANGED <<containers, records>>
      BY <2>7 DEF MakeRoot, MakeRecovery, PutManifest
    <3>2. /\ OthersSame(v) /\ creation'[v].loaded = creation[v].loaded
          /\ creation'[v].at \in {"recovery", "manifest", "look"}
      BY <3>1, GoEffect
    <3>3. InProgress(v) /\ Registered \subseteq creation[v].loaded
      BY <3>1, <1>1 DEF At, InProgress, Careful
    <3>4. Single' /\ Careful(v)' /\ Registered' = Registered
      BY <3>1, <3>2, <3>3, <1>1 DEF Single, Careful, At, InProgress, Registered
    <3> QED BY <2>1, <2>2, <3>2, <3>3, <3>4
  <2>8. CASE LookUpRegistry(v)
    <3>1. InProgress(v) /\ Registered \subseteq creation[v].loaded /\ UNCHANGED drive
      BY <2>8, <1>1 DEF LookUpRegistry, Careful, At, InProgress
    <3>2. /\ OthersSame(v) /\ creation'[v].loaded = creation[v].loaded
          /\ creation'[v].at \in {"write", "over"}
          /\ creation'[v].at = "write" /\ creation'[v].target = None => records = {}
      <4>1. CASE Readable
        <5>1. PICK target \in (IF records = {} THEN {None} ELSE {r.id : r \in records}) :
                creation' = [creation EXCEPT ![v].at = "write", ![v].target = target]
          BY <2>8, <4>1 DEF LookUpRegistry
        <5>2. /\ OthersSame(v) /\ creation'[v].at = "write" /\ creation'[v].target = target
              /\ creation'[v].loaded = creation[v].loaded
          BY <5>1 DEF TypeOK, OthersSame, Creation
        <5>3. records # {} => target \in RecordId
          BY DEF TypeOK, Record
        <5>4. None \notin RecordId
          BY NoneIsNoRecordId
        <5> QED BY <5>2, <5>3, <5>4
      <4> QED BY <2>8, <4>1, GoEffect DEF LookUpRegistry
    <3>3. Single' /\ Careful(v)' /\ Registered' = Registered
      BY <3>1, <3>2, <1>1 DEF Single, Careful, At, InProgress, Registered, drive
    <3> QED BY <2>1, <2>2, <3>1, <3>2, <3>3
  <2>9. CASE SaveRegistry(v)
    <3>1. InProgress(v) /\ Registered \subseteq Listed(v)
      BY <2>9, <1>1 DEF SaveRegistry, Careful, At, InProgress, Listed
    <3>2. OthersSame(v) /\ creation'[v].at = "select" /\ UNCHANGED containers
      BY <2>9, GoEffect DEF SaveRegistry
    <3>3. (\A r, s \in records' : r = s) /\ Registered \subseteq Registered'
      <4>1. CASE creation[v].target = None
        <5>1. records = {}
          BY <2>9, <1>1, <4>1 DEF SaveRegistry, Careful
        <5>2. records' = records \union [id : {v} \X (1..1), vaults : {Listed(v)}]
          BY <2>9, <4>1 DEF SaveRegistry, Made, Twice
        <5> QED BY <5>1, <5>2 DEF Registered
      <4>2. CASE creation[v].target # None
        <5>1. records' = {IF r.id = creation[v].target THEN [r EXCEPT !.vaults = Listed(v)] ELSE r :
                            r \in records}
          BY <2>9, <4>2 DEF SaveRegistry
        <5>2. \A r, s \in records' : r = s
          BY <5>1, <1>1 DEF Single
        <5>3. ASSUME NEW w \in Registered PROVE w \in Registered'
          <6>1. PICK r \in records : w \in r.vaults
            BY DEF Registered
          <6>2. CASE r.id = creation[v].target
            <7>1. [r EXCEPT !.vaults = Listed(v)] \in records'
              BY <5>1, <6>2
            <7>2. [r EXCEPT !.vaults = Listed(v)].vaults = Listed(v)
              BY DEF TypeOK, Record
            <7> QED BY <7>1, <7>2, <3>1 DEF Registered
          <6>3. CASE r.id # creation[v].target
            <7>1. r \in records'
              BY <5>1, <6>3
            <7> QED BY <7>1, <6>1 DEF Registered
          <6> QED BY <6>2, <6>3
        <5> QED BY <5>2, <5>3
      <4> QED BY <4>1, <4>2
    <3>4. Single' /\ Careful(v)'
      BY <3>2, <3>3, <1>1 DEF Single, Careful, At, InProgress
    <3> QED BY <2>1, <2>2, <3>1, <3>2, <3>3, <3>4
  <2>10. CASE SelectCreated(v) \/ CreationFails(v)
    <3>1. InProgress(v) /\ Go(v, "over") /\ UNCHANGED drive
      BY <2>10 DEF SelectCreated, CreationFails, At, InProgress
    <3>2. OthersSame(v) /\ creation'[v].at = "over"
      BY <3>1, GoEffect
    <3>3. Single' /\ Careful(v)' /\ Registered' = Registered
      BY <3>1, <3>2, <1>1 DEF Single, Careful, At, InProgress, Registered, drive
    <3> QED BY <2>1, <2>2, <3>1, <3>2, <3>3
  <2> QED BY <1>4, <2>3, <2>4, <2>5, <2>6, <2>7, <2>8, <2>9, <2>10 DEF CreateVault, CreationStep
<1> QED BY <1>3, <1>4, OnDeviceKeeps DEF Next, vars

LEMMA AloneAlways == Spec => [](TypeOK /\ Alone)
<1>1. Init => TypeOK /\ Alone
  BY InitType DEF Init, Alone, Single, Careful, InProgress, At, Registered
<1>2. TypeOK /\ Alone /\ [Next]_vars => (TypeOK /\ Alone)'
  <2> SUFFICES ASSUME TypeOK, Alone, [Next]_vars PROVE Alone'
    BY StepType
  <2>1. CASE disturbed'
    BY <2>1 DEF Alone
  <2> QED BY <2>1, AloneStep
<1> QED BY <1>1, <1>2, PTL DEF Spec

(* A creation cut off anywhere leaves nothing that refuses the next one    *)
(* (vault-registry.ts:125-139, appdata-store.ts:27).                       *)
THEOREM NeverBlocked == Spec => []SetupNotBlocked
<1>1. TypeOK /\ Alone => SetupNotBlocked
  <2> SUFFICES ASSUME TypeOK, Alone, ~disturbed PROVE containers <= 1 /\ Cardinality(records) <= 1
    BY DEF SetupNotBlocked
  <2>1. containers <= 1 /\ \A r, s \in records : r = s
    BY DEF Alone, Single
  <2>2. CASE records = {}
    BY <2>1, <2>2, FS_EmptySet
  <2>3. CASE records # {}
    <3>1. PICK r : records = {r}
      BY <2>1, <2>3
    <3>2. Cardinality(records) = 1
      BY <3>1, FS_Singleton
    <3> QED BY <2>1, <3>2
  <2> QED BY <2>2, <2>3
<1> QED BY <1>1, AloneAlways, PTL

(* A registered vault stays registered unless creations overlapped         *)
(* (vault-registry.ts:93, :121).                                           *)
THEOREM VaultsAreKept == Spec => VaultsKept
<1>1. TypeOK /\ Alone /\ [Next]_vars => [~disturbed' => Registered \subseteq Registered']_vars
  BY AloneStep
<1> QED BY <1>1, AloneAlways, PTL DEF Spec, VaultsKept

(***************************************************************************)
(* Vaults stay apart                                                       *)
(***************************************************************************)
(* What a device holds came from the vault of its base, or from a run that *)
(* could not save it; a run keeps to that base.                            *)
Tied ==
  \A d \in Device :
    /\ base[d] # Invalid => folder[d] \subseteq {base[d]} \union torn
    /\ run[d] # None => base[d] \in {None, run[d].vault}

LEMMA ExchangeApart ==
  ASSUME TypeOK, Tied, VaultsApart, NEW d \in Device, run[d] # None, Exchange(d, run[d].vault),
         torn \subseteq torn'
  PROVE  /\ VaultsApart'
         /\ folder'[d] \subseteq {run[d].vault} \union torn
         /\ \A e \in Device : e # d => folder'[e] = folder[e]
<1> DEFINE v == run[d].vault
<1>1. v \in Vault
  BY RunType
<1>2. folder[d] \subseteq {v} \union torn
  <2>1. base[d] \in {None, v} /\ base[d] # Invalid
    BY <1>1 DEF Tied
  <2>2. folder[d] \subseteq Vault
    BY DEF TypeOK
  <2> QED BY <2>1, <2>2 DEF Tied
<1>3. /\ folder'[d] = folder[d] \union content[v] \union {v}
      /\ content'[v] = content[v] \union folder[d] \union {v}
      /\ \A w \in Vault : w # v => content'[w] = content[w]
      /\ \A e \in Device : e # d => folder'[e] = folder[e]
  BY <1>1 DEF Exchange, TypeOK
<1>4. \A w \in Vault : content[w] \subseteq {w} \union torn
  BY DEF VaultsApart
<1>5. ASSUME NEW w \in Vault PROVE content'[w] \subseteq {w} \union torn'
  <2>1. CASE w = v
    BY <2>1, <1>2, <1>3, <1>4
  <2>2. CASE w # v
    BY <2>2, <1>3, <1>4
  <2> QED BY <2>1, <2>2
<1> QED BY <1>1, <1>2, <1>3, <1>4, <1>5 DEF VaultsApart

LEMMA TiedStep == TypeOK /\ Tied /\ VaultsApart /\ [Next]_vars => Tied' /\ VaultsApart'
<1> SUFFICES ASSUME TypeOK, Tied, VaultsApart, [Next]_vars PROVE Tied' /\ VaultsApart'
  OBVIOUS
<1>1. CASE UNCHANGED <<base, run, files>>
  BY <1>1 DEF Tied, VaultsApart, files
<1>2. ASSUME NEW v \in Vault, CreateVault(v) PROVE UNCHANGED <<base, run, files>>
  BY <1>2 DEF CreateVault, CreationStep, StartCreation, CreationFails, LoadRegistry, ListContainers,
          MakeContainer, MakeRoot, MakeRecovery, PutManifest, LookUpRegistry, SaveRegistry,
          SelectCreated, device
<1>3. ASSUME NEW d \in Device, OnDevice(d) PROVE Tied' /\ VaultsApart'
  <2>1. CASE UNCHANGED <<base, run, files>>
    BY <1>1, <2>1
  <2>2. ASSUME NEW purpose, StartRun(d, purpose) PROVE Tied' /\ VaultsApart'
    <3>1. /\ UNCHANGED <<base, files>>
          /\ run' = [run EXCEPT ![d] = [purpose |-> purpose, vault |-> active[d]]]
          /\ base[d] \in {None, active[d]}
      BY <2>2 DEF StartRun, SameVault
    <3>2. \A e \in Device : run'[e] # None => base[e] \in {None, run'[e].vault}
      BY <3>1 DEF TypeOK, Tied
    <3> QED BY <3>1, <3>2 DEF Tied, VaultsApart, files
  <2>3. CASE EndRun(d)
    <3>1. /\ run[d] # None /\ run[d].vault \in Vault /\ UNCHANGED torn
          /\ base' = [base EXCEPT ![d] = run[d].vault]
          /\ run' = [run EXCEPT ![d] = None]
      BY <2>3, RunType DEF EndRun
    <3>2. /\ VaultsApart'
          /\ folder'[d] \subseteq {run[d].vault} \union torn
          /\ \A e \in Device : e # d => folder'[e] = folder[e]
      <4>1. CASE run[d].purpose = "sync"
        BY <2>3, <3>1, <4>1, ExchangeApart DEF EndRun
      <4>2. CASE run[d].purpose # "sync"
        <5>1. UNCHANGED <<folder, content>>
          BY <2>3, <4>2 DEF EndRun
        <5>2. base[d] \in {None, run[d].vault} /\ base[d] # Invalid /\ folder[d] \subseteq Vault
          BY <3>1 DEF Tied, TypeOK
        <5> QED BY <3>1, <5>1, <5>2 DEF Tied, VaultsApart
      <4> QED BY <4>1, <4>2
    <3>3. ASSUME NEW e \in Device
          PROVE  /\ base'[e] # Invalid => folder'[e] \subseteq {base'[e]} \union torn'
                 /\ run'[e] # None => base'[e] \in {None, run'[e].vault}
      <4>1. CASE e = d
        BY <4>1, <3>1, <3>2 DEF TypeOK
      <4>2. CASE e # d
        BY <4>2, <3>1, <3>2 DEF TypeOK, Tied
      <4> QED BY <4>1, <4>2
    <3> QED BY <3>2, <3>3 DEF Tied
  <2>4. CASE RunFails(d)
    <3>1. /\ run[d] # None /\ run[d].vault \in Vault /\ UNCHANGED base
          /\ run' = [run EXCEPT ![d] = None]
      BY <2>4, RunType DEF RunFails
    <3>2. \A e \in Device : run'[e] # None => base'[e] \in {None, run'[e].vault}
      BY <3>1 DEF TypeOK, Tied
    <3>3. CASE UNCHANGED <<folder, content, torn>>
      BY <3>1, <3>2, <3>3 DEF Tied, VaultsApart
    <3>4. CASE Exchange(d, run[d].vault) /\ torn' = torn \union {run[d].vault}
      <4>1. /\ VaultsApart'
            /\ folder'[d] \subseteq {run[d].vault} \union torn
            /\ \A e \in Device : e # d => folder'[e] = folder[e]
        BY <3>1, <3>4, ExchangeApart
      <4>2. \A e \in Device : base'[e] # Invalid => folder'[e] \subseteq {base'[e]} \union torn'
        BY <3>1, <3>4, <4>1 DEF Tied
      <4> QED BY <3>2, <4>1, <4>2 DEF Tied
    <3> QED BY <2>4, <3>3, <3>4 DEF RunFails
  <2>5. CASE Damage(d)
    BY <2>5 DEF Damage, Tied, VaultsApart, TypeOK, files
  <2> QED BY <1>3, <2>1, <2>2, <2>3, <2>4, <2>5 DEF OnDevice, OpenTab, CloseTab, SaveTab,
             ExportPairing, ImportPairing, device
<1> QED BY <1>1, <1>2, <1>3 DEF Next, vars, device

(* The files of one vault never get into another but through a run that    *)
(* could not save its base (planner.ts:19).                                *)
THEOREM VaultsStayApart == Spec => []VaultsApart
<1>1. Init => Tied /\ VaultsApart
  BY DEF Init, Tied, VaultsApart
<1>2. TypeOK /\ Tied /\ VaultsApart /\ [Next]_vars => (Tied /\ VaultsApart)'
  BY TiedStep
<1> QED BY <1>1, <1>2, TypeCorrect, PTL DEF Spec
=============================================================================

----------------------------- MODULE VaultSetup -----------------------------
(***************************************************************************)
(* Which vault a device synchronizes with: creating a vault on Drive, one  *)
(* request after the other and without a lease (vault-registry.ts), the    *)
(* registry record that lists the vaults, choosing one in the settings tab *)
(* or by pairing, and the base manifest that ties the device to the vault  *)
(* it last synchronized with (sync-controller.ts, planner.ts,              *)
(* local-state-store.ts).                                                  *)
(*                                                                         *)
(* What a synchronization does is module SyncVault's; here it brings the   *)
(* files of the device and of the vault together, and all that is kept of  *)
(* a file is the vault it came from.                                       *)
(***************************************************************************)
EXTENDS Naturals, FiniteSets

CONSTANTS
  Device, Vault,   \* a vault is known by the uuid its creation draws
  None,
  Closed,          \* the settings tab is not open
  Invalid,         \* the local state does not match its schema
  MaxCommands,     \* commands and choices of the users
  MaxFaults        \* failed or repeated requests, damaged local states

ASSUME NoneIsNoVault == None \notin Vault /\ Invalid \notin Vault /\ None # Invalid
ASSUME ClosedIsNoVault == Closed \notin Vault

VARIABLES
  containers,   \* how many "VaultBridge" folders Drive has
  records,      \* the app-data records named vault-registry.json
  roots,        \* the vaults whose root folder was made
  recoveries,   \* ... and their recovery folder
  manifests,    \* how many manifest records each vault has
  content,      \* the vaults the files of each vault came from
  creation,     \* where createVault is, for each vault
  active,       \* settings.activeVaultId of each device
  tab,          \* the settings the open tab read, and its list of vaults
  base,         \* the vault of state.baseManifest
  run,          \* the controller's current run
  folder,       \* the vaults the files of each device came from
  bundle,       \* the vault of the pairing bundle last exported
  disturbed,    \* creations overlapped, or a request was repeated
  torn,         \* vaults of runs that moved files and did not save their base
  spent         \* commands and faults used

drive == <<containers, records, roots, recoveries, manifests>>
device == <<active, tab, base, run>>
files == <<content, folder, torn>>
vars == <<drive, creation, device, files, bundle, disturbed, spent>>

Stage == {"unused", "load", "list", "container", "root", "recovery", "manifest",
          "look", "write", "select", "over"}
RecordId == Vault \X {1, 2}
ASSUME NoneIsNoRecordId == None \notin RecordId
Record == [id : RecordId, vaults : SUBSET Vault]
Creation == [at : Stage, by : Device \union {None}, loaded : SUBSET Vault,
             target : RecordId \union {None}]

Spend(what, limit) ==
  /\ spent[what] < limit
  /\ spent' = [spent EXCEPT ![what] = @ + 1]
Command == Spend("commands", MaxCommands)
Fault == Spend("faults", MaxFaults)

Init ==
  /\ containers = 0 /\ records = {} /\ roots = {} /\ recoveries = {}
  /\ manifests = [v \in Vault |-> 0]
  /\ content = [v \in Vault |-> {}] /\ folder = [d \in Device |-> {}] /\ torn = {}
  /\ creation = [v \in Vault |-> [at |-> "unused", by |-> None, loaded |-> {}, target |-> None]]
  /\ active = [d \in Device |-> None] /\ tab = [d \in Device |-> Closed]
  /\ base = [d \in Device |-> None] /\ run = [d \in Device |-> None]
  /\ bundle = None /\ disturbed = FALSE /\ spent = [commands |-> 0, faults |-> 0]

(***************************************************************************)
(* The registry                                                            *)
(***************************************************************************)
(* AppDataStore.get throws when there are several records of the name.     *)
Readable == Cardinality(records) <= 1
Registered == UNION {r.vaults : r \in records}

(***************************************************************************)
(* createVault.  Each step is one request, or the local work after one.    *)
(***************************************************************************)
InProgress(v) == creation[v].at \notin {"unused", "over"}

At(v, stage) == creation[v].at = stage
Go(v, stage) == creation' = [creation EXCEPT ![v].at = stage]

(* The local state is loaded for the device's name. *)
StartCreation(v, d) ==
  /\ At(v, "unused") /\ base[d] # Invalid /\ Command
  /\ creation' = [creation EXCEPT ![v].at = "load", ![v].by = d]
  /\ disturbed' = (disturbed \/ \E w \in Vault : InProgress(w))
  /\ UNCHANGED <<drive, device, files, bundle>>

LoadRegistry(v) ==
  /\ At(v, "load")
  /\ creation' = [creation EXCEPT ![v].at = IF Readable THEN "list" ELSE "over",
                                  ![v].loaded = Registered]
  /\ UNCHANGED <<drive, device, files, bundle, disturbed, spent>>

\* Mutant of ListContainers: the container is made without looking for one.
AlwaysNew(v) ==
  /\ At(v, "list") /\ Go(v, "container")
  /\ UNCHANGED <<drive, device, files, bundle, disturbed, spent>>

ListContainers(v) ==
  /\ At(v, "list")
  /\ Go(v, CASE containers = 0 -> "container" [] containers = 1 -> "root" [] OTHER -> "over")
  /\ UNCHANGED <<drive, device, files, bundle, disturbed, spent>>

(* A POST whose answer is lost is sent again (rawRequest): made twice. *)
Once == UNCHANGED <<disturbed, spent>>
Twice == Fault /\ disturbed' = TRUE
Made(n) == (n = 1 /\ Once) \/ (n = 2 /\ Twice)

MakeContainer(v) ==
  /\ At(v, "container") /\ Go(v, "root")
  /\ \E n \in {1, 2} : Made(n) /\ containers' = containers + n
  /\ UNCHANGED <<records, roots, recoveries, manifests, device, files, bundle>>

MakeRoot(v) ==
  /\ At(v, "root") /\ Go(v, "recovery")
  /\ roots' = roots \union {v}
  /\ UNCHANGED <<containers, records, recoveries, manifests, device, files, bundle, disturbed, spent>>

\* Mutant of MakeRecovery: the manifest is left to the first synchronization.
MakeRecoveryOnly(v) ==
  /\ At(v, "recovery") /\ Go(v, "look")
  /\ recoveries' = recoveries \union {v}
  /\ UNCHANGED <<containers, records, roots, manifests, device, files, bundle, disturbed, spent>>

MakeRecovery(v) ==
  /\ At(v, "recovery") /\ Go(v, "manifest")
  /\ recoveries' = recoveries \union {v}
  /\ UNCHANGED <<containers, records, roots, manifests, device, files, bundle, disturbed, spent>>

PutManifest(v) ==
  /\ At(v, "manifest") /\ Go(v, "look")
  /\ \E n \in {1, 2} : Made(n) /\ manifests' = [manifests EXCEPT ![v] = n]
  /\ UNCHANGED <<containers, records, roots, recoveries, device, files, bundle>>

(* appData.put looks the record up, then creates or updates it. *)
LookUpRegistry(v) ==
  /\ At(v, "look")
  /\ IF Readable
     THEN \E target \in (IF records = {} THEN {None} ELSE {r.id : r \in records}) :
            creation' = [creation EXCEPT ![v].at = "write", ![v].target = target]
     ELSE Go(v, "over")
  /\ UNCHANGED <<drive, device, files, bundle, disturbed, spent>>

\* Mutant of Listed: the registry is not what was loaded, with the new vault added.
OnlyNew(v) == {v}

(* registry.vaults.push(identity) *)
Listed(v) == creation[v].loaded \union {v}

SaveRegistry(v) ==
  /\ At(v, "write") /\ Go(v, "select")
  /\ IF creation[v].target = None
     THEN \E n \in {1, 2} :
            /\ Made(n)
            /\ records' = records \union [id : {v} \X (1..n), vaults : {Listed(v)}]
     ELSE /\ Once
          /\ records' = {IF r.id = creation[v].target THEN [r EXCEPT !.vaults = Listed(v)] ELSE r :
                           r \in records}
  /\ UNCHANGED <<containers, roots, recoveries, manifests, device, files, bundle>>

(* main.createVault: the device that made the vault selects it. *)
SelectCreated(v) ==
  /\ At(v, "select") /\ Go(v, "over")
  /\ active' = [active EXCEPT ![creation[v].by] = v]
  /\ UNCHANGED <<drive, tab, base, run, files, bundle, disturbed, spent>>

\* Mutant of CreationFails: the vault is selected before it is saved.
FailsSelected(v) ==
  /\ InProgress(v) /\ Fault /\ Go(v, "over")
  /\ active' = [active EXCEPT ![creation[v].by] = v]
  /\ UNCHANGED <<drive, tab, base, run, files, bundle, disturbed>>

(* A request fails, or the application is closed: what was made stays. *)
CreationFails(v) ==
  /\ InProgress(v) /\ Fault /\ Go(v, "over")
  /\ UNCHANGED <<drive, device, files, bundle, disturbed>>

CreationStep(v) ==
  \/ LoadRegistry(v) \/ ListContainers(v) \/ MakeContainer(v) \/ MakeRoot(v)
  \/ MakeRecovery(v) \/ PutManifest(v) \/ LookUpRegistry(v) \/ SaveRegistry(v)
  \/ SelectCreated(v)

(***************************************************************************)
(* Choosing a vault                                                        *)
(***************************************************************************)
(* Rendering the tab, when it is opened or a creation has ended, reads the *)
(* settings, and lists the vaults if it can.                               *)
OpenTab(d) ==
  /\ Command
  /\ tab' = [tab EXCEPT ![d] = [active |-> active[d], list |-> IF Readable THEN Registered ELSE {}]]
  /\ UNCHANGED <<drive, creation, active, base, run, files, bundle, disturbed>>

(* Every control of the tab saves all the settings as the tab read them;   *)
(* the vault's dropdown changes the active vault first.                    *)
SaveTab(d, choice) ==
  /\ tab[d] # Closed /\ Command
  /\ choice \in {tab[d].active, None} \union tab[d].list
  /\ active' = [active EXCEPT ![d] = choice]
  /\ tab' = [tab EXCEPT ![d].active = choice]
  /\ UNCHANGED <<drive, creation, base, run, files, bundle, disturbed>>

CloseTab(d) ==
  /\ tab[d] # Closed
  /\ tab' = [tab EXCEPT ![d] = Closed]
  /\ UNCHANGED <<drive, creation, active, base, run, files, bundle, disturbed, spent>>

ExportPairing(d) ==
  /\ Readable /\ active[d] \in Registered /\ Command
  /\ bundle' = active[d]
  /\ UNCHANGED <<drive, creation, device, files, disturbed>>

ImportPairing(d) ==
  /\ bundle # None /\ Command
  /\ active' = [active EXCEPT ![d] = bundle]
  /\ UNCHANGED <<drive, creation, tab, base, run, files, bundle, disturbed>>

(***************************************************************************)
(* Synchronizing and rebuilding the local index                            *)
(***************************************************************************)
\* Mutant of Reachable: the vault is not looked up.
Unchecked(v) == Readable

(* The active vault is looked up in the registry and its manifest read:    *)
(* one record, of the identifier the registry gives.                       *)
Reachable(v) == v \in Vault /\ Readable /\ v \in Registered /\ manifests[v] = 1

\* Mutant of SameVault: manifests of different vaults are compared.
AnyBase(d, v) == base[d] # Invalid

(* stateStore.load, an empty base for a device that has none, planSync. *)
SameVault(d, v) == base[d] \in {None, v}

(* A rebuild first runs a preview; what it throws ends the rebuild too.    *)
StartRun(d, purpose) ==
  /\ run[d] = None
  /\ Reachable(active[d]) /\ SameVault(d, active[d])
  /\ IF purpose = "rebuild" THEN Command ELSE UNCHANGED spent
  /\ run' = [run EXCEPT ![d] = [purpose |-> purpose, vault |-> active[d]]]
  /\ UNCHANGED <<drive, creation, active, tab, base, files, bundle, disturbed>>

(* Downloads bring the vault's files to the device, uploads take the       *)
(* device's to the vault.                                                  *)
Exchange(d, v) ==
  /\ folder' = [folder EXCEPT ![d] = @ \union content[v] \union {v}]
  /\ content' = [content EXCEPT ![v] = @ \union folder[d] \union {v}]

EndRun(d) ==
  /\ run[d] # None
  /\ IF run[d].purpose = "sync" THEN Exchange(d, run[d].vault) ELSE UNCHANGED <<folder, content>>
  /\ base' = [base EXCEPT ![d] = run[d].vault]
  /\ run' = [run EXCEPT ![d] = None]
  /\ UNCHANGED <<drive, creation, active, tab, torn, bundle, disturbed, spent>>

(* A run that fails, or is cut off, before the state is saved. *)
RunFails(d) ==
  /\ run[d] # None /\ Fault
  /\ IF run[d].purpose = "sync"
     THEN \/ Exchange(d, run[d].vault) /\ torn' = torn \union {run[d].vault}
          \/ UNCHANGED <<folder, content, torn>>
     ELSE UNCHANGED <<folder, content, torn>>
  /\ run' = [run EXCEPT ![d] = None]
  /\ UNCHANGED <<drive, creation, active, tab, base, bundle, disturbed>>

(* The plugin's data file is damaged. *)
Damage(d) ==
  /\ run[d] = None /\ base[d] # Invalid /\ Fault
  /\ base' = [base EXCEPT ![d] = Invalid]
  /\ UNCHANGED <<drive, creation, active, tab, run, files, bundle, disturbed>>

(***************************************************************************)
(* The specification                                                       *)
(***************************************************************************)
CreateVault(v) == (\E d \in Device : StartCreation(v, d)) \/ CreationStep(v) \/ CreationFails(v)

OnDevice(d) ==
  \/ OpenTab(d) \/ CloseTab(d) \/ (\E choice \in Vault \union {None} : SaveTab(d, choice))
  \/ ExportPairing(d) \/ ImportPairing(d)
  \/ StartRun(d, "sync") \/ StartRun(d, "rebuild") \/ EndRun(d) \/ RunFails(d) \/ Damage(d)

Next == (\E v \in Vault : CreateVault(v)) \/ (\E d \in Device : OnDevice(d))

Spec == Init /\ [][Next]_vars

(* Requests are answered or fail, and the timers start a run again and again. *)
FairSpec ==
  /\ Spec
  /\ \A v \in Vault : WF_vars(CreationStep(v))
  /\ \A d \in Device : WF_vars(StartRun(d, "sync")) /\ WF_vars(EndRun(d))

(***************************************************************************)
(* Properties                                                              *)
(***************************************************************************)
(* The values the variables take (types of domain.ts and vault-registry.ts). *)
TypeOK ==
  /\ containers \in Nat /\ records \subseteq Record
  /\ roots \subseteq Vault /\ recoveries \subseteq Vault
  /\ manifests \in [Vault -> 0..2]
  /\ content \in [Vault -> SUBSET Vault] /\ folder \in [Device -> SUBSET Vault]
  /\ torn \subseteq Vault
  /\ creation \in [Vault -> Creation]
  /\ active \in [Device -> Vault \union {None}]
  /\ tab \in [Device -> [active : Vault \union {None}, list : SUBSET Vault] \union {Closed}]
  /\ base \in [Device -> Vault \union {None, Invalid}]
  /\ run \in [Device -> [purpose : {"sync", "rebuild"}, vault : Vault] \union {None}]
  /\ bundle \in Vault \union {None} /\ disturbed \in BOOLEAN
  /\ spent \in [commands : Nat, faults : Nat]

(* A vault anybody can select has its folders and a manifest, wherever the *)
(* creation was cut off and whatever other creations did meanwhile         *)
(* (vault-registry.ts:93-122, the order of the requests).                  *)
RegisteredIsComplete ==
  \A v \in Registered : v \in roots /\ v \in recoveries /\ manifests[v] > 0

(* A creation cut off anywhere leaves nothing that refuses the next one:   *)
(* as long as no two overlap and no request is repeated, there is one      *)
(* container and one registry record at most (vault-registry.ts:125-139,   *)
(* appdata-store.ts:27).                                                   *)
SetupNotBlocked == ~disturbed => containers <= 1 /\ Cardinality(records) <= 1

(* A registered vault stays registered, unless creations overlapped: the   *)
(* registry is loaded before the folders are made and saved after          *)
(* (vault-registry.ts:93, :121).                                           *)
VaultsKept == [][~disturbed' => Registered \subseteq Registered']_vars

(* The files of one vault never get into another, whatever is created,     *)
(* chosen, imported or saved by a tab that read the settings before:       *)
(* a base keeps its device to its vault (planner.ts:19).  Only a run that  *)
(* moved files and could not save its base leaves a device free to go on.  *)
VaultsApart == \A v \in Vault : content[v] \subseteq {v} \union torn

(* A device that keeps to a vault it can select, and is not tied to        *)
(* another, gets to synchronize: the vault it created, was paired with or  *)
(* chose is in the registry and has its manifest.                          *)
Settled(d) == ~disturbed /\ active[d] # None /\ base[d] \in {None, active[d]}
DeviceSyncs == \A d \in Device : <>[]Settled(d) => []<>(base[d] = active[d])
=============================================================================

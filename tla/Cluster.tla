------------------------------- MODULE Cluster -------------------------------
(***************************************************************************)
(* The object store shared by the minerx controllers: the Miner objects,  *)
(* the Pods that back them and the MinerSet objects, with the store's     *)
(* own delete/finalizer semantics, and the actors outside this repository *)
(* that write to it: the user, the kubelet and the garbage collector.      *)
(*                                                                         *)
(* Data is abstracted to what the controllers branch on: a Miner is its   *)
(* controller owner, finalizers, deletion mark, status phase and health    *)
(* condition; a MinerSet is its spec.replicas, finalizer and deletion    *)
(* mark; a Pod is its phase, readiness and termination mark.              *)
(*                                                                         *)
(* The CRDs declare status.conditions as []metav1.Condition, whose schema *)
(* requires a non-empty reason.  condition.TrueCondition sets no reason,  *)
(* so the API server rejects every status write that carries a condition *)
(* set True; the MinerSet status, which always carries one, is never      *)
(* written and is not state.                                               *)
(* Every Miner in the store matches the MinerSet selector (Miners that do *)
(* not are never listed and play no part).                                 *)
(***************************************************************************)
EXTENDS Naturals, FiniteSets, FiniteSetsExt, Functions, TLC

CONSTANTS
  Names,        \* names a Miner can have (generateName draws from these)
  MinerSets,    \* MinerSet objects
  None,         \* "no controller owner reference"
  ChainOwner,   \* controller owner reference to a Chain
  InitOrphans,  \* Miners present at start without a controller owner
  InitForeign,  \* Miners present at start controlled by a Chain
  NoReplicas,   \* spec.replicas left unset (the field is an optional *int32)
  InitReplicas, \* spec.replicas of every MinerSet at start
  MaxReplicas,  \* largest spec.replicas the user writes
  ScaleDown,    \* may the user lower spec.replicas?
  UserDeletes,  \* may the user delete Miners and MinerSets?
  MaxEvents,    \* bound on user and kubelet events in one behaviour
  ZeroTimeout   \* pre-existing Miners whose spec.podDeletionTimeout is 0

ASSUME InitOrphans \subseteq Names /\ InitForeign \subseteq Names
ASSUME InitOrphans \cap InitForeign = {}
ASSUME ZeroTimeout \subseteq InitOrphans \cup InitForeign
ASSUME InitReplicas \in (0..MaxReplicas) \cup {NoReplicas}
ASSUME ScaleDown \in BOOLEAN /\ UserDeletes \in BOOLEAN /\ MaxEvents \in Nat

MinerFin    == "miner.onex.io/finalizer"
MinerSetFin == "minerset.onex.io/finalizer"

\* MinerPhase (api/v1alpha1/miner_types.go); "" is the unset phase.
Phases == {"", "Pending", "Provisioning", "Running", "Failed"}
\* Reason of the PodHealthy condition ("True" when its status is True).
Healths == {"Unset", "True", "PodNotFound", "Provisioning", "Failed", "Deleting"}
Owners == MinerSets \cup {None, ChainOwner}

MinerRec == [owner: Owners, fins: SUBSET {MinerFin, MinerSetFin},
             deleting: BOOLEAN, phase: Phases, health: Healths]

\* A Pod: phase "None" means no Pod object exists.
PodRec == [phase: {"None", "Pending", "Running", "Failed"},
           ready: BOOLEAN, term: BOOLEAN]
NoPod == [phase |-> "None", ready |-> FALSE, term |-> FALSE]
PodExists(n, p) == p[n].phase # "None"

MinerSetRec == [exists: BOOLEAN, replicas: (0..MaxReplicas) \cup {NoReplicas},
                fin: BOOLEAN, deleting: BOOLEAN]

VARIABLES
  miners,   \* the Miner objects in the store: a function on their names
  pods,     \* the Pod named after each Miner name
  msets,    \* the MinerSet objects
  used,     \* names ever taken by a Miner (generateName never repeats)
  budget    \* user and kubelet events still allowed

storeVars == <<miners, pods, msets, used, budget>>

(***************************************************************************)
(* Store semantics of delete and of an update of the finalizer list: an   *)
(* object with finalizers is only marked; it leaves the store when it is  *)
(* marked and its last finalizer is removed.                               *)
(***************************************************************************)
DeleteFrom(m, n) ==
  IF n \notin DOMAIN m THEN m
  ELSE IF m[n].fins = {} THEN Restrict(m, DOMAIN m \ {n})
  ELSE [m EXCEPT ![n].deleting = TRUE]

SetFins(m, n, F) ==
  IF m[n].deleting /\ F = {} THEN Restrict(m, DOMAIN m \ {n})
  ELSE [m EXCEPT ![n].fins = F]

OwnedBy(s) == {n \in DOMAIN miners : miners[n].owner = s}
LiveOwnedBy(s) == {n \in OwnedBy(s) : ~miners[n].deleting}

StoreTypeOK ==
  /\ DOMAIN miners \subseteq Names /\ miners \in [DOMAIN miners -> MinerRec]
  /\ pods \in [Names -> PodRec]
  /\ msets \in [MinerSets -> MinerSetRec]
  /\ DOMAIN miners \subseteq used /\ used \subseteq Names
  /\ budget \in 0..MaxEvents

InitMiner(o) == [owner |-> o, fins |-> {}, deleting |-> FALSE, phase |-> "",
                 health |-> "Unset"]

StoreInit ==
  /\ miners = [n \in InitOrphans \cup InitForeign |->
                 InitMiner(IF n \in InitOrphans THEN None ELSE ChainOwner)]
  /\ pods = [n \in Names |-> NoPod]
  /\ msets = [s \in MinerSets |->
                [exists |-> TRUE, replicas |-> InitReplicas,
                 fin |-> FALSE, deleting |-> FALSE]]
  /\ used = InitOrphans \cup InitForeign
  /\ budget = MaxEvents

(***************************************************************************)
(* Actors outside the repository.                                          *)
(***************************************************************************)
Spend == budget > 0 /\ budget' = budget - 1

\* The user edits spec.replicas.
UserScale(s, r) ==
  /\ msets[s].exists /\ ~msets[s].deleting /\ Spend
  /\ r # msets[s].replicas
  /\ IF msets[s].replicas = NoReplicas THEN TRUE ELSE ScaleDown \/ r > msets[s].replicas
  /\ msets' = [msets EXCEPT ![s].replicas = r]
  /\ UNCHANGED <<miners, pods, used>>

\* The user deletes a MinerSet: marked while its finalizer is on it.
UserDeleteMinerSet(s) ==
  /\ UserDeletes /\ msets[s].exists /\ ~msets[s].deleting /\ Spend
  /\ msets' = [msets EXCEPT ![s].deleting = TRUE, ![s].exists = msets[s].fin]
  /\ UNCHANGED <<miners, pods, used>>

\* The user deletes a Miner.
UserDeleteMiner(n) ==
  /\ UserDeletes /\ n \in DOMAIN miners /\ ~miners[n].deleting /\ Spend
  /\ miners' = DeleteFrom(miners, n)
  /\ UNCHANGED <<pods, msets, used>>

\* The kubelet moves a live Pod through its phases and readiness.
PodStarts(n) ==
  /\ pods[n].phase = "Pending" /\ ~pods[n].term /\ Spend
  /\ pods' = [pods EXCEPT ![n].phase = "Running"]
  /\ UNCHANGED <<miners, msets, used>>

PodReadiness(n) ==
  /\ pods[n].phase = "Running" /\ ~pods[n].term /\ Spend
  /\ pods' = [pods EXCEPT ![n].ready = ~@]
  /\ UNCHANGED <<miners, msets, used>>

PodFails(n) ==
  /\ pods[n].phase = "Running" /\ ~pods[n].term /\ Spend
  /\ pods' = [pods EXCEPT ![n] = [phase |-> "Failed", ready |-> FALSE, term |-> FALSE]]
  /\ UNCHANGED <<miners, msets, used>>

\* A terminating Pod finishes its grace period and leaves the store.
PodTerminated(n) ==
  /\ pods[n].term
  /\ pods' = [pods EXCEPT ![n] = NoPod]
  /\ UNCHANGED <<miners, msets, used, budget>>

\* Garbage collection of a Miner whose controlling MinerSet left the store
\* (background propagation marks it deleted).
CollectMiner(n) ==
  /\ n \in DOMAIN miners /\ ~miners[n].deleting
  /\ miners[n].owner \in MinerSets /\ ~msets[miners[n].owner].exists
  /\ miners' = DeleteFrom(miners, n)
  /\ UNCHANGED <<pods, msets, used, budget>>

Environment ==
  \/ \E s \in MinerSets, r \in 0..MaxReplicas : UserScale(s, r)
  \/ \E s \in MinerSets : UserDeleteMinerSet(s)
  \/ \E n \in Names :
       \/ UserDeleteMiner(n) \/ PodStarts(n) \/ PodReadiness(n) \/ PodFails(n)
       \/ PodTerminated(n) \/ CollectMiner(n)

EnvironmentFairness ==
  \A n \in Names : WF_storeVars(PodTerminated(n)) /\ WF_storeVars(CollectMiner(n))
=============================================================================

-------------------------------- MODULE MinerX --------------------------------
(***************************************************************************)
(* The Miner and MinerSet controllers running together against one store, *)
(* with the user, the kubelet and the garbage collector.  The two          *)
(* controllers interact only through the store: the MinerSet controller   *)
(* creates, adopts and deletes Miners; the Miner controller adds and     *)
(* removes its finalizer, creates and deletes Pods and writes the phase.  *)
(***************************************************************************)
EXTENDS MinerController, MinerSetController

vars == <<storeVars, msVars>>

Init == StoreInit /\ MSInit

Next ==
  \/ \E s \in MinerSets : MSNext(s)
  \/ \E n \in Names : MinerNext(n) /\ UNCHANGED msVars
  \/ Environment /\ UNCHANGED msVars
  \/ CacheSync

Spec == Init /\ [][Next]_vars /\ MSFairness /\ CacheFairness /\ MinerFairness /\ EnvironmentFairness

TypeOK == StoreTypeOK /\ MSTypeOK

MSStep(s) == MSNext(s)

(***************************************************************************)
(* Safety.                                                                 *)
(***************************************************************************)

\* A MinerSet never changes or deletes a Miner that, when its step is
\* taken, is controlled by a different owner (spec 3: such a Miner is
\* "never counted or touched").  Exercises the exclusion filter of
\* reconcile against the list snapshot it works from.
NoForeignTouch ==
  [][\A s \in MinerSets : MSStep(s) =>
       \A n \in DOMAIN miners :
         miners[n].owner \notin {s, None} =>
           n \in DOMAIN miners' /\ miners'[n] = miners[n]]_vars

\* A Pod that is not terminating always has its Miner in the store, and a
\* Miner marked for deletion keeps the Miner finalizer until its Pod has
\* been deleted: reconcileDelete removes the finalizer only after the Pod
\* Delete succeeded, and reconcile never creates a Pod for a deleting Miner.
LivePodHasGuardedMiner ==
  \A n \in Names :
    PodExists(n, pods) /\ ~pods[n].term =>
      /\ n \in DOMAIN miners
      /\ miners[n].deleting => MinerFin \in miners[n].fins

\* Spec 4.2: the finalizer is removed "only after confirmed absence" of the
\* Pod, so a Miner that has left the store has no Pod.
MinerGoneMeansPodGone ==
  \A n \in used : n \notin DOMAIN miners => ~PodExists(n, pods)

\* Spec 4.3 (the confirmation "makes the creation phase synchronous-
\* consistent even against eventually-consistent storage"): createMiners
\* creates a Miner only while the MinerSet has fewer live Miners than the
\* spec.replicas its pass read, even though the pass lists them from an
\* informer cache that may lag behind the Creates of earlier passes.
CreatesOnlyBelowDesired ==
  [][\A s \in MinerSets :
       \A n \in DOMAIN miners' \ DOMAIN miners :
         miners'[n].owner = s => Cardinality(LiveOwnedBy(s)) < rrep[s]]_vars

\* A scale-down Delete of a live Miner happens only while the MinerSet has
\* more live Miners than the spec.replicas its pass read: the scale-down
\* never takes the set below the size it was asked to reach.
DeletesOnlySurplus ==
  [][\A s \in MinerSets :
       (MSDelete(s) /\ \E n \in DOMAIN miners :
                          ~miners[n].deleting /\ (n \notin DOMAIN miners' \/ miners'[n].deleting))
       => Cardinality(LiveOwnedBy(s)) > rrep[s]]_vars

(***************************************************************************)
(* Refinement: the two controllers, with everything else that writes to   *)
(* the store, implement MinerLifecycle.  A name not yet handed out is     *)
(* Unborn, a name handed out and no longer in the store is Gone.          *)
(***************************************************************************)
LStage(n) ==
  IF n \notin used THEN "Unborn"
  ELSE IF n \notin DOMAIN miners THEN "Gone"
  ELSE IF miners[n].deleting THEN "Deleting" ELSE "Live"

Lifecycle == INSTANCE MinerLifecycle WITH
  stage <- [n \in Names |-> LStage(n)],
  owner <- [n \in Names |-> IF n \in DOMAIN miners THEN miners[n].owner ELSE None],
  podUp <- [n \in Names |-> PodExists(n, pods) /\ ~pods[n].term]

\* Every behaviour of the controllers is a behaviour of MinerLifecycle: no
\* name is reused, a MinerSet creates only Miners it controls and adopts
\* only uncontrolled ones, Pods are started only for live Miners, and a
\* Miner leaves the store only once (or as) its Pod is taken down.
ImplementsLifecycle == Lifecycle!LSpec

(***************************************************************************)
(* Liveness.                                                               *)
(***************************************************************************)

\* The Miner controller's half of the deletion protocol always finishes: a
\* Miner marked for deletion eventually has its Pod deleted and the Miner
\* finalizer removed (or has left the store).
MinerDeletionCompletes ==
  \A n \in Names :
    (n \in DOMAIN miners /\ miners[n].deleting)
      ~> (n \notin DOMAIN miners
          \/ (MinerFin \notin miners[n].fins
              /\ (PodExists(n, pods) => pods[n].term)))

\* A MinerSet reaches its desired size (spec 8): eventually it always
\* controls exactly spec.replicas Miners and none of them is left marked
\* for deletion.  Needs the scale-up and scale-down of several passes,
\* each from a list snapshot, to agree with the Miner controller's
\* finalizer handling and the garbage collector.
Converged(s) ==
  /\ OwnedBy(s) = LiveOwnedBy(s)
  /\ Cardinality(LiveOwnedBy(s)) = msets[s].replicas

Converges ==
  <>[](\A s \in MinerSets : msets[s].exists /\ ~msets[s].deleting => Converged(s))
=============================================================================

--------------------------- MODULE MinerController ---------------------------
(***************************************************************************)
(* The Miner controller (MinerReconciler, src/unnamed/part_003).  One pass *)
(* of Reconcile for one Miner is one atomic step: a controller worker      *)
(* holds a Miner's key exclusively, and every read it makes is of the      *)
(* store as it is at that moment.  A pass that fails at its first write    *)
(* changes nothing and is a stuttering step; the failures that leave a    *)
(* partial result are actions of their own.                                *)
(***************************************************************************)
EXTENDS Cluster

\* syncPodStatus: the phase derived from the Pod that Get returned.  A Pod
\* in no branch of the switch leaves the phase as it was.
DerivedPhase(pod, cur) ==
  CASE pod.phase = "Running" /\ pod.ready -> "Running"
    [] pod.phase \in {"Running", "Pending"} -> "Provisioning"
    [] pod.phase = "Failed"                 -> "Failed"
    [] OTHER                                -> cur

\* syncPodStatus: the reason of the PodHealthy condition it sets.
DerivedHealth(pod, cur) ==
  CASE pod.phase = "Running" /\ pod.ready -> "True"
    [] pod.phase \in {"Running", "Pending"} -> "Provisioning"
    [] pod.phase = "Failed"                 -> "Failed"
    [] OTHER                                -> cur

\* The Pod reconcilePod creates: the API server starts it in phase Pending.
NewPod == [phase |-> "Pending", ready |-> FALSE, term |-> FALSE]

\* The pass sets a condition True: InfrastructureReady when reconcilePod
\* creates the Pod, PodHealthy and BootstrapReady when the Pod is Running
\* and ready.  TrueCondition carries no reason, so Status().Update fails.
SetsTrueCondition(n) ==
  ~PodExists(n, pods) \/ (pods[n].phase = "Running" /\ pods[n].ready)

(***************************************************************************)
(* reconcile: add the finalizer, create the Pod if Get finds none, default *)
(* the phase to Provisioning, derive phase and health from the Pod, and   *)
(* write the status.  The finalizer Update and the Pod Create stay when   *)
(* the status write is rejected; phase and health are then not stored.    *)
(***************************************************************************)
MinerReconcile(n) ==
  /\ n \in DOMAIN miners /\ ~miners[n].deleting
  /\ LET pod == IF PodExists(n, pods) THEN pods[n] ELSE NewPod
         ph0 == IF miners[n].phase = "" THEN "Provisioning" ELSE miners[n].phase
         m1  == [miners EXCEPT ![n].fins = @ \cup {MinerFin}]
     IN /\ miners' = IF SetsTrueCondition(n) THEN m1
                     ELSE [m1 EXCEPT ![n].phase = DerivedPhase(pod, ph0),
                                     ![n].health = DerivedHealth(pod, @)]
        /\ pods' = [pods EXCEPT ![n] = pod]
  /\ UNCHANGED <<msets, used, budget>>

\* reconcile, the Pod Create fails: the finalizer added by the Update before
\* it stays; the InfrastructureReady condition is set on the in-memory copy
\* only and the status is not written.
MinerReconcilePodCreateFails(n) ==
  /\ n \in DOMAIN miners /\ ~miners[n].deleting
  /\ ~PodExists(n, pods)
  /\ miners' = [miners EXCEPT ![n].fins = @ \cup {MinerFin}]
  /\ UNCHANGED <<pods, msets, used, budget>>

(***************************************************************************)
(* reconcileDelete: write PodHealthy=False(Deleting), delete the Pod if Get *)
(* finds one, polling Delete until it returns ok or NotFound (for at most *)
(* spec.podDeletionTimeout), then remove the Miner finalizer.  A Delete   *)
(* that returns ok has only marked the Pod terminating.                    *)
(***************************************************************************)
\* Mutant: the Pod Get returning NotFound ends the pass before the
\* finalizer is removed.
MinerReconcileDeleteKeepsFinWithoutPod(n) ==
  /\ n \in DOMAIN miners /\ miners[n].deleting
  /\ LET m1 == [miners EXCEPT ![n].health = "Deleting"]
     IN miners' = IF MinerFin \in m1[n].fins /\ PodExists(n, pods)
                  THEN SetFins(m1, n, m1[n].fins \ {MinerFin})
                  ELSE m1
  /\ pods' = IF PodExists(n, pods) THEN [pods EXCEPT ![n].term = TRUE] ELSE pods
  /\ UNCHANGED <<msets, used, budget>>

\* PollUntilContextTimeout with a timeout of 0 runs the condition once on
\* a context that has already expired: Delete fails and the poll returns
\* the context's error.
ZeroTimeoutPoll(n) == n \in ZeroTimeout

MinerReconcileDelete(n) ==
  /\ n \in DOMAIN miners /\ miners[n].deleting
  /\ ~(PodExists(n, pods) /\ ZeroTimeoutPoll(n))
  /\ LET m1 == [miners EXCEPT ![n].health = "Deleting"]
     IN miners' = IF MinerFin \in m1[n].fins
                  THEN SetFins(m1, n, m1[n].fins \ {MinerFin})
                  ELSE m1
  /\ pods' = IF PodExists(n, pods) THEN [pods EXCEPT ![n].term = TRUE] ELSE pods
  /\ UNCHANGED <<msets, used, budget>>

\* reconcileDelete, every Delete of the poll fails until the timeout: the
\* Deleting condition is written, MinerDeletionFailed is set on the
\* in-memory copy only, and the pass returns the error.
\* Mutant: the poll's timeout error ignored and the finalizer removed.
MinerReconcileDeleteTimeoutDropsFin(n) ==
  /\ n \in DOMAIN miners /\ miners[n].deleting
  /\ PodExists(n, pods)
  /\ LET m1 == [miners EXCEPT ![n].health = "Deleting"]
     IN miners' = SetFins(m1, n, m1[n].fins \ {MinerFin})
  /\ UNCHANGED <<pods, msets, used, budget>>

MinerReconcileDeleteTimeout(n) ==
  /\ n \in DOMAIN miners /\ miners[n].deleting
  /\ PodExists(n, pods)
  /\ miners' = [miners EXCEPT ![n].health = "Deleting"]
  /\ UNCHANGED <<pods, msets, used, budget>>

MinerNext(n) ==
  \/ MinerReconcile(n) \/ MinerReconcilePodCreateFails(n)
  \/ MinerReconcileDelete(n) \/ MinerReconcileDeleteTimeout(n)

\* Every successful pass requeues after 10s and writes a fresh LastUpdated
\* (a watch event), a failed pass is retried with backoff, and deletion
\* marks and finalizer removals are watch events: a pass that can succeed
\* eventually runs.  Failed Pod creations and Delete timeouts of a non-zero
\* podDeletionTimeout are not assumed to repeat forever.
MinerFairness ==
  \A n \in Names : WF_storeVars(MinerReconcile(n)) /\ WF_storeVars(MinerReconcileDelete(n))
=============================================================================

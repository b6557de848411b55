------------------------- MODULE MinerSetController -------------------------
(***************************************************************************)
(* The MinerSet controller (MinerSetReconciler,                            *)
(* src/internal/controller/minerset_controller.go).  A pass of Reconcile  *)
(* is split at its writes to the store, so that other actors can act      *)
(* between them:                                                           *)
(*   Begin  - Get, finalizer, List (the snapshot the pass works from)      *)
(*   Adopt  - the adoption patches and the replica diff                    *)
(*   Create - one Create (and its confirmation poll) of the scale-up loop  *)
(*   Delete - one Delete of the scale-down loop                            *)
(*   Status - the status update (always rejected, see Cluster)             *)
(* One worker reconciles a given MinerSet at a time (pc per MinerSet).     *)
(* The List reads the manager's informer cache: with CacheLag it is the    *)
(* store as of some earlier state, brought up to date by CacheSync.        *)
(***************************************************************************)
EXTENDS Cluster

CONSTANTS
  CacheLag,      \* TRUE: the List reads a cache that may lag the store
  ConfirmFails   \* TRUE: waitForMinerCreation may return an error

VARIABLES
  pc,        \* where the pass of each MinerSet is
  snap,      \* the Miners as the pass listed them (after Adopt: filtered)
  toCreate,  \* Miners the scale-up loop still has to create
  toDelete,  \* Miners the scale-down loop still has to visit
  rrep,      \* spec.replicas of the MinerSet the pass read
  cache      \* the Miners in the informer cache

msVars == <<pc, snap, toCreate, toDelete, rrep, cache>>

NoSnap == [n \in {} |-> None]

\* The fields of a listed Miner that the pass reads.
Listed(m) == [owner |-> m.owner, deleting |-> m.deleting]
ListedRec == [owner: Owners, deleting: BOOLEAN]

MSTypeOK ==
  /\ pc \in [MinerSets -> {"Idle", "Adopt", "Create", "Delete", "Status"}]
  /\ \A s \in MinerSets : DOMAIN snap[s] \subseteq Names
                          /\ snap[s] \in [DOMAIN snap[s] -> ListedRec]
  /\ toCreate \in [MinerSets -> 0..MaxReplicas]
  /\ toDelete \in [MinerSets -> SUBSET Names]
  /\ rrep \in [MinerSets -> (0..MaxReplicas) \cup {NoReplicas}]
  /\ DOMAIN cache \subseteq Names /\ cache \in [DOMAIN cache -> MinerRec]

MSInit ==
  /\ pc = [s \in MinerSets |-> "Idle"]
  /\ snap = [s \in MinerSets |-> NoSnap]
  /\ toCreate = [s \in MinerSets |-> 0]
  /\ toDelete = [s \in MinerSets |-> {}]
  /\ rrep = [s \in MinerSets |-> 0]
  /\ cache = miners

\* Mutant: the exclusion filter dropped.
ShouldExcludeMinerNever(s, m) == FALSE

\* shouldExcludeMiner: controlled, and not by this MinerSet.
ShouldExcludeMiner(s, m) == m.owner # None /\ m.owner # s

\* adoptOrphan: a merge patch from the listed copy (no owner) to that copy
\* plus a controller reference to s.  It carries the whole ownerReferences
\* list and no resourceVersion, so it replaces whatever owner the store
\* holds by then; the Miner's other fields are not in the patch.
AdoptOrphan(m, s) == [m EXCEPT !.owner = s]

\* getMinersToDelete: the first `diff` Miners of the list (for every
\* DeletePolicy: Random, Newest and the default take the front, Oldest the
\* back), and the list comes from the cache in no particular order.
GetMinersToDelete(filt, diff) == kSubset(diff, filt)

\* Mutant: one Miner too many on a scale-up.
ScaleUpCountOffByOne(diff) == 1 - diff

\* syncReplicas, case diff < 0: the number of Miners createMiners makes.
ScaleUpCount(diff) == -diff

\* What r.List returns: the cache, or the store when the cache is exact.
ListSource == IF CacheLag THEN cache ELSE miners

\* End of a pass, with or without an error: the worker drops its copies.
EndPass(s) ==
  /\ pc' = [pc EXCEPT ![s] = "Idle"]
  /\ snap' = [snap EXCEPT ![s] = NoSnap]
  /\ toCreate' = [toCreate EXCEPT ![s] = 0]
  /\ toDelete' = [toDelete EXCEPT ![s] = {}]

\* reconcileDelete: remove the finalizer; the marked MinerSet leaves the
\* store.  Its Miners are left to the garbage collector.
MSReconcileDelete(s) ==
  /\ pc[s] = "Idle" /\ msets[s].exists /\ msets[s].deleting
  /\ msets' = [msets EXCEPT ![s].fin = FALSE, ![s].exists = FALSE]
  /\ UNCHANGED <<miners, pods, used, budget>> /\ UNCHANGED msVars

\* Reconcile up to the List: add the finalizer, list the Miners matching
\* the selector.
MSBegin(s) ==
  /\ pc[s] = "Idle" /\ msets[s].exists /\ ~msets[s].deleting
  \* The finalizer Update writes the object before the chain label is set
  \* on it; the label stays on the in-memory copy, and the pass writes
  \* nothing but the status afterwards.
  /\ msets' = [msets EXCEPT ![s].fin = TRUE]
  /\ pc' = [pc EXCEPT ![s] = "Adopt"]
  /\ snap' = [snap EXCEPT ![s] = [n \in DOMAIN ListSource |-> Listed(ListSource[n])]]
  /\ rrep' = [rrep EXCEPT ![s] = msets[s].replicas]
  /\ UNCHANGED <<miners, pods, used, budget, toCreate, toDelete, cache>>

(***************************************************************************)
(* The filter loop and syncReplicas' choice.  Each orphan is patched with  *)
(* a merge patch that carries the whole ownerReferences list; a patch     *)
(* that fails (or finds the Miner gone) only drops that Miner from this   *)
(* pass.  A patched Miner's copy is refreshed from the patch response.    *)
(* The scale-down victims are the first `diff` Miners of the list, and    *)
(* the cache returns the list in no particular order: any diff of them.   *)
(***************************************************************************)
MSAdopt(s) ==
  /\ pc[s] = "Adopt"
  /\ LET kept    == {n \in DOMAIN snap[s] : ~ShouldExcludeMiner(s, snap[s][n])}
         orphans == {n \in kept : snap[s][n].owner = None}
     IN \E adopted \in SUBSET (orphans \cap DOMAIN miners) :
          LET m1   == [n \in DOMAIN miners |->
                         IF n \in adopted THEN AdoptOrphan(miners[n], s)
                         ELSE miners[n]]
              filt == (kept \ orphans) \cup adopted
              diff == Cardinality(filt) - rrep[s]
          IN /\ miners' = m1
             \* syncReplicas: spec.replicas unset is an error after the
             \* adoption patches; no status is written.
             /\ \/ rrep[s] = NoReplicas /\ EndPass(s)
                \/ /\ rrep[s] # NoReplicas
                   /\ snap' = [snap EXCEPT ![s] =
                               [n \in filt |-> IF n \in adopted THEN Listed(m1[n]) ELSE snap[s][n]]]
                   /\ \/ diff < 0 /\ toCreate' = [toCreate EXCEPT ![s] = ScaleUpCount(diff)]
                                  /\ pc' = [pc EXCEPT ![s] = "Create"]
                                  /\ UNCHANGED toDelete
                      \/ diff > 0 /\ \E D \in GetMinersToDelete(filt, diff) :
                                       toDelete' = [toDelete EXCEPT ![s] = D]
                                  /\ pc' = [pc EXCEPT ![s] = "Delete"]
                                  /\ UNCHANGED toCreate
                      \/ diff = 0 /\ pc' = [pc EXCEPT ![s] = "Status"]
                                  /\ UNCHANGED <<toCreate, toDelete>>
  /\ UNCHANGED <<pods, msets, used, budget, rrep, cache>>

\* Mutant: the controller reference left out of the new Miner.
NewMinerUncontrolled(s) == [InitMiner(None) EXCEPT !.fins = {MinerSetFin}]

\* computeDesiredMiner: a Miner with a generated name, controlled by the
\* MinerSet and carrying the MinerSet finalizer.  The created Miners are
\* not added to the pass's list.
NewMiner(s) == [InitMiner(s) EXCEPT !.fins = {MinerSetFin}]

\* Create of one Miner under a fresh generated name.
CreateMiner(s) ==
  \E n \in Names \ used :
    /\ miners' = miners @@ (n :> NewMiner(s))
    /\ used' = used \cup {n}

\* The rest of a loop iteration once the Miner is confirmed.
CreateNext(s) ==
  /\ toCreate' = [toCreate EXCEPT ![s] = @ - 1]
  /\ pc' = IF toCreate[s] = 1 THEN [pc EXCEPT ![s] = "Status"] ELSE pc
  /\ UNCHANGED <<pods, msets, budget, snap, toDelete, rrep>>

\* Mutant: the confirmation poll dropped; the cache need not hold the
\* new Miner when the loop goes on.
MSCreateSkipsConfirm(s) ==
  /\ pc[s] = "Create" /\ toCreate[s] > 0
  /\ CreateMiner(s) /\ CreateNext(s) /\ UNCHANGED cache

\* Create, then waitForMinerCreation: the poll Gets the Miner through the
\* cache until it is found, so the cache has caught up with the Create.
MSCreate(s) ==
  /\ pc[s] = "Create" /\ toCreate[s] > 0
  /\ CreateMiner(s)
  /\ cache' = IF CacheLag THEN miners' ELSE cache
  /\ CreateNext(s)

\* waitForMinerCreation returns an error (a Get error, or 10s of NotFound
\* from a cache that has not caught up): the Miner exists, the pass
\* returns the error and writes no status.
MSCreateUnconfirmed(s) ==
  /\ ConfirmFails
  /\ pc[s] = "Create" /\ toCreate[s] > 0
  /\ CreateMiner(s)
  /\ EndPass(s)
  /\ UNCHANGED <<pods, msets, budget, rrep, cache>>

\* createMiners: a Create fails; the pass returns the error and writes no
\* status.
MSCreateFails(s) ==
  /\ pc[s] = "Create"
  /\ EndPass(s)
  /\ UNCHANGED <<miners, pods, msets, used, budget, rrep, cache>>

\* deleteMiners: a Miner the list showed as deleting is skipped; Delete of
\* one that is gone (NotFound) counts as done.
MSDelete(s) ==
  /\ pc[s] = "Delete"
  /\ \E n \in toDelete[s] :
       /\ miners' = IF snap[s][n].deleting THEN miners ELSE DeleteFrom(miners, n)
       /\ toDelete' = [toDelete EXCEPT ![s] = @ \ {n}]
  /\ pc' = IF Cardinality(toDelete[s]) = 1 THEN [pc EXCEPT ![s] = "Status"] ELSE pc
  /\ UNCHANGED <<pods, msets, used, budget, snap, toCreate, rrep, cache>>

\* deleteMiners: a Delete fails with an error other than NotFound.
MSDeleteFails(s) ==
  /\ pc[s] = "Delete"
  /\ \E n \in toDelete[s] : ~snap[s][n].deleting /\ n \in DOMAIN miners
  /\ EndPass(s)
  /\ UNCHANGED <<miners, pods, msets, used, budget, rrep, cache>>

(***************************************************************************)
(* updateStatus: Status().Update of the replica counters and of the       *)
(* MinersCreated and MinersReady conditions.  Every case of syncReplicas  *)
(* set MinersCreated True with no reason, so the API server rejects the   *)
(* write: the store is left as it was and the pass ends.                  *)
(***************************************************************************)
MSStatus(s) ==
  /\ pc[s] = "Status"
  /\ EndPass(s)
  /\ UNCHANGED <<miners, pods, msets, used, budget, rrep, cache>>

MSNext(s) ==
  \/ MSReconcileDelete(s) \/ MSBegin(s) \/ MSAdopt(s)
  \/ MSCreate(s) \/ MSCreateUnconfirmed(s) \/ MSCreateFails(s)
  \/ MSDelete(s) \/ MSDeleteFails(s) \/ MSStatus(s)

\* The informer applies the watch events it has received: the cache
\* becomes the store as it is now.
CacheSync ==
  /\ CacheLag /\ cache # miners
  /\ cache' = miners
  /\ UNCHANGED <<storeVars, pc, snap, toCreate, toDelete, rrep>>

\* A successful pass requeues after 15s and a failed one is retried with
\* backoff, so a pass always starts again.  A Create or Delete that fails
\* is not assumed to fail on every retry: the loops' steps are strongly
\* fair, since a failure ends the pass and they are only enabled again in
\* the next one.
MSFairness ==
  \A s \in MinerSets :
    /\ WF_<<storeVars, msVars>>(MSReconcileDelete(s) \/ MSBegin(s))
    /\ WF_<<storeVars, msVars>>(MSAdopt(s))
    /\ SF_<<storeVars, msVars>>(MSCreate(s))
    /\ SF_<<storeVars, msVars>>(MSDelete(s))
    /\ WF_<<storeVars, msVars>>(MSStatus(s))

\* The informer keeps applying the watch events it receives.
CacheFairness == WF_<<storeVars, msVars>>(CacheSync)
=============================================================================

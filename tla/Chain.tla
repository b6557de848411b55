-------------------------------- MODULE Chain --------------------------------
(***************************************************************************)
(* The Chain controller (ChainReconciler, the second file of               *)
(* src/unnamed/part_002).  One pass of Reconcile for the Chain is one      *)
(* atomic step.  The store holds the ConfigMaps and Miners labeled with   *)
(* the Chain's name; the reconcile phases list them, and when they find   *)
(* none they build the object (createConfigMap, createMinerForChain) and  *)
(* record it in the status with a condition set True.  TrueCondition sets *)
(* no reason, which the CRD schema of metav1.Condition requires, so the   *)
(* status write of such a pass is rejected.  The Chain is watched with no event filter:   *)
(* a pass runs when a request for the Chain is in the work queue, and a   *)
(* write that changes the Chain, an error or a non-zero Result queues     *)
(* it again.                                                               *)
(***************************************************************************)
EXTENDS Naturals, SequencesExt

CONSTANTS
  MaxGen,       \* bound on the user's spec edits (metadata.generation)
  InitChildren  \* how many labeled ConfigMaps, and Miners, may exist at start

ASSUME InitChildren \subseteq Nat

VARIABLES
  chain,     \* the Chain object
  cmCount,   \* ConfigMaps in the store labeled chain.onex.io/name=<chain>
  mCount,    \* Miners in the store labeled chain.onex.io/name=<chain>
  queued     \* a request for the Chain is in the work queue

vars == <<chain, cmCount, mCount, queued>>

ChainRec == [exists: BOOLEAN, fin: BOOLEAN, deleting: BOOLEAN,
             gen: 1..MaxGen, obsGen: 0..MaxGen,
             cmRef: BOOLEAN, minerRef: BOOLEAN,
             cConfigMaps: {"Unset", "True"}, cMiners: {"Unset", "True"}]

TypeOK == chain \in ChainRec /\ cmCount \in Nat /\ mCount \in Nat
          /\ queued \in BOOLEAN

Init ==
  /\ chain = [exists |-> TRUE, fin |-> FALSE, deleting |-> FALSE, gen |-> 1,
              obsGen |-> 0, cmRef |-> FALSE, minerRef |-> FALSE,
              cConfigMaps |-> "Unset", cMiners |-> "Unset"]
  \* Objects with the Chain's label may already be there (made by hand, or
  \* left by an earlier Chain of the same name).
  /\ cmCount \in InitChildren
  /\ mCount \in InitChildren
  \* The informer's initial List delivers the Chain as an add event.
  /\ queued = TRUE

(***************************************************************************)
(* ctrl.Result: Requeue and RequeueAfter (in seconds).  A result that is   *)
(* not zero queues the request again.                                      *)
(***************************************************************************)
ZeroResult == [requeue |-> FALSE, after |-> 0]

IsZeroResult(r) == ~r.requeue /\ r.after = 0

\* lowestNonZeroResult, as written: a zero RequeueAfter compares lower than
\* any other, and Requeue is looked at only when a's delay is not lower.
LowestNonZeroResult(a, b) ==
  IF a.after < b.after THEN a ELSE IF a.requeue THEN a ELSE b

\* Mutant: the Miner phase asks for an immediate requeue.
MinerPhaseResultRequeue == [requeue |-> TRUE, after |-> 0]

\* Every path of reconcileConfigMap and reconcileMiner that returns no
\* error returns ctrl.Result{}.
ConfigMapPhaseResult == ZeroResult

MinerPhaseResult == ZeroResult

\* reconcile folds the phase results into the pass's result, starting from
\* ctrl.Result{}.
PassResult ==
  FoldLeft(LowestNonZeroResult, ZeroResult, <<ConfigMapPhaseResult, MinerPhaseResult>>)

\* reconcileConfigMap: IsConfigMapReconciled lists the labeled ConfigMaps;
\* if there are none, createConfigMap returns the object it built and the
\* pass records it and sets ConfigMapsCreated.  Nothing is sent to the store.
ReconcileConfigMap(c) ==
  IF cmCount # 0 THEN c
  ELSE [c EXCEPT !.cmRef = TRUE, !.cConfigMaps = "True"]

\* reconcileMiner: the same for the Miner; MinerRef is set only if unset.
ReconcileMiner(c) ==
  IF mCount # 0 THEN c
  ELSE [c EXCEPT !.minerRef = TRUE, !.cMiners = "True"]

\* The finalizer and both phases, on the in-memory Chain.
Phases(c) == ReconcileMiner(ReconcileConfigMap([c EXCEPT !.fin = TRUE]))

\* The in-memory Chain carries a condition set True (with no reason).
HasTrueCondition(c) == c.cConfigMaps = "True" \/ c.cMiners = "True"

\* After a successful pass: queued again if its writes changed the Chain
\* (an unchanged Update raises no watch event) or its result is not zero.
Requeued == chain' # chain \/ ~IsZeroResult(PassResult)

\* Mutant: the observed generation stamped one ahead.
ChainReconcileStampAhead ==
  /\ queued /\ chain.exists /\ ~chain.deleting
  /\ ~HasTrueCondition(Phases(chain))
  /\ chain' = [Phases(chain) EXCEPT !.obsGen = chain.gen + 1]
  /\ queued' = Requeued
  /\ UNCHANGED <<cmCount, mCount>>

\* Mutant: the status written only when a phase had something to create.
ChainReconcileStampOnCreate ==
  /\ queued /\ chain.exists /\ ~chain.deleting
  /\ ~HasTrueCondition(Phases(chain))
  /\ chain' = [Phases(chain)
                 EXCEPT !.obsGen = IF cmCount = 0 \/ mCount = 0 THEN chain.gen ELSE @]
  /\ queued' = Requeued
  /\ UNCHANGED <<cmCount, mCount>>

\* reconcile: add the finalizer, run both phases, stamp the observed
\* generation and write the status; the write succeeds only when neither
\* phase set a condition True.
ChainReconcile ==
  /\ queued /\ chain.exists /\ ~chain.deleting
  /\ ~HasTrueCondition(Phases(chain))
  /\ chain' = [Phases(chain) EXCEPT !.obsGen = chain.gen]
  /\ queued' = Requeued
  /\ UNCHANGED <<cmCount, mCount>>

\* reconcile: a List in a phase, or the status write, fails (always when a
\* phase set a condition True); the pass returns the error after the
\* finalizer Update and the request is retried with backoff.
ChainReconcileFails ==
  /\ queued /\ chain.exists /\ ~chain.deleting
  /\ chain' = [chain EXCEPT !.fin = TRUE]
  /\ UNCHANGED <<cmCount, mCount, queued>>

\* reconcileDelete: remove the finalizer; the marked Chain leaves the
\* store, and its deletion is a watch event.
ChainReconcileDelete ==
  /\ queued /\ chain.exists /\ chain.deleting
  /\ chain' = [chain EXCEPT !.fin = FALSE, !.exists = FALSE]
  /\ UNCHANGED <<cmCount, mCount, queued>>

\* Reconcile: Get finds no Chain; the request is done.
ChainNotFound ==
  /\ queued /\ ~chain.exists
  /\ queued' = FALSE
  /\ UNCHANGED <<chain, cmCount, mCount>>

\* The user edits the Chain's spec or deletes it; both are watch events.
UserEditChain ==
  /\ chain.exists /\ ~chain.deleting /\ chain.gen < MaxGen
  /\ chain' = [chain EXCEPT !.gen = @ + 1]
  /\ queued' = TRUE
  /\ UNCHANGED <<cmCount, mCount>>

UserDeleteChain ==
  /\ chain.exists /\ ~chain.deleting
  /\ chain' = [chain EXCEPT !.deleting = TRUE, !.exists = chain.fin]
  /\ queued' = TRUE
  /\ UNCHANGED <<cmCount, mCount>>

Next ==
  \/ ChainReconcile \/ ChainReconcileFails \/ ChainReconcileDelete
  \/ ChainNotFound \/ UserEditChain \/ UserDeleteChain

\* A queued request is served by the worker; a failed pass is retried with
\* backoff and the successful pass stays enabled meanwhile, so it is not
\* assumed to fail for ever.
Spec == Init /\ [][Next]_vars /\ WF_vars(ChainReconcile)
        /\ WF_vars(ChainReconcileDelete) /\ WF_vars(ChainNotFound)

\* Every spec edit of a live Chain is eventually observed: observedGeneration
\* catches up with metadata.generation (spec 4.1: "observed-generation is
\* stamped to the current spec generation").
ObservesGeneration ==
  <>[](chain.exists /\ ~chain.deleting => chain.obsGen = chain.gen)

\* Once the user stops editing, the controller goes quiet: the watch on
\* its own Chain has no event filter, so a pass whose writes keep changing
\* the Chain, or whose folded Result is not zero, would queue itself for
\* ever.
Quiesces == <>[]~queued
=============================================================================

----------------------------- MODULE MinerLifecycle -----------------------------
(***************************************************************************)
(* What the Miner and MinerSet controllers together promise about each    *)
(* Miner name, whatever the user, the kubelet and the garbage collector   *)
(* do:                                                                      *)
(*   - a name is used once: Unborn -> Live -> (Deleting) -> Gone;          *)
(*   - a MinerSet creates a Miner it controls, and takes a Miner over only *)
(*     from no controller (adoption), never from another owner;            *)
(*   - a Pod is started only for a live Miner;                              *)
(*   - a Miner leaves the store only with its Pod down, or in the step     *)
(*     that takes its Pod down while it is being deleted.                   *)
(* podUp is "a Pod exists and has not been told to terminate".            *)
(***************************************************************************)
CONSTANTS Names, MinerSets, None, ChainOwner, InitOrphans, InitForeign

VARIABLES stage, owner, podUp

lvars == <<stage, owner, podUp>>

Stages == {"Unborn", "Live", "Deleting", "Gone"}

LInit ==
  /\ stage = [n \in Names |->
                IF n \in InitOrphans \cup InitForeign THEN "Live" ELSE "Unborn"]
  /\ owner = [n \in Names |->
                IF n \in InitForeign THEN ChainOwner ELSE None]
  /\ podUp = [n \in Names |-> FALSE]

Create(n, s) ==
  /\ stage[n] = "Unborn" /\ s \in MinerSets
  /\ stage' = [stage EXCEPT ![n] = "Live"]
  /\ owner' = [owner EXCEPT ![n] = s]
  /\ UNCHANGED podUp

\* Adoption of a set of Miners in one pass.
Adopt(S, s) ==
  /\ S # {} /\ s \in MinerSets
  /\ \A n \in S : stage[n] \in {"Live", "Deleting"} /\ owner[n] = None
  /\ owner' = [n \in Names |-> IF n \in S THEN s ELSE owner[n]]
  /\ UNCHANGED <<stage, podUp>>

MarkDeleting(n) ==
  /\ stage[n] = "Live"
  /\ stage' = [stage EXCEPT ![n] = "Deleting"]
  /\ UNCHANGED <<owner, podUp>>

\* Removal of a Miner whose Pod is down.
Remove(n) ==
  /\ stage[n] \in {"Live", "Deleting"} /\ ~podUp[n]
  /\ stage' = [stage EXCEPT ![n] = "Gone"]
  /\ owner' = [owner EXCEPT ![n] = None]
  /\ UNCHANGED podUp

\* A Miner being deleted: its Pod is taken down and it is released.
Release(n) ==
  /\ stage[n] = "Deleting"
  /\ stage' = [stage EXCEPT ![n] = "Gone"]
  /\ owner' = [owner EXCEPT ![n] = None]
  /\ podUp' = [podUp EXCEPT ![n] = FALSE]

StartPod(n) ==
  /\ stage[n] = "Live" /\ ~podUp[n]
  /\ podUp' = [podUp EXCEPT ![n] = TRUE]
  /\ UNCHANGED <<stage, owner>>

StopPod(n) ==
  /\ podUp[n]
  /\ podUp' = [podUp EXCEPT ![n] = FALSE]
  /\ UNCHANGED <<stage, owner>>

LNext ==
  \/ \E n \in Names, s \in MinerSets : Create(n, s)
  \/ \E S \in SUBSET Names, s \in MinerSets : Adopt(S, s)
  \/ \E n \in Names :
       MarkDeleting(n) \/ Remove(n) \/ Release(n) \/ StartPod(n) \/ StopPod(n)

LSpec == LInit /\ [][LNext]_lvars
=============================================================================

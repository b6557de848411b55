----------------------------- MODULE MC_Conditions -----------------------------
(***************************************************************************)
(* Model-checking instance of Conditions: two condition types, the        *)
(* reasons a controller moves a condition between while its status stays *)
(* False (Provisioning, PodNotFound), and two messages.                   *)
(***************************************************************************)
EXTENDS Conditions

CONSTANTS PodHealthy, Resized

MCTypes == {PodHealthy, Resized}
MCReasons == {"", "Provisioning", "PodNotFound"}
MCMessages == {"", "m"}
=============================================================================

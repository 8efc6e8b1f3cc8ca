------------------------------ MODULE AttemptFence ------------------------------
(***************************************************************************)
(* What the provisioning claim promises (the comments before               *)
(* claimProvisioning and claimGuardedTransition in                         *)
(* src/src/lib/connectivity/entitlement.ts): attempts are granted one at a *)
(* time, each under an identity never used before; only the attempt that   *)
(* is held may finalize, once; a superseded attempt is out for good.       *)
(***************************************************************************)
EXTENDS Naturals

CONSTANT None

VARIABLES holder, superseded, settled

fence == <<holder, superseded, settled>>

Init == holder = None /\ superseded = {} /\ settled = {}

\* A fresh attempt takes the claim, from nobody or from the holder.
Grant ==
  /\ holder' \in Nat
  /\ holder' \notin superseded \cup settled \cup {holder}
  /\ superseded' = superseded \cup ({holder} \ {None})
  /\ settled' = settled

\* The holder's result is applied, and its claim is cleared with it.
Settle ==
  /\ holder # None /\ holder' = None
  /\ settled' = settled \cup {holder}
  /\ superseded' = superseded

Next == Grant \/ Settle

Spec == Init /\ [][Next]_fence
===============================================================================

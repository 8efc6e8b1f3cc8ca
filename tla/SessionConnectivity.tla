-------------------------- MODULE SessionConnectivity --------------------------
(***************************************************************************)
(* What a session's connectivity promises, without claims, slots, leases   *)
(* or actions: a resource is held by one session at most; the session      *)
(* moves only to a resource it holds; it never drops the one it stands on. *)
(***************************************************************************)
CONSTANTS Session, Resource, None

VARIABLES phase, active, held

vars == <<phase, active, held>>

Stands(s) == active[s] = None \/ active[s] \in held[s]

Init == /\ \A s \in Session : held[s] \subseteq Resource /\ Stands(s)
        /\ \A s \in Session : phase[s] = "ACTIVE" => active[s] # None
        /\ \A s, t \in Session : s # t => held[s] \cap held[t] = {}

TakeUp(s, r) == /\ \A t \in Session : r \notin held[t]
                /\ held' = [held EXCEPT ![s] = @ \cup {r}]
                /\ UNCHANGED <<phase, active>>

Move(s, r) == /\ r \in held[s]
              /\ active' = [active EXCEPT ![s] = r]
              /\ UNCHANGED <<phase, held>>

Drop(s, r) == /\ r \in held[s] /\ r # active[s]
              /\ held' = [held EXCEPT ![s] = @ \ {r}]
              /\ UNCHANGED <<phase, active>>

\* ENDED is left for good, and only a session that stands somewhere is ACTIVE.
Enter(s, p) == /\ phase[s] # "ENDED"
               /\ p = "ACTIVE" => active[s] # None
               /\ phase' = [phase EXCEPT ![s] = p]
               /\ UNCHANGED <<active, held>>

Next == \E s \in Session :
          \/ \E r \in Resource : TakeUp(s, r) \/ Move(s, r) \/ Drop(s, r)
          \/ \E p \in {"DISCOVERING", "ACTIVE", "DEGRADED", "SWITCHING"} : Enter(s, p)

Spec == Init /\ [][Next]_vars

Safe == /\ \A s \in Session : Stands(s)
        /\ \A s \in Session : phase[s] = "ACTIVE" => active[s] # None
        /\ \A s, t \in Session : s # t => held[s] \cap held[t] = {}
===============================================================================

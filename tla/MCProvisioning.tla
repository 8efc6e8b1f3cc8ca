---------------------------- MODULE MCProvisioning ----------------------------
(***************************************************************************)
(* Values for the constants of Provisioning, and the two scenes that are   *)
(* explored: a behaviour is of the one that `scene` names.                 *)
(***************************************************************************)
EXTENDS Provisioning, TLC

VARIABLE scene

sceneVars == <<scene, vars>>

\* The moves a tenant operator asks for: fail a binding that is stuck, retry a failed one,
\* release a bound one.
Retry == <<"FAILED", "PROVISIONING">>
FailRetryRelease == {<<"PROVISIONING", "FAILED">>, Retry, <<"BOUND", "RELEASED">>}

SceneInit == Init /\ scene \in {"failing", "meddled"}

Runs(w) == Claiming(w) \/ Calling(w) \/ Waiting(w)

\* Calls fail and processes die, without timing assumptions; operators only retry.
Failing ==
  /\ scene = "failing"
  /\ \/ \E w \in Worker : Runs(w) \/ Crash(w)
     \/ LatePut \/ Tick
     \/ TransitionBinding /\ <<row.status, row'.status>> = Retry

\* Punctual workers whose calls succeed, the reconciler, operators and the router's owner.
Meddled ==
  /\ scene = "meddled"
  /\ (\E w \in Worker : Runs(w)) \/ Reconciling \/ Environment
  /\ spent'.faults = 0
  /\ clock' # clock => \A w \in Worker : ~Overdue(w)

SceneSpec == SceneInit /\ [][(Failing \/ Meddled) /\ UNCHANGED scene]_sceneVars

Symmetry == Permutations(Worker)
===============================================================================

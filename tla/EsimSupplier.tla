----------------------------- MODULE EsimSupplier -----------------------------
(***************************************************************************)
(* The eSIM adapter of one binding, its client and the transport below     *)
(* them, against a supplier that may answer late or never. A request that  *)
(* timed out is still on its way: the supplier may apply it at any later   *)
(* time.                                                                   *)
(*                                                                         *)
(* Source: src/src/lib/connectivity/providers/esim/ (adapter.ts,           *)
(* esim-client.ts, transport.ts); the RouterOS transport is the same code. *)
(* The supplier is the one MockEsimTransport stands for: it holds at most  *)
(* one profile under a reference and makes a new iccid for each.           *)
(***************************************************************************)
EXTENDS Naturals, FiniteSets

CONSTANTS
  Call,         \* calls of the adapter for the binding
  MAX_RETRIES,  \* of a method that may be sent again
  SupplierPlans \* what the calls are, whether a second POST conflicts, the bounds

ASSUME SupplierAssumption == \A plan \in SupplierPlans :
  /\ plan.kind \in [Call -> {"provision", "suspend", "resume", "release", "reconcile"}]
  /\ plan.there \in BOOLEAN /\ plan.strict \in BOOLEAN
  /\ plan.left \in [timeouts : Nat, errors : Nat]

NoProfile == 0

VARIABLES
  profile,      \* the supplier's row under the binding's reference: iccid, active;
                \* the iccids ever made
  task,         \* per call: stage, the request at hand, how it was answered
  onWire,         \* requests the supplier has not handled
  strict,       \* does a second POST conflict, or answer the profile there is?
  supplierLeft  \* bounds left: requests that time out, errors of the supplier

supplierVars == <<profile, task, onWire, strict, supplierLeft>>

CallKind == {"provision", "suspend", "resume", "release", "reconcile"}
Stage == {"idle", "known", "look", "post", "relook", "repost", "patch", "delete", "check",
          "done"}
CallAnswer == {"none", "success", "failed_permanent", "failed_retryable", "in_sync",
               "drift_detected", "resource_missing"}

TaskRow == [kind : CallKind, stage : Stage, attempt : Nat, waiting : BOOLEAN, id : Nat,
            conflicted : BOOLEAN, answer : CallAnswer]
SupplierLeft == [timeouts : Nat, errors : Nat]

SupplierTypeOK ==
  /\ profile \in [id : Nat, active : BOOLEAN, made : Nat]
  /\ task \in [Call -> TaskRow]
  /\ \A m \in onWire : m.by \in Call /\ m.stage \in Stage /\ m.attempt \in Nat /\ m.id \in Nat
  /\ strict \in BOOLEAN /\ supplierLeft \in SupplierLeft

SupplierInitOf(plan) ==
  /\ profile = [id |-> IF plan.there THEN 1 ELSE NoProfile, active |-> plan.there,
                made |-> IF plan.there THEN 1 ELSE 0]
  /\ task = [c \in Call |->
               [kind |-> plan.kind[c], stage |-> "idle", attempt |-> 0, waiting |-> FALSE,
                id |-> NoProfile, conflicted |-> FALSE, answer |-> "none"]]
  /\ onWire = {} /\ strict = plan.strict /\ supplierLeft = plan.left

SupplierInit == \E plan \in SupplierPlans : SupplierInitOf(plan)

-----------------------------------------------------------------------------
(* What a call is made of.                                                 *)

\* Requests for one profile are addressed by its iccid, the others by the reference.
ById(stage) == stage \in {"known", "patch", "delete", "check"}

FirstStage(kind) == CASE kind = "provision" -> "known"
                      [] kind \in {"suspend", "resume"} -> "patch"
                      [] kind = "release" -> "delete"
                      [] OTHER -> "check"

To(c, stage) ==
  task' = [task EXCEPT ![c].stage = stage, ![c].waiting = FALSE, ![c].attempt = 0]
Ends(c, answer, id) ==
  task' = [task EXCEPT ![c].stage = "done", ![c].waiting = FALSE, ![c].answer = answer,
                       ![c].id = id]

\* The binding is read with the iccid it has by then, or with none.
StartCall(c, id) ==
  /\ task[c].stage = "idle" /\ id \in {NoProfile} \cup 1..profile.made
  /\ IF id # NoProfile
       THEN task' = [task EXCEPT ![c].stage = FirstStage(task[c].kind), ![c].id = id]
     ELSE CASE task[c].kind = "provision" -> To(c, "look")
            [] task[c].kind = "release" -> Ends(c, "success", NoProfile)
            [] task[c].kind = "reconcile" -> Ends(c, "resource_missing", NoProfile)
            [] OTHER -> Ends(c, "failed_permanent", NoProfile)
  /\ UNCHANGED <<profile, onWire, strict, supplierLeft>>

-----------------------------------------------------------------------------
(* The transport.                                                          *)

MaxAttempts(stage) == IF stage \in {"post", "repost"} THEN 1 ELSE 1 + MAX_RETRIES

Send(c) ==
  /\ task[c].stage \notin {"idle", "done"} /\ ~task[c].waiting
  /\ task' = [task EXCEPT ![c].attempt = @ + 1, ![c].waiting = TRUE]
  /\ onWire' = onWire \cup {[by |-> c, stage |-> task[c].stage,
                              attempt |-> task[c].attempt + 1, id |-> task[c].id]}
  /\ UNCHANGED <<profile, strict, supplierLeft>>

\* TIMEOUT or RETRYABLE: another attempt while the method allows one; then the error
\* reaches the client, which looks for what its POST may have done.
Retryable(c) ==
  IF task[c].attempt < MaxAttempts(task[c].stage)
    THEN task' = [task EXCEPT ![c].waiting = FALSE]
  ELSE IF task[c].stage = "post" THEN To(c, "relook")
  ELSE Ends(c, "failed_retryable", task[c].id)

\* The client gives up waiting; its request stays on the wire.
TimesOut(c) ==
  /\ task[c].waiting /\ supplierLeft.timeouts > 0
  /\ supplierLeft' = [supplierLeft EXCEPT !.timeouts = @ - 1]
  /\ Retryable(c) /\ UNCHANGED <<profile, onWire, strict>>

Awaited(m) == /\ task[m.by].waiting /\ task[m.by].stage = m.stage
              /\ task[m.by].attempt = m.attempt

\* 5xx or 429, or 401, 403 and other 4xx: nothing was done.
SupplierFails(m) ==
  /\ m \in onWire /\ Awaited(m) /\ supplierLeft.errors > 0
  /\ supplierLeft' = [supplierLeft EXCEPT !.errors = @ - 1]
  /\ onWire' = onWire \ {m}
  /\ Retryable(m.by) \/ Ends(m.by, "failed_permanent", m.id)
  /\ UNCHANGED <<profile, strict>>

Lost(m) ==
  /\ m \in onWire /\ ~Awaited(m) /\ onWire' = onWire \ {m}
  /\ UNCHANGED <<profile, task, strict, supplierLeft>>

-----------------------------------------------------------------------------
(* The supplier handles a request, and the client its answer.              *)

Handled(m, then) ==
  /\ m \in onWire /\ onWire' = onWire \ {m}
  /\ IF Awaited(m) THEN then ELSE UNCHANGED task
  /\ UNCHANGED <<strict, supplierLeft>>

NamesReference(m) == profile.id # NoProfile

\* Is the profile that the request names there?
Names(m) == profile.id # NoProfile /\ (ById(m.stage) => m.id = profile.id)

\* provision: the profile the binding names, else one under its reference, else a new
\* one; after a POST that conflicted or was lost, what it has left.
GetProfile(m) ==
  /\ m.stage \in {"known", "look", "relook"}
  /\ Handled(m, IF Names(m) THEN Ends(m.by, "success", profile.id)
                ELSE \/ m.stage = "known" /\ To(m.by, "look")
                     \/ m.stage = "look" /\ To(m.by, "post")
                     \/ /\ m.stage = "relook" /\ task[m.by].conflicted
                        /\ Ends(m.by, "failed_permanent", m.id)
                     \/ /\ m.stage = "relook" /\ ~task[m.by].conflicted
                        /\ To(m.by, "repost"))
  /\ UNCHANGED profile

\* CONFLICT is looked into once; the second POST's conflict is the caller's.
PostProfile(m) ==
  /\ m.stage \in {"post", "repost"}
  /\ IF profile.id = NoProfile
       THEN /\ profile' = [id |-> profile.made + 1, active |-> TRUE, made |-> profile.made + 1]
            /\ Handled(m, Ends(m.by, "success", profile.made + 1))
       ELSE /\ UNCHANGED profile
            /\ Handled(m,
                 \/ ~strict /\ Ends(m.by, "success", profile.id)
                 \/ /\ strict /\ m.stage = "post"
                    /\ task' = [task EXCEPT ![m.by].stage = "relook", ![m.by].attempt = 0,
                                  ![m.by].waiting = FALSE, ![m.by].conflicted = TRUE]
                 \/ strict /\ m.stage = "repost" /\ Ends(m.by, "failed_permanent", m.id))

\* suspend and resume; a profile that is not there is a success, too.
PatchProfile(m) ==
  /\ m.stage = "patch"
  /\ profile' = IF Names(m) THEN [profile EXCEPT !.active = task[m.by].kind = "resume"]
                ELSE profile
  /\ Handled(m, Ends(m.by, "success", m.id))

DeleteProfile(m) ==
  /\ m.stage = "delete"
  /\ profile' = IF Names(m) THEN [profile EXCEPT !.id = NoProfile, !.active = FALSE]
                ELSE profile
  /\ Handled(m, Ends(m.by, "success", m.id))

\* reconcile, for a binding that is BOUND.
CheckProfile(m) ==
  /\ m.stage = "check"
  /\ Handled(m, Ends(m.by, IF ~Names(m) THEN "resource_missing"
                           ELSE IF profile.active THEN "in_sync" ELSE "drift_detected", m.id))
  /\ UNCHANGED profile

Handles(m) == \/ GetProfile(m) \/ PostProfile(m) \/ PatchProfile(m) \/ DeleteProfile(m)
               \/ CheckProfile(m)

SupplierNext ==
  \/ \E c \in Call : \/ Send(c) \/ TimesOut(c)
                     \/ \E id \in 0..profile.made : StartCall(c, id)
  \/ \E m \in onWire : Handles(m) \/ SupplierFails(m) \/ Lost(m)

SupplierSpec == SupplierInit /\ [][SupplierNext]_supplierVars

-----------------------------------------------------------------------------

Succeeded(c, kind) ==
  task[c].kind = kind /\ task[c].answer = "success" /\ task[c].id # NoProfile

(* Also with requests that are applied long after their caller gave up on   *)
(* them: a profile whose release was answered is gone for good; a profile   *)
(* that provision has answered is there for as long as nobody releases it,  *)
(* and no late request of an earlier profile's life touches it.             *)
AnsweredHolds ==
  /\ \A c \in Call : Succeeded(c, "release") => profile.id # task[c].id
  /\ \A c \in Call :
       /\ Succeeded(c, "provision")
       /\ \A d \in Call : task[d].kind = "release" => task[d].id # task[c].id
       => profile.id = task[c].id
  /\ profile.id # NoProfile /\ ~profile.active =>
       \E c \in Call : task[c].kind = "suspend" /\ task[c].id = profile.id
===============================================================================

------------------------------ MODULE KernelBridge ------------------------------
(***************************************************************************)
(* How a session's resource gets its account with the provider: the bridge *)
(* of the control plane finds, or creates, the entitlement and the binding  *)
(* behind a resource, and asks again before the session becomes ACTIVE      *)
(* (control-plane/kernel-bridge.ts, called by action-executor.ts); then the *)
(* invariant of an ACTIVE session is checked (invariant-checker.ts).        *)
(*                                                                         *)
(* Bindings are rows 1, 2, ... each with the one entitlement it belongs to; *)
(* 0 names none. The kernel's provisioning of one binding is a step here:   *)
(* its own interleavings are those of module Provisioning. Entitlements     *)
(* with a user are those the bridge finds, it creates them without one.     *)
(***************************************************************************)
EXTENDS Naturals, Sequences, FiniteSets

CONSTANTS Seeker,       \* sessions, each of one subject
          Resource,
          BridgePlans   \* what a behaviour may begin with

CONSTANT Unset

\* Sessions have subjects; the entitlements that there are have been created for no session.
ASSUME BridgeAssumption ==
  /\ Unset \notin Seeker /\ BridgePlans # {}
  /\ \A plan \in BridgePlans :
       /\ plan.rows \in Seq({plan.rows[i] : i \in DOMAIN plan.rows})
       /\ \A i \in DOMAIN plan.rows : plan.rows[i].by = Unset
       /\ plan.link \in [Resource -> 0..Len(plan.rows)]
       /\ \A s \in Seeker : plan.subject[s] # Unset

VARIABLES link,         \* the binding each resource names
          holder,       \* who has reserved each resource, or uses it
          rows,         \* the entitlements and their bindings
          call,         \* where each session's action is
          served,       \* which sessions each row was answered to
          bridge        \* the plan, what is open, and how much may still go wrong

bridgeVars == <<link, holder, rows, call, served, bridge>>

CapabilityTypes ==
  {"INTERNET", "LOCAL_NETWORK", "CACHE_ACCESS", "MESH_RELAY", "VPN_ACCESS", "ROAMING"}

-----------------------------------------------------------------------------

Row(tenant, user, provider, status, bound, by) ==
  [tenant |-> tenant, user |-> user, provider |-> provider, entitlement |-> status,
   status |-> bound, by |-> by]

BridgeInitOf(plan) ==
  /\ bridge = [subject |-> plan.subject, cap |-> plan.cap, asks |-> plan.asks,
               faults |-> plan.faults, moves |-> plan.moves,
               open |-> {"subscription", "instance"}]
  /\ link = plan.link
  /\ rows = plan.rows
  /\ holder = [r \in Resource |-> Unset]
  /\ call = [s \in Seeker |-> [at |-> "idle", on |-> Unset, id |-> 0]]
  /\ served = {}

BridgeInit == \E plan \in BridgePlans : BridgeInitOf(plan)

-----------------------------------------------------------------------------

Goes(s, at) == call' = [call EXCEPT ![s].at = at]
GoesWith(s, at, id) == call' = [call EXCEPT ![s].at = at, ![s].id = id]
\* The action ends: its resource is released. The link stays.
Refused(s) ==
  /\ call' = [call EXCEPT ![s] = [at |-> "idle", on |-> Unset, id |-> 0]]
  /\ holder' = [holder EXCEPT ![call[s].on] = Unset]
Answered(s, id) == GoesWith(s, "mark", id) /\ served' = served \cup {<<s, id>>}

Cap(s) == bridge.cap[call[s].on]
Closed(what) == what \notin bridge.open

\* An ACTIVATE whose authority is checked reserves its target.
Reserve(s, r) ==
  /\ call[s].at = "idle" /\ bridge.asks[s] > 0
  /\ holder[r] = Unset
  /\ holder' = [holder EXCEPT ![r] = s]
  /\ call' = [call EXCEPT ![s] = [at |-> "read", on |-> r, id |-> 0]]
  /\ bridge' = [bridge EXCEPT !.asks[s] = @ - 1]
  /\ UNCHANGED <<link, rows, served>>

\* A linked binding serves only its own tenant, subject and kind of provider.
SameCap(row, s) == row.tenant = Cap(s).tenant /\ row.provider = Cap(s).provider
Matches(row, s) == SameCap(row, s) /\ row.user = bridge.subject[s]

ReadBinding(s) ==
  /\ call[s].at = "read"
  /\ LET id == link[call[s].on] IN
       \/ id = 0 /\ Goes(s, "find") /\ UNCHANGED holder
       \/ id # 0 /\ Matches(rows[id], s) /\ GoesWith(s, "reconcile", id) /\ UNCHANGED holder
       \/ id # 0 /\ ~Matches(rows[id], s) /\ Refused(s)
  /\ UNCHANGED <<link, rows, served, bridge>>

\* Any active entitlement of the subject with this tenant: findFirst names no order.
Owned(s) == {i \in DOMAIN rows : /\ rows[i].tenant = Cap(s).tenant
                                 /\ rows[i].user = bridge.subject[s]
                                 /\ rows[i].entitlement = "ACTIVE"}
OfProvider(i, s) == rows[i].status # "none" /\ rows[i].provider = Cap(s).provider

FindEntitlement(s) ==
  /\ call[s].at = "find"
  /\ \/ Closed("subscription") /\ Refused(s)
     \/ /\ ~Closed("subscription") /\ UNCHANGED holder
        /\ \/ \E i \in Owned(s) : OfProvider(i, s) /\ GoesWith(s, "relink", i)
           \/ /\ Owned(s) = {} \/ \E i \in Owned(s) : ~OfProvider(i, s)
              /\ Goes(s, "create")
  /\ UNCHANGED <<link, rows, served, bridge>>

\* A failing update of the link is swallowed.
Link(s) ==
  /\ call[s].at \in {"relink", "link"}
  /\ \/ link' = [link EXCEPT ![call[s].on] = call[s].id] /\ UNCHANGED bridge
     \/ bridge.faults > 0 /\ bridge' = [bridge EXCEPT !.faults = @ - 1] /\ UNCHANGED link
  /\ IF call[s].at = "relink" THEN Goes(s, "reconcile") /\ UNCHANGED served
     ELSE Answered(s, call[s].id)
  /\ UNCHANGED <<holder, rows>>

\* Without a row for the type of the capability, createEntitlement throws.
CreateEntitlement(s) ==
  /\ call[s].at = "create"
  /\ IF Cap(s).type \in CapabilityTypes
     THEN /\ rows' = Append(rows, Row(Cap(s).tenant, Unset, Cap(s).provider,
                                      "PENDING", "none", s))
          /\ GoesWith(s, "activate", Len(rows) + 1) /\ UNCHANGED holder
     ELSE Refused(s) /\ UNCHANGED rows
  /\ UNCHANGED <<link, served, bridge>>

TransitionEntitlement(s) ==
  /\ call[s].at = "activate"
  /\ rows' = [rows EXCEPT ![call[s].id].entitlement = "ACTIVE"]
  /\ Goes(s, "bind")
  /\ UNCHANGED <<link, holder, served, bridge>>

\* The instance of the capability must still be active.
CreateResourceBinding(s) ==
  /\ call[s].at = "bind"
  /\ \/ Closed("instance") /\ Refused(s) /\ UNCHANGED rows
     \/ /\ ~Closed("instance") /\ UNCHANGED holder
        /\ rows' = [rows EXCEPT ![call[s].id].status = "UNBOUND"] /\ Goes(s, "provision")
  /\ UNCHANGED <<link, served, bridge>>

-----------------------------------------------------------------------------

\* provisionBinding: resolving the runtime throws for an inactive instance; a claim is had
\* of an UNBOUND binding, and of a PROVISIONING one whose lease has passed.
Claimable(id) == rows[id].status \in {"UNBOUND", "PROVISIONING"}
Provisions(id, answer) ==
  \/ answer = "success" /\ ~Closed("instance") /\ Claimable(id)
     /\ rows' = [rows EXCEPT ![id].status = "BOUND"] /\ UNCHANGED bridge
  \/ answer = "failed" /\ ~Closed("instance") /\ Claimable(id) /\ bridge.faults > 0
     /\ rows' = [rows EXCEPT ![id].status = "FAILED"]
     /\ bridge' = [bridge EXCEPT !.faults = @ - 1]
  \/ answer = "failed" /\ Closed("instance") /\ UNCHANGED <<rows, bridge>>
  \/ answer = "claim_lost" /\ ~Closed("instance") /\ ~Claimable(id)
     /\ rows[id].status # "BOUND" /\ UNCHANGED <<rows, bridge>>
  \/ answer = "already_provisioned" /\ ~Closed("instance")
     /\ rows[id].status = "BOUND" /\ UNCHANGED <<rows, bridge>>

Provision(s) ==
  /\ call[s].at = "provision"
  /\ \E answer \in {"success", "failed", "claim_lost", "already_provisioned"} :
       /\ Provisions(call[s].id, answer)
       /\ IF answer \in {"success", "already_provisioned"}
          THEN Goes(s, "link") /\ UNCHANGED holder
          ELSE Refused(s)
  /\ UNCHANGED <<link, served>>

\* reconcileProvisioning: a BOUND row is healthy unasked. The bridge takes every answer but
\* "failed" for a binding that works, that of a lost claim included.
Reconciles(id, answer) ==
  \/ answer = "healthy" /\ rows[id].status = "BOUND" /\ UNCHANGED <<rows, bridge>>
  \/ answer \in {"success", "failed", "claim_lost"} /\ rows[id].status # "BOUND"
     /\ Provisions(id, answer)

Reconcile(s) ==
  /\ call[s].at = "reconcile"
  /\ \E answer \in {"healthy", "success", "failed", "claim_lost"} :
       /\ Reconciles(call[s].id, answer)
       /\ IF answer = "failed" THEN Refused(s) /\ UNCHANGED served
          ELSE Answered(s, call[s].id) /\ UNCHANGED holder
  /\ UNCHANGED link

MarkInUse(s) ==
  /\ call[s].at = "mark"
  /\ Goes(s, "verify")
  /\ UNCHANGED <<link, holder, rows, served, bridge>>

\* The resource is read again; what it names now is what is verified.
VerifyResourceUsable(s) ==
  /\ call[s].at = "verify"
  /\ LET id == link[call[s].on] IN
       \/ id = 0 /\ Refused(s) /\ UNCHANGED <<rows, bridge>>
       \/ /\ id # 0
          /\ \E answer \in {"healthy", "success", "failed", "claim_lost"} :
               /\ Reconciles(id, answer)
               /\ IF answer = "failed" THEN Refused(s)
                  ELSE Goes(s, "active") /\ UNCHANGED holder
  /\ UNCHANGED <<link, served>>

\* assertActiveConnectivityInvariant, of a session that is ACTIVE by now: whose the binding
\* is, and then the provider once more. A violation leaves the session as it is: its action
\* is to be reconciled.
ChainHolds(s) == LET id == link[call[s].on] IN
            id # 0 /\ holder[call[s].on] = s /\ Matches(rows[id], s) /\ call[s].id = id

CheckInvariant(s) ==
  /\ call[s].at = "active"
  /\ Goes(s, IF ChainHolds(s) THEN "owned" ELSE "disowned")
  /\ UNCHANGED <<link, holder, rows, served, bridge>>

VerifyInvariant(s) ==
  /\ call[s].at \in {"owned", "disowned"}
  /\ \E answer \in {"healthy", "success", "failed", "claim_lost"} :
       /\ Reconciles(link[call[s].on], answer)
       /\ Goes(s, IF call[s].at = "owned" /\ answer # "failed" THEN "succeeded"
                  ELSE "unreconciled")
  /\ UNCHANGED <<link, holder, served>>

Release(s) ==
  /\ call[s].at \in {"succeeded", "unreconciled"}
  /\ Refused(s)
  /\ UNCHANGED <<link, rows, served, bridge>>

-----------------------------------------------------------------------------

\* The tenant's operator moves a binding by hand.
StatusMoves(status) ==
  CASE status = "UNBOUND" -> {"PROVISIONING", "FAILED"}
    [] status = "PROVISIONING" -> {"BOUND", "FAILED"}
    [] status \in {"BOUND", "DEGRADED"} -> {"BOUND", "DEGRADED", "FAILED", "RELEASED"} \ {status}
    [] status = "FAILED" -> {"PROVISIONING", "RELEASED"}
    [] OTHER -> {}

OperatorMoves(id) ==
  /\ bridge.moves > 0
  /\ \E to \in StatusMoves(rows[id].status) : rows' = [rows EXCEPT ![id].status = to]
  /\ bridge' = [bridge EXCEPT !.moves = @ - 1]
  /\ UNCHANGED <<link, holder, call, served>>

\* The subscription ends, or the instance is disabled.
Closes(what) ==
  /\ bridge.moves > 0 /\ what \in bridge.open
  /\ bridge' = [bridge EXCEPT !.moves = @ - 1, !.open = @ \ {what}]
  /\ UNCHANGED <<link, holder, rows, call, served>>

Bridges(s) ==
  \/ \E r \in Resource : Reserve(s, r)
  \/ ReadBinding(s) \/ FindEntitlement(s) \/ Link(s) \/ CreateEntitlement(s)
  \/ TransitionEntitlement(s) \/ CreateResourceBinding(s) \/ Provision(s) \/ Reconcile(s)
  \/ MarkInUse(s) \/ VerifyResourceUsable(s)
  \/ CheckInvariant(s) \/ VerifyInvariant(s) \/ Release(s)

BridgeNext ==
  \/ \E s \in Seeker : Bridges(s)
  \/ \E id \in DOMAIN rows : OperatorMoves(id)
  \/ \E what \in {"subscription", "instance"} : Closes(what)

-----------------------------------------------------------------------------

BridgeTypeOK ==
  /\ link \in [Resource -> 0..Len(rows)]
  /\ holder \in [Resource -> Seeker \cup {Unset}]
  /\ \A s \in Seeker : call[s].on \in Resource \cup {Unset} /\ call[s].id \in 0..Len(rows)
  /\ served \subseteq Seeker \X (1..Len(rows))

Serves(id) == {s \in Seeker : <<s, id>> \in served}

\* From the update that makes the session ACTIVE until its resource is given back.
Standing == {"active", "owned", "disowned", "succeeded", "unreconciled"}
Account(s) == rows[link[call[s].on]]

\* Nobody uses another's account. The resource of an ACTIVE session is linked to a binding of
\* the tenant and the provider of its capability, and of the session's own subject or made
\* for this very session, without a user (entitlement.ts:231); what was made for one session
\* is never answered to a second; and an activation that succeeded has the subject's own.
\* Calls race for resources whose links outlive their holders, and an entitlement found by
\* one call may be linked by the next (kernel-bridge.ts:96, :195, :273).
OwnBinding ==
  /\ \A s \in Seeker : call[s].at \in Standing =>
       /\ link[call[s].on] # 0 /\ SameCap(Account(s), s)
       /\ Account(s).user = bridge.subject[s] \/ Account(s).by = s
  /\ \A s \in Seeker : call[s].at = "succeeded" => Account(s).user = bridge.subject[s]
  /\ \A id \in DOMAIN rows : rows[id].by # Unset => Cardinality(Serves(id)) <= 1

\* What invariant-checker.ts:9-12 says of every session that is ACTIVE, "binding.entitlement.
\* userId = session.subjectId": violated, by each binding that the bridge itself has made.
ActiveIsOwn ==
  \A s \in Seeker : call[s].at \in Standing =>
    link[call[s].on] # 0 /\ Matches(Account(s), s)
===============================================================================

------------------------------ MODULE IncidentLookup ------------------------------
(***************************************************************************)
(* What an incident's lookup answers (observability/incident-lookup.ts,     *)
(* called by app/api/v1/connectivity/incidents): from one identifier it      *)
(* finds the tenant, and if that is the caller's, the request, intent,        *)
(* decision, action, session, binding and provider operations around it.      *)
(* The tenant is found in one round of reads, the rest in later ones, and     *)
(* the control plane goes on writing meanwhile.                               *)
(*                                                                         *)
(* Rows of a kind are numbered in the order they were made; 0 is no row.      *)
(* Intents, requests and sessions keep to one tenant, as the rows of modules  *)
(* IntentEvents and SessionExecution do in the plans of this project.         *)
(***************************************************************************)
EXTENDS Naturals, Sequences, FiniteSets

CONSTANTS Chronicles,   \* the rows a behaviour may begin with, and the lookup it runs
          Unowned       \* the tenant of an intent from before tenants were recorded

VARIABLES book,         \* the rows
          look          \* the lookup: key, caller, and what it has found

incidentVars == <<book, look>>

Latest(rows) == IF rows = {} THEN 0 ELSE CHOOSE i \in rows : \A j \in rows : j <= i
Rows(kind, P(_)) == {i \in DOMAIN book[kind] : P(book[kind][i])}

NothingFound == [intent |-> 0, decision |-> 0, action |-> 0, session |-> 0, binding |-> 0,
                 ops |-> {}]

IncidentInitOf(plan) ==
  /\ book = plan.book
  /\ look = [key |-> plan.key, caller |-> plan.caller, grows |-> plan.grows,
             at |-> "resolve", found |-> NothingFound]

IncidentInit == \E plan \in Chronicles : IncidentInitOf(plan)

Key == look.key.kind
Value == look.key.value
DecisionRow(d) == book.decisions[d]
Done(a) == book.actions[a]

-----------------------------------------------------------------------------

(* Whose it is.                                                            *)

SessionTenant(s) == IF s = 0 THEN Unowned ELSE book.sessions[s].tenant

\* For an intent without a tenant: that of its last decision's session.
ResolveTenantViaDecisionChain(intent) ==
  LET d == Latest(Rows("decisions", LAMBDA row : row.intent = intent))
  IN IF d = 0 THEN Unowned ELSE SessionTenant(DecisionRow(d).session)

IntentTenant(i) ==
  IF book.intents[i].tenant # Unowned THEN book.intents[i].tenant
  ELSE ResolveTenantViaDecisionChain(book.intents[i].intent)

\* The intent row: the version that is asked for, or the last.
HighestVersion(rows) ==
  IF rows = {} THEN 0
  ELSE CHOOSE i \in rows : \A j \in rows : book.intents[j].version <= book.intents[i].version
OfRequest(request) == HighestVersion(Rows("intents", LAMBDA row : row.request = request))
OfIntent(intent, version) ==
  HighestVersion(Rows("intents", LAMBDA row :
    row.intent = intent /\ (version = 0 \/ row.version = version)))

AskedIntent == IF Key = "requestId" THEN OfRequest(Value)
               ELSE OfIntent(Value, look.key.version)

\* By its session; without one by the version it was made for.
DecisionTenant(d) ==
  LET ofSession == SessionTenant(DecisionRow(d).session)
      i == OfIntent(DecisionRow(d).intent, DecisionRow(d).version)
  IN IF ofSession # Unowned THEN ofSession
     ELSE IF i # 0 /\ book.intents[i].tenant # Unowned THEN book.intents[i].tenant
     ELSE ResolveTenantViaDecisionChain(DecisionRow(d).intent)

AskedBinding ==
  IF Key = "bindingId" THEN IF Value \in DOMAIN book.bindings THEN Value ELSE 0
  ELSE Latest(Rows("bindings", LAMBDA row : row.name = Value /\ row.tenant = look.caller))

ResolveTenantForKey ==
  CASE Key \in {"requestId", "intentId"} ->
         IF AskedIntent = 0 THEN Unowned ELSE IntentTenant(AskedIntent)
    [] Key = "decisionId" ->
         IF Value \in DOMAIN book.decisions THEN DecisionTenant(Value) ELSE Unowned
    [] Key = "actionId" ->
         IF Value \in DOMAIN book.actions THEN SessionTenant(Done(Value).session) ELSE Unowned
    [] Key \in {"bindingId", "providerResourceId"} ->
         IF AskedBinding = 0 THEN Unowned ELSE book.bindings[AskedBinding].tenant
    [] OTHER ->
         LET c == Latest(Rows("claims", LAMBDA row : row.key = Value))
         IN IF c = 0 THEN Unowned ELSE book.claims[c].tenant

\* No row, another's or nobody's: all the same "not found".
ResolveTenant ==
  /\ look.at = "resolve"
  /\ look' = [look EXCEPT !.at = IF ResolveTenantForKey = look.caller THEN "load" ELSE "absent"]
  /\ UNCHANGED book

-----------------------------------------------------------------------------

(* What there is of it.                                                    *)

\* The version the decision was made for. One that has none, from before versions were
\* recorded, takes the last when the decision itself was asked for.
LastIntentOf(d) == OfIntent(DecisionRow(d).intent, 0)
IntentOf(d) ==
  IF DecisionRow(d).version = 0 /\ Key # "decisionId" THEN 0
  ELSE OfIntent(DecisionRow(d).intent, DecisionRow(d).version)

ChainOf(intent, decision, action) ==
  [NothingFound EXCEPT !.intent = intent, !.decision = decision, !.action = action]

FromIntent ==
  LET i == AskedIntent
      d == Latest(Rows("decisions", LAMBDA row : row.intent = book.intents[i].intent))
  IN ChainOf(i, d, 0)
FromDecision(d) == ChainOf(IntentOf(d), d, 0)
FromAction(a) ==
  LET d == Done(a).decision IN ChainOf(IF d = 0 THEN 0 ELSE IntentOf(d), d, a)
\* The last session of the binding's entitlement, and its last action.
FromBinding(b) ==
  LET s == Latest(Rows("sessions", LAMBDA row : row.entitlement = book.bindings[b].entitlement))
      a == Latest(Rows("actions", LAMBDA row : s # 0 /\ row.session = s))
  IN IF a = 0 THEN NothingFound ELSE FromAction(a)

LoadChain ==
  CASE Key \in {"requestId", "intentId"} -> FromIntent
    [] Key = "decisionId" -> FromDecision(Value)
    [] Key = "actionId" -> FromAction(Value)
    [] Key \in {"bindingId", "providerResourceId"} -> FromBinding(AskedBinding)
    [] OTHER -> NothingFound

LoadIncident ==
  /\ look.at = "load"
  /\ look' = [look EXCEPT !.at = "action", !.found = LoadChain]
  /\ UNCHANGED book

\* The decision's last action in its session, if none was asked for; then the session, and
\* the binding of the resource the action was aimed at.
LoadAction ==
  /\ look.at = "action"
  /\ LET found == look.found
         d == found.decision
         a == IF found.action # 0 \/ d = 0 THEN found.action
              ELSE IF DecisionRow(d).session = 0 THEN 0
              ELSE Latest(Rows("actions", LAMBDA row :
                     row.session = DecisionRow(d).session /\ row.decision = d))
         s == IF a # 0 THEN Done(a).session ELSE IF d # 0 THEN DecisionRow(d).session ELSE 0
     IN look' = [look EXCEPT !.at = "operations", !.found.action = a, !.found.session = s,
                             !.found.binding = IF a = 0 THEN 0 ELSE Done(a).binding]
  /\ UNCHANGED book

\* Every operation that names one of these.
Correlated(op) ==
  LET found == look.found IN
  \/ /\ found.intent # 0
     /\ \/ op.intent = book.intents[found.intent].intent
        \/ op.request = book.intents[found.intent].request
  \/ found.action # 0 /\ op.action = found.action
  \/ found.decision # 0 /\ op.decision = found.decision
  \/ found.binding # 0 /\ op.binding = found.binding
  \/ Key = "providerKey" /\ op.key = Value

LoadOperations ==
  /\ look.at = "operations"
  /\ look' = [look EXCEPT !.at = "answered", !.found.ops = Rows("ops", Correlated)]
  /\ UNCHANGED book

-----------------------------------------------------------------------------

(* The control plane writes on: as many rows as the plan allows.           *)

Writes(kind, row) ==
  /\ look.at # "answered" /\ look.grows > 0
  /\ book' = [book EXCEPT ![kind] = Append(@, row)]
  /\ look' = [look EXCEPT !.grows = @ - 1]

Supersedes(i) ==
  /\ i = OfIntent(book.intents[i].intent, 0)
  /\ Writes("intents", [book.intents[i] EXCEPT !.version = @ + 1,
                                               !.request = Len(book.intents) + 1])
Decides(i) ==
  /\ i = OfIntent(book.intents[i].intent, 0)
  /\ \E s \in {0} \cup Rows("sessions", LAMBDA row : row.tenant = IntentTenant(i)) :
       Writes("decisions", [intent |-> book.intents[i].intent,
                            version |-> book.intents[i].version, session |-> s])
ActsOn(d) ==
  /\ DecisionRow(d).session # 0
  /\ \E b \in {0} \cup Rows("bindings", LAMBDA row :
                       row.tenant = SessionTenant(DecisionRow(d).session)) :
       Writes("actions", [session |-> DecisionRow(d).session, decision |-> d, binding |-> b])
Operates(a) ==
  LET d == Done(a).decision
      i == IF d = 0 THEN 0 ELSE OfIntent(DecisionRow(d).intent, DecisionRow(d).version)
  IN Writes("ops", [tenant |-> SessionTenant(Done(a).session), action |-> a, decision |-> d,
                    binding |-> Done(a).binding, key |-> 0,
                    intent |-> IF i = 0 THEN 0 ELSE book.intents[i].intent,
                    request |-> IF i = 0 THEN 0 ELSE book.intents[i].request])

IncidentNext ==
  \/ ResolveTenant \/ LoadIncident \/ LoadAction \/ LoadOperations
  \/ \E i \in DOMAIN book.intents : Supersedes(i) \/ Decides(i)
  \/ \E d \in DOMAIN book.decisions : ActsOn(d)
  \/ \E a \in DOMAIN book.actions : Operates(a)

-----------------------------------------------------------------------------

(* What a behaviour may begin with.                                        *)

Rowed == {"intents", "sessions", "bindings", "ops", "claims"}
Party == {plan.caller : plan \in Chronicles} \cup
  UNION {{plan.book[kind][n].tenant : n \in DOMAIN plan.book[kind]} :
           plan \in Chronicles, kind \in Rowed}
Books ==
  [intents : Seq([intent : Nat, version : Nat, request : Nat, tenant : Party]),
   decisions : Seq([intent : Nat, version : Nat, session : Nat]),
   sessions : Seq([tenant : Party, entitlement : Nat]),
   actions : Seq([session : Nat, decision : Nat, binding : Nat]),
   bindings : Seq([tenant : Party, name : Nat, entitlement : Nat]),
   ops : Seq([tenant : Party, action : Nat, decision : Nat, binding : Nat, key : Nat,
              intent : Nat, request : Nat]),
   claims : Seq([key : Nat, tenant : Party])]

Named(b) == {b.intents[i].intent : i \in DOMAIN b.intents}

\* owner gives each intent the tenant it is worked on for: the tenant of its versions, where
\* one is recorded, and of the sessions that its decisions were made in.
IntentsFit(b, owner) == \A i \in DOMAIN b.intents :
  LET row == b.intents[i] IN
  /\ row.intent \in DOMAIN owner /\ row.intent # 0 /\ row.request \in 1..Len(b.intents)
  /\ row.tenant \in {owner[row.intent], Unowned}
  /\ \A j \in DOMAIN b.intents :
       b.intents[j].request = row.request => b.intents[j].intent = row.intent
DecisionsFit(b, owner) == \A d \in DOMAIN b.decisions :
  LET row == b.decisions[d] IN
  /\ row.intent \in DOMAIN owner /\ row.session \in 0..Len(b.sessions)
  /\ row.session # 0 => b.sessions[row.session].tenant = owner[row.intent]

\* A session and a binding have a tenant, the same for all of an entitlement.
SessionsFit(b) ==
  /\ \A s \in DOMAIN b.sessions : b.sessions[s].tenant # Unowned
  /\ \A n \in DOMAIN b.bindings : b.bindings[n].tenant # Unowned
  /\ \A s \in DOMAIN b.sessions, n \in DOMAIN b.bindings :
       b.sessions[s].entitlement = b.bindings[n].entitlement =>
         b.sessions[s].tenant = b.bindings[n].tenant

\* An action keeps to the tenant of its session, an operation to that of what it names.
ActionFits(b, owner, row) ==
  LET tenant == b.sessions[row.session].tenant IN
  /\ row.session \in DOMAIN b.sessions
  /\ row.decision \in 0..Len(b.decisions) /\ row.binding \in 0..Len(b.bindings)
  /\ row.decision # 0 => owner[b.decisions[row.decision].intent] = tenant
  /\ row.binding # 0 => b.bindings[row.binding].tenant = tenant
OpFits(b, owner, row) ==
  /\ row.intent # 0 => row.intent \in DOMAIN owner /\ owner[row.intent] = row.tenant
  /\ row.request \in 0..Len(b.intents)
  /\ \A i \in DOMAIN b.intents :
       b.intents[i].request = row.request => owner[b.intents[i].intent] = row.tenant
  /\ row.action # 0 => /\ row.action \in DOMAIN b.actions
                       /\ b.sessions[b.actions[row.action].session].tenant = row.tenant
  /\ row.decision # 0 => /\ row.decision \in DOMAIN b.decisions
                         /\ owner[b.decisions[row.decision].intent] = row.tenant
  /\ row.binding # 0 => /\ row.binding \in DOMAIN b.bindings
                        /\ b.bindings[row.binding].tenant = row.tenant
  /\ row.key # 0 => \A c \in DOMAIN b.claims :
       b.claims[c].key = row.key => b.claims[c].tenant = row.tenant
BookFits(b, owner) ==
  /\ IntentsFit(b, owner) /\ DecisionsFit(b, owner) /\ SessionsFit(b)
  /\ \A a \in DOMAIN b.actions : ActionFits(b, owner, b.actions[a])
  /\ \A o \in DOMAIN b.ops : OpFits(b, owner, b.ops[o])
  /\ \A c \in DOMAIN b.claims : b.claims[c].key # 0

\* The rows are those of tenants that keep to themselves.
ASSUME IncidentAssumption == \A plan \in Chronicles :
  /\ plan.book \in Books
  /\ \E owner \in [Named(plan.book) -> Party \ {Unowned}] : BookFits(plan.book, owner)
  /\ plan.key \in [kind : {"requestId", "intentId", "decisionId", "actionId", "bindingId",
                           "providerResourceId", "providerKey"}, value : Nat, version : Nat]
  /\ plan.caller # Unowned /\ plan.grows \in Nat

IncidentSpec == IncidentInit /\ [][IncidentNext]_incidentVars

-----------------------------------------------------------------------------

\* An answer is one incident of the caller's, though rows are written between its reads:
\* every row in it is of the caller's tenant, or an intent of nobody's; an intent beside a
\* decision that was asked for, or reached from an action, is the very version that was
\* decided, not a later one; the action is the decision's, the session the action's
\* (incident-lookup.ts:16-37).
OneIncident ==
  look.at = "answered" =>
    LET found == look.found  i == found.intent  d == found.decision  a == found.action IN
    /\ i # 0 => book.intents[i].tenant \in {look.caller, Unowned}
    /\ found.session # 0 => SessionTenant(found.session) = look.caller
    /\ found.binding # 0 => book.bindings[found.binding].tenant = look.caller
    /\ \A o \in found.ops : book.ops[o].tenant = look.caller
    /\ i # 0 /\ d # 0 => book.intents[i].intent = DecisionRow(d).intent
    /\ i # 0 /\ d # 0 /\ DecisionRow(d).version # 0 /\ Key \notin {"requestId", "intentId"} =>
         book.intents[i].version = DecisionRow(d).version
    /\ a # 0 => found.session = Done(a).session /\ (d # 0 => Done(a).decision = d)
===============================================================================

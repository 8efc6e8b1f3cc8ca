---------------------------- MODULE ProviderAccess ----------------------------
(***************************************************************************)
(* How a router is reached: the cron job that probes the resources of      *)
(* sessions in use, and the recovery that asks for one binding, read the   *)
(* resource, the binding and the provider instance one after the other and *)
(* take a client from the process's cache; meanwhile the tenant edits,     *)
(* disables and adds instances and sessions move.                          *)
(*                                                                         *)
(* Source: src/src/lib/control-plane/observation.ts, connectivity/registry,*)
(* resolveBindingRuntime of connectivity/entitlement.ts, getUsage of the   *)
(* MikroTik adapter with its client-factory, and app/api/connectivity.     *)
(* What becomes of a measurement is ConnectivityDecision; what of a        *)
(* recovery's answer, OperationRecovery. An instance is the sequence of its *)
(* row's versions: the last is in force, and their number is its updatedAt. *)
(***************************************************************************)
EXTENDS Naturals, Sequences, FiniteSets

CONSTANTS Work,         \* calls that may run at once
          AccessRoutes, \* what a behaviour may begin with
          Registered,   \* provider types with an adapter
          Secret        \* configuration keys that name credentials in the environment

\* A binding names an instance of its own tenant, or none; resources name bindings, and sessions
\* resources.
ASSUME RouteAssumption ==
  /\ AccessRoutes # {}
  /\ \A plan \in AccessRoutes :
       /\ plan.instances \in Seq({plan.instances[i] : i \in DOMAIN plan.instances})
       /\ \A i \in DOMAIN plan.instances :
            DOMAIN plan.instances[i] = {"tenant", "type", "key", "status"}
       /\ \A b \in DOMAIN plan.bound : plan.bound[b].inst # 0 =>
            /\ plan.bound[b].inst \in DOMAIN plan.instances
            /\ plan.instances[plan.bound[b].inst].tenant = plan.bound[b].tenant
       /\ \A r \in DOMAIN plan.uses : plan.uses[r] = 0 \/ plan.uses[r] \in DOMAIN plan.bound
       /\ IsFiniteSet(DOMAIN plan.seats)
       /\ \A s \in DOMAIN plan.seats : plan.seats[s].on \in DOMAIN plan.uses \cup {0}
       /\ \A w \in Work :
            /\ plan.does[w].kind = "recover" => plan.does[w].binding \in DOMAIN plan.bound
            /\ plan.does[w].kind = "move" => plan.does[w].on \in DOMAIN plan.uses \cup {0}
            /\ plan.does[w].kind = "add" =>
                 DOMAIN plan.does[w].row = {"tenant", "type", "key", "status"}

VARIABLES instances, clients, bound, uses, seats, fresh, work, asked

routeVars == <<instances, clients, bound, uses, seats, fresh, work, asked>>

InForce(i) == instances[i][Len(instances[i])]
HasAdapter(type) == type \in Registered
Resolves(row) == row.key \in Secret

RouteInitOf(plan) ==
  /\ instances = [i \in DOMAIN plan.instances |-> <<plan.instances[i]>>]
  /\ bound = plan.bound       \* bindings: type, instance, id at the provider (or 0), tenant
  /\ uses = plan.uses         \* resources: the binding of each, or 0
  /\ seats = plan.seats       \* sessions: state and resource
  /\ fresh = plan.fresh       \* resources whose stored health is neither EXPIRED nor UNKNOWN
  /\ clients = {}             \* the process's cache
  /\ asked = {}               \* calls routers have got
  /\ work = [w \in Work |->
       [does |-> plan.does[w], at |-> "begin", pass |-> 1, todo |-> {}, probed |-> {},
        tried |-> << >>, listed |-> {}, stays |-> {}, target |-> 0, binding |-> 0,
        type |-> "", since |-> 0, row |-> [key |-> "", stamp |-> 0], client |-> ""]]

RouteInit == \E plan \in AccessRoutes : RouteInitOf(plan)

-----------------------------------------------------------------------------
(* The rounds of the cron job: the sessions whose resource's health is stale*)
(* first, then the others but those on resources probed already.           *)

Working(w, kind, at) == work[w].does.kind = kind /\ work[w].at = at
WorkAt(w, at) == work' = [work EXCEPT ![w].at = at]

InUse(states) == {<<s, seats[s].on>> : s \in {t \in DOMAIN seats :
                    seats[t].state \in states /\ seats[t].on # 0}}

ListStale(w) ==
  /\ Working(w, "cron", "begin")
  /\ LET all == InUse({"ACTIVE", "DEGRADED"}) IN
     work' = [work EXCEPT ![w].todo = all, ![w].listed = all, ![w].stays = all, ![w].at = "next"]
  /\ UNCHANGED <<instances, clients, bound, uses, seats, fresh, asked>>

\* The order the database lists sessions in is any.
Probes(w, x) ==
  work' = [work EXCEPT ![w].todo = @ \ {x}, ![w].target = x[2], ![w].at = "resource",
                       ![w].tried = Append(@, x[2]), ![w].probed = @ \cup {x[2]}]
CheckStale(w) ==
  /\ Working(w, "cron", "next") /\ work[w].pass = 1
  /\ \E x \in work[w].todo :
       IF x[2] \in fresh THEN work' = [work EXCEPT ![w].todo = @ \ {x}] ELSE Probes(w, x)
  /\ UNCHANGED <<instances, clients, bound, uses, seats, fresh, asked>>

ListAll(w) == InUse({"ACTIVE", "DEGRADED"})      \* mutants
ListStaleOnly(w) == {x \in InUse({"ACTIVE", "DEGRADED"}) : x[2] \notin fresh}
ListOthers(w) == {x \in InUse({"ACTIVE", "DEGRADED"}) : x[2] \notin work[w].probed}
BeginOthers(w) ==
  /\ Working(w, "cron", "next") /\ work[w].pass = 1 /\ work[w].todo = {}
  /\ work' = [work EXCEPT ![w].pass = 2, ![w].todo = ListOthers(w),
                          ![w].listed = @ \cup ListOthers(w)]
  /\ UNCHANGED <<instances, clients, bound, uses, seats, fresh, asked>>
NextOther(w) ==
  /\ Working(w, "cron", "next") /\ work[w].pass = 2
  /\ \/ \E x \in work[w].todo : Probes(w, x)
     \/ work[w].todo = {} /\ WorkAt(w, "done")
  /\ UNCHANGED <<instances, clients, bound, uses, seats, fresh, asked>>

-----------------------------------------------------------------------------
(* One probe, or one recovery.                                             *)

\* A probe without an answer ends quietly, an error outside of getUsage ends the whole run.
Ended(w) == IF work[w].does.kind = "cron" THEN "next" ELSE "done"
MayAnswer(w) == IF work[w].does.kind = "cron" THEN {"next", "ingest"} ELSE {"done"}

ReadResource(w) ==
  /\ Working(w, "cron", "resource")
  /\ LET b == uses[work[w].target] IN
     work' = [work EXCEPT ![w].binding = b, ![w].at = IF b = 0 THEN "next" ELSE "binding"]
  /\ UNCHANGED <<instances, clients, bound, uses, seats, fresh, asked>>

BeginRecovery(w) ==
  /\ Working(w, "recover", "begin")
  /\ work' = [work EXCEPT ![w].binding = work[w].does.binding, ![w].at = "binding"]
  /\ UNCHANGED <<instances, clients, bound, uses, seats, fresh, asked>>

ResolveBindingAdapter(w) ==
  /\ work[w].at = "binding"
  /\ LET type == bound[work[w].binding].type IN
     work' = [work EXCEPT ![w].type = type,
                          ![w].at = CASE ~HasAdapter(type) -> "thrown"
                                      [] work[w].does.kind = "recover" -> "runtime"
                                      [] OTHER -> "usage"]
  /\ UNCHANGED <<instances, clients, bound, uses, seats, fresh, asked>>

\* resolveBindingRuntime: only a recovery refuses by tenant.
ResolveBindingRuntime(w) ==
  /\ work[w].at = "runtime"
  /\ LET b == bound[work[w].binding]
         usable == /\ b.inst \in DOMAIN instances
                   /\ InForce(b.inst).tenant = b.tenant /\ InForce(b.inst).type = b.type
                   /\ InForce(b.inst).status = "active"
     IN WorkAt(w, IF usable \/ b.inst = 0 THEN "usage" ELSE "thrown")
  /\ UNCHANGED <<instances, clients, bound, uses, seats, fresh, asked>>

\* The binding as the adapter is handed it.
BindingInput(w) == bound[work[w].binding]

\* The MikroTik adapter; another asks no router.
GetUsage(w) ==
  /\ work[w].at = "usage"
  /\ LET b == BindingInput(w) IN
     IF b.id = 0 \/ b.inst = 0 THEN WorkAt(w, Ended(w))
     ELSE IF work[w].type # "mikrotik" THEN \E at \in MayAnswer(w) : WorkAt(w, at)
     ELSE work' = [work EXCEPT ![w].since = Len(instances[b.inst]), ![w].at = "instance"]
  /\ UNCHANGED <<instances, clients, bound, uses, seats, fresh, asked>>

ReadInstance(w) ==
  /\ work[w].at = "instance"
  /\ LET i == BindingInput(w).inst IN
     IF InForce(i).type = "mikrotik" /\ InForce(i).status = "active"
     THEN work' = [work EXCEPT ![w].row = [key |-> InForce(i).key, stamp |-> Len(instances[i])],
                               ![w].at = "secret"]
     ELSE WorkAt(w, Ended(w))
  /\ UNCHANGED <<instances, clients, bound, uses, seats, fresh, asked>>

FingerprintByName(row) == << >>                 \* mutant
Fingerprint(row) == <<row.key, row.stamp>>

\* When the secrets have come: the client of this very row, or one that takes the place of
\* all of its instance.
ResolveClient(w) ==
  /\ work[w].at = "secret"
  /\ LET row == work[w].row
         i == BindingInput(w).inst
         hit == {c \in clients : c.inst = i /\ c.print = Fingerprint(row)}
     IN IF ~Resolves(row)
        THEN WorkAt(w, Ended(w)) /\ UNCHANGED clients
        ELSE \E c \in IF hit # {} THEN hit
                      ELSE {[inst |-> i, print |-> Fingerprint(row), key |-> row.key]} :
               /\ work' = [work EXCEPT ![w].client = c.key, ![w].at = "ask"]
               /\ clients' = IF hit # {} THEN clients
                             ELSE {d \in clients : d.inst # i} \cup {c}
  /\ UNCHANGED <<instances, bound, uses, seats, fresh, asked>>

AskRouter(w) ==
  /\ work[w].at = "ask"
  /\ asked' = asked \cup {[binding |-> work[w].binding, key |-> work[w].client,
                           since |-> work[w].since]}
  /\ \E at \in MayAnswer(w) : WorkAt(w, at)
  /\ UNCHANGED <<instances, clients, bound, uses, seats, fresh>>

ProbeAndIngest(w) ==
  /\ work[w].at = "ingest"
  /\ fresh' = fresh \cup {work[w].target}
  /\ WorkAt(w, "next")
  /\ UNCHANGED <<instances, clients, bound, uses, seats, asked>>

-----------------------------------------------------------------------------

\* POST, PATCH and DELETE of instances, the last two for a row of the caller's tenant only.
CreateProviderInstance(w) ==
  /\ Working(w, "add", "begin")
  /\ instances' = Append(instances, <<[work[w].does.row EXCEPT !.status = "active"]>>)
  /\ WorkAt(w, "done")
  /\ UNCHANGED <<clients, bound, uses, seats, fresh, asked>>
EditInstance(w) ==
  /\ Working(w, "edit", "begin")
  /\ LET does == work[w].does IN
     instances' = IF does.inst \notin DOMAIN instances \/ InForce(does.inst).tenant # does.tenant
                  THEN instances
                  ELSE [instances EXCEPT ![does.inst] =
                          Append(@, [InForce(does.inst) EXCEPT !.key = does.key, !.status = does.status])]
  /\ WorkAt(w, "done")
  /\ UNCHANGED <<clients, bound, uses, seats, fresh, asked>>

\* A session moves, once for each entry of the plan; a round in progress takes note that
\* the session did not stay.
SessionMoves(w) ==
  /\ Working(w, "move", "begin")
  /\ LET does == work[w].does IN
     /\ seats' = [seats EXCEPT ![does.session] = [state |-> does.state, on |-> does.on]]
     /\ work' = [v \in Work |->
          IF v = w THEN [work[v] EXCEPT !.at = "done"]
          ELSE [work[v] EXCEPT !.stays = {x \in @ : x[1] # does.session}]]
  /\ UNCHANGED <<instances, clients, bound, uses, fresh, asked>>

WorkStep(w) ==
  \/ ListStale(w) \/ CheckStale(w) \/ BeginOthers(w) \/ NextOther(w)
  \/ ReadResource(w) \/ BeginRecovery(w) \/ ResolveBindingAdapter(w) \/ ResolveBindingRuntime(w)
  \/ GetUsage(w) \/ ReadInstance(w) \/ ResolveClient(w) \/ AskRouter(w) \/ ProbeAndIngest(w)
  \/ CreateProviderInstance(w) \/ EditInstance(w) \/ SessionMoves(w)

RouteNext == \E w \in Work : WorkStep(w)

-----------------------------------------------------------------------------

\* Whoever resolves a client while the instance is edited, disabled and used by others that
\* evict or share clients: a router is asked with credentials that some version of the
\* binding's own instance named, an active one, no older than the one in force when the
\* call began to resolve it; and the instance is of the tenant whose binding it serves.
ClientIsCurrent ==
  \A a \in asked : LET i == bound[a.binding].inst IN
    /\ \E n \in a.since..Len(instances[i]) :
         instances[i][n].key = a.key /\ instances[i][n].status = "active"
    /\ InForce(i).tenant = bound[a.binding].tenant

\* A round that ends has probed the resource of every session that stayed on it, and none
\* more often than it found sessions on it, however sessions and readings move meanwhile.
RoundIsComplete ==
  \A w \in Work : Working(w, "cron", "done") =>
    /\ \A x \in work[w].stays : x[2] \in work[w].probed
    /\ \A r \in work[w].probed :
         Cardinality({k \in DOMAIN work[w].tried : work[w].tried[k] = r})
           <= Cardinality({x \in work[w].listed : x[2] = r})

RoutersAreAsked == ClientIsCurrent /\ RoundIsComplete
===============================================================================

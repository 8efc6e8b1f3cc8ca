--------------------------- MODULE ConnectivityView ---------------------------
(***************************************************************************)
(* What a user is shown of the connectivity: the newest session, the       *)
(* invariant that an ACTIVE one has to meet, the health of the resource    *)
(* and the readings behind it, each read on its own while sessions switch  *)
(* and end and health is derived anew.                                     *)
(*                                                                         *)
(* Source: src/src/lib/control-plane/current-connectivity.ts and           *)
(* invariant-checker.ts. The executor is SessionExecution's, without its   *)
(* claims: here one call moves a session at a time. A resource is linked   *)
(* to one binding for good (KernelBridge). What is not whose: its tenant,  *)
(* its kind and what the provider says of it, is any answer.               *)
(***************************************************************************)
EXTENDS Naturals, Sequences

CONSTANTS
  Viewer,     \* requests of the read model
  ViewPlans   \* sessions, resources and the bounds of a behaviour

\* Sessions and resources are not 0, and a session that stands uses what it is on.
ASSUME ViewAssumption ==
  /\ ViewPlans # {}
  /\ \A plan \in ViewPlans :
       /\ 0 \notin DOMAIN plan.sits /\ DOMAIN plan.bond = DOMAIN plan.slots
       /\ \A s \in DOMAIN plan.sits :
            /\ DOMAIN plan.sits[s] = {"owner", "state", "was", "on", "to", "step"}
            /\ plan.sits[s].step = "still"
            /\ plan.sits[s].state \in {"ACTIVE", "DEGRADED", "SWITCHING"} =>
                 /\ plan.sits[s].on \in DOMAIN plan.slots
                 /\ plan.slots[plan.sits[s].on] = [state |-> "IN_USE", by |-> s]

VARIABLES
  sits,    \* the sessions, oldest first: owner, state, resource; the executor's step and target
  slots,   \* per resource: state and reservedBy (0: nobody)
  bond,    \* per resource: the user of its binding's entitlement (0: the bridge made it, for none)
  gauge,   \* per resource: the measurement its health row was derived from (0: no row)
  taken,   \* the measurements, each the resource it is of
  views,   \* per request: program counter, what it read and what it will show
  sound,   \* history: requests during which the session stood ACTIVE on what it uses and owns
  vwLeft   \* bounds left: switches, releases, readings, requests

viewVars == <<sits, slots, bond, gauge, taken, views, sound, vwLeft>>

Fresh == [pc |-> "idle", s |-> 0, on |-> 0, looks |-> 0, whose |-> 0, shows |-> "none",
          row |-> 0, metrics |-> 0, skipped |-> FALSE]

ViewInitOf(plan) ==
  /\ sits = plan.sits /\ slots = plan.slots /\ bond = plan.bond
  /\ gauge = [r \in DOMAIN plan.slots |-> 0] /\ taken = << >>
  /\ views = [v \in Viewer |-> Fresh] /\ sound = {}
  /\ vwLeft = plan.bounds

ViewInit == \E plan \in ViewPlans : ViewInitOf(plan)

Costs(what) == vwLeft[what] > 0 /\ vwLeft' = [vwLeft EXCEPT ![what] = @ - 1]
Uses(s, r) == r \in DOMAIN slots /\ slots[r] = [state |-> "IN_USE", by |-> s]
Shown(v) == views[v]

\* An ACTIVE session and the resource it uses, of an account of its own, at one moment.
Chain(v) == LET s == views[v].s IN
            /\ s \in DOMAIN sits /\ sits[s].state = "ACTIVE" /\ Uses(s, sits[s].on)
            /\ bond[sits[s].on] = sits[s].owner
Witness == /\ UNCHANGED bond
           /\ sound' = {v \in Viewer : /\ views'[v].pc # "idle"
                                       /\ v \in sound \/ Chain(v)'}

-----------------------------------------------------------------------------
(* The executor.                                                           *)

Sits(s, changes) ==
  sits' = [sits EXCEPT ![s] = [f \in DOMAIN @ |-> IF f \in DOMAIN changes THEN changes[f]
                                                                           ELSE @[f]]]
Step(s, now, next) == sits[s].step = now /\ Sits(s, [step |-> next])
Puts(r, state, by) == slots' = [slots EXCEPT ![r] = [state |-> state, by |-> by]]
Health == <<gauge, taken, views>>

BeginSwitch(s, r) ==
  /\ sits[s].step = "still" /\ sits[s].state \in {"ACTIVE", "DEGRADED"} /\ r # sits[s].on
  /\ Costs("switches")
  /\ Sits(s, [step |-> "reserve", state |-> "SWITCHING", was |-> sits[s].state, to |-> r])
  /\ UNCHANGED <<slots, Health>>

ReserveForSwitch(s) ==
  /\ sits[s].step = "reserve"
  /\ IF slots[sits[s].to].state = "AVAILABLE"
       THEN Puts(sits[s].to, "RESERVED", s) /\ Sits(s, [step |-> "use"])
       ELSE UNCHANGED slots /\ Sits(s, [step |-> "still", state |-> sits[s].was])
  /\ UNCHANGED <<Health, vwLeft>>

\* The bridge takes no other's account, but makes one where there is none.
UseTarget(s) ==
  /\ Step(s, "use", "stand") /\ bond[sits[s].to] \in {0, sits[s].owner}
  /\ Puts(sits[s].to, "IN_USE", s)
  /\ UNCHANGED <<Health, vwLeft>>

\* The bridge refuses, or the provider does not say that the target is usable.
GiveTargetUp(s) ==
  /\ sits[s].step \in {"use", "stand"} /\ Puts(sits[s].to, "AVAILABLE", 0)
  /\ Sits(s, [step |-> "still", state |-> sits[s].was])
  /\ UNCHANGED <<Health, vwLeft>>

StandOnTarget(s) ==
  /\ sits[s].step = "stand"
  /\ Sits(s, [step |-> "activate", on |-> sits[s].to, to |-> sits[s].on])
  /\ UNCHANGED <<slots, Health, vwLeft>>

EndSwitch(s) ==
  /\ sits[s].step = "activate" /\ Sits(s, [step |-> "let go", state |-> "ACTIVE"])
  /\ UNCHANGED <<slots, Health, vwLeft>>

LetOldGo(s) ==
  /\ Step(s, "let go", "still")
  /\ IF Uses(s, sits[s].to) THEN Puts(sits[s].to, "AVAILABLE", 0) ELSE UNCHANGED slots
  /\ UNCHANGED <<Health, vwLeft>>

SuspendOrResume(s) ==
  /\ sits[s].step = "still" /\ Costs("switches")
  /\ \/ sits[s].state = "ACTIVE" /\ Sits(s, [state |-> "DEGRADED"])
     \/ sits[s].state = "DEGRADED" /\ Sits(s, [state |-> "ACTIVE"])
  /\ UNCHANGED <<slots, Health>>

\* The resource is given back first.
ReleaseSession(s) ==
  /\ Step(s, "still", "end") /\ sits[s].state \in {"ACTIVE", "DEGRADED"} /\ Costs("releases")
  /\ IF Uses(s, sits[s].on) THEN Puts(sits[s].on, "AVAILABLE", 0) ELSE UNCHANGED slots
  /\ UNCHANGED Health

EndSession(s) ==
  /\ sits[s].step = "end" /\ Sits(s, [step |-> "ended", state |-> "ENDED"])
  /\ UNCHANGED <<slots, Health, vwLeft>>

-----------------------------------------------------------------------------
(* Health: a reading is stored, then the row derived, maybe from an older.  *)

StoreReading(r) ==
  /\ Costs("readings") /\ taken' = Append(taken, r)
  /\ UNCHANGED <<sits, slots, gauge, views>>

PersistHealth(r) ==
  /\ \E m \in DOMAIN taken : taken[m] = r /\ m # gauge[r] /\ gauge' = [gauge EXCEPT ![r] = m]
  /\ UNCHANGED <<sits, slots, taken, views, vwLeft>>

-----------------------------------------------------------------------------
(* getCurrentConnectivityForUser.                                          *)

World == <<sits, slots, gauge, taken>>
Notes(v, changes) ==
  views' = [views EXCEPT ![v] = [f \in DOMAIN @ |-> IF f \in DOMAIN changes THEN changes[f]
                                                                             ELSE @[f]]]
Visible == {"ACTIVE", "DEGRADED", "SWITCHING", "RESERVED", "DISCOVERING"}
NewestOf(user) ==
  {s \in DOMAIN sits : /\ sits[s].owner = user /\ sits[s].state \in Visible
                       /\ \A t \in DOMAIN sits :
                            sits[t].owner = user /\ sits[t].state \in Visible => t <= s}

FindSession(v) ==
  /\ views[v].pc = "idle" /\ Costs("requests")
  /\ \E user \in {sits[s].owner : s \in DOMAIN sits} : \E s \in NewestOf(user) :
       Notes(v, [pc |-> IF sits[s].state = "ACTIVE" THEN "session" ELSE "health",
                 s |-> s, on |-> sits[s].on, shows |-> sits[s].state])
  /\ UNCHANGED World

\* The checker reads the session again, and has nothing to say of one that left ACTIVE.
CheckSession(v) ==
  LET now == sits[Shown(v).s] IN
  /\ views[v].pc = "session"
  /\ CASE now.state # "ACTIVE"            -> Notes(v, [pc |-> "health", skipped |-> TRUE])
       [] now.state = "ACTIVE" /\ now.on = 0 ->
            Notes(v, [pc |-> "health", shows |-> "RECONCILIATION_REQUIRED"])
       [] OTHER ->
            Notes(v, [pc |-> "chain", looks |-> now.on, whose |-> now.owner])
  /\ UNCHANGED <<World, vwLeft>>

\* The rest: tenant, kind, entitlement and provider.
Concludes(v, holds) ==
  \E rest \in BOOLEAN :
    Notes(v, [pc |-> "health", shows |-> IF holds /\ rest THEN "ACTIVE"
                                         ELSE "RECONCILIATION_REQUIRED"])

CheckChain(v) ==
  /\ views[v].pc = "chain"
  /\ Concludes(v, Uses(Shown(v).s, Shown(v).looks) /\ bond[Shown(v).looks] = Shown(v).whose)
  /\ UNCHANGED <<World, vwLeft>>

ReadHealth(v) ==
  LET r == Shown(v).on
      row == IF r \in DOMAIN gauge THEN gauge[r] ELSE 0 IN
  /\ views[v].pc = "health"
  /\ Notes(v, [pc |-> IF row = 0 THEN "done" ELSE "metrics", row |-> row])
  /\ UNCHANGED <<World, vwLeft>>

ReadMetrics(v) ==
  /\ views[v].pc = "metrics" /\ Notes(v, [pc |-> "done", metrics |-> Shown(v).row])
  /\ UNCHANGED <<World, vwLeft>>

AnswerView(v) ==
  /\ views[v].pc = "done" /\ views' = [views EXCEPT ![v] = Fresh]
  /\ UNCHANGED <<World, vwLeft>>

-----------------------------------------------------------------------------

ViewNext ==
  /\ \/ \E s \in DOMAIN sits :
          \/ \E r \in DOMAIN slots : BeginSwitch(s, r)
          \/ ReserveForSwitch(s) \/ UseTarget(s) \/ GiveTargetUp(s)
          \/ StandOnTarget(s) \/ EndSwitch(s) \/ LetOldGo(s) \/ SuspendOrResume(s)
          \/ ReleaseSession(s) \/ EndSession(s)
     \/ \E r \in DOMAIN slots : StoreReading(r) \/ PersistHealth(r)
     \/ \E v \in Viewer : \/ FindSession(v) \/ CheckSession(v) \/ CheckChain(v)
                          \/ ReadHealth(v) \/ ReadMetrics(v) \/ AnswerView(v)
  /\ Witness

ViewSpec == ViewInit /\ [][ViewNext]_viewVars

-----------------------------------------------------------------------------
(* Properties.                                                             *)

\* A session is shown ACTIVE only if, at some moment of the request, it stood ACTIVE on a
\* resource that it used, with an account of its own user, although session, resource and
\* provider are read apart ("Broken session/resource/provider convergence cannot be presented
\* as clean ACTIVE", current-connectivity.ts:75). Excepted is a session that left ACTIVE between the two
\* reads of it, of which the checker says nothing. The readings shown are those the shown
\* health was derived from, and of the resource shown.
ViewIsTrue ==
  \A v \in Viewer : views[v].pc = "done" =>
    /\ Shown(v).shows = "ACTIVE" => v \in sound \/ Shown(v).skipped
    /\ Shown(v).metrics = Shown(v).row
    /\ Shown(v).row # 0 => taken[Shown(v).row] = Shown(v).on
===============================================================================

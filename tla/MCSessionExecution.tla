-------------------------- MODULE MCSessionExecution --------------------------
(* Values for the constants of SessionExecution. *)
EXTENDS SessionExecution

CONSTANTS s1, s2, r1, r2, r3, d1, d2

Row(api, session, type, target) ==
  [api |-> api, session |-> session, type |-> type, target |-> target]

\* The row of a decision that is not to be executed.
Nothing == Row(FALSE, s2, "ACTIVATE", r3)

Bounds(lapses, crashes, faults, pump) ==
  [lapses |-> lapses, crashes |-> crashes, faults |-> faults, pump |-> pump]

\* d1 is a decision, d2 a decision or an action of the API; s1 starts in
\* `state` on `active`, s2 not started.
Plan(row1, row2, state, active, bounds) ==
  [jobs   |-> [j \in Job |-> IF j = d1 THEN row1 ELSE row2],
   state  |-> [s \in Session |-> IF s = s1 THEN state ELSE "PLANNED"],
   active |-> [s \in Session |-> IF s = s1 THEN active ELSE None],
   decision |-> [j \in Job |-> IF j = d2 /\ row2 = Nothing THEN "SKIPPED" ELSE "PENDING"],
   bounds |-> bounds]

\* A first activation and a switch away from it.
ActivateAndSwitch(b) ==
  Plan(Row(FALSE, s1, "ACTIVATE", r1), Row(FALSE, s1, "SWITCH", r2), "PLANNED", None, b)
\* "Two concurrent SWITCH decisions for the same session (A->B and A->C)".
TwoSwitches(b) ==
  Plan(Row(FALSE, s1, "SWITCH", r2), Row(FALSE, s1, "SWITCH", r3), "ACTIVE", r1, b)
\* One switch, executed by several processes.
OneSwitch(b) ==
  Plan(Row(FALSE, s1, "SWITCH", r2), Nothing, "ACTIVE", r1, b)
\* Two sessions want the same resource.
TwoSessions(b) ==
  Plan(Row(FALSE, s1, "SWITCH", r2), Row(FALSE, s2, "ACTIVATE", r2), "DEGRADED", r1, b)
\* A switch while the API does something to the session.
WithApi(type, state, b) ==
  Plan(Row(FALSE, s1, "SWITCH", r2), Row(TRUE, s1, type, r3), state, r1, b)

\* Two decisions taken before either was executed.
TwoActivations(b) ==
  Plan(Row(FALSE, s1, "ACTIVATE", r1), Row(FALSE, s1, "ACTIVATE", r2), "PLANNED", None, b)

Workers ==
  {ActivateAndSwitch(Bounds(1, 0, 0, FALSE)), TwoSwitches(Bounds(1, 0, 0, FALSE)),
   TwoSwitches(Bounds(0, 0, 1, FALSE)), TwoSessions(Bounds(0, 0, 1, FALSE)),
   TwoActivations(Bounds(0, 0, 0, FALSE)),
   OneSwitch(Bounds(1, 1, 0, FALSE)), OneSwitch(Bounds(0, 1, 0, TRUE)),
   WithApi("RELEASE", "ACTIVE", Bounds(0, 0, 0, FALSE)),
   WithApi("SWITCH", "ACTIVE", Bounds(0, 0, 0, FALSE)),
   WithApi("SUSPEND", "ACTIVE", Bounds(0, 0, 0, FALSE)),
   WithApi("RESUME", "DEGRADED", Bounds(0, 0, 0, FALSE))}

\* One decision, and the cron route alone.
CronOnly ==
  {Plan(Row(FALSE, s1, "ACTIVATE", r1), Nothing, "PLANNED", None,
        Bounds(0, 0, 0, TRUE))}

===============================================================================

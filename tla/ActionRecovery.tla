---------------------------- MODULE ActionRecovery ----------------------------
(***************************************************************************)
(* What becomes of connectivity actions whose process died while they were *)
(* EXECUTING: recoverStaleActions claims them, looks what each one left of *)
(* its target, gives back what was reserved, puts the session back, and    *)
(* settles the action.                                                     *)
(*                                                                         *)
(* Source: src/src/lib/control-plane/action-executor.ts.  An executor that *)
(* is past RECOVERY_TIMEOUT_MS is dead; nothing else moves the sessions of *)
(* its actions, so that a checked transition is one step here (the races   *)
(* of two are SessionExecution's).                                         *)
(***************************************************************************)
EXTENDS Naturals, Sequences

CONSTANTS
  Rescuer,       \* runs of recoverStaleActions
  NoRescuer,     \* recoveryClaimId NULL
  RecoveryCases  \* what the dead left behind, and the bounds

\* Actions of sessions that there are, each with a target (0: none, or one that is gone).
ASSUME RecoveryAssumption ==
  /\ RecoveryCases # {}
  /\ \A case \in RecoveryCases :
       /\ case.spots \in Seq([state : {"AVAILABLE", "RESERVED", "IN_USE"}, by : Nat])
       /\ case.standing \in Seq(STRING)
       /\ \A a \in DOMAIN case.acts : /\ case.acts[a].session \in DOMAIN case.standing
                                      /\ case.acts[a].target \in Nat

VARIABLES
  stale,   \* per action: state, claim and its lease, session, target (0: none)
  spots,   \* per resource: state and reservedBy (0: nobody)
  standing,   \* the sessions' states
  rescue,  \* per run: program counter, its actions, the sessions as it read them
  robbed,  \* history: sessions that lost a resource to the recovery of another's action
  spare    \* bounds left: deaths of runs, runs that outlast their lease, newcomers

recoveryVars == <<stale, spots, standing, rescue, robbed, spare>>

Legal ==
  [s \in {"EXECUTING", "RECOVERY_CLAIMED", "FAILED", "RECONCILIATION_REQUIRED"} |->
     CASE s = "FAILED"                  -> {"RECONCILIATION_REQUIRED"}
       [] s = "RECONCILIATION_REQUIRED" -> {"FAILED"}
       [] OTHER                         -> {"FAILED", "RECONCILIATION_REQUIRED"}]

Idling == [pc |-> "idle", todo |-> {}, act |-> 0, saw |-> << >>, goal |-> "FAILED"]

RecoveryInitOf(case) ==
  /\ stale = [a \in DOMAIN case.acts |->
                [state |-> "EXECUTING", claim |-> NoRescuer, live |-> FALSE,
                 session |-> case.acts[a].session, target |-> case.acts[a].target]]
  /\ spots = case.spots /\ standing = case.standing
  /\ rescue = [k \in Rescuer |-> Idling]
  /\ robbed = {}
  /\ spare = case.spare

RecoveryInit == \E case \in RecoveryCases : RecoveryInitOf(case)

At0(k, pc) == rescue' = [rescue EXCEPT ![k].pc = pc]
Quits(k) == rescue' = [rescue EXCEPT ![k] = Idling]
Mine(k) == stale[rescue[k].act]
HeldBy(r, s) == r \in DOMAIN spots /\ spots[r].by = s

-----------------------------------------------------------------------------

\* Stale, or claimed by a run whose lease is over: all of them in one UPDATE.
Recoverable == {a \in DOMAIN stale : \/ stale[a].state = "EXECUTING"
                                     \/ stale[a].state = "RECOVERY_CLAIMED" /\ ~stale[a].live}

ClaimStale(k) ==
  /\ rescue[k].pc = "idle" /\ Recoverable # {}
  /\ stale' = [a \in DOMAIN stale |->
                 IF a \in Recoverable
                   THEN [stale[a] EXCEPT !.state = "RECOVERY_CLAIMED", !.claim = k, !.live = TRUE]
                   ELSE stale[a]]
  /\ At0(k, "find")
  /\ UNCHANGED <<spots, standing, robbed, spare>>

\* What bears the claim is read together with its sessions.
FindClaimed(k) ==
  /\ rescue[k].pc = "find"
  /\ rescue' = [rescue EXCEPT ![k].pc = "next", ![k].saw = standing,
                              ![k].todo = {a \in DOMAIN stale : stale[a].claim = k}]
  /\ UNCHANGED <<stale, spots, standing, robbed, spare>>

\* The target tells how far the dead had come.
Finding(a) ==
  LET r == stale[a].target IN
  CASE r \notin DOMAIN spots                                   -> "missing"
    [] HeldBy(r, stale[a].session) /\ spots[r].state = "IN_USE"   -> "used"
    [] HeldBy(r, stale[a].session) /\ spots[r].state = "RESERVED" -> "reserved"
    [] OTHER                                                   -> "unexpected"

LookAtTarget(k) ==
  /\ rescue[k].pc = "next"
  /\ IF rescue[k].todo = {} THEN Quits(k)
     ELSE \E a \in rescue[k].todo :
            rescue' = [rescue EXCEPT ![k].act = a, ![k].todo = @ \ {a},
              ![k].pc = CASE Finding(a) = "used"     -> "bridge"
                          [] Finding(a) = "reserved" -> "release"
                          [] OTHER                   -> "settle",
              ![k].goal = IF Finding(a) = "unexpected" THEN "RECONCILIATION_REQUIRED"
                                                       ELSE "FAILED"]
  /\ UNCHANGED <<stale, spots, standing, robbed, spare>>

\* The bridge answers that the binding is not the session's, or that it cannot tell. When
\* it answers well the run dies: it names a `correlation` that this function never defines.
ValidateBinding(k) ==
  /\ rescue[k].pc = "bridge"
  /\ \/ At0(k, "release")
     \/ rescue' = [rescue EXCEPT ![k].pc = "revert", ![k].goal = "RECONCILIATION_REQUIRED"]
     \/ Quits(k)
  /\ UNCHANGED <<stale, spots, standing, robbed, spare>>

\* History: who lost what is now free.
Robs(k, r) == robbed' = IF spots'[r] = spots[r] THEN robbed
                        ELSE robbed \cup ({spots[r].by} \ {Mine(k).session})

FreeAnyway(k) ==   \* mutant: who reserved it is not looked at
  LET r == Mine(k).target IN
  /\ rescue[k].pc = "release"
  /\ spots' = [spots EXCEPT ![r] = [state |-> "AVAILABLE", by |-> 0]]
  /\ Robs(k, r) /\ At0(k, "revert")
  /\ UNCHANGED <<stale, standing, spare>>

\* Only what the session still holds is given back.
FreeTarget(k) ==
  LET r == Mine(k).target IN
  /\ rescue[k].pc = "release"
  /\ spots' = IF HeldBy(r, Mine(k).session)
                THEN [spots EXCEPT ![r] = [state |-> "AVAILABLE", by |-> 0]] ELSE spots
  /\ Robs(k, r) /\ At0(k, "revert")
  /\ UNCHANGED <<stale, standing, spare>>

\* A session read as SWITCHING becomes ACTIVE, or the run dies of an illegal transition.
RevertSession(k) ==
  LET s == Mine(k).session IN
  /\ rescue[k].pc = "revert"
  /\ IF rescue[k].saw[s] # "SWITCHING" THEN At0(k, "settle") /\ UNCHANGED standing
     ELSE IF standing[s] = "SWITCHING"
       THEN At0(k, "settle") /\ standing' = [standing EXCEPT ![s] = "ACTIVE"]
       ELSE Quits(k) /\ UNCHANGED standing
  /\ UNCHANGED <<stale, spots, robbed, spare>>

\* transitionActionState, whoever holds the claim by now.
SettleAction(k) ==
  LET a == rescue[k].act IN
  /\ rescue[k].pc = "settle"
  /\ IF rescue[k].goal \in Legal[stale[a].state]
       THEN stale' = [stale EXCEPT ![a].state = rescue[k].goal] /\ At0(k, "next")
       ELSE Quits(k) /\ UNCHANGED stale
  /\ UNCHANGED <<spots, standing, robbed, spare>>

-----------------------------------------------------------------------------

Spend(what) == spare[what] > 0 /\ spare' = [spare EXCEPT ![what] = @ - 1]

RescuerDies(k) ==
  /\ rescue[k].pc # "idle" /\ Spend("deaths") /\ Quits(k)
  /\ UNCHANGED <<stale, spots, standing, robbed>>

RescueLapses(a) ==
  LET k == stale[a].claim
      alive == k # NoRescuer /\ (a = rescue[k].act \/ a \in rescue[k].todo) IN
  /\ stale[a].live
  /\ IF alive THEN Spend("slow") ELSE UNCHANGED spare
  /\ stale' = [stale EXCEPT ![a].live = FALSE]
  /\ UNCHANGED <<spots, standing, rescue, robbed>>

\* Another session takes what is free.
Newcomer(s, r) ==
  /\ \A a \in DOMAIN stale : stale[a].session # s
  /\ spots[r].state = "AVAILABLE" /\ Spend("newcomers")
  /\ spots' = [spots EXCEPT ![r] = [state |-> "RESERVED", by |-> s]]
  /\ UNCHANGED <<stale, standing, rescue, robbed>>

RecoveryNext ==
  \/ \E k \in Rescuer : \/ ClaimStale(k) \/ FindClaimed(k) \/ LookAtTarget(k)
                        \/ ValidateBinding(k) \/ FreeTarget(k) \/ RevertSession(k)
                        \/ SettleAction(k) \/ RescuerDies(k)
  \/ \E a \in DOMAIN stale : RescueLapses(a)
  \/ \E s \in DOMAIN standing, r \in DOMAIN spots : Newcomer(s, r)

RecoverySpec == RecoveryInit /\ [][RecoveryNext]_recoveryVars

-----------------------------------------------------------------------------
(* Properties.                                                             *)

\* An action recovered as FAILED left nothing: its session holds the target no more and
\* is not left SWITCHING, and no other session lost what it had taken meanwhile, however
\* many runs claimed the action one after another and whichever died on the way
\* ("Resource was RESERVED but never IN_USE", action-executor.ts:1033). Excepted are the
\* actions whose target row is gone, which leave a session SWITCHING.
RecoveredRightly ==
  /\ robbed = {}
  /\ \A a \in DOMAIN stale :
       stale[a].state = "FAILED" /\ stale[a].target \in DOMAIN spots
         => /\ ~HeldBy(stale[a].target, stale[a].session)
            /\ standing[stale[a].session] # "SWITCHING"
===============================================================================

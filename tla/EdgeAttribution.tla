---------------------------- MODULE EdgeAttribution ----------------------------
(***************************************************************************)
(* What the control plane makes of a phone's observation: whose device, of *)
(* which session and of which resource. The device must be the uploading   *)
(* user's, the session too, and the resource the phone names is compared   *)
(* with the one the session is on when the server looks, while the kernel  *)
(* moves sessions and other uploads of the same observations run.          *)
(*                                                                         *)
(* Source: src/src/lib/control-plane/edge-ingestion.ts and the routes      *)
(* app/api/v1/connectivity/edge/devices and observations. How observations *)
(* reach the server is MobileOutboxes; the watermark it answers is         *)
(* there too. A session is the sequence of the resources it has been on.   *)
(***************************************************************************)
EXTENDS Naturals, Sequences, FiniteSets

CONSTANTS EdgeCall,    \* requests that may run at once
          EdgePlans,   \* what a behaviour may begin with
          NoEdge       \* no user, session or resource

\* Requests are users', of devices and sessions that there are; a batch is not empty, which
\* the route refuses; a session is on a resource.
ASSUME EdgeAssumption ==
  /\ EdgePlans # {}
  /\ \A plan \in EdgePlans :
       /\ plan.seated \in Seq({plan.seated[s] : s \in DOMAIN plan.seated})
       /\ NoEdge \notin DOMAIN plan.seated
       /\ \A s \in DOMAIN plan.seated : LET on == plan.seated[s].on IN
            on \in Seq({on[k] : k \in DOMAIN on}) /\ Len(on) > 0
       /\ \A c \in EdgeCall : LET does == plan.does[c] IN
            /\ does.kind = "switch" => does.session \in DOMAIN plan.seated
            /\ does.kind \in {"register", "upload"} =>
                 does.user # NoEdge /\ does.device \in DOMAIN plan.owners
            /\ does.kind = "upload" =>
                 does.batch \in Seq({does.batch[i] : i \in DOMAIN does.batch}) /\ Len(does.batch) > 0

VARIABLES owners, seated, noted, calls

edgeVars == <<owners, seated, noted, calls>>

EdgeInitOf(plan) ==
  /\ owners = plan.owners      \* EdgeDevice: the user of each device, or NoEdge
  /\ seated = plan.seated      \* sessions: subject, and the resources so far
  /\ noted = << >>             \* EdgeObservationRecord rows, with their measurement
  /\ calls = [c \in EdgeCall |->
       [does |-> plan.does[c], at |-> "begin", item |-> 1, since |-> 0,
        session |-> NoEdge, on |-> NoEdge, mismatch |-> FALSE, row |-> 0, refused |-> {}]]

EdgeInit == \E plan \in EdgePlans : EdgeInitOf(plan)

Calling(c, kind, at) == calls[c].does.kind = kind /\ calls[c].at = at
EdgeAt(c, at) == calls' = [calls EXCEPT ![c].at = at]

-----------------------------------------------------------------------------
(* registerEdgeDevice: the device is looked up and then created; the number *)
(* is unique, so of two that found none one fails.                          *)

FindDevice(c) ==
  /\ Calling(c, "register", "begin")
  /\ EdgeAt(c, IF owners[calls[c].does.device] = NoEdge THEN "create" ELSE "end")
  /\ UNCHANGED <<owners, seated, noted>>

TakeDevice(c) ==            \* mutant: an upsert in the place of the find and the create
  /\ Calling(c, "register", "create")
  /\ owners' = [owners EXCEPT ![calls[c].does.device] = calls[c].does.user]
  /\ EdgeAt(c, "end")
  /\ UNCHANGED <<seated, noted>>

CreateDevice(c) ==
  /\ Calling(c, "register", "create")
  /\ owners' = [owners EXCEPT ![calls[c].does.device] = IF @ = NoEdge THEN calls[c].does.user ELSE @]
  /\ EdgeAt(c, "end")
  /\ UNCHANGED <<seated, noted>>

-----------------------------------------------------------------------------
(* ingestEdgeObservationBatch: the owner, then the observations in order.   *)

Batch(c) == calls[c].does.batch
Observed(c) == Batch(c)[calls[c].item]
NextItem(c, refused) ==
  calls' = [calls EXCEPT ![c].item = @ + 1, ![c].refused = @ \cup refused,
              ![c].at = IF calls[c].item = Len(Batch(c)) THEN "end" ELSE "check"]

\* "impersonation blocked": another user's device, or an observation of another one.
ValidateDeviceOwnership(c) ==
  /\ Calling(c, "upload", "begin")
  /\ LET upload == calls[c].does IN
     EdgeAt(c, IF /\ owners[upload.device] = upload.user
                  /\ \A i \in DOMAIN Batch(c) : Batch(c)[i].device = upload.device
               THEN "check" ELSE "refused")
  /\ UNCHANGED <<owners, seated, noted>>

SameObservation(o) ==
  {n \in DOMAIN noted : noted[n].device = o.device /\ noted[n].sequence = o.sequence}

\* A malformed observation is refused, one already recorded is a duplicate.
CheckObservation(c) ==
  /\ Calling(c, "upload", "check")
  /\ LET o == Observed(c) IN
     IF ~o.wellFormed THEN NextItem(c, {o.sequence})
     ELSE IF SameObservation(o) # {} THEN NextItem(c, {})
     ELSE calls' = [calls EXCEPT ![c].at = "session", ![c].session = NoEdge,
                      ![c].since = IF o.session \in DOMAIN seated
                                   THEN Len(seated[o.session].on) ELSE 0]
  /\ UNCHANGED <<owners, seated, noted>>

AnySession(user, s) == IF s \in DOMAIN seated THEN s ELSE NoEdge   \* mutant: no ownership check
\* validateSessionOwnership: a session that is missing or another user's counts as none.
OwnSession(user, s) ==
  IF s \in DOMAIN seated /\ seated[s].subject = user THEN s ELSE NoEdge

ValidateSessionOwnership(c) ==
  /\ Calling(c, "upload", "session")
  /\ calls' = [calls EXCEPT ![c].at = "hint",
                 ![c].session = OwnSession(calls[c].does.user, Observed(c).session)]
  /\ UNCHANGED <<owners, seated, noted>>

ActiveOf(s) == seated[s].on[Len(seated[s].on)]
HintOverruled(s, hint) ==   \* mutant: the session's resource is taken without a word
  [on |-> IF s = NoEdge THEN NoEdge ELSE ActiveOf(s), mismatch |-> FALSE]
\* validateResourceHint: the session's own resource is used whatever the phone says,
\* unless it says nothing; that it said something else is kept.
ResolveHint(s, hint) ==
  CASE s = NoEdge -> [on |-> NoEdge, mismatch |-> FALSE]
    [] s # NoEdge /\ hint = NoEdge -> [on |-> NoEdge, mismatch |-> FALSE]
    [] OTHER -> [on |-> ActiveOf(s), mismatch |-> hint # ActiveOf(s)]

ValidateResourceHint(c) ==
  /\ Calling(c, "upload", "hint")
  /\ LET found == ResolveHint(calls[c].session, Observed(c).hint) IN
     calls' = [calls EXCEPT ![c].at = "create", ![c].on = found.on, ![c].mismatch = found.mismatch]
  /\ UNCHANGED <<owners, seated, noted>>

\* The number is unique per device: who comes second answers "duplicate".
NoteObservation(c) ==
  /\ Calling(c, "upload", "create")
  /\ LET o == Observed(c)  call == calls[c] IN
     IF SameObservation(o) # {} THEN NextItem(c, {}) /\ UNCHANGED noted
     ELSE /\ noted' = Append(noted,
               [device |-> o.device, sequence |-> o.sequence, user |-> call.does.user,
                session |-> call.session, on |-> call.on, hint |-> o.hint,
                since |-> call.since, trust |-> "none"])
          /\ IF call.on = NoEdge THEN NextItem(c, {})
             ELSE calls' = [calls EXCEPT ![c].at = "project", ![c].row = Len(noted')]
  /\ UNCHANGED <<owners, seated>>

\* validateObservation: see ConnectivityDecision for ages, metrics and rates.
TrustOf(o, mismatch) ==
  IF o.sane /\ ~mismatch /\ o.source = "DEVICE" THEN "LIMITED" ELSE "UNTRUSTED"

\* The measurement; when it fails the record stays and has none.
Measure(c) ==
  /\ Calling(c, "upload", "project")
  /\ \/ noted' = [noted EXCEPT ![calls[c].row].trust = TrustOf(Observed(c), calls[c].mismatch)]
     \/ UNCHANGED noted
  /\ NextItem(c, {})
  /\ UNCHANGED <<owners, seated>>

\* A read of an observation, or its insert, throws: the batch reports the observation as
\* rejected and goes on.
RejectObservation(c) ==
  /\ \E at \in {"check", "session", "hint", "create"} : Calling(c, "upload", at)
  /\ NextItem(c, {Observed(c).sequence})
  /\ UNCHANGED <<owners, seated, noted>>

-----------------------------------------------------------------------------

\* The kernel puts a session on another resource, or on none.
SessionSwitches(c) ==
  /\ Calling(c, "switch", "begin")
  /\ seated' = [seated EXCEPT ![calls[c].does.session].on = Append(@, calls[c].does.on)]
  /\ EdgeAt(c, "end")
  /\ UNCHANGED <<owners, noted>>

EdgeNext ==
  \E c \in EdgeCall :
    \/ FindDevice(c) \/ CreateDevice(c)
    \/ ValidateDeviceOwnership(c) \/ CheckObservation(c) \/ ValidateSessionOwnership(c)
    \/ ValidateResourceHint(c) \/ NoteObservation(c) \/ Measure(c)
    \/ RejectObservation(c) \/ SessionSwitches(c)

-----------------------------------------------------------------------------

\* No record is of another user's device or session; it names a resource its session
\* was on since the server began with the observation; a measurement that counts is of
\* the resource the phone itself named; and no observation of a device is recorded twice.
AttributedRightly ==
  /\ \A n \in DOMAIN noted :
       LET row == noted[n] IN
       /\ owners[row.device] = row.user
       /\ row.session # NoEdge => seated[row.session].subject = row.user
       /\ row.on # NoEdge =>
            \E k \in row.since..Len(seated[row.session].on) : seated[row.session].on[k] = row.on
       /\ row.trust = "LIMITED" => row.on = row.hint
  /\ \A n, k \in DOMAIN noted :
       noted[n].device = noted[k].device /\ noted[n].sequence = noted[k].sequence => n = k
===============================================================================

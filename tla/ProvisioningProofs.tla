-------------------------- MODULE ProvisioningProofs --------------------------
(***************************************************************************)
(* Theorems about Provisioning, for every number of workers, every lease,  *)
(* heartbeat and timeout, every bound and every set of operator moves.     *)
(***************************************************************************)
EXTENDS Provisioning, TLAPS

-----------------------------------------------------------------------------
\* Lemmas on the helpers that every action of a worker is built from.

LEMMA LocalsType ==
  ASSUME TypeOK, NEW w \in Worker, NEW r \in Local, Locals(w, r)
  PROVE  wk' \in [Worker -> Local]
BY DEF TypeOK, Locals

LEMMA ReturnType ==
  ASSUME TypeOK, NEW w \in Worker, NEW o \in Outcome, Return(w, o)
  PROVE  wk' \in [Worker -> Local] /\ op' \in [Worker -> Call]
BY LocalsType DEF Idle, Local, Pc, OrNone, Return, NoCall, Call, Stage, TypeOK

LEMMA GotoType ==
  ASSUME TypeOK, NEW w \in Worker, NEW pc \in Pc, Goto(w, pc)
  PROVE  wk' \in [Worker -> Local]
BY LocalsType DEF Goto, TypeOK, Local

LEMMA CallType ==
  ASSUME TypeOK, NEW w \in Worker, NEW s \in Stage, NEW i \in OrNone(Nat),
         Ends(w, s, i) \/ Next_(w, s)
  PROVE  op' \in [Worker -> Call]
BY DEF NoCall, Call, Stage, OrNone, Ends, TypeOK, Next_

LEMMA FaultType ==
  ASSUME TypeOK, Fault
  PROVE  spent' \in [faults : Nat, crashes : Nat, external : Nat]
BY DEF TypeOK, Fault

LEMMA CreateType ==
  ASSUME TypeOK, CreateIfAbsent
  PROVE  router' \in [id : OrNone(Nat), active : BOOLEAN, next : Nat]
BY DEF TypeOK, CreateIfAbsent, OrNone

-----------------------------------------------------------------------------
\* Type correctness

LEMMA InitTypeOK == Init => TypeOK
<1>. SUFFICES ASSUME Init PROVE TypeOK
  OBVIOUS
<1>1. row \in Binding
  BY DEF Init, Binding, BindingState, OrNone, Recon
<1>2. wk \in [Worker -> Local]
  BY DEF Init, Idle, Local, Pc, OrNone, Outcome
<1>3. op \in [Worker -> Call]
  BY DEF Init, NoCall, Call, Stage, OrNone
<1>4. rec \in Observation
  BY DEF Init, NoRec, Observation, BindingState, OrNone
<1>. QED  BY <1>1, <1>2, <1>3, <1>4 DEF Init, TypeOK, OrNone

LEMMA ClaimingType ==
  ASSUME TypeOK, NEW w \in Worker, Claiming(w)
  PROVE  TypeOK'
<1>1. CASE ProvisionBinding(w) BY <1>1, GotoType DEF ProvisionBinding, Pc, TypeOK
<1>2. CASE ReconcileProvisioning(w)
  BY <1>2, GotoType, ReturnType DEF ReconcileProvisioning, Pc, Outcome, TypeOK
<1>3. CASE Resolve(w)
  <2>1. [wk[w] EXCEPT !.pc = "claim", !.snap = row.resource, !.t0 = clock] \in Local
    <3>1. wk[w] \in Local /\ row.resource \in OrNone(Nat) /\ clock \in Nat
      BY DEF TypeOK, Binding
    <3>. QED  BY <3>1 DEF Local, Pc, OrNone
  <2>2. wk' \in [Worker -> Local] /\ op' \in [Worker -> Call]
    BY <1>3, <2>1, LocalsType, ReturnType DEF Resolve, Outcome, TypeOK
  <2>3. spent' \in [faults : Nat, crashes : Nat, external : Nat]
    BY <1>3, FaultType DEF Resolve, TypeOK
  <2>. QED  BY <1>3, <2>2, <2>3 DEF Resolve, TypeOK
<1>4. ASSUME Granted(w)
      PROVE  nextAttempt' \in Nat /\ wk' \in [Worker -> Local]
             /\ op' \in [Worker -> Call]
  <2>1. [wk[w] EXCEPT !.pc = "verify", !.att = nextAttempt, !.seen = None,
                      !.t0 = 0] \in Local
    <3>1. wk[w] \in Local /\ nextAttempt \in Nat
      BY DEF TypeOK
    <3>. QED  BY <3>1 DEF Local, Pc, OrNone
  <2>. QED  BY <1>4, <2>1, LocalsType DEF Granted, TypeOK
<1>5. LeaseFrom(wk[w].t0) \in Nat
  BY TimingAssumption DEF LeaseFrom, TypeOK, Local
<1>6. CASE ClaimUnbound(w)
  <2>1. row' \in Binding
    BY <1>5, <1>6 DEF ClaimUnbound, TypeOK, Binding, BindingState, OrNone
  <2>2. nextAttempt' \in Nat /\ wk' \in [Worker -> Local] /\ op' \in [Worker -> Call]
    BY <1>4, <1>6, GotoType DEF ClaimUnbound, TypeOK, Pc
  <2>. QED  BY <1>6, <2>1, <2>2 DEF ClaimUnbound, TypeOK
<1>7. CASE ClaimRead(w)
  <2>1. [wk[w] EXCEPT !.pc = "takeover", !.seen = row.attempt] \in Local
    <3>1. wk[w] \in Local /\ row.attempt \in OrNone(Nat)
      BY DEF TypeOK, Binding
    <3>. QED  BY <3>1 DEF Local, Pc
  <2>2. wk' \in [Worker -> Local] /\ op' \in [Worker -> Call]
    BY <1>7, <2>1, LocalsType, ReturnType DEF ClaimRead, Outcome, TypeOK
  <2>. QED  BY <1>7, <2>2 DEF ClaimRead, TypeOK
<1>8. CASE TakeOver(w)
  <2>1. row' \in Binding
    <3>1. row \in Binding /\ LeaseFrom(wk[w].t0) \in OrNone(Nat) /\ nextAttempt \in OrNone(Nat)
          /\ "RECONCILIATION_REQUIRED" \in OrNone(Recon)
      BY <1>5 DEF TypeOK, OrNone, Recon
    <3>2. row' = row \/ row' = [row EXCEPT !.attempt = nextAttempt, !.expires = LeaseFrom(wk[w].t0),
                                          !.recon = "RECONCILIATION_REQUIRED"]
      BY <1>8 DEF TakeOver
    <3>. QED  BY <3>1, <3>2 DEF Binding
  <2>2. nextAttempt' \in Nat /\ wk' \in [Worker -> Local] /\ op' \in [Worker -> Call]
    BY <1>4, <1>8, ReturnType DEF TakeOver, TypeOK, Outcome
  <2>. QED  BY <1>8, <2>1, <2>2 DEF TakeOver, TypeOK
<1>9. CASE VerifyOwnership(w)
  <2>1. [wk[w] EXCEPT !.pc = "running", !.started = clock,
                      !.beat = clock + Heartbeat] \in Local
    <3>1. wk[w] \in Local /\ clock \in Nat /\ clock + Heartbeat \in Nat
      BY TimingAssumption DEF TypeOK
    <3>. QED  BY <3>1 DEF Local, Pc
  <2>2. [stage |-> IF wk[w].snap = None THEN "get" ELSE "getId", id |-> None] \in Call
    BY DEF Call, Stage, OrNone
  <2>3. wk' \in [Worker -> Local] /\ op' \in [Worker -> Call]
    BY <1>9, <2>1, <2>2, LocalsType, ReturnType DEF VerifyOwnership, Outcome, TypeOK
  <2>. QED  BY <1>9, <2>3 DEF VerifyOwnership, TypeOK
<1>. QED  BY <1>1, <1>2, <1>3, <1>6, <1>7, <1>8, <1>9 DEF Claiming

LEMMA CallingType ==
  ASSUME TypeOK, NEW w \in Worker, Calling(w)
  PROVE  TypeOK'
<1>. USE DEF Stage, OrNone
<1>1. router.id \in OrNone(Nat) /\ router.next \in Nat /\ None \in OrNone(Nat)
  BY DEF TypeOK
<1>2. CASE GetById(w) BY <1>1, <1>2, CallType, FaultType DEF GetById, TypeOK
<1>3. CASE LookUp(w) BY <1>1, <1>3, CallType, FaultType DEF LookUp, TypeOK
<1>4. ASSUME PutUncertain
      PROVE  /\ router' \in [id : OrNone(Nat), active : BOOLEAN, next : Nat]
             /\ wire' \in Nat
             /\ spent' \in [faults : Nat, crashes : Nat, external : Nat]
  BY <1>4, CreateType, FaultType DEF PutUncertain, TypeOK
<1>5. CASE Put(w) BY <1>1, <1>5, CallType, <1>4, CreateType, FaultType DEF Put, TypeOK
<1>6. CASE Converge(w) BY <1>1, <1>6, CallType, FaultType DEF Converge, TypeOK
<1>7. CASE PutAgain(w) BY <1>1, <1>7, CallType, <1>4, CreateType DEF PutAgain, TypeOK
<1>. QED  BY <1>2, <1>3, <1>5, <1>6, <1>7 DEF Calling

LEMMA GuardedType ==
  ASSUME TypeOK, NEW w \in Worker, NEW to \in BindingState, NEW i \in OrNone(Nat),
         wk[w].att \in Nat,
         ClaimGuardedTransition(w, to, i) \/ UNCHANGED <<row, settled>>
  PROVE  row' \in Binding /\ settled' \in SUBSET Nat
<1>1. CASE Owns(w) /\ ClaimGuardedTransition(w, to, i)
  <2>1. row' \in Binding
    BY <1>1 DEF ClaimGuardedTransition, Binding, OrNone
  <2>2. settled' = settled \cup {wk[w].att}
    BY <1>1 DEF ClaimGuardedTransition
  <2>. QED  BY <2>1, <2>2 DEF TypeOK
<1>2. CASE UNCHANGED <<row, settled>>
  BY <1>2 DEF TypeOK
<1>. QED  BY <1>1, <1>2 DEF ClaimGuardedTransition

\* A worker that is past its claim knows its attempt.
HasAttempt(w) == wk[w].pc \in Beating \cup {"verify"} => wk[w].att \in Nat

LEMMA WaitingType ==
  ASSUME TypeOK, NEW w \in Worker, HasAttempt(w), Waiting(w)
  PROVE  TypeOK'
<1>0. wk[w] \in Local /\ clock \in Nat /\ clock + Heartbeat \in Nat
  BY TimingAssumption DEF TypeOK
<1>1. CASE HeartbeatFires(w)
  BY <1>0, <1>1, LocalsType DEF Local, OrNone, HeartbeatFires, TypeOK
<1>2. CASE ExtendLease(w)
  <2>1. /\ [wk[w] EXCEPT !.hb = None] \in Local
        /\ [wk[w] EXCEPT !.hb = None, !.lost = TRUE] \in Local
    BY <1>0 DEF Local, OrNone
  <2>2. wk' \in [Worker -> Local]
    BY <1>2, <2>1, LocalsType DEF ExtendLease
  <2>3. LeaseFrom(wk[w].hb) \in Nat \/ wk[w].hb = None
    BY <1>0, TimingAssumption DEF LeaseFrom, Local, OrNone
  <2>4. row' \in Binding
    BY <1>2, <2>3 DEF ExtendLease, TypeOK, Binding, OrNone
  <2>. QED  BY <1>2, <2>2, <2>4, FaultType DEF ExtendLease, TypeOK
<1>3. CASE ProviderReturns(w)
  BY <1>0, <1>3, LocalsType, ReturnType DEF Local, Pc, ProviderReturns, Outcome, TypeOK
<1>4. CASE TimeoutFires(w) BY <1>0, <1>4, LocalsType DEF Local, Pc, TimeoutFires, TypeOK
<1>5. ASSUME NEW to \in BindingState, NEW i \in OrNone(Nat), NEW o \in Outcome,
             wk[w].att \in Nat, Finalize(w, to, i, o),
             UNCHANGED <<router, wire, clock, nextAttempt, rec>>
      PROVE  TypeOK'
  BY <1>5, GotoType, ReturnType, GuardedType, FaultType DEF Outcome, Pc, Finalize, TypeOK
<1>6. CASE FinalizeSuccess(w)
  BY <1>6, <1>5 DEF FinalizeSuccess, HasAttempt, Beating, TypeOK, Call, BindingState, Outcome
<1>7. CASE FinalizeFailure(w)
  BY <1>7, <1>5 DEF FinalizeFailure, HasAttempt, Beating, TypeOK, Binding, BindingState, Outcome
<1>8. CASE CallerReads(w) BY <1>8, LocalsType DEF Idle, Local, Pc, OrNone, CallerReads, TypeOK
<1>. QED  BY <1>1, <1>2, <1>3, <1>4, <1>6, <1>7, <1>8 DEF Waiting

LEMMA WorldType ==
  ASSUME TypeOK, Reconciling \/ Environment \/ \E w \in Worker : Crash(w)
  PROVE  TypeOK'
<1>1. CASE RecSnapshot
  BY <1>1 DEF RecSnapshot, TypeOK, Binding, Observation, OrNone
<1>2. CASE RecObserve
  <2>1. \A s, r : AdapterReconcile(s, r)
                    \in {"in_sync", "drift_detected", "resource_missing"}
    BY DEF AdapterReconcile
  <2>2. PICK r \in {AdapterReconcile(rec.status, rec.resource),
                    "failed_retryable", "failed_permanent"} :
           rec' = [rec EXCEPT !.pc = "observed", !.result = r]
    BY <1>2 DEF RecObserve
  <2>3. r \in {"in_sync", "drift_detected", "resource_missing",
               "failed_retryable", "failed_permanent"}
    BY <2>1
  <2>4. rec' \in Observation
    BY <2>2, <2>3 DEF TypeOK, Observation, OrNone
  <2>. QED  BY <1>2, <2>4, FaultType DEF RecObserve, TypeOK
<1>3. CASE RecCommit
  <2>1. ASSUME NEW s \in BindingState, NEW r
        PROVE  /\ MapReconciliationResult(s, r).target \in BindingState
               /\ MapReconciliationResult(s, r).recon \in OrNone(Recon)
    BY DEF MapReconciliationResult, BindingState, OrNone, Recon
  <2>2. row' \in Binding
    BY <1>3, <2>1 DEF RecCommit, TypeOK, Binding, Observation
  <2>3. rec' \in Observation
    BY <1>3 DEF RecCommit, NoRec, Observation, BindingState, OrNone
  <2>. QED  BY <1>3, <2>2, <2>3 DEF RecCommit, TypeOK
<1>4. CASE LatePut BY <1>4, CreateType DEF LatePut, TypeOK
<1>5. CASE TransitionBinding
  BY <1>5 DEF BINDING_TRANSITIONS, BindingState, TransitionBinding, TypeOK, Binding
<1>6. CASE RouterChanges
  <2>. DEFINE R == [id : OrNone(Nat), active : BOOLEAN, next : Nat]
  <2>1. /\ [router EXCEPT !.id = None, !.active = FALSE] \in R
        /\ [router EXCEPT !.active = ~@] \in R
    BY DEF TypeOK, OrNone
  <2>2. router' \in R
    BY <1>6, <2>1 DEF RouterChanges
  <2>3. spent' \in [faults : Nat, crashes : Nat, external : Nat]
    BY <1>6 DEF RouterChanges, TypeOK
  <2>. QED  BY <1>6, <2>2, <2>3 DEF RouterChanges, TypeOK
<1>7. CASE Tick
  BY <1>7 DEF Tick, TypeOK
<1>8. ASSUME NEW w \in Worker, Crash(w) PROVE TypeOK'
  <2>1. Idle \in Local /\ NoCall \in Call
    BY DEF Idle, NoCall, Local, Call, Pc, Stage, OrNone
  <2>2. wk' \in [Worker -> Local] /\ op' \in [Worker -> Call]
    BY <1>8, <2>1, LocalsType DEF Crash, TypeOK
  <2>. QED  BY <1>8, <2>2 DEF Crash, TypeOK
<1>. QED
  BY <1>1, <1>2, <1>3, <1>4, <1>5, <1>6, <1>7, <1>8 DEF Reconciling, Environment

-----------------------------------------------------------------------------
\* The inductive invariant: TypeOK needs HasAttempt, the fence needs that an
\* attempt on the row was issued and has not been settled.

FenceInv ==
  /\ row.attempt # None => row.attempt < nextAttempt
  /\ row.attempt \notin settled
  /\ \A a \in settled : a < nextAttempt

IInv == TypeOK /\ (\A w \in Worker : HasAttempt(w)) /\ FenceInv

LEMMA InitIInv == Init => IInv
<1>. SUFFICES ASSUME Init PROVE IInv
  OBVIOUS
<1>1. \A w \in Worker : HasAttempt(w)
  BY DEF Init, HasAttempt, Idle, Beating
<1>2. FenceInv
  BY DEF Init, FenceInv
<1>. QED  BY <1>1, <1>2, InitTypeOK DEF IInv

LEMMA TypeStep == IInv /\ [Next]_vars => TypeOK'
<1>. SUFFICES ASSUME IInv, [Next]_vars PROVE TypeOK'
  OBVIOUS
<1>1. CASE UNCHANGED vars
  BY <1>1 DEF IInv, TypeOK, vars
<1>2. CASE Next
  BY <1>2, ClaimingType, CallingType, WaitingType, WorldType DEF Next, IInv
<1>. QED  BY <1>1, <1>2

\* Only a granted claim enters the states that need an attempt.
LEMMA AttemptStep ==
  ASSUME IInv, [Next]_vars, NEW v \in Worker
  PROVE  HasAttempt(v)'
<1>. USE DEF HasAttempt, Beating, IInv
<1>0. wk \in [Worker -> Local] /\ nextAttempt \in Nat
  BY DEF TypeOK
<1>1. ASSUME NEW w \in Worker, NEW o, Return(w, o) PROVE HasAttempt(v)'
  BY <1>0, <1>1 DEF Return, Locals, Idle, Local
<1>2. ASSUME NEW w \in Worker, Locals(w, Idle) PROVE HasAttempt(v)'
  BY <1>0, <1>2 DEF Locals, Idle
<1>3. ASSUME NEW w \in Worker, NEW pc \in {"resolve", "claimRead"}, Goto(w, pc)
      PROVE  HasAttempt(v)'
  BY <1>0, <1>3 DEF Goto, Locals, Local
<1>4. CASE UNCHANGED wk
  BY <1>4
<1>5. ASSUME NEW w \in Worker, Claiming(w) PROVE HasAttempt(v)'
  <2>1. CASE ProvisionBinding(w)
    BY <1>3, <2>1 DEF ProvisionBinding
  <2>2. CASE ReconcileProvisioning(w)
    BY <1>1, <1>3, <2>2 DEF ReconcileProvisioning
  <2>3. CASE Resolve(w) BY <1>1, <1>0, <2>3 DEF Locals, Local, Resolve
  <2>4. ASSUME Granted(w) PROVE HasAttempt(v)'
    BY <1>0, <2>4 DEF Granted, Locals, Local
  <2>5. CASE ClaimUnbound(w)
    BY <1>3, <2>4, <2>5 DEF ClaimUnbound
  <2>6. CASE ClaimRead(w) BY <1>1, <1>0, <2>6 DEF Locals, Local, ClaimRead
  <2>7. CASE TakeOver(w)
    BY <1>1, <2>4, <2>7 DEF TakeOver
  <2>8. CASE VerifyOwnership(w)
    <3>1. CASE Return(w, "claim_lost")
      BY <1>1, <3>1
    <3>2. CASE Locals(w, [wk[w] EXCEPT !.pc = "running", !.started = clock,
                                       !.beat = clock + Heartbeat])
      BY <1>0, <2>8, <3>2 DEF VerifyOwnership, Locals, Local
    <3>. QED  BY <2>8, <3>1, <3>2 DEF VerifyOwnership
  <2>. QED  BY <1>5, <2>1, <2>2, <2>3, <2>5, <2>6, <2>7, <2>8 DEF Claiming
<1>6. ASSUME NEW w \in Worker, Calling(w) PROVE UNCHANGED wk
  BY <1>6 DEF Calling, GetById, LookUp, Put, Converge, PutAgain
<1>7. ASSUME NEW w \in Worker, Waiting(w) PROVE HasAttempt(v)'
  <2>1. CASE HeartbeatFires(w)
    BY <1>0, <2>1 DEF HeartbeatFires, Locals, Local
  <2>2. CASE ExtendLease(w)
    BY <1>0, <2>2 DEF ExtendLease, Locals, Local
  <2>3. CASE ProviderReturns(w)
    <3>1. CASE Return(w, "claim_lost")
      BY <1>1, <3>1
    <3>2. CASE Locals(w, [wk[w] EXCEPT !.started = 0,
                 !.pc = IF op[w].stage = "ok" THEN "finalize" ELSE "finalizeFail"])
      BY <1>0, <2>3, <3>2 DEF ProviderReturns, Locals, Local
    <3>. QED  BY <2>3, <3>1, <3>2 DEF ProviderReturns
  <2>4. CASE TimeoutFires(w)
    BY <1>0, <2>4 DEF TimeoutFires, Locals, Local
  <2>5. ASSUME NEW to, NEW i, NEW o, Finalize(w, to, i, o), wk[w].att \in Nat
        PROVE  HasAttempt(v)'
    BY <1>1, <1>0, <2>5 DEF Goto, Locals, Local, Finalize
  <2>6. CASE FinalizeSuccess(w)
    BY <2>5, <2>6 DEF FinalizeSuccess
  <2>7. CASE FinalizeFailure(w)
    BY <2>5, <2>7 DEF FinalizeFailure
  <2>8. CASE CallerReads(w)
    BY <1>2, <2>8 DEF CallerReads
  <2>. QED  BY <1>7, <2>1, <2>2, <2>3, <2>4, <2>6, <2>7, <2>8 DEF Waiting
<1>8. ASSUME NEW w \in Worker, Crash(w) PROVE HasAttempt(v)'
  BY <1>2, <1>8 DEF Crash
<1>9. ASSUME Reconciling \/ Environment \/ UNCHANGED vars PROVE UNCHANGED wk
  BY <1>9 DEF Reconciling, Environment, vars, RecSnapshot, RecObserve, RecCommit,
              LatePut, TransitionBinding, RouterChanges, Tick
<1>. QED  BY <1>4, <1>5, <1>6, <1>7, <1>8, <1>9 DEF Next

-----------------------------------------------------------------------------
\* What a step does to the attempts: nothing, a grant, or a settlement.

Keeps == row'.attempt = row.attempt /\ UNCHANGED <<nextAttempt, settled>>
Grants == /\ row'.attempt = nextAttempt /\ nextAttempt' = nextAttempt + 1
          /\ UNCHANGED settled
Settles == /\ row.attempt \in Nat /\ row'.attempt = None
           /\ settled' = settled \cup {row.attempt} /\ UNCHANGED nextAttempt

LEMMA AttemptsMove ==
  ASSUME IInv, [Next]_vars
  PROVE  Keeps \/ Grants \/ Settles
<1>. USE DEF Keeps, Grants, Settles
<1>0. row \in Binding
  BY DEF IInv, TypeOK
<1>1. ASSUME NEW w \in Worker, Claiming(w) PROVE Keeps \/ Grants
  BY <1>0, <1>1 DEF Claiming, ProvisionBinding, ReconcileProvisioning, Resolve,
       ClaimUnbound, ClaimRead, TakeOver, VerifyOwnership, Granted, Binding
<1>2. ASSUME NEW w \in Worker, Calling(w) PROVE Keeps
  BY <1>2 DEF Calling, GetById, LookUp, Put, Converge, PutAgain
<1>3. ASSUME NEW w \in Worker, Waiting(w) PROVE Keeps \/ Settles
  <2>1. ASSUME NEW to, NEW i, NEW o, Finalize(w, to, i, o), wk[w].att \in Nat,
               UNCHANGED nextAttempt
        PROVE  Keeps \/ Settles
    BY <2>1 DEF Finalize, ClaimGuardedTransition, Owns
  <2>2. wk[w].pc \in Beating => wk[w].att \in Nat
    BY DEF IInv, HasAttempt
  <2>3. CASE FinalizeSuccess(w) \/ FinalizeFailure(w)
    BY <2>1, <2>2, <2>3 DEF FinalizeSuccess, FinalizeFailure, Beating
  <2>4. CASE ExtendLease(w)
    BY <1>0, <2>4 DEF ExtendLease, Binding
  <2>5. CASE HeartbeatFires(w) \/ ProviderReturns(w) \/ TimeoutFires(w) \/ CallerReads(w)
    BY <2>5 DEF HeartbeatFires, ProviderReturns, TimeoutFires, CallerReads
  <2>. QED  BY <1>3, <2>3, <2>4, <2>5 DEF Waiting
<1>4. CASE \/ Reconciling \/ Environment \/ UNCHANGED vars
           \/ \E w \in Worker : Crash(w)
  BY <1>0, <1>4 DEF Reconciling, Environment, vars, RecSnapshot, RecObserve,
       RecCommit, LatePut, TransitionBinding, RouterChanges, Tick, Crash, Binding
<1>. QED  BY <1>1, <1>2, <1>3, <1>4 DEF Next

LEMMA FenceStep == IInv /\ [Next]_vars => FenceInv'
<1>. SUFFICES ASSUME IInv, [Next]_vars PROVE FenceInv'
  OBVIOUS
<1>1. row \in Binding /\ nextAttempt \in Nat /\ settled \subseteq Nat
  BY DEF IInv, TypeOK
<1>2. row.attempt \in Nat \/ row.attempt = None
  BY <1>1 DEF Binding, OrNone
<1>3. CASE Keeps
  BY <1>3 DEF IInv, FenceInv, Keeps
<1>4. CASE Grants
  BY <1>1, <1>4 DEF IInv, FenceInv, Grants
<1>5. CASE Settles
  BY <1>1, <1>2, <1>5, NoneAssumption DEF IInv, FenceInv, Settles
<1>. QED  BY <1>3, <1>4, <1>5, AttemptsMove

\* What every step of the kernel keeps: types, an attempt for whoever works under a
\* claim, and no attempt on the row that was settled or has not been given out.
THEOREM Invariance == Spec => []IInv
<1>1. IInv /\ [Next]_vars => IInv'
  BY TypeStep, AttemptStep, FenceStep DEF IInv
<1>. QED  BY InitIInv, <1>1, PTL DEF Spec

\* Every variable keeps its type, whatever the interleaving.
THEOREM TypeCorrect == Spec => []TypeOK
<1>1. IInv => TypeOK
  BY DEF IInv
<1>. QED  BY Invariance, <1>1, PTL

-----------------------------------------------------------------------------
\* The attempts of the row implement the abstract claim (claimProvisioning,
\* claimGuardedTransition): a superseded worker can never finalize.

LEMMA FenceInit == Init => Fence!Init
BY NoneAssumption DEF Init, Fence!Init, Superseded

LEMMA FenceNext == IInv /\ [Next]_vars => [Fence!Next]_(Fence!fence)
<1>. SUFFICES ASSUME IInv, [Next]_vars PROVE [Fence!Next]_(Fence!fence)
  OBVIOUS
<1>1. /\ row \in Binding /\ nextAttempt \in Nat /\ settled \subseteq Nat
      /\ row.attempt \in Nat \/ row.attempt = None
  BY DEF IInv, TypeOK, Binding, OrNone
<1>2. CASE Keeps
  BY <1>2 DEF Keeps, Fence!fence, Superseded
<1>3. CASE Grants
  BY <1>1, <1>3, NoneAssumption DEF Grants, Superseded, IInv, FenceInv, Fence!Next, Fence!Grant
<1>4. CASE Settles
  BY <1>1, <1>4, NoneAssumption DEF Settles, Superseded, Fence!Next, Fence!Settle
<1>. QED  BY <1>2, <1>3, <1>4, AttemptsMove

\* The row's provisioningAttemptId implements the abstract fence: a claim takes a fresh
\* attempt, and only the attempt that holds the row settles it, once
\* (claimProvisioning, claimGuardedTransition).
THEOREM FenceRefinement == Spec => FenceSpec
BY Invariance, FenceInit, FenceNext, PTL DEF Spec, FenceSpec, Fence!Spec

-----------------------------------------------------------------------------
\* Every path moves the binding along BINDING_TRANSITIONS: claims, claim-guarded
\* finalizations, reconciliation's own matrix, operators.

LEMMA MatricesAgree ==
  \A s \in BindingState :
    RECONCILIATION_LEGAL_TRANSITIONS[s] \subseteq BINDING_TRANSITIONS[s]
BY DEF BindingState, RECONCILIATION_LEGAL_TRANSITIONS, BINDING_TRANSITIONS

LEMMA LegalStep ==
  ASSUME IInv, [Next]_vars, row'.status # row.status
  PROVE  row'.status \in BINDING_TRANSITIONS[row.status]
<1>0. row \in Binding /\ rec \in Observation
  BY DEF IInv, TypeOK
<1>1. /\ "PROVISIONING" \in BINDING_TRANSITIONS["UNBOUND"]
      /\ {"BOUND", "FAILED"} \subseteq BINDING_TRANSITIONS["PROVISIONING"]
  BY DEF BINDING_TRANSITIONS, BindingState
<1>2. ASSUME NEW w \in Worker, Claiming(w) PROVE row.status = "UNBOUND" /\ row'.status = "PROVISIONING"
  BY <1>0, <1>2 DEF Claiming, ProvisionBinding, ReconcileProvisioning, Resolve,
       ClaimUnbound, ClaimRead, TakeOver, VerifyOwnership, Binding
<1>3. ASSUME NEW w \in Worker, Waiting(w)
      PROVE  row.status = "PROVISIONING" /\ row'.status \in {"BOUND", "FAILED"}
  BY <1>0, <1>3 DEF Waiting, HeartbeatFires, ExtendLease, ProviderReturns, TimeoutFires,
       CallerReads, FinalizeSuccess, FinalizeFailure, Finalize, ClaimGuardedTransition,
       Owns, Binding
<1>4. CASE RecCommit
  <2>. DEFINE d == MapReconciliationResult(rec.status, rec.result)
  <2>1. row.status = rec.status /\ row'.status = d.target
    BY <1>0, <1>4 DEF RecCommit, Binding
  <2>2. d.target # rec.status => d.target \in RECONCILIATION_LEGAL_TRANSITIONS[rec.status]
    BY DEF MapReconciliationResult, IsLegal
  <2>. QED  BY <1>0, <2>1, <2>2, MatricesAgree DEF Binding
<1>5. CASE TransitionBinding
  BY <1>0, <1>5 DEF TransitionBinding, Binding
<1>6. ASSUME \/ RecSnapshot \/ RecObserve \/ LatePut \/ RouterChanges \/ Tick \/ UNCHANGED vars
             \/ \E w \in Worker : Crash(w) \/ Calling(w)
      PROVE  UNCHANGED row
  <2>1. CASE RecSnapshot \/ RecObserve \/ LatePut \/ RouterChanges \/ Tick
    BY <2>1 DEF RecSnapshot, RecObserve, LatePut, RouterChanges, Tick
  <2>2. CASE UNCHANGED vars
    BY <2>2 DEF vars
  <2>3. ASSUME NEW w \in Worker, Crash(w) \/ Calling(w) PROVE UNCHANGED row
    BY <2>3 DEF Crash, Calling, GetById, LookUp, Put, Converge, PutAgain
  <2>. QED  BY <1>6, <2>1, <2>2, <2>3
<1>. QED
  BY <1>1, <1>2, <1>3, <1>4, <1>5, <1>6 DEF Next, Reconciling, Environment

\* No worker, reconciliation run or operator moves the binding outside
\* BINDING_TRANSITIONS (entitlement.ts), in whichever order they write.
THEOREM AllMovesLegal == Spec => LegalTransitions
<1>1. IInv /\ [Next]_vars =>
        [row'.status # row.status => row'.status \in BINDING_TRANSITIONS[row.status]]_vars
  BY LegalStep
<1>. QED  BY Invariance, <1>1, PTL DEF Spec, LegalTransitions

-----------------------------------------------------------------------------
\* A binding in use names the router's resource. Nobody else deleting it, the router
\* keeps the resource it has; a call that succeeded has seen it there; and a worker
\* that finalizes a success holds the result of such a call.

InUse == row.status \in {"BOUND", "DEGRADED"}
OnRouter(id) == id # None /\ id = router.id

CallsSucceeded == \A w \in Worker : wk[w].pc = "finalize" => op[w].stage = "ok"

ResourcesKnown == spent.external = 0 =>
  /\ \A w \in Worker : op[w].stage = "ok" => OnRouter(op[w].id)
  /\ InUse => OnRouter(row.resource)

BoundInv == CallsSucceeded /\ ResourcesKnown

\* The resource on the router stays the one it is.
RouterStays == spent'.external = 0 =>
  /\ spent.external = 0
  /\ router.id # None => router'.id = router.id

\* A worker's own steps end a call, take its result over or start a new one.
CallTakenOver(w) ==
  /\ UNCHANGED router
  /\ \A v \in Worker : v # w => wk'[v] = wk[v] /\ op'[v] = op[v]
  /\ op'[w].stage = "ok" => op'[w] = op[w]
  /\ wk'[w].pc = "finalize" => op'[w] = op[w] /\ (wk[w].pc = "finalize" \/ op[w].stage = "ok")

LEMMA SpentGrows ==
  ASSUME TypeOK, Fault \/ UNCHANGED spent
  PROVE  spent'.external = spent.external
BY DEF TypeOK, Fault

LEMMA ReturnTakesOver ==
  ASSUME TypeOK, NEW w \in Worker, NEW o, Return(w, o), UNCHANGED router
  PROVE  CallTakenOver(w)
BY DEF TypeOK, Return, Locals, Idle, NoCall, CallTakenOver

LEMMA LocalsTakesOver ==
  ASSUME TypeOK, NEW w \in Worker, NEW r, Locals(w, r), UNCHANGED <<router, op>>,
         r.pc = "finalize" => wk[w].pc = "finalize" \/ op[w].stage = "ok"
  PROVE  CallTakenOver(w)
BY DEF TypeOK, Locals, CallTakenOver

LEMMA GotoTakesOver ==
  ASSUME TypeOK, NEW w \in Worker, NEW pc, Goto(w, pc), pc # "finalize", UNCHANGED <<router, op>>
  PROVE  CallTakenOver(w)
BY LocalsTakesOver DEF TypeOK, Local, Goto

LEMMA ClaimingTakesOver ==
  ASSUME TypeOK, NEW w \in Worker, Claiming(w)
  PROVE  /\ CallTakenOver(w) /\ spent'.external = spent.external
         /\ InUse' => InUse /\ row'.resource = row.resource
<1>0. wk[w] \in Local /\ row \in Binding
  BY DEF TypeOK
<1>1. CASE ProvisionBinding(w)
  BY <1>1, GotoTakesOver DEF ProvisionBinding, InUse
<1>2. CASE ReconcileProvisioning(w)
  BY <1>2, GotoTakesOver, ReturnTakesOver DEF ReconcileProvisioning, InUse
<1>3. CASE Resolve(w)
  <2>. DEFINE r == [wk[w] EXCEPT !.pc = "claim", !.snap = row.resource, !.t0 = clock]
  <2>1. r.pc = "claim"
    BY <1>0 DEF Local
  <2>2. (\E o : Return(w, o)) \/ (Locals(w, r) /\ UNCHANGED op)
    BY <1>3 DEF Resolve
  <2>. HIDE DEF r
  <2>3. CallTakenOver(w)
    BY <1>3, <2>1, <2>2, LocalsTakesOver, ReturnTakesOver DEF Resolve
  <2>. QED  BY <1>3, <2>3, SpentGrows DEF Resolve, InUse
<1>4. ASSUME Granted(w), UNCHANGED router PROVE CallTakenOver(w)
  <2>. DEFINE r == [wk[w] EXCEPT !.pc = "verify", !.att = nextAttempt, !.seen = None, !.t0 = 0]
  <2>1. r.pc = "verify"
    BY <1>0 DEF Local
  <2>2. Locals(w, r) /\ UNCHANGED op
    BY <1>4 DEF Granted
  <2>. HIDE DEF r
  <2>. QED  BY <1>4, <2>1, <2>2, LocalsTakesOver
<1>5. CASE ClaimUnbound(w) BY <1>4, <1>5, GotoTakesOver, <1>0 DEF ClaimUnbound, InUse, Binding
<1>6. CASE ClaimRead(w)
  <2>. DEFINE r == [wk[w] EXCEPT !.pc = "takeover", !.seen = row.attempt]
  <2>1. r.pc = "takeover"
    BY <1>0 DEF Local
  <2>2. (\E o : Return(w, o)) \/ (Locals(w, r) /\ UNCHANGED op)
    BY <1>6 DEF ClaimRead
  <2>. HIDE DEF r
  <2>3. CallTakenOver(w)
    BY <1>6, <2>1, <2>2, LocalsTakesOver, ReturnTakesOver DEF ClaimRead
  <2>. QED  BY <1>6, <2>3 DEF ClaimRead, InUse
<1>7. CASE TakeOver(w)
  BY <1>4, <1>7, ReturnTakesOver, <1>0 DEF TakeOver, MayTakeOver, InUse, Binding
<1>8. CASE VerifyOwnership(w)
  <2>1. CASE Return(w, "claim_lost")
    BY <1>8, <2>1, ReturnTakesOver DEF VerifyOwnership, InUse
  <2>2. CASE /\ Locals(w, [wk[w] EXCEPT !.pc = "running", !.started = clock,
                                        !.beat = clock + Heartbeat])
             /\ op' = [op EXCEPT ![w] = [stage |-> IF wk[w].snap = None
                                                     THEN "get" ELSE "getId",
                                         id |-> None]]
    BY <1>0, <2>2, <1>8 DEF TypeOK, Locals, Local, VerifyOwnership, CallTakenOver, InUse
  <2>. QED  BY <1>8, <2>1, <2>2 DEF VerifyOwnership
<1>. QED  BY <1>1, <1>2, <1>3, <1>5, <1>6, <1>7, <1>8 DEF Claiming

\* A call succeeds for a worker that waits for it, with the resource on the router.
LEMMA CallingFinds ==
  ASSUME TypeOK, NEW w \in Worker, Calling(w)
  PROVE  /\ RouterStays /\ spent'.external = spent.external /\ UNCHANGED <<wk, row>>
         /\ op[w].stage # "ok" /\ \A v \in Worker : v # w => op'[v] = op[v]
         /\ op'[w].stage = "ok" => wk[w].pc = "running" /\ op'[w].id # None
                                   /\ op'[w].id = router'.id
<1>0. /\ op \in [Worker -> Call] /\ router.next \in Nat /\ None \notin Nat
      /\ router \in [id : OrNone(Nat), active : BOOLEAN, next : Nat]
  BY NoneAssumption DEF TypeOK
<1>1. ASSUME NEW s, NEW id, Ends(w, s, id)
      PROVE  /\ \A v \in Worker : v # w => op'[v] = op[v]
             /\ op'[w].stage = "ok" => wk[w].pc = "running" /\ s = "ok" /\ op'[w].id = id
  BY <1>0, <1>1 DEF Ends, NoCall
<1>2. ASSUME NEW s, Next_(w, s), s # "ok"
      PROVE  op'[w].stage # "ok" /\ \A v \in Worker : v # w => op'[v] = op[v]
  BY <1>0, <1>2 DEF Next_, Call
<1>3. ASSUME CreateIfAbsent
      PROVE  /\ router.id # None => router'.id = router.id
             /\ router.id = None => router'.id = router.next
  BY <1>0, <1>3 DEF CreateIfAbsent
<1>4. UNCHANGED <<wk, row>> /\ op[w].stage # "ok"
  BY DEF Calling, GetById, LookUp, Put, Converge, PutAgain
<1>5. spent'.external = spent.external
  BY SpentGrows DEF Calling, GetById, LookUp, Put, Converge, PutAgain, PutUncertain
<1>6. router.id # None => router'.id = router.id
  BY <1>3 DEF Calling, GetById, LookUp, Put, Converge, PutAgain, PutUncertain
<1>7. /\ \A v \in Worker : v # w => op'[v] = op[v]
      /\ op'[w].stage = "ok" => wk[w].pc = "running" /\ op'[w].id # None /\ op'[w].id = router'.id
  BY <1>1, <1>2, <1>0, <1>3 DEF GetById, LookUp, Put, Converge, PutAgain, Calling
<1>. QED  BY <1>4, <1>5, <1>6, <1>7 DEF RouterStays

\* A binding comes into use only with the result of a call that succeeded.
LEMMA WaitingTakesOver ==
  ASSUME TypeOK, NEW w \in Worker, Waiting(w)
  PROVE  /\ CallTakenOver(w) /\ spent'.external = spent.external
         /\ InUse' => \/ InUse /\ row'.resource = row.resource
                      \/ wk[w].pc = "finalize" /\ row'.resource = op[w].id
<1>0. wk[w] \in Local /\ row \in Binding
  BY DEF TypeOK
<1>1. CASE HeartbeatFires(w)
  <2>. DEFINE r == [wk[w] EXCEPT !.hb = IF @ = None THEN clock ELSE @, !.beat = clock + Heartbeat]
  <2>1. r.pc = wk[w].pc /\ Locals(w, r)
    BY <1>0, <1>1 DEF HeartbeatFires, Local
  <2>. HIDE DEF r
  <2>. QED  BY <1>1, <2>1, LocalsTakesOver DEF HeartbeatFires, InUse
<1>2. CASE ExtendLease(w)
  <2>. DEFINE r == [wk[w] EXCEPT !.hb = None]
              l == [wk[w] EXCEPT !.hb = None, !.lost = TRUE]
  <2>1. r.pc = wk[w].pc /\ l.pc = wk[w].pc
    BY <1>0 DEF Local
  <2>2. Locals(w, r) \/ Locals(w, l)
    BY <1>2 DEF ExtendLease
  <2>. HIDE DEF r, l
  <2>3. CallTakenOver(w)
    BY <1>2, <2>1, <2>2, LocalsTakesOver DEF ExtendLease
  <2>4. InUse' => InUse /\ row'.resource = row.resource
    BY <1>0, <1>2 DEF ExtendLease, InUse, Binding
  <2>. QED  BY <1>2, <2>3, <2>4, SpentGrows DEF ExtendLease
<1>3. CASE ProviderReturns(w)
  <2>. DEFINE r == [wk[w] EXCEPT !.started = 0,
                      !.pc = IF op[w].stage = "ok" THEN "finalize" ELSE "finalizeFail"]
  <2>1. r.pc = "finalize" => op[w].stage = "ok"
    BY <1>0 DEF Local
  <2>2. (\E o : Return(w, o)) \/ (Locals(w, r) /\ UNCHANGED op)
    BY <1>3 DEF ProviderReturns
  <2>. HIDE DEF r
  <2>3. CallTakenOver(w)
    BY <1>3, <2>1, <2>2, LocalsTakesOver, ReturnTakesOver DEF ProviderReturns
  <2>. QED  BY <1>3, <2>3 DEF ProviderReturns, InUse
<1>4. CASE TimeoutFires(w)
  <2>. DEFINE r == [wk[w] EXCEPT !.pc = "catchFail", !.started = 0]
  <2>1. r.pc = "catchFail" /\ Locals(w, r)
    BY <1>0, <1>4 DEF TimeoutFires, Local
  <2>. HIDE DEF r
  <2>. QED  BY <1>4, <2>1, LocalsTakesOver DEF TimeoutFires, InUse
<1>5. ASSUME NEW to, NEW i, NEW o, Finalize(w, to, i, o), UNCHANGED router
      PROVE  /\ CallTakenOver(w) /\ spent'.external = spent.external
             /\ \/ UNCHANGED row
                \/ row'.status = to /\ row'.resource = i
  BY <1>5, GotoTakesOver, ReturnTakesOver, SpentGrows DEF Finalize, ClaimGuardedTransition
<1>6. CASE FinalizeSuccess(w)
  BY <1>5, <1>6 DEF FinalizeSuccess, InUse
<1>7. CASE FinalizeFailure(w)
  BY <1>5, <1>7 DEF FinalizeFailure, InUse
<1>8. CASE CallerReads(w)
  BY <1>8, LocalsTakesOver DEF CallerReads, Idle, InUse
<1>. QED  BY <1>1, <1>2, <1>3, <1>4, <1>6, <1>7, <1>8 DEF Waiting

\* Nor does anybody else bring one into use, unless an operator declares it bound.
LEMMA WorldKeepsUse ==
  ASSUME TypeOK, <<"PROVISIONING", "BOUND">> \notin OperatorMoves,
         Reconciling \/ Environment
  PROVE  /\ RouterStays /\ UNCHANGED <<wk, op>>
         /\ InUse' => InUse /\ row'.resource = row.resource
<1>0. /\ row \in Binding /\ rec \in Observation
      /\ router \in [id : OrNone(Nat), active : BOOLEAN, next : Nat]
      /\ spent \in [faults : Nat, crashes : Nat, external : Nat]
  BY DEF TypeOK
<1>1. CASE RecSnapshot \/ RecObserve \/ Tick
  BY <1>1, SpentGrows DEF RecSnapshot, RecObserve, Tick, RouterStays, InUse
<1>2. CASE RecCommit
  <2>. DEFINE d == MapReconciliationResult(rec.status, rec.result)
  <2>1. row' = row \/ /\ row.status = rec.status /\ row'.status = d.target
                      /\ row'.resource = row.resource
    BY <1>0, <1>2 DEF RecCommit, Binding
  <2>2. d.target \in {"BOUND", "DEGRADED"} => rec.status \in {"BOUND", "DEGRADED"}
    BY <1>0 DEF MapReconciliationResult, IsLegal, RECONCILIATION_LEGAL_TRANSITIONS,
                Observation, BindingState
  <2>. QED  BY <1>2, <2>1, <2>2 DEF RecCommit, RouterStays, InUse
<1>3. CASE LatePut
  BY <1>0, <1>3 DEF LatePut, CreateIfAbsent, RouterStays, InUse
<1>4. CASE TransitionBinding
  <2>1. PICK to \in BINDING_TRANSITIONS[row.status] :
          <<row.status, to>> \in OperatorMoves /\ row' = [row EXCEPT !.status = to]
    BY <1>4 DEF TransitionBinding
  <2>2. to \in {"BOUND", "DEGRADED"} => row.status \in {"BOUND", "DEGRADED"}
    BY <1>0, <2>1 DEF BINDING_TRANSITIONS, Binding, BindingState
  <2>. QED  BY <1>0, <1>4, <2>1, <2>2 DEF TransitionBinding, RouterStays, InUse, Binding
<1>5. CASE RouterChanges BY <1>0, <1>5 DEF RouterChanges, RouterStays, InUse
<1>. QED  BY <1>1, <1>2, <1>3, <1>4, <1>5 DEF Reconciling, Environment

LEMMA InitBoundInv == Init => BoundInv
BY DEF Init, BoundInv, CallsSucceeded, ResourcesKnown, InUse, Idle, NoCall

LEMMA BoundStep ==
  ASSUME TypeOK, BoundInv, <<"PROVISIONING", "BOUND">> \notin OperatorMoves, [Next]_vars
  PROVE  BoundInv'
<1>. USE DEF BoundInv, CallsSucceeded, ResourcesKnown, OnRouter
<1>1. ASSUME NEW w \in Worker, CallTakenOver(w), spent'.external = spent.external,
             InUse' => \/ InUse /\ row'.resource = row.resource
                       \/ wk[w].pc = "finalize" /\ row'.resource = op[w].id
      PROVE  BoundInv'
  BY <1>1 DEF CallTakenOver
<1>2. ASSUME NEW w \in Worker, Claiming(w) PROVE BoundInv'
  BY <1>1, <1>2, ClaimingTakesOver
<1>3. ASSUME NEW w \in Worker, Waiting(w) PROVE BoundInv'
  BY <1>1, <1>3, WaitingTakesOver
<1>4. ASSUME NEW w \in Worker, Calling(w) PROVE BoundInv'
  BY <1>4, CallingFinds DEF RouterStays, InUse
<1>5. ASSUME NEW w \in Worker, Crash(w) PROVE BoundInv'
  BY <1>5 DEF Crash, Locals, TypeOK, Idle, NoCall, InUse
<1>6. CASE Reconciling \/ Environment BY <1>6, WorldKeepsUse DEF RouterStays
<1>7. CASE UNCHANGED vars
  BY <1>7 DEF vars, InUse
<1>. QED  BY <1>2, <1>3, <1>4, <1>5, <1>6, <1>7 DEF Next

\* Unless an operator declares a binding bound, one that is in use names the resource
\* the router has, through timeouts, uncertain and late PUTs, deaths and takeovers
\* (provisionBinding, adapter.provision, entitlement.ts:2031-2048).
THEOREM BoundIsOnRouter ==
  <<"PROVISIONING", "BOUND">> \notin OperatorMoves => (Spec => []BoundMeansProvisioned)
<1>. SUFFICES ASSUME <<"PROVISIONING", "BOUND">> \notin OperatorMoves
              PROVE  Spec => []BoundMeansProvisioned
  OBVIOUS
<1>1. IInv /\ BoundInv /\ [Next]_vars => BoundInv'
  BY BoundStep DEF IInv
<1>2. BoundInv => BoundMeansProvisioned
  BY DEF BoundInv, ResourcesKnown, OnRouter, InUse, BoundMeansProvisioned
<1>. QED  BY Invariance, InitBoundInv, <1>1, <1>2, PTL DEF Spec

-----------------------------------------------------------------------------
\* A punctual worker keeps its claim. Nobody else moving the row, a worker between its
\* claim and its finalization owns it under a lease that outlives its call: the lease
\* counts from a clock that has not moved when the call starts, the call ends within
\* OpTimeout, and every extension counts from a later clock.

OnTime == Punctual /\ ~Reconciler /\ OperatorMoves = {}

\* An attempt belongs to one worker.
AttemptsDistinct == \A w, v \in Worker :
  wk[w].att # None => wk[w].att < nextAttempt /\ (v # w => wk[v].att # wk[w].att)

\* The clock a claim or an extension counts from is the wall's.
Fresh(w) ==
  /\ wk[w].pc \in {"claim", "claimRead", "takeover"} => wk[w].t0 = clock
  /\ wk[w].hb # None => wk[w].pc \in Beating /\ wk[w].hb = clock

Holding == {"verify", "running", "finalize", "finalizeFail"}

LeaseOutlives(w) ==
  /\ row.expires \in Nat
  /\ clock < row.expires
  /\ wk[w].pc = "verify" => clock + Lease <= row.expires
  /\ wk[w].pc = "running" =>
       /\ wk[w].started <= clock /\ clock <= wk[w].started + OpTimeout
       /\ wk[w].started + Lease <= row.expires

Kept(w) ==
  /\ wk[w].pc \in Holding => Owns(w) /\ LeaseOutlives(w)
  /\ wk[w].pc # "catchFail" => ~wk[w].lost

KeepInv == /\ AttemptsDistinct /\ (\A w \in Worker : Fresh(w) /\ Kept(w))
           /\ rec.pc = "idle"

LEMMA InitKeepInv == Init => KeepInv
BY DEF Init, KeepInv, AttemptsDistinct, Fresh, Kept, Holding, Beating, Idle, NoRec

\* The others hold what they held, if the row is not theirs or does not move.
LEMMA OneWorkerMoves ==
  ASSUME TypeOK, KeepInv, NEW w \in Worker, NEW r \in Local, Locals(w, r),
         UNCHANGED <<clock, rec>>,
         \/ r.att \in {None, wk[w].att} /\ UNCHANGED nextAttempt
         \/ r.att = nextAttempt /\ nextAttempt' = nextAttempt + 1,
         UNCHANGED row \/ \A v \in Worker : v # w => wk[v].pc \notin Holding,
         Fresh(w)', Kept(w)'
  PROVE  KeepInv'
<1>1. wk'[w] = r /\ \A v \in Worker : v # w => wk'[v] = wk[v]
  BY DEF TypeOK, Locals
<1>2. AttemptsDistinct'
  BY <1>1, NoneAssumption DEF TypeOK, Local, KeepInv, AttemptsDistinct, OrNone
<1>3. ASSUME NEW v \in Worker, v # w PROVE Fresh(v)' /\ Kept(v)'
  BY <1>1, <1>3 DEF KeepInv, Fresh, Kept, Owns, LeaseOutlives
<1>. QED  BY <1>2, <1>3 DEF KeepInv

\* Who owns the row is the only one to hold it.
LEMMA OwnerHoldsAlone ==
  ASSUME IInv, KeepInv, NEW w \in Worker, wk[w].pc \in Beating, Owns(w)
  PROVE  \A v \in Worker : v # w => wk[v].pc \notin Holding
BY NoneAssumption DEF IInv, HasAttempt, KeepInv, Kept, Owns, AttemptsDistinct

LEMMA ReturnKeeps ==
  ASSUME TypeOK, KeepInv, NEW w \in Worker, NEW o \in Outcome, Return(w, o),
         UNCHANGED <<clock, rec, nextAttempt>>,
         UNCHANGED row \/ \A v \in Worker : v # w => wk[v].pc \notin Holding
  PROVE  KeepInv'
<1>. DEFINE r == [Idle EXCEPT !.pc = "done", !.ret = o]
<1>1. r \in Local /\ r.pc = "done" /\ r.att = None /\ ~r.lost /\ r.hb = None
  BY DEF Idle, Local, Pc, OrNone
<1>2. Locals(w, r)
  BY DEF Return
<1>. HIDE DEF r
<1>3. wk'[w] = r
  BY <1>2 DEF TypeOK, Locals
<1>4. Fresh(w)' /\ Kept(w)'
  BY <1>1, <1>3 DEF Fresh, Kept, Holding, Beating
<1>. QED  BY <1>1, <1>2, <1>4, OneWorkerMoves

LEMMA GotoKeeps ==
  ASSUME TypeOK, KeepInv, NEW w \in Worker, NEW pc \in {"resolve", "claimRead", "catchFail"},
         Goto(w, pc), UNCHANGED <<clock, rec, nextAttempt>>,
         pc = "claimRead" => wk[w].pc = "claim",
         pc = "catchFail" => wk[w].pc \in Beating,
         pc # "catchFail" => wk[w].pc \notin Beating,
         UNCHANGED row \/ \A v \in Worker : v # w => wk[v].pc \notin Holding
  PROVE  KeepInv'
<1>. DEFINE r == [wk[w] EXCEPT !.pc = pc]
<1>0. wk[w] \in Local
  BY DEF TypeOK
<1>1. /\ r \in Local /\ r.pc = pc /\ r.att = wk[w].att /\ r.lost = wk[w].lost
      /\ r.t0 = wk[w].t0 /\ r.hb = wk[w].hb
  BY <1>0 DEF Local, Pc
<1>2. Locals(w, r)
  BY DEF Goto
<1>. HIDE DEF r
<1>3. wk'[w] = r
  BY <1>2 DEF TypeOK, Locals
<1>4. Fresh(w)' /\ Kept(w)'
  BY <1>1, <1>3 DEF KeepInv, Fresh, Kept, Holding, Beating
<1>. QED  BY <1>1, <1>2, <1>4, OneWorkerMoves

LEMMA GrantKeeps ==
  ASSUME TypeOK, KeepInv, NEW w \in Worker, wk[w].pc \in {"claim", "takeover"}, Granted(w),
         row' \in Binding, row'.status = "PROVISIONING", row'.attempt = nextAttempt,
         row'.expires = LeaseFrom(wk[w].t0), UNCHANGED <<clock, rec>>,
         \A v \in Worker : v # w => wk[v].pc \notin Holding
  PROVE  KeepInv'
<1>. DEFINE r == [wk[w] EXCEPT !.pc = "verify", !.att = nextAttempt, !.seen = None, !.t0 = 0]
<1>0. wk[w] \in Local /\ clock \in Nat /\ nextAttempt \in Nat
  BY DEF TypeOK
<1>1. /\ r \in Local /\ r.pc = "verify" /\ r.att = nextAttempt /\ r.lost = wk[w].lost
      /\ r.hb = wk[w].hb
  BY <1>0 DEF Local, Pc, OrNone
<1>2. Locals(w, r)
  BY DEF Granted
<1>. HIDE DEF r
<1>3. wk'[w] = r
  BY <1>2 DEF TypeOK, Locals
<1>4. row'.expires = clock + Lease
  BY DEF KeepInv, Fresh, LeaseFrom
<1>5. clock + Lease \in Nat /\ clock < clock + Lease
  BY <1>0, TimingAssumption
<1>6. LeaseOutlives(w)'
  BY <1>0, <1>1, <1>3, <1>4, <1>5, TimingAssumption DEF LeaseOutlives
<1>7. Fresh(w)' /\ Kept(w)'
  BY <1>1, <1>3, <1>6 DEF KeepInv, Fresh, Kept, Owns, Holding, Beating
<1>. QED  BY <1>1, <1>2, <1>7, OneWorkerMoves DEF Granted

LEMMA ClaimingKeeps ==
  ASSUME IInv, KeepInv, NEW w \in Worker, Claiming(w)
  PROVE  KeepInv'
<1>0. TypeOK /\ wk[w] \in Local /\ clock \in Nat /\ row \in Binding
  BY DEF IInv, TypeOK
<1>1. CASE ProvisionBinding(w)
  BY <1>0, <1>1, GotoKeeps DEF ProvisionBinding, Beating
<1>2. CASE ReconcileProvisioning(w)
  BY <1>2, <1>0, GotoKeeps, ReturnKeeps DEF ReconcileProvisioning, Outcome, Beating
<1>3. CASE Resolve(w)
  <2>. DEFINE r == [wk[w] EXCEPT !.pc = "claim", !.snap = row.resource, !.t0 = clock]
  <2>1. /\ r \in Local /\ r.pc = "claim" /\ r.t0 = clock /\ r.att = wk[w].att
        /\ r.lost = wk[w].lost /\ r.hb = wk[w].hb
    BY <1>0 DEF Local, Pc, Binding
  <2>2. (\E o \in Outcome : Return(w, o)) \/ Locals(w, r)
    BY <1>3 DEF Resolve, Outcome
  <2>. HIDE DEF r
  <2>3. CASE Locals(w, r)
    BY <1>0, <2>3, <1>3, <2>1, OneWorkerMoves DEF TypeOK, Locals, Resolve, KeepInv, Fresh, Kept,
       Holding, Beating
  <2>. QED  BY <1>0, <1>3, <2>2, <2>3, ReturnKeeps DEF Resolve
<1>4. ASSUME NEW v \in Worker, wk[v].pc \in Holding
      PROVE  row.status = "PROVISIONING" /\ row.expires \in Nat /\ clock < row.expires
  BY <1>4 DEF KeepInv, Kept, Owns, LeaseOutlives
<1>5. CASE ClaimUnbound(w)
  BY <1>5, ClaimingType, <1>0, <1>4, GrantKeeps, GotoKeeps DEF IInv, TypeOK, Claiming, ClaimUnbound,
     Binding, Beating
<1>6. CASE ClaimRead(w)
  <2>. DEFINE r == [wk[w] EXCEPT !.pc = "takeover", !.seen = row.attempt]
  <2>1. /\ r \in Local /\ r.pc = "takeover" /\ r.t0 = wk[w].t0 /\ r.att = wk[w].att
        /\ r.lost = wk[w].lost /\ r.hb = wk[w].hb
    BY <1>0 DEF Local, Pc, Binding
  <2>2. Return(w, "claim_lost") \/ Locals(w, r)
    BY <1>6 DEF ClaimRead
  <2>. HIDE DEF r
  <2>3. CASE Locals(w, r)
    BY <1>0, <2>3, <1>6, <2>1, OneWorkerMoves DEF TypeOK, Locals, ClaimRead, KeepInv, Fresh, Kept,
       Holding, Beating
  <2>. QED  BY <1>0, <1>6, <2>2, <2>3, ReturnKeeps DEF ClaimRead, Outcome
<1>7. CASE TakeOver(w)
  <2>1. CASE MayTakeOver(w)
    <3>1. row' \in Binding
      BY <1>7, ClaimingType DEF IInv, TypeOK, Claiming
    <3>2. /\ row'.status = "PROVISIONING" /\ row'.attempt = nextAttempt
          /\ row'.expires = LeaseFrom(wk[w].t0) /\ wk[w].pc = "takeover" /\ Granted(w)
          /\ UNCHANGED <<clock, rec>>
      BY <1>0, <1>7, <2>1 DEF TakeOver, MayTakeOver, Binding
    <3>3. row.expires = None \/ row.expires < clock
      BY <2>1, <3>2 DEF MayTakeOver, Expired, KeepInv, Fresh
    <3>4. \A v \in Worker : wk[v].pc \notin Holding
      BY <1>0, <1>4, <3>3, NoneAssumption
    <3>. QED  BY <1>0, <3>1, <3>2, <3>4, GrantKeeps
  <2>2. CASE ~MayTakeOver(w)
    BY <1>0, <1>7, <2>2, ReturnKeeps DEF TakeOver, Outcome
  <2>. QED  BY <2>1, <2>2
<1>8. CASE VerifyOwnership(w)
  <2>. DEFINE r == [wk[w] EXCEPT !.pc = "running", !.started = clock, !.beat = clock + Heartbeat]
  <2>1. /\ r \in Local /\ r.pc = "running" /\ r.started = clock /\ r.att = wk[w].att
        /\ r.lost = wk[w].lost /\ r.hb = wk[w].hb
    <3>1. clock + Heartbeat \in Nat
      BY <1>0, TimingAssumption
    <3>. QED  BY <1>0, <3>1 DEF Local, Pc
  <2>2. Return(w, "claim_lost") \/ Locals(w, r)
    BY <1>8 DEF VerifyOwnership
  <2>3. UNCHANGED <<clock, rec, row, nextAttempt>> /\ wk[w].pc = "verify"
    BY <1>8 DEF VerifyOwnership
  <2>. HIDE DEF r
  <2>4. CASE Locals(w, r)
    <3>1. wk'[w] = r
      BY <1>0, <2>4 DEF TypeOK, Locals
    <3>2. Owns(w) /\ LeaseOutlives(w) /\ ~wk[w].lost
      BY <2>3 DEF KeepInv, Kept, Holding
    <3>3. LeaseOutlives(w)' BY <1>0, <2>3, <3>2, TimingAssumption, <2>1, <3>1 DEF LeaseOutlives
    <3>4. wk[w].hb = None
      BY <2>3 DEF KeepInv, Fresh, Beating
    <3>5. Fresh(w)' /\ Kept(w)'
      BY <2>1, <2>3, <3>1, <3>2, <3>3, <3>4 DEF Fresh, Kept, Owns
    <3>. QED  BY <1>0, <2>1, <2>3, <2>4, <3>5, OneWorkerMoves
  <2>. QED  BY <1>0, <2>2, <2>3, <2>4, ReturnKeeps DEF Outcome
<1>. QED  BY <1>1, <1>2, <1>3, <1>5, <1>6, <1>7, <1>8 DEF Claiming

LEMMA WaitingKeeps ==
  ASSUME IInv, KeepInv, NEW w \in Worker, Waiting(w)
  PROVE  KeepInv'
<1>0. /\ TypeOK /\ wk[w] \in Local /\ clock \in Nat /\ row \in Binding
      /\ clock + Heartbeat \in Nat
  BY TimingAssumption DEF IInv, TypeOK
<1>1. CASE HeartbeatFires(w)
  <2>. DEFINE r == [wk[w] EXCEPT !.hb = IF @ = None THEN clock ELSE @, !.beat = clock + Heartbeat]
  <2>1. /\ r \in Local /\ r.pc = wk[w].pc /\ r.att = wk[w].att /\ r.lost = wk[w].lost
        /\ r.started = wk[w].started /\ r.hb \in {clock, wk[w].hb} /\ r.t0 = wk[w].t0
    BY <1>0 DEF Local, OrNone
  <2>2. Locals(w, r) /\ UNCHANGED <<clock, rec, row, nextAttempt>> /\ wk[w].pc \in Beating
    BY <1>1 DEF HeartbeatFires
  <2>. HIDE DEF r
  <2>3. wk'[w] = r
    BY <1>0, <2>2 DEF TypeOK, Locals
  <2>4. Fresh(w)' /\ Kept(w)'
    BY <2>1, <2>2, <2>3 DEF KeepInv, Fresh, Kept, Owns, LeaseOutlives, Holding, Beating
  <2>. QED  BY <1>0, <2>1, <2>2, <2>4, OneWorkerMoves
<1>2. CASE ExtendLease(w)
  <2>. DEFINE r == [wk[w] EXCEPT !.hb = None]
              l == [wk[w] EXCEPT !.hb = None, !.lost = TRUE]
  <2>0. \/ Locals(w, r) /\ UNCHANGED row
        \/ Locals(w, r) /\ Owns(w) /\ row' = [row EXCEPT !.expires = LeaseFrom(wk[w].hb)]
        \/ ~(Owns(w) /\ Active(row.expires, wk[w].hb)) /\ Locals(w, l) /\ UNCHANGED row
    BY <1>2 DEF ExtendLease
  <2>1. /\ r \in Local /\ r.pc = wk[w].pc /\ r.att = wk[w].att /\ r.lost = wk[w].lost
        /\ r.started = wk[w].started /\ r.hb = None /\ r.t0 = wk[w].t0
        /\ l \in Local /\ l.pc = wk[w].pc /\ l.att = wk[w].att /\ l.hb = None /\ l.t0 = wk[w].t0
    BY <1>0 DEF Local, OrNone
  <2>2. UNCHANGED <<clock, rec, nextAttempt>> /\ wk[w].pc \in Beating /\ wk[w].hb = clock
    BY <1>2 DEF ExtendLease, KeepInv, Fresh
  <2>. HIDE DEF r, l
  <2>3. ASSUME NEW q \in {r, l}, Locals(w, q) PROVE wk'[w] = q
    BY <1>0, <2>3 DEF TypeOK, Locals
  <2>4. CASE Locals(w, r) /\ UNCHANGED row
    BY <2>1, <2>2, <2>3, <2>4, <1>0, OneWorkerMoves DEF KeepInv, Fresh, Kept, Owns, LeaseOutlives,
       Holding, Beating
  <2>5. CASE Locals(w, r) /\ Owns(w) /\ row' = [row EXCEPT !.expires = LeaseFrom(wk[w].hb)]
    <3>1. /\ row'.expires = clock + Lease /\ row'.status = row.status
          /\ row'.attempt = row.attempt /\ clock + Lease \in Nat /\ clock < clock + Lease
      BY <1>0, <2>2, <2>5, TimingAssumption DEF LeaseFrom, Binding
    <3>2. wk[w].started <= clock => wk[w].started + Lease <= clock + Lease
      BY <1>0, TimingAssumption DEF Local
    <3>3. Fresh(w)' /\ Kept(w)'
      BY <2>1, <2>2, <2>3, <2>5, <3>1, <3>2
      DEF KeepInv, Fresh, Kept, Owns, LeaseOutlives, Holding, Beating
    <3>4. \A v \in Worker : v # w => wk[v].pc \notin Holding
      BY <2>2, <2>5, OwnerHoldsAlone
    <3>. QED  BY <1>0, <2>1, <2>2, <2>5, <3>3, <3>4, OneWorkerMoves
  <2>6. CASE ~(Owns(w) /\ Active(row.expires, wk[w].hb)) /\ Locals(w, l) /\ UNCHANGED row
    <3>1. wk[w].pc \notin Holding
      BY <1>0, <2>2, <2>6, NoneAssumption DEF KeepInv, Kept, LeaseOutlives, Active
    <3>2. Fresh(w)' /\ Kept(w)'
      BY <2>1, <2>2, <2>3, <2>6, <3>1 DEF KeepInv, Fresh, Kept, Holding, Beating
    <3>. QED  BY <1>0, <2>1, <2>2, <2>6, <3>2, OneWorkerMoves
  <2>. QED  BY <2>4, <2>5, <2>6, <2>0
<1>3. CASE ProviderReturns(w)
  <2>. DEFINE r == [wk[w] EXCEPT !.started = 0,
                      !.pc = IF op[w].stage = "ok" THEN "finalize" ELSE "finalizeFail"]
  <2>1. /\ r \in Local /\ r.pc \in {"finalize", "finalizeFail"} /\ r.att = wk[w].att
        /\ r.lost = wk[w].lost /\ r.hb = wk[w].hb
    BY <1>0 DEF Local, Pc
  <2>2. UNCHANGED <<clock, rec, row, nextAttempt>> /\ wk[w].pc = "running"
    BY <1>3 DEF ProviderReturns
  <2>3. Return(w, "claim_lost") \/ Locals(w, r)
    BY <1>3 DEF ProviderReturns
  <2>. HIDE DEF r
  <2>4. CASE Locals(w, r)
    BY <1>0, <2>4, <2>1, <2>2, OneWorkerMoves DEF TypeOK, Locals, KeepInv, Fresh, Kept, Owns,
       LeaseOutlives, Holding, Beating
  <2>. QED  BY <1>0, <2>2, <2>3, <2>4, ReturnKeeps DEF Outcome
<1>4. CASE TimeoutFires(w)
  <2>. DEFINE r == [wk[w] EXCEPT !.pc = "catchFail", !.started = 0]
  <2>1. /\ r \in Local /\ r.pc = "catchFail" /\ r.att = wk[w].att /\ r.hb = wk[w].hb
    BY <1>0 DEF Local, Pc
  <2>2. /\ UNCHANGED <<clock, rec, row, nextAttempt>> /\ wk[w].pc = "running"
        /\ Locals(w, r)
    BY <1>4 DEF TimeoutFires
  <2>. HIDE DEF r
  <2>3. wk'[w] = r
    BY <1>0, <2>2 DEF TypeOK, Locals
  <2>4. Fresh(w)' /\ Kept(w)'
    BY <2>1, <2>2, <2>3 DEF KeepInv, Fresh, Kept, Holding, Beating
  <2>. QED  BY <1>0, <2>1, <2>2, <2>4, OneWorkerMoves
<1>5. ASSUME NEW to, NEW i, NEW o \in Outcome, Finalize(w, to, i, o), wk[w].pc \in Beating,
             UNCHANGED <<clock, rec, nextAttempt>>
      PROVE  KeepInv'
  BY <1>5, OwnerHoldsAlone, <1>0, GotoKeeps, ReturnKeeps DEF Finalize, ClaimGuardedTransition,
     Outcome
<1>6. CASE FinalizeSuccess(w)
  BY <1>5, <1>6 DEF FinalizeSuccess, Outcome, Beating
<1>7. CASE FinalizeFailure(w)
  BY <1>5, <1>7 DEF FinalizeFailure, Outcome, Beating
<1>8. CASE CallerReads(w)
  <2>1. Idle \in Local /\ Idle.pc = "idle" /\ Idle.att = None /\ ~Idle.lost /\ Idle.hb = None
    BY DEF Idle, Local, Pc, OrNone
  <2>2. wk'[w] = Idle /\ Locals(w, Idle) /\ UNCHANGED <<clock, rec, row, nextAttempt>>
    BY <1>0, <1>8 DEF CallerReads, Locals, TypeOK
  <2>3. Fresh(w)' /\ Kept(w)'
    BY <2>1, <2>2 DEF Fresh, Kept, Holding
  <2>. QED  BY <1>0, <2>1, <2>2, <2>3, OneWorkerMoves
<1>. QED  BY <1>1, <1>2, <1>3, <1>4, <1>6, <1>7, <1>8 DEF Waiting

\* Time passes only for workers that wait, and for no call longer than OpTimeout.
LEMMA TickKeeps ==
  ASSUME TypeOK, KeepInv, OnTime, Tick
  PROVE  KeepInv'
<1>0. clock \in Nat /\ clock' = clock + 1 /\ UNCHANGED <<row, wk, nextAttempt, rec>>
  BY DEF TypeOK, Tick
<1>1. ASSUME NEW w \in Worker PROVE Fresh(w)' /\ Kept(w)'
  <2>1. Fresh(w) /\ Kept(w) /\ ~Overdue(w) /\ wk[w] \in Local
    BY DEF KeepInv, TypeOK, OnTime, Tick
  <2>2. /\ wk[w].pc \in {"idle", "done", "running"}
        /\ wk[w].pc = "running" => wk[w].hb = None /\ ~(clock >= wk[w].started + OpTimeout)
    BY <2>1 DEF Overdue, Beating
  <2>3. CASE wk[w].pc = "running"
    BY <2>1, <2>3, <1>0, <2>2, TimingAssumption DEF Kept, Holding, Local, LeaseOutlives, Fresh, Owns
  <2>4. CASE wk[w].pc \in {"idle", "done"}
    BY <1>0, <2>1, <2>4 DEF Fresh, Kept, Holding, Beating
  <2>. QED  BY <2>2, <2>3, <2>4
<1>. QED  BY <1>0, <1>1 DEF KeepInv, AttemptsDistinct

LEMMA KeepStep ==
  ASSUME IInv, KeepInv, OnTime, [Next]_vars
  PROVE  KeepInv'
<1>0. TypeOK
  BY DEF IInv
<1>1. ASSUME UNCHANGED <<row, wk, clock, nextAttempt, rec>> PROVE KeepInv'
  BY <1>1 DEF KeepInv, AttemptsDistinct, Fresh, Kept, Owns, LeaseOutlives
<1>2. ASSUME NEW w \in Worker, Calling(w) PROVE KeepInv'
  BY <1>1, <1>2 DEF Calling, GetById, LookUp, Put, Converge, PutAgain
<1>3. ASSUME NEW w \in Worker, Crash(w) PROVE KeepInv'
  <2>1. Idle \in Local /\ Idle.pc = "idle" /\ Idle.att = None /\ ~Idle.lost /\ Idle.hb = None
    BY DEF Idle, Local, Pc, OrNone
  <2>2. wk'[w] = Idle /\ Locals(w, Idle) /\ UNCHANGED <<clock, rec, row, nextAttempt>>
    BY <1>0, <1>3 DEF Crash, Locals, TypeOK
  <2>3. Fresh(w)' /\ Kept(w)'
    BY <2>1, <2>2 DEF Fresh, Kept, Holding
  <2>. QED  BY <1>0, <2>1, <2>2, <2>3, OneWorkerMoves
<1>4. ~Reconciling
  BY DEF OnTime, KeepInv, Reconciling, RecSnapshot, RecObserve, RecCommit
<1>5. CASE Environment
  BY <1>1, <1>0, <1>5, TickKeeps DEF OnTime, TransitionBinding, LatePut, RouterChanges, Environment
<1>6. CASE UNCHANGED vars
  BY <1>1, <1>6 DEF vars
<1>. QED  BY <1>2, <1>3, <1>4, <1>5, <1>6, ClaimingKeeps, WaitingKeeps DEF Next

\* Timers that are punctual, and nobody else moving the row: a worker that lives never
\* loses its claim while its provider call runs, however many other workers try, and
\* whether or not its heartbeats get through (entitlement.ts:1546-1548).
THEOREM LiveWorkersKeepTheirClaims == OnTime => (Spec => []LiveWorkerKeepsClaim)
<1>. SUFFICES ASSUME OnTime PROVE Spec => []LiveWorkerKeepsClaim
  OBVIOUS
<1>1. IInv /\ KeepInv /\ [Next]_vars => KeepInv'
  BY KeepStep
<1>2. IInv /\ KeepInv => LiveWorkerKeepsClaim
  <2>. SUFFICES ASSUME IInv, KeepInv, NEW w \in Worker,
                       wk[w].pc \in {"running", "finalize", "finalizeFail"}
                PROVE  Owns(w) /\ row.expires # None /\ row.expires >= clock /\ ~wk[w].lost
    BY DEF LiveWorkerKeepsClaim
  <2>1. Owns(w) /\ LeaseOutlives(w) /\ ~wk[w].lost /\ clock \in Nat
    BY DEF IInv, TypeOK, KeepInv, Kept, Holding
  <2>. QED  BY <2>1, NoneAssumption DEF LeaseOutlives
<1>. QED  BY Invariance, InitKeepInv, <1>1, <1>2, PTL DEF Spec

===============================================================================

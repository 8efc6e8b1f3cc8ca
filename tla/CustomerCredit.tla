----------------------------- MODULE CustomerCredit -----------------------------
(***************************************************************************)
(* The credit of customers: rewards granted by a referral or by hand, their *)
(* records (CreditIssuance) and ledger postings, the job that repairs them, *)
(* and the spending of credit.                                              *)
(*                                                                         *)
(* Source: src/src/lib/promotions/referral-service.ts. The transaction of a *)
(* grant holds its claim until it commits; it reads each balance without a  *)
(* lock and writes a sum when it commits.                                   *)
(***************************************************************************)
EXTENDS Integers, Sequences

CONSTANTS
  User, Use,     \* customers; a use of a referral code, or an operation by hand
  Recipients,    \* of each use, in the order they are credited
  ByHand,        \* the uses that are not referrals
  Caller,        \* requests that grant
  Order,         \* what credit is spent for
  REWARD         \* the credit one recipient gets, in minor units

ASSUME RewardAssumption == REWARD \in Nat \ {0}
ASSUME RecipientsAssumption ==
  /\ Recipients \in [Use -> Seq(User)]
  /\ \A use \in Use : \A j, k \in DOMAIN Recipients[use] :
       Recipients[use][j] = Recipients[use][k] => j = k
  /\ Use # {}

VARIABLES
  balance,     \* CustomerCredit.balanceMinor
  spent,       \* the purchase_credit transaction of an order, 0 when there is none
  issuance,    \* CreditIssuance: status, and was it updated five minutes ago?
  granted,     \* the transactions that added a use's credit to a user
  booked,      \* is the issuance in the ledger?
  caller,      \* what each request grants, its program counter, the balances it read
  creditLeft   \* bound left: faults

creditVars == <<balance, spent, issuance, granted, booked, caller, creditLeft>>

GrantsTo(use) == {Recipients[use][k] : k \in DOMAIN Recipients[use]}
Issuance == {i \in Use \X User : i[2] \in GrantsTo(i[1])}
Absent == [status |-> "none", old |-> FALSE]

CreditTypeOK ==
  /\ balance \in [User -> Nat] /\ spent \in [Order -> Nat]
  /\ issuance \in [Issuance -> [status : {"none", "pending", "completed",
                                          "reconciliation_required"}, old : BOOLEAN]]
  /\ granted \in [Issuance -> Nat] /\ booked \in [Issuance -> BOOLEAN]
  /\ caller \in [Caller -> [pc : {"claim", "read", "post", "done"}, use : Use, next : Nat \ {0},
                            read : [User -> Nat]]]
  /\ \A c \in Caller : caller[c].next <= Len(Recipients[caller[c].use]) + 1
  /\ creditLeft \in Nat

\* A plan has the balances before, the use each request grants and the bound of
\* faults; the other callers do nothing.
CreditPlan(of) ==
  /\ of.balance \in [User -> Nat] /\ of.faults \in Nat
  /\ \A c \in DOMAIN of.grants : of.grants[c] \in Use
GrantOf(grants, c) ==
  [pc |-> IF c \in DOMAIN grants THEN "claim" ELSE "done",
   use |-> IF c \in DOMAIN grants THEN grants[c] ELSE CHOOSE use \in Use : TRUE,
   next |-> 1, read |-> [user \in User |-> 0]]

CreditInitOf(of) ==
  /\ balance = of.balance /\ spent = [order \in Order |-> 0]
  /\ issuance = [i \in Issuance |-> Absent]
  /\ granted = [i \in Issuance |-> 0] /\ booked = [i \in Issuance |-> FALSE]
  /\ caller = [c \in Caller |-> GrantOf(of.grants, c)]
  /\ creditLeft = of.faults

-----------------------------------------------------------------------------

CallerAt(c, pc) == caller[c].pc = pc
CallerGoes(c, pc) == caller' = [caller EXCEPT ![c].pc = pc, ![c].next = 1]
Mine(c) == {caller[c].use} \X GrantsTo(caller[c].use)
Exhausted(c) == caller[c].next > Len(Recipients[caller[c].use])
Current(c) == Recipients[caller[c].use][caller[c].next]
Fails == creditLeft > 0 /\ creditLeft' = creditLeft - 1

(* completeReferral and addCredit.                                         *)

\* The claim: the use goes from pending to completed, or the record of an operation
\* by hand is inserted. A second claim waits for the first transaction's end.
Held(use) == \E c \in Caller : CallerAt(c, "read") /\ caller[c].use = use
Claimed(use) == \E user \in GrantsTo(use) : issuance[<<use, user>>].status # "none"

\* Who loses a referral is done; who loses an operation by hand posts it all the same.
ClaimGrant(c) ==
  LET use == caller[c].use IN
  /\ CallerAt(c, "claim") /\ ~Held(use)
  /\ CallerGoes(c, IF ~Claimed(use) THEN "read"
                   ELSE IF use \in ByHand THEN "post" ELSE "done")
  /\ UNCHANGED <<balance, spent, issuance, granted, booked, creditLeft>>

ReadBalance(c) ==
  /\ CallerAt(c, "read") /\ ~Exhausted(c)
  /\ caller' = [caller EXCEPT ![c].next = @ + 1, ![c].read[Current(c)] = balance[Current(c)]]
  /\ UNCHANGED <<balance, spent, issuance, granted, booked, creditLeft>>

\* Records, balances and transactions of all recipients at once.
CommitGrant(c) ==
  /\ CallerAt(c, "read") /\ Exhausted(c) /\ CallerGoes(c, "post")
  /\ balance' = [user \in User |-> IF user \in GrantsTo(caller[c].use)
                                     THEN caller[c].read[user] + REWARD ELSE balance[user]]
  /\ issuance' = [i \in Issuance |-> IF i \in Mine(c) THEN [Absent EXCEPT !.status = "pending"]
                                                      ELSE issuance[i]]
  /\ granted' = [i \in Issuance |-> granted[i] + IF i \in Mine(c) THEN 1 ELSE 0]
  /\ UNCHANGED <<spent, booked, creditLeft>>

-----------------------------------------------------------------------------
(* postCreditIssuance and processDueCreditIssuances.                       *)

Unsettled == {"pending", "reconciliation_required"}
IssuanceTo(i, status) ==
  issuance' = [issuance EXCEPT ![i] = IF @.status \in Unsettled
                                        THEN [status |-> status, old |-> FALSE] ELSE @]

\* The posting is idempotent and the status guarded. When either fails the record is
\* marked, and when that fails too it stays pending.
PostIssuance(c) ==
  LET i == <<caller[c].use, Current(c)>> IN
  /\ CallerAt(c, "post") /\ ~Exhausted(c)
  /\ caller' = [caller EXCEPT ![c].next = @ + 1]
  /\ \/ /\ IssuanceTo(i, "completed") /\ UNCHANGED creditLeft
        /\ booked' = [booked EXCEPT ![i] = TRUE]
     \/ /\ issuance[i].status # "completed" /\ Fails
        /\ \E posted \in {TRUE, booked[i]} : booked' = [booked EXCEPT ![i] = posted]
        /\ IssuanceTo(i, "reconciliation_required") \/ UNCHANGED issuance
  /\ UNCHANGED <<balance, spent, granted>>

CallerReturns(c) ==
  /\ CallerAt(c, "post") /\ Exhausted(c) /\ CallerGoes(c, "done")
  /\ UNCHANGED <<balance, spent, issuance, granted, booked, creditLeft>>

DueIfMarked(i) ==     \* mutant: records left pending are not looked for
  issuance[i].status = "reconciliation_required"

Due(i) ==
  \/ issuance[i].status = "reconciliation_required"
  \/ issuance[i].status = "pending" /\ issuance[i].old

\* One run of the job; a run that fails leaves the record as it is.
RepairIssuance(i) ==
  /\ Due(i) /\ IssuanceTo(i, "completed")
  /\ booked' = [booked EXCEPT ![i] = TRUE]
  /\ UNCHANGED <<balance, spent, granted, caller, creditLeft>>

-----------------------------------------------------------------------------
(* spendCredit, one transaction under the lock of the balance's row. An    *)
(* empty balance is answered first, with nothing, whatever was spent for   *)
(* the order before; then the unique transaction of the order decides.     *)

SpendInFull(user, order, amount) ==     \* mutant: more than the balance
  IF spent[order] # 0 THEN spent[order] ELSE amount

SpendOf(user, order, amount) ==
  IF balance[user] = 0 THEN 0
  ELSE IF spent[order] # 0 THEN spent[order]
  ELSE IF balance[user] < amount THEN balance[user] ELSE amount

SpendCredit(user, order, amount) ==
  /\ IF spent[order] # 0 THEN UNCHANGED <<balance, spent>>
     ELSE /\ balance' = [balance EXCEPT ![user] = @ - SpendOf(user, order, amount)]
          /\ spent' = [spent EXCEPT ![order] = SpendOf(user, order, amount)]
  /\ UNCHANGED <<issuance, granted, booked, caller, creditLeft>>

-----------------------------------------------------------------------------
(* Time and failures.                                                      *)

IssuanceAges(i) ==
  /\ issuance[i] = [status |-> "pending", old |-> FALSE]
  /\ issuance' = [issuance EXCEPT ![i].old = TRUE]
  /\ UNCHANGED <<balance, spent, granted, booked, caller, creditLeft>>

\* An open transaction is rolled back: nothing of it was written.
CallerStops(c) ==
  /\ caller[c].pc \in {"read", "post"} /\ CallerGoes(c, "done") /\ Fails
  /\ UNCHANGED <<balance, spent, issuance, granted, booked>>

Granting(c) == ClaimGrant(c) \/ ReadBalance(c) \/ CommitGrant(c) \/ PostIssuance(c)
               \/ CallerReturns(c)

CreditNext ==
  \/ \E c \in Caller : Granting(c) \/ CallerStops(c)
  \/ \E i \in Issuance : RepairIssuance(i) \/ IssuanceAges(i)

-----------------------------------------------------------------------------
(* Properties.                                                             *)

\* However many requests complete a use, and whichever of them dies, its credit is
\* added to a user once, and the ledger owes only what was added ("two concurrent
\* completeReferral() calls for the same ReferralUse produce EXACTLY: ... one referrer
\* reward, ... one ledger posting per recipient", referral-service.ts:72-80).
GrantedOnce ==
  \A i \in Issuance : granted[i] <= 1 /\ (booked[i] => granted[i] = 1)

\* Credit that was added is owed in the ledger sooner or later, whether its request
\* died, its posting failed or the mark of that failure was lost: "a guaranteed
\* recovery backstop" (referral-service.ts:309).
GrantIsBooked ==
  []<>(\A i \in Issuance : granted[i] > 0 => booked[i] /\ issuance[i].status = "completed")

\* What is granted is booked, once.
CreditIsBookedOnce == []GrantedOnce /\ GrantIsBooked
===============================================================================

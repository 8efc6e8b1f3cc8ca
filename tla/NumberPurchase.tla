------------------------------ MODULE NumberPurchase ------------------------------
(***************************************************************************)
(* A virtual number is bought, used and given back (virtual-numbers/        *)
(* service.ts, the provider's maps in mock-provider.ts, and the routes       *)
(* under app/api/virtual-numbers and app/api/webhooks/virtual-numbers).       *)
(* What becomes of its subscription afterwards is module NumberSubscription.  *)
(*                                                                         *)
(* A request makes at most one order, which has the request's name. A        *)
(* number's row is unique by its e164, so that a number has one row for ever. *)
(***************************************************************************)
EXTENDS Naturals, FiniteSets

CONSTANTS Line,         \* the provider's numbers
          Dial,         \* requests and deliveries
          LinePlans,    \* what a behaviour may begin with
          NoDial

\* A request is for one of the provider's numbers. A message has the id that the provider
\* gave it, so that none that was sent has the id of one that came in.
ASSUME LineAssumption ==
  /\ NoDial \notin Dial \cup Line
  /\ \A plan \in LinePlans :
       /\ plan.mishaps \in Nat
       /\ \A d \in Dial :
            /\ plan.dials[d].kind \in {"buy", "release", "send", "sms"}
            /\ plan.dials[d].number \in Line
            /\ plan.dials[d].kind \in {"send", "sms"} => plan.dials[d].message \in plan.messages
            /\ \A e \in Dial : plan.dials[d].kind = "send" /\ plan.dials[e].kind = "sms" =>
                 plan.dials[d].message # plan.dials[e].message

VARIABLES stock,        \* the provider's maps: free, sold, or in neither
          sold,         \* purchaseByIdem: what the provider sold under each order
          lineRow,      \* the VirtualNumber of each number, and its subscription
          lineOrder,    \* each order's status
          paidFor,      \* orders with a payment row
          inbox,        \* how many rows there are of each message, by the provider's id
          dial,         \* each request's place
          heard,        \* webhook events: those processed
          mixed,        \* messages of which two deliveries were under way at once
          mishaps       \* bound: statements that fail and requests that die

lineVars ==
  <<stock, sold, lineRow, lineOrder, paidFor, inbox, dial, heard, mixed, mishaps>>

NoRow == [status |-> "none", user |-> NoDial, order |-> NoDial, sub |-> "none"]

LineInitOf(plan) ==
  /\ stock = [n \in Line |-> "free"]
  /\ sold = [d \in Dial |-> NoDial]
  /\ lineRow = [n \in Line |-> NoRow]
  /\ lineOrder = [d \in Dial |-> "none"]
  /\ paidFor = {}
  /\ inbox = [m \in plan.messages |-> 0]
  /\ dial = [d \in Dial |-> [does |-> plan.dials[d], at |-> "begin"]]
  /\ heard = {}
  /\ mixed = {}
  /\ mishaps = plan.mishaps

LineInit == \E plan \in LinePlans : LineInitOf(plan)

-----------------------------------------------------------------------------

Asks(d, kind, at) == dial[d].does.kind = kind /\ dial[d].at = at
Steps(d, at) == dial' = [dial EXCEPT ![d].at = at]
Over(d) == Steps(d, "over")
N(d) == dial[d].does.number
User(d) == dial[d].does.user

\* The request before order, payment or rows: an error is answered and leaves all as it is.
LookUp(d) ==
  /\ Asks(d, "buy", "begin")
  /\ Steps(d, IF stock[N(d)] = "gone" THEN "over" ELSE "read")
  /\ UNCHANGED <<stock, sold, lineRow, lineOrder, paidFor, inbox, heard, mixed, mishaps>>

ReadRow(d) ==
  /\ Asks(d, "buy", "read")
  /\ Steps(d, IF lineRow[N(d)].status = "active" THEN "over" ELSE "order")
  /\ UNCHANGED <<stock, sold, lineRow, lineOrder, paidFor, inbox, heard, mixed, mishaps>>

\* A key of the client's is used for one order.
KeyUsed(d) == \E e \in Dial \ {d} : /\ dial[e].does.kind = "buy" /\ lineOrder[e] # "none"
                                    /\ dial[e].does.key = dial[d].does.key
PlaceLineOrder(d) ==
  /\ Asks(d, "buy", "order")
  /\ IF KeyUsed(d) THEN Over(d) /\ UNCHANGED lineOrder
     ELSE lineOrder' = [lineOrder EXCEPT ![d] = "CHECKOUT_CREATED"] /\ Steps(d, "intent")
  /\ UNCHANGED <<stock, sold, lineRow, paidFor, inbox, heard, mixed, mishaps>>

Sets(d, status, at) == lineOrder' = [lineOrder EXCEPT ![d] = status] /\ Steps(d, at)
OpenIntent(d) ==
  /\ Asks(d, "buy", "intent") /\ Sets(d, "PAYMENT_PENDING", "verify")
  /\ UNCHANGED <<stock, sold, lineRow, paidFor, inbox, heard, mixed, mishaps>>
VerifyPaid(d) ==
  /\ Asks(d, "buy", "verify")
  /\ Sets(d, "PAYMENT_CONFIRMED", "payment") \/ Sets(d, "PAYMENT_FAILED", "over")
  /\ UNCHANGED <<stock, sold, lineRow, paidFor, inbox, heard, mixed, mishaps>>
RecordPayment(d) ==
  /\ Asks(d, "buy", "payment")
  /\ paidFor' = paidFor \cup {d} /\ Steps(d, "provider")
  /\ UNCHANGED <<stock, sold, lineRow, lineOrder, inbox, heard, mixed, mishaps>>

\* The provider sells a number once; for the same key it answers the same.
SellsAnyOf(d) ==
  /\ Asks(d, "buy", "provider")
  /\ stock' = [stock EXCEPT ![N(d)] = "sold"] /\ sold' = [sold EXCEPT ![d] = N(d)]
  /\ Steps(d, "row")
  /\ UNCHANGED <<lineRow, lineOrder, paidFor, inbox, heard, mixed, mishaps>>
ProviderSells(d) ==
  /\ Asks(d, "buy", "provider")
  /\ IF stock[N(d)] = "free"
     THEN /\ stock' = [stock EXCEPT ![N(d)] = "sold"] /\ sold' = [sold EXCEPT ![d] = N(d)]
          /\ Steps(d, "row")
     ELSE Steps(d, "fail") /\ UNCHANGED <<stock, sold>>
  /\ UNCHANGED <<lineRow, lineOrder, paidFor, inbox, heard, mixed, mishaps>>

CreateRow(d) ==
  /\ Asks(d, "buy", "row")
  /\ IF lineRow[N(d)].status # "none" THEN Steps(d, "fail") /\ UNCHANGED lineRow
     ELSE /\ lineRow' = [lineRow EXCEPT ![N(d)] =
                           [status |-> "active", user |-> User(d), order |-> d, sub |-> "none"]]
          /\ Steps(d, "subscription")
  /\ UNCHANGED <<stock, sold, lineOrder, paidFor, inbox, heard, mixed, mishaps>>
CreateSubscription(d) ==
  /\ Asks(d, "buy", "subscription")
  /\ lineRow' = [lineRow EXCEPT ![N(d)].sub = "active"] /\ Steps(d, "complete")
  /\ UNCHANGED <<stock, sold, lineOrder, paidFor, inbox, heard, mixed, mishaps>>
Complete(d) ==
  /\ Asks(d, "buy", "complete") /\ Sets(d, "COMPLETED", "over")
  /\ UNCHANGED <<stock, sold, lineRow, paidFor, inbox, heard, mixed, mishaps>>

\* Whatever failed after the payment: the order says so, what was made stays.
FailProvisioning(d) ==
  /\ Asks(d, "buy", "fail") /\ Sets(d, "PROVISIONING_FAILED", "over")
  /\ UNCHANGED <<stock, sold, lineRow, paidFor, inbox, heard, mixed, mishaps>>

\* A statement fails, which the last part of a purchase catches, or the process dies.
Mishap(d) ==
  /\ mishaps > 0 /\ dial[d].at \notin {"begin", "over"}
  /\ mishaps' = mishaps - 1
  /\ \/ Over(d)
     \/ dial[d].at \in {"provider", "row", "subscription", "complete"} /\ Steps(d, "fail")
  /\ UNCHANGED <<stock, sold, lineRow, lineOrder, paidFor, inbox, heard, mixed>>

-----------------------------------------------------------------------------

(* Giving a number back, and using it.                                     *)

Own(d) == lineRow[N(d)].status # "none" /\ lineRow[N(d)].user = User(d)

FindOwn(d) ==
  /\ Asks(d, "release", "begin") \/ Asks(d, "send", "begin")
  /\ LET may == Own(d) /\ IF dial[d].does.kind = "send" THEN lineRow[N(d)].status = "active"
                          ELSE lineRow[N(d)].status # "released"
     IN Steps(d, IF may THEN "provider" ELSE "over")
  /\ UNCHANGED <<stock, sold, lineRow, lineOrder, paidFor, inbox, heard, mixed, mishaps>>

\* A release the provider refuses is passed over.
ProviderReleases(d) ==
  /\ Asks(d, "release", "provider")
  /\ stock' = [stock EXCEPT ![N(d)] = IF @ = "sold" THEN "gone" ELSE @]
  /\ Steps(d, "row")
  /\ UNCHANGED <<sold, lineRow, lineOrder, paidFor, inbox, heard, mixed, mishaps>>
ReleaseRow(d) ==
  /\ Asks(d, "release", "row")
  /\ lineRow' = [lineRow EXCEPT ![N(d)].status = "released"] /\ Steps(d, "subscription")
  /\ UNCHANGED <<stock, sold, lineOrder, paidFor, inbox, heard, mixed, mishaps>>
CancelSubscriptions(d) ==
  /\ Asks(d, "release", "subscription")
  /\ lineRow' = [lineRow EXCEPT ![N(d)].sub = IF @ = "active" THEN "cancelled" ELSE @]
  /\ Over(d)
  /\ UNCHANGED <<stock, sold, lineOrder, paidFor, inbox, heard, mixed, mishaps>>

\* The provider has sent it; then its row is written.
SendSMS(d) ==
  /\ Asks(d, "send", "provider")
  /\ Steps(d, "message")
  /\ UNCHANGED <<stock, sold, lineRow, lineOrder, paidFor, inbox, heard, mixed, mishaps>>

-----------------------------------------------------------------------------

(* A webhook about a message that came in.                                 *)

M(d) == dial[d].does.message
Delivering(d) == dial[d].does.kind = "sms" /\ dial[d].at \notin {"begin", "over"}

HearEvent(d) ==
  /\ Asks(d, "sms", "begin")
  /\ IF dial[d].does.event \in heard THEN Over(d) /\ UNCHANGED mixed
     ELSE /\ Steps(d, "find")
          /\ mixed' = IF \E e \in Dial : Delivering(e) /\ M(e) = M(d)
                      THEN mixed \cup {M(d)} ELSE mixed
  /\ UNCHANGED <<stock, sold, lineRow, lineOrder, paidFor, inbox, heard, mishaps>>

\* Without a row of the number the message is dropped, and the event done.
StoresAgain(d) ==
  /\ Asks(d, "sms", "find")
  /\ Steps(d, IF lineRow[N(d)].status = "none" THEN "processed" ELSE "message")
  /\ UNCHANGED <<stock, sold, lineRow, lineOrder, paidFor, inbox, heard, mixed, mishaps>>
FindMessage(d) ==
  /\ Asks(d, "sms", "find")
  /\ Steps(d, IF lineRow[N(d)].status = "none" \/ inbox[M(d)] > 0
              THEN "processed" ELSE "message")
  /\ UNCHANGED <<stock, sold, lineRow, lineOrder, paidFor, inbox, heard, mixed, mishaps>>

CreateMessage(d) ==
  /\ dial[d].at = "message"
  /\ inbox' = [inbox EXCEPT ![M(d)] = @ + 1]
  /\ Steps(d, IF dial[d].does.kind = "send" THEN "over" ELSE "processed")
  /\ UNCHANGED <<stock, sold, lineRow, lineOrder, paidFor, heard, mixed, mishaps>>

MarkProcessed(d) ==
  /\ Asks(d, "sms", "processed")
  /\ heard' = heard \cup {dial[d].does.event} /\ Over(d)
  /\ UNCHANGED <<stock, sold, lineRow, lineOrder, paidFor, inbox, mixed, mishaps>>

Buying(d) ==
  \/ LookUp(d) \/ ReadRow(d) \/ PlaceLineOrder(d) \/ OpenIntent(d) \/ VerifyPaid(d)
  \/ RecordPayment(d) \/ ProviderSells(d) \/ CreateRow(d) \/ CreateSubscription(d)
  \/ Complete(d) \/ FailProvisioning(d)
Using(d) ==
  \/ FindOwn(d) \/ ProviderReleases(d) \/ ReleaseRow(d) \/ CancelSubscriptions(d)
  \/ SendSMS(d) \/ HearEvent(d) \/ FindMessage(d) \/ CreateMessage(d) \/ MarkProcessed(d)

LineNext == \E d \in Dial : Buying(d) \/ Using(d) \/ Mishap(d)

LineSpec == LineInit /\ [][LineNext]_lineVars

-----------------------------------------------------------------------------

LineTypeOK ==
  /\ stock \in [Line -> {"free", "sold", "gone"}]
  /\ sold \in [Dial -> Line \cup {NoDial}]
  /\ \A n \in Line : lineRow[n].status \in {"none", "active", "released"}
  /\ paidFor \subseteq Dial /\ mishaps \in Nat

\* Who has a number has paid for it, and the provider sold it to nobody else. The row of a
\* number is of the user of an order that was paid for and under which the provider sold
\* this number, and of no second order; a completed order has the row, with a subscription,
\* active until it is given back. Two buyers may both pay before the provider sells; the
\* second is failed, never completed (virtual-numbers/service.ts:78-205).
NumberIsPaidFor ==
  /\ \A n \in Line : lineRow[n].status # "none" =>
       LET o == lineRow[n].order IN
       /\ o \in paidFor /\ User(o) = lineRow[n].user /\ sold[o] = n
       /\ \A d \in Dial : sold[d] = n => d = o
  /\ \A d \in Dial : lineOrder[d] = "COMPLETED" =>
       /\ lineRow[N(d)].order = d
       /\ lineRow[N(d)].sub = "cancelled" => lineRow[N(d)].status = "released"
       /\ lineRow[N(d)].sub # "none"

\* A message that comes in is kept once, whatever is delivered again after an answer was lost:
\* only of deliveries that overlap may two write it (virtual-numbers/service.ts:302-325,
\* webhooks/virtual-numbers/route.ts:21-67).
MessageKeptOnce ==
  \A d \in Dial : dial[d].does.kind = "sms" /\ M(d) \notin mixed => inbox[M(d)] <= 1

\* A number and its messages: one owner who paid, each message once.
NumbersAreTrue == NumberIsPaidFor /\ MessageKeptOnce
===============================================================================

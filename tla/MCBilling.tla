-------------------------------- MODULE MCBilling --------------------------------
(***************************************************************************)
(* What is paid: the SaaS subscription of a tenant, the number of a        *)
(* customer with the credit that pays a part of it, an order of the shop,  *)
(* and what its reseller draws. They share no row and are explored one at  *)
(* a time: a behaviour runs the one that `part` names and leaves the others *)
(* in an initial state.                                                    *)
(***************************************************************************)
EXTENDS SaasRenewal, NumberSubscription, CommerceOrder, TLC

CONSTANTS host, guest, friend, u1, u2, manual, c1, c2, o1, o2, w1, w2, w3, w4

VARIABLE part
vars == <<part, saasVars, creditVars, numberVars, saleVars, payoutVars>>

-----------------------------------------------------------------------------

(* The tenant: first invoice or renewal, which answers bear a date.        *)

Tenant(first, dated, calls, deliveries, declines, slow, faults) ==
  [first |-> first, dates |-> dated,
   bounds |-> [calls |-> calls, deliveries |-> deliveries, declines |-> declines,
               slow |-> slow, faults |-> faults]]
Always == {"verify", "webhook"}

SomeTenants == {Tenant(FALSE, Always, 0, 0, 0, 0, 1),
                Tenant(FALSE, {"webhook"}, 0, 2, 1, 0, 0),
                Tenant(FALSE, {"verify"}, 1, 0, 0, 1, 0),
                Tenant(TRUE, Always, 2, 1, 1, 0, 0),
                Tenant(TRUE, Always, 1, 0, 0, 0, 1)}

(* Referrals u1 and u2 of one host, and a grant by hand.                   *)

SomeRecipients == [use \in Use |-> CASE use = u1 -> <<host, guest>>
                                     [] use = u2 -> <<host, friend>>
                                     [] OTHER -> <<guest>>]

Credit(before, grants, faults) ==
  [balance |-> [user \in User |-> IF user = guest THEN before ELSE 0],
   grants |-> grants, faults |-> faults]
Renewals(price, runs, calls, faults, credit) ==
  [price |-> price, cost |-> 100, over |-> 1, credit |-> credit,
   bounds |-> [runs |-> runs, calls |-> calls, faults |-> faults]]

NoGrants(before) == Credit(before, << >>, 0)
OnlyGrants(one, other, faults) ==
  Renewals(200, 0, 0, 0, Credit(0, c1 :> one @@ c2 :> other, faults))

\* Credit pays all of 200; of 220 it leaves less than the fee of a card payment.
SomeNumbers == {OnlyGrants(u1, u1, 1), OnlyGrants(u1, u2, 1), OnlyGrants(manual, manual, 2),
                Renewals(300, 1, 0, 1, Credit(200, c1 :> manual, 0)),
                Renewals(200, 1, 1, 0, NoGrants(200)),
                Renewals(220, 2, 0, 1, NoGrants(200)),
                Renewals(300, 2, 0, 1, NoGrants(200)),
                Renewals(200, 1, 1, 1, NoGrants(0))}

(* Orders of the shop and the requests about them.                         *)

Sales(orders, one, two, three, four, faults, crashes) ==
  [refs |-> [o \in orders |-> "x"], left |-> [faults |-> faults, crashes |-> crashes],
   does |-> w1 :> one @@ w2 :> two @@ w3 :> three @@ w4 :> four]

\* The last one: an offer bought twice under one intent, with one payment.
SomeSales == {Sales({o1}, "ask", "webhook", "webhook", "none", 1, 0),
              Sales({o1}, "ask", "webhook", "button", "none", 0, 0),
              Sales({o1}, "ask", "webhook", "webhook", "none", 0, 1),
              Sales({o1, o2}, "ask", "webhook", "ask", "none", 1, 0)}

(* What two orders earn and what two payouts ask.                 *)

Payouts(earns, asks) ==
  [earns |-> o1 :> earns[1] @@ o2 :> earns[2], asks |-> c1 :> asks[1] @@ c2 :> asks[2]]

SomePayouts == {Payouts(<<100, 100>>, <<100, 100>>), Payouts(<<100, -50>>, <<50, 60>>)}

-----------------------------------------------------------------------------

Init ==
  /\ part \in {"saas", "number", "sale", "payouts"}
  /\ IF part = "saas" THEN SaasInit ELSE SaasInitOf(CHOOSE t \in SaasPlans : TRUE)
  /\ IF part = "number" THEN NumberInit
     ELSE LET of == CHOOSE n \in NumberPlans : TRUE IN
          NumberInitOf(of) /\ CreditInitOf(of.credit)
  /\ IF part = "sale" THEN SaleInit ELSE SaleInitOf(CHOOSE p \in SalePlans : TRUE)
  /\ IF part = "payouts" THEN PayoutInit ELSE PayoutInitOf(CHOOSE p \in PayoutPlans : TRUE)

Saas(A) ==
  part = "saas" /\ A /\ UNCHANGED <<part, creditVars, numberVars, saleVars, payoutVars>>
Number(A) == part = "number" /\ A /\ UNCHANGED <<part, saasVars, saleVars, payoutVars>>
Grants(A) == Number(A /\ UNCHANGED numberVars)
Sells(A) ==
  part = "sale" /\ A /\ UNCHANGED <<part, saasVars, creditVars, numberVars, payoutVars>>
Draws(A) ==
  part = "payouts" /\ A /\ UNCHANGED <<part, saasVars, creditVars, numberVars, saleVars>>

Next == Saas(SaasNext) \/ Number(NumberNext) \/ Sells(SaleNext) \/ Draws(PayoutNext)

\* Requests and jobs finish what they began. The job of every five minutes makes all its
\* scans in each run, so none of them waits for ever while there is something to find.
\* One conjunct may name an action of each part, for only one part's can be enabled.
Fairness ==
  /\ \A r \in Run : WF_vars(Sells(RunStep(r)) \/ (r \in Worker /\ Saas(Works(r))))
  /\ WF_vars(\/ Sells(\E r \in Run : ReconcileEntitlement(r))
             \/ Grants(\E i \in Issuance : RepairIssuance(i)) \/ Saas(InvoiceAges))
  /\ WF_vars(Grants(\E i \in Issuance : IssuanceAges(i)) \/ Saas(CycleAges))
  /\ SF_vars(Saas(\E w \in Worker : RenewSubscription(w)))
  /\ SF_vars(Saas(\E w \in Worker : DueInvoice(w)))
  /\ SF_vars(Saas(\E w \in Worker : StuckCreating(w)))
  /\ SF_vars(Saas(\E w \in Worker : StuckCycle(w)))
  /\ SF_vars(Saas(\E w \in Worker : StuckSubscription(w)))

Spec == Init /\ [][Next]_vars /\ Fairness

\* The rows hold values of their columns.
TypeOK == SaasTypeOK /\ CreditTypeOK /\ NumberTypeOK /\ SaleTypeOK /\ PayoutTypeOK

\* Nobody is served for nothing: the plan of a tenant and the number of a customer are
\* extended only for a payment that succeeded.
ServedIsPaid == NothingUnpaid /\ ExtendedIsPaid

\* What a shop's orders book agrees with what was served, and pays no more than that.
ShopIsSquare == SoldOnce /\ DrawnIsEarned

\* And who paid is served: a tenant's period begins, an order of the shop is fulfilled or failed.
PaymentsSettle == PaidIsServed /\ SalesSettle
===============================================================================

------------------------------- MODULE Suppliers -------------------------------
(***************************************************************************)
(* Which supplier an order is bought from, and what an administrator is    *)
(* shown of the same question. Both read the product's active offers with  *)
(* their suppliers in one query, and then ask for the provider's credit    *)
(* offer by offer, while other orders commit and settle credit and a sync  *)
(* of the catalogue reprices offers.                                       *)
(*                                                                         *)
(* Source: src/src/lib/orchestration/engine.ts and finance/provider-credit.*)
(* What an order does with the choice is OrderFulfillment. No code writes a *)
(* supplier's health, cooldown or counters: they are what the row was      *)
(* created with. Reliability is in thousandths, as the score rounds it.    *)
(***************************************************************************)
EXTENDS Integers, Sequences, FiniteSets, FiniteSetsExt, SequencesExt

CONSTANTS Pick,         \* calls and requests that may run at once
          PickPlans,    \* what a behaviour may begin with
          CRITICAL      \* per cent of the limit at which nothing more is committed

ASSUME CriticalIsAShare == CRITICAL \in 1..100

VARIABLES supplied, account, picks

pickVars == <<supplied, account, picks>>

PickInitOf(plan) ==
  /\ supplied = plan.offers     \* offers of the product, each with its supplier's row
  /\ account = plan.accounts    \* ProviderCreditAccount rows by provider key
  /\ picks = [p \in Pick |->
       [does |-> plan.does[p], at |-> "begin", listed |-> << >>, order |-> << >>,
        seen |-> 0, passed |-> {},
        ever |-> {}, always |-> {}, first |-> 0]]

PickInit == \E plan \in PickPlans : PickInitOf(plan)

Picking(p, kinds, at) == picks[p].does.kind \in kinds /\ picks[p].at = at

-----------------------------------------------------------------------------
(* canProviderCommit: what is owed counts against the critical share, what  *)
(* is owed and what is committed against the limit.                         *)

Available(a) == a.limit - a.liability - a.pending
Uncritical(a) == a.limit <= 0 \/ a.liability * 100 < CRITICAL * a.limit
CanCommit(accounts, key, amount) ==
  key \in DOMAIN accounts =>
    /\ Uncritical(accounts[key])
    /\ Available(accounts[key]) >= amount

\* assessEligibility, but for the credit.
Able(offer) ==
  /\ offer.supplier.active /\ offer.supplier.health = "healthy" /\ ~offer.supplier.cooling
  /\ offer.supplier.policy # "B2B_ONLY" /\ "B2C" \in offer.audiences
Funded(accounts, offer) ==
  offer.supplier.key # "none" => CanCommit(accounts, offer.supplier.key, offer.wholesale)

\* computeReliability and Math.round: unknown is a half.
Reliability(s) ==
  LET total == s.successes + s.failures IN
  IF total = 0 THEN 500 ELSE (2000 * s.successes + total) \div (2 * total)
Rated(offer) == Reliability(offer.supplier) - offer.wholesale

-----------------------------------------------------------------------------

ActiveOffers == {o \in DOMAIN supplied : supplied[o].status = "active"}
Orderings(p) ==
  {order \in SetToSeqs(ActiveOffers) :
     picks[p].does.kind = "compare" =>
       \A i, j \in DOMAIN order : i < j => supplied[order[i]].wholesale <= supplied[order[j]].wholesale}

\* One query; the comparison's is sorted by the wholesale price.
ListOffers(p) ==
  /\ Picking(p, {"select", "compare"}, "begin")
  /\ \E order \in Orderings(p) :
       LET funded == {o \in ActiveOffers : Funded(account, supplied[o])} IN
       picks' = [picks EXCEPT ![p].order = order, ![p].listed = supplied,
                   ![p].ever = funded, ![p].always = funded,
                   ![p].at = IF order = << >> THEN "end" ELSE "assess"]
  /\ UNCHANGED <<supplied, account>>

\* The next of the list: its credit is asked for now.
AssessEligibility(p) ==
  /\ Picking(p, {"select", "compare"}, "assess")
  /\ LET job == picks[p]  o == job.order[job.seen + 1]  offer == job.listed[o] IN
     picks' = [picks EXCEPT ![p].seen = @ + 1,
                 ![p].passed = IF Able(offer) /\ Funded(account, offer) THEN @ \cup {o} ELSE @,
                 ![p].at = IF job.seen + 1 = Len(job.order) THEN "sort" ELSE "assess"]
  /\ UNCHANGED <<supplied, account>>

-----------------------------------------------------------------------------
(* The two sorts are stable: what they leave equal keeps the query's order.  *)

Scored(p, o) == Rated(picks[p].listed[o])
Cost(p, o) == picks[p].listed[o].wholesale
Place(p, o) == CHOOSE i \in DOMAIN picks[p].order : picks[p].order[i] = o

CheapestFirst(p, a, b) ==   \* mutant: by price alone
  \/ Cost(p, a) < Cost(p, b)
  \/ Cost(p, a) = Cost(p, b) /\ Place(p, a) < Place(p, b)

\* selectSupplierForProduct: by score, then by price.
Precedes(p, a, b) ==
  \/ Scored(p, a) > Scored(p, b)
  \/ Scored(p, a) = Scored(p, b) /\ Cost(p, a) < Cost(p, b)
  \/ Scored(p, a) = Scored(p, b) /\ Cost(p, a) = Cost(p, b) /\ Place(p, a) < Place(p, b)

\* getSupplierComparison: by score; the query had sorted by price.
Outranks(p, a, b) ==
  \/ Scored(p, a) > Scored(p, b)
  \/ Scored(p, a) = Scored(p, b) /\ Place(p, a) < Place(p, b)

FirstBy(p, a) ==
  \A b \in picks[p].passed \ {a} :
    IF picks[p].does.kind = "select" THEN Precedes(p, a, b) ELSE Outranks(p, a, b)

\* No eligible offer is an error of the one, and a list of the others for the other.
SortOffers(p) ==
  /\ Picking(p, {"select", "compare"}, "sort")
  /\ picks' = [picks EXCEPT ![p].at = "end",
                 ![p].first = IF picks[p].passed = {} THEN 0
                              ELSE CHOOSE a \in picks[p].passed : FirstBy(p, a)]
  /\ UNCHANGED <<supplied, account>>

-----------------------------------------------------------------------------
(* Meanwhile.                                                              *)

\* What was affordable at some time, and all the time, since each listing.
Watch(p, accounts) ==
  [q \in Pick |->
     LET funded == {o \in DOMAIN picks[q].listed : Funded(accounts, picks[q].listed[o])} IN
     IF q = p THEN [picks[q] EXCEPT !.at = "end"]
     ELSE IF picks[q].at \in {"assess", "sort"}
     THEN [picks[q] EXCEPT !.ever = @ \cup funded, !.always = @ \cap funded]
     ELSE picks[q]]

\* reserveProviderCommitment of another order: see OrderFulfillment.
CommitCredit(p) ==
  LET does == picks[p].does  a == account[does.key] IN
  /\ Picking(p, {"commit"}, "begin")
  /\ account' = IF /\ Available(a) >= does.amount
                   /\ (a.liability + a.pending + does.amount) * 100 < CRITICAL * a.limit
                THEN [account EXCEPT ![does.key].pending = @ + does.amount] ELSE account
  /\ picks' = Watch(p, account')
  /\ UNCHANGED supplied

Smaller(a, b) == IF a < b THEN a ELSE b

\* settleReservation and releaseReservation of what is held.
SettleCredit(p) ==
  LET does == picks[p].does IN
  /\ Picking(p, {"settle", "release"}, "begin")
  /\ account' = [account EXCEPT
                   ![does.key].pending = @ - Smaller(@, does.amount),
                   ![does.key].liability = IF does.kind = "settle" THEN @ + does.amount ELSE @]
  /\ picks' = Watch(p, account')
  /\ UNCHANGED supplied

\* A sync of the catalogue writes the offer again, or an administrator closes it.
OfferChanges(p) ==
  /\ Picking(p, {"offer"}, "begin")
  /\ supplied' = [supplied EXCEPT ![picks[p].does.offer].wholesale = picks[p].does.wholesale,
                                  ![picks[p].does.offer].status = picks[p].does.status]
  /\ picks' = [picks EXCEPT ![p].at = "end"]
  /\ UNCHANGED account

PickNext ==
  \E p \in Pick : \/ ListOffers(p) \/ AssessEligibility(p) \/ SortOffers(p)
                  \/ CommitCredit(p) \/ SettleCredit(p) \/ OfferChanges(p)

-----------------------------------------------------------------------------

\* What an order is bought from, and what the comparison shows first, was offered and
\* its supplier able when the offers were read and its credit sufficed at some time
\* since; of what could be bought all that time, nothing has a better score, or the
\* same for less; and nothing is bought only when nothing could be all that time.
ChosenIsBest ==
  \A p \in Pick :
    LET job == picks[p]  able == {o \in DOMAIN job.listed :
                                    job.listed[o].status = "active" /\ Able(job.listed[o])} IN
    job.at = "end" /\ job.does.kind \in {"select", "compare"} =>
      IF job.first = 0 THEN able \cap job.always = {}
      ELSE /\ job.first \in able \cap job.ever
           /\ \A o \in able \cap job.always :
                \/ Scored(p, o) < Scored(p, job.first)
                \/ /\ Scored(p, o) = Scored(p, job.first)
                   /\ Cost(p, job.first) <= Cost(p, o)

-----------------------------------------------------------------------------
(* What a tenant owes its suppliers: costs recorded per order, settlements *)
(* that add them up and then mark them, a cron job that marks what is      *)
(* old, and the supplier's invoice. None of it is in a transaction: a      *)
(* request may run beside another one, or end between two statements.      *)
(*                                                                         *)
(* Source: src/src/lib/commerce/settlement.ts, the costs of                *)
(* commerce/reseller-economics.ts, invoices of finance/provider-credit.ts, *)
(* and the routes of app/api/commerce/settlements and reconcile-costs. In  *)
(* src/ no caller of recordProviderCost names a supplier and nothing calls *)
(* settleSupplierInvoice: both are taken as calls that may come.           *)

CONSTANTS Clerk,            \* requests that may run at once
          SettlementPlans   \* what a behaviour may begin with

VARIABLES costs, settlements, invoices, invoiced, clerks, disputed

settlementVars == <<costs, settlements, invoices, invoiced, clerks, disputed>>

SettlementInitOf(plan) ==
  /\ costs = plan.costs         \* ProviderCost: tenant, order, supplier, amount, day, status
  /\ settlements = << >>        \* SupplierSettlement, with the costs it has added up
  /\ invoices = << >>           \* ProviderInvoice: the settlement it was made for, and amount
  /\ invoiced = plan.accounts   \* invoicedAmount of the provider accounts there are
  /\ clerks = [k \in Clerk |->
       [does |-> plan.does[k], at |-> "begin", costs |-> {}, row |-> 0]]
  \* history: costs, orders and settlements two requests have worked on at once,
  \* or one has left half done
  /\ disputed = [costs |-> {}, orders |-> {}, settlements |-> {}]

SettlementInit == \E plan \in SettlementPlans : SettlementInitOf(plan)

Clerking(k, kind, at) == clerks[k].does.kind = kind /\ clerks[k].at = at
ClerkAt(k, at) == clerks' = [clerks EXCEPT ![k].at = at]
Others(k) == {j \in Clerk \ {k} : clerks[j].at \notin {"begin", "end"}}

-----------------------------------------------------------------------------
(* recordProviderCost: looked up by the order, and then created.           *)

FindCost(k) ==
  LET does == clerks[k].does IN
  /\ Clerking(k, "cost", "begin")
  /\ ClerkAt(k, IF /\ does.amount > 0 /\ does.supplier # "none"
                   /\ \A c \in DOMAIN costs : costs[c].order # does.order
                THEN "create" ELSE "end")
  /\ disputed' = IF \E j \in Others(k) : Clerking(j, "cost", "create") /\ clerks[j].does.order = does.order
                 THEN [disputed EXCEPT !.orders = @ \cup {does.order}] ELSE disputed
  /\ UNCHANGED <<costs, settlements, invoices, invoiced>>

CreateCost(k) ==
  LET does == clerks[k].does IN
  /\ Clerking(k, "cost", "create")
  /\ costs' = Append(costs, [tenant |-> does.tenant, order |-> does.order, supplier |-> does.supplier,
                             amount |-> does.amount, day |-> does.day, status |-> "pending"])
  /\ ClerkAt(k, "end")
  /\ UNCHANGED <<settlements, invoices, invoiced, disputed>>

-----------------------------------------------------------------------------
(* Settling: the pending costs of a period, a settlement of their sum, and *)
(* then the mark, by the rows' ids.                                        *)

InPeriod(does) ==
  {c \in DOMAIN costs : /\ costs[c].tenant = does.tenant /\ costs[c].supplier = does.supplier
                        /\ costs[c].day \in does.from..does.to /\ costs[c].status = "pending"}
Beside(k, rows) ==          \* rows another request has listed and not finished with
  {c \in rows : \E j \in Others(k) : c \in clerks[j].costs}

ListCosts(k, rows, next) ==
  /\ clerks' = [clerks EXCEPT ![k].costs = rows, ![k].at = IF rows = {} THEN "end" ELSE next]
  /\ disputed' = [disputed EXCEPT !.costs = @ \cup Beside(k, rows)]
  /\ UNCHANGED <<costs, settlements, invoices, invoiced>>

ReadPending(k) ==
  /\ Clerking(k, "settle", "begin")
  /\ ListCosts(k, InPeriod(clerks[k].does), "create")

Total(rows) == MapThenSumSet(LAMBDA c : costs[c].amount, rows)

CreateSettlement(k) ==
  LET does == clerks[k].does IN
  /\ Clerking(k, "settle", "create")
  /\ settlements' = Append(settlements, [tenant |-> does.tenant, supplier |-> does.supplier,
       costs |-> clerks[k].costs, total |-> Total(clerks[k].costs), status |-> "pending"])
  /\ ClerkAt(k, "mark")
  /\ UNCHANGED <<costs, invoices, invoiced, disputed>>

MarkPeriod(k) == InPeriod(clerks[k].does)   \* mutant: the mark repeats the query
Marked(k) == clerks[k].costs

MarkSettled(k) ==
  /\ Clerking(k, "settle", "mark")
  /\ costs' = [c \in DOMAIN costs |-> IF c \in Marked(k) THEN [costs[c] EXCEPT !.status = "settled"]
                                      ELSE costs[c]]
  /\ ClerkAt(k, "end")
  /\ UNCHANGED <<settlements, invoices, invoiced, disputed>>

\* settlePendingProviderCosts: what is old, of one tenant or of all, row by row.
ReadOld(k) ==
  LET does == clerks[k].does IN
  /\ Clerking(k, "sweep", "begin")
  /\ ListCosts(k, {c \in DOMAIN costs : /\ costs[c].status = "pending" /\ costs[c].day < does.before
                                        /\ costs[c].tenant \in does.tenants}, "mark")

SweepOne(k) ==
  /\ Clerking(k, "sweep", "mark")
  /\ \E c \in clerks[k].costs :
       /\ costs' = [costs EXCEPT ![c].status = "swept"]
       /\ clerks' = [clerks EXCEPT ![k].costs = @ \ {c},
                                   ![k].at = IF clerks[k].costs = {c} THEN "end" ELSE "mark"]
  /\ UNCHANGED <<settlements, invoices, invoiced, disputed>>

-----------------------------------------------------------------------------
(* The supplier's invoice of a settlement, and its payment.                *)

\* The route finds the tenant's settlement, generateSupplierInvoice its status; the
\* account is looked up by the supplier, and without one the request fails.
BeginInvoice(k) ==
  LET does == clerks[k].does IN
  /\ Clerking(k, "invoice", "begin")
  /\ \E s \in {r \in DOMAIN settlements : settlements[r].tenant = does.tenant} :
       LET row == settlements[s] IN
       /\ clerks' = [clerks EXCEPT ![k].row = s,
            ![k].at = IF row.status = "pending" /\ row.supplier \in DOMAIN invoiced
                      THEN "create" ELSE "end"]
       /\ disputed' = IF \E j \in Others(k) : clerks[j].does.kind = "invoice" /\ clerks[j].row = s
                      THEN [disputed EXCEPT !.settlements = @ \cup {s}] ELSE disputed
  /\ UNCHANGED <<costs, settlements, invoices, invoiced>>

CreateInvoice(k) ==
  /\ Clerking(k, "invoice", "create")
  /\ invoices' = Append(invoices, [of |-> clerks[k].row, amount |-> settlements[clerks[k].row].total])
  /\ ClerkAt(k, "add")
  /\ UNCHANGED <<costs, settlements, invoiced, disputed>>

AddInvoiced(k) ==
  LET row == settlements[clerks[k].row] IN
  /\ Clerking(k, "invoice", "add")
  /\ invoiced' = [invoiced EXCEPT ![row.supplier] = @ + row.total]
  /\ ClerkAt(k, "update")
  /\ UNCHANGED <<costs, settlements, invoices, disputed>>

MarkInvoiced(k) ==
  /\ Clerking(k, "invoice", "update")
  /\ settlements' = [settlements EXCEPT ![clerks[k].row].status = "invoiced"]
  /\ ClerkAt(k, "end")
  /\ UNCHANGED <<costs, invoices, invoiced, disputed>>

BeginPayment(k) ==
  /\ Clerking(k, "pay", "begin")
  /\ \E s \in DOMAIN settlements :
       clerks' = [clerks EXCEPT ![k].row = s,
                    ![k].at = IF settlements[s].status = "invoiced" THEN "update" ELSE "end"]
  /\ UNCHANGED <<costs, settlements, invoices, invoiced, disputed>>

MarkPaid(k) ==
  /\ Clerking(k, "pay", "update")
  /\ settlements' = [settlements EXCEPT ![clerks[k].row].status = "paid"]
  /\ ClerkAt(k, "end")
  /\ UNCHANGED <<costs, invoices, invoiced, disputed>>

-----------------------------------------------------------------------------

\* The request ends where it is: what it has not written is not written.
Abandon(k) ==
  /\ clerks[k].does.dies /\ clerks[k].at \notin {"begin", "end"}
  /\ ClerkAt(k, "end")
  /\ disputed' = [disputed EXCEPT !.costs = @ \cup clerks[k].costs,
                                  !.settlements = @ \cup ({clerks[k].row} \ {0})]
  /\ UNCHANGED <<costs, settlements, invoices, invoiced>>

SettlementNext ==
  \E k \in Clerk :
    \/ FindCost(k) \/ CreateCost(k) \/ ReadPending(k) \/ CreateSettlement(k) \/ MarkSettled(k)
    \/ ReadOld(k) \/ SweepOne(k) \/ BeginInvoice(k) \/ CreateInvoice(k) \/ AddInvoiced(k)
    \/ MarkInvoiced(k) \/ BeginPayment(k) \/ MarkPaid(k) \/ Abandon(k)

-----------------------------------------------------------------------------

Counting(c) == {s \in DOMAIN settlements : c \in settlements[s].costs}
InvoicesOf(s) == {i \in DOMAIN invoices : invoices[i].of = s}

\* No cost is marked settled that a settlement has not counted; only requests that
\* overlap, or one that ended half way, count a cost twice, or one that the cron job has
\* written off; a settlement is not invoiced or paid without an invoice, and has two
\* of them only by such requests.
SettledOnce ==
  /\ \A c \in DOMAIN costs :
       /\ costs[c].status = "settled" => Counting(c) # {}
       /\ c \notin disputed.costs =>
            Cardinality(Counting(c)) <= (IF costs[c].status = "swept" THEN 0 ELSE 1)
       /\ \A d \in DOMAIN costs \ {c} :
            costs[c].order = costs[d].order => costs[c].order \in disputed.orders
  /\ \A s \in DOMAIN settlements :
       /\ settlements[s].status # "pending" => InvoicesOf(s) # {}
       /\ Cardinality(InvoicesOf(s)) > 1 => s \in disputed.settlements
=============================================================================

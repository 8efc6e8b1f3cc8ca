------------------------------- MODULE Catalogue -------------------------------
(***************************************************************************)
(* What is for sale. A sync copies the provider's plans, prices them, and  *)
(* gives each a canonical product with a supplier's offer (plans/           *)
(* service.ts); tenants put products on their shelf at their own price      *)
(* (tenant/catalog.ts, tenant/service.ts); an order takes a price from a    *)
(* shelf (orders/service.ts createOrder). Every call reads, decides and     *)
(* writes in separate statements, and none of them holds a lock.            *)
(*                                                                         *)
(* Products, supplier offers and shelf offers are rows 1, 2, ...; 0 is none. *)
(* One supplier stands for all. Order keys are those of IdempotencyClaim.   *)
(* A row keeps, for the properties only, every specification it has had:    *)
(* `had` of a plan, `been` of a product.                                    *)
(***************************************************************************)
EXTENDS Integers, Sequences, FiniteSets

CONSTANTS PlanId,         \* the provider's plans
          Task,           \* calls that may run at once
          CataloguePlans, \* what a behaviour may begin with
          Direct          \* the shop's own shelf, of no tenant

VARIABLES feed,           \* what the provider offers now
          plans,          \* plan rows
          products, offers, shelf,
          task,           \* each call's place and what it has read
          orders,
          offered         \* every price a shelf offer has had while active

catalogueVars == <<feed, plans, products, offers, shelf, task, orders, offered>>

NoPlan == [status |-> "absent", retail |-> 0, wholesale |-> 0, spec |-> <<"GH", 0>>, had |-> {}]

-----------------------------------------------------------------------------

(* Pure parts.                                                             *)

\* The name is no part of a product's identity; case and blanks are not either.
Normal(code) == IF code = "gh" THEN "GH" ELSE code
Identity(pp) == <<Normal(pp.code), pp.data>>

\* The highest priority wins; without rules, 30 %. Math.round of a percentage.
Percent(amount, value) == (amount * value + 50) \div 100
Applying(rules, pp) ==
  {r \in rules : /\ r.scope \in {"global", Normal(pp.code)}
                 /\ \A q \in rules : q.scope \in {"global", Normal(pp.code)} =>
                                       q.priority <= r.priority}
RetailPrices(rules, pp) ==
  IF Applying(rules, pp) = {} THEN {pp.wholesale + Percent(pp.wholesale, 30)}
  ELSE {pp.wholesale + IF r.type = "fixed" THEN r.value ELSE Percent(pp.wholesale, r.value) :
        r \in Applying(rules, pp)}

Valid(pp) == pp.data > 0 /\ pp.wholesale >= 0

\* 10 % over the cheapest supplier, rounded up.
MinimumRetail(wholesales) ==
  LET best == CHOOSE w \in wholesales : \A v \in wholesales : w <= v
  IN (best * 110 + 99) \div 100

-----------------------------------------------------------------------------

CatalogueInitOf(plan) ==
  /\ feed = plan.feed
  /\ plans = plan.plans
  /\ products = plan.products
  /\ offers = plan.offers
  /\ shelf = plan.shelf
  /\ task = [t \in Task |-> [does |-> plan.does[t], rules |-> plan.rules, at |-> "begin",
                             saw |-> plan.feed, n |-> 1, status |-> "absent",
                             spec |-> <<"GH", 0>>, product |-> 0, id |-> 0, price |-> 0]]
  /\ orders = {}
  /\ offered = {<<i, plan.shelf[i].retail>> :
                  i \in {j \in DOMAIN plan.shelf : plan.shelf[j].status = "active"}}

CatalogueInit == \E plan \in CataloguePlans : CatalogueInitOf(plan)

Tasked(t, kind, at) == task[t].does.kind = kind /\ task[t].at = at
At(t, at) == task' = [task EXCEPT ![t].at = at]
Throws(t) == At(t, "thrown")

catalogRows == <<plans, products, offers, shelf>>

-----------------------------------------------------------------------------

(* syncPlansFromProvider: the plans of one answer, one after the other.    *)

ThisPlan(t) == task[t].does.order[task[t].n]
Seen(t) == task[t].saw[ThisPlan(t)]
NextPlan(t) ==
  task' = [task EXCEPT ![t].n = @ + 1, ![t].product = 0, ![t].id = 0,
                       ![t].at = IF task[t].n = Len(task[t].does.order) THEN "done" ELSE "plan"]

FetchFeed(t) ==
  /\ Tasked(t, "sync", "begin")
  /\ task' = [task EXCEPT ![t].saw = feed, ![t].at = "plan"]
  /\ UNCHANGED <<feed, catalogRows, orders, offered>>

\* The status of the row as it is read now is what is written back with the rest.
ReadPlan(t) ==
  /\ Tasked(t, "sync", "plan")
  /\ IF Valid(Seen(t))
     THEN \E price \in RetailPrices(task[t].rules, Seen(t)) :
            task' = [task EXCEPT ![t].status = plans[ThisPlan(t)].status,
                                 ![t].price = price, ![t].at = "store"]
     ELSE NextPlan(t)
  /\ UNCHANGED <<feed, catalogRows, orders, offered>>

StorePlan(t) ==
  /\ Tasked(t, "sync", "store")
  /\ LET p == ThisPlan(t)
         row(status) == [status |-> status, retail |-> task[t].price,
                         wholesale |-> Seen(t).wholesale, spec |-> Identity(Seen(t)),
                         had |-> plans[p].had \cup {Identity(Seen(t))}]
     IN \/ task[t].status # "absent" /\ plans' = [plans EXCEPT ![p] = row(task[t].status)]
           /\ At(t, "product")
        \/ task[t].status = "absent" /\ plans[p].status = "absent"
           /\ plans' = [plans EXCEPT ![p] = row("active")] /\ At(t, "product")
        \/ task[t].status = "absent" /\ plans[p].status # "absent"
           /\ Throws(t) /\ UNCHANGED plans
  /\ UNCHANGED <<feed, products, offers, shelf, orders, offered>>

OfIdentity(identity) == {i \in DOMAIN products : products[i].identity = identity}
OfSource(p) == {i \in DOMAIN products : products[i].source = p}

\* What the call's product must be: a sync has it from the provider, an order from the plan's
\* row as it read it.
PlanOf(t) == IF task[t].does.kind = "sync" THEN ThisPlan(t) ELSE task[t].does.plan
SpecOf(t) == IF task[t].does.kind = "sync" THEN Identity(Seen(t)) ELSE task[t].spec

\* By identity, then by source plan. Nothing keeps the identity unique.
FindProduct(t) ==
  /\ Tasked(t, "sync", "product")
  /\ LET found == OfIdentity(Identity(Seen(t)))
         own == OfSource(ThisPlan(t))
     IN \/ \E i \in found :
             task' = [task EXCEPT ![t].product = i,
                        ![t].at = IF products[i].source = "none" THEN "claim" ELSE "offer"]
        \/ found = {} /\ \E i \in own :
             task' = [task EXCEPT ![t].product = i, ![t].at = "rename"]
        \/ found = {} /\ own = {} /\ At(t, "create")
  /\ UNCHANGED <<feed, catalogRows, orders, offered>>

\* sourcePlanId is unique: a second product with it is refused, and the call throws.
WriteProduct(t) ==
  /\ Tasked(t, "sync", "claim") \/ Tasked(t, "sync", "rename")
  /\ LET i == task[t].product
         row == IF task[t].at = "claim" THEN [products[i] EXCEPT !.source = ThisPlan(t)]
                ELSE [products[i] EXCEPT !.identity = Identity(Seen(t)),
                                         !.been = @ \cup {Identity(Seen(t))}]
     IN IF OfSource(row.source) \subseteq {i}
        THEN products' = [products EXCEPT ![i] = row] /\ At(t, "offer")
        ELSE Throws(t) /\ UNCHANGED products
  /\ UNCHANGED <<feed, plans, offers, shelf, orders, offered>>

CreateProduct(t) ==
  /\ task[t].at = "create"
  /\ IF OfSource(PlanOf(t)) = {}
     THEN /\ products' = Append(products, [source |-> PlanOf(t), identity |-> SpecOf(t),
                                           been |-> {SpecOf(t)}])
          /\ task' = [task EXCEPT ![t].product = Len(products) + 1,
                        ![t].at = IF task[t].does.kind = "sync" THEN "offer" ELSE "shelf"]
     ELSE Throws(t) /\ UNCHANGED products
  /\ UNCHANGED <<feed, plans, offers, shelf, orders, offered>>

SuppliesOf(product) == {i \in DOMAIN offers : offers[i].product = product}

FindOffer(t) ==
  /\ Tasked(t, "sync", "offer")
  /\ \/ \E i \in SuppliesOf(task[t].product) :
          task' = [task EXCEPT ![t].id = i, ![t].at = "supply"]
     \/ SuppliesOf(task[t].product) = {} /\ At(t, "supply")
  /\ UNCHANGED <<feed, catalogRows, orders, offered>>

WriteOffer(t) ==
  /\ Tasked(t, "sync", "supply")
  /\ LET wholesale == Seen(t).wholesale
     IN offers' = IF task[t].id # 0 THEN [offers EXCEPT ![task[t].id].wholesale = wholesale]
                  ELSE Append(offers, [product |-> task[t].product, wholesale |-> wholesale])
  /\ NextPlan(t)
  /\ UNCHANGED <<feed, plans, products, shelf, orders, offered>>

-----------------------------------------------------------------------------

(* A tenant's shelf.                                                       *)

Shelved(product, tenant) ==
  {i \in DOMAIN shelf : shelf[i].product = product /\ shelf[i].tenant = tenant}

\* enableProduct checks the margin against the wholesale prices it reads.
CheckMargin(t) ==
  /\ Tasked(t, "enable", "begin")
  /\ LET product == task[t].does.product
         costs == {offers[i].wholesale : i \in SuppliesOf(product)}
     IN IF costs = {} THEN Throws(t)
        ELSE IF task[t].does.price < MinimumRetail(costs) THEN Throws(t) ELSE At(t, "find")
  /\ UNCHANGED <<feed, catalogRows, orders, offered>>

FindShelved(t) ==
  /\ Tasked(t, "enable", "find")
  /\ LET own == Shelved(task[t].does.product, task[t].does.tenant)
     IN \/ \E i \in own : task' = [task EXCEPT ![t].id = i, ![t].at = "put"]
        \/ own = {} /\ At(t, "put")
  /\ UNCHANGED <<feed, catalogRows, orders, offered>>

\* A tenant has one offer of a product: the pair is unique.
PutOnShelf(t) ==
  /\ Tasked(t, "enable", "put")
  /\ LET does == task[t].does
         row == [product |-> does.product, tenant |-> does.tenant, retail |-> does.price,
                 status |-> "active"]
         i == IF task[t].id # 0 THEN task[t].id ELSE Len(shelf) + 1
     IN IF task[t].id = 0 /\ Shelved(does.product, does.tenant) # {}
        THEN Throws(t) /\ UNCHANGED <<shelf, offered>>
        ELSE /\ shelf' = IF task[t].id # 0 THEN [shelf EXCEPT ![i] = row] ELSE Append(shelf, row)
             /\ offered' = offered \cup {<<i, does.price>>}
             /\ At(t, "done")
  /\ UNCHANGED <<feed, plans, products, offers, orders>>

Disable(t) ==
  /\ Tasked(t, "disable", "begin")
  /\ LET i == task[t].does.offer IN
       IF shelf[i].tenant = task[t].does.tenant
       THEN shelf' = [shelf EXCEPT ![i].status = "inactive"] /\ At(t, "done")
       ELSE Throws(t) /\ UNCHANGED shelf
  /\ UNCHANGED <<feed, plans, products, offers, orders, offered>>

\* The administrator's switch of a plan.
ToggleStatus(t) ==
  /\ Tasked(t, "toggle", "begin")
  /\ LET p == task[t].does.plan IN
       IF plans[p].status = "absent" THEN Throws(t) /\ UNCHANGED plans
       ELSE plans' = [plans EXCEPT ![p].status = task[t].does.status] /\ At(t, "done")
  /\ UNCHANGED <<feed, products, offers, shelf, orders, offered>>

-----------------------------------------------------------------------------

(* createOrder.                                                            *)

ReadActivePlan(t) ==
  /\ Tasked(t, "order", "begin")
  /\ IF plans[task[t].does.plan].status = "active"
     THEN task' = [task EXCEPT ![t].price = plans[task[t].does.plan].retail,
                               ![t].spec = plans[task[t].does.plan].spec, ![t].at = "product"]
     ELSE Throws(t)
  /\ UNCHANGED <<feed, catalogRows, orders, offered>>

\* By source plan, then by identity.
EnsureProduct(t) ==
  /\ Tasked(t, "order", "product")
  /\ LET own == OfSource(PlanOf(t))
         found == IF own # {} THEN own ELSE OfIdentity(SpecOf(t))
     IN \/ \E i \in found : task' = [task EXCEPT ![t].product = i, ![t].at = "shelf"]
        \/ found = {} /\ At(t, "create")
  /\ UNCHANGED <<feed, catalogRows, orders, offered>>

\* The offer that is asked for must be of this product, this tenant, and active.
MayUseOfAnyTenant(i, t) == shelf[i].product = task[t].product /\ shelf[i].status = "active"
MayUse(i, t) ==
  /\ shelf[i].product = task[t].product
  /\ shelf[i].tenant = task[t].does.tenant
  /\ shelf[i].status = "active"

Takes(t, i) == task' = [task EXCEPT ![t].id = i, ![t].price = shelf[i].retail, ![t].at = "place"]

\* Without one: the tenant's. For the shop the look-up is for the tenant "", which has
\* none, so that each order of the shop puts another offer on its shelf.
ResolveOffer(t) ==
  /\ Tasked(t, "order", "shelf")
  /\ LET asked == task[t].does.offer
         own == Shelved(task[t].product, task[t].does.tenant)
     IN \/ asked # 0 /\ IF MayUse(asked, t) THEN Takes(t, asked) ELSE Throws(t)
        \/ asked = 0 /\ task[t].does.tenant = Direct /\ At(t, "stock")
        \/ /\ asked = 0 /\ task[t].does.tenant # Direct
           /\ \/ \E i \in own : IF shelf[i].status = "active" THEN Takes(t, i) ELSE Throws(t)
              \/ own = {} /\ Throws(t)
  /\ UNCHANGED <<feed, catalogRows, orders, offered>>

StockDirect(t) ==
  /\ Tasked(t, "order", "stock")
  /\ shelf' = Append(shelf, [product |-> task[t].product, tenant |-> Direct,
                             retail |-> task[t].price, status |-> "active"])
  /\ offered' = offered \cup {<<Len(shelf) + 1, task[t].price>>}
  /\ task' = [task EXCEPT ![t].id = Len(shelf) + 1, ![t].at = "place"]
  /\ UNCHANGED <<feed, plans, products, offers, orders>>

PlaceOrder(t) ==
  /\ Tasked(t, "order", "place")
  /\ orders' = orders \cup {[by |-> t, plan |-> task[t].does.plan, product |-> task[t].product,
                             offer |-> task[t].id, tenant |-> task[t].does.tenant,
                             amount |-> task[t].price]}
  /\ At(t, "done")
  /\ UNCHANGED <<feed, catalogRows, offered>>

\* The provider changes a plan: its price, or what it is.
FeedChanges(t) ==
  /\ Tasked(t, "change", "begin")
  /\ feed' = [feed EXCEPT ![task[t].does.plan] = task[t].does.row]
  /\ At(t, "done")
  /\ UNCHANGED <<catalogRows, orders, offered>>

Syncs(t) ==
  FetchFeed(t) \/ ReadPlan(t) \/ StorePlan(t) \/ FindProduct(t) \/ WriteProduct(t)
  \/ CreateProduct(t) \/ FindOffer(t) \/ WriteOffer(t)
Shelves(t) ==
  CheckMargin(t) \/ FindShelved(t) \/ PutOnShelf(t) \/ Disable(t) \/ ToggleStatus(t)
  \/ FeedChanges(t)
Buys(t) ==
  ReadActivePlan(t) \/ EnsureProduct(t) \/ ResolveOffer(t) \/ StockDirect(t) \/ PlaceOrder(t)

CatalogueNext == \E t \in Task : Syncs(t) \/ Shelves(t) \/ Buys(t)

-----------------------------------------------------------------------------

(* What a behaviour may begin with.                                        *)

Selling == {"order", "enable", "disable"}
Sellers(plan) ==
  {plan.shelf[i].tenant : i \in DOMAIN plan.shelf}
  \cup {plan.does[t].tenant : t \in {u \in Task : plan.does[u].kind \in Selling}}
Seller == {Direct} \cup UNION {Sellers(plan) : plan \in CataloguePlans}

Codes == STRING \cup {"GH"}   \* as the provider writes them, and normal
Identities == Codes \X Int
FeedRow == [code : Codes, data : Int, wholesale : Int]
FeedRows == [PlanId -> FeedRow]
PlanRows == [status : {"absent", "active", "inactive"}, retail : Int, wholesale : Int,
             spec : Identities, had : SUBSET Identities]
ProductRows == [source : PlanId \cup {"none"}, identity : Identities, been : SUBSET Identities]
OfferRows == [product : Nat, wholesale : Int]
ShelfRows == [product : Nat, tenant : Seller, retail : Int, status : {"active", "inactive"}]
RuleRows == [scope : STRING, type : {"fixed", "percentage"}, value : Int, priority : Int]
Syncing == [kind : {"sync"}, order : Seq(PlanId)]
Ordering == [kind : {"order"}, plan : PlanId, tenant : Seller, offer : Nat]
Enabling == [kind : {"enable"}, product : Nat, tenant : Seller, price : Int]
Disabling == [kind : {"disable"}, tenant : Seller, offer : Nat]
Toggling == [kind : {"toggle"}, plan : PlanId, status : {"active", "inactive"}]
Changing == [kind : {"change"}, plan : PlanId, row : FeedRow]
Resting == [kind : {"idle"}]

\* A sync is for every plan. A call that names an offer of a shelf names one there is.
DeedFits(does, stocked) ==
  /\ \/ does \in Syncing /\ does.order # <<>>
        /\ \A p \in PlanId : \E n \in DOMAIN does.order : does.order[n] = p
     \/ does \in Ordering /\ does.offer \in 0..Len(stocked)
     \/ does \in Disabling /\ does.offer \in DOMAIN stocked
     \/ does \in Enabling \cup Toggling \cup Changing \cup Resting

\* A product was made, or is claimed, for a specification that its plan has had: the plan's
\* present one or, once the provider has changed the plan, an earlier one.
SourceFits(product, rows) ==
  /\ product.identity \in product.been
  /\ product.source # "none" => product.been \cap rows[product.source].had # {}
PlanFits(row) == row.status # "absent" => row.spec \in row.had

ASSUME CatalogueAssumption ==
  /\ "none" \notin PlanId
  /\ \A plan \in CataloguePlans :
       /\ plan.feed \in FeedRows /\ plan.plans \in [PlanId -> PlanRows]
       /\ \A p \in PlanId : PlanFits(plan.plans[p])
       /\ plan.products \in Seq(ProductRows) /\ plan.offers \in Seq(OfferRows)
       /\ plan.shelf \in Seq(ShelfRows) /\ plan.rules \in SUBSET RuleRows
       /\ DOMAIN plan.does = Task
       /\ \A t \in Task : DeedFits(plan.does[t], plan.shelf)
       /\ \A i \in DOMAIN plan.products :
            SourceFits(plan.products[i], plan.plans)

CatalogueSpec == CatalogueInit /\ [][CatalogueNext]_catalogueVars

-----------------------------------------------------------------------------

CatalogueTypeOK ==
  /\ \A p \in PlanId : plans[p].status \in {"absent", "active", "inactive"}
  /\ \A i \in DOMAIN products : products[i].source \in PlanId \cup {"none"}
  /\ \A i \in DOMAIN offers : offers[i].product \in DOMAIN products
  /\ \A i \in DOMAIN shelf : shelf[i].product \in DOMAIN products

\* An order is for what was offered: its amount is a price that its offer has had while it
\* was active, of a shelf of its own tenant, for the product that the offer and the order
\* name; and that product has borne a specification that the plan's row has had, whichever
\* sync or order made the rows and whoever changed, repriced, disabled or resynced meanwhile
\* (orders/service.ts:193-260, 401-473).
OrderAsOffered ==
  \A o \in orders :
    /\ <<o.offer, o.amount>> \in offered
    /\ shelf[o.offer].product = o.product /\ shelf[o.offer].tenant = o.tenant
    /\ products[o.product].been \cap plans[o.plan].had # {}

\* What a run leaves of a plan's identity: a product of it that is supplied at the price of one
\* of the plans of that identity; or, where another plan owned that product and has changed,
\* the product as it was renamed for its owner.
Supplied(saw, identity) ==
  \E i \in OfIdentity(identity) : \E k \in SuppliesOf(i) : \E q \in PlanId :
    Identity(saw[q]) = identity /\ offers[k].wholesale = saw[q].wholesale
GivenAway(saw, identity) ==
  \E i \in DOMAIN products :
    /\ identity \in products[i].been /\ products[i].source \in PlanId
    /\ products[i].identity = Identity(saw[products[i].source]) /\ products[i].identity # identity

\* While the sync is the only writer of plans and products, a finished run has copied its
\* feed: each plan's row has the provider's wholesale price and specification, and its
\* product is supplied or was renamed for its owner (plans/service.ts:288-363, 410-520).
Alone(t) == \A u \in Task \ {t} : task[u].does.kind \notin {"sync", "order"}
SyncCopies ==
  \A t \in Task : task[t].does.kind = "sync" /\ task[t].at = "done" /\ Alone(t) =>
    \A p \in PlanId : LET pp == task[t].saw[p] IN Valid(pp) =>
      /\ plans[p].wholesale = pp.wholesale /\ plans[p].spec = Identity(pp)
      /\ Supplied(task[t].saw, Identity(pp)) \/ GivenAway(task[t].saw, Identity(pp))

\* What is sold is what was offered, of a catalogue that is its feed.
CatalogueIsTrue == OrderAsOffered /\ SyncCopies
===============================================================================

------------------------------- MODULE MCServices -------------------------------
(***************************************************************************)
(* What a tenant works with: who may act for it, the catalogue it sells    *)
(* from, the account behind a session's resource and the routers behind    *)
(* the account, what phones report, the numbers it buys, the market it     *)
(* sells in, whom it buys from, what it owes them, what support sees of an       *)
(* incident, what becomes of actions whose process died and what a user is *)
(* shown of the connectivity. They share no row here and are explored one  *)
(* at a time: a behaviour runs the one that `part` names and leaves the    *)
(* others in an initial state.                                             *)
(***************************************************************************)
EXTENDS KernelBridge, Catalogue, TenantAccess, NumberPurchase, IncidentLookup,
        OfferSearch, ProviderAccess, EdgeAttribution, Suppliers,
        ActionRecovery, ConnectivityView, TLC

CONSTANTS s1, s2, r1, r2, ann, bob, t1, t2, t3, t4, acme, volt, d1, d2, d3, d4, n1,
          h1, h2, h3, h4, j1, j2, j3, j4, e1, e2, e3, e4, q1, q2, q3, q4,
          k1, k2, k3, k4, y1, y2, u1

VARIABLE part

vars == <<part, bridgeVars, catalogueVars, accessVars, lineVars, incidentVars, searchVars,
          routeVars, edgeVars, pickVars, settlementVars, recoveryVars, viewVars>>

-----------------------------------------------------------------------------

(* The account behind a resource: two sessions, none, one or two entitlements. *)

Cover(type, provider) == [tenant |-> "t", type |-> type, provider |-> provider]
Held(tenant, provider) == Row(tenant, ann, provider, "ACTIVE", "BOUND", Unset)
Bridge(had, linked) ==
  [subject |-> s1 :> ann @@ s2 :> bob, asks |-> s1 :> 2 @@ s2 :> 1, faults |-> 1, moves |-> 1,
   cap |-> r1 :> Cover("INTERNET", "x") @@ r2 :> Cover("ROAMING", "x"),
   rows |-> had, link |-> r1 :> linked @@ r2 :> 0]

SomeBridges == {Bridge(<< >>, 0), Bridge(<<Held("t", "x")>>, 0),
                Bridge(<<Held("u", "x"), Held("t", "y")>>, 1)}

(* The catalogue: syncs, orders, and a tenant that sells what it has enabled.   *)

Offering(code, data, wholesale) == [code |-> code, data |-> data, wholesale |-> wholesale]
Idle == [kind |-> "idle"]
Sync == [kind |-> "sync", order |-> <<"p1", "p2">>]
Places(plan, tenant, offer) ==
  [kind |-> "order", plan |-> plan, tenant |-> tenant, offer |-> offer]
Enables(price) == [kind |-> "enable", product |-> 1, tenant |-> acme, price |-> price]
Disables == [kind |-> "disable", tenant |-> acme, offer |-> 1]
Toggles == [kind |-> "toggle", plan |-> "p1", status |-> "inactive"]
FeedTurns(row) == [kind |-> "change", plan |-> "p1", row |-> row]

SameTwice == "p1" :> Offering("GH", 1, 100) @@ "p2" :> Offering("gh", 1, 200)
OneInvalid == "p1" :> Offering("GH", 1, 100) @@ "p2" :> Offering("GH", 2, -1)
NoneYet == [p \in PlanId |-> NoPlan]
BothKnown == [p \in PlanId |-> [status |-> "active", retail |-> 130, wholesale |-> 100,
                                spec |-> <<"GH", 1>>, had |-> {<<"GH", 1>>, <<"XX", 1>>}]]
Article(source, spec) == [source |-> source, identity |-> spec, been |-> {spec}]
Known(source, code) == <<Article(source, <<code, 1>>)>>
Elsewhere == Article("none", <<"US", 1>>)
\* p1 takes what p2's product was, and p2 becomes another.
Respecified == "p1" :> Offering("GH", 1, 100) @@ "p2" :> Offering("GH", 2, 200)
Stocked == <<[product |-> 1, wholesale |-> 90]>>
OnShelf == <<[product |-> 1, tenant |-> acme, retail |-> 120, status |-> "active"]>>
Markups == {[scope |-> "GH", type |-> "fixed", value |-> 50, priority |-> 2],
            [scope |-> "global", type |-> "percentage", value |-> 30, priority |-> 1]}

Trade(fed, had, of, stock0, shelf0, markups, one, two, three, four) ==
  [feed |-> fed, plans |-> had, products |-> of, offers |-> stock0, shelf |-> shelf0,
   rules |-> markups, does |-> t1 :> one @@ t2 :> two @@ t3 :> three @@ t4 :> four]

SomeTrades ==
  LET known == Known("p1", "GH") IN
  {Trade(SameTwice, NoneYet, << >>, << >>, << >>, Markups,
         Sync, Sync, Places("p1", Direct, 0), Places("p2", Direct, 0)),
   Trade(SameTwice, BothKnown, known, Stocked, OnShelf, {},
         Sync, Enables(110), Places("p1", acme, 1), Disables),
   Trade(SameTwice, BothKnown, known, Stocked, OnShelf, {},
         FeedTurns(Offering("GH", 1, 115)), Sync, Places("p1", Direct, 1), Places("p2", Direct, 1)),
   Trade(Respecified, BothKnown, <<Article("p2", <<"GH", 1>>), Elsewhere>>, Stocked, << >>, {},
         Sync, FeedTurns(Offering("GH", 2, 90)), Places("p1", Direct, 0), Places("p2", Direct, 0)),
   Trade(Respecified, BothKnown, Known("p2", "GH"), Stocked, << >>, {},
         Sync, FeedTurns(Offering("XX", 1, 90)), Toggles, Idle),
   Trade(SameTwice, BothKnown, known, Stocked, << >>, {},
         Enables(95), Enables(110), Enables(130), Places("p1", acme, 0)),
   Trade(OneInvalid, BothKnown, Known("p1", "XX"), Stocked, << >>, {},
         Sync, Toggles, Enables(130), Idle),
   Trade(OneInvalid, BothKnown, Known("none", "GH"), Stocked, << >>, {},
         Sync, Toggles, Enables(130), Idle)}

(* Who may act: ann owns acme; bob has a role there and sells for volt.         *)

Serving(role) == [role |-> role, row |-> "first"]
NewKey(f, scopes) == [firm |-> f, scopes |-> scopes, valid |-> TRUE]
Request0(kind, rec) == rec @@ [kind |-> kind, token |-> "first", key |-> Nobody]
By(token, kind, rec) == [Request0(kind, rec) EXCEPT !.token = token]
WithKey(key, firm, user) ==
  [Request0("session", [of |-> [firm |-> firm, user |-> user]]) EXCEPT !.key = key]
Joins(p) == Request0("join", [person |-> p])
Approves(p) == Request0("approve", [person |-> p])
SignsUp(p, f) == Request0("signup", [person |-> p, of |-> f])
Adds(token, email) == By(token, "customer", [email |-> email])
Revokes(key) == By("second", "revoke", [of |-> key])
Removes == By("first", "remove", [person |-> "bob"])
Switches(f) == By("second", "switch", [of |-> f])
Orders == By("second", "order", << >>)
Makes(person, role) == [person |-> person, role |-> role]

Office(bobs, chosen, scopes, one, two, three, four) ==
  [accounts |-> [p \in Person |-> [user |-> p # "cat", entry |-> "absent"]],
   members |-> [f \in Firm |-> [p \in Person |->
     CASE f = "acme" /\ p = "ann" -> Serving("owner")
       [] f = "acme" /\ p = "bob" -> Serving(bobs)
       [] f = "volt" /\ p = "bob" -> Serving("sales") [] OTHER -> NoMember]],
   logins |-> [c \in Credential |-> CASE c = "first" -> [user |-> "ann", firm |-> Nobody]
     [] c = "second" -> [user |-> "bob", firm |-> chosen] [] OTHER -> NoLogin],
   keys |-> [c \in Credential |-> CASE c = "first" -> NewKey("acme", scopes)
     [] c = "second" -> NewKey("volt", {"write"})
     [] OTHER -> [firm |-> Nobody, scopes |-> {}, valid |-> FALSE]],
   records |-> [f \in Firm |-> [customers |-> {}, placed |-> 0]],
   founded |-> [f \in Firm |-> [by |-> IF f \in {"acme", "volt"} THEN "first" ELSE Nobody,
                                has |-> {}, live |-> f \in {"acme", "volt"}]],
   limit |-> [f \in Firm |-> [staff |-> 3, customers |-> 1, orders |-> 1]],
   does |-> "v1" :> one @@ "v2" :> two @@ "v3" :> three @@ "v4" :> four]

SomeOffices == {
  Office("admin", "acme", {"write"},
         Adds("first", "x"), Adds("second", "x"), Adds("second", "y"), Removes),
  Office("sales", "acme", {"write"},
         Orders, By("first", "promote", Makes("bob", "viewer")), Orders, Switches("volt")),
  Office("admin", Nobody, {"read"},
         Revokes("first"), Switches("acme"), WithKey("first", "acme", "ann"),
         By("second", "session", [of |-> [firm |-> "volt", user |-> "bob"]])),
  Office("admin", "acme", {"write"},
         Revokes("second"), Revokes("first"), WithKey("first", "acme", "ann"),
         By("second", "logout", << >>)),
  Office("admin", "acme", {"write"},
         By("first", "invite", Makes("cat", "sales")),
         By("second", "invite", Makes("cat", "admin")),
         By("second", "newkey", [scopes |-> {"write"}]),
         By("first", "promote", Makes("bob", "owner"))),
  Office("admin", "volt", {"write"},
         By("second", "edit", [of |-> "acme"]), Switches("acme"), Removes,
         By("first", "invite", Makes("bob", "viewer"))),
  Office("admin", "acme", {"write"},
         SignsUp("cat", "zeta"), SignsUp("cat", "omega"), Joins("cat"), Approves("cat")),
  Office("admin", "acme", {"write"},
         SignsUp("cat", "zeta"), Joins("dan"), SignsUp("eve", "zeta"), Approves("dan")),
  Office("admin", "acme", {"write"},
         SignsUp("eve", "acme"), Approves("cat"), Request0("login", [person |-> "cat"]),
         Joins("cat"))}

(* One number: bought, used, released, bought again; messages sent and received. *)

Dials(user, key) == [kind |-> "buy", user |-> user, number |-> n1, key |-> key]
Releases == [kind |-> "release", user |-> ann, number |-> n1]
Sends == [kind |-> "send", user |-> ann, number |-> n1, message |-> "out"]
Receives == [kind |-> "sms", number |-> n1, event |-> "e", message |-> "in"]
Calls(one, two, three, four) ==
  [messages |-> {"in", "out"}, mishaps |-> 1,
   dials |-> d1 :> one @@ d2 :> two @@ d3 :> three @@ d4 :> four]

SomeLines == {Calls(Dials(ann, "x"), Dials(ann, "x"), Dials(bob, "y"), Releases),
              Calls(Dials(ann, "x"), Receives, Receives, Sends),
              Calls(Dials(ann, "x"), Releases, Dials(bob, "y"), Receives)}

(* An incident: what is recorded of three intents of two tenants and of none.   *)

Asked(n, version, request, tenant) ==
  [intent |-> n, version |-> version, request |-> request, tenant |-> tenant]
Chronicle ==
  [intents |-> <<Asked(1, 1, 1, acme), Asked(1, 2, 2, acme), Asked(2, 1, 3, volt),
                 Asked(3, 1, 4, Unowned)>>,
   decisions |-> <<[intent |-> 1, version |-> 1, session |-> 1],
                   [intent |-> 3, version |-> 0, session |-> 1],
                   [intent |-> 2, version |-> 1, session |-> 2]>>,
   sessions |-> <<[tenant |-> acme, entitlement |-> 1], [tenant |-> volt, entitlement |-> 2]>>,
   actions |-> <<[session |-> 1, decision |-> 1, binding |-> 1],
                 [session |-> 2, decision |-> 3, binding |-> 2],
                 [session |-> 1, decision |-> 0, binding |-> 0]>>,
   bindings |-> <<[tenant |-> acme, name |-> 9, entitlement |-> 1],
                  [tenant |-> volt, name |-> 9, entitlement |-> 2]>>,
   ops |-> <<[tenant |-> acme, action |-> 1, decision |-> 1, binding |-> 1, key |-> 0,
              intent |-> 1, request |-> 1],
             [tenant |-> volt, action |-> 2, decision |-> 3, binding |-> 2, key |-> 7,
              intent |-> 2, request |-> 3]>>,
   claims |-> <<[key |-> 7, tenant |-> volt]>>]

Seeks(kind, value, version) == [kind |-> kind, value |-> value, version |-> version]
ByName == {Seeks(kind, value, 0) : value \in 1..3, kind \in
             {"requestId", "intentId", "decisionId", "actionId", "bindingId"}}
SomeChronicles ==
  {[book |-> Chronicle, key |-> k, caller |-> c, grows |-> 2] : c \in {acme, volt},
     k \in ByName \cup {Seeks("intentId", 1, 1), Seeks("providerResourceId", 9, 0),
                        Seeks("providerKey", 7, 0)}}

(* A market: offers are fed and priced, searched for and bought.                *)

Specs(speed, data, days) == [speed |-> speed, data |-> data, days |-> days]
InGhana == [country |-> {"GH"}, region |-> {}, city |-> {"Accra"}]
Offered(firm, spec, covers, supplier, wholesale, price, until, reliability) ==
  [firm |-> firm, cap |-> "INTERNET", via |-> "mikrotik", spec |-> spec, countries |-> {"GH"},
   covers |-> covers, supplier |-> supplier, wholesale |-> wholesale, price |-> price,
   until |-> until, reliability |-> reliability, status |-> "active", product |-> 0]
Lasting == Offered(acme, Specs(100, 5, 30), InGhana, "s", 100, 120, 15, 900000)
Lesser == Offered(acme, Specs(80, 0, 7), [InGhana EXCEPT !.city = {}], "s", 100, 120, 15, 700000)
Homely == Offered(acme, Specs(20, 0, 30), Uncovered, Ours, 90, 90, Never, 900000)
Unrelated == Offered(volt, Specs(100, 5, 30), InGhana, "s", 50, 55, Never, 900000)
Roaming == [Lasting EXCEPT !.cap = "ROAMING"]
Tariff(cap, via, supplier, percent, fixed) ==
  [id |-> 1, firm |-> acme, cap |-> cap, via |-> via, supplier |-> supplier,
   percent |-> percent, fixed |-> fixed]
General == Tariff(Null, Null, Null, 20, 0)
Special == Tariff("INTERNET", "mikrotik", "s", 0, 15)
Feeds(o, wholesale) == [kind |-> "ingest", row |-> [o EXCEPT !.wholesale = wholesale]]
Marks(rule) == [kind |-> "markup", rule |-> rule]
Searches(words, days) ==
  [kind |-> "search", firm |-> acme,
   text |-> [words |-> words, mbps |-> Unsaid, gb |-> Unsaid, days |-> days,
             model |-> {[cap |-> Unsaid, place |-> Unsaid, countries |-> {"GH", "NG"},
                         spec |-> Specs(90, 5, 0)]}]]
Purchases(offer) == [kind |-> "buy", firm |-> acme, offer |-> offer]
Bazaar(priced, one, two, three, four) ==
  [market |-> <<Lasting, Lesser, Homely, Unrelated>>, rules |-> priced, past |-> {{General}},
   does |-> h1 :> one @@ h2 :> two @@ h3 :> three @@ h4 :> four]

SomeBazaars ==
  {Bazaar({General}, Feeds(Lasting, 110), Marks(Special),
          Searches({"accra", "wifi"}, 7), Purchases(1)),
   Bazaar({}, Feeds(Roaming, 200), Feeds(Roaming, 300), Marks(General), Marks(General)),
   Bazaar({Special}, Feeds(Lasting, 10), Searches({"kenya", "fast", "esim"}, Unsaid),
          Purchases(1), Purchases(1)),
   Bazaar({}, Marks(Special), Marks(Special), Feeds(Homely, 95), Purchases(4))}

(* Routers: the cron job's rounds and recoveries while instances are edited.     *)

Router(key, status) == [tenant |-> acme, type |-> "mikrotik", key |-> key, status |-> status]
Cron == [kind |-> "cron"]
Recovers(b) == [kind |-> "recover", binding |-> b]
Rekeys(i, key, status) ==
  [kind |-> "edit", inst |-> i, tenant |-> acme, key |-> key, status |-> status]
Reseats(s, r, state) == [kind |-> "move", session |-> s, on |-> r, state |-> state]
NewRouter == [kind |-> "add", row |-> Router("k2", "inactive")]
Binds(type, inst, id) == [type |-> type, inst |-> inst, id |-> id, tenant |-> acme]
On(r) == [state |-> "ACTIVE", on |-> r]
Site(one, two, good, first, second, third, fourth) ==
  [instances |-> <<Router("k1", "active"), Router("k3", "active"),
                   [Router("k1", "active") EXCEPT !.type = "esim"]>>,
   bound |-> <<Binds("mikrotik", 1, 7), Binds("mikrotik", 2, 8), Binds("esim", 3, 9),
               Binds("other", 0, 0), Binds("mikrotik", 1, 0)>>,
   uses |-> <<1, 1, 2, 3, 4, 0, 5>>, seats |-> <<On(one), On(two)>>, fresh |-> good,
   does |-> j1 :> first @@ j2 :> second @@ j3 :> third @@ j4 :> fourth]

SomeSites ==
  {Site(1, 6, {}, Cron, Rekeys(1, "k2", "active"), Rekeys(1, "k1", "active"), Recovers(1)),
   Site(1, 2, {1}, Cron, Recovers(1), Rekeys(1, "k2", "inactive"), Reseats(2, 1, "DEGRADED")),
   Site(3, 4, {3}, Cron, Rekeys(2, "none", "active"), Reseats(1, 6, "ACTIVE"), NewRouter),
   Site(5, 7, {}, Cron, Recovers(2), Rekeys(2, "k2", "active"), Rekeys(2, "k2", "inactive")),
   Site(7, 3, {7}, Recovers(2), Recovers(1), Rekeys(1, "k2", "active"), Recovers(1)),
   Site(1, 3, {1, 3}, Cron, Reseats(1, 3, "ACTIVE"), Reseats(2, 1, "ACTIVE"),
        Rekeys(2, "k3", "inactive"))}

(* Phones: two users' devices and sessions; observations are sent twice.         *)

Phone(user, device) == [kind |-> "register", user |-> user, device |-> device]
Sees(device, n, s, hint, source) ==
  [device |-> device, sequence |-> n, session |-> s, hint |-> hint, source |-> source,
   wellFormed |-> n # 3, sane |-> n # 4]
Sends2(user, device, batch) ==
  [kind |-> "upload", user |-> user, device |-> device, batch |-> batch]
Hops(s, r) == [kind |-> "switch", session |-> s, on |-> r]
Seat(user, r) == [subject |-> user, on |-> <<r>>]
Reports(owned, one, two, three, four) ==
  [owners |-> "dev1" :> owned @@ "dev2" :> bob, seated |-> <<Seat(ann, 1), Seat(bob, 2)>>,
   does |-> e1 :> one @@ e2 :> two @@ e3 :> three @@ e4 :> four]

SomeReports ==
  LET mine == Sends2(ann, "dev1", <<Sees("dev1", 1, 1, 1, "DEVICE"), Sees("dev1", 2, 1, 2, "DEVICE")>>)
  IN {Reports(ann, mine, mine, Hops(1, 2), Hops(1, 1)),
      Reports(NoEdge, Phone(ann, "dev1"), Phone(bob, "dev1"), mine,
              Sends2(bob, "dev1", <<Sees("dev1", 1, 1, 1, "DEVICE")>>)),
      Reports(ann, Sends2(ann, "dev1", <<Sees("dev1", 3, 1, 1, "DEVICE"), Sees("dev1", 4, 1, 1, "DEVICE"),
                                         Sees("dev1", 5, 1, NoEdge, "DEVICE")>>),
              Sends2(bob, "dev2", <<Sees("dev2", 1, 1, 1, "DEVICE"), Sees("dev2", 2, 2, 2, "PROBE")>>),
              Hops(1, NoEdge), Sends2(ann, "dev1", <<Sees("dev2", 6, 1, 1, "DEVICE")>>))}

(* Suppliers: an order chooses and an administrator compares.                    *)

Supplier(key, policy, good, bad) ==
  [key |-> key, policy |-> policy, active |-> TRUE, health |-> "healthy", cooling |-> FALSE,
   successes |-> good, failures |-> bad]
Supplies(supplier, wholesale) ==
  [supplier |-> supplier, wholesale |-> wholesale, audiences |-> {"B2C"}, status |-> "active"]
Credit(limit, liability, pending) == [limit |-> limit, liability |-> liability, pending |-> pending]
Selects == [kind |-> "select"]
Compares == [kind |-> "compare"]
Commits(key, amount) == [kind |-> "commit", key |-> key, amount |-> amount]
Settles(kind, key, amount) == [kind |-> kind, key |-> key, amount |-> amount]
Changes(o, wholesale, status) ==
  [kind |-> "offer", offer |-> o, wholesale |-> wholesale, status |-> status]
Procures(range, one, two, three, four) ==
  [offers |-> range, accounts |-> "a" :> Credit(1000, 700, 100) @@ "b" :> Credit(1000, 100, 500),
   does |-> q1 :> one @@ q2 :> two @@ q3 :> three @@ q4 :> four]

SomeProcurements ==
  LET good == Supplies(Supplier("a", "B2C_ONLY", 2, 1), 150)
      fresh0 == Supplies(Supplier("b", "ANY", 0, 0), 120)
      even == Supplies(Supplier("none", "ANY", 1, 1), 120)
      closed == Supplies(Supplier("b", "B2B_ONLY", 9, 0), 10) IN
  {Procures(<<good, fresh0, even>>, Selects, Compares, Commits("a", 90), Settles("settle", "a", 100)),
   Procures(<<good, closed, fresh0>>, Selects, Commits("b", 350), Settles("release", "b", 300),
            Changes(1, 90, "active")),
   Procures(<<closed, good>>, Selects, Compares, Commits("a", 60), Changes(2, 150, "inactive"))}

(* Settlements of one supplier: costs of two days, a cron job for the first.     *)

Costs0(order, amount, day) ==
  [tenant |-> acme, order |-> order, supplier |-> "s", amount |-> amount, day |-> day,
   status |-> "pending"]
Clerical(kind, dies, rec) == rec @@ [kind |-> kind, dies |-> dies, tenant |-> acme]
Settling0(to, dies) == Clerical("settle", dies, [supplier |-> "s", from |-> 1, to |-> to])
Recording(order, supplier) ==
  Clerical("cost", FALSE, [order |-> order, supplier |-> supplier, amount |-> 7, day |-> 2])
Sweeping == Clerical("sweep", TRUE, [tenants |-> {acme, volt}, before |-> 2])
Invoicing(dies) == Clerical("invoice", dies, << >>)
Paying == Clerical("pay", FALSE, << >>)
Offices0(known, one, two, three, four) ==
  [costs |-> <<Costs0(1, 5, 1), Costs0(2, 6, 2)>>, accounts |-> known,
   does |-> k1 :> one @@ k2 :> two @@ k3 :> three @@ k4 :> four]

SomeClerks ==
  LET known == "s" :> 0 IN
  {Offices0(known, Settling0(2, TRUE), Settling0(1, FALSE), Recording(3, "s"), Sweeping),
   Offices0(known, Settling0(2, FALSE), Invoicing(TRUE), Invoicing(FALSE), Paying),
   Offices0(<< >>, Settling0(2, FALSE), Invoicing(FALSE), Recording(3, "s"), Recording(3, "s")),
   Offices0(known, Recording(3, "none"), Recording(1, "s"), Settling0(1, FALSE), Settling0(2, FALSE))}

(* Dead actions: two sessions', on one resource or two, one or two rescuers.     *)

Dead(s, r) == [session |-> s, target |-> r]
Spot(state, by) == [state |-> state, by |-> by]
Left(dead, spot, seat, deaths, slow) ==
  [acts |-> dead, spots |-> <<spot>>, standing |-> <<seat, "SWITCHING", "ACTIVE">>,
   spare |-> [deaths |-> deaths, slow |-> slow, newcomers |-> 1]]

SomeLeftovers ==
  {Left(<<Dead(1, 1)>>, Spot(state, by), seat, 1, 1) :
     state \in {"RESERVED", "IN_USE"}, by \in {1, 2}, seat \in {"SWITCHING", "ACTIVE"}}
  \cup {Left(<<Dead(1, 1), Dead(2, 1)>>, Spot("RESERVED", 1), "SWITCHING", 0, 1),
         Left(<<Dead(1, 1), Dead(1, 1)>>, Spot("RESERVED", 1), "SWITCHING", 0, 0),
         Left(<<Dead(1, 1), Dead(2, 2)>>, Spot("IN_USE", 1), "SWITCHING", 0, 0)}

(* The view: a session that switches beside one that ends, and two of one user.  *)

Seated(user, state, r) ==
  [owner |-> user, state |-> state, was |-> state, on |-> r, to |-> 0, step |-> "still"]
Used(s) == [state |-> "IN_USE", by |-> s]
Scene(seats0, free, whose, switches, readings) ==
  [sits |-> seats0, slots |-> [r \in DOMAIN seats0 |-> Used(r)] \o free, bond |-> whose,
   bounds |-> [switches |-> switches, releases |-> 1, readings |-> readings, requests |-> 1]]

SomeScenes ==
  LET mine == Seated(ann, "ACTIVE", 1)
      vacant == <<Spot("AVAILABLE", 0)>> IN
  {Scene(<<mine, Seated(bob, "ACTIVE", 2)>>, vacant, <<ann, bob, ann>>, 1, 0),
   Scene(<<mine>>, vacant, <<0, ann>>, 2, 0), Scene(<<mine>>, vacant, <<ann, bob>>, 1, 0),
   Scene(<<[mine EXCEPT !.state = "DEGRADED"]>>, vacant, <<ann, 0>>, 2, 1),
   Scene(<<mine>>, << >>, <<ann>>, 0, 2),
   Scene(<<mine, Seated(ann, "DISCOVERING", 0)>>, << >>, <<ann, 0>>, 0, 0)}

-----------------------------------------------------------------------------

Init ==
  /\ part \in {"bridge", "catalogue", "access", "lines", "incident", "market", "routes",
              "phones", "choice", "settling", "rescue", "view"}
  /\ IF part = "bridge" THEN BridgeInit ELSE BridgeInitOf(CHOOSE p \in BridgePlans : TRUE)
  /\ IF part = "catalogue" THEN CatalogueInit
     ELSE CatalogueInitOf(CHOOSE p \in CataloguePlans : TRUE)
  /\ IF part = "access" THEN AccessInit ELSE AccessInitOf(CHOOSE p \in AccessPlans : TRUE)
  /\ IF part = "lines" THEN LineInit ELSE LineInitOf(CHOOSE p \in LinePlans : TRUE)
  /\ IF part = "incident" THEN IncidentInit ELSE IncidentInitOf(CHOOSE p \in Chronicles : TRUE)
  /\ IF part = "market" THEN SearchInit ELSE SearchInitOf(CHOOSE p \in OfferPlans : TRUE)
  /\ IF part = "routes" THEN RouteInit ELSE RouteInitOf(CHOOSE p \in AccessRoutes : TRUE)
  /\ IF part = "phones" THEN EdgeInit ELSE EdgeInitOf(CHOOSE p \in EdgePlans : TRUE)
  /\ IF part = "choice" THEN PickInit ELSE PickInitOf(CHOOSE p \in PickPlans : TRUE)
  /\ IF part = "settling" THEN SettlementInit
     ELSE SettlementInitOf(CHOOSE p \in SettlementPlans : TRUE)
  /\ IF part = "rescue" THEN RecoveryInit
     ELSE RecoveryInitOf(CHOOSE p \in RecoveryCases : TRUE)
  /\ IF part = "view" THEN ViewInit ELSE ViewInitOf(CHOOSE p \in ViewPlans : TRUE)

Linking(A) == /\ part = "bridge" /\ A
              /\ UNCHANGED <<part, catalogueVars, accessVars, lineVars, incidentVars,
                             searchVars, routeVars, edgeVars, pickVars, settlementVars,
                             recoveryVars, viewVars>>
Trades(A) == /\ part = "catalogue" /\ A
             /\ UNCHANGED <<part, bridgeVars, accessVars, lineVars, incidentVars,
                            searchVars, routeVars, edgeVars, pickVars, settlementVars,
                            recoveryVars, viewVars>>
Visits(A) == /\ part = "access" /\ A
             /\ UNCHANGED <<part, bridgeVars, catalogueVars, lineVars, incidentVars,
                            searchVars, routeVars, edgeVars, pickVars, settlementVars,
                            recoveryVars, viewVars>>
Lines(A) == /\ part = "lines" /\ A
            /\ UNCHANGED <<part, bridgeVars, catalogueVars, accessVars, incidentVars,
                           searchVars, routeVars, edgeVars, pickVars, settlementVars,
                           recoveryVars, viewVars>>
LooksUp(A) == /\ part = "incident" /\ A
              /\ UNCHANGED <<part, bridgeVars, catalogueVars, accessVars, lineVars,
                             searchVars, routeVars, edgeVars, pickVars, settlementVars,
                             recoveryVars, viewVars>>
Hunts(A) == /\ part = "market" /\ A
            /\ UNCHANGED <<part, bridgeVars, catalogueVars, accessVars, lineVars,
                           incidentVars, routeVars, edgeVars, pickVars, settlementVars,
                           recoveryVars, viewVars>>
Works(A) == /\ part = "routes" /\ A
            /\ UNCHANGED <<part, bridgeVars, catalogueVars, accessVars, lineVars,
                           incidentVars, searchVars, edgeVars, pickVars, settlementVars,
                           recoveryVars, viewVars>>
Reporting(A) == /\ part = "phones" /\ A
                /\ UNCHANGED <<part, bridgeVars, catalogueVars, accessVars, lineVars,
                               incidentVars, searchVars, routeVars, pickVars, settlementVars,
                               recoveryVars, viewVars>>
Procuring(A) == /\ part = "choice" /\ A
                /\ UNCHANGED <<part, bridgeVars, catalogueVars, accessVars, lineVars,
                               incidentVars, searchVars, routeVars, edgeVars, settlementVars,
                               recoveryVars, viewVars>>
Accounting(A) == /\ part = "settling" /\ A
                 /\ UNCHANGED <<part, bridgeVars, catalogueVars, accessVars, lineVars,
                                incidentVars, searchVars, routeVars, edgeVars, pickVars,
                                recoveryVars, viewVars>>
Rescuing(A) == /\ part = "rescue" /\ A
               /\ UNCHANGED <<part, bridgeVars, catalogueVars, accessVars, lineVars,
                              incidentVars, searchVars, routeVars, edgeVars, pickVars,
                              settlementVars, viewVars>>
Showing(A) == /\ part = "view" /\ A
              /\ UNCHANGED <<part, bridgeVars, catalogueVars, accessVars, lineVars,
                             incidentVars, searchVars, routeVars, edgeVars, pickVars,
                             settlementVars, recoveryVars>>

Next ==
  \/ Linking(BridgeNext) \/ Trades(CatalogueNext) \/ Visits(AccessNext)
  \/ Lines(LineNext) \/ LooksUp(IncidentNext) \/ Hunts(SearchNext)
  \/ Works(RouteNext) \/ Reporting(EdgeNext) \/ Procuring(PickNext)
  \/ Accounting(SettlementNext) \/ Rescuing(RecoveryNext)
  \/ Showing(ViewNext)

Spec == Init /\ [][Next]_vars

\* A session is served over a binding of its own, a binding is asked over a client of its
\* own instance as configured, what a phone observes counts for its own session and
\* resource, an action recovered as FAILED leaves its session nothing and takes nothing of
\* another's, and a session is shown ACTIVE only on what it uses: see OwnBinding,
\* RoutersAreAsked, AttributedRightly, RecoveredRightly and ViewIsTrue.
ServedByOwn ==
  OwnBinding /\ RoutersAreAsked /\ AttributedRightly /\ RecoveredRightly /\ ViewIsTrue

\* What is bought is what was priced, ranked and best, and what is owed for it is counted
\* once: see MarketIsTrue, ChosenIsBest and SettledOnce.
SupplyIsTrue == MarketIsTrue /\ ChosenIsBest /\ SettledOnce
===============================================================================

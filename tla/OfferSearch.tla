------------------------------ MODULE OfferSearch ------------------------------
(***************************************************************************)
(* The reseller's market: offers are ingested and priced by the reseller's  *)
(* markup rules, a customer's words become an intent, the offers are ranked *)
(* for it, and one of them is bought. Each call reads, decides and writes   *)
(* in separate statements; nothing is locked and nothing but the rules has  *)
(* a unique key.                                                            *)
(*                                                                         *)
(* Source: src/src/lib/commerce (ranking-engine, markup-engine,             *)
(* supplier-feed, intent-parser, ai-intent) and the routes rank, intent,    *)
(* markup and purchase of src/src/app/api/commerce. What the order of a     *)
(* purchase goes through is CommerceOrder. Rows are 1, 2, ...; 0 is none.   *)
(* Scores are in millionths; coordinates, one more factor of a place's      *)
(* score, are left out.                                                     *)
(***************************************************************************)
EXTENDS Naturals, Sequences, FiniteSets, FiniteSetsExt, SequencesExt

CONSTANTS
  Hunt,         \* calls that may run at once
  OfferPlans,   \* what a behaviour may begin with
  Ours,          \* the supplier of the reseller's own infrastructure
  Null,          \* a rule's NULL
  Unsaid,       \* what an intent leaves open
  Never,        \* no validUntil
  KEPT, SHOWN,  \* of a ranking, what is stored and what is answered
  DEFAULT_MARKUP

ASSUME SearchAssumption == {KEPT, SHOWN, DEFAULT_MARKUP} \subseteq Nat /\ SHOWN <= KEPT

VARIABLES
  market,       \* ConnectivityOffer2 rows
  markupRows,   \* ResellerMarkup rows
  goods,        \* ResellerProduct rows: the offer they were made of, their price
  listings,     \* IntentRequest rows
  bought,       \* orders: offer, amount, product
  hunt,         \* each call's place and what it has read
  today,
  tariffs,      \* every set of rules there has been
  quoted        \* every price an offer has had, with its wholesale price

searchVars == <<market, markupRows, goods, listings, bought, hunt, today, tariffs, quoted>>

-----------------------------------------------------------------------------
(* Prices.                                                                 *)

\* Math.round(amount * (1 + percent / 100)).
WithPercent(amount, percent) == (2 * amount * (100 + percent) + 100) \div 200

\* The scopes of rules, the most specific first: of capability, provider, supplier.
Scopes == << <<TRUE, TRUE, TRUE>>, <<TRUE, TRUE, FALSE>>, <<TRUE, FALSE, TRUE>>,
             <<FALSE, TRUE, TRUE>>, <<TRUE, FALSE, FALSE>>, <<FALSE, TRUE, FALSE>>,
             <<FALSE, FALSE, TRUE>>, <<FALSE, FALSE, FALSE>> >>
Scoped(said, value) == IF said THEN value ELSE Null
RulesAt(book, o, s) ==
  {m \in book : /\ m.firm = o.firm /\ m.cap = Scoped(s[1], o.cap)
                /\ m.via = Scoped(s[2], o.via) /\ m.supplier = Scoped(s[3], o.supplier)}
MostSpecific(book, o) ==
  LET level == {i \in DOMAIN Scopes : RulesAt(book, o, Scopes[i]) # {}}
  IN IF level = {} THEN {} ELSE RulesAt(book, o, Scopes[Min(level)])

\* Two rules of one scope are read in any order.
CustomerPrices(book, o) ==
  IF o.supplier = Ours THEN {o.wholesale}
  ELSE IF MostSpecific(book, o) = {} THEN {WithPercent(o.wholesale, DEFAULT_MARKUP)}
  ELSE {IF m.percent > 0 THEN WithPercent(o.wholesale, m.percent) ELSE o.wholesale + m.fixed :
        m \in MostSpecific(book, o)}

-----------------------------------------------------------------------------
(* What the words ask for. A text is the set of keywords in it, and the     *)
(* numbers that stand before or after a unit.                               *)

Table(entries, words) ==         \* the first entry of a table that the words mention
  LET hit == {i \in DOMAIN entries : entries[i][1] \in words}
  IN IF hit = {} THEN Unsaid ELSE entries[Min(hit)][2]
Cities == << <<"accra", [country |-> "GH", region |-> "Greater Accra", city |-> "Accra"]>>,
             <<"lagos", [country |-> "NG", region |-> "Lagos State", city |-> "Lagos"]>> >>
Lands == << <<"ghana", [country |-> "GH", region |-> Unsaid, city |-> Unsaid]>>,
            <<"kenya", [country |-> "KE", region |-> Unsaid, city |-> Unsaid]>> >>
Capabilities == << <<"wifi", "INTERNET">>, <<"esim", "ROAMING">>, <<"vpn", "VPN_ACCESS">> >>
Validities == << <<"today", 1>>, <<"week", 7>>, <<"month", 30>> >>
Speeds == << <<"fast", 100>>, <<"slow", 10>> >>
Rather(number, keyword) == IF number # Unsaid THEN number ELSE keyword
Wanted(number) == IF number = Unsaid THEN 0 ELSE number

\* A city counts before a country, a number before a keyword. (A budget is parsed and
\* stored; nothing that ranks or sells looks at it.)
ParseIntent(text) ==
  [cap |-> Table(Capabilities, text.words),
   place |-> Rather(Table(Cities, text.words), Table(Lands, text.words)),
   spec |-> [speed |-> Wanted(Rather(text.mbps, Table(Speeds, text.words))),
             data |-> Wanted(text.gb),
             days |-> Wanted(Rather(text.days, Table(Validities, text.words)))],
   countries |-> {}]

\* The language model's answer, when it comes and is JSON; else the parser's.
ExtractIntent(text) == {ParseIntent(text)} \cup text.model

-----------------------------------------------------------------------------
(* Scores.                                                                 *)

Whole == 1000000
Share(part, all) == (Whole * part) \div all

MeetsExactly(actual, wish, dim) == IF actual = wish THEN Whole ELSE 0   \* mutant

\* Each wish counts one: met, nearly met (80 %, not of a duration), or for countries the
\* share that is covered.
Meets(actual, wish, dim) ==
  IF actual >= wish THEN Whole
  ELSE IF dim # "days" /\ actual > 0 /\ actual * 10 >= wish * 8 THEN Whole \div 2 ELSE 0
ScoreIntentMatch(want, o) ==
  LET dims == {dim \in {"speed", "data", "days"} : want.spec[dim] > 0}
      lands == IF want.countries = {} THEN 0 ELSE 1
      points == MapThenSumSet(LAMBDA dim : Meets(o.spec[dim], want.spec[dim], dim), dims)
                + IF lands = 0 THEN 0
                  ELSE Share(Cardinality(want.countries \cap o.countries), Cardinality(want.countries))
  IN IF Cardinality(dims) + lands = 0 THEN Whole ELSE points \div (Cardinality(dims) + lands)

Uncovered == [country |-> {}, region |-> {}, city |-> {}]
ScoreLocationMatch(place, covers) ==
  IF place = Unsaid THEN Whole
  ELSE IF covers = Uncovered THEN Whole \div 2
  ELSE LET factors == {f \in {"country", "region", "city"} : place[f] # Unsaid}
       IN Share(Cardinality({f \in factors : place[f] \in covers[f]}), Cardinality(factors))

ScoreAvailability(until) ==
  IF until = Never THEN Whole
  ELSE CASE until < today -> 0 [] until > today + 30 -> Whole [] until > today + 7 -> 800000
         [] until > today + 1 -> 500000 [] OTHER -> 200000

\* Among all the reseller's active prices, of every capability.
ScorePrice(price, all) ==
  LET paid == {p \in all : p > 0}
  IN IF Cardinality(paid) <= 1 THEN Whole ELSE Share(Max(paid) - price, Max(paid) - Min(paid))

ScoreMargin(o) ==
  IF o.price <= o.wholesale THEN 0
  ELSE Min({Whole, Share(2 * (o.price - o.wholesale), o.price)})

\* DEFAULT_WEIGHTS, in hundredths; the total is rounded to thousandths.
Score(want, o, all) ==
  (20 * ScoreIntentMatch(want, o) + 15 * ScoreLocationMatch(want.place, o.covers)
   + 10 * ScoreAvailability(o.until) + 25 * ScorePrice(o.price, all)
   + 10 * ScoreMargin(o) + 20 * o.reliability + 50000) \div 100000

Active(f) == {i \in DOMAIN market : market[i].firm = f /\ market[i].status = "active"}

\* Offers of one score stay in the order the database read them in, which is any.
Rankings(f, want) ==
  LET all == {market[i].price : i \in Active(f)}
      scored == {[id |-> i, score |-> Score(want, market[i], all), row |-> market[i]] :
                 i \in {j \in Active(f) : want.cap \in {Unsaid, market[j].cap}}}
  IN {s \in SetToSeqs(scored) : \A i, j \in DOMAIN s : i < j => s[i].score >= s[j].score}

Top(s, n) == SubSeq(s, 1, Min({n, Len(s)}))
Ids(s) == [i \in DOMAIN s |-> s[i].id]

-----------------------------------------------------------------------------

SearchInitOf(plan) ==
  /\ market = plan.market /\ markupRows = plan.rules /\ goods = << >>
  /\ listings = << >> /\ bought = {} /\ today = 0
  /\ hunt = [h \in Hunt |-> [does |-> plan.does[h], at |-> "begin", row |-> 0, price |-> 0,
                             old |-> {}, want |-> {}, ranked |-> << >>, product |-> 0]]
  /\ tariffs = {plan.rules} \cup plan.past
  /\ quoted = {[offer |-> i, wholesale |-> plan.market[i].wholesale,
                price |-> plan.market[i].price] : i \in DOMAIN plan.market}

SearchInit == \E plan \in OfferPlans : SearchInitOf(plan)

Hunting(h, kind, at) == hunt[h].does.kind = kind /\ hunt[h].at = at
HuntAt(h, at) == hunt' = [hunt EXCEPT ![h].at = at]

\* ingestOffer: the price is made of the rules as they are now ...
CalculateCustomerPrice(h) ==
  /\ Hunting(h, "ingest", "begin")
  /\ \E price \in CustomerPrices(markupRows, hunt[h].does.row) :
       hunt' = [hunt EXCEPT ![h].price = price, ![h].at = "find"]
  /\ UNCHANGED <<market, markupRows, goods, listings, bought, today, tariffs, quoted>>

\* ... the row is looked for ...
SameOffer(o, q) ==
  <<o.firm, o.supplier, o.cap, o.via, o.spec, o.countries, o.covers>>
    = <<q.firm, q.supplier, q.cap, q.via, q.spec, q.countries, q.covers>>
FindSameOffer(h) ==
  /\ Hunting(h, "ingest", "find")
  /\ LET found == {i \in DOMAIN market : SameOffer(market[i], hunt[h].does.row)} IN
     \E i \in IF found = {} THEN {0} ELSE found :
       hunt' = [hunt EXCEPT ![h].row = i, ![h].at = "write"]
  /\ UNCHANGED <<market, markupRows, goods, listings, bought, today, tariffs, quoted>>

\* ... and written: the prices and the dates of a row that was found, or another row.
Quotes(i, o) == quoted' = quoted \cup {[offer |-> i, wholesale |-> o.wholesale, price |-> o.price]}
IngestOffer(h) ==
  /\ Hunting(h, "ingest", "write")
  /\ LET fed == hunt[h].does.row
         id == IF hunt[h].row = 0 THEN Len(market) + 1 ELSE hunt[h].row
         row == IF hunt[h].row = 0 THEN [fed EXCEPT !.price = hunt[h].price]
                ELSE [market[id] EXCEPT !.wholesale = fed.wholesale, !.price = hunt[h].price,
                                        !.until = fed.until, !.status = "active"]
     IN /\ market' = IF id > Len(market) THEN Append(market, row) ELSE [market EXCEPT ![id] = row]
        /\ Quotes(id, row)
  /\ HuntAt(h, "done")
  /\ UNCHANGED <<markupRows, goods, listings, bought, today, tariffs>>

\* POST markup: the rule of this scope is looked for, then changed or added. Only a rule
\* without a NULL collides with its like.
ScopeOf(m) == <<m.firm, m.cap, m.via, m.supplier>>
FindRule(h) ==
  /\ Hunting(h, "markup", "begin")
  /\ LET like == {m \in markupRows : ScopeOf(m) = ScopeOf(hunt[h].does.rule)} IN
     \E old \in IF like = {} THEN {{}} ELSE {{m} : m \in like} :
       hunt' = [hunt EXCEPT ![h].old = old, ![h].at = "write"]
  /\ UNCHANGED <<market, markupRows, goods, listings, bought, today, tariffs, quoted>>
Colliding(new) ==
  Null \notin {new.cap, new.via, new.supplier} /\ \E m \in markupRows : ScopeOf(m) = ScopeOf(new)
StoreRule(h) ==
  /\ Hunting(h, "markup", "write")
  /\ LET new == hunt[h].does.rule IN
     IF hunt[h].old = {} /\ Colliding(new) THEN UNCHANGED <<markupRows, tariffs>>
     ELSE LET row == {m \in markupRows : \E p \in hunt[h].old : m.id = p.id}
              id == IF row = {} THEN {Cardinality(markupRows) + 1} ELSE {m.id : m \in row}
          IN /\ markupRows' = (markupRows \ row) \cup {[new EXCEPT !.id = k] : k \in id}
             /\ tariffs' = tariffs \cup {markupRows'}
  /\ HuntAt(h, "done")
  /\ UNCHANGED <<market, goods, listings, bought, today, quoted>>

\* rankOffers, and what the intent route stores and answers.
RankOffers(h) ==
  /\ Hunting(h, "search", "begin")
  /\ \E want \in ExtractIntent(hunt[h].does.text) :
       \E ranked \in Rankings(hunt[h].does.firm, want) :
         hunt' = [hunt EXCEPT ![h].want = {want}, ![h].ranked = ranked, ![h].at = "store"]
  /\ UNCHANGED <<market, markupRows, goods, listings, bought, today, tariffs, quoted>>
StoreRequest(h) ==
  /\ Hunting(h, "search", "store")
  /\ listings' = Append(listings, [firm |-> hunt[h].does.firm, ids |-> Ids(Top(hunt[h].ranked, KEPT)),
                                   by |-> h, chosen |-> 0])
  /\ HuntAt(h, "done")
  /\ UNCHANGED <<market, markupRows, goods, bought, today, tariffs, quoted>>
Answer(h) == Top(hunt[h].ranked, SHOWN)

\* Purchase: any offer of the tenant that is active will do, listed or not.
ReadForSale(h) ==
  /\ Hunting(h, "buy", "begin")
  /\ \E n \in DOMAIN listings :
       /\ listings[n].firm = hunt[h].does.firm
       /\ IF hunt[h].does.offer \in Active(hunt[h].does.firm)
          THEN LET o == market[hunt[h].does.offer] IN
               hunt' = [hunt EXCEPT ![h].row = n, ![h].price = o.price, ![h].product = o.product,
                                    ![h].at = IF o.product = 0 THEN "create" ELSE "order"]
          ELSE HuntAt(h, "refused")
  /\ UNCHANGED <<market, markupRows, goods, listings, bought, today, tariffs, quoted>>
CreateGoods(h) ==
  /\ Hunting(h, "buy", "create")
  /\ goods' = Append(goods, [offer |-> hunt[h].does.offer, price |-> hunt[h].price])
  /\ hunt' = [hunt EXCEPT ![h].product = Len(goods) + 1, ![h].at = "link"]
  /\ UNCHANGED <<market, markupRows, listings, bought, today, tariffs, quoted>>
LinkGoods(h) ==
  /\ Hunting(h, "buy", "link")
  /\ market' = [market EXCEPT ![hunt[h].does.offer].product = hunt[h].product]
  /\ HuntAt(h, "order")
  /\ UNCHANGED <<markupRows, goods, listings, bought, today, tariffs, quoted>>
OrderGoods(h) ==
  /\ Hunting(h, "buy", "order")
  /\ bought' = bought \cup {[by |-> h, firm |-> hunt[h].does.firm, offer |-> hunt[h].does.offer,
                             amount |-> hunt[h].price, product |-> hunt[h].product]}
  /\ HuntAt(h, "choose")
  /\ UNCHANGED <<market, markupRows, goods, listings, today, tariffs, quoted>>
ChooseOffer(h) ==
  /\ Hunting(h, "buy", "choose")
  /\ listings' = [listings EXCEPT ![hunt[h].row].chosen = hunt[h].does.offer]
  /\ HuntAt(h, "done")
  /\ UNCHANGED <<market, markupRows, goods, bought, today, tariffs, quoted>>

\* Twenty days pass, once.
DaysPass ==
  /\ today = 0 /\ today' = 20
  /\ UNCHANGED <<market, markupRows, goods, listings, bought, hunt, tariffs, quoted>>

HuntStep(h) ==
  \/ CalculateCustomerPrice(h) \/ FindSameOffer(h) \/ IngestOffer(h)
  \/ FindRule(h) \/ StoreRule(h) \/ RankOffers(h) \/ StoreRequest(h)
  \/ ReadForSale(h) \/ CreateGoods(h) \/ LinkGoods(h) \/ OrderGoods(h) \/ ChooseOffer(h)

SearchNext == DaysPass \/ \E h \in Hunt : HuntStep(h)

-----------------------------------------------------------------------------

\* A price is never torn from its wholesale price: whichever ingests and edits of rules
\* cross, each price an offer has had is what one set of rules there has been makes of the
\* wholesale price that stood beside it, and own infrastructure bears no markup.
PricedByRules ==
  \A q \in quoted : \E book \in tariffs :
    q.price \in CustomerPrices(book, [market[q.offer] EXCEPT !.wholesale = q.wholesale])

\* An offer as good as another in every respect, at the same prices, ranks no lower,
\* although each is scored beside all the others: and a list holds its reseller's offers only.
\* (One that covers nothing scores better than one that covers another place.)
AsGood(o, q) ==
  /\ o.price = q.price /\ o.wholesale = q.wholesale /\ o.reliability >= q.reliability
  /\ \A dim \in DOMAIN q.spec : o.spec[dim] >= q.spec[dim]
  /\ q.countries \subseteq o.countries
  /\ \/ o.covers = q.covers
     \/ q.covers # Uncovered /\ \A f \in DOMAIN q.covers : q.covers[f] \subseteq o.covers[f]
  /\ o.until = Never \/ (q.until # Never /\ o.until >= q.until)
RankedFairly ==
  \A h \in Hunt : LET s == hunt[h].ranked IN
    /\ \A i \in DOMAIN s : s[i].row.firm = hunt[h].does.firm
    /\ \A i, j \in DOMAIN s : AsGood(s[i].row, s[j].row) => s[i].score >= s[j].score
    /\ \A n \in DOMAIN listings : listings[n].by = h =>
         Ids(Answer(h)) = Top(listings[n].ids, SHOWN)

\* A purchase is of one offer of the reseller, at a price it has had, and so is the product
\* that is made for it, whoever else buys or ingests the same offer.
BoughtAsQuoted ==
  \A b \in bought :
    /\ market[b.offer].firm = b.firm /\ goods[b.product].offer = b.offer
    /\ {b.amount, goods[b.product].price} \subseteq {q.price : q \in {p \in quoted : p.offer = b.offer}}

\* From the supplier's feed to the order, a price stays with its offer.
MarketIsTrue == PricedByRules /\ RankedFairly /\ BoughtAsQuoted
===============================================================================

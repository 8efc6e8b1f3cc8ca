----------------------------- MODULE ServiceProofs -----------------------------
(***************************************************************************)
(* Theorems about what a tenant works with, for every value of the         *)
(* constants: the purchase of numbers, and whom a session is served by:    *)
(* its binding, the routers behind it, what phones report of it, the       *)
(* actions that are recovered and what is shown.                           *)
(***************************************************************************)
EXTENDS MCServices, SequenceTheorems, FiniteSetTheorems, TLAPS

-----------------------------------------------------------------------------
(* NumberPurchase: numbers, their orders and their messages.              *)

Deeds == {plan.dials[d] : plan \in LinePlans, d \in Dial}
LineStages == {"begin", "read", "order", "intent", "verify", "payment", "provider", "row",
           "subscription", "complete", "fail", "over", "find", "message", "processed"}
LineStatus == {"none", "active", "released"}
OrderStatus == {"none", "CHECKOUT_CREATED", "PAYMENT_PENDING", "PAYMENT_CONFIRMED",
                "PAYMENT_FAILED", "PROVISIONING_FAILED", "COMPLETED"}
LineRows == [status : LineStatus, user : {does.user : does \in Deeds} \cup {NoDial},
             order : Dial \cup {NoDial}, sub : {"none", "active", "cancelled"}]

\* The requests are those of the plan, and only the messages' requests write messages.
DialsKept ==
  /\ dial \in [Dial -> [does : Deeds, at : LineStages]]
  /\ \A d \in Dial :
       /\ dial[d].does.kind \in {"buy", "release", "send", "sms"}
       /\ N(d) \in Line
       /\ dial[d].does.kind \in {"send", "sms"} => M(d) \in DOMAIN inbox
       /\ dial[d].at = "message" => dial[d].does.kind \in {"send", "sms"}
       /\ \A e \in Dial : dial[d].does.kind = "send" /\ dial[e].does.kind = "sms" =>
            M(d) # M(e)

LinesTyped ==
  /\ stock \in [Line -> {"free", "sold", "gone"}]
  /\ sold \in [Dial -> Line \cup {NoDial}]
  /\ lineRow \in [Line -> LineRows]
  /\ lineOrder \in [Dial -> OrderStatus]
  /\ paidFor \subseteq Dial
  /\ inbox \in [DOMAIN inbox -> Nat]

\* The provider sold a number once, and to the order that asked for it.
SoldApart == \A d \in Dial : sold[d] # NoDial =>
  /\ sold[d] = N(d) /\ stock[sold[d]] # "free"
  /\ \A e \in Dial : sold[e] = sold[d] => e = d

\* What a purchase and a release may rely on where they are.
BuysInOrder == \A d \in Dial : dial[d].does.kind = "buy" =>
  /\ dial[d].at \in {"provider", "row", "subscription", "complete"} => d \in paidFor
  /\ dial[d].at = "row" => sold[d] = N(d)
  /\ dial[d].at \in {"subscription", "complete"} => lineRow[N(d)].order = d
  /\ dial[d].at = "complete" => lineRow[N(d)].sub # "none"
GivesBackInOrder == \A d \in Dial : dial[d].does.kind = "release" =>
  /\ dial[d].at \in {"provider", "row"} => lineRow[N(d)].status # "none"
  /\ dial[d].at = "subscription" => lineRow[N(d)].status = "released"

\* A row is of one paid order for ever; its subscription is cancelled after it is released.
RowKept(n) ==
  /\ lineRow[n].status = "none" => lineRow[n].order = NoDial /\ lineRow[n].sub = "none"
  /\ lineRow[n].status # "none" =>
       /\ lineRow[n].order \in paidFor /\ User(lineRow[n].order) = lineRow[n].user
       /\ sold[lineRow[n].order] = n
  /\ lineRow[n].sub = "cancelled" => lineRow[n].status = "released"
RowsKept == \A n \in Line : RowKept(n)
CompletedHaveRow == \A d \in Dial : lineOrder[d] = "COMPLETED" =>
  lineRow[N(d)].order = d /\ lineRow[N(d)].sub # "none"

\* Of a message no two deliveries of which overlapped, one is under way and finds no row
\* before it writes one.
DeliveredApart == \A d \in Dial : dial[d].does.kind = "sms" /\ M(d) \notin mixed =>
  /\ inbox[M(d)] <= 1
  /\ dial[d].at = "message" => inbox[M(d)] = 0
  /\ Delivering(d) => \A e \in Dial : Delivering(e) /\ M(e) = M(d) => e = d

LineInv == /\ DialsKept /\ LinesTyped /\ SoldApart /\ BuysInOrder /\ GivesBackInOrder
           /\ RowsKept /\ CompletedHaveRow /\ DeliveredApart

LEMMA LineInitInv == LineInit => LineInv
<1>. SUFFICES ASSUME LineInit PROVE LineInv
  OBVIOUS
<1>1. PICK plan \in LinePlans : LineInitOf(plan)
  BY DEF LineInit
<1>2. NoDial \notin Dial \cup Line
  BY LineAssumption
<1>3. \A d \in Dial : dial[d].does = plan.dials[d] /\ dial[d].at = "begin"
                      /\ plan.dials[d] \in Deeds
  BY <1>1 DEF LineInitOf, Deeds
<1>4. DialsKept
  BY <1>1, <1>3, LineAssumption DEF LineInitOf, Deeds, LineStages, DialsKept, N, M
<1>5. LinesTyped BY <1>1 DEF LineRows, LineStatus, NoRow, LineInitOf, OrderStatus, LinesTyped
<1>6. SoldApart
  BY <1>1 DEF LineInitOf, SoldApart
<1>9. BuysInOrder /\ GivesBackInOrder
  BY <1>3 DEF BuysInOrder, GivesBackInOrder
<1>7. RowsKept /\ CompletedHaveRow
  BY <1>1 DEF LineInitOf, RowsKept, RowKept, CompletedHaveRow, NoRow
<1>8. DeliveredApart
  <2>1. \A d \in Dial : ~Delivering(d)
    BY <1>3 DEF Delivering
  <2>2. inbox = [m \in plan.messages |-> 0] /\ DOMAIN inbox = plan.messages
    BY <1>1 DEF LineInitOf
  <2>3. \A d \in Dial : dial[d].does.kind = "sms" => inbox[M(d)] = 0
    BY <1>4, <2>2 DEF DialsKept
  <2>. QED  BY <2>1, <2>3 DEF DeliveredApart
<1>. QED  BY <1>4, <1>5, <1>6, <1>7, <1>8, <1>9 DEF LineInv

\* A step of one request leaves the others where they are.
LEMMA StepOf ==
  ASSUME DialsKept, NEW d \in Dial, NEW at \in LineStages, Steps(d, at),
         at = "message" => dial[d].does.kind \in {"send", "sms"},
         DOMAIN inbox' = DOMAIN inbox
  PROVE  /\ DialsKept'
         /\ dial'[d].at = at /\ \A e \in Dial : dial'[e].does = dial[e].does
         /\ \A e \in Dial \ {d} : dial'[e] = dial[e]
         /\ \A e \in Dial : User(e)' = User(e) /\ N(e)' = N(e) /\ M(e)' = M(e)
<1>. DEFINE row == [dial[d] EXCEPT !.at = at]
<1>1. dial[d] \in [does : Deeds, at : LineStages]
  BY DEF DialsKept
<1>2. /\ row \in [does : Deeds, at : LineStages]
      /\ row.does = dial[d].does /\ row.at = at
  BY <1>1
<1>3. dial' = [dial EXCEPT ![d] = row] /\ dial \in [Dial -> [does : Deeds, at : LineStages]]
  BY DEF Steps, DialsKept
<1>. HIDE DEF row
<1>4. /\ dial' \in [Dial -> [does : Deeds, at : LineStages]]
      /\ dial'[d].at = at /\ \A e \in Dial : dial'[e].does = dial[e].does
      /\ \A e \in Dial \ {d} : dial'[e] = dial[e]
  BY <1>2, <1>3
<1>5. \A e \in Dial : User(e)' = User(e) /\ N(e)' = N(e) /\ M(e)' = M(e)
  BY <1>4 DEF User, N, M
<1>6. DialsKept' BY <1>4, <1>5 DEF DialsKept
<1>. QED  BY <1>4, <1>5, <1>6

LEMMA RowsStay ==
  ASSUME LineInv, paidFor \subseteq paidFor', UNCHANGED <<lineRow, sold>>,
         \A e \in Dial : User(e)' = User(e)
  PROVE  RowsKept'
<1>. SUFFICES ASSUME NEW n \in Line
              PROVE  RowKept(n)'
  BY DEF RowsKept
<1>1. RowKept(n) /\ lineRow' = lineRow /\ sold' = sold
  BY DEF LineInv, RowsKept
<1>2. lineRow[n].status # "none" => lineRow[n].order \in Dial
  BY <1>1 DEF RowKept, LineInv, LinesTyped
<1>. QED  BY <1>1, <1>2 DEF RowKept

\* Most steps write no row of a number, sell nothing and bring no message.
LEMMA PlainStep ==
  ASSUME LineInv, NEW d \in Dial, NEW at \in LineStages, Steps(d, at),
         at = "message" => dial[d].does.kind = "send",
         dial[d].at # "over",
         at \in {"provider", "row", "subscription", "complete"} =>
           \/ dial[d].does.kind \in {"send", "sms"}
           \/ /\ dial[d].does.kind = "release" /\ at \in {"provider", "row"}
              /\ lineRow[N(d)].status # "none"
           \/ dial[d].does.kind = "buy" /\ at = "provider" /\ d \in paidFor',
         paidFor \subseteq paidFor' /\ paidFor' \subseteq Dial,
         dial[d].at = "begin" /\ dial[d].does.kind = "sms" => at = "over",
         lineOrder' \in [Dial -> OrderStatus],
         \A e \in Dial : lineOrder'[e] = "COMPLETED" =>
           \/ lineOrder[e] = "COMPLETED"
           \/ lineRow[N(e)].order = e /\ lineRow[N(e)].sub # "none",
         stock' \in [Line -> {"free", "sold", "gone"}],
         \A n \in Line : stock[n] # "free" => stock'[n] # "free",
         UNCHANGED <<sold, lineRow, inbox, mixed>>
  PROVE  LineInv'
<1>1. SoldApart' /\ BuysInOrder'
  BY StepOf DEF LineInv, LinesTyped, SoldApart, BuysInOrder
<1>2. GivesBackInOrder' /\ CompletedHaveRow'
  BY StepOf DEF LineInv, LinesTyped, GivesBackInOrder, CompletedHaveRow
<1>3. DeliveredApart'
  BY StepOf DEF LineInv, LinesTyped, Delivering, DeliveredApart
<1>4. DialsKept' /\ LinesTyped' /\ RowsKept'
  BY StepOf, RowsStay DEF LineInv, LinesTyped
<1>. QED  BY <1>1, <1>2, <1>3, <1>4 DEF LineInv

\* A message is written by the one delivery of it that is under way, or by its sender.
LEMMA CreateMessageInv ==
  ASSUME LineInv, NEW d \in Dial, CreateMessage(d)
  PROVE  LineInv'
<1>. DEFINE kind == dial[d].does.kind
            at == IF kind = "send" THEN "over" ELSE "processed"
<1>1. /\ kind \in {"send", "sms"} /\ M(d) \in DOMAIN inbox /\ at \in LineStages
      /\ inbox \in [DOMAIN inbox -> Nat]
  BY DEF CreateMessage, LineInv, DialsKept, LinesTyped, LineStages
<1>2. /\ Steps(d, at) /\ inbox' = [inbox EXCEPT ![M(d)] = inbox[M(d)] + 1]
      /\ dial[d].at = "message"
      /\ UNCHANGED <<stock, sold, lineRow, lineOrder, paidFor, mixed>>
  BY DEF CreateMessage
<1>3. /\ DialsKept' /\ dial'[d].at = at /\ \A e \in Dial : dial'[e].does = dial[e].does
      /\ \A e \in Dial \ {d} : dial'[e] = dial[e]
      /\ \A e \in Dial : User(e)' = User(e) /\ N(e)' = N(e) /\ M(e)' = M(e)
  BY <1>1, <1>2, StepOf DEF LineInv
<1>4. LinesTyped' /\ SoldApart'
  BY <1>1, <1>2, <1>3 DEF LineInv, LinesTyped, SoldApart
<1>5. BuysInOrder' /\ GivesBackInOrder' /\ CompletedHaveRow'
  BY <1>1, <1>2, <1>3 DEF LineInv, BuysInOrder, GivesBackInOrder, CompletedHaveRow
<1>6. RowsKept'
  BY <1>2, <1>3, RowsStay
<1>7. DeliveredApart'
  <2>. SUFFICES ASSUME NEW e \in Dial, dial[e].does.kind = "sms", M(e) \notin mixed
                PROVE  /\ inbox'[M(e)] <= 1
                       /\ dial'[e].at = "message" => inbox'[M(e)] = 0
                       /\ Delivering(e)' => \A f \in Dial : Delivering(f)' /\ M(f) = M(e) => f = e
    BY <1>2, <1>3 DEF DeliveredApart
  <2>1. \A f \in Dial : Delivering(f)' => Delivering(f)
    BY <1>2, <1>3 DEF Delivering
  <2>2. /\ inbox[M(e)] <= 1
        /\ dial[e].at = "message" => inbox[M(e)] = 0
        /\ Delivering(e) => \A f \in Dial : Delivering(f) /\ M(f) = M(e) => f = e
    BY DEF LineInv, DeliveredApart
  <2>3. M(e) \in DOMAIN inbox
    BY DEF LineInv, DialsKept
  <2>4. CASE M(e) # M(d)
    <3>1. inbox'[M(e)] = inbox[M(e)]
      BY <1>1, <1>2, <2>3, <2>4
    <3>2. dial'[e].at = "message" => dial[e].at = "message"
      BY <1>2, <1>3
    <3>. QED  BY <2>1, <2>2, <3>1, <3>2
  <2>5. CASE M(e) = M(d)
    BY <1>1, <2>5, <1>2, <1>3, <2>1, <2>2 DEF LineInv, DialsKept, DeliveredApart, Delivering
  <2>. QED  BY <2>4, <2>5
<1>. QED  BY <1>3, <1>4, <1>5, <1>6, <1>7 DEF LineInv

\* A delivery begins: one that finds another under way marks the message.
LEMMA HearEventInv ==
  ASSUME LineInv, NEW d \in Dial, HearEvent(d)
  PROVE  LineInv'
<1>1. CASE dial[d].does.event \in heard
  BY <1>1, PlainStep DEF HearEvent, Over, LineStages, Asks, LineInv, LinesTyped
<1>2. CASE dial[d].does.event \notin heard
  <2>1. /\ Steps(d, "find") /\ "find" \in LineStages
        /\ dial[d].does.kind = "sms" /\ dial[d].at = "begin"
        /\ mixed' = IF \E e \in Dial : Delivering(e) /\ M(e) = M(d)
                    THEN mixed \cup {M(d)} ELSE mixed
        /\ UNCHANGED <<stock, sold, lineRow, lineOrder, paidFor, inbox>>
    BY <1>2 DEF HearEvent, Asks, LineStages
  <2>2. /\ DialsKept' /\ dial'[d].at = "find" /\ \A e \in Dial : dial'[e].does = dial[e].does
        /\ \A e \in Dial \ {d} : dial'[e] = dial[e]
        /\ \A e \in Dial : User(e)' = User(e) /\ N(e)' = N(e) /\ M(e)' = M(e)
    BY <2>1, StepOf DEF LineInv
  <2>3. LinesTyped' /\ SoldApart'
    BY <2>1, <2>2 DEF LineInv, LinesTyped, SoldApart
  <2>4. BuysInOrder' /\ GivesBackInOrder' /\ CompletedHaveRow'
    BY <2>1, <2>2 DEF LineInv, BuysInOrder, GivesBackInOrder, CompletedHaveRow
  <2>5. RowsKept'
    BY <2>1, <2>2, RowsStay
  <2>6. DeliveredApart'
    <3>. SUFFICES ASSUME NEW e \in Dial, dial[e].does.kind = "sms", M(e) \notin mixed'
                  PROVE  /\ inbox'[M(e)] <= 1
                         /\ dial'[e].at = "message" => inbox'[M(e)] = 0
                         /\ Delivering(e)' => \A f \in Dial : Delivering(f)' /\ M(f) = M(e) => f = e
      BY <2>1, <2>2 DEF DeliveredApart
    <3>1. \A f \in Dial : Delivering(f)' => Delivering(f) \/ f = d
      BY <2>2 DEF Delivering
    <3>2. M(e) \notin mixed
      BY <2>1
    <3>3. /\ inbox[M(e)] <= 1
          /\ dial[e].at = "message" => inbox[M(e)] = 0
          /\ Delivering(e) => \A f \in Dial : Delivering(f) /\ M(f) = M(e) => f = e
      BY <3>2 DEF LineInv, DeliveredApart
    <3>4. M(e) = M(d) => \A f \in Dial : ~(Delivering(f) /\ M(f) = M(d))
      BY <2>1
    <3>5. dial'[e].at = "message" => dial[e].at = "message"
      BY <2>2
    <3>6. Delivering(e)' => \A f \in Dial : Delivering(f)' /\ M(f) = M(e) => f = e
      BY <3>1, <3>4, <3>3
    <3>. QED  BY <2>1, <3>3, <3>5, <3>6
  <2>. QED  BY <2>2, <2>3, <2>4, <2>5, <2>6 DEF LineInv
<1>. QED  BY <1>1, <1>2
\* The steps of a purchase that write: the provider sells, the row is made, then its
\* subscription.
LEMMA ProviderSellsInv ==
  ASSUME LineInv, NEW d \in Dial, ProviderSells(d)
  PROVE  LineInv'
<1>0. /\ dial[d].does.kind = "buy" /\ dial[d].at = "provider" /\ N(d) \in Line
      /\ d \in paidFor
  BY DEF ProviderSells, Asks, LineInv, DialsKept, BuysInOrder
<1>1. CASE stock[N(d)] = "free"
  <2>1. /\ Steps(d, "row") /\ "row" \in LineStages
        /\ stock' = [stock EXCEPT ![N(d)] = "sold"] /\ sold' = [sold EXCEPT ![d] = N(d)]
        /\ UNCHANGED <<lineRow, lineOrder, paidFor, inbox, mixed>>
    BY <1>1 DEF ProviderSells, LineStages
  <2>2. /\ DialsKept' /\ dial'[d].at = "row" /\ \A e \in Dial : dial'[e].does = dial[e].does
        /\ \A e \in Dial \ {d} : dial'[e] = dial[e]
        /\ \A e \in Dial : User(e)' = User(e) /\ N(e)' = N(e) /\ M(e)' = M(e)
    BY <2>1, StepOf DEF LineInv
  <2>3. /\ stock \in [Line -> {"free", "sold", "gone"}] /\ sold \in [Dial -> Line \cup {NoDial}]
        /\ NoDial \notin Line
    BY LineAssumption DEF LineInv, LinesTyped
  <2>4. /\ sold'[d] = N(d) /\ stock'[N(d)] = "sold"
        /\ \A e \in Dial \ {d} : sold'[e] = sold[e]
        /\ \A n \in Line \ {N(d)} : stock'[n] = stock[n]
        /\ \A e \in Dial : sold[e] # N(d)
    BY <1>0, <1>1, <2>1, <2>3 DEF LineInv, SoldApart
  <2>5. LinesTyped'
    BY <1>0, <2>1 DEF LineInv, LinesTyped
  <2>6. SoldApart'
    <3>. SUFFICES ASSUME NEW e \in Dial, sold'[e] # NoDial
                  PROVE  /\ sold'[e] = N(e) /\ stock'[sold'[e]] # "free"
                         /\ \A f \in Dial : sold'[f] = sold'[e] => f = e
      BY <2>2 DEF SoldApart
    <3>1. CASE e = d
      BY <2>4, <3>1
    <3>2. CASE e # d BY <2>3, <2>4, <3>2 DEF LineInv, SoldApart
    <3>. QED  BY <3>1, <3>2
  <2>7. BuysInOrder'
    BY <2>1, <2>2, <2>4, <1>0 DEF LineInv, BuysInOrder
  <2>8. GivesBackInOrder' /\ CompletedHaveRow'
    BY <1>0, <2>1, <2>2 DEF LineInv, GivesBackInOrder, CompletedHaveRow
  <2>9. RowsKept'
    <3>. SUFFICES ASSUME NEW n \in Line
                  PROVE  RowKept(n)'
      BY DEF RowsKept
    <3>1. RowKept(n) /\ lineRow' = lineRow /\ paidFor' = paidFor
      BY <2>1 DEF LineInv, RowsKept
    <3>2. lineRow[n].status # "none" =>
            lineRow[n].order \in Dial /\ sold[lineRow[n].order] = n
      BY <3>1 DEF RowKept, LineInv, LinesTyped
    <3>3. lineRow[n].status # "none" => lineRow[n].order # d \/ n = N(d)
      BY <2>3, <3>2 DEF LineInv, SoldApart
    <3>. QED  BY <2>2, <2>4, <3>1, <3>2, <3>3 DEF RowKept
  <2>10. DeliveredApart' BY <1>0, <2>2, <2>1 DEF Delivering, LineInv, DeliveredApart
  <2>. QED  BY <2>2, <2>5, <2>6, <2>7, <2>8, <2>9, <2>10 DEF LineInv
<1>2. CASE stock[N(d)] # "free"
  BY <1>2, <1>0, PlainStep DEF ProviderSells, LineStages, LineInv, LinesTyped
<1>. QED  BY <1>1, <1>2

\* What a step that writes the row of one number leaves of the rest.
LEMMA RowStep ==
  ASSUME LineInv, NEW d \in Dial, NEW at \in LineStages, NEW row \in LineRows, Steps(d, at),
         at # "message", dial[d].at \notin {"begin", "over"}, dial[d].does.kind # "sms",
         lineRow' = [lineRow EXCEPT ![N(d)] = row],
         UNCHANGED <<stock, sold, lineOrder, paidFor, inbox, mixed>>
  PROVE  /\ DialsKept' /\ LinesTyped' /\ SoldApart' /\ DeliveredApart'
         /\ dial'[d].at = at /\ \A e \in Dial : dial'[e].does = dial[e].does
         /\ \A e \in Dial \ {d} : dial'[e] = dial[e]
         /\ \A e \in Dial : User(e)' = User(e) /\ N(e)' = N(e) /\ M(e)' = M(e)
         /\ N(d) \in Line /\ lineRow'[N(d)] = row
         /\ \A n \in Line \ {N(d)} : lineRow'[n] = lineRow[n] /\ RowKept(n)'
<1>1. N(d) \in Line /\ lineRow \in [Line -> LineRows]
  BY DEF LineInv, DialsKept, LinesTyped
<1>2. /\ DialsKept' /\ dial'[d].at = at /\ \A e \in Dial : dial'[e].does = dial[e].does
      /\ \A e \in Dial \ {d} : dial'[e] = dial[e]
      /\ \A e \in Dial : User(e)' = User(e) /\ N(e)' = N(e) /\ M(e)' = M(e)
  BY StepOf DEF LineInv
<1>3. LinesTyped'
  BY <1>1 DEF LineInv, LinesTyped
<1>4. SoldApart'
  BY <1>2 DEF LineInv, SoldApart
<1>5. DeliveredApart' BY <1>2 DEF Delivering, LineInv, DeliveredApart
<1>6. \A n \in Line \ {N(d)} : lineRow'[n] = lineRow[n] /\ RowKept(n)'
  <2>. SUFFICES ASSUME NEW n \in Line \ {N(d)}
                PROVE  lineRow'[n] = lineRow[n] /\ RowKept(n)'
    OBVIOUS
  <2>1. RowKept(n) /\ lineRow'[n] = lineRow[n] /\ sold' = sold /\ paidFor' = paidFor
    BY <1>1 DEF LineInv, RowsKept
  <2>2. lineRow[n].status # "none" => lineRow[n].order \in Dial
    BY <2>1 DEF RowKept, LineInv, LinesTyped
  <2>. QED  BY <1>2, <2>1, <2>2 DEF RowKept
<1>. QED  BY <1>1, <1>2, <1>3, <1>4, <1>5, <1>6
LEMMA CreateRowInv ==
  ASSUME LineInv, NEW d \in Dial, CreateRow(d)
  PROVE  LineInv'
<1>. DEFINE row == [status |-> "active", user |-> User(d), order |-> d, sub |-> "none"]
<1>0. /\ dial[d].does.kind = "buy" /\ dial[d].at = "row" /\ N(d) \in Line
      /\ d \in paidFor /\ sold[d] = N(d) /\ dial[d].does \in Deeds
  BY DEF CreateRow, Asks, LineInv, DialsKept, BuysInOrder
<1>1. CASE lineRow[N(d)].status # "none"
  BY <1>1, <1>0, PlainStep DEF CreateRow, LineStages, LineInv, LinesTyped
<1>2. CASE lineRow[N(d)].status = "none"
  <2>1. /\ row \in LineRows
        /\ row.status = "active" /\ row.user = User(d) /\ row.order = d /\ row.sub = "none"
    BY <1>0 DEF LineRows, LineStatus, User
  <2>2. /\ Steps(d, "subscription") /\ "subscription" \in LineStages
        /\ lineRow' = [lineRow EXCEPT ![N(d)] = row]
        /\ UNCHANGED <<stock, sold, lineOrder, paidFor, inbox, mixed>>
    BY <1>2 DEF CreateRow, LineStages
  <2>3. lineRow[N(d)].order = NoDial /\ NoDial \notin Dial
    BY <1>0, <1>2, LineAssumption DEF LineInv, RowsKept, RowKept
  <2>. HIDE DEF row
  <2>4. /\ DialsKept' /\ LinesTyped' /\ SoldApart' /\ DeliveredApart'
        /\ dial'[d].at = "subscription" /\ \A e \in Dial : dial'[e].does = dial[e].does
        /\ \A e \in Dial \ {d} : dial'[e] = dial[e]
        /\ \A e \in Dial : User(e)' = User(e) /\ N(e)' = N(e) /\ M(e)' = M(e)
        /\ lineRow'[N(d)] = row
        /\ \A n \in Line \ {N(d)} : lineRow'[n] = lineRow[n] /\ RowKept(n)'
    BY <1>0, <2>1, <2>2, RowStep
  <2>5. RowsKept' BY <1>0, <2>1, <2>2, <2>4 DEF RowKept, RowsKept
  <2>6. BuysInOrder'
    <3>. SUFFICES ASSUME NEW e \in Dial, dial'[e].does.kind = "buy"
                  PROVE  /\ dial'[e].at \in {"provider", "row", "subscription", "complete"}
                              => e \in paidFor'
                         /\ dial'[e].at = "row" => sold'[e] = N(e)
                         /\ dial'[e].at \in {"subscription", "complete"} =>
                              lineRow'[N(e)].order = e
                         /\ dial'[e].at = "complete" => lineRow'[N(e)].sub # "none"
      BY <2>4 DEF BuysInOrder
    <3>1. CASE e = d
      BY <1>0, <2>1, <2>2, <2>4, <3>1
    <3>2. CASE e # d BY <2>4, <3>2, <2>3, <2>2 DEF LineInv, BuysInOrder, DialsKept
    <3>. QED  BY <3>1, <3>2
  <2>7. GivesBackInOrder' BY <1>0, <2>4, <1>2, <2>1 DEF LineInv, DialsKept, GivesBackInOrder
  <2>8. CompletedHaveRow' BY <2>3, <2>2, <2>4 DEF LineInv, CompletedHaveRow, DialsKept
  <2>. QED  BY <2>4, <2>5, <2>6, <2>7, <2>8 DEF LineInv
<1>. QED  BY <1>1, <1>2

\* A row that has an order changes its status and its subscription only.
LEMMA RowOfSameOrder ==
  ASSUME LineInv, NEW d \in Dial, NEW at \in LineStages, NEW row \in LineRows, Steps(d, at),
         at # "message", dial[d].at \notin {"begin", "over"}, dial[d].does.kind # "sms",
         lineRow' = [lineRow EXCEPT ![N(d)] = row],
         UNCHANGED <<stock, sold, lineOrder, paidFor, inbox, mixed>>,
         row.user = lineRow[N(d)].user, row.order = lineRow[N(d)].order,
         row.status = lineRow[N(d)].status \/ row.status = "released",
         lineRow[N(d)].sub # "none" => row.sub # "none",
         lineRow[N(d)].status # "none",
         row.sub = "cancelled" => row.status = "released",
         at \in {"provider", "row", "subscription", "complete"} =>
           \/ /\ dial[d].does.kind = "release" /\ at = "subscription"
              /\ row.status = "released"
           \/ /\ dial[d].does.kind = "buy" /\ at = "complete" /\ row.sub # "none"
              /\ dial[d].at = "subscription"
  PROVE  LineInv'
<1>1. /\ DialsKept' /\ LinesTyped' /\ SoldApart' /\ DeliveredApart'
      /\ dial'[d].at = at /\ \A e \in Dial : dial'[e].does = dial[e].does
      /\ \A e \in Dial \ {d} : dial'[e] = dial[e]
      /\ \A e \in Dial : User(e)' = User(e) /\ N(e)' = N(e) /\ M(e)' = M(e)
      /\ N(d) \in Line /\ lineRow'[N(d)] = row
      /\ \A n \in Line \ {N(d)} : lineRow'[n] = lineRow[n] /\ RowKept(n)'
  BY RowStep
<1>2. \A n \in Line :
        /\ lineRow'[n].user = lineRow[n].user /\ lineRow'[n].order = lineRow[n].order
        /\ \/ lineRow'[n].status = lineRow[n].status
           \/ lineRow[n].status # "none" /\ lineRow'[n].status = "released"
        /\ lineRow[n].sub # "none" => lineRow'[n].sub # "none"
  <2>. SUFFICES ASSUME NEW n \in Line
                PROVE  /\ lineRow'[n].user = lineRow[n].user
                       /\ lineRow'[n].order = lineRow[n].order
                       /\ \/ lineRow'[n].status = lineRow[n].status
                          \/ lineRow[n].status # "none" /\ lineRow'[n].status = "released"
                       /\ lineRow[n].sub # "none" => lineRow'[n].sub # "none"
    OBVIOUS
  <2>1. CASE n = N(d)
    BY <1>1, <2>1
  <2>2. CASE n # N(d)
    BY <1>1, <2>2
  <2>. QED  BY <2>1, <2>2
<1>3. RowsKept' BY <1>1 DEF LineInv, RowsKept, RowKept, LinesTyped
<1>4. BuysInOrder'
  BY <1>1, <1>2 DEF LineInv, BuysInOrder, DialsKept
<1>5. GivesBackInOrder'
  BY <1>1, <1>2 DEF LineInv, GivesBackInOrder, DialsKept
<1>6. CompletedHaveRow'
  BY <1>1, <1>2 DEF LineInv, CompletedHaveRow, DialsKept
<1>. QED  BY <1>1, <1>3, <1>4, <1>5, <1>6 DEF LineInv
\* The row a purchase or a release goes on to write.
LEMMA LineRowInv ==
  ASSUME LineInv, NEW d \in Dial,
         CreateSubscription(d) \/ ReleaseRow(d) \/ CancelSubscriptions(d)
  PROVE  LineInv'
<1>0. lineRow[N(d)] \in LineRows /\ N(d) \in Line /\ RowKept(N(d))
  BY DEF LineInv, LinesTyped, DialsKept, RowsKept
<1>1. CASE CreateSubscription(d)
  <2>. DEFINE row == [lineRow[N(d)] EXCEPT !.sub = "active"]
  <2>1. /\ row \in LineRows /\ row.sub = "active" /\ row.user = lineRow[N(d)].user
        /\ row.order = lineRow[N(d)].order /\ row.status = lineRow[N(d)].status
    BY <1>0 DEF LineRows
  <2>2. /\ Steps(d, "complete") /\ "complete" \in LineStages /\ dial[d].does.kind = "buy"
        /\ dial[d].at = "subscription" /\ lineRow' = [lineRow EXCEPT ![N(d)] = row]
        /\ UNCHANGED <<stock, sold, lineOrder, paidFor, inbox, mixed>>
    BY <1>1 DEF CreateSubscription, Asks, LineStages
  <2>3. lineRow[N(d)].order = d /\ NoDial \notin Dial
    BY <2>2, LineAssumption DEF LineInv, BuysInOrder
  <2>4. lineRow[N(d)].status # "none"
    BY <1>0, <2>3 DEF RowKept
  <2>. HIDE DEF row
  <2>. QED  BY <2>1, <2>2, <2>4, RowOfSameOrder
<1>2. CASE ReleaseRow(d)
  <2>. DEFINE row == [lineRow[N(d)] EXCEPT !.status = "released"]
  <2>1. /\ row \in LineRows /\ row.sub = lineRow[N(d)].sub /\ row.user = lineRow[N(d)].user
        /\ row.order = lineRow[N(d)].order /\ row.status = "released"
    BY <1>0 DEF LineRows, LineStatus
  <2>2. /\ Steps(d, "subscription") /\ "subscription" \in LineStages
        /\ dial[d].does.kind = "release"
        /\ dial[d].at = "row" /\ lineRow' = [lineRow EXCEPT ![N(d)] = row]
        /\ UNCHANGED <<stock, sold, lineOrder, paidFor, inbox, mixed>>
    BY <1>2 DEF ReleaseRow, Asks, LineStages
  <2>3. lineRow[N(d)].status # "none"
    BY <2>2 DEF LineInv, GivesBackInOrder
  <2>. HIDE DEF row
  <2>. QED  BY <2>1, <2>2, <2>3, RowOfSameOrder
<1>3. CASE CancelSubscriptions(d)
  <2>. DEFINE s == IF lineRow[N(d)].sub = "active" THEN "cancelled" ELSE lineRow[N(d)].sub
              row == [lineRow[N(d)] EXCEPT !.sub = s]
  <2>1. /\ row \in LineRows /\ row.sub = s /\ row.user = lineRow[N(d)].user
        /\ row.order = lineRow[N(d)].order /\ row.status = lineRow[N(d)].status
        /\ lineRow[N(d)].sub # "none" => s # "none"
    BY <1>0 DEF LineRows
  <2>2. /\ Steps(d, "over") /\ "over" \in LineStages
        /\ dial[d].does.kind = "release"
        /\ dial[d].at = "subscription" /\ lineRow' = [lineRow EXCEPT ![N(d)] = row]
        /\ UNCHANGED <<stock, sold, lineOrder, paidFor, inbox, mixed>>
    BY <1>3 DEF CancelSubscriptions, Asks, Over, LineStages
  <2>3. lineRow[N(d)].status = "released"
    BY <2>2 DEF LineInv, GivesBackInOrder
  <2>. HIDE DEF row, s
  <2>. QED  BY <2>1, <2>2, <2>3, RowOfSameOrder
<1>. QED  BY <1>1, <1>2, <1>3

\* A delivery looks for the message before it writes one.
LEMMA FindMessageInv ==
  ASSUME LineInv, NEW d \in Dial, FindMessage(d)
  PROVE  LineInv'
<1>. DEFINE at == IF lineRow[N(d)].status = "none" \/ inbox[M(d)] > 0
                  THEN "processed" ELSE "message"
<1>1. /\ Steps(d, at) /\ at \in LineStages /\ dial[d].does.kind = "sms" /\ dial[d].at = "find"
      /\ UNCHANGED <<stock, sold, lineRow, lineOrder, paidFor, inbox, mixed>>
  BY DEF FindMessage, Asks, LineStages
<1>2. /\ DialsKept' /\ dial'[d].at = at /\ \A e \in Dial : dial'[e].does = dial[e].does
      /\ \A e \in Dial \ {d} : dial'[e] = dial[e]
      /\ \A e \in Dial : User(e)' = User(e) /\ N(e)' = N(e) /\ M(e)' = M(e)
  BY <1>1, StepOf DEF LineInv
<1>3. at # "provider" /\ at # "row" /\ at # "subscription" /\ at # "complete"
  OBVIOUS
<1>4. LinesTyped' /\ SoldApart'
  BY <1>1, <1>2 DEF LineInv, LinesTyped, SoldApart
<1>5. BuysInOrder' /\ GivesBackInOrder' /\ CompletedHaveRow'
  BY <1>1, <1>2 DEF LineInv, BuysInOrder, GivesBackInOrder, CompletedHaveRow
<1>6. RowsKept'
  BY <1>1, <1>2, RowsStay
<1>7. DeliveredApart'
  <2>1. M(d) \in DOMAIN inbox /\ inbox[M(d)] \in Nat
    BY <1>1 DEF LineInv, DialsKept, LinesTyped
  <2>2. at = "message" => inbox[M(d)] = 0
    BY <2>1
  <2>3. \A e \in Dial : Delivering(e)' => Delivering(e)
    BY <1>1, <1>2 DEF Delivering
  <2>4. \A e \in Dial : dial'[e].at = "message" =>
          dial[e].at = "message" \/ inbox[M(e)] = 0
    BY <1>2, <2>2
  <2>. QED  BY <1>1, <1>2, <2>3, <2>4 DEF LineInv, DeliveredApart
<1>. QED  BY <1>2, <1>4, <1>5, <1>6, <1>7 DEF LineInv
LEMMA BuyingInv ==
  ASSUME LineInv, NEW d \in Dial, Buying(d)
  PROVE  LineInv'
<1>0. /\ lineOrder \in [Dial -> OrderStatus] /\ paidFor \subseteq Dial
      /\ stock \in [Line -> {"free", "sold", "gone"}]
  BY DEF LineInv, LinesTyped
<1>1. CASE LookUp(d)
  BY <1>0, <1>1, PlainStep DEF LookUp, Asks, LineStages
<1>2. CASE ReadRow(d)
  BY <1>0, <1>2, PlainStep DEF ReadRow, Asks, LineStages
<1>3. CASE PlaceLineOrder(d)
  BY <1>0, <1>3, PlainStep DEF PlaceLineOrder, Asks, Over, LineStages, OrderStatus
<1>4. CASE OpenIntent(d)
  BY <1>0, <1>4, PlainStep DEF OpenIntent, Sets, Asks, LineStages, OrderStatus
<1>5. CASE VerifyPaid(d)
  BY <1>0, <1>5, PlainStep DEF VerifyPaid, Sets, Asks, LineStages, OrderStatus
<1>6. CASE RecordPayment(d)
  BY <1>0, <1>6, PlainStep DEF RecordPayment, Asks, LineStages
<1>7. CASE ProviderSells(d)
  BY <1>7, ProviderSellsInv
<1>8. CASE CreateRow(d)
  BY <1>8, CreateRowInv
<1>9. CASE CreateSubscription(d)
  BY <1>9, LineRowInv
<1>10. CASE Complete(d)
  BY <1>10, <1>0, PlainStep DEF Complete, Asks, LineInv, BuysInOrder, Sets, LineStages, OrderStatus
<1>11. CASE FailProvisioning(d)
  BY <1>0, <1>11, PlainStep DEF FailProvisioning, Sets, Asks, LineStages, OrderStatus
<1>. QED  BY <1>1, <1>2, <1>3, <1>4, <1>5, <1>6, <1>7, <1>8, <1>9, <1>10, <1>11 DEF Buying

LEMMA UsingInv ==
  ASSUME LineInv, NEW d \in Dial, Using(d)
  PROVE  LineInv'
<1>0. /\ lineOrder \in [Dial -> OrderStatus] /\ paidFor \subseteq Dial
      /\ stock \in [Line -> {"free", "sold", "gone"}] /\ N(d) \in Line
  BY DEF LineInv, LinesTyped, DialsKept
<1>1. CASE FindOwn(d)
  BY <1>0, <1>1, PlainStep DEF FindOwn, Own, Asks, LineStages
<1>2. CASE ProviderReleases(d)
  BY <1>2, <1>0, PlainStep DEF ProviderReleases, Asks, LineInv, GivesBackInOrder, LineStages
<1>3. CASE ReleaseRow(d) \/ CancelSubscriptions(d)
  BY <1>3, LineRowInv
<1>4. CASE SendSMS(d)
  BY <1>0, <1>4, PlainStep DEF SendSMS, Asks, LineStages
<1>5. CASE HearEvent(d)
  BY <1>5, HearEventInv
<1>6. CASE FindMessage(d)
  BY <1>6, FindMessageInv
<1>7. CASE CreateMessage(d)
  BY <1>7, CreateMessageInv
<1>8. CASE MarkProcessed(d)
  BY <1>0, <1>8, PlainStep DEF MarkProcessed, Over, Asks, LineStages
<1>. QED  BY <1>1, <1>2, <1>3, <1>4, <1>5, <1>6, <1>7, <1>8 DEF Using

LEMMA MishapInv ==
  ASSUME LineInv, NEW d \in Dial, Mishap(d)
  PROVE  LineInv'
BY PlainStep DEF LineInv, LinesTyped, Mishap, Over, LineStages

LEMMA LineNextInv == LineInv /\ [LineNext]_lineVars => LineInv'
<1>. SUFFICES ASSUME LineInv, [LineNext]_lineVars
              PROVE  LineInv'
  OBVIOUS
<1>1. CASE UNCHANGED lineVars
  BY <1>1 DEF lineVars, LineInv, DialsKept, LinesTyped, SoldApart, BuysInOrder,
    GivesBackInOrder, RowsKept, RowKept, CompletedHaveRow, DeliveredApart, Delivering, N, M, User
<1>2. CASE LineNext
  BY <1>2, BuyingInv, UsingInv, MishapInv DEF LineNext
<1>. QED  BY <1>1, <1>2

\* For any orders, requests, deliveries and answers that are lost: a number's row is of the
\* order that paid for it and under which the provider sold it, and of no second order; an
\* order that completed has its row; and a message is kept once, however often it is
\* delivered, unless two deliveries of it overlap (virtual-numbers/service.ts:78-205 and
\* 302-325, webhooks/virtual-numbers/route.ts:21-67).
THEOREM NumbersStayTrue == LineSpec => []NumbersAreTrue
<1>1. LineInv => NumbersAreTrue
  <2>. SUFFICES ASSUME LineInv PROVE NumbersAreTrue
    OBVIOUS
  <2>1. ASSUME NEW n \in Line, lineRow[n].status # "none"
        PROVE  LET o == lineRow[n].order IN
               /\ o \in paidFor /\ User(o) = lineRow[n].user /\ sold[o] = n
               /\ \A d \in Dial : sold[d] = n => d = o
    BY <2>1, LineAssumption DEF LineInv, RowsKept, RowKept, LinesTyped, SoldApart
  <2>2. \A d \in Dial : N(d) \in Line /\ RowKept(N(d))
    BY DEF LineInv, DialsKept, RowsKept
  <2>3. NumberIsPaidFor
    BY <2>1, <2>2 DEF NumberIsPaidFor, LineInv, CompletedHaveRow, RowKept
  <2>4. MessageKeptOnce
    BY DEF MessageKeptOnce, LineInv, DeliveredApart
  <2>. QED  BY <2>3, <2>4 DEF NumbersAreTrue
<1>. QED  BY <1>1, LineInitInv, LineNextInv, PTL DEF LineSpec

-----------------------------------------------------------------------------
(* Sequences of anything.                                                  *)

IsList(q) == q \in Seq({q[i] : i \in DOMAIN q})

LEMMA ListFacts ==
  ASSUME NEW q, IsList(q)
  PROVE  Len(q) \in Nat /\ DOMAIN q = 1..Len(q) /\ q = [i \in 1..Len(q) |-> q[i]]
BY DEF IsList

LEMMA ListOf ==
  ASSUME NEW X, NEW q \in Seq(X)
  PROVE  IsList(q)
BY DEF IsList

LEMMA ListWith ==
  ASSUME NEW q, IsList(q), NEW x
  PROVE  \E X : q \in Seq(X) /\ x \in X
<1>. DEFINE X == {q[i] : i \in DOMAIN q} \cup {x}
<1>1. q \in Seq(X) /\ x \in X
  BY ListFacts DEF IsList
<1>. QED  BY <1>1

LEMMA AppendedTo ==
  ASSUME NEW X, NEW s \in Seq(X), NEW x \in X, NEW r, r = Append(s, x)
  PROVE  /\ r \in Seq(X) /\ DOMAIN s = 1..Len(s) /\ Len(s) \in Nat
         /\ DOMAIN r = 1..(Len(s) + 1) /\ Len(r) = Len(s) + 1
         /\ \A i \in DOMAIN s : i \in DOMAIN r /\ r[i] = s[i]
         /\ r[Len(s) + 1] = x /\ Len(s) + 1 \in DOMAIN r /\ Len(s) + 1 \notin DOMAIN s
         /\ \A i \in DOMAIN r : i \in DOMAIN s \/ i = Len(s) + 1
  OBVIOUS

LEMMA ListAlike ==
  ASSUME NEW q, IsList(q), NEW r, DOMAIN r = DOMAIN q, r = [i \in DOMAIN r |-> r[i]]
  PROVE  IsList(r) /\ Len(r) = Len(q)
BY ListFacts DEF IsList

-----------------------------------------------------------------------------
(* KernelBridge: the account behind a session's resource.                  *)

BridgeForm(b) == b = [subject |-> b.subject, cap |-> b.cap, asks |-> b.asks,
                      faults |-> b.faults, moves |-> b.moves, open |-> b.open]
AccountForm(x) == x = [tenant |-> x.tenant, user |-> x.user, provider |-> x.provider,
                       entitlement |-> x.entitlement, status |-> x.status, by |-> x.by]

\* The rows of a list, each of a user or made for a session, and what names them.
AccountsTyped ==
  /\ IsList(rows)
  /\ \A id \in DOMAIN rows : rows[id].by # Unset => rows[id].user = Unset
  /\ link \in [Resource -> 0..Len(rows)]
  /\ holder = [r \in Resource |-> holder[r]]
  /\ call = [s \in Seeker |-> call[s]]
  /\ \A s \in Seeker : bridge.subject[s] # Unset

\* A row of the tenant and provider of a resource; and that of a session's subject, or made
\* for it.
OfCap(id, r) == /\ id \in DOMAIN rows /\ rows[id].tenant = bridge.cap[r].tenant
                /\ rows[id].provider = bridge.cap[r].provider
OfSubject(id, s) == rows[id].user = bridge.subject[s]
Suits(id, r, s) == OfCap(id, r) /\ (OfSubject(id, s) \/ rows[id].by = s)

\* Where a session's action is: its resource is held, names no row before one is linked,
\* and then one that suits or none.
BridgeCallFits(b, s) ==
  /\ b = [at |-> b.at, on |-> b.on, id |-> b.id]
  /\ b.at \in {"idle", "read", "find", "relink", "create", "activate", "bind", "provision",
               "link", "reconcile", "mark", "verify"} \cup Standing
  /\ b.at # "idle" => b.on \in Resource /\ holder[b.on] = s
  /\ b.at \in {"find", "relink", "create", "activate", "bind", "provision", "link"} =>
       link[b.on] = 0
  /\ b.at \in {"relink", "reconcile"} => OfCap(b.id, b.on) /\ OfSubject(b.id, s)
  /\ b.at \in {"activate", "bind", "provision", "link"} => OfCap(b.id, b.on) /\ rows[b.id].by = s
  /\ b.at \in {"reconcile", "mark", "verify"} => link[b.on] = 0 \/ Suits(link[b.on], b.on, s)
  /\ b.at \in Standing => link[b.on] # 0 /\ Suits(link[b.on], b.on, s)
  /\ b.at \in {"owned", "succeeded"} => OfSubject(link[b.on], s)

\* What was made for a session is answered to it alone.
ServedWell ==
  /\ served \subseteq Seeker \X DOMAIN rows
  /\ \A s \in Seeker, id \in DOMAIN rows :
       <<s, id>> \in served => rows[id].by = Unset \/ rows[id].by = s

BridgeInv == AccountsTyped /\ ServedWell /\ \A s \in Seeker : BridgeCallFits(call[s], s)

LEMMA BridgeInitInv ==
  ASSUME NEW plan \in BridgePlans, BridgeInitOf(plan)
  PROVE  BridgeInv
<1>1. /\ rows = plan.rows /\ link = plan.link /\ holder = [r \in Resource |-> Unset]
      /\ call = [s \in Seeker |-> [at |-> "idle", on |-> Unset, id |-> 0]] /\ served = {}
      /\ bridge.subject = plan.subject
  BY DEF BridgeInitOf
<1>2. AccountsTyped
  <2>1. IsList(rows)
    BY <1>1, BridgeAssumption DEF IsList
  <2>2. \A id \in DOMAIN rows : rows[id].by = Unset
    BY <1>1, BridgeAssumption
  <2>3. link \in [Resource -> 0..Len(rows)]
    BY <1>1, BridgeAssumption
  <2>4. \A s \in Seeker : bridge.subject[s] # Unset
    BY <1>1, BridgeAssumption
  <2>5. holder = [r \in Resource |-> holder[r]] /\ call = [s \in Seeker |-> call[s]]
    BY <1>1
  <2>. QED  BY <2>1, <2>2, <2>3, <2>4, <2>5 DEF AccountsTyped
<1>3. \A s \in Seeker : call[s] = [at |-> "idle", on |-> Unset, id |-> 0]
  BY <1>1
<1>. QED  BY <1>1, <1>2, <1>3 DEF BridgeInv, ServedWell, BridgeCallFits, Standing

\* The subjects and the capabilities are the plan's, and a row remains whose it is.
RowsRemain ==
  /\ bridge'.subject = bridge.subject /\ bridge'.cap = bridge.cap
  /\ IsList(rows') /\ DOMAIN rows \subseteq DOMAIN rows' /\ Len(rows) <= Len(rows')
  /\ \A id \in DOMAIN rows : /\ rows'[id].tenant = rows[id].tenant
                             /\ rows'[id].user = rows[id].user
                             /\ rows'[id].provider = rows[id].provider
                             /\ rows'[id].by = rows[id].by
  /\ \A id \in DOMAIN rows' \ DOMAIN rows : rows'[id].by # Unset => rows'[id].user = Unset

LEMMA RowsRemainSuiting ==
  ASSUME RowsRemain, NEW id, NEW r, NEW s, OfCap(id, r)
  PROVE  /\ OfCap(id, r)' /\ rows'[id].by = rows[id].by
         /\ OfSubject(id, s) => OfSubject(id, s)'
         /\ Suits(id, r, s) => Suits(id, r, s)'
BY DEF RowsRemain, OfCap, OfSubject, Suits

\* An action's row still fits when others move: its resource and its link are its own.
LEMMA OtherActionsFit ==
  ASSUME RowsRemain, NEW s \in Seeker, NEW b, BridgeCallFits(b, s),
         b.at # "idle" => holder'[b.on] = s /\ link'[b.on] = link[b.on]
  PROVE  BridgeCallFits(b, s)'
<1>1. /\ b.at \in {"relink", "reconcile"} => OfCap(b.id, b.on)' /\ OfSubject(b.id, s)'
      /\ b.at \in {"activate", "bind", "provision", "link"} =>
           OfCap(b.id, b.on)' /\ rows'[b.id].by = s
  BY RowsRemainSuiting DEF BridgeCallFits, Standing
<1>2. ASSUME b.at # "idle", Suits(link[b.on], b.on, s) PROVE Suits(link[b.on], b.on, s)'
  <2>1. PICK id : id = link[b.on]
    OBVIOUS
  <2>2. Suits(id, b.on, s)
    BY <1>2, <2>1
  <2>3. Suits(id, b.on, s)'
    BY <2>2, RowsRemainSuiting DEF Suits
  <2>. QED  BY <1>2, <2>1, <2>3 DEF Suits, OfCap, OfSubject
<1>3. ASSUME b.at # "idle", Suits(link[b.on], b.on, s), OfSubject(link[b.on], s)
      PROVE  OfSubject(link[b.on], s)'
  <2>1. PICK id : id = link[b.on]
    OBVIOUS
  <2>2. OfCap(id, b.on) /\ OfSubject(id, s)
    BY <1>3, <2>1 DEF Suits
  <2>3. OfSubject(id, s)'
    BY <2>2, RowsRemainSuiting
  <2>. QED  BY <1>3, <2>1, <2>3 DEF OfSubject
<1>. QED  BY <1>1, <1>2, <1>3 DEF BridgeCallFits, Standing

\* A step of one action that leaves rows, links and answers as they should be.
LEMMA ActionStep ==
  ASSUME BridgeInv, NEW s \in Seeker, NEW row, call' = [call EXCEPT ![s] = row], RowsRemain,
         link' \in [Resource -> 0..Len(rows')],
         \A r \in Resource : link'[r] = link[r] \/ holder[r] = s,
         holder' = [r \in Resource |-> holder'[r]],
         \A r \in Resource, t \in Seeker : t # s /\ holder[r] = t => holder'[r] = t,
         \A t \in Seeker, id \in Nat : <<t, id>> \in served' /\ <<t, id>> \notin served =>
           id \in DOMAIN rows' /\ (rows'[id].by = Unset \/ rows'[id].by = t),
         served' \subseteq Seeker \X Nat, BridgeCallFits(row, s)'
  PROVE  BridgeInv'
<1>1. /\ call' = [t \in Seeker |-> call'[t]] /\ call'[s] = row
      /\ \A t \in Seeker : t # s => call'[t] = call[t]
  BY DEF BridgeInv, AccountsTyped
<1>2. AccountsTyped' BY <1>1 DEF RowsRemain, BridgeInv, AccountsTyped
<1>3. ServedWell'
  <2>1. /\ IsList(rows) /\ IsList(rows')
        /\ DOMAIN rows \subseteq DOMAIN rows' /\ DOMAIN rows \subseteq Nat
        /\ \A id \in DOMAIN rows : rows'[id].by = rows[id].by
    BY ListFacts DEF RowsRemain, BridgeInv, AccountsTyped
  <2>2. DOMAIN rows' \subseteq Nat
    BY <2>1, ListFacts
  <2>3. ASSUME NEW t \in Seeker, NEW id \in Nat, <<t, id>> \in served'
        PROVE  id \in DOMAIN rows' /\ (rows'[id].by = Unset \/ rows'[id].by = t)
    BY <2>1, <2>3 DEF BridgeInv, ServedWell
  <2>. QED  BY <2>2, <2>3 DEF ServedWell
<1>4. ASSUME NEW t \in Seeker, t # s PROVE BridgeCallFits(call[t], t)'
  <2>1. PICK b : b = call[t]
    OBVIOUS
  <2>2. BridgeCallFits(b, t)
    BY <2>1 DEF BridgeInv
  <2>3. b.at # "idle" => b.on \in Resource /\ holder[b.on] = t
    BY <2>2 DEF BridgeCallFits, Standing
  <2>4. BridgeCallFits(b, t)'
    BY <1>4, <2>2, <2>3, OtherActionsFit
  <2>. QED  BY <1>1, <1>4, <2>1, <2>4
<1>5. BridgeCallFits(call[s], s)'
  BY <1>1
<1>6. \A t \in Seeker : BridgeCallFits(call[t], t)'
  BY <1>4, <1>5
<1>. QED  BY <1>2, <1>3, <1>6 DEF BridgeInv

LEMMA RowsStand ==
  ASSUME BridgeInv, UNCHANGED rows, bridge'.subject = bridge.subject, bridge'.cap = bridge.cap
  PROVE  RowsRemain
BY ListFacts DEF BridgeInv, AccountsTyped, RowsRemain

\* The action ends and lets its resource go.
LEMMA RefusedInv ==
  ASSUME BridgeInv, NEW s \in Seeker, call[s].at # "idle", Refused(s), RowsRemain,
         Len(rows') = Len(rows), UNCHANGED <<link, served>>
  PROVE  BridgeInv'
<1>1. PICK row : row = [at |-> "idle", on |-> Unset, id |-> 0]
  OBVIOUS
<1>2. BridgeCallFits(row, s)'
  BY <1>1 DEF BridgeCallFits, Standing
<1>3. PICK r \in Resource : r = call[s].on /\ holder[r] = s
  BY DEF BridgeInv, BridgeCallFits, Standing
<1>4. holder' = [holder EXCEPT ![r] = Unset] /\ holder = [x \in Resource |-> holder[x]]
  BY <1>3 DEF Refused, BridgeInv, AccountsTyped
<1>5. /\ link' \in [Resource -> 0..Len(rows')] /\ call' = [call EXCEPT ![s] = row]
  BY <1>1 DEF Refused, BridgeInv, AccountsTyped
<1>6. served' \subseteq Seeker \X Nat
  BY ListFacts DEF BridgeInv, ServedWell, AccountsTyped
<1>. QED  BY <1>2, <1>3, <1>4, <1>5, <1>6, ActionStep

\* The action goes on and holds its resource; rows may come, links and answers do not.
LEMMA GoesOn ==
  ASSUME BridgeInv, NEW s \in Seeker, NEW row, call' = [call EXCEPT ![s] = row], RowsRemain,
         UNCHANGED <<link, holder, served>>, BridgeCallFits(row, s)'
  PROVE  BridgeInv'
<1>1. link' \in [Resource -> 0..Len(rows')]
  BY ListFacts DEF BridgeInv, AccountsTyped, RowsRemain
<1>2. served' \subseteq Seeker \X Nat /\ holder' = [r \in Resource |-> holder'[r]]
  BY ListFacts DEF BridgeInv, ServedWell, AccountsTyped
<1>. QED  BY <1>1, <1>2, ActionStep

\* Nothing the fitting of an action rests on has changed.
LEMMA StillFits ==
  ASSUME NEW b, NEW s, BridgeCallFits(b, s), UNCHANGED <<rows, link, holder>>,
         bridge'.subject = bridge.subject, bridge'.cap = bridge.cap
  PROVE  BridgeCallFits(b, s)'
BY DEF BridgeCallFits, Suits, OfCap, OfSubject, Standing

LEMMA ReserveInv ==
  ASSUME BridgeInv, NEW s \in Seeker, NEW r \in Resource, Reserve(s, r)
  PROVE  BridgeInv'
<1>1. PICK row : row = [at |-> "read", on |-> r, id |-> 0]
  OBVIOUS
<1>2. /\ holder' = [holder EXCEPT ![r] = s] /\ call' = [call EXCEPT ![s] = row]
      /\ holder[r] = Unset /\ holder = [x \in Resource |-> holder[x]]
      /\ UNCHANGED <<link, rows, served>>
  BY <1>1 DEF Reserve, BridgeInv, AccountsTyped
<1>3. bridge'.subject = bridge.subject /\ bridge'.cap = bridge.cap
  BY DEF Reserve
<1>4. BridgeCallFits(row, s)'
  BY <1>1, <1>2 DEF BridgeCallFits, Standing
<1>5. RowsRemain
  BY <1>2, <1>3, RowsStand
<1>6. /\ link' \in [Resource -> 0..Len(rows')] /\ served' \subseteq Seeker \X Nat
  BY <1>2, ListFacts DEF BridgeInv, AccountsTyped, ServedWell
<1>. QED  BY <1>2, <1>4, <1>5, <1>6, BridgeAssumption, ActionStep

\* The row of an action that goes on.
LEMMA ActionGoes ==
  ASSUME BridgeInv, NEW s \in Seeker, NEW b, b = call[s], NEW at, Goes(s, at),
         NEW row, row = [b EXCEPT !.at = at]
  PROVE  call' = [call EXCEPT ![s] = row]
BY DEF BridgeInv, AccountsTyped, Goes

LEMMA ActionGoesWith ==
  ASSUME BridgeInv, NEW s \in Seeker, NEW b, b = call[s], NEW at, NEW id, GoesWith(s, at, id),
         NEW row, row = [at |-> at, on |-> b.on, id |-> id]
  PROVE  call' = [call EXCEPT ![s] = row]
<1>1. call = [t \in Seeker |-> call[t]] /\ b = [at |-> b.at, on |-> b.on, id |-> b.id]
  BY DEF BridgeInv, AccountsTyped, BridgeCallFits, Standing
<1>3. call' = [call EXCEPT ![s].at = at, ![s].id = id]
  BY DEF GoesWith
<1>4. call'[s] = row
  BY <1>1, <1>3
<1>5. call' = [t \in Seeker |-> call'[t]] /\ \A t \in Seeker : t # s => call'[t] = call[t]
  BY <1>1, <1>3
<1>. QED  BY <1>1, <1>4, <1>5

LEMMA ReadBindingInv ==
  ASSUME BridgeInv, NEW s \in Seeker, ReadBinding(s)
  PROVE  BridgeInv'
<1>1. PICK b : b = call[s]
  OBVIOUS
<1>2. BridgeCallFits(b, s) /\ b.at = "read" /\ b.on \in Resource /\ Cap(s) = bridge.cap[b.on]
  BY <1>1 DEF BridgeInv, ReadBinding, BridgeCallFits, Standing, Cap
<1>3. UNCHANGED <<link, rows, served, bridge>>
  BY DEF ReadBinding
<1>4. RowsRemain
  BY <1>3, RowsStand
<1>5. PICK id \in 0..Len(rows) : id = link[b.on]
  BY <1>2 DEF BridgeInv, AccountsTyped
<1>6. CASE id = 0 /\ Goes(s, "find") /\ UNCHANGED holder
  <2>1. PICK row : row = [b EXCEPT !.at = "find"]
    OBVIOUS
  <2>2. call' = [call EXCEPT ![s] = row]
    BY <1>1, <1>6, <2>1, ActionGoes
  <2>3. BridgeCallFits(row, s)
    BY <1>2, <1>5, <1>6, <2>1 DEF BridgeCallFits, Standing
  <2>. QED  BY <1>3, <1>4, <1>6, <2>2, <2>3, GoesOn, StillFits
<1>7. CASE id # 0 /\ Matches(rows[id], s) /\ GoesWith(s, "reconcile", id) /\ UNCHANGED holder
  <2>1. PICK row : row = [at |-> "reconcile", on |-> b.on, id |-> id]
    OBVIOUS
  <2>2. call' = [call EXCEPT ![s] = row]
    BY <1>1, <1>7, <2>1, ActionGoesWith
  <2>3. id \in DOMAIN rows
    BY <1>5, <1>7, ListFacts DEF BridgeInv, AccountsTyped
  <2>4. OfCap(id, b.on) /\ OfSubject(id, s)
    BY <1>2, <1>7, <2>3 DEF OfCap, OfSubject, Matches, SameCap
  <2>5. BridgeCallFits(row, s)
    BY <1>2, <1>5, <2>1, <2>4 DEF BridgeCallFits, Standing, Suits
  <2>. QED  BY <1>3, <1>4, <1>7, <2>2, <2>5, GoesOn, StillFits
<1>8. CASE id # 0 /\ ~Matches(rows[id], s) /\ Refused(s)
  BY <1>1, <1>2, <1>3, <1>4, <1>8, RefusedInv
<1>. QED  BY <1>1, <1>5, <1>6, <1>7, <1>8 DEF ReadBinding

LEMMA FindEntitlementInv ==
  ASSUME BridgeInv, NEW s \in Seeker, FindEntitlement(s)
  PROVE  BridgeInv'
<1>1. PICK b : b = call[s]
  OBVIOUS
<1>2. BridgeCallFits(b, s) /\ b.at = "find" /\ b.on \in Resource /\ Cap(s) = bridge.cap[b.on]
  BY <1>1 DEF BridgeInv, FindEntitlement, BridgeCallFits, Standing, Cap
<1>3. UNCHANGED <<link, rows, served, bridge>>
  BY DEF FindEntitlement
<1>4. RowsRemain
  BY <1>3, RowsStand
<1>5. CASE Closed("subscription") /\ Refused(s)
  BY <1>1, <1>2, <1>3, <1>4, <1>5, RefusedInv
<1>6. ASSUME NEW i \in Owned(s), OfProvider(i, s), GoesWith(s, "relink", i), UNCHANGED holder
      PROVE  BridgeInv'
  <2>1. PICK row : row = [at |-> "relink", on |-> b.on, id |-> i]
    OBVIOUS
  <2>2. call' = [call EXCEPT ![s] = row]
    BY <1>1, <1>6, <2>1, ActionGoesWith
  <2>3. OfCap(i, b.on) /\ OfSubject(i, s)
    BY <1>2, <1>6 DEF Owned, OfProvider, OfCap, OfSubject
  <2>4. BridgeCallFits(row, s)
    BY <1>2, <2>1, <2>3 DEF BridgeCallFits, Standing
  <2>. QED  BY <1>3, <1>4, <1>6, <2>2, <2>4, GoesOn, StillFits
<1>7. CASE Goes(s, "create") /\ UNCHANGED holder
  <2>1. PICK row : row = [b EXCEPT !.at = "create"]
    OBVIOUS
  <2>2. call' = [call EXCEPT ![s] = row]
    BY <1>1, <1>7, <2>1, ActionGoes
  <2>3. BridgeCallFits(row, s)
    BY <1>2, <2>1 DEF BridgeCallFits, Standing
  <2>. QED  BY <1>3, <1>4, <1>7, <2>2, <2>3, GoesOn, StillFits
<1>. QED  BY <1>5, <1>6, <1>7 DEF FindEntitlement

LEMMA LinkInv ==
  ASSUME BridgeInv, NEW s \in Seeker, Link(s)
  PROVE  BridgeInv'
<1>1. PICK b : b = call[s]
  OBVIOUS
<1>2. BridgeCallFits(b, s) /\ b.at \in {"relink", "link"} /\ b.on \in Resource /\ holder[b.on] = s
  BY <1>1 DEF BridgeInv, Link, BridgeCallFits, Standing
<1>3. /\ UNCHANGED <<holder, rows>> /\ bridge'.subject = bridge.subject
      /\ bridge'.cap = bridge.cap
      /\ link' = [link EXCEPT ![b.on] = b.id] \/ link' = link
  <2>1. UNCHANGED <<holder, rows>>
    BY DEF Link
  <2>2. CASE link' = [link EXCEPT ![call[s].on] = call[s].id] /\ UNCHANGED bridge
    BY <1>1, <2>1, <2>2
  <2>3. CASE bridge' = [bridge EXCEPT !.faults = @ - 1] /\ UNCHANGED link
    BY <2>1, <2>3
  <2>. QED  BY <2>2, <2>3 DEF Link
<1>4. RowsRemain
  BY <1>3, RowsStand
<1>5. b.id \in 0..Len(rows) /\ b.id \in DOMAIN rows /\ b.id \in Nat
  BY <1>2, ListFacts DEF BridgeCallFits, Standing, OfCap, BridgeInv, AccountsTyped
<1>6. /\ link' \in [Resource -> 0..Len(rows')]
      /\ \A r \in Resource : link'[r] = link[r] \/ holder[r] = s
      /\ link'[b.on] \in {0, b.id}
  BY <1>2, <1>3, <1>5 DEF BridgeInv, AccountsTyped, BridgeCallFits, Standing
<1>7. /\ holder' = [r \in Resource |-> holder'[r]]
      /\ \A r \in Resource, t \in Seeker : t # s /\ holder[r] = t => holder'[r] = t
  BY <1>3 DEF BridgeInv, AccountsTyped
<1>8. OfCap(b.id, b.on)' /\ rows'[b.id].by = rows[b.id].by
      /\ (OfSubject(b.id, s) => OfSubject(b.id, s)')
  BY <1>2, <1>4, RowsRemainSuiting DEF BridgeCallFits, Standing
<1>9. served' \subseteq Seeker \X Nat
  BY <1>1, <1>5, ListFacts DEF Link, Answered, BridgeInv, ServedWell, AccountsTyped
<1>10. CASE b.at = "relink"
  <2>1. PICK row : row = [b EXCEPT !.at = "reconcile"]
    OBVIOUS
  <2>2. Goes(s, "reconcile") /\ UNCHANGED served
    BY <1>1, <1>10 DEF Link
  <2>3. OfSubject(b.id, s)'
    BY <1>2, <1>8, <1>10 DEF BridgeCallFits, Standing
  <2>4. PICK n : n = link'[b.on]
    OBVIOUS
  <2>5. n = 0 \/ (n = b.id /\ Suits(n, b.on, s)')
    BY <1>6, <1>8, <2>3, <2>4 DEF Suits
  <2>6. link'[b.on] = 0 \/ Suits(link[b.on], b.on, s)'
    BY <2>4, <2>5 DEF Suits, OfCap, OfSubject
  <2>7. BridgeCallFits(row, s)'
    BY <1>2, <1>3, <1>8, <2>1, <2>3, <2>6 DEF BridgeCallFits, Standing
  <2>. QED  BY <1>1, <1>4, <1>6, <1>7, <1>9, <2>1, <2>2, <2>7, ActionGoes, ActionStep
<1>11. CASE b.at = "link"
  <2>1. PICK row : row = [at |-> "mark", on |-> b.on, id |-> b.id]
    OBVIOUS
  <2>2. GoesWith(s, "mark", b.id) /\ served' = served \cup {<<s, b.id>>}
    BY <1>1, <1>11 DEF Link, Answered
  <2>3. rows'[b.id].by = s
    BY <1>2, <1>8, <1>11 DEF BridgeCallFits, Standing
  <2>4. PICK n : n = link'[b.on]
    OBVIOUS
  <2>5. n = 0 \/ (n = b.id /\ Suits(n, b.on, s)')
    BY <1>6, <1>8, <2>3, <2>4 DEF Suits
  <2>6. link'[b.on] = 0 \/ Suits(link[b.on], b.on, s)'
    BY <2>4, <2>5 DEF Suits, OfCap, OfSubject
  <2>7. BridgeCallFits(row, s)'
    BY <1>2, <1>3, <2>1, <2>6 DEF BridgeCallFits, Standing
  <2>8. \A t \in Seeker, id \in Nat : <<t, id>> \in served' /\ <<t, id>> \notin served =>
          id \in DOMAIN rows' /\ (rows'[id].by = Unset \/ rows'[id].by = t)
    BY <1>3, <1>5, <2>2, <2>3
  <2>. QED  BY <1>1, <1>4, <1>6, <1>7, <1>9, <2>1, <2>2, <2>7, <2>8, ActionGoesWith, ActionStep
<1>. QED  BY <1>2, <1>10, <1>11

LEMMA RowChanges ==
  ASSUME BridgeInv, NEW id \in DOMAIN rows, NEW x, rows' = [rows EXCEPT ![id] = x],
         x.tenant = rows[id].tenant, x.user = rows[id].user, x.provider = rows[id].provider,
         x.by = rows[id].by, bridge'.subject = bridge.subject, bridge'.cap = bridge.cap
  PROVE  RowsRemain /\ Len(rows') = Len(rows)
<1>1. IsList(rows) /\ Len(rows) \in Nat
  BY ListFacts DEF BridgeInv, AccountsTyped
<1>2. rows = [i \in DOMAIN rows |-> rows[i]]
  BY <1>1, ListFacts
<1>3. /\ DOMAIN rows' = DOMAIN rows /\ rows' = [i \in DOMAIN rows' |-> rows'[i]] /\ rows'[id] = x
      /\ \A i \in DOMAIN rows : i # id => rows'[i] = rows[i]
  BY <1>2
<1>4. IsList(rows') /\ Len(rows') = Len(rows)
  BY <1>1, <1>3, ListAlike
<1>. QED  BY <1>1, <1>3, <1>4 DEF RowsRemain

LEMMA StatusChanges ==
  ASSUME BridgeInv, NEW id \in DOMAIN rows, NEW to, rows' = [rows EXCEPT ![id].status = to],
         bridge'.subject = bridge.subject, bridge'.cap = bridge.cap
  PROVE  RowsRemain /\ Len(rows') = Len(rows)
<1>1. PICK x : x = [rows[id] EXCEPT !.status = to]
  OBVIOUS
<1>2. rows' = [rows EXCEPT ![id] = x]
  BY <1>1
<1>3. /\ x.tenant = rows[id].tenant /\ x.user = rows[id].user
      /\ x.provider = rows[id].provider /\ x.by = rows[id].by
  BY <1>1
<1>. QED  BY <1>2, <1>3, RowChanges

LEMMA NothingChanges ==
  ASSUME BridgeInv, UNCHANGED rows, bridge'.subject = bridge.subject, bridge'.cap = bridge.cap
  PROVE  RowsRemain /\ Len(rows') = Len(rows)
BY RowsStand

LEMMA ProvisionsRemain ==
  ASSUME BridgeInv, NEW id \in DOMAIN rows, NEW answer, Provisions(id, answer)
  PROVE  RowsRemain /\ Len(rows') = Len(rows)
<1>1. CASE UNCHANGED <<rows, bridge>>
  BY <1>1, NothingChanges
<1>2. CASE rows' = [rows EXCEPT ![id].status = "BOUND"] /\ UNCHANGED bridge
  BY <1>2, StatusChanges
<1>3. CASE /\ rows' = [rows EXCEPT ![id].status = "FAILED"]
           /\ bridge' = [bridge EXCEPT !.faults = @ - 1]
  <2>1. bridge'.subject = bridge.subject /\ bridge'.cap = bridge.cap
    BY <1>3
  <2>. QED  BY <1>3, <2>1, StatusChanges
<1>. QED  BY <1>1, <1>2, <1>3 DEF Provisions

LEMMA ReconcilesRemain ==
  ASSUME BridgeInv, NEW id \in DOMAIN rows, NEW answer, Reconciles(id, answer)
  PROVE  RowsRemain /\ Len(rows') = Len(rows)
BY NothingChanges, ProvisionsRemain DEF Reconciles

\* What an action knew, it knows after a step of its own that moves rows only.
LEMMA KnowsStill ==
  ASSUME BridgeInv, NEW s \in Seeker, RowsRemain, UNCHANGED <<link, holder>>
  PROVE  BridgeCallFits(call[s], s) /\ \A b : b = call[s] => BridgeCallFits(b, s)'
<1>1. PICK b : b = call[s]
  OBVIOUS
<1>2. BridgeCallFits(b, s)
  BY <1>1 DEF BridgeInv
<1>3. BridgeCallFits(b, s)'
  BY <1>2, OtherActionsFit DEF BridgeCallFits, Standing
<1>. QED  BY <1>1, <1>2, <1>3

LEMMA CreateEntitlementInv ==
  ASSUME BridgeInv, NEW s \in Seeker, CreateEntitlement(s)
  PROVE  BridgeInv'
<1>1. PICK b : b = call[s]
  OBVIOUS
<1>2. BridgeCallFits(b, s) /\ b.at = "create" /\ b.on \in Resource /\ Cap(s) = bridge.cap[b.on]
  BY <1>1 DEF BridgeInv, CreateEntitlement, BridgeCallFits, Standing, Cap
<1>3. UNCHANGED <<link, served, bridge>>
  BY DEF CreateEntitlement
<1>4. CASE UNCHANGED rows /\ Refused(s)
  BY <1>1, <1>2, <1>3, <1>4, NothingChanges, RefusedInv
<1>5. ASSUME rows' = Append(rows, Row(Cap(s).tenant, Unset, Cap(s).provider, "PENDING", "none", s)),
             GoesWith(s, "activate", Len(rows) + 1), UNCHANGED holder
      PROVE  BridgeInv'
  <2>1. PICK x : x = Row(Cap(s).tenant, Unset, Cap(s).provider, "PENDING", "none", s)
    OBVIOUS
  <2>2. x.tenant = Cap(s).tenant /\ x.user = Unset /\ x.provider = Cap(s).provider /\ x.by = s
    BY <2>1 DEF Row
  <2>3. IsList(rows) /\ rows' = Append(rows, x)
    BY <1>5, <2>1 DEF BridgeInv, AccountsTyped
  <2>4. PICK n : n = Len(rows) + 1
    OBVIOUS
  <2>5. /\ IsList(rows') /\ DOMAIN rows = 1..Len(rows) /\ Len(rows) \in Nat
        /\ DOMAIN rows' = 1..n /\ Len(rows') = n
        /\ \A i \in DOMAIN rows : i \in DOMAIN rows' /\ rows'[i] = rows[i]
        /\ rows'[n] = x /\ n \in DOMAIN rows'
        /\ \A i \in DOMAIN rows' : i \in DOMAIN rows \/ i = n
    <3>1. PICK X : rows \in Seq(X) /\ x \in X
      BY <2>3, ListWith
    <3>2. /\ rows' \in Seq(X) /\ DOMAIN rows = 1..Len(rows) /\ Len(rows) \in Nat
          /\ DOMAIN rows' = 1..(Len(rows) + 1) /\ Len(rows') = Len(rows) + 1
          /\ \A i \in DOMAIN rows : i \in DOMAIN rows' /\ rows'[i] = rows[i]
          /\ rows'[Len(rows) + 1] = x
      BY <2>3, <3>1, AppendedTo
    <3>3. IsList(rows')
      BY <3>2, ListOf
    <3>. QED  BY <2>4, <3>2, <3>3
  <2>6. RowsRemain
    BY <1>3, <2>2, <2>4, <2>5 DEF RowsRemain
  <2>7. PICK row : row = [at |-> "activate", on |-> b.on, id |-> n]
    OBVIOUS
  <2>8. call' = [call EXCEPT ![s] = row]
    BY <1>1, <1>5, <2>4, <2>7, ActionGoesWith
  <2>9. OfCap(n, b.on)' /\ rows'[n].by = s
    BY <1>2, <1>3, <2>2, <2>5 DEF OfCap
  <2>10. BridgeCallFits(row, s)'
    BY <1>2, <1>3, <1>5, <2>7, <2>9 DEF BridgeCallFits, Standing
  <2>. QED  BY <1>3, <1>5, <2>6, <2>8, <2>10, GoesOn
<1>. QED  BY <1>4, <1>5 DEF CreateEntitlement

LEMMA TransitionEntitlementInv ==
  ASSUME BridgeInv, NEW s \in Seeker, TransitionEntitlement(s)
  PROVE  BridgeInv'
<1>1. PICK b : b = call[s]
  OBVIOUS
<1>2. BridgeCallFits(b, s) /\ b.at = "activate" /\ b.id \in DOMAIN rows
  BY <1>1 DEF BridgeInv, TransitionEntitlement, BridgeCallFits, Standing, OfCap
<1>3. UNCHANGED <<link, holder, served, bridge>> /\ Goes(s, "bind")
  BY DEF TransitionEntitlement
<1>4. PICK x : x = [rows[b.id] EXCEPT !.entitlement = "ACTIVE"]
  OBVIOUS
<1>5. rows' = [rows EXCEPT ![b.id] = x]
  BY <1>1, <1>4 DEF TransitionEntitlement
<1>6. /\ x.tenant = rows[b.id].tenant /\ x.user = rows[b.id].user
      /\ x.provider = rows[b.id].provider /\ x.by = rows[b.id].by
  BY <1>4
<1>7. RowsRemain
  BY <1>2, <1>3, <1>5, <1>6, RowChanges
<1>8. PICK row : row = [b EXCEPT !.at = "bind"]
  OBVIOUS
<1>9. BridgeCallFits(b, s)'
  BY <1>1, <1>3, <1>7, KnowsStill
<1>10. BridgeCallFits(row, s)'
  BY <1>2, <1>8, <1>9 DEF BridgeCallFits, Standing
<1>. QED  BY <1>1, <1>3, <1>7, <1>8, <1>10, ActionGoes, GoesOn

LEMMA CreateResourceBindingInv ==
  ASSUME BridgeInv, NEW s \in Seeker, CreateResourceBinding(s)
  PROVE  BridgeInv'
<1>1. PICK b : b = call[s]
  OBVIOUS
<1>2. BridgeCallFits(b, s) /\ b.at = "bind" /\ b.id \in DOMAIN rows
  BY <1>1 DEF BridgeInv, CreateResourceBinding, BridgeCallFits, Standing, OfCap
<1>3. UNCHANGED <<link, served, bridge>>
  BY DEF CreateResourceBinding
<1>4. CASE Refused(s) /\ UNCHANGED rows
  BY <1>1, <1>2, <1>3, <1>4, NothingChanges, RefusedInv
<1>5. CASE UNCHANGED holder /\ rows' = [rows EXCEPT ![b.id].status = "UNBOUND"]
           /\ Goes(s, "provision")
  <2>1. RowsRemain
    BY <1>2, <1>3, <1>5, StatusChanges
  <2>2. PICK row : row = [b EXCEPT !.at = "provision"]
    OBVIOUS
  <2>3. BridgeCallFits(b, s)'
    BY <1>1, <1>3, <1>5, <2>1, KnowsStill
  <2>4. BridgeCallFits(row, s)'
    BY <1>2, <2>2, <2>3 DEF BridgeCallFits, Standing
  <2>. QED  BY <1>1, <1>3, <1>5, <2>1, <2>2, <2>4, ActionGoes, GoesOn
<1>. QED  BY <1>1, <1>4, <1>5 DEF CreateResourceBinding

LEMMA ProvisionInv ==
  ASSUME BridgeInv, NEW s \in Seeker, Provision(s)
  PROVE  BridgeInv'
<1>1. PICK b : b = call[s]
  OBVIOUS
<1>2. BridgeCallFits(b, s) /\ b.at = "provision" /\ b.id \in DOMAIN rows
  BY <1>1 DEF BridgeInv, Provision, BridgeCallFits, Standing, OfCap
<1>3. RowsRemain /\ Len(rows') = Len(rows) /\ UNCHANGED <<link, served>>
  BY <1>1, <1>2, ProvisionsRemain DEF Provision
<1>4. CASE Refused(s)
  BY <1>1, <1>2, <1>3, <1>4, RefusedInv
<1>5. CASE Goes(s, "link") /\ UNCHANGED holder
  <2>1. PICK row : row = [b EXCEPT !.at = "link"]
    OBVIOUS
  <2>2. BridgeCallFits(b, s)'
    BY <1>1, <1>3, <1>5, KnowsStill
  <2>3. BridgeCallFits(row, s)'
    BY <1>2, <2>1, <2>2 DEF BridgeCallFits, Standing
  <2>. QED  BY <1>1, <1>3, <1>5, <2>1, <2>3, ActionGoes, GoesOn
<1>. QED  BY <1>4, <1>5 DEF Provision

LEMMA ReconcileInv ==
  ASSUME BridgeInv, NEW s \in Seeker, Reconcile(s)
  PROVE  BridgeInv'
<1>1. PICK b : b = call[s]
  OBVIOUS
<1>2. /\ BridgeCallFits(b, s) /\ b.at = "reconcile" /\ b.id \in DOMAIN rows /\ b.on \in Resource
      /\ OfSubject(b.id, s)
  BY <1>1 DEF BridgeInv, Reconcile, BridgeCallFits, Standing, OfCap
<1>3. RowsRemain /\ Len(rows') = Len(rows) /\ UNCHANGED link
  BY <1>1, <1>2, ReconcilesRemain DEF Reconcile
<1>4. CASE Refused(s) /\ UNCHANGED served
  BY <1>1, <1>2, <1>3, <1>4, RefusedInv
<1>5. CASE Answered(s, b.id) /\ UNCHANGED holder
  <2>1. PICK row : row = [at |-> "mark", on |-> b.on, id |-> b.id]
    OBVIOUS
  <2>2. BridgeCallFits(b, s)'
    BY <1>1, <1>3, <1>5, KnowsStill
  <2>3. BridgeCallFits(row, s)'
    BY <1>2, <2>1, <2>2 DEF BridgeCallFits, Standing
  <2>4. rows[b.id].by = Unset /\ rows'[b.id].by = Unset
    BY <1>2, <1>3 DEF OfSubject, BridgeInv, AccountsTyped, RowsRemain
  <2>5. call' = [call EXCEPT ![s] = row] /\ served' = served \cup {<<s, b.id>>}
    BY <1>1, <1>5, <2>1, ActionGoesWith DEF Answered
  <2>6. /\ link' \in [Resource -> 0..Len(rows')] /\ b.id \in Nat /\ b.id \in DOMAIN rows'
        /\ served \subseteq Seeker \X Nat
        /\ holder' = [r \in Resource |-> holder'[r]]
    BY <1>2, <1>3, <1>5, ListFacts DEF BridgeInv, AccountsTyped, ServedWell, RowsRemain
  <2>7. served' \subseteq Seeker \X Nat
    BY <2>5, <2>6
  <2>8. \A t \in Seeker, id \in Nat : <<t, id>> \in served' /\ <<t, id>> \notin served =>
          id \in DOMAIN rows' /\ (rows'[id].by = Unset \/ rows'[id].by = t)
    BY <2>4, <2>5, <2>6
  <2>. QED  BY <1>3, <1>5, <2>3, <2>5, <2>6, <2>7, <2>8, ActionStep
<1>. QED  BY <1>1, <1>4, <1>5 DEF Reconcile

LEMMA VerifyInv ==
  ASSUME BridgeInv, NEW s \in Seeker, VerifyResourceUsable(s)
  PROVE  BridgeInv'
<1>1. PICK b : b = call[s]
  OBVIOUS
<1>2. BridgeCallFits(b, s) /\ b.at = "verify" /\ b.on \in Resource
  BY <1>1 DEF BridgeInv, VerifyResourceUsable, BridgeCallFits, Standing
<1>3. PICK id \in 0..Len(rows) : id = link[b.on]
  BY <1>2 DEF BridgeInv, AccountsTyped
<1>4. UNCHANGED <<link, served>>
  BY DEF VerifyResourceUsable
<1>5. CASE id = 0
  BY <1>1, <1>2, <1>3, <1>4, <1>5, NothingChanges, RefusedInv DEF VerifyResourceUsable
<1>6. CASE id # 0
  <2>1. id \in DOMAIN rows
    BY <1>3, <1>6, ListFacts DEF BridgeInv, AccountsTyped
  <2>2. RowsRemain /\ Len(rows') = Len(rows)
    BY <1>1, <1>3, <1>6, <2>1, ReconcilesRemain DEF VerifyResourceUsable
  <2>3. CASE Refused(s)
    BY <1>1, <1>2, <1>4, <2>2, <2>3, RefusedInv
  <2>4. CASE Goes(s, "active") /\ UNCHANGED holder
    <3>1. PICK row : row = [b EXCEPT !.at = "active"]
      OBVIOUS
    <3>2. BridgeCallFits(b, s)'
      BY <1>1, <1>4, <2>2, <2>4, KnowsStill
    <3>3. link'[b.on] # 0
      BY <1>3, <1>4, <1>6
    <3>4. BridgeCallFits(row, s)'
      BY <1>2, <3>1, <3>2, <3>3 DEF BridgeCallFits, Standing
    <3>. QED  BY <1>1, <1>4, <2>2, <2>4, <3>1, <3>4, ActionGoes, GoesOn
  <2>. QED  BY <1>1, <1>3, <1>6, <2>3, <2>4 DEF VerifyResourceUsable
<1>. QED  BY <1>5, <1>6

LEMMA CheckInvariantInv ==
  ASSUME BridgeInv, NEW s \in Seeker, CheckInvariant(s)
  PROVE  BridgeInv'
<1>1. PICK b : b = call[s]
  OBVIOUS
<1>2. BridgeCallFits(b, s) /\ b.at = "active"
  BY <1>1 DEF BridgeInv, CheckInvariant
<1>3. UNCHANGED <<link, holder, rows, served, bridge>>
  BY DEF CheckInvariant
<1>4. PICK at \in {"owned", "disowned"} :
        Goes(s, at) /\ (at = "owned" => Matches(rows[link[b.on]], s))
  BY <1>1 DEF CheckInvariant, ChainHolds
<1>5. at = "owned" => OfSubject(link[b.on], s)
  BY <1>4 DEF Matches, OfSubject
<1>6. PICK row : row = [b EXCEPT !.at = at]
  OBVIOUS
<1>7. BridgeCallFits(row, s)
  BY <1>2, <1>5, <1>6 DEF BridgeCallFits, Standing
<1>. QED  BY <1>1, <1>3, <1>4, <1>6, <1>7, RowsStand, StillFits, ActionGoes, GoesOn

LEMMA VerifyInvariantInv ==
  ASSUME BridgeInv, NEW s \in Seeker, VerifyInvariant(s)
  PROVE  BridgeInv'
<1>1. PICK b : b = call[s]
  OBVIOUS
<1>2. /\ BridgeCallFits(b, s) /\ b.at \in {"owned", "disowned"}
      /\ link[b.on] \in DOMAIN rows
  BY <1>1 DEF BridgeInv, VerifyInvariant, BridgeCallFits, Suits, OfCap, Standing
<1>3. UNCHANGED <<link, holder, served>>
  BY DEF VerifyInvariant
<1>4. RowsRemain
  BY <1>1, <1>2, ReconcilesRemain DEF VerifyInvariant
<1>5. PICK at \in {"succeeded", "unreconciled"} :
        Goes(s, at) /\ (at = "succeeded" => b.at = "owned")
  BY <1>1 DEF VerifyInvariant
<1>6. BridgeCallFits(b, s)'
  BY <1>1, <1>3, <1>4, KnowsStill
<1>7. PICK row : row = [b EXCEPT !.at = at]
  OBVIOUS
<1>8. BridgeCallFits(row, s)'
  BY <1>2, <1>5, <1>6, <1>7 DEF BridgeCallFits, Standing
<1>. QED  BY <1>1, <1>3, <1>4, <1>5, <1>7, <1>8, ActionGoes, GoesOn

\* The rows, or what is open, move; no action does.
LEMMA SettingMoves ==
  ASSUME BridgeInv, RowsRemain, Len(rows') = Len(rows), UNCHANGED <<link, holder, call, served>>
  PROVE  BridgeInv'
<1>1. AccountsTyped' BY DEF RowsRemain, BridgeInv, AccountsTyped
<1>2. ServedWell'
  BY DEF ServedWell, BridgeInv, RowsRemain
<1>3. ASSUME NEW s \in Seeker PROVE BridgeCallFits(call[s], s)'
  <2>1. PICK b : b = call[s]
    OBVIOUS
  <2>2. BridgeCallFits(b, s)'
    BY <2>1, KnowsStill
  <2>. QED  BY <2>1, <2>2
<1>. QED  BY <1>1, <1>2, <1>3 DEF BridgeInv

LEMMA BridgeStepInv == BridgeInv /\ [BridgeNext]_bridgeVars => BridgeInv'
<1>. SUFFICES ASSUME BridgeInv, [BridgeNext]_bridgeVars PROVE BridgeInv'
  OBVIOUS
<1>1. ASSUME NEW s \in Seeker, MarkInUse(s) PROVE BridgeInv'
  <2>1. PICK b : b = call[s]
    OBVIOUS
  <2>2. PICK row : row = [b EXCEPT !.at = "verify"]
    OBVIOUS
  <2>3. BridgeCallFits(b, s) /\ b.at = "mark" /\ UNCHANGED <<link, holder, rows, served, bridge>>
    BY <1>1, <2>1 DEF BridgeInv, MarkInUse
  <2>4. BridgeCallFits(row, s)
    BY <2>2, <2>3 DEF BridgeCallFits, Standing
  <2>. QED  BY <1>1, <2>1, <2>2, <2>3, <2>4, RowsStand, StillFits, ActionGoes, GoesOn DEF MarkInUse
<1>2. ASSUME NEW s \in Seeker, Release(s) PROVE BridgeInv'
  BY <1>2, NothingChanges, RefusedInv DEF Release
<1>3. ASSUME NEW id \in DOMAIN rows, OperatorMoves(id) PROVE BridgeInv'
  <2>1. bridge'.subject = bridge.subject /\ bridge'.cap = bridge.cap
    BY <1>3 DEF OperatorMoves
  <2>. QED  BY <1>3, <2>1, StatusChanges, SettingMoves DEF OperatorMoves
<1>4. ASSUME NEW what, Closes(what) PROVE BridgeInv'
  BY <1>4, NothingChanges, SettingMoves DEF Closes
<1>5. CASE UNCHANGED bridgeVars
  BY <1>5, NothingChanges, SettingMoves DEF bridgeVars
<1>. QED  BY <1>1, <1>2, <1>3, <1>4, <1>5, ReserveInv, ReadBindingInv, FindEntitlementInv,
             LinkInv, CreateEntitlementInv, TransitionEntitlementInv, CreateResourceBindingInv,
             ProvisionInv, ReconcileInv, VerifyInv, CheckInvariantInv, VerifyInvariantInv
             DEF BridgeNext, Bridges

LEMMA BridgeInvSays == BridgeInv => OwnBinding
<1>. SUFFICES ASSUME BridgeInv PROVE OwnBinding
  OBVIOUS
<1>1. ASSUME NEW s \in Seeker
      PROVE  /\ call[s].at \in Standing =>
                  /\ link[call[s].on] # 0 /\ SameCap(Account(s), s)
                  /\ Account(s).user = bridge.subject[s] \/ Account(s).by = s
             /\ call[s].at = "succeeded" => Account(s).user = bridge.subject[s]
  <2>1. PICK b : b = call[s]
    OBVIOUS
  <2>2. BridgeCallFits(b, s) /\ Account(s) = rows[link[b.on]] /\ Cap(s) = bridge.cap[b.on]
    BY <2>1 DEF BridgeInv, Account, Cap
  <2>. QED  BY <2>1, <2>2 DEF BridgeCallFits, Standing, Suits, OfCap, OfSubject, SameCap
<1>2. ASSUME NEW id \in DOMAIN rows, rows[id].by # Unset PROVE Cardinality(Serves(id)) <= 1
  <2>1. \A s \in Serves(id) : s = rows[id].by
    BY <1>2 DEF Serves, BridgeInv, ServedWell
  <2>2. Serves(id) = {} \/ Serves(id) = {rows[id].by}
    BY <2>1
  <2>3. CASE Serves(id) = {}
    BY <2>3, FS_EmptySet
  <2>4. CASE Serves(id) = {rows[id].by}
    <3>1. Cardinality({rows[id].by}) = 1
      BY FS_Singleton
    <3>. QED  BY <2>4, <3>1
  <2>. QED  BY <2>2, <2>3, <2>4
<1>3. \A id \in DOMAIN rows : rows[id].by # Unset => Cardinality(Serves(id)) <= 1
  BY <1>2
<1>. QED  BY <1>1, <1>3 DEF OwnBinding

\* See OwnBinding: for every number of sessions, of resources they race for and of
\* entitlements found and made, and whatever fails or closes meanwhile.
THEOREM BindingsAreOwn == BridgeInit /\ [][BridgeNext]_bridgeVars => []OwnBinding
<1>1. BridgeInit => BridgeInv
  BY BridgeInitInv DEF BridgeInit
<1>. QED  BY <1>1, BridgeStepInv, BridgeInvSays, PTL

-----------------------------------------------------------------------------
(* ProviderAccess: which router is asked, and which resources are probed.  *)

InstFields == {"tenant", "type", "key", "status"}
WorkFields == {"does", "at", "pass", "todo", "probed", "tried", "listed", "stays", "target",
               "binding", "type", "since", "row", "client"}

\* The versions of an instance are all of one tenant.
VersionsTyped(q) ==
  /\ IsList(q) /\ Len(q) > 0
  /\ \A n \in DOMAIN q : DOMAIN q[n] = InstFields /\ q[n].tenant = q[1].tenant
InstancesTyped ==
  /\ IsList(instances) /\ \A i \in DOMAIN instances : VersionsTyped(instances[i])
  /\ \A b \in DOMAIN bound : bound[b].inst # 0 =>
       bound[b].inst \in DOMAIN instances /\ instances[bound[b].inst][1].tenant = bound[b].tenant
SeatsTyped ==
  /\ \A r \in DOMAIN uses : uses[r] = 0 \/ uses[r] \in DOMAIN bound
  /\ IsFiniteSet(DOMAIN seats) /\ \A s \in DOMAIN seats : seats[s].on \in DOMAIN uses \cup {0}
ClientsTyped == \A c \in clients : c.key = c.print[1]

\* A call in progress, or a router asked: some version of the binding's instance that was in
\* force since then names the key and is active.
Versioned(b, key, since) ==
  \E n \in since..Len(instances[bound[b].inst]) :
    instances[bound[b].inst][n].key = key /\ instances[bound[b].inst][n].status = "active"
RouteDeedFits(does) ==
  /\ does.kind = "recover" => does.binding \in DOMAIN bound
  /\ does.kind = "move" => does.on \in DOMAIN uses \cup {0}
  /\ does.kind = "add" => DOMAIN does.row = InstFields
CallFits(x) ==
  /\ RouteDeedFits(x.does)
  /\ x.at = "resource" => x.target \in DOMAIN uses
  /\ x.at \in {"binding", "runtime", "usage", "instance", "secret", "ask"} =>
       x.binding \in DOMAIN bound
  /\ x.at \in {"instance", "secret", "ask"} =>
       /\ bound[x.binding].inst # 0
       /\ x.since \in 1..Len(instances[bound[x.binding].inst])
  /\ x.at = "secret" => Versioned(x.binding, x.row.key, x.since)
  /\ x.at = "ask" => Versioned(x.binding, x.client, x.since)
AskedFits ==
  \A a \in asked : /\ a.binding \in DOMAIN bound /\ bound[a.binding].inst # 0
                   /\ a.since \in 1..Len(instances[bound[a.binding].inst])
                   /\ Versioned(a.binding, a.key, a.since)

\* A round: what it tried, with what it has left, is no more often on a resource than it found
\* sessions on it; a session that stayed is in use still, and its resource, once the second
\* pass has begun, is probed or to be probed.
Tries(q, r) == Cardinality({k \in DOMAIN q : q[k] = r})
OnIt(pairs, r) == {p \in pairs : p[2] = r}
InService == InUse({"ACTIVE", "DEGRADED"})
RoundFits(x) ==
  /\ IsList(x.tried) /\ \A k \in DOMAIN x.tried : x.tried[k] \in x.probed
  /\ IsFiniteSet(x.listed) /\ x.todo \subseteq x.listed
  /\ \A p \in x.todo : p[2] \in DOMAIN uses
  /\ \A r : Tries(x.tried, r) + Cardinality(OnIt(x.todo, r)) <= Cardinality(OnIt(x.listed, r))
  /\ x.stays \subseteq InService
  /\ x.pass = 2 => \A p \in x.stays : p[2] \in x.probed \/ p \in x.todo
  /\ x.at = "begin" => x.pass = 1 /\ x.tried = << >> /\ x.probed = {} /\ x.stays = {}
  /\ x.does.kind = "cron" /\ x.at = "done" => x.pass = 2 /\ x.todo = {}

RouteInv ==
  /\ InstancesTyped /\ SeatsTyped /\ ClientsTyped /\ AskedFits
  /\ work = [w \in Work |-> work[w]]
  /\ \A w \in Work : DOMAIN work[w] = WorkFields /\ CallFits(work[w]) /\ RoundFits(work[w])

LEMMA NoTries ==
  ASSUME NEW r
  PROVE  Tries(<< >>, r) = 0
BY FS_EmptySet DEF Tries

Extends(z, q, x) == z = Append(q, x)

LEMMA ListAppended ==
  ASSUME NEW q, IsList(q), NEW x, NEW z, Extends(z, q, x)
  PROVE  /\ IsList(z)
         /\ \A k \in DOMAIN z : z[k] = x \/ (k \in DOMAIN q /\ z[k] = q[k])
<1>1. PICK X : q \in Seq(X) /\ x \in X
  BY ListWith
<1>2. /\ z \in Seq(X)
      /\ \A i \in DOMAIN q : i \in DOMAIN z /\ z[i] = q[i]
      /\ z[Len(q) + 1] = x
      /\ \A i \in DOMAIN z : i \in DOMAIN q \/ i = Len(q) + 1
  BY <1>1, AppendedTo DEF Extends
<1>. QED  BY <1>2, ListOf

LEMMA TriesAppended ==
  ASSUME NEW q, IsList(q), NEW x, NEW z, Extends(z, q, x), NEW r
  PROVE  /\ Tries(q, r) \in Nat
         /\ Tries(z, r) = IF r = x THEN Tries(q, r) + 1 ELSE Tries(q, r)
<1>1. PICK X : q \in Seq(X) /\ x \in X
  BY ListWith
<1>2. /\ z \in Seq(X) /\ DOMAIN q = 1..Len(q) /\ Len(q) \in Nat
      /\ \A i \in DOMAIN q : i \in DOMAIN z /\ z[i] = q[i]
      /\ z[Len(q) + 1] = x /\ Len(q) + 1 \in DOMAIN z /\ Len(q) + 1 \notin DOMAIN q
      /\ \A i \in DOMAIN z : i \in DOMAIN q \/ i = Len(q) + 1
  BY <1>1, AppendedTo DEF Extends
<1>. DEFINE A == {k \in DOMAIN q : q[k] = r}
            B == {k \in DOMAIN z : z[k] = r}
<1>4. IsFiniteSet(A) BY <1>2, FS_Interval, FS_Subset
<1>5. Cardinality(A) \in Nat
  BY <1>4, FS_CardinalityType
<1>6. CASE r = x
  <2>1. B = A \cup {Len(q) + 1} /\ Len(q) + 1 \notin A
    BY <1>2, <1>6
  <2>2. Cardinality(B) = Cardinality(A) + 1
    BY <1>4, <2>1, FS_AddElement
  <2>. QED  BY <1>5, <1>6, <2>2 DEF Tries
<1>7. CASE r # x BY <1>2, <1>7, <1>5 DEF Tries
<1>. QED  BY <1>6, <1>7

LEMMA OneOfThem ==
  ASSUME NEW pairs, IsFiniteSet(pairs), NEW p \in pairs, NEW r
  PROVE  Cardinality(OnIt(pairs \ {p}, r)) =
           IF r = p[2] THEN Cardinality(OnIt(pairs, r)) - 1 ELSE Cardinality(OnIt(pairs, r))
<1>1. IsFiniteSet(OnIt(pairs, r))
  BY FS_Subset DEF OnIt
<1>2. CASE r = p[2]
  <2>1. OnIt(pairs \ {p}, r) = OnIt(pairs, r) \ {p} /\ p \in OnIt(pairs, r)
    BY <1>2 DEF OnIt
  <2>. QED  BY <1>1, <1>2, <2>1, FS_RemoveElement
<1>3. CASE r # p[2] BY <1>3 DEF OnIt
<1>. QED  BY <1>2, <1>3

LEMMA FewerOfThem ==
  ASSUME NEW pairs, IsFiniteSet(pairs), NEW few, few \subseteq pairs, NEW r
  PROVE  /\ IsFiniteSet(few) /\ Cardinality(OnIt(few, r)) \in Nat
         /\ Cardinality(OnIt(pairs, r)) \in Nat
         /\ Cardinality(OnIt(few, r)) <= Cardinality(OnIt(pairs, r))
BY FS_Subset, FS_CardinalityType DEF OnIt

LEMMA OntoIsFinite ==
  ASSUME NEW S, IsFiniteSet(S), NEW T, NEW f \in [S -> T], \A t \in T : \E s \in S : f[s] = t
  PROVE  IsFiniteSet(T)
<1>1. PICK q \in Seq(S) : \A s \in S : \E n \in 1..Len(q) : q[n] = s
  BY DEF IsFiniteSet
<1>. DEFINE r == [n \in 1..Len(q) |-> f[q[n]]]
<1>2. r \in Seq(T) /\ Len(r) = Len(q) /\ \A n \in 1..Len(q) : r[n] = f[q[n]] OBVIOUS
<1>. HIDE DEF r
<1>3. ASSUME NEW t \in T PROVE \E n \in 1..Len(r) : r[n] = t
  <2>1. PICK s \in S : f[s] = t
    OBVIOUS
  <2>2. PICK n \in 1..Len(q) : q[n] = s
    BY <1>1
  <2>. QED  BY <1>2, <2>1, <2>2
<1>. QED  BY <1>2, <1>3 DEF IsFiniteSet

LEMMA InServiceFinite ==
  ASSUME SeatsTyped
  PROVE  /\ IsFiniteSet(InService)
         /\ \A p \in InService : p[2] \in DOMAIN uses /\ p[1] \in DOMAIN seats
<1>. DEFINE S == {t \in DOMAIN seats : seats[t].state \in {"ACTIVE", "DEGRADED"} /\ seats[t].on # 0}
<1>1. IsFiniteSet(S)
  BY FS_Subset DEF SeatsTyped
<1>2. InService = {<<s, seats[s].on>> : s \in S}
  BY DEF InService, InUse
<1>3. IsFiniteSet(InService)
  <2>. DEFINE f == [s \in S |-> <<s, seats[s].on>>]
  <2>1. f \in [S -> InService] /\ \A p \in InService : \E s \in S : f[s] = p
    BY <1>2
  <2>. HIDE DEF f
  <2>. QED  BY <1>1, <2>1, OntoIsFinite
<1>4. \A p \in InService : p[2] \in DOMAIN uses /\ p[1] \in DOMAIN seats
  BY <1>2 DEF SeatsTyped
<1>. QED  BY <1>3, <1>4

LEMMA RouteInitInv ==
  ASSUME NEW plan \in AccessRoutes, RouteInitOf(plan)
  PROVE  RouteInv
<1>1. /\ instances = [i \in DOMAIN plan.instances |-> <<plan.instances[i]>>]
      /\ bound = plan.bound /\ uses = plan.uses /\ seats = plan.seats
      /\ clients = {} /\ asked = {}
  BY DEF RouteInitOf
<1>2. PICK q : q = plan.instances
  OBVIOUS
<1>3. IsList(q) /\ \A i \in DOMAIN q : DOMAIN q[i] = InstFields
  BY RouteAssumption, <1>2 DEF IsList, InstFields
<1>4. DOMAIN instances = DOMAIN q /\ instances = [i \in DOMAIN instances |-> instances[i]]
  BY <1>1, <1>2
<1>5. IsList(instances)
  BY <1>3, <1>4, ListAlike
<1>6. ASSUME NEW i \in DOMAIN instances PROVE VersionsTyped(instances[i]) /\ instances[i][1] = q[i]
  <2>1. PICK row : row = q[i]
    OBVIOUS
  <2>2. instances[i] = <<row>> /\ DOMAIN row = InstFields
    BY <1>1, <1>2, <1>3, <1>4, <2>1
  <2>3. PICK v : v = <<row>>
    OBVIOUS
  <2>4. v \in Seq({row}) /\ Len(v) = 1 /\ v[1] = row /\ DOMAIN v = 1..1
    BY <2>3
  <2>5. IsList(v) /\ \A n \in DOMAIN v : v[n] = row
    BY <2>4, ListOf
  <2>6. VersionsTyped(v)
    BY <2>2, <2>4, <2>5 DEF VersionsTyped
  <2>. QED  BY <2>1, <2>2, <2>3, <2>4, <2>6
<1>7. InstancesTyped BY RouteAssumption, <1>1, <1>2, <1>4, <1>5, <1>6 DEF InstancesTyped
<1>8. SeatsTyped BY RouteAssumption, <1>1 DEF SeatsTyped
<1>9. ClientsTyped /\ AskedFits
  BY <1>1 DEF ClientsTyped, AskedFits
<1>10. work = [w \in Work |->
       [does |-> plan.does[w], at |-> "begin", pass |-> 1, todo |-> {}, probed |-> {},
        tried |-> << >>, listed |-> {}, stays |-> {}, target |-> 0, binding |-> 0,
        type |-> "", since |-> 0, row |-> [key |-> "", stamp |-> 0], client |-> ""]]
  BY DEF RouteInitOf
<1>11. ASSUME NEW w \in Work
       PROVE  DOMAIN work[w] = WorkFields /\ CallFits(work[w]) /\ RoundFits(work[w])
  <2>1. PICK x : x = work[w]
    OBVIOUS
  <2>2. x = [does |-> plan.does[w], at |-> "begin", pass |-> 1, todo |-> {}, probed |-> {},
        tried |-> << >>, listed |-> {}, stays |-> {}, target |-> 0, binding |-> 0,
        type |-> "", since |-> 0, row |-> [key |-> "", stamp |-> 0], client |-> ""]
    BY <1>10, <2>1
  <2>3. /\ DOMAIN x = WorkFields /\ x.does = plan.does[w] /\ x.at = "begin" /\ x.pass = 1
        /\ x.todo = {} /\ x.probed = {} /\ x.tried = << >> /\ x.listed = {} /\ x.stays = {}
    BY <2>2 DEF WorkFields
  <2>4. RouteDeedFits(x.does)
    <3>1. /\ plan.does[w].kind = "recover" => plan.does[w].binding \in DOMAIN plan.bound
          /\ plan.does[w].kind = "move" => plan.does[w].on \in DOMAIN plan.uses \cup {0}
          /\ plan.does[w].kind = "add" =>
               DOMAIN plan.does[w].row = {"tenant", "type", "key", "status"}
      BY RouteAssumption, Zenon
    <3>. QED  BY <1>1, <2>3, <3>1 DEF RouteDeedFits, InstFields
  <2>5. IsList(x.tried) /\ \A k \in DOMAIN x.tried : x.tried[k] \in x.probed
    BY <2>3 DEF IsList
  <2>6. ASSUME NEW r
        PROVE  Tries(x.tried, r) + Cardinality(OnIt(x.todo, r)) <= Cardinality(OnIt(x.listed, r))
    BY FS_EmptySet, <2>3, NoTries DEF OnIt
  <2>7. IsFiniteSet(x.listed)
    BY <2>3, FS_EmptySet
  <2>. QED  BY <2>1, <2>3, <2>4, <2>5, <2>6, <2>7 DEF CallFits, RoundFits
<1>. QED  BY <1>5, <1>7, <1>8, <1>9, <1>10, <1>11 DEF RouteInv

\* What a step of one call leaves alone fits still.
LEMMA CallStays ==
  ASSUME UNCHANGED <<instances, bound, uses>>, NEW x, CallFits(x)
  PROVE  CallFits(x)'
BY DEF CallFits, RouteDeedFits, Versioned

LEMMA RoundStays ==
  ASSUME UNCHANGED <<uses, seats>>, NEW x, RoundFits(x)
  PROVE  RoundFits(x)'
BY DEF RoundFits, InService, InUse

LEMMA RestStands ==
  ASSUME RouteInv, UNCHANGED <<instances, clients, bound, asked>>
  PROVE  ClientsTyped' /\ AskedFits'
BY DEF RouteInv, ClientsTyped, AskedFits, Versioned

LEMMA CallStep ==
  ASSUME RouteInv, NEW w \in Work, NEW row, work' = [work EXCEPT ![w] = row],
         DOMAIN row = WorkFields, UNCHANGED <<instances, bound, uses, seats>>,
         ClientsTyped', AskedFits', CallFits(row), RoundFits(row)
  PROVE  RouteInv'
<1>1. /\ work' = [v \in Work |-> work'[v]] /\ work'[w] = row
      /\ \A v \in Work : v # w => work'[v] = work[v]
  BY DEF RouteInv
<1>2. InstancesTyped' /\ SeatsTyped' BY DEF RouteInv, InstancesTyped, SeatsTyped
<1>3. ASSUME NEW v \in Work
      PROVE  DOMAIN work'[v] = WorkFields /\ CallFits(work[v])' /\ RoundFits(work[v])'
  <2>1. PICK x : x = work'[v]
    OBVIOUS
  <2>2. DOMAIN x = WorkFields /\ CallFits(x) /\ RoundFits(x)
    BY <1>1, <2>1 DEF RouteInv
  <2>3. CallFits(x)' /\ RoundFits(x)'
    BY <2>2, CallStays, RoundStays
  <2>. QED  BY <2>1, <2>2, <2>3
<1>. QED  BY <1>1, <1>2, <1>3 DEF RouteInv

\* A step between two steps of the round that calls for it.
RoundPart == {"does", "pass", "todo", "probed", "tried", "listed", "stays"}
LEMMA SameRound ==
  ASSUME NEW x, RoundFits(x), NEW row, \A f \in RoundPart : row[f] = x[f],
         row.at # "begin", row.does.kind = "cron" => row.at # "done"
  PROVE  RoundFits(row)
BY DEF RoundPart, RoundFits

LEMMA AtRow ==
  ASSUME RouteInv, NEW w \in Work, NEW at, WorkAt(w, at)
  PROVE  \E row : /\ work' = [work EXCEPT ![w] = row] /\ DOMAIN row = WorkFields /\ row.at = at
                  /\ \A f \in WorkFields \ {"at"} : row[f] = work[w][f]
<1>1. PICK x : x = work[w]
  OBVIOUS
<1>2. PICK row : row = [x EXCEPT !.at = at]
  OBVIOUS
<1>3. work' = [work EXCEPT ![w] = row]
  BY <1>1, <1>2 DEF WorkAt
<1>4. DOMAIN x = WorkFields
  BY <1>1 DEF RouteInv
<1>5. DOMAIN row = WorkFields /\ row.at = at /\ \A f \in WorkFields \ {"at"} : row[f] = x[f]
  BY <1>2, <1>4 DEF WorkFields
<1>. QED  BY <1>1, <1>3, <1>5

\* A call that ends, or a probe that does.
LEMMA EndStep ==
  ASSUME RouteInv, NEW w \in Work, NEW at \in {"next", "ingest", "done", "thrown"},
         WorkAt(w, at), at = "done" => work[w].does.kind # "cron",
         UNCHANGED <<instances, bound, uses, seats>>, ClientsTyped', AskedFits'
  PROVE  RouteInv'
<1>1. PICK x : x = work[w]
  OBVIOUS
<1>2. PICK row : /\ work' = [work EXCEPT ![w] = row] /\ DOMAIN row = WorkFields /\ row.at = at
                 /\ \A f \in WorkFields \ {"at"} : row[f] = work[w][f]
  BY AtRow
<1>3. CallFits(x) /\ RoundFits(x)
  BY <1>1 DEF RouteInv
<1>4. row.does = x.does /\ \A f \in RoundPart : row[f] = x[f]
  BY <1>1, <1>2 DEF WorkFields, RoundPart
<1>5. CallFits(row)
  BY <1>2, <1>3, <1>4 DEF CallFits
<1>6. RoundFits(row)
  BY <1>1, <1>2, <1>3, <1>4, SameRound
<1>. QED  BY <1>2, <1>5, <1>6, CallStep

LEMMA ListStaleInv ==
  ASSUME RouteInv, NEW w \in Work, ListStale(w)
  PROVE  RouteInv'
<1>1. PICK x : x = work[w]
  OBVIOUS
<1>2. x.does.kind = "cron" /\ x.at = "begin" /\ CallFits(x) /\ RoundFits(x) /\ DOMAIN x = WorkFields
  BY <1>1 DEF ListStale, Working, RouteInv
<1>3. PICK all : all = InService
  OBVIOUS
<1>4. PICK row : row = [x EXCEPT !.todo = all, !.listed = all, !.stays = all, !.at = "next"]
  OBVIOUS
<1>5. work' = [work EXCEPT ![w].todo = all, ![w].listed = all, ![w].stays = all, ![w].at = "next"]
      /\ UNCHANGED <<instances, clients, bound, uses, seats, fresh, asked>>
  BY <1>3, Zenon DEF ListStale, InService
<1>6. work' = [work EXCEPT ![w] = row]
  BY <1>1, <1>4, <1>5
<1>7. /\ DOMAIN row = WorkFields /\ row.todo = all /\ row.listed = all /\ row.stays = all
      /\ row.at = "next" /\ row.does = x.does /\ row.tried = x.tried /\ row.probed = x.probed
      /\ row.pass = x.pass
  BY <1>2, <1>4 DEF WorkFields
<1>8. CallFits(row)
  BY <1>2, <1>7 DEF CallFits
<1>9. IsFiniteSet(all) /\ \A p \in all : p[2] \in DOMAIN uses
  BY <1>3, InServiceFinite DEF RouteInv
<1>10. x.pass = 1 /\ x.tried = << >> /\ x.probed = {} /\ IsList(x.tried)
  BY <1>2 DEF RoundFits
<1>11. ASSUME NEW r
       PROVE  Tries(row.tried, r) + Cardinality(OnIt(row.todo, r)) <= Cardinality(OnIt(row.listed, r))
  BY <1>9, FewerOfThem, <1>7, <1>10, NoTries
<1>12. \A k \in DOMAIN row.tried : row.tried[k] \in row.probed
  BY <1>2, <1>7 DEF RoundFits
<1>13. RoundFits(row)
  BY <1>3, <1>7, <1>9, <1>10, <1>11, <1>12 DEF RoundFits
<1>. QED  BY <1>5, <1>6, <1>7, <1>8, <1>13, CallStep, RestStands

\* A probe of the resource of one session begins.
LEMMA ProbesInv ==
  ASSUME RouteInv, NEW w \in Work, Working(w, "cron", "next"), NEW p \in work[w].todo, Probes(w, p),
         UNCHANGED <<instances, clients, bound, uses, seats, fresh, asked>>
  PROVE  RouteInv'
<1>1. PICK x : x = work[w]
  OBVIOUS
<1>2. x.does.kind = "cron" /\ x.at = "next" /\ CallFits(x) /\ RoundFits(x) /\ DOMAIN x = WorkFields
      /\ p \in x.todo
  BY <1>1 DEF Working, RouteInv
<1>3. PICK z : z = Append(x.tried, p[2])
  OBVIOUS
<1>4. PICK row : row = [x EXCEPT !.todo = x.todo \ {p}, !.target = p[2], !.at = "resource",
                                 !.tried = z, !.probed = x.probed \cup {p[2]}]
  OBVIOUS
<1>5. work' = [work EXCEPT ![w] = row]
  BY <1>1, <1>3, <1>4 DEF Probes
<1>6. /\ DOMAIN row = WorkFields /\ row.todo = x.todo \ {p} /\ row.target = p[2]
      /\ row.at = "resource" /\ row.tried = z /\ row.probed = x.probed \cup {p[2]}
      /\ row.does = x.does /\ row.listed = x.listed /\ row.stays = x.stays /\ row.pass = x.pass
  BY <1>2, <1>4 DEF WorkFields
<1>7. CallFits(row)
  BY <1>2, <1>6 DEF CallFits, RoundFits
<1>8. IsList(x.tried) /\ IsFiniteSet(x.listed) /\ x.todo \subseteq x.listed
      /\ \A k \in DOMAIN x.tried : x.tried[k] \in x.probed
  BY <1>2 DEF RoundFits
<1>9. IsList(z) /\ \A k \in DOMAIN z : z[k] = p[2] \/ (k \in DOMAIN x.tried /\ z[k] = x.tried[k])
  <2>1. Extends(z, x.tried, p[2])
    BY <1>3 DEF Extends
  <2>. QED  BY <1>8, <2>1, ListAppended
<1>10. ASSUME NEW r
       PROVE  Tries(z, r) + Cardinality(OnIt(x.todo \ {p}, r)) <= Cardinality(OnIt(x.listed, r))
  <2>1. /\ Tries(x.tried, r) \in Nat
        /\ Tries(z, r) = IF r = p[2] THEN Tries(x.tried, r) + 1 ELSE Tries(x.tried, r)
    <3>1. PICK q : q = x.tried
      OBVIOUS
    <3>2. PICK o : o = p[2]
      OBVIOUS
    <3>3. IsList(q) /\ Extends(z, q, o)
      BY <1>3, <1>8, <3>1, <3>2 DEF Extends
    <3>4. Tries(q, r) \in Nat /\ Tries(z, r) = IF r = o THEN Tries(q, r) + 1 ELSE Tries(q, r)
      BY <3>3, TriesAppended
    <3>. QED  BY <3>1, <3>2, <3>4
  <2>2. IsFiniteSet(x.todo) /\ Cardinality(OnIt(x.todo, r)) \in Nat
        /\ Cardinality(OnIt(x.listed, r)) \in Nat
    BY <1>8, FewerOfThem
  <2>3. Cardinality(OnIt(x.todo \ {p}, r)) =
          IF r = p[2] THEN Cardinality(OnIt(x.todo, r)) - 1 ELSE Cardinality(OnIt(x.todo, r))
    BY <1>2, <2>2, OneOfThem
  <2>4. Tries(x.tried, r) + Cardinality(OnIt(x.todo, r)) <= Cardinality(OnIt(x.listed, r))
    BY <1>2 DEF RoundFits
  <2>. QED  BY <2>1, <2>2, <2>3, <2>4
<1>11. x.pass = 2 => \A o \in x.stays : o[2] \in row.probed \/ o \in row.todo
  BY <1>2, <1>6 DEF RoundFits
<1>12. x.stays \subseteq InService /\ \A o \in x.todo : o[2] \in DOMAIN uses
  BY <1>2 DEF RoundFits
<1>13. RoundFits(row) BY <1>6, <1>8, <1>9, <1>12, <1>10, <1>11 DEF RoundFits
<1>. QED  BY <1>5, <1>6, <1>7, <1>13, CallStep, RestStands

LEMMA CheckStaleInv ==
  ASSUME RouteInv, NEW w \in Work, CheckStale(w)
  PROVE  RouteInv'
<1>1. PICK x : x = work[w]
  OBVIOUS
<1>2. x.does.kind = "cron" /\ x.at = "next" /\ CallFits(x) /\ RoundFits(x) /\ DOMAIN x = WorkFields
      /\ Working(w, "cron", "next") /\ x.pass = 1
      /\ UNCHANGED <<instances, clients, bound, uses, seats, fresh, asked>>
  BY <1>1 DEF CheckStale, Working, RouteInv
<1>3. PICK p \in work[w].todo :
        Probes(w, p) \/ work' = [work EXCEPT ![w].todo = @ \ {p}]
  BY Zenon DEF CheckStale
<1>4. CASE Probes(w, p)
  BY <1>2, <1>4, ProbesInv
<1>5. CASE work' = [work EXCEPT ![w].todo = @ \ {p}]
  <2>1. PICK row : row = [x EXCEPT !.todo = x.todo \ {p}]
    OBVIOUS
  <2>2. work' = [work EXCEPT ![w] = row]
    BY <1>1, <1>5, <2>1
  <2>3. DOMAIN row = WorkFields /\ row.todo = x.todo \ {p} /\ row.at = "next"
        /\ row.does = x.does /\ row.listed = x.listed /\ row.stays = x.stays /\ row.pass = x.pass
        /\ row.tried = x.tried /\ row.probed = x.probed
    BY <1>2, <2>1 DEF WorkFields
  <2>4. CallFits(row)
    BY <1>2, <2>3 DEF CallFits
  <2>5. ASSUME NEW r
        PROVE  Tries(x.tried, r) + Cardinality(OnIt(row.todo, r)) <= Cardinality(OnIt(x.listed, r))
    <3>1. IsFiniteSet(x.listed) /\ x.todo \subseteq x.listed /\ IsList(x.tried)
          /\ Tries(x.tried, r) + Cardinality(OnIt(x.todo, r)) <= Cardinality(OnIt(x.listed, r))
      BY <1>2 DEF RoundFits
    <3>2. IsFiniteSet(x.todo) /\ Cardinality(OnIt(x.todo, r)) \in Nat
          /\ Cardinality(OnIt(x.listed, r)) \in Nat
      BY <3>1, FewerOfThem
    <3>3. Cardinality(OnIt(row.todo, r)) \in Nat
          /\ Cardinality(OnIt(row.todo, r)) <= Cardinality(OnIt(x.todo, r))
      BY <2>3, <3>2, FewerOfThem
    <3>4. Tries(x.tried, r) \in Nat
      <4>1. PICK z : Extends(z, x.tried, 0)
        BY DEF Extends
      <4>. QED  BY <3>1, <4>1, TriesAppended
    <3>. QED  BY <3>1, <3>2, <3>3, <3>4
  <2>6. RoundFits(row)
    <3>1. IsList(row.tried) /\ \A k \in DOMAIN row.tried : row.tried[k] \in row.probed
      BY <1>2, <2>3 DEF RoundFits
    <3>2. IsFiniteSet(row.listed) /\ row.todo \subseteq row.listed /\ row.stays \subseteq InService
          /\ \A o \in row.todo : o[2] \in DOMAIN uses
      BY <1>2, <2>3 DEF RoundFits
    <3>3. \A r : Tries(row.tried, r) + Cardinality(OnIt(row.todo, r)) <= Cardinality(OnIt(row.listed, r))
      BY <2>3, <2>5
    <3>4. row.pass # 2 /\ row.at # "begin" /\ row.at # "done"
      BY <1>2, <2>3
    <3>. QED  BY <3>1, <3>2, <3>3, <3>4 DEF RoundFits
  <2>. QED  BY <1>2, <2>2, <2>3, <2>4, <2>6, CallStep, RestStands
<1>. QED  BY <1>3, <1>4, <1>5

LEMMA BeginOthersInv ==
  ASSUME RouteInv, NEW w \in Work, BeginOthers(w)
  PROVE  RouteInv'
<1>1. PICK x : x = work[w]
  OBVIOUS
<1>2. /\ x.does.kind = "cron" /\ x.at = "next" /\ CallFits(x) /\ RoundFits(x)
      /\ DOMAIN x = WorkFields /\ x.todo = {}
      /\ UNCHANGED <<instances, clients, bound, uses, seats, fresh, asked>>
  BY <1>1 DEF BeginOthers, Working, RouteInv
<1>3. PICK more : more = ListOthers(w)
  OBVIOUS
<1>4. PICK row : row = [x EXCEPT !.pass = 2, !.todo = more, !.listed = x.listed \cup more]
  OBVIOUS
<1>5. work' = [work EXCEPT ![w] = row] BY <1>3, <1>1, <1>4 DEF BeginOthers
<1>6. DOMAIN row = WorkFields /\ row.todo = more /\ row.at = "next" /\ row.listed = x.listed \cup more
      /\ row.does = x.does /\ row.stays = x.stays /\ row.pass = 2
      /\ row.tried = x.tried /\ row.probed = x.probed
  BY <1>2, <1>4 DEF WorkFields
<1>7. CallFits(row)
  BY <1>2, <1>6 DEF CallFits
<1>8. more = {p \in InService : p[2] \notin x.probed}
  BY <1>1, <1>3 DEF ListOthers, InService
<1>9. IsFiniteSet(more) /\ \A p \in more : p[2] \in DOMAIN uses
  BY InServiceFinite, <1>8, FS_Subset DEF RouteInv
<1>10. /\ IsList(x.tried) /\ \A k \in DOMAIN x.tried : x.tried[k] \in x.probed
       /\ IsFiniteSet(x.listed) /\ x.stays \subseteq InService
  BY <1>2 DEF RoundFits
<1>11. IsFiniteSet(x.listed \cup more)
  BY <1>9, <1>10, FS_Union
<1>12. ASSUME NEW r
       PROVE  Tries(x.tried, r) + Cardinality(OnIt(more, r)) <= Cardinality(OnIt(x.listed \cup more, r))
  <2>1. /\ Cardinality(OnIt(more, r)) \in Nat /\ Cardinality(OnIt(x.listed, r)) \in Nat
        /\ Cardinality(OnIt(x.listed \cup more, r)) \in Nat
        /\ Cardinality(OnIt(more, r)) <= Cardinality(OnIt(x.listed \cup more, r))
        /\ Cardinality(OnIt(x.listed, r)) <= Cardinality(OnIt(x.listed \cup more, r))
    BY <1>11, FewerOfThem
  <2>2. Tries(x.tried, r) \in Nat
    <3>1. PICK z : Extends(z, x.tried, 0)
      BY DEF Extends
    <3>. QED  BY <1>10, <3>1, TriesAppended
  <2>3. CASE r \in x.probed
    <3>1. OnIt(more, r) = {} /\ OnIt(x.todo, r) = {}
      BY <1>2, <1>8, <2>3 DEF OnIt
    <3>2. Tries(x.tried, r) + Cardinality(OnIt(x.todo, r)) <= Cardinality(OnIt(x.listed, r))
      BY <1>2 DEF RoundFits
    <3>. QED  BY <2>1, <2>2, <3>1, <3>2, FS_EmptySet
  <2>4. CASE r \notin x.probed
    <3>1. {k \in DOMAIN x.tried : x.tried[k] = r} = {}
      BY <1>10, <2>4
    <3>2. Tries(x.tried, r) = 0
      BY <3>1, FS_EmptySet DEF Tries
    <3>. QED  BY <2>1, <3>2
  <2>. QED  BY <2>3, <2>4
<1>13. RoundFits(row) BY <1>6, <1>10, <1>9, <1>11, <1>12, <1>8 DEF RoundFits
<1>. QED  BY <1>2, <1>5, <1>6, <1>7, <1>13, CallStep, RestStands

LEMMA NextOtherInv ==
  ASSUME RouteInv, NEW w \in Work, NextOther(w)
  PROVE  RouteInv'
<1>1. PICK x : x = work[w]
  OBVIOUS
<1>2. /\ x.at = "next" /\ x.pass = 2 /\ CallFits(x) /\ RoundFits(x) /\ DOMAIN x = WorkFields
      /\ Working(w, "cron", "next")
      /\ UNCHANGED <<instances, clients, bound, uses, seats, fresh, asked>>
  BY <1>1 DEF NextOther, Working, RouteInv
<1>3. ASSUME NEW p \in work[w].todo, Probes(w, p) PROVE RouteInv'
  BY <1>2, <1>3, ProbesInv
<1>4. CASE x.todo = {} /\ WorkAt(w, "done")
  <2>1. PICK row : /\ work' = [work EXCEPT ![w] = row] /\ DOMAIN row = WorkFields
                   /\ row.at = "done" /\ \A f \in WorkFields \ {"at"} : row[f] = work[w][f]
    BY <1>4, AtRow
  <2>2. row.does = x.does /\ row.todo = x.todo /\ row.listed = x.listed /\ row.stays = x.stays
        /\ row.pass = x.pass /\ row.tried = x.tried /\ row.probed = x.probed
    BY <1>1, <2>1 DEF WorkFields
  <2>3. CallFits(row)
    BY <1>2, <2>1, <2>2 DEF CallFits
  <2>4. RoundFits(row)
    BY <1>2, <1>4, <2>1, <2>2 DEF RoundFits
  <2>. QED  BY <1>2, <2>1, <2>3, <2>4, CallStep, RestStands
<1>. QED  BY <1>1, <1>3, <1>4 DEF NextOther

\* A step within one probe or recovery.
LEMMA ProbeStep ==
  ASSUME RouteInv, NEW w \in Work, NEW row, work' = [work EXCEPT ![w] = row],
         DOMAIN row = WorkFields, \A f \in RoundPart : row[f] = work[w][f],
         row.at \notin {"begin", "done"}, UNCHANGED <<instances, bound, uses, seats>>,
         ClientsTyped', AskedFits', CallFits(row)
  PROVE  RouteInv'
BY SameRound, CallStep DEF RouteInv

LEMMA ReadResourceInv ==
  ASSUME RouteInv, NEW w \in Work, ReadResource(w)
  PROVE  RouteInv'
<1>1. PICK x : x = work[w]
  OBVIOUS
<1>2. x.at = "resource" /\ CallFits(x) /\ DOMAIN x = WorkFields
      /\ UNCHANGED <<instances, clients, bound, uses, seats, fresh, asked>>
  BY <1>1 DEF ReadResource, Working, RouteInv
<1>3. PICK b : b = uses[x.target]
  OBVIOUS
<1>4. PICK at : at = IF b = 0 THEN "next" ELSE "binding"
  OBVIOUS
<1>5. PICK row : row = [x EXCEPT !.binding = b, !.at = at]
  OBVIOUS
<1>6. work' = [work EXCEPT ![w] = row] BY <1>1, <1>3, <1>4, <1>5 DEF ReadResource
<1>7. /\ DOMAIN row = WorkFields /\ row.binding = b /\ row.at = at /\ row.does = x.does
      /\ \A f \in RoundPart : row[f] = x[f]
  BY <1>2, <1>5 DEF WorkFields, RoundPart
<1>8. b = 0 \/ b \in DOMAIN bound
  BY <1>2, <1>3 DEF CallFits, RouteInv, SeatsTyped
<1>9. CallFits(row)
  BY <1>2, <1>4, <1>7, <1>8 DEF CallFits
<1>. QED  BY <1>1, <1>2, <1>4, <1>6, <1>7, <1>9, ProbeStep, RestStands

LEMMA BeginRecoveryInv ==
  ASSUME RouteInv, NEW w \in Work, BeginRecovery(w)
  PROVE  RouteInv'
<1>1. PICK x : x = work[w]
  OBVIOUS
<1>2. /\ x.at = "begin" /\ x.does.kind = "recover" /\ CallFits(x) /\ DOMAIN x = WorkFields
      /\ UNCHANGED <<instances, clients, bound, uses, seats, fresh, asked>>
  BY <1>1 DEF BeginRecovery, Working, RouteInv
<1>3. PICK row : row = [x EXCEPT !.binding = x.does.binding, !.at = "binding"]
  OBVIOUS
<1>4. work' = [work EXCEPT ![w] = row]
  BY <1>1, <1>3 DEF BeginRecovery
<1>5. /\ DOMAIN row = WorkFields /\ row.binding = x.does.binding /\ row.at = "binding"
      /\ row.does = x.does /\ \A f \in RoundPart : row[f] = x[f]
  BY <1>2, <1>3 DEF WorkFields, RoundPart
<1>6. CallFits(row)
  BY <1>2, <1>5 DEF CallFits, RouteDeedFits
<1>. QED  BY <1>1, <1>2, <1>4, <1>5, <1>6, ProbeStep, RestStands

LEMMA ResolveBindingAdapterInv ==
  ASSUME RouteInv, NEW w \in Work, ResolveBindingAdapter(w)
  PROVE  RouteInv'
<1>1. PICK x : x = work[w]
  OBVIOUS
<1>2. /\ x.at = "binding" /\ CallFits(x) /\ DOMAIN x = WorkFields
      /\ UNCHANGED <<instances, clients, bound, uses, seats, fresh, asked>>
  BY <1>1 DEF ResolveBindingAdapter, RouteInv
<1>3. PICK type : type = bound[x.binding].type
  OBVIOUS
<1>4. PICK at \in {"thrown", "runtime", "usage"} :
        work' = [work EXCEPT ![w].type = type, ![w].at = at]
  <2>1. work' = [work EXCEPT ![w].type = bound[work[w].binding].type,
                   ![w].at = CASE ~HasAdapter(bound[work[w].binding].type) -> "thrown"
                               [] work[w].does.kind = "recover" -> "runtime" [] OTHER -> "usage"]
    BY Zenon DEF ResolveBindingAdapter
  <2>2. PICK at : at = CASE ~HasAdapter(bound[work[w].binding].type) -> "thrown"
                         [] work[w].does.kind = "recover" -> "runtime" [] OTHER -> "usage"
    OBVIOUS
  <2>3. at \in {"thrown", "runtime", "usage"} BY <2>2
  <2>4. work' = [work EXCEPT ![w].type = bound[work[w].binding].type, ![w].at = at]
    BY <2>1, <2>2, Zenon
  <2>. QED  BY <1>1, <1>3, <2>3, <2>4
<1>5. PICK row : row = [x EXCEPT !.type = type, !.at = at]
  OBVIOUS
<1>6. work' = [work EXCEPT ![w] = row]
  BY <1>1, <1>4, <1>5
<1>7. /\ DOMAIN row = WorkFields /\ row.binding = x.binding /\ row.at = at /\ row.does = x.does
      /\ \A f \in RoundPart : row[f] = x[f]
  BY <1>2, <1>5 DEF WorkFields, RoundPart
<1>8. CallFits(row)
  BY <1>2, <1>4, <1>7 DEF CallFits
<1>. QED  BY <1>1, <1>2, <1>4, <1>6, <1>7, <1>8, ProbeStep, RestStands

\* A step that only moves the call on.
LEMMA OnStep ==
  ASSUME RouteInv, NEW w \in Work, NEW at, WorkAt(w, at), at \notin {"begin", "done"},
         UNCHANGED <<instances, bound, uses, seats>>, ClientsTyped', AskedFits',
         NEW now, work[w].at = now, now \in {"binding", "runtime", "usage"},
         at \in {"usage", "thrown"}
  PROVE  RouteInv'
<1>1. PICK x : x = work[w]
  OBVIOUS
<1>2. PICK row : /\ work' = [work EXCEPT ![w] = row] /\ DOMAIN row = WorkFields /\ row.at = at
                 /\ \A f \in WorkFields \ {"at"} : row[f] = work[w][f]
  BY AtRow
<1>3. row.does = x.does /\ row.binding = x.binding /\ \A f \in RoundPart : row[f] = x[f]
  BY <1>1, <1>2 DEF WorkFields, RoundPart
<1>4. CallFits(x) /\ x.at = now
  BY <1>1 DEF RouteInv
<1>5. CallFits(row)
  BY <1>2, <1>3, <1>4 DEF CallFits
<1>. QED  BY <1>1, <1>2, <1>3, <1>5, ProbeStep

LEMMA ResolveBindingRuntimeInv ==
  ASSUME RouteInv, NEW w \in Work, ResolveBindingRuntime(w)
  PROVE  RouteInv'
<1>1. UNCHANGED <<instances, clients, bound, uses, seats, fresh, asked>> /\ work[w].at = "runtime"
  BY DEF ResolveBindingRuntime
<1>2. PICK at \in {"usage", "thrown"} : WorkAt(w, at)
  BY DEF ResolveBindingRuntime
<1>. QED  BY <1>1, <1>2, OnStep, RestStands

LEMMA Endings ==
  ASSUME NEW w, NEW at \in MayAnswer(w) \cup {Ended(w)}
  PROVE  at \in {"next", "ingest", "done", "thrown"} /\ (at = "done" => work[w].does.kind # "cron")
BY DEF MayAnswer, Ended

LEMMA GetUsageInv ==
  ASSUME RouteInv, NEW w \in Work, GetUsage(w)
  PROVE  RouteInv'
<1>1. PICK x : x = work[w]
  OBVIOUS
<1>2. /\ x.at = "usage" /\ CallFits(x) /\ DOMAIN x = WorkFields
      /\ UNCHANGED <<instances, clients, bound, uses, seats, fresh, asked>>
  BY <1>1 DEF GetUsage, RouteInv
<1>3. PICK b : b = bound[x.binding]
  OBVIOUS
<1>4. \/ \E at \in MayAnswer(w) \cup {Ended(w)} : WorkAt(w, at)
      \/ /\ b.inst # 0
         /\ work' = [work EXCEPT ![w].since = Len(instances[b.inst]), ![w].at = "instance"]
  BY <1>1, <1>3 DEF GetUsage, BindingInput
<1>5. CASE \E at \in MayAnswer(w) \cup {Ended(w)} : WorkAt(w, at)
  BY <1>2, <1>5, Endings, EndStep, RestStands
<1>6. CASE /\ b.inst # 0
           /\ work' = [work EXCEPT ![w].since = Len(instances[b.inst]), ![w].at = "instance"]
  <2>1. PICK n : n = Len(instances[b.inst])
    OBVIOUS
  <2>2. PICK row : row = [x EXCEPT !.since = n, !.at = "instance"]
    OBVIOUS
  <2>3. work' = [work EXCEPT ![w] = row]
    BY <1>1, <1>6, <2>1, <2>2
  <2>4. /\ DOMAIN row = WorkFields /\ row.binding = x.binding /\ row.at = "instance" /\ row.since = n
        /\ row.does = x.does /\ \A f \in RoundPart : row[f] = x[f]
    BY <1>2, <2>2 DEF WorkFields, RoundPart
  <2>5. x.binding \in DOMAIN bound
    BY <1>2 DEF CallFits
  <2>6. n \in 1..Len(instances[b.inst])
    BY <1>3, <1>6, <2>5, <2>1, ListFacts DEF RouteInv, InstancesTyped, VersionsTyped
  <2>7. CallFits(row)
    BY <1>2, <1>3, <1>6, <2>4, <2>5, <2>6 DEF CallFits
  <2>. QED  BY <1>1, <1>2, <2>3, <2>4, <2>7, ProbeStep, RestStands
<1>. QED  BY <1>4, <1>5, <1>6

LEMMA ReadInstanceInv ==
  ASSUME RouteInv, NEW w \in Work, ReadInstance(w)
  PROVE  RouteInv'
<1>1. PICK x : x = work[w]
  OBVIOUS
<1>2. /\ x.at = "instance" /\ CallFits(x) /\ DOMAIN x = WorkFields
      /\ UNCHANGED <<instances, clients, bound, uses, seats, fresh, asked>>
  BY <1>1 DEF ReadInstance, RouteInv
<1>3. PICK i : i = bound[x.binding].inst
  OBVIOUS
<1>4. PICK q : q = instances[i]
  OBVIOUS
<1>5. \/ WorkAt(w, Ended(w))
      \/ /\ q[Len(q)].status = "active"
         /\ work' = [work EXCEPT ![w].row = [key |-> q[Len(q)].key, stamp |-> Len(q)],
                                 ![w].at = "secret"]
  BY <1>1, <1>3, <1>4 DEF ReadInstance, BindingInput, InForce
<1>6. CASE WorkAt(w, Ended(w))
  BY <1>2, <1>6, Endings, EndStep, RestStands
<1>7. CASE /\ q[Len(q)].status = "active"
           /\ work' = [work EXCEPT ![w].row = [key |-> q[Len(q)].key, stamp |-> Len(q)],
                                   ![w].at = "secret"]
  <2>1. PICK read : read = [key |-> q[Len(q)].key, stamp |-> Len(q)]
    OBVIOUS
  <2>2. PICK row : row = [x EXCEPT !.row = read, !.at = "secret"]
    OBVIOUS
  <2>3. work' = [work EXCEPT ![w] = row]
    BY <1>1, <1>7, <2>1, <2>2
  <2>4. /\ DOMAIN row = WorkFields /\ row.binding = x.binding /\ row.at = "secret"
        /\ row.since = x.since /\ row.row = read
        /\ row.does = x.does /\ \A f \in RoundPart : row[f] = x[f]
    BY <1>2, <2>2 DEF WorkFields, RoundPart
  <2>5. x.binding \in DOMAIN bound /\ i # 0 /\ x.since \in 1..Len(q)
    BY <1>2, <1>3, <1>4 DEF CallFits
  <2>6. Versioned(x.binding, read.key, x.since) BY <2>1, <2>5, <1>3, <1>4, <1>7 DEF Versioned
  <2>7. CallFits(row)
    BY <1>2, <1>3, <1>4, <2>4, <2>5, <2>6 DEF CallFits
  <2>. QED  BY <1>1, <1>2, <2>3, <2>4, <2>7, ProbeStep, RestStands
<1>. QED  BY <1>5, <1>6, <1>7

LEMMA ResolveClientInv ==
  ASSUME RouteInv, NEW w \in Work, ResolveClient(w)
  PROVE  RouteInv'
<1>1. PICK x : x = work[w]
  OBVIOUS
<1>2. /\ x.at = "secret" /\ CallFits(x) /\ DOMAIN x = WorkFields
      /\ UNCHANGED <<instances, bound, uses, seats, fresh, asked>>
  BY <1>1 DEF ResolveClient, RouteInv
<1>3. PICK i : i = bound[x.binding].inst
  OBVIOUS
<1>4. PICK hit : hit = {c \in clients : c.inst = i /\ c.print = Fingerprint(x.row)}
  OBVIOUS
<1>5. PICK new : new = [inst |-> i, print |-> Fingerprint(x.row), key |-> x.row.key]
  OBVIOUS
<1>6. AskedFits'
  BY <1>2 DEF RouteInv, AskedFits, Versioned
<1>7. IF ~Resolves(x.row) THEN WorkAt(w, Ended(w)) /\ UNCHANGED clients
      ELSE \E c \in IF hit # {} THEN hit ELSE {new} :
             /\ work' = [work EXCEPT ![w].client = c.key, ![w].at = "ask"]
             /\ clients' = IF hit # {} THEN clients ELSE {d \in clients : d.inst # i} \cup {c}
  BY <1>1, <1>3, <1>4, <1>5 DEF ResolveClient, BindingInput
<1>8. CASE ~Resolves(x.row)
  BY <1>7, <1>8, <1>2, <1>6, Endings, EndStep DEF RouteInv, ClientsTyped
<1>9. CASE Resolves(x.row)
  <2>1. PICK c \in IF hit # {} THEN hit ELSE {new} :
             /\ work' = [work EXCEPT ![w].client = c.key, ![w].at = "ask"]
             /\ clients' = IF hit # {} THEN clients ELSE {d \in clients : d.inst # i} \cup {c}
    BY <1>7, <1>9
  <2>2. c.key = x.row.key /\ c.key = c.print[1]
    BY <1>4, <1>5, <2>1 DEF RouteInv, ClientsTyped, Fingerprint
  <2>3. ClientsTyped'
    BY <2>1, <2>2 DEF RouteInv, ClientsTyped
  <2>4. PICK row : row = [x EXCEPT !.client = c.key, !.at = "ask"]
    OBVIOUS
  <2>5. work' = [work EXCEPT ![w] = row]
    BY <1>1, <2>1, <2>4
  <2>6. /\ DOMAIN row = WorkFields /\ row.binding = x.binding /\ row.at = "ask"
        /\ row.since = x.since /\ row.client = x.row.key
        /\ row.does = x.does /\ \A f \in RoundPart : row[f] = x[f]
    BY <1>2, <2>2, <2>4 DEF WorkFields, RoundPart
  <2>7. CallFits(row)
    BY <1>2, <2>6 DEF CallFits
  <2>. QED  BY <1>1, <1>2, <1>6, <2>3, <2>5, <2>6, <2>7, ProbeStep
<1>. QED  BY <1>8, <1>9

LEMMA AskRouterInv ==
  ASSUME RouteInv, NEW w \in Work, AskRouter(w)
  PROVE  RouteInv'
<1>1. PICK x : x = work[w]
  OBVIOUS
<1>2. /\ x.at = "ask" /\ CallFits(x)
      /\ UNCHANGED <<instances, clients, bound, uses, seats, fresh>>
      /\ asked' = asked \cup {[binding |-> x.binding, key |-> x.client, since |-> x.since]}
      /\ \E at \in MayAnswer(w) : WorkAt(w, at)
  BY <1>1 DEF AskRouter, RouteInv
<1>3. PICK a : a = [binding |-> x.binding, key |-> x.client, since |-> x.since]
  OBVIOUS
<1>4. /\ a.binding \in DOMAIN bound /\ bound[a.binding].inst # 0
      /\ a.since \in 1..Len(instances[bound[a.binding].inst])
      /\ Versioned(a.binding, a.key, a.since)
  BY <1>2, <1>3 DEF CallFits
<1>5. asked' = asked \cup {a}
  BY <1>2, <1>3
<1>6. AskedFits'
  BY <1>2, <1>4, <1>5 DEF RouteInv, AskedFits, Versioned
<1>7. ClientsTyped'
  BY <1>2 DEF RouteInv, ClientsTyped
<1>. QED  BY <1>2, <1>6, <1>7, Endings, EndStep

LEMMA ProbeAndIngestInv ==
  ASSUME RouteInv, NEW w \in Work, ProbeAndIngest(w)
  PROVE  RouteInv'
BY EndStep, RestStands DEF ProbeAndIngest

\* Versions are added and instances too: what was in force stays on record.
InstancesGrow ==
  \A i \in DOMAIN instances :
    /\ i \in DOMAIN instances' /\ Len(instances'[i]) \in Nat
    /\ Len(instances[i]) <= Len(instances'[i])
    /\ \A n \in 1..Len(instances[i]) : instances'[i][n] = instances[i][n]

LEMMA GrowStep ==
  ASSUME RouteInv, NEW w \in Work, WorkAt(w, "done"), work[w].does.kind # "cron",
         UNCHANGED <<clients, bound, uses, seats, fresh, asked>>, InstancesGrow,
         IsList(instances'), \A i \in DOMAIN instances' : VersionsTyped(instances'[i])
  PROVE  RouteInv'
<1>1. PICK x : x = work[w]
  OBVIOUS
<1>2. PICK row : /\ work' = [work EXCEPT ![w] = row] /\ DOMAIN row = WorkFields /\ row.at = "done"
                 /\ \A f \in WorkFields \ {"at"} : row[f] = work[w][f]
  BY AtRow
<1>3. row.does = x.does /\ \A f \in RoundPart : row[f] = x[f]
  BY <1>1, <1>2 DEF WorkFields, RoundPart
<1>4. CallFits(x) /\ RoundFits(x)
  BY <1>1 DEF RouteInv
<1>5. CallFits(row)
  BY <1>2, <1>3, <1>4 DEF CallFits
<1>6. RoundFits(row)
  BY <1>1, <1>2, <1>3, <1>4, SameRound
<1>7. \A i \in DOMAIN instances : Len(instances[i]) \in Nat /\ Len(instances[i]) > 0
      /\ DOMAIN instances[i] = 1..Len(instances[i])
  BY ListFacts DEF RouteInv, InstancesTyped, VersionsTyped
<1>8. InstancesTyped'
  <2>1. \A i \in DOMAIN instances : i \in DOMAIN instances' /\ instances'[i][1] = instances[i][1]
    BY <1>7 DEF InstancesGrow
  <2>. QED  BY <2>1 DEF RouteInv, InstancesTyped, VersionsTyped, IsList
<1>9. SeatsTyped' /\ ClientsTyped'
  BY DEF RouteInv, SeatsTyped, ClientsTyped
<1>10. ASSUME NEW b \in DOMAIN bound, bound[b].inst # 0, NEW key,
              NEW since \in 1..Len(instances[bound[b].inst])
       PROVE  /\ since \in 1..Len(instances'[bound[b].inst])
              /\ Versioned(b, key, since) => Versioned(b, key, since)'
  <2>1. PICK i : i = bound[b].inst
    OBVIOUS
  <2>2. i \in DOMAIN instances /\ bound' = bound
    BY <1>10, <2>1 DEF RouteInv, InstancesTyped
  <2>3. /\ since \in 1..Len(instances[i]) /\ Len(instances[i]) \in Nat
        /\ Len(instances'[i]) \in Nat /\ Len(instances[i]) <= Len(instances'[i])
        /\ \A n \in 1..Len(instances[i]) : instances'[i][n] = instances[i][n]
    BY <1>7, <1>10, <2>1, <2>2 DEF InstancesGrow
  <2>4. since \in 1..Len(instances'[i])
    BY <2>3
  <2>5. ASSUME Versioned(b, key, since) PROVE Versioned(b, key, since)'
    <3>1. PICK n \in since..Len(instances[i]) : instances[i][n].key = key /\ instances[i][n].status = "active"
      BY <2>1, <2>5 DEF Versioned
    <3>2. n \in since..Len(instances'[i]) /\ instances'[i][n] = instances[i][n]
      BY <2>3, <3>1
    <3>. QED  BY <2>1, <2>2, <3>1, <3>2 DEF Versioned
  <2>. QED  BY <2>1, <2>4, <2>5
<1>11. AskedFits'
  BY <1>10 DEF RouteInv, AskedFits
<1>12. ASSUME NEW y, CallFits(y) PROVE CallFits(y)' BY <1>12, <1>10 DEF CallFits, RouteDeedFits
<1>13. /\ work' = [v \in Work |-> work'[v]] /\ work'[w] = row
       /\ \A v \in Work : v # w => work'[v] = work[v]
  BY <1>2 DEF RouteInv
<1>14. ASSUME NEW v \in Work
       PROVE  DOMAIN work'[v] = WorkFields /\ CallFits(work[v])' /\ RoundFits(work[v])'
  <2>1. PICK y : y = work'[v]
    OBVIOUS
  <2>2. DOMAIN y = WorkFields /\ CallFits(y) /\ RoundFits(y)
    BY <1>2, <1>5, <1>6, <1>13, <2>1 DEF RouteInv
  <2>3. CallFits(y)' /\ RoundFits(y)'
    BY <1>12, <2>2, RoundStays
  <2>. QED  BY <2>1, <2>2, <2>3
<1>. QED  BY <1>8, <1>9, <1>11, <1>13, <1>14 DEF RouteInv

LEMMA CreateProviderInstanceInv ==
  ASSUME RouteInv, NEW w \in Work, CreateProviderInstance(w)
  PROVE  RouteInv'
<1>1. PICK x : x = work[w]
  OBVIOUS
<1>2. PICK q : q = instances
  OBVIOUS
<1>3. PICK v : v = <<[x.does.row EXCEPT !.status = "active"]>>
  OBVIOUS
<1>4. /\ x.does.kind = "add" /\ x.at = "begin" /\ CallFits(x) /\ instances' = Append(q, v)
      /\ WorkAt(w, "done") /\ UNCHANGED <<clients, bound, uses, seats, fresh, asked>>
  BY <1>1, <1>2, <1>3 DEF CreateProviderInstance, Working, RouteInv
<1>5. PICK first : first = [x.does.row EXCEPT !.status = "active"]
  OBVIOUS
<1>6. DOMAIN first = InstFields
  BY <1>4, <1>5 DEF CallFits, RouteDeedFits
<1>7. v \in Seq({first}) /\ Len(v) = 1 /\ v[1] = first /\ DOMAIN v = 1..1
  BY <1>3, <1>5
<1>8. VersionsTyped(v) BY <1>7, ListOf, <1>6 DEF VersionsTyped
<1>9. IsList(q) /\ \A i \in DOMAIN q : VersionsTyped(q[i]) /\ Len(q[i]) \in Nat
  BY <1>2, ListFacts DEF RouteInv, InstancesTyped, VersionsTyped
<1>10. PICK X : q \in Seq(X) /\ v \in X
  BY <1>9, ListWith
<1>11. PICK z : z = Append(q, v)
  OBVIOUS
<1>12. /\ z \in Seq(X) /\ \A i \in DOMAIN q : i \in DOMAIN z /\ z[i] = q[i]
       /\ z[Len(q) + 1] = v /\ \A i \in DOMAIN z : i \in DOMAIN q \/ i = Len(q) + 1
  BY <1>10, <1>11, AppendedTo
<1>13. IsList(z) /\ \A i \in DOMAIN z : VersionsTyped(z[i])
  BY <1>8, <1>9, <1>12, ListOf
<1>14. instances' = z
  BY <1>4, <1>11
<1>15. InstancesGrow
  BY <1>2, <1>9, <1>12, <1>14 DEF InstancesGrow
<1>. QED  BY <1>1, <1>4, <1>13, <1>14, <1>15, GrowStep

LEMMA EditInstanceInv ==
  ASSUME RouteInv, NEW w \in Work, EditInstance(w)
  PROVE  RouteInv'
<1>1. PICK does : does = work[w].does
  OBVIOUS
<1>2. PICK i : i = does.inst
  OBVIOUS
<1>3. /\ does.kind = "edit" /\ work[w].at = "begin"
      /\ WorkAt(w, "done") /\ UNCHANGED <<clients, bound, uses, seats, fresh, asked>>
  BY <1>1 DEF EditInstance, Working
<1>4. \A k \in DOMAIN instances : VersionsTyped(instances[k]) /\ Len(instances[k]) \in Nat
        /\ Len(instances[k]) > 0
  BY ListFacts DEF RouteInv, InstancesTyped, VersionsTyped
<1>5. CASE instances' = instances
  BY <1>4, <1>5, <1>1, <1>3, GrowStep DEF InstancesGrow, RouteInv, InstancesTyped
<1>6. CASE i \in DOMAIN instances /\ instances' # instances
  <2>1. PICK q : q = instances[i]
    OBVIOUS
  <2>2. PICK old : old = q[Len(q)]
    OBVIOUS
  <2>3. PICK new : new = [old EXCEPT !.key = does.key, !.status = does.status]
    OBVIOUS
  <2>4. PICK z : z = Append(q, new)
    OBVIOUS
  <2>5. instances' = [instances EXCEPT ![i] = z]
    <3>1. instances' = [instances EXCEPT ![i] =
                 Append(@, [InForce(i) EXCEPT !.key = does.key, !.status = does.status])]
      BY <1>1, <1>2, <1>6 DEF EditInstance
    <3>. QED  BY <2>1, <2>2, <2>3, <2>4, <3>1 DEF InForce
  <2>6. VersionsTyped(q) /\ IsList(q) /\ Len(q) \in Nat /\ Len(q) > 0 /\ DOMAIN q = 1..Len(q)
    BY <1>4, <1>6, <2>1, ListFacts DEF VersionsTyped
  <2>7. DOMAIN old = InstFields /\ old.tenant = q[1].tenant
    BY <2>2, <2>6 DEF VersionsTyped
  <2>8. DOMAIN new = InstFields /\ new.tenant = q[1].tenant
    BY <2>3, <2>7 DEF InstFields
  <2>9. PICK X : q \in Seq(X) /\ new \in X
    BY <2>6, ListWith
  <2>10. /\ z \in Seq(X) /\ Len(z) = Len(q) + 1 /\ \A n \in DOMAIN q : n \in DOMAIN z /\ z[n] = q[n]
         /\ z[Len(q) + 1] = new /\ \A n \in DOMAIN z : n \in DOMAIN q \/ n = Len(q) + 1
    BY <2>4, <2>9, AppendedTo
  <2>11. IsList(z)
    BY <2>10, ListOf
  <2>12. VersionsTyped(z) BY <2>6, <2>10, <2>8, <2>11 DEF VersionsTyped
  <2>13. /\ DOMAIN instances' = DOMAIN instances /\ instances'[i] = z
         /\ \A k \in DOMAIN instances : k # i => instances'[k] = instances[k]
         /\ instances' = [k \in DOMAIN instances' |-> instances'[k]]
    BY <1>6, <2>5
  <2>14. IsList(instances')
    <3>1. PICK f : f = instances'
      OBVIOUS
    <3>2. DOMAIN f = DOMAIN instances /\ f = [k \in DOMAIN f |-> f[k]]
      BY <2>13, <3>1
    <3>3. IsList(f)
      BY <3>2, ListAlike DEF RouteInv, InstancesTyped
    <3>. QED  BY <3>1, <3>3
  <2>15. \A k \in DOMAIN instances' : VersionsTyped(instances'[k])
    BY <1>4, <2>12, <2>13
  <2>16. InstancesGrow BY <2>6, <2>10, <1>4, <2>1, <2>13 DEF InstancesGrow
  <2>. QED  BY <1>1, <1>3, <2>14, <2>15, <2>16, GrowStep
<1>. QED  BY <1>1, <1>2, <1>5, <1>6 DEF EditInstance

LEMMA SessionMovesInv ==
  ASSUME RouteInv, NEW w \in Work, SessionMoves(w)
  PROVE  RouteInv'
<1>1. PICK does : does = work[w].does
  OBVIOUS
<1>2. PICK seat : seat = [state |-> does.state, on |-> does.on]
  OBVIOUS
<1>3. /\ does.kind = "move" /\ work[w].at = "begin"
      /\ seats' = [seats EXCEPT ![does.session] = seat]
      /\ work' = [v \in Work |->
           IF v = w THEN [work[v] EXCEPT !.at = "done"]
           ELSE [work[v] EXCEPT !.stays = {x \in @ : x[1] # does.session}]]
      /\ UNCHANGED <<instances, clients, bound, uses, fresh, asked>>
  BY <1>1, <1>2, Zenon DEF SessionMoves, Working
<1>4. RouteDeedFits(does) /\ seat.on \in DOMAIN uses \cup {0}
  BY <1>1, <1>2, <1>3 DEF RouteInv, CallFits, RouteDeedFits
<1>5. InstancesTyped' BY <1>3 DEF RouteInv, InstancesTyped
<1>6. SeatsTyped' BY <1>3, <1>4 DEF RouteInv, SeatsTyped
<1>7. ClientsTyped' /\ AskedFits'
  BY <1>3, RestStands
<1>8. work' = [v \in Work |-> work'[v]]
  BY <1>3
<1>9. ASSUME NEW p \in InService, p[1] # does.session
       PROVE  p \in InService'
  <2>1. PICK s \in DOMAIN seats : p = <<s, seats[s].on>> /\ seats[s].state \in {"ACTIVE", "DEGRADED"}
                                  /\ seats[s].on # 0
    BY DEF InService, InUse
  <2>2. s \in DOMAIN seats' /\ seats'[s] = seats[s]
    BY <1>3, <1>9, <2>1
  <2>3. p = <<s, seats'[s].on>> /\ seats'[s].state \in {"ACTIVE", "DEGRADED"} /\ seats'[s].on # 0
    BY <2>1, <2>2
  <2>. QED  BY <2>2, <2>3 DEF InService, InUse
<1>10. ASSUME NEW v \in Work
       PROVE  DOMAIN work'[v] = WorkFields /\ CallFits(work[v])' /\ RoundFits(work[v])'
  <2>1. PICK x : x = work[v]
    OBVIOUS
  <2>2. PICK row : row = work'[v]
    OBVIOUS
  <2>3. DOMAIN x = WorkFields /\ CallFits(x) /\ RoundFits(x)
    BY <2>1 DEF RouteInv
  <2>4. CASE v = w
    BY <1>3, <2>1, <2>2, <2>4, <2>3, <1>1 DEF WorkFields, CallFits, RouteDeedFits, RoundFits
  <2>5. CASE v # w
    <3>1. row = [x EXCEPT !.stays = {p \in @ : p[1] # does.session}]
      BY <1>3, <2>1, <2>2, <2>5
    <3>2. /\ DOMAIN row = WorkFields /\ row.stays = {p \in x.stays : p[1] # does.session}
          /\ \A f \in WorkFields \ {"stays"} : row[f] = x[f]
      BY <2>3, <3>1 DEF WorkFields
    <3>3. /\ row.does = x.does /\ row.at = x.at /\ row.todo = x.todo /\ row.probed = x.probed
          /\ row.tried = x.tried /\ row.listed = x.listed /\ row.pass = x.pass
          /\ row.target = x.target /\ row.binding = x.binding /\ row.since = x.since
          /\ row.row = x.row /\ row.client = x.client
      BY <3>2 DEF WorkFields
    <3>4. CallFits(row)
      BY <2>3, <3>3 DEF CallFits
    <3>5. CallFits(row)'
      BY <1>3, <3>4, CallStays
    <3>6. RoundFits(row)' BY <1>3, <2>3, <3>3, <1>9, <3>2 DEF RoundFits
    <3>. QED  BY <2>2, <3>2, <3>5, <3>6
  <2>. QED  BY <2>4, <2>5
<1>. QED  BY <1>5, <1>6, <1>7, <1>8, <1>10 DEF RouteInv

LEMMA RouteStepInv ==
  ASSUME RouteInv, RouteNext \/ UNCHANGED routeVars
  PROVE  RouteInv'
<1>1. CASE RouteNext
  <2>1. PICK w \in Work : WorkStep(w)
    BY <1>1 DEF RouteNext
  <2>2. CASE ListStale(w) \/ CheckStale(w) \/ BeginOthers(w) \/ NextOther(w)
    BY <2>2, ListStaleInv, CheckStaleInv, BeginOthersInv, NextOtherInv
  <2>3. CASE \/ ReadResource(w) \/ BeginRecovery(w) \/ ResolveBindingAdapter(w)
             \/ ResolveBindingRuntime(w)
    BY <2>3, ReadResourceInv, BeginRecoveryInv, ResolveBindingAdapterInv, ResolveBindingRuntimeInv
  <2>4. CASE \/ GetUsage(w) \/ ReadInstance(w) \/ ResolveClient(w) \/ AskRouter(w)
             \/ ProbeAndIngest(w)
    BY <2>4, GetUsageInv, ReadInstanceInv, ResolveClientInv, AskRouterInv, ProbeAndIngestInv
  <2>5. CASE CreateProviderInstance(w) \/ EditInstance(w) \/ SessionMoves(w)
    BY <2>5, CreateProviderInstanceInv, EditInstanceInv, SessionMovesInv
  <2>. QED  BY <2>1, <2>2, <2>3, <2>4, <2>5 DEF WorkStep
<1>2. CASE UNCHANGED routeVars
  <2>1. UNCHANGED <<instances, clients, bound, uses, seats, fresh, work, asked>>
    BY <1>2 DEF routeVars
  <2>2. InstancesTyped'
    BY <2>1 DEF RouteInv, InstancesTyped
  <2>3. SeatsTyped'
    BY <2>1 DEF RouteInv, SeatsTyped
  <2>4. ClientsTyped' /\ AskedFits'
    BY <2>1, RestStands
  <2>5. ASSUME NEW w \in Work
        PROVE  DOMAIN work'[w] = WorkFields /\ CallFits(work[w])' /\ RoundFits(work[w])'
    <3>1. PICK x : x = work[w]
      OBVIOUS
    <3>2. DOMAIN x = WorkFields /\ CallFits(x) /\ RoundFits(x)
      BY <3>1 DEF RouteInv
    <3>3. CallFits(x)' /\ RoundFits(x)'
      BY <2>1, <3>2, CallStays, RoundStays
    <3>. QED  BY <2>1, <3>1, <3>2, <3>3
  <2>. QED  BY <2>1, <2>2, <2>3, <2>4, <2>5 DEF RouteInv
<1>. QED  BY <1>1, <1>2

LEMMA RouteInvSays ==
  ASSUME RouteInv
  PROVE  RoutersAreAsked
<1>1. ClientIsCurrent
  <2>1. SUFFICES ASSUME NEW a \in asked, NEW i, i = bound[a.binding].inst
                 PROVE  /\ \E n \in a.since..Len(instances[i]) :
                             instances[i][n].key = a.key /\ instances[i][n].status = "active"
                        /\ InForce(i).tenant = bound[a.binding].tenant
    BY DEF ClientIsCurrent
  <2>2. a.binding \in DOMAIN bound /\ i # 0 /\ Versioned(a.binding, a.key, a.since)
    BY <2>1 DEF RouteInv, AskedFits
  <2>3. i \in DOMAIN instances /\ instances[i][1].tenant = bound[a.binding].tenant
    BY <2>1, <2>2 DEF RouteInv, InstancesTyped
  <2>4. VersionsTyped(instances[i])
    BY <2>3 DEF RouteInv, InstancesTyped
  <2>5. Len(instances[i]) \in DOMAIN instances[i]
    BY <2>4, ListFacts DEF VersionsTyped
  <2>6. InForce(i).tenant = bound[a.binding].tenant
    BY <2>3, <2>4, <2>5 DEF VersionsTyped, InForce
  <2>. QED  BY <2>1, <2>2, <2>6 DEF Versioned
<1>2. RoundIsComplete
  <2>1. SUFFICES ASSUME NEW w \in Work, Working(w, "cron", "done")
                 PROVE  /\ \A x \in work[w].stays : x[2] \in work[w].probed
                        /\ \A r \in work[w].probed :
                             Cardinality({k \in DOMAIN work[w].tried : work[w].tried[k] = r})
                               <= Cardinality({x \in work[w].listed : x[2] = r})
    BY DEF RoundIsComplete
  <2>2. PICK x : x = work[w]
    OBVIOUS
  <2>3. RoundFits(x) /\ x.does.kind = "cron" /\ x.at = "done"
    BY <2>1, <2>2 DEF RouteInv, Working
  <2>4. x.pass = 2 /\ x.todo = {}
    BY <2>3 DEF RoundFits
  <2>5. \A p \in x.stays : p[2] \in x.probed
    BY <2>3, <2>4 DEF RoundFits
  <2>6. ASSUME NEW r PROVE Tries(x.tried, r) <= Cardinality(OnIt(x.listed, r))
    <3>1. Tries(x.tried, r) + Cardinality(OnIt(x.todo, r)) <= Cardinality(OnIt(x.listed, r))
          /\ IsList(x.tried)
      BY <2>3 DEF RoundFits
    <3>2. OnIt(x.todo, r) = {}
      BY <2>4 DEF OnIt
    <3>3. Cardinality(OnIt(x.todo, r)) = 0
      BY <3>2, FS_EmptySet
    <3>4. Tries(x.tried, r) \in Nat
      <4>1. PICK z : Extends(z, x.tried, 0)
        BY DEF Extends
      <4>. QED  BY <3>1, <4>1, TriesAppended
    <3>. QED  BY <3>1, <3>3, <3>4
  <2>. QED  BY <2>2, <2>5, <2>6 DEF Tries, OnIt
<1>. QED  BY <1>1, <1>2 DEF RoutersAreAsked

\* ProviderAccess: a router is asked with credentials that some version of the binding's own
\* instance named, no older than the one in force when the call began to resolve it; and a
\* round probes the resource of every session that stayed on it, and none more often than it
\* found sessions on it.
THEOREM RoutesAreRight == RouteInit /\ [][RouteNext]_routeVars => []RoutersAreAsked
<1>1. RouteInit => RouteInv
  BY RouteInitInv DEF RouteInit
<1>2. RouteInv /\ [RouteNext]_routeVars => RouteInv'
  BY RouteStepInv
<1>3. RouteInv => RoutersAreAsked
  BY RouteInvSays
<1>. QED  BY <1>1, <1>2, <1>3, PTL

-----------------------------------------------------------------------------
(* EdgeAttribution: whose an observation is, and of what.                  *)

EdgeTyped ==
  /\ IsList(noted) /\ IsList(seated) /\ NoEdge \notin DOMAIN seated
  /\ \A s \in DOMAIN seated : IsList(seated[s].on) /\ Len(seated[s].on) > 0
  /\ calls = [c \in EdgeCall |-> calls[c]]

\* The session was on a resource since.
Was(s, since, r) == /\ s \in DOMAIN seated /\ since \in DOMAIN seated[s].on
                    /\ \E k \in since..Len(seated[s].on) : seated[s].on[k] = r
OfUser(s, user) == s # NoEdge => s \in DOMAIN seated /\ seated[s].subject = user
OwnedBy(device, user) == device \in DOMAIN owners /\ owners[device] = user /\ user # NoEdge

RecordFits(row) ==
  /\ OwnedBy(row.device, row.user) /\ OfUser(row.session, row.user)
  /\ row.on # NoEdge => row.session # NoEdge /\ Was(row.session, row.since, row.on)
  /\ row.trust = "LIMITED" => row.on = row.hint

DoesFits(does) ==
  /\ does.kind = "switch" => does.session \in DOMAIN seated
  /\ does.kind \in {"register", "upload"} => does.user # NoEdge /\ does.device \in DOMAIN owners
  /\ does.kind = "upload" => IsList(does.batch) /\ Len(does.batch) > 0

\* How far an upload has come: its device is its user's, and what it knows of the
\* observation in hand is what it will record of it.
Checked == {"check", "session", "hint", "create", "project"}
UploadFits(b) ==
  LET o == b.does.batch[b.item] IN
  /\ b.at = "begin" => b.item = 1
  /\ b.at \in Checked =>
       /\ OwnedBy(b.does.device, b.does.user) /\ b.item \in DOMAIN b.does.batch
       /\ \A i \in DOMAIN b.does.batch : b.does.batch[i].device = b.does.device
  /\ b.at \in {"session", "hint", "create", "project"} =>
       /\ b.since \in Nat
       /\ o.session \in DOMAIN seated => b.since \in DOMAIN seated[o.session].on
  /\ b.at \in {"hint", "create", "project"} =>
       b.session \in {NoEdge, o.session} /\ OfUser(b.session, b.does.user)
  /\ b.at \in {"create", "project"} /\ b.on # NoEdge =>
       /\ b.session # NoEdge /\ Was(b.session, b.since, b.on)
       /\ ~b.mismatch => b.on = o.hint
  /\ b.at = "project" => /\ b.on # NoEdge /\ b.row \in DOMAIN noted
                         /\ noted[b.row].on = b.on /\ noted[b.row].hint = o.hint
EdgeCallFits(b) ==
  /\ b = [does |-> b.does, at |-> b.at, item |-> b.item, since |-> b.since, session |-> b.session,
          on |-> b.on, mismatch |-> b.mismatch, row |-> b.row, refused |-> b.refused]
  /\ DoesFits(b.does)
  /\ b.does.kind = "upload" => UploadFits(b)

SameSubject(x, y) == x.device = y.device /\ x.sequence = y.sequence
EdgeInv ==
  /\ EdgeTyped
  /\ \A n \in DOMAIN noted : RecordFits(noted[n])
  /\ \A n, k \in DOMAIN noted : SameSubject(noted[n], noted[k]) => n = k
  /\ \A c \in EdgeCall : EdgeCallFits(calls[c])

LEMMA EdgeInitInv ==
  ASSUME NEW plan \in EdgePlans, EdgeInitOf(plan)
  PROVE  EdgeInv
<1>1. owners = plan.owners /\ seated = plan.seated /\ noted = << >>
  BY DEF EdgeInitOf
<1>2. IsList(noted) /\ DOMAIN noted = {}
  BY <1>1 DEF IsList
<1>3. IsList(seated) /\ NoEdge \notin DOMAIN seated
  BY <1>1, EdgeAssumption DEF IsList
<1>4. ASSUME NEW s \in DOMAIN seated PROVE IsList(seated[s].on) /\ Len(seated[s].on) > 0
  <2>1. s \in DOMAIN plan.seated
    BY <1>1
  <2>2. IsList(plan.seated[s].on) /\ Len(plan.seated[s].on) > 0
    BY <2>1, EdgeAssumption, Zenon DEF IsList
  <2>. QED  BY <1>1, <2>2
<1>5. calls = [c \in EdgeCall |-> calls[c]]
  BY DEF EdgeInitOf
<1>6. ASSUME NEW c \in EdgeCall PROVE EdgeCallFits(calls[c])
  <2>1. PICK does : does = plan.does[c]
    OBVIOUS
  <2>2. calls[c] = [does |-> does, at |-> "begin", item |-> 1, since |-> 0, session |-> NoEdge,
                    on |-> NoEdge, mismatch |-> FALSE, row |-> 0, refused |-> {}]
    BY <2>1 DEF EdgeInitOf
  <2>3. /\ plan.does[c].kind = "switch" => plan.does[c].session \in DOMAIN plan.seated
        /\ plan.does[c].kind \in {"register", "upload"} =>
             plan.does[c].user # NoEdge /\ plan.does[c].device \in DOMAIN plan.owners
    BY EdgeAssumption, Zenon
  <2>4. plan.does[c].kind = "upload" => IsList(plan.does[c].batch) /\ Len(plan.does[c].batch) > 0
    BY EdgeAssumption, Zenon DEF IsList
  <2>5. DoesFits(does)
    BY <1>1, <2>1, <2>3, <2>4 DEF DoesFits
  <2>. QED  BY <2>2, <2>5 DEF EdgeCallFits, UploadFits, Checked
<1>. QED  BY <1>2, <1>3, <1>4, <1>5, <1>6 DEF EdgeInv, EdgeTyped

\* Devices keep their users, sessions their subjects and where they have been.
EdgeOnward ==
  /\ DOMAIN owners' = DOMAIN owners
  /\ \A d \in DOMAIN owners : owners[d] # NoEdge => owners'[d] = owners[d]
  /\ DOMAIN seated' = DOMAIN seated
  /\ \A s \in DOMAIN seated :
       /\ seated'[s].subject = seated[s].subject
       /\ Len(seated[s].on) <= Len(seated'[s].on) /\ Len(seated'[s].on) \in Nat
       /\ DOMAIN seated[s].on = 1..Len(seated[s].on) /\ DOMAIN seated'[s].on = 1..Len(seated'[s].on)
       /\ \A k \in DOMAIN seated[s].on : seated'[s].on[k] = seated[s].on[k]

LEMMA EdgeFactsStay ==
  ASSUME EdgeOnward, EdgeInv
  PROVE  /\ \A d, u : OwnedBy(d, u) => OwnedBy(d, u)'
         /\ \A s, u : OfUser(s, u) => OfUser(s, u)'
         /\ \A s, since, r : Was(s, since, r) => Was(s, since, r)'
<1>1. \A d, u : OwnedBy(d, u) => OwnedBy(d, u)'
  BY DEF EdgeOnward, OwnedBy
<1>2. \A s, u : OfUser(s, u) => OfUser(s, u)'
  BY DEF EdgeOnward, OfUser
<1>3. ASSUME NEW s, NEW since, NEW r, Was(s, since, r)
      PROVE  Was(s, since, r)'
  <2>1. PICK k \in since..Len(seated[s].on) : seated[s].on[k] = r
    BY <1>3 DEF Was
  <2>2. s \in DOMAIN seated /\ since \in DOMAIN seated[s].on
    BY <1>3 DEF Was
  <2>3. Len(seated[s].on) \in Nat /\ DOMAIN seated[s].on = 1..Len(seated[s].on)
    BY <2>2, ListFacts DEF EdgeInv, EdgeTyped
  <2>4. k \in DOMAIN seated[s].on /\ k \in since..Len(seated'[s].on)
    BY <2>2, <2>3 DEF EdgeOnward
  <2>5. since \in DOMAIN seated'[s].on
    BY <2>2, <2>3 DEF EdgeOnward
  <2>. QED  BY <2>1, <2>2, <2>4, <2>5 DEF EdgeOnward, Was
<1>. QED  BY <1>1, <1>2, <1>3

LEMMA RecordStays ==
  ASSUME EdgeOnward, EdgeInv, NEW row, RecordFits(row)
  PROVE  RecordFits(row)'
BY EdgeFactsStay DEF RecordFits

LEMMA EdgeCallStays ==
  ASSUME EdgeOnward, EdgeInv, NEW b, EdgeCallFits(b),
         DOMAIN noted \subseteq DOMAIN noted',
         \A n \in DOMAIN noted : noted'[n].on = noted[n].on /\ noted'[n].hint = noted[n].hint
  PROVE  EdgeCallFits(b)'
<1>1. DoesFits(b.does)'
  BY DEF EdgeCallFits, DoesFits, EdgeOnward
<1>2. ASSUME b.does.kind = "upload" PROVE UploadFits(b)'
  <2>1. PICK o : o = b.does.batch[b.item]
    OBVIOUS
  <2>2. UploadFits(b)
    BY <1>2 DEF EdgeCallFits
  <2>3. /\ b.at \in Checked =>
             /\ OwnedBy(b.does.device, b.does.user)' /\ b.item \in DOMAIN b.does.batch
             /\ \A i \in DOMAIN b.does.batch : b.does.batch[i].device = b.does.device
        /\ b.at \in {"hint", "create", "project"} =>
             b.session \in {NoEdge, o.session} /\ OfUser(b.session, b.does.user)'
        /\ b.at \in {"create", "project"} /\ b.on # NoEdge =>
             /\ b.session # NoEdge /\ Was(b.session, b.since, b.on)'
             /\ ~b.mismatch => b.on = o.hint
    BY <2>1, <2>2, EdgeFactsStay DEF UploadFits
  <2>4. b.at \in {"session", "hint", "create", "project"} =>
          /\ b.since \in Nat
          /\ o.session \in DOMAIN seated' => b.since \in DOMAIN seated'[o.session].on
    BY <2>1, <2>2 DEF UploadFits, EdgeOnward
  <2>5. b.at = "project" => /\ b.on # NoEdge /\ b.row \in DOMAIN noted'
                            /\ noted'[b.row].on = b.on /\ noted'[b.row].hint = o.hint
    BY <2>1, <2>2 DEF UploadFits
  <2>6. b.at = "begin" => b.item = 1
    BY <2>2 DEF UploadFits
  <2>. QED  BY <2>1, <2>3, <2>4, <2>5, <2>6 DEF UploadFits
<1>. QED  BY <1>1, <1>2 DEF EdgeCallFits

\* A step of one request.
LEMMA EdgeStep ==
  ASSUME EdgeInv, EdgeOnward, NEW c \in EdgeCall, NEW row, calls' = [calls EXCEPT ![c] = row],
         EdgeCallFits(row)', IsList(seated'), \A s \in DOMAIN seated' : IsList(seated'[s].on),
         IsList(noted'), DOMAIN noted \subseteq DOMAIN noted',
         \A n \in DOMAIN noted : noted'[n].on = noted[n].on /\ noted'[n].hint = noted[n].hint,
         \A n \in DOMAIN noted' : RecordFits(noted[n])',
         \A n, k \in DOMAIN noted' : SameSubject(noted'[n], noted'[k]) => n = k
  PROVE  EdgeInv'
<1>1. /\ calls' = [x \in EdgeCall |-> calls'[x]] /\ calls'[c] = row
      /\ \A x \in EdgeCall : x # c => calls'[x] = calls[x]
  BY DEF EdgeInv, EdgeTyped
<1>2. EdgeTyped'
  BY <1>1 DEF EdgeInv, EdgeTyped, EdgeOnward
<1>3. ASSUME NEW x \in EdgeCall, x # c PROVE EdgeCallFits(calls[x])'
  <2>1. PICK b : b = calls[x]
    OBVIOUS
  <2>2. EdgeCallFits(b)'
    BY <2>1, EdgeCallStays DEF EdgeInv
  <2>. QED  BY <1>1, <1>3, <2>1, <2>2
<1>4. \A x \in EdgeCall : EdgeCallFits(calls[x])'
  BY <1>1, <1>3
<1>. QED  BY <1>2, <1>4 DEF EdgeInv

\* A step of one request that writes no record.
LEMMA EdgeQuietStep ==
  ASSUME EdgeInv, EdgeOnward, NEW c \in EdgeCall, NEW row, calls' = [calls EXCEPT ![c] = row],
         EdgeCallFits(row)', IsList(seated'), \A s \in DOMAIN seated' : IsList(seated'[s].on),
         UNCHANGED noted
  PROVE  EdgeInv'
<1>1. ASSUME NEW n \in DOMAIN noted' PROVE RecordFits(noted[n])'
  <2>1. PICK x : x = noted[n]
    OBVIOUS
  <2>2. RecordFits(x)'
    BY <2>1, RecordStays DEF EdgeInv
  <2>. QED  BY <2>1, <2>2
<1>2. /\ IsList(noted')
      /\ \A n, k \in DOMAIN noted' : SameSubject(noted'[n], noted'[k]) => n = k
  BY DEF EdgeInv, EdgeTyped
<1>. QED  BY <1>1, <1>2, EdgeStep

LEMMA NothingMovesThere ==
  ASSUME EdgeInv, UNCHANGED <<owners, seated>>
  PROVE  EdgeOnward /\ IsList(seated') /\ \A s \in DOMAIN seated' : IsList(seated'[s].on)
BY ListFacts DEF EdgeInv, EdgeTyped, EdgeOnward

\* A step of one request that writes nothing.
LEMMA EdgeReads ==
  ASSUME EdgeInv, UNCHANGED <<owners, seated, noted>>, NEW c \in EdgeCall, NEW row,
         calls' = [calls EXCEPT ![c] = row], EdgeCallFits(row)
  PROVE  EdgeInv'
BY NothingMovesThere, EdgeQuietStep DEF EdgeCallFits, DoesFits, UploadFits, OwnedBy, OfUser, Was

CallForm(b) ==
  b = [does |-> b.does, at |-> b.at, item |-> b.item, since |-> b.since, session |-> b.session,
       on |-> b.on, mismatch |-> b.mismatch, row |-> b.row, refused |-> b.refused]

LEMMA CallAt ==
  ASSUME EdgeInv, NEW c \in EdgeCall, NEW b, b = calls[c]
  PROVE  /\ EdgeCallFits(b) /\ CallForm(b) /\ DoesFits(b.does)
         /\ b.does.kind = "upload" => UploadFits(b)
         /\ calls = [x \in EdgeCall |-> calls[x]]
BY DEF EdgeInv, EdgeTyped, EdgeCallFits, CallForm

\* Only `at` changes.
LEMMA EdgeGoes ==
  ASSUME EdgeInv, NEW c \in EdgeCall, NEW b, b = calls[c], NEW at, EdgeAt(c, at),
         NEW row, row = [b EXCEPT !.at = at]
  PROVE  calls' = [calls EXCEPT ![c] = row]
BY CallAt DEF EdgeAt

\* The next observation of the batch, or the end of it.
LEMMA NextItemFits ==
  ASSUME EdgeInv, NEW c \in EdgeCall, NEW b, b = calls[c], b.does.kind = "upload",
         b.at \in Checked, NEW refused, NextItem(c, refused)
  PROVE  \E row : calls' = [calls EXCEPT ![c] = row] /\ EdgeCallFits(row)
<1>1. /\ CallForm(b) /\ UploadFits(b) /\ EdgeCallFits(b) /\ calls = [x \in EdgeCall |-> calls[x]]
      /\ DoesFits(b.does)
  BY CallAt
<1>2. PICK at : at = IF b.item = Len(b.does.batch) THEN "end" ELSE "check"
  OBVIOUS
<1>3. PICK row : row = [b EXCEPT !.item = @ + 1, !.refused = @ \cup refused, !.at = at]
  OBVIOUS
<1>4. calls' = [calls EXCEPT ![c].item = @ + 1, ![c].refused = @ \cup refused, ![c].at = at]
  BY <1>2 DEF NextItem, Batch
<1>5. calls'[c] = row
  BY <1>1, <1>3, <1>4
<1>6. calls' = [x \in EdgeCall |-> calls'[x]] /\ \A x \in EdgeCall : x # c => calls'[x] = calls[x]
  BY <1>1, <1>4
<1>7. calls' = [calls EXCEPT ![c] = row]
  BY <1>1, <1>5, <1>6
<1>8. /\ row.does = b.does /\ row.item = b.item + 1 /\ row.at = at /\ CallForm(row)
  BY <1>1, <1>3 DEF CallForm
<1>9. IsList(b.does.batch) /\ b.item \in DOMAIN b.does.batch
  BY <1>1 DEF UploadFits, DoesFits
<1>10. at = "check" => b.item + 1 \in DOMAIN b.does.batch
  <2>1. PICK q : q = b.does.batch
    OBVIOUS
  <2>2. DOMAIN q = 1..Len(q) /\ Len(q) \in Nat /\ b.item \in DOMAIN q
    BY <1>9, <2>1, ListFacts
  <2>. QED  BY <1>2, <2>1, <2>2
<1>11. at \in {"check", "end"}
  BY <1>2
<1>12. UploadFits(row)
  BY <1>1, <1>8, <1>10, <1>11 DEF UploadFits, Checked
<1>13. EdgeCallFits(row)
  BY <1>1, <1>8, <1>12 DEF EdgeCallFits, CallForm
<1>. QED  BY <1>7, <1>13

LEMMA RegisterInv ==
  ASSUME EdgeInv, NEW c \in EdgeCall, FindDevice(c) \/ CreateDevice(c)
  PROVE  EdgeInv'
<1>1. PICK b : b = calls[c]
  OBVIOUS
<1>2. EdgeCallFits(b) /\ CallForm(b) /\ DoesFits(b.does) /\ b.does.kind = "register"
  BY <1>1, CallAt DEF FindDevice, CreateDevice, Calling
<1>3. ASSUME NEW at, NEW row, row = [b EXCEPT !.at = at] PROVE EdgeCallFits(row)
  BY <1>2, <1>3 DEF CallForm, EdgeCallFits
<1>4. ASSUME FindDevice(c) PROVE EdgeInv'
  <2>1. PICK at : at = IF owners[calls[c].does.device] = NoEdge THEN "create" ELSE "end"
    OBVIOUS
  <2>2. PICK row : row = [b EXCEPT !.at = at]
    OBVIOUS
  <2>3. EdgeAt(c, at) /\ UNCHANGED <<owners, seated, noted>>
    BY <1>4, <2>1 DEF FindDevice
  <2>4. calls' = [calls EXCEPT ![c] = row]
    BY <1>1, <2>2, <2>3, EdgeGoes
  <2>. QED  BY <1>3, <2>2, <2>3, <2>4, EdgeReads
<1>5. ASSUME CreateDevice(c) PROVE EdgeInv'
  <2>1. PICK row : row = [b EXCEPT !.at = "end"]
    OBVIOUS
  <2>2. calls' = [calls EXCEPT ![c] = row] /\ UNCHANGED <<seated, noted>>
    BY <1>1, <1>5, <2>1, EdgeGoes DEF CreateDevice
  <2>3. /\ DOMAIN owners' = DOMAIN owners
        /\ \A d \in DOMAIN owners : owners[d] # NoEdge => owners'[d] = owners[d]
    BY <1>5 DEF CreateDevice
  <2>4. /\ \A s \in DOMAIN seated : IsList(seated[s].on) /\ Len(seated[s].on) \in Nat
                                    /\ DOMAIN seated[s].on = 1..Len(seated[s].on)
        /\ IsList(seated)
    BY ListFacts DEF EdgeInv, EdgeTyped
  <2>5. EdgeOnward
    BY <2>2, <2>3, <2>4 DEF EdgeOnward
  <2>6. EdgeCallFits(row)' BY <1>3, <2>1, <2>2, <2>5, EdgeCallStays
  <2>. QED  BY <2>2, <2>4, <2>5, <2>6, EdgeQuietStep
<1>. QED  BY <1>4, <1>5

LEMMA ValidateDeviceInv ==
  ASSUME EdgeInv, NEW c \in EdgeCall, ValidateDeviceOwnership(c)
  PROVE  EdgeInv'
<1>1. PICK b : b = calls[c]
  OBVIOUS
<1>2. /\ EdgeCallFits(b) /\ CallForm(b) /\ DoesFits(b.does) /\ UploadFits(b)
      /\ b.does.kind = "upload" /\ b.at = "begin"
  BY <1>1, CallAt DEF ValidateDeviceOwnership, Calling
<1>3. PICK fine \in BOOLEAN :
        fine = (/\ owners[b.does.device] = b.does.user
                /\ \A i \in DOMAIN b.does.batch : b.does.batch[i].device = b.does.device)
  OBVIOUS
<1>4. PICK row : row = [b EXCEPT !.at = IF fine THEN "check" ELSE "refused"]
  OBVIOUS
<1>5. EdgeAt(c, IF fine THEN "check" ELSE "refused") /\ UNCHANGED <<owners, seated, noted>>
  BY <1>1, <1>3 DEF ValidateDeviceOwnership, Batch
<1>6. calls' = [calls EXCEPT ![c] = row]
  BY <1>1, <1>4, <1>5, EdgeGoes
<1>7. b.item \in DOMAIN b.does.batch
  <2>1. PICK q : q = b.does.batch
    OBVIOUS
  <2>2. DOMAIN q = 1..Len(q) /\ Len(q) \in Nat /\ Len(q) > 0 /\ b.item = 1
    BY <1>2, <2>1, ListFacts DEF DoesFits, UploadFits
  <2>. QED  BY <2>1, <2>2
<1>8. row.does = b.does /\ row.item = b.item /\ CallForm(row) /\ row.at = IF fine THEN "check" ELSE "refused"
  BY <1>2, <1>4 DEF CallForm
<1>9. UploadFits(row)
  BY <1>2, <1>3, <1>7, <1>8 DEF UploadFits, OwnedBy, DoesFits, Checked
<1>10. EdgeCallFits(row)
  BY <1>2, <1>8, <1>9 DEF EdgeCallFits, CallForm
<1>. QED  BY <1>5, <1>6, <1>10, EdgeReads

LEMMA CheckObservationInv ==
  ASSUME EdgeInv, NEW c \in EdgeCall, CheckObservation(c)
  PROVE  EdgeInv'
<1>1. PICK b : b = calls[c]
  OBVIOUS
<1>2. /\ EdgeCallFits(b) /\ CallForm(b) /\ DoesFits(b.does) /\ UploadFits(b)
      /\ b.does.kind = "upload" /\ b.at = "check" /\ calls = [x \in EdgeCall |-> calls[x]]
  BY <1>1, CallAt DEF CheckObservation, Calling
<1>3. UNCHANGED <<owners, seated, noted>>
  BY DEF CheckObservation
<1>4. PICK o : o = b.does.batch[b.item]
  OBVIOUS
<1>5. ASSUME NEW refused, NextItem(c, refused) PROVE EdgeInv'
  BY <1>1, <1>2, <1>3, <1>5, NextItemFits, EdgeReads DEF Checked
<1>6. PICK n : n = IF o.session \in DOMAIN seated THEN Len(seated[o.session].on) ELSE 0
  OBVIOUS
<1>7. ASSUME calls' = [calls EXCEPT ![c].at = "session", ![c].session = NoEdge, ![c].since = n]
      PROVE  EdgeInv'
  <2>1. PICK row : row = [b EXCEPT !.at = "session", !.session = NoEdge, !.since = n]
    OBVIOUS
  <2>2. calls'[c] = row
    BY <1>1, <1>2, <1>7, <2>1
  <2>3. /\ calls' = [x \in EdgeCall |-> calls'[x]]
        /\ \A x \in EdgeCall : x # c => calls'[x] = calls[x]
    BY <1>2, <1>7
  <2>4. calls' = [calls EXCEPT ![c] = row]
    BY <1>2, <2>2, <2>3
  <2>5. /\ row.does = b.does /\ row.item = b.item /\ CallForm(row) /\ row.at = "session"
        /\ row.since = n
    BY <1>2, <2>1 DEF CallForm
  <2>6. n \in Nat /\ (o.session \in DOMAIN seated => n \in DOMAIN seated[o.session].on)
    BY <1>6, ListFacts DEF EdgeInv, EdgeTyped
  <2>7. UploadFits(row)
    BY <1>2, <1>4, <2>5, <2>6 DEF UploadFits, Checked
  <2>8. EdgeCallFits(row)
    BY <1>2, <2>5, <2>7 DEF EdgeCallFits, CallForm
  <2>. QED  BY <1>3, <2>4, <2>8, EdgeReads
<1>. QED  BY <1>1, <1>4, <1>5, <1>6, <1>7 DEF CheckObservation, Observed, Batch

LEMMA ValidateSessionInv ==
  ASSUME EdgeInv, NEW c \in EdgeCall, ValidateSessionOwnership(c)
  PROVE  EdgeInv'
<1>1. PICK b : b = calls[c]
  OBVIOUS
<1>2. /\ EdgeCallFits(b) /\ CallForm(b) /\ DoesFits(b.does) /\ UploadFits(b)
      /\ b.does.kind = "upload" /\ b.at = "session" /\ calls = [x \in EdgeCall |-> calls[x]]
  BY <1>1, CallAt DEF ValidateSessionOwnership, Calling
<1>3. UNCHANGED <<owners, seated, noted>>
  BY DEF ValidateSessionOwnership
<1>4. PICK o : o = b.does.batch[b.item]
  OBVIOUS
<1>5. PICK s : s = OwnSession(b.does.user, o.session)
  OBVIOUS
<1>6. s \in {NoEdge, o.session} /\ OfUser(s, b.does.user)
  BY <1>5 DEF OwnSession, OfUser
<1>7. calls' = [calls EXCEPT ![c].at = "hint", ![c].session = s]
  BY <1>1, <1>4, <1>5 DEF ValidateSessionOwnership, Observed, Batch
<1>8. PICK row : row = [b EXCEPT !.at = "hint", !.session = s]
  OBVIOUS
<1>9. calls'[c] = row
  BY <1>1, <1>2, <1>7, <1>8
<1>10. /\ calls' = [x \in EdgeCall |-> calls'[x]]
       /\ \A x \in EdgeCall : x # c => calls'[x] = calls[x]
  BY <1>2, <1>7
<1>11. calls' = [calls EXCEPT ![c] = row]
  BY <1>2, <1>9, <1>10
<1>12. /\ row.does = b.does /\ row.item = b.item /\ CallForm(row) /\ row.at = "hint"
       /\ row.since = b.since /\ row.session = s
  BY <1>2, <1>8 DEF CallForm
<1>13. UploadFits(row)
  BY <1>2, <1>4, <1>6, <1>12 DEF UploadFits, Checked
<1>14. EdgeCallFits(row)
  BY <1>2, <1>12, <1>13 DEF EdgeCallFits, CallForm
<1>. QED  BY <1>3, <1>11, <1>14, EdgeReads

LEMMA ValidateHintInv ==
  ASSUME EdgeInv, NEW c \in EdgeCall, ValidateResourceHint(c)
  PROVE  EdgeInv'
<1>1. PICK b : b = calls[c]
  OBVIOUS
<1>2. /\ EdgeCallFits(b) /\ CallForm(b) /\ DoesFits(b.does) /\ UploadFits(b)
      /\ b.does.kind = "upload" /\ b.at = "hint" /\ calls = [x \in EdgeCall |-> calls[x]]
  BY <1>1, CallAt DEF ValidateResourceHint, Calling
<1>3. UNCHANGED <<owners, seated, noted>>
  BY DEF ValidateResourceHint
<1>4. PICK o : o = b.does.batch[b.item]
  OBVIOUS
<1>5. PICK s : s = b.session
  OBVIOUS
<1>6. PICK found : found = ResolveHint(s, o.hint)
  OBVIOUS
<1>7. /\ s \in {NoEdge, o.session} /\ OfUser(s, b.does.user)
      /\ o.session \in DOMAIN seated => b.since \in DOMAIN seated[o.session].on
  BY <1>2, <1>4, <1>5 DEF UploadFits
<1>8. /\ found.on # NoEdge => s # NoEdge /\ Was(s, b.since, found.on)
      /\ found.on # NoEdge /\ ~found.mismatch => found.on = o.hint
  <2>1. CASE s = NoEdge \/ o.hint = NoEdge
    BY <1>6, <2>1 DEF ResolveHint
  <2>2. CASE s # NoEdge /\ o.hint # NoEdge
    <3>1. s \in DOMAIN seated /\ s = o.session /\ b.since \in DOMAIN seated[s].on
      BY <1>7, <2>2 DEF OfUser
    <3>2. PICK on : on = seated[s].on
      OBVIOUS
    <3>3. IsList(on) /\ DOMAIN on = 1..Len(on) /\ Len(on) \in Nat /\ Len(on) > 0
      BY <3>1, <3>2, ListFacts DEF EdgeInv, EdgeTyped
    <3>4. found.on = on[Len(on)] /\ found.mismatch = (o.hint # found.on)
      BY <1>6, <2>2, <3>2 DEF ResolveHint, ActiveOf
    <3>5. Len(on) \in b.since..Len(on)
      BY <3>1, <3>2, <3>3
    <3>6. Was(s, b.since, found.on)
      BY <3>1, <3>2, <3>4, <3>5 DEF Was
    <3>. QED  BY <2>2, <3>4, <3>6
  <2>. QED  BY <2>1, <2>2
<1>9. calls' = [calls EXCEPT ![c].at = "create", ![c].on = found.on, ![c].mismatch = found.mismatch]
  BY <1>1, <1>4, <1>5, <1>6 DEF ValidateResourceHint, Observed, Batch
<1>10. PICK row : row = [b EXCEPT !.at = "create", !.on = found.on, !.mismatch = found.mismatch]
  OBVIOUS
<1>11. calls'[c] = row
  BY <1>1, <1>2, <1>9, <1>10
<1>12. /\ calls' = [x \in EdgeCall |-> calls'[x]]
       /\ \A x \in EdgeCall : x # c => calls'[x] = calls[x]
  BY <1>2, <1>9
<1>13. calls' = [calls EXCEPT ![c] = row]
  BY <1>2, <1>11, <1>12
<1>14. /\ row.does = b.does /\ row.item = b.item /\ CallForm(row) /\ row.at = "create"
       /\ row.since = b.since /\ row.session = s /\ row.on = found.on
       /\ row.mismatch = found.mismatch
  BY <1>2, <1>5, <1>10 DEF CallForm
<1>15. UploadFits(row)
  BY <1>2, <1>4, <1>7, <1>8, <1>14 DEF UploadFits, Checked
<1>16. EdgeCallFits(row)
  BY <1>2, <1>14, <1>15 DEF EdgeCallFits, CallForm
<1>. QED  BY <1>3, <1>13, <1>16, EdgeReads

LEMMA NoteObservationInv ==
  ASSUME EdgeInv, NEW c \in EdgeCall, NoteObservation(c)
  PROVE  EdgeInv'
<1>1. PICK b : b = calls[c]
  OBVIOUS
<1>2. /\ EdgeCallFits(b) /\ CallForm(b) /\ DoesFits(b.does) /\ UploadFits(b)
      /\ b.does.kind = "upload" /\ b.at = "create" /\ calls = [x \in EdgeCall |-> calls[x]]
  BY <1>1, CallAt DEF NoteObservation, Calling
<1>3. UNCHANGED <<owners, seated>>
  BY DEF NoteObservation
<1>4. PICK o : o = b.does.batch[b.item]
  OBVIOUS
<1>5. ASSUME NextItem(c, {}), UNCHANGED noted PROVE EdgeInv'
  BY <1>1, <1>2, <1>3, <1>5, NextItemFits, EdgeReads DEF Checked
<1>6. PICK new : new = [device |-> o.device, sequence |-> o.sequence, user |-> b.does.user,
                        session |-> b.session, on |-> b.on, hint |-> o.hint,
                        since |-> b.since, trust |-> "none"]
  OBVIOUS
<1>7. ASSUME SameObservation(o) = {}, noted' = Append(noted, new),
             IF b.on = NoEdge THEN NextItem(c, {})
             ELSE calls' = [calls EXCEPT ![c].at = "project", ![c].row = Len(noted')]
      PROVE  EdgeInv'
  <2>1. IsList(noted)
    BY DEF EdgeInv, EdgeTyped
  <2>2. PICK X : noted \in Seq(X) /\ new \in X
    BY <2>1, ListWith
  <2>3. PICK n : n = Len(noted) + 1
    OBVIOUS
  <2>4. /\ noted' \in Seq(X) /\ Len(noted') = n /\ n \in DOMAIN noted' /\ n \notin DOMAIN noted
        /\ \A i \in DOMAIN noted : i \in DOMAIN noted' /\ noted'[i] = noted[i]
        /\ noted'[n] = new
        /\ \A i \in DOMAIN noted' : i \in DOMAIN noted \/ i = n
    BY <1>7, <2>2, <2>3, AppendedTo
  <2>5. IsList(noted')
    BY <2>4, ListOf
  <2>6. o.device = b.does.device /\ OwnedBy(b.does.device, b.does.user)
    BY <1>2, <1>4 DEF UploadFits, Checked
  <2>7. /\ new.device = o.device /\ new.sequence = o.sequence /\ new.user = b.does.user
        /\ new.session = b.session /\ new.on = b.on /\ new.hint = o.hint
        /\ new.since = b.since /\ new.trust = "none"
    BY <1>6
  <2>8. RecordFits(new)
    BY <1>2, <2>6, <2>7 DEF RecordFits, UploadFits
  <2>9. EdgeOnward /\ IsList(seated') /\ \A s \in DOMAIN seated' : IsList(seated'[s].on)
    BY <1>3, NothingMovesThere
  <2>10. ASSUME NEW i \in DOMAIN noted' PROVE RecordFits(noted[i])'
    <3>1. PICK x : x = noted'[i]
      OBVIOUS
    <3>2. RecordFits(x)
      BY <2>4, <2>8, <3>1 DEF EdgeInv
    <3>3. RecordFits(x)'
      BY <2>9, <3>2, RecordStays
    <3>. QED  BY <3>1, <3>3
  <2>11. \A i \in DOMAIN noted : ~SameSubject(noted[i], new)
    BY <1>7, <2>7 DEF SameObservation, SameSubject
  <2>12. \A i, k \in DOMAIN noted' : SameSubject(noted'[i], noted'[k]) => i = k
    BY <2>4, <2>11 DEF SameSubject, EdgeInv
  <2>13. \A i \in DOMAIN noted : noted'[i].on = noted[i].on /\ noted'[i].hint = noted[i].hint
    BY <2>4
  <2>14. DOMAIN noted \subseteq DOMAIN noted'
    BY <2>4
  <2>15. ASSUME NEW row, calls' = [calls EXCEPT ![c] = row], EdgeCallFits(row)' PROVE EdgeInv'
    BY <2>5, <2>9, <2>10, <2>12, <2>13, <2>14, <2>15, EdgeStep
  <2>16. CASE b.on = NoEdge
    <3>1. PICK row : calls' = [calls EXCEPT ![c] = row] /\ EdgeCallFits(row)
      BY <1>1, <1>2, <1>7, <2>16, NextItemFits DEF Checked
    <3>2. EdgeCallFits(row)'
      BY <2>9, <2>13, <2>14, <3>1, EdgeCallStays
    <3>. QED  BY <2>15, <3>1, <3>2
  <2>17. CASE b.on # NoEdge
    <3>1. PICK row : row = [b EXCEPT !.at = "project", !.row = n]
      OBVIOUS
    <3>2. calls' = [calls EXCEPT ![c].at = "project", ![c].row = n]
      BY <1>7, <2>4, <2>17
    <3>3. calls'[c] = row
      BY <1>1, <1>2, <3>1, <3>2
    <3>4. /\ calls' = [x \in EdgeCall |-> calls'[x]]
          /\ \A x \in EdgeCall : x # c => calls'[x] = calls[x]
      BY <1>2, <3>2
    <3>5. calls' = [calls EXCEPT ![c] = row]
      BY <1>2, <3>3, <3>4
    <3>6. /\ row.does = b.does /\ row.item = b.item /\ CallForm(row) /\ row.at = "project"
          /\ row.since = b.since /\ row.session = b.session /\ row.on = b.on
          /\ row.mismatch = b.mismatch /\ row.row = n
      BY <1>2, <3>1 DEF CallForm
    <3>7. EdgeCallFits(b)'
      BY <1>2, <2>9, <2>13, <2>14, EdgeCallStays
    <3>8. UploadFits(b)'
      BY <1>2, <3>7 DEF EdgeCallFits
    <3>9. UploadFits(row)'
      <4>1. b.on # NoEdge /\ n \in DOMAIN noted' /\ noted'[n] = new
        BY <2>4, <2>17
      <4>2. b.at = "create"
        BY <1>2
      <4>3. /\ row.does = b.does /\ row.item = b.item /\ row.at = "project" /\ row.since = b.since
            /\ row.session = b.session /\ row.on = b.on /\ row.mismatch = b.mismatch /\ row.row = n
        BY <3>6
      <4>. QED  BY <1>4, <2>7, <3>8, <4>1, <4>2, <4>3 DEF UploadFits, Checked
    <3>10. EdgeCallFits(row)'
      BY <3>6, <3>7, <3>9 DEF EdgeCallFits, CallForm
    <3>. QED  BY <2>15, <3>5, <3>10
  <2>. QED  BY <2>16, <2>17
<1>. QED  BY <1>1, <1>4, <1>5, <1>6, <1>7 DEF NoteObservation, Observed, Batch

LEMMA RejectObservationInv ==
  ASSUME EdgeInv, NEW c \in EdgeCall, RejectObservation(c)
  PROVE  EdgeInv'
<1>1. PICK b : b = calls[c]
  OBVIOUS
<1>2. b.does.kind = "upload" /\ b.at \in Checked
  BY <1>1 DEF RejectObservation, Calling, Checked
<1>3. UNCHANGED <<owners, seated, noted>> /\ \E refused : NextItem(c, refused)
  BY DEF RejectObservation
<1>. QED  BY <1>1, <1>2, <1>3, NextItemFits, EdgeReads

LEMMA MeasureInv ==
  ASSUME EdgeInv, NEW c \in EdgeCall, Measure(c)
  PROVE  EdgeInv'
<1>1. PICK b : b = calls[c]
  OBVIOUS
<1>2. /\ EdgeCallFits(b) /\ CallForm(b) /\ DoesFits(b.does) /\ UploadFits(b)
      /\ b.does.kind = "upload" /\ b.at = "project" /\ calls = [x \in EdgeCall |-> calls[x]]
  BY <1>1, CallAt DEF Measure, Calling
<1>3. UNCHANGED <<owners, seated>> /\ NextItem(c, {})
  BY DEF Measure
<1>4. PICK row : calls' = [calls EXCEPT ![c] = row] /\ EdgeCallFits(row)
  BY <1>1, <1>2, <1>3, NextItemFits DEF Checked
<1>5. CASE UNCHANGED noted
  BY <1>3, <1>4, <1>5, EdgeReads
<1>6. PICK o : o = b.does.batch[b.item]
  OBVIOUS
<1>7. PICK t : t = TrustOf(o, b.mismatch)
  OBVIOUS
<1>8. CASE noted' = [noted EXCEPT ![b.row].trust = t]
  <2>1. /\ b.row \in DOMAIN noted /\ noted[b.row].on = b.on /\ noted[b.row].hint = o.hint
        /\ b.on # NoEdge /\ (~b.mismatch => b.on = o.hint)
    BY <1>2, <1>6 DEF UploadFits
  <2>2. PICK old : old = noted[b.row]
    OBVIOUS
  <2>3. PICK new : new = [old EXCEPT !.trust = t]
    OBVIOUS
  <2>4. IsList(noted) /\ noted = [i \in DOMAIN noted |-> noted[i]]
    BY ListFacts DEF EdgeInv, EdgeTyped
  <2>5. /\ DOMAIN noted' = DOMAIN noted /\ noted' = [i \in DOMAIN noted' |-> noted'[i]]
        /\ noted'[b.row] = new /\ \A i \in DOMAIN noted : i # b.row => noted'[i] = noted[i]
    BY <1>8, <2>1, <2>2, <2>3, <2>4
  <2>6. IsList(noted')
    BY <2>4, <2>5, ListAlike
  <2>7. /\ new.device = old.device /\ new.sequence = old.sequence /\ new.user = old.user
        /\ new.session = old.session /\ new.on = old.on /\ new.hint = old.hint
        /\ new.since = old.since /\ new.trust \in {t, old.trust}
    BY <2>3
  <2>8. t = "LIMITED" => ~b.mismatch
    BY <1>7 DEF TrustOf
  <2>9. RecordFits(new)
    BY <2>1, <2>2, <2>7, <2>8 DEF RecordFits, EdgeInv
  <2>10. EdgeOnward /\ IsList(seated') /\ \A s \in DOMAIN seated' : IsList(seated'[s].on)
    BY <1>3, NothingMovesThere
  <2>11. ASSUME NEW i \in DOMAIN noted' PROVE RecordFits(noted[i])'
    <3>1. PICK x : x = noted'[i]
      OBVIOUS
    <3>2. RecordFits(x)
      BY <2>5, <2>9, <3>1 DEF EdgeInv
    <3>3. RecordFits(x)'
      BY <2>10, <3>2, RecordStays
    <3>. QED  BY <3>1, <3>3
  <2>12. \A i \in DOMAIN noted : /\ noted'[i].device = noted[i].device
                                 /\ noted'[i].sequence = noted[i].sequence
                                 /\ noted'[i].on = noted[i].on /\ noted'[i].hint = noted[i].hint
    BY <2>2, <2>5, <2>7
  <2>13. \A i, k \in DOMAIN noted' : SameSubject(noted'[i], noted'[k]) => i = k
    BY <2>5, <2>12 DEF SameSubject, EdgeInv
  <2>14. EdgeCallFits(row)'
    BY <1>4, <2>5, <2>10, <2>12, EdgeCallStays
  <2>. QED  BY <1>4, <2>5, <2>6, <2>10, <2>11, <2>12, <2>13, <2>14, EdgeStep
<1>. QED  BY <1>1, <1>5, <1>6, <1>7, <1>8 DEF Measure, Observed, Batch

LEMMA SessionSwitchesInv ==
  ASSUME EdgeInv, NEW c \in EdgeCall, SessionSwitches(c)
  PROVE  EdgeInv'
<1>1. PICK b : b = calls[c]
  OBVIOUS
<1>2. /\ EdgeCallFits(b) /\ CallForm(b) /\ DoesFits(b.does) /\ b.does.kind = "switch"
  BY <1>1, CallAt DEF SessionSwitches, Calling
<1>3. UNCHANGED <<owners, noted>> /\ EdgeAt(c, "end")
  BY DEF SessionSwitches
<1>4. PICK s : s = b.does.session
  OBVIOUS
<1>5. s \in DOMAIN seated /\ IsList(seated) /\ seated = [x \in DOMAIN seated |-> seated[x]]
  BY <1>2, <1>4, ListFacts DEF DoesFits, EdgeInv, EdgeTyped
<1>6. PICK on : on = seated[s].on
  OBVIOUS
<1>7. PICK r : r = b.does.on
  OBVIOUS
<1>8. PICK longer : longer = Append(on, r)
  OBVIOUS
<1>9. PICK X : on \in Seq(X) /\ r \in X
  BY <1>5, <1>6, ListWith DEF EdgeInv, EdgeTyped
<1>10. /\ longer \in Seq(X) /\ DOMAIN on = 1..Len(on) /\ Len(on) \in Nat
       /\ DOMAIN longer = 1..(Len(on) + 1) /\ Len(longer) = Len(on) + 1
       /\ \A i \in DOMAIN on : i \in DOMAIN longer /\ longer[i] = on[i]
  BY <1>8, <1>9, AppendedTo
<1>11. seated' = [seated EXCEPT ![s].on = longer]
  BY <1>1, <1>4, <1>6, <1>7, <1>8 DEF SessionSwitches
<1>12. PICK old : old = seated[s]
  OBVIOUS
<1>13. PICK new : new = [old EXCEPT !.on = longer]
  OBVIOUS
<1>14. /\ DOMAIN seated' = DOMAIN seated /\ seated' = [x \in DOMAIN seated' |-> seated'[x]]
       /\ seated'[s] = new /\ \A x \in DOMAIN seated : x # s => seated'[x] = seated[x]
  BY <1>5, <1>11, <1>12, <1>13
<1>15. new.subject = old.subject /\ (new.on = longer \/ new.on = old.on)
  BY <1>13
<1>16. IsList(seated')
  BY <1>5, <1>14, ListAlike
<1>17. IsList(longer)
  BY <1>10, ListOf
<1>18. ASSUME NEW x \in DOMAIN seated
       PROVE  /\ IsList(seated[x].on) /\ Len(seated[x].on) \in Nat
              /\ DOMAIN seated[x].on = 1..Len(seated[x].on)
  BY ListFacts DEF EdgeInv, EdgeTyped
<1>19. ASSUME NEW x \in DOMAIN seated
       PROVE  /\ IsList(seated'[x].on) /\ seated'[x].subject = seated[x].subject
              /\ Len(seated[x].on) <= Len(seated'[x].on) /\ Len(seated'[x].on) \in Nat
              /\ DOMAIN seated'[x].on = 1..Len(seated'[x].on)
              /\ \A k \in DOMAIN seated[x].on : seated'[x].on[k] = seated[x].on[k]
  <2>1. CASE x # s
    BY <1>14, <1>18, <2>1
  <2>2. CASE x = s
    <3>1. seated'[x].on = longer \/ seated'[x].on = on
      BY <1>6, <1>12, <1>14, <1>15, <2>2
    <3>2. CASE seated'[x].on = longer
      BY <1>6, <1>10, <1>12, <1>14, <1>15, <1>17, <2>2, <3>2
    <3>3. CASE seated'[x].on = on
      BY <1>6, <1>12, <1>14, <1>15, <1>18, <2>2, <3>3
    <3>. QED  BY <3>1, <3>2, <3>3
  <2>. QED  BY <2>1, <2>2
<1>20. EdgeOnward
  BY <1>3, <1>14, <1>18, <1>19 DEF EdgeOnward
<1>21. PICK row : row = [b EXCEPT !.at = "end"]
  OBVIOUS
<1>22. calls' = [calls EXCEPT ![c] = row]
  BY <1>1, <1>3, <1>21, EdgeGoes
<1>23. row.does = b.does /\ CallForm(row)
  BY <1>2, <1>21 DEF CallForm
<1>24. EdgeCallFits(row)
  BY <1>2, <1>23 DEF EdgeCallFits, CallForm
<1>25. EdgeCallFits(row)'
  BY <1>3, <1>20, <1>24, EdgeCallStays
<1>. QED  BY <1>3, <1>14, <1>16, <1>19, <1>20, <1>22, <1>25, EdgeQuietStep

LEMMA EdgeStepInv == EdgeInv /\ [EdgeNext]_edgeVars => EdgeInv'
<1>. SUFFICES ASSUME EdgeInv, [EdgeNext]_edgeVars PROVE EdgeInv'
  OBVIOUS
<1>1. CASE UNCHANGED edgeVars
  <2>1. UNCHANGED <<owners, seated, noted, calls>>
    BY <1>1 DEF edgeVars
  <2>2. EdgeTyped' /\ \A n \in DOMAIN noted' : RecordFits(noted[n])'
    BY <2>1 DEF EdgeInv, EdgeTyped, RecordFits, OwnedBy, OfUser, Was
  <2>3. ASSUME NEW c \in EdgeCall PROVE EdgeCallFits(calls[c])'
    <3>1. PICK b : b = calls[c]
      OBVIOUS
    <3>2. EdgeCallFits(b)'
      BY <2>1, <3>1, NothingMovesThere, EdgeCallStays DEF EdgeInv
    <3>. QED  BY <2>1, <3>1, <3>2
  <2>. QED  BY <2>1, <2>2, <2>3 DEF EdgeInv
<1>. QED  BY <1>1, RegisterInv, ValidateDeviceInv, CheckObservationInv, ValidateSessionInv,
             ValidateHintInv, NoteObservationInv, MeasureInv, RejectObservationInv,
             SessionSwitchesInv DEF EdgeNext

LEMMA EdgeInvSays == EdgeInv => AttributedRightly
<1>. SUFFICES ASSUME EdgeInv PROVE AttributedRightly
  OBVIOUS
<1>1. ASSUME NEW n \in DOMAIN noted
      PROVE  LET row == noted[n] IN
             /\ owners[row.device] = row.user
             /\ row.session # NoEdge => seated[row.session].subject = row.user
             /\ row.on # NoEdge =>
                  \E k \in row.since..Len(seated[row.session].on) : seated[row.session].on[k] = row.on
             /\ row.trust = "LIMITED" => row.on = row.hint
  BY DEF EdgeInv, RecordFits, OwnedBy, OfUser, Was
<1>2. \A n, k \in DOMAIN noted :
        noted[n].device = noted[k].device /\ noted[n].sequence = noted[k].sequence => n = k
  BY DEF EdgeInv, SameSubject
<1>. QED  BY <1>1, <1>2 DEF AttributedRightly

\* See AttributedRightly: for every number of devices, of uploads at once and of the same
\* observations, and however often sessions move.
THEOREM ObservationsAreAttributed == EdgeInit /\ [][EdgeNext]_edgeVars => []AttributedRightly
<1>1. EdgeInit => EdgeInv
  BY EdgeInitInv DEF EdgeInit
<1>. QED  BY <1>1, EdgeStepInv, EdgeInvSays, PTL

-----------------------------------------------------------------------------
(* ActionRecovery: what a recovered action has left.                       *)

StaleRow == [state : {"EXECUTING", "RECOVERY_CLAIMED", "FAILED", "RECONCILIATION_REQUIRED"},
             claim : Rescuer \cup {NoRescuer}, live : BOOLEAN,
             session : DOMAIN standing, target : Nat]
RescueForm(b) == b = [pc |-> b.pc, todo |-> b.todo, act |-> b.act, saw |-> b.saw, goal |-> b.goal]
RecoveryTyped ==
  /\ stale = [a \in DOMAIN stale |-> stale[a]] /\ \A a \in DOMAIN stale : stale[a] \in StaleRow
  /\ spots = [r \in DOMAIN spots |-> spots[r]]
  /\ standing = [s \in DOMAIN standing |-> standing[s]] /\ 0 \notin DOMAIN standing
  /\ rescue = [k \in Rescuer |-> rescue[k]]

\* An action's target is its session's no more, and the session does not switch.
GivenBack(a) == stale[a].target \in DOMAIN spots => ~HeldBy(stale[a].target, stale[a].session)
Stands(a) == standing[stale[a].session] # "SWITCHING"

\* What a run has in hand: a session it did not read as SWITCHING is not, and when it is
\* about to settle an action as FAILED, what the action's target was for is over.
RescueFits(b) ==
  /\ RescueForm(b)
  /\ b.pc \in {"idle", "find", "next", "bridge", "release", "revert", "settle"}
  /\ b.todo \subseteq DOMAIN stale
  /\ b.pc \in {"bridge", "release", "revert", "settle"} => b.act \in DOMAIN stale
  /\ b.pc \in {"next", "bridge", "release", "revert", "settle"} =>
       \A s \in DOMAIN standing : b.saw[s] # "SWITCHING" => standing[s] # "SWITCHING"
  /\ b.goal \in {"FAILED", "RECONCILIATION_REQUIRED"}
  /\ b.pc \in {"revert", "settle"} /\ b.goal = "FAILED" => GivenBack(b.act)
  /\ b.pc = "settle" /\ b.goal = "FAILED" /\ stale[b.act].target \in DOMAIN spots => Stands(b.act)

RecoveryInv == RecoveryTyped /\ RecoveredRightly /\ \A k \in Rescuer : RescueFits(rescue[k])

LEMMA RecoveryInitInv ==
  ASSUME NEW case \in RecoveryCases, RecoveryInitOf(case)
  PROVE  RecoveryInv
<1>1. /\ DOMAIN stale = DOMAIN case.acts /\ standing = case.standing /\ spots = case.spots
      /\ \A a \in DOMAIN stale : stale[a] =
           [state |-> "EXECUTING", claim |-> NoRescuer, live |-> FALSE,
            session |-> case.acts[a].session, target |-> case.acts[a].target]
  BY DEF RecoveryInitOf
<1>2. \A a \in DOMAIN case.acts : case.acts[a].session \in DOMAIN case.standing
                                  /\ case.acts[a].target \in Nat
  BY RecoveryAssumption
<1>3. ASSUME NEW a \in DOMAIN stale PROVE stale[a] \in StaleRow
  <2>1. PICK s : s = case.acts[a].session
    OBVIOUS
  <2>2. PICK r : r = case.acts[a].target
    OBVIOUS
  <2>3. s \in DOMAIN standing /\ r \in Nat
    BY <1>1, <1>2, <2>1, <2>2
  <2>4. stale[a] = [state |-> "EXECUTING", claim |-> NoRescuer, live |-> FALSE,
                    session |-> s, target |-> r]
    BY <1>1, <2>1, <2>2
  <2>. QED  BY <2>3, <2>4 DEF StaleRow
<1>4. /\ stale = [a \in DOMAIN stale |-> stale[a]]
      /\ rescue = [k \in Rescuer |-> rescue[k]] /\ \A k \in Rescuer : rescue[k] = Idling
  BY DEF RecoveryInitOf
<1>5. /\ spots = [r \in DOMAIN spots |-> spots[r]]
      /\ standing = [s \in DOMAIN standing |-> standing[s]] /\ 0 \notin DOMAIN standing
  BY <1>1, RecoveryAssumption
<1>6. RecoveredRightly
  BY <1>1 DEF RecoveryInitOf, RecoveredRightly
<1>7. RescueFits(Idling)
  BY DEF RescueFits, RescueForm, Idling
<1>. QED  BY <1>3, <1>4, <1>5, <1>6, <1>7 DEF RecoveryInv, RecoveryTyped

\* Actions keep what they are about, no session is given what an action was for, and none
\* begins to switch.
Onward ==
  /\ DOMAIN stale' = DOMAIN stale /\ DOMAIN spots' = DOMAIN spots
  /\ DOMAIN standing' = DOMAIN standing
  /\ \A a \in DOMAIN stale : /\ stale[a].session \in DOMAIN standing
                             /\ stale'[a].session = stale[a].session
                             /\ stale'[a].target = stale[a].target
  /\ \A a \in DOMAIN stale, r \in DOMAIN spots :
       ~HeldBy(r, stale[a].session) => ~HeldBy(r, stale[a].session)'
  /\ \A s \in DOMAIN standing : standing[s] # "SWITCHING" => standing'[s] # "SWITCHING"

LEMMA OnwardKeeps ==
  ASSUME Onward, NEW a \in DOMAIN stale
  PROVE  /\ GivenBack(a) => GivenBack(a)'
         /\ Stands(a) => Stands(a)'
BY DEF Onward, GivenBack, HeldBy, Stands

LEMMA OnwardFits ==
  ASSUME Onward, NEW b, RescueFits(b)
  PROVE  RescueFits(b)'
BY OnwardKeeps DEF RescueFits, Onward

\* A step that goes onward, of one run or of none, in which what becomes FAILED may.
LEMMA OnwardStep ==
  ASSUME RecoveryInv, Onward, robbed' = {},
         \A a \in DOMAIN stale : stale'[a] \in StaleRow,
         stale' = [a \in DOMAIN stale |-> stale'[a]], spots' = [r \in DOMAIN spots |-> spots'[r]],
         standing' = [s \in DOMAIN standing |-> standing'[s]],
         \A a \in DOMAIN stale :
           \/ stale'[a].state = stale[a].state \/ stale'[a].state # "FAILED"
           \/ GivenBack(a) /\ (stale[a].target \in DOMAIN spots => Stands(a)),
         rescue' = [k \in Rescuer |-> rescue'[k]],
         \A k \in Rescuer : rescue'[k] = rescue[k] \/ RescueFits(rescue[k])'
  PROVE  RecoveryInv'
<1>1. RecoveryTyped' BY DEF Onward, StaleRow, RecoveryInv, RecoveryTyped
<1>2. ASSUME NEW k \in Rescuer, rescue'[k] = rescue[k] PROVE RescueFits(rescue[k])'
  <2>1. PICK b : b = rescue[k]
    OBVIOUS
  <2>2. RescueFits(b)'
    BY <2>1, OnwardFits DEF RecoveryInv
  <2>. QED  BY <1>2, <2>1, <2>2
<1>3. \A k \in Rescuer : RescueFits(rescue[k])'
  BY <1>2
<1>4. ASSUME NEW a \in DOMAIN stale, stale'[a].state = "FAILED",
             stale'[a].target \in DOMAIN spots'
      PROVE  GivenBack(a)' /\ Stands(a)'
  BY <1>4, OnwardKeeps DEF Onward, RecoveryInv, RecoveredRightly, GivenBack, Stands
<1>5. RecoveredRightly'
  BY <1>4 DEF RecoveredRightly, Onward, GivenBack, Stands
<1>. QED  BY <1>1, <1>3, <1>5 DEF RecoveryInv
LEMMA OneRun ==
  ASSUME RecoveryInv, Onward, robbed' = {},
         \A a \in DOMAIN stale : stale'[a] \in StaleRow,
         stale' = [a \in DOMAIN stale |-> stale'[a]], spots' = [r \in DOMAIN spots |-> spots'[r]],
         standing' = [s \in DOMAIN standing |-> standing'[s]],
         \A a \in DOMAIN stale :
           \/ stale'[a].state = stale[a].state \/ stale'[a].state # "FAILED"
           \/ GivenBack(a) /\ (stale[a].target \in DOMAIN spots => Stands(a)),
         NEW k \in Rescuer, NEW row, rescue' = [rescue EXCEPT ![k] = row], RescueFits(row)'
  PROVE  RecoveryInv'
BY OnwardStep DEF RecoveryInv, RecoveryTyped

\* What there is stays; one run goes on.
LEMMA NothingMoves ==
  ASSUME RecoveryInv, UNCHANGED <<stale, spots, standing>>
  PROVE  /\ Onward
         /\ \A a \in DOMAIN stale : stale'[a] \in StaleRow
         /\ stale' = [a \in DOMAIN stale |-> stale'[a]]
         /\ spots' = [r \in DOMAIN spots |-> spots'[r]]
         /\ standing' = [s \in DOMAIN standing |-> standing'[s]]
         /\ \A a \in DOMAIN stale : stale'[a].state = stale[a].state
BY DEF Onward, HeldBy, RecoveryInv, RecoveryTyped, StaleRow

LEMMA RunGoesOn ==
  ASSUME RecoveryInv, UNCHANGED <<stale, spots, standing, robbed>>,
         NEW k \in Rescuer, NEW row, rescue' = [rescue EXCEPT ![k] = row], RescueFits(row)
  PROVE  RecoveryInv'
BY NothingMoves, OnwardFits, OneRun DEF RecoveryInv, RecoveredRightly

LEMMA QuitFits == RescueFits(Idling) /\ RescueFits(Idling)'
  BY DEF RescueFits, RescueForm, Idling

LEMMA ClaimStaleInv ==
  ASSUME RecoveryInv, NEW k \in Rescuer, ClaimStale(k)
  PROVE  RecoveryInv'
<1>1. /\ \A a \in DOMAIN stale : stale[a] \in StaleRow
      /\ stale' = [a \in DOMAIN stale |-> stale'[a]] /\ DOMAIN stale' = DOMAIN stale
  BY DEF ClaimStale, RecoveryInv, RecoveryTyped
<1>2. ASSUME NEW a \in DOMAIN stale
      PROVE  /\ stale'[a] \in StaleRow /\ stale'[a].session = stale[a].session
             /\ stale'[a].target = stale[a].target
             /\ stale'[a].state = stale[a].state \/ stale'[a].state # "FAILED"
  BY <1>1 DEF ClaimStale, StaleRow
<1>3. Onward
  BY <1>1, <1>2 DEF Onward, HeldBy, ClaimStale, StaleRow
<1>4. PICK row : row = [rescue[k] EXCEPT !.pc = "find"]
  OBVIOUS
<1>5. PICK b : b = rescue[k]
  OBVIOUS
<1>6. RescueFits(b)
  BY <1>5 DEF RecoveryInv
<1>7. RescueFits(row)
  BY <1>4, <1>5, <1>6 DEF RescueFits, RescueForm
<1>8. RescueFits(row)'
  BY <1>3, <1>7, OnwardFits
<1>9. rescue' = [rescue EXCEPT ![k] = row]
  BY <1>4 DEF ClaimStale, At0, RecoveryInv, RecoveryTyped
<1>10. /\ robbed' = {} /\ spots' = [r \in DOMAIN spots |-> spots'[r]]
       /\ standing' = [s \in DOMAIN standing |-> standing'[s]]
  BY DEF ClaimStale, RecoveryInv, RecoveryTyped, RecoveredRightly
<1>. QED  BY <1>1, <1>2, <1>3, <1>8, <1>9, <1>10, OneRun

LEMMA ReadingInv ==
  ASSUME RecoveryInv, NEW k \in Rescuer, FindClaimed(k) \/ LookAtTarget(k) \/ ValidateBinding(k)
  PROVE  RecoveryInv'
<1>1. PICK b : b = rescue[k]
  OBVIOUS
<1>2. RescueFits(b) /\ rescue = [j \in Rescuer |-> rescue[j]]
  BY <1>1 DEF RecoveryInv, RecoveryTyped
<1>3. UNCHANGED <<stale, spots, standing, robbed>>
  BY DEF FindClaimed, LookAtTarget, ValidateBinding
<1>4. CASE FindClaimed(k)
  <2>1. PICK mine \in SUBSET (DOMAIN stale) : mine = {a \in DOMAIN stale : stale[a].claim = k}
    OBVIOUS
  <2>2. PICK row : row = [b EXCEPT !.pc = "next", !.saw = standing, !.todo = mine]
    OBVIOUS
  <2>3. RescueFits(row)
    BY <1>2, <2>2 DEF RescueFits, RescueForm
  <2>4. rescue' = [rescue EXCEPT ![k] = row]
    BY <1>1, <1>2, <1>4, <2>1, <2>2 DEF FindClaimed
  <2>. QED  BY <1>3, <2>3, <2>4, RunGoesOn
<1>5. CASE LookAtTarget(k)
  <2>1. CASE b.todo = {}
    BY <1>1, <1>3, <1>5, <2>1, QuitFits, RunGoesOn DEF LookAtTarget, Quits
  <2>2. CASE b.todo # {}
    <3>1. PICK a \in b.todo :
            rescue' = [rescue EXCEPT ![k].act = a, ![k].todo = @ \ {a},
              ![k].pc = CASE Finding(a) = "used"     -> "bridge"
                          [] Finding(a) = "reserved" -> "release"
                          [] OTHER                   -> "settle",
              ![k].goal = IF Finding(a) = "unexpected" THEN "RECONCILIATION_REQUIRED"
                                                       ELSE "FAILED"]
      BY <1>1, <1>5, <2>2 DEF LookAtTarget
    <3>2. PICK pc : pc = CASE Finding(a) = "used"     -> "bridge"
                          [] Finding(a) = "reserved" -> "release"
                          [] OTHER                   -> "settle"
      OBVIOUS
    <3>3. PICK goal : goal = IF Finding(a) = "unexpected" THEN "RECONCILIATION_REQUIRED" ELSE "FAILED"
      OBVIOUS
    <3>4. PICK row : row = [b EXCEPT !.act = a, !.todo = @ \ {a}, !.pc = pc, !.goal = goal]
      OBVIOUS
    <3>5. /\ pc \in {"bridge", "release", "settle"} /\ goal \in {"FAILED", "RECONCILIATION_REQUIRED"}
          /\ pc = "settle" /\ goal = "FAILED" => stale[a].target \notin DOMAIN spots
      BY <3>2, <3>3 DEF Finding
    <3>6. /\ row.pc = pc /\ row.goal = goal /\ row.act = a /\ row.todo = b.todo \ {a}
          /\ row.saw = b.saw /\ RescueForm(row) /\ b.pc = "next"
      BY <1>1, <1>2, <1>5, <3>4 DEF RescueFits, RescueForm, LookAtTarget
    <3>7. RescueFits(row)
      BY <1>2, <3>1, <3>5, <3>6 DEF RescueFits, GivenBack
    <3>8. rescue' = [rescue EXCEPT ![k] = row]
      BY <1>1, <1>2, <3>1, <3>2, <3>3, <3>4
    <3>. QED  BY <1>3, <3>7, <3>8, RunGoesOn
  <2>. QED  BY <2>1, <2>2
<1>6. CASE ValidateBinding(k)
  <2>1. CASE At0(k, "release")
    <3>1. PICK row : row = [b EXCEPT !.pc = "release"]
      OBVIOUS
    <3>2. RescueFits(row)
      BY <1>1, <1>2, <1>6, <3>1 DEF RescueFits, RescueForm, ValidateBinding
    <3>3. rescue' = [rescue EXCEPT ![k] = row]
      BY <1>1, <1>2, <2>1, <3>1 DEF At0
    <3>. QED  BY <1>3, <3>2, <3>3, RunGoesOn
  <2>2. CASE rescue' = [rescue EXCEPT ![k].pc = "revert", ![k].goal = "RECONCILIATION_REQUIRED"]
    <3>1. PICK row : row = [b EXCEPT !.pc = "revert", !.goal = "RECONCILIATION_REQUIRED"]
      OBVIOUS
    <3>2. RescueFits(row)
      BY <1>1, <1>2, <1>6, <3>1 DEF RescueFits, RescueForm, ValidateBinding
    <3>3. rescue' = [rescue EXCEPT ![k] = row]
      BY <1>1, <1>2, <2>2, <3>1
    <3>. QED  BY <1>3, <3>2, <3>3, RunGoesOn
  <2>3. CASE Quits(k)
    BY <1>3, <2>3, QuitFits, RunGoesOn DEF Quits
  <2>. QED  BY <1>6, <2>1, <2>2, <2>3 DEF ValidateBinding
<1>. QED  BY <1>4, <1>5, <1>6
LEMMA FreeTargetInv ==
  ASSUME RecoveryInv, NEW k \in Rescuer, FreeTarget(k)
  PROVE  RecoveryInv'
<1>1. PICK b : b = rescue[k]
  OBVIOUS
<1>2. RescueFits(b) /\ b.pc = "release" /\ rescue = [j \in Rescuer |-> rescue[j]]
  BY <1>1 DEF RecoveryInv, RecoveryTyped, FreeTarget
<1>3. b.act \in DOMAIN stale /\ stale[b.act] \in StaleRow /\ Mine(k) = stale[b.act]
  BY <1>1, <1>2 DEF RescueFits, Mine, RecoveryInv, RecoveryTyped
<1>4. PICK r : r = stale[b.act].target
  OBVIOUS
<1>5. PICK s : s = stale[b.act].session
  OBVIOUS
<1>6. /\ spots' = IF HeldBy(r, s) THEN [spots EXCEPT ![r] = [state |-> "AVAILABLE", by |-> 0]]
                                ELSE spots
      /\ robbed' = IF spots'[r] = spots[r] THEN robbed ELSE robbed \cup ({spots[r].by} \ {s})
      /\ UNCHANGED <<stale, standing>>
  BY <1>3, <1>4, <1>5 DEF FreeTarget, Robs
<1>7. robbed' = {}
  BY <1>6 DEF RecoveryInv, RecoveredRightly, HeldBy
<1>8. /\ spots' = [x \in DOMAIN spots |-> spots'[x]] /\ DOMAIN spots' = DOMAIN spots
      /\ \A x \in DOMAIN spots : spots'[x] = IF HeldBy(r, s) /\ x = r
                                   THEN [state |-> "AVAILABLE", by |-> 0] ELSE spots[x]
  BY <1>6 DEF RecoveryInv, RecoveryTyped, HeldBy
<1>9. \A a \in DOMAIN stale : stale[a].session \in DOMAIN standing
  BY DEF RecoveryInv, RecoveryTyped, StaleRow
<1>10. \A a \in DOMAIN stale : stale[a].session # 0 BY <1>9 DEF RecoveryInv, RecoveryTyped
<1>11. Onward
  BY <1>6, <1>8, <1>9, <1>10 DEF Onward, HeldBy
<1>12. GivenBack(b.act)'
  BY <1>3, <1>4, <1>5, <1>6, <1>8, <1>10 DEF GivenBack, HeldBy
<1>13. PICK row : row = [b EXCEPT !.pc = "revert"]
  OBVIOUS
<1>14. RescueFits(row)' BY <1>2, <1>11, OnwardFits, <1>12, <1>13 DEF RescueFits, RescueForm
<1>15. rescue' = [rescue EXCEPT ![k] = row]
  BY <1>1, <1>2, <1>13 DEF FreeTarget, At0
<1>16. /\ \A a \in DOMAIN stale : stale'[a] \in StaleRow /\ stale'[a].state = stale[a].state
       /\ stale' = [a \in DOMAIN stale |-> stale'[a]]
       /\ standing' = [x \in DOMAIN standing |-> standing'[x]]
  BY <1>6 DEF RecoveryInv, RecoveryTyped
<1>. QED  BY <1>7, <1>8, <1>11, <1>14, <1>15, <1>16, OneRun

LEMMA RevertSessionInv ==
  ASSUME RecoveryInv, NEW k \in Rescuer, RevertSession(k)
  PROVE  RecoveryInv'
<1>1. PICK b : b = rescue[k]
  OBVIOUS
<1>2. RescueFits(b) /\ b.pc = "revert" /\ rescue = [j \in Rescuer |-> rescue[j]]
  BY <1>1 DEF RecoveryInv, RecoveryTyped, RevertSession
<1>3. b.act \in DOMAIN stale /\ stale[b.act] \in StaleRow /\ Mine(k) = stale[b.act]
  BY <1>1, <1>2 DEF RescueFits, Mine, RecoveryInv, RecoveryTyped
<1>4. PICK s \in DOMAIN standing : s = stale[b.act].session
  BY <1>3 DEF StaleRow
<1>5. PICK row : row = [b EXCEPT !.pc = "settle"]
  OBVIOUS
<1>6. UNCHANGED <<stale, spots, robbed>>
  BY DEF RevertSession
<1>7. CASE b.saw[s] # "SWITCHING"
  <2>1. Stands(b.act)
    BY <1>2, <1>3, <1>4, <1>7 DEF RescueFits, Stands
  <2>2. RescueFits(row)
    BY <1>2, <1>5, <2>1 DEF RescueFits, RescueForm
  <2>3. rescue' = [rescue EXCEPT ![k] = row] /\ UNCHANGED standing
    BY <1>1, <1>2, <1>3, <1>4, <1>5, <1>7 DEF RevertSession, At0
  <2>. QED  BY <1>6, <2>2, <2>3, RunGoesOn
<1>8. CASE b.saw[s] = "SWITCHING" /\ standing[s] = "SWITCHING"
  <2>1. /\ rescue' = [rescue EXCEPT ![k] = row]
        /\ standing' = [standing EXCEPT ![s] = "ACTIVE"]
    BY <1>1, <1>2, <1>3, <1>4, <1>5, <1>8 DEF RevertSession, At0
  <2>2. /\ DOMAIN standing' = DOMAIN standing /\ standing'[s] = "ACTIVE"
        /\ \A x \in DOMAIN standing : x # s => standing'[x] = standing[x]
        /\ standing' = [x \in DOMAIN standing |-> standing'[x]]
    BY <2>1 DEF RecoveryInv, RecoveryTyped
  <2>3. Onward
    BY <1>6, <2>2 DEF Onward, HeldBy, RecoveryInv, RecoveryTyped, StaleRow
  <2>4. RescueFits(row)'
    <3>1. RescueFits(b)'
      BY <1>2, <2>3, OnwardFits
    <3>2. Stands(b.act)'
      BY <1>4, <1>6, <2>2 DEF Stands
    <3>. QED  BY <1>2, <1>5, <3>1, <3>2 DEF RescueFits, RescueForm
  <2>5. /\ \A a \in DOMAIN stale : stale'[a] \in StaleRow /\ stale'[a].state = stale[a].state
        /\ stale' = [a \in DOMAIN stale |-> stale'[a]]
        /\ spots' = [x \in DOMAIN spots |-> spots'[x]] /\ robbed' = {}
    BY <1>6 DEF RecoveryInv, RecoveryTyped, RecoveredRightly
  <2>. QED  BY <2>1, <2>2, <2>3, <2>4, <2>5, OneRun
<1>9. CASE b.saw[s] = "SWITCHING" /\ standing[s] # "SWITCHING"
  BY <1>1, <1>3, <1>4, <1>6, <1>9, QuitFits, RunGoesOn DEF RevertSession, Quits
<1>. QED  BY <1>7, <1>8, <1>9

LEMMA SettleActionInv ==
  ASSUME RecoveryInv, NEW k \in Rescuer, SettleAction(k)
  PROVE  RecoveryInv'
<1>1. PICK b : b = rescue[k]
  OBVIOUS
<1>2. RescueFits(b) /\ b.pc = "settle" /\ rescue = [j \in Rescuer |-> rescue[j]]
  BY <1>1 DEF RecoveryInv, RecoveryTyped, SettleAction
<1>3. b.act \in DOMAIN stale /\ stale[b.act] \in StaleRow
  BY <1>2 DEF RescueFits, RecoveryInv, RecoveryTyped
<1>4. UNCHANGED <<spots, standing, robbed>>
  BY DEF SettleAction
<1>5. CASE b.goal \in Legal[stale[b.act].state]
  <2>1. PICK one : one = [stale[b.act] EXCEPT !.state = b.goal]
    OBVIOUS
  <2>2. /\ one \in StaleRow /\ one.state = b.goal
        /\ one.session = stale[b.act].session /\ one.target = stale[b.act].target
    BY <1>2, <1>3, <2>1 DEF StaleRow, RescueFits
  <2>3. stale' = [stale EXCEPT ![b.act] = one] /\ At0(k, "next")
    BY <1>1, <1>3, <1>5, <2>1 DEF SettleAction, RecoveryInv, RecoveryTyped
  <2>4. /\ DOMAIN stale' = DOMAIN stale /\ stale' = [a \in DOMAIN stale |-> stale'[a]]
        /\ stale'[b.act] = one /\ \A a \in DOMAIN stale : a # b.act => stale'[a] = stale[a]
    BY <1>3, <2>3 DEF RecoveryInv, RecoveryTyped
  <2>5. ASSUME NEW a \in DOMAIN stale
        PROVE  /\ stale'[a] \in StaleRow /\ stale'[a].session = stale[a].session
               /\ stale'[a].target = stale[a].target
               /\ \/ stale'[a].state = stale[a].state \/ stale'[a].state # "FAILED"
                  \/ GivenBack(a) /\ (stale[a].target \in DOMAIN spots => Stands(a))
    BY <1>2, <2>2, <2>4 DEF RescueFits, RecoveryInv, RecoveryTyped
  <2>6. Onward
    BY <1>4, <2>4, <2>5 DEF Onward, HeldBy, RecoveryInv, RecoveryTyped, StaleRow
  <2>7. PICK row : row = [b EXCEPT !.pc = "next"]
    OBVIOUS
  <2>8. RescueFits(row)' BY <1>2, <2>6, OnwardFits, <2>7 DEF RescueFits, RescueForm
  <2>9. rescue' = [rescue EXCEPT ![k] = row]
    BY <1>1, <1>2, <2>3, <2>7 DEF At0
  <2>10. /\ spots' = [x \in DOMAIN spots |-> spots'[x]] /\ robbed' = {}
         /\ standing' = [x \in DOMAIN standing |-> standing'[x]]
    BY <1>4 DEF RecoveryInv, RecoveryTyped, RecoveredRightly
  <2>. QED  BY <2>4, <2>5, <2>6, <2>8, <2>9, <2>10, OneRun
<1>6. CASE b.goal \notin Legal[stale[b.act].state]
  BY <1>1, <1>4, <1>6, QuitFits, RunGoesOn DEF SettleAction, Quits
<1>. QED  BY <1>5, <1>6

\* A lease lapses, or another session takes what is free: no run goes on.
LEMMA LapseInv ==
  ASSUME RecoveryInv, NEW a \in DOMAIN stale, RescueLapses(a)
  PROVE  RecoveryInv'
<1>1. stale[a] \in StaleRow
  BY DEF RecoveryInv, RecoveryTyped
<1>2. PICK one : one = [stale[a] EXCEPT !.live = FALSE]
  OBVIOUS
<1>3. /\ one \in StaleRow /\ one.state = stale[a].state
      /\ one.session = stale[a].session /\ one.target = stale[a].target
  BY <1>1, <1>2 DEF StaleRow
<1>4. /\ stale' = [stale EXCEPT ![a] = one] /\ UNCHANGED <<spots, standing, rescue, robbed>>
  BY <1>2 DEF RescueLapses, RecoveryInv, RecoveryTyped
<1>5. /\ DOMAIN stale' = DOMAIN stale /\ stale' = [x \in DOMAIN stale |-> stale'[x]]
      /\ stale'[a] = one /\ \A x \in DOMAIN stale : x # a => stale'[x] = stale[x]
  BY <1>4 DEF RecoveryInv, RecoveryTyped
<1>6. \A x \in DOMAIN stale : /\ stale'[x] \in StaleRow /\ stale'[x].session = stale[x].session
                               /\ stale'[x].target = stale[x].target
                               /\ stale'[x].state = stale[x].state
  BY <1>3, <1>5 DEF RecoveryInv, RecoveryTyped
<1>7. Onward
  BY <1>4, <1>5, <1>6 DEF Onward, HeldBy, RecoveryInv, RecoveryTyped, StaleRow
<1>8. /\ spots' = [x \in DOMAIN spots |-> spots'[x]] /\ robbed' = {}
      /\ standing' = [x \in DOMAIN standing |-> standing'[x]]
      /\ rescue' = [k \in Rescuer |-> rescue'[k]]
  BY <1>4 DEF RecoveryInv, RecoveryTyped, RecoveredRightly
<1>. QED  BY <1>4, <1>5, <1>6, <1>7, <1>8, OnwardStep

LEMMA NewcomerInv ==
  ASSUME RecoveryInv, NEW s \in DOMAIN standing, NEW r \in DOMAIN spots, Newcomer(s, r)
  PROVE  RecoveryInv'
BY OnwardStep DEF Newcomer, RecoveryInv, RecoveryTyped, Onward, HeldBy, StaleRow, RecoveredRightly

LEMMA RecoveryStepInv == RecoveryInv /\ [RecoveryNext]_recoveryVars => RecoveryInv'
<1>. SUFFICES ASSUME RecoveryInv, [RecoveryNext]_recoveryVars PROVE RecoveryInv'
  OBVIOUS
<1>1. ASSUME NEW k \in Rescuer, RescuerDies(k) PROVE RecoveryInv'
  BY <1>1, QuitFits, RunGoesOn DEF RescuerDies, Quits
<1>2. ASSUME UNCHANGED recoveryVars PROVE RecoveryInv'
  BY <1>2, NothingMoves, OnwardStep DEF recoveryVars, RecoveryInv, RecoveryTyped, RecoveredRightly
<1>. QED  BY <1>1, <1>2, ClaimStaleInv, ReadingInv, FreeTargetInv, RevertSessionInv,
             SettleActionInv, LapseInv, NewcomerInv DEF RecoveryNext

\* See RecoveredRightly: for every number of dead actions, of runs that claim them one
\* after another, and of sessions that take what they give back.
THEOREM RecoveryLeavesNothing == RecoverySpec => []RecoveredRightly
<1>1. RecoveryInit => RecoveryInv
  BY RecoveryInitInv DEF RecoveryInit
<1>2. RecoveryInv => RecoveredRightly
  BY DEF RecoveryInv
<1>. QED  BY <1>1, <1>2, RecoveryStepInv, PTL DEF RecoverySpec

-----------------------------------------------------------------------------
(* ConnectivityView: what a user is shown of a session.                    *)

SitFields == {"owner", "state", "was", "on", "to", "step"}
ScreenFields == {"pc", "s", "on", "looks", "whose", "shows", "row", "metrics", "skipped"}
ViewTyped ==
  /\ 0 \notin DOMAIN sits /\ \A s \in DOMAIN sits : DOMAIN sits[s] = SitFields
  /\ DOMAIN gauge = DOMAIN slots /\ IsList(taken)
  /\ views = [v \in Viewer |-> views[v]] /\ \A v \in Viewer : DOMAIN views[v] = ScreenFields

\* A session that stands or switches uses what it is on, and holds what it switches to; one
\* that has given its resource back to end uses it no more.
SitOver == {"end", "ended"}
Holding(r, state, s) == r \in DOMAIN slots /\ slots[r] = [state |-> state, by |-> s]
SitFits(x, s) ==
  /\ x.step \in {"still", "reserve", "use", "stand", "activate", "let go", "end", "ended"}
  /\ x.state \in {"ACTIVE", "DEGRADED", "SWITCHING"} /\ x.step \notin SitOver => Uses(s, x.on)
  /\ x.step \in {"reserve", "use", "stand", "activate", "let go"} =>
       x.state \in {"ACTIVE", "SWITCHING"} /\ x.to # x.on
  /\ x.step = "reserve" => x.to \in DOMAIN slots
  /\ x.step = "use" => Holding(x.to, "RESERVED", s)
  /\ x.step \in {"stand", "activate"} => Holding(x.to, "IN_USE", s)
  /\ x.step \in SitOver => ~Uses(s, x.on)

\* A health row is of its resource.
GaugeFits == \A r \in DOMAIN gauge : gauge[r] # 0 => gauge[r] \in DOMAIN taken /\ taken[gauge[r]] = r

\* What a request has read: a session that it looks at and did not find using its resource,
\* with an account of its own, has another's account or has given the resource back for good.
ScreenFits(b, v) ==
  /\ b.pc \in {"idle", "session", "chain", "health", "metrics", "done"}
  /\ b.pc # "idle" => b.s \in DOMAIN sits
  /\ b.pc = "chain" => \/ v \in sound \/ bond[b.looks] # b.whose
                       \/ sits[b.s].step \in SitOver /\ sits[b.s].on = b.looks
  /\ b.pc \in {"health", "metrics", "done"} /\ b.shows = "ACTIVE" => v \in sound \/ b.skipped
  /\ b.pc \in {"idle", "session", "chain", "health"} => b.row = 0 /\ b.metrics = 0
  /\ b.pc \in {"metrics", "done"} /\ b.row # 0 => b.row \in DOMAIN taken /\ taken[b.row] = b.on
  /\ b.pc = "done" => b.metrics = b.row

ViewInv ==
  /\ ViewTyped /\ GaugeFits
  /\ \A s \in DOMAIN sits : SitFits(sits[s], s)
  /\ \A v \in Viewer : ScreenFits(views[v], v)

LEMMA ViewInitInv ==
  ASSUME NEW plan \in ViewPlans, ViewInitOf(plan)
  PROVE  ViewInv
<1>1. /\ sits = plan.sits /\ slots = plan.slots /\ taken = << >> /\ sound = {}
      /\ gauge = [r \in DOMAIN slots |-> 0] /\ views = [v \in Viewer |-> Fresh]
  BY DEF ViewInitOf
<1>2. IsList(taken)
  BY <1>1 DEF IsList
<1>3. ViewTyped
  <2>1. \A v \in Viewer : DOMAIN views[v] = ScreenFields
    BY <1>1 DEF ScreenFields, Fresh
  <2>2. 0 \notin DOMAIN sits /\ \A s \in DOMAIN sits : DOMAIN sits[s] = SitFields
    <3>1. /\ 0 \notin DOMAIN plan.sits
          /\ \A s \in DOMAIN plan.sits :
               DOMAIN plan.sits[s] = {"owner", "state", "was", "on", "to", "step"}
      BY ViewAssumption
    <3>. QED  BY <1>1, <3>1 DEF SitFields
  <2>3. DOMAIN gauge = DOMAIN slots /\ views = [v \in Viewer |-> views[v]]
    BY <1>1
  <2>. QED  BY <1>2, <2>1, <2>2, <2>3 DEF ViewTyped
<1>4. \A s \in DOMAIN sits : SitFits(sits[s], s)
  BY <1>1, ViewAssumption DEF SitFits, SitOver, Uses
<1>5. \A v \in Viewer : ScreenFits(views[v], v)
  BY <1>1 DEF ScreenFits, Fresh
<1>. QED  BY <1>1, <1>3, <1>4, <1>5 DEF ViewInv, GaugeFits

\* The fields of a session's row, or of a request's, after some change.
LEMMA SitsRow ==
  ASSUME ViewInv, NEW s \in DOMAIN sits, NEW changes, Sits(s, changes)
  PROVE  \E row : /\ sits' = [sits EXCEPT ![s] = row] /\ DOMAIN row = SitFields
                  /\ \A f \in SitFields : row[f] = IF f \in DOMAIN changes THEN changes[f]
                                                   ELSE sits[s][f]
<1>1. PICK old : old = sits[s]
  OBVIOUS
<1>2. PICK row : row = [f \in DOMAIN old |-> IF f \in DOMAIN changes THEN changes[f] ELSE old[f]]
  OBVIOUS
<1>3. sits' = [sits EXCEPT ![s] = row]
  BY <1>1, <1>2 DEF Sits
<1>4. DOMAIN old = SitFields
  BY <1>1 DEF ViewInv, ViewTyped
<1>5. /\ DOMAIN row = SitFields
      /\ \A f \in SitFields : row[f] = IF f \in DOMAIN changes THEN changes[f] ELSE sits[s][f]
  BY <1>1, <1>2, <1>4
<1>. QED  BY <1>3, <1>5

LEMMA NotesRow ==
  ASSUME ViewInv, NEW v \in Viewer, NEW changes, Notes(v, changes)
  PROVE  \E row : /\ views' = [views EXCEPT ![v] = row] /\ DOMAIN row = ScreenFields
                  /\ \A f \in ScreenFields : row[f] = IF f \in DOMAIN changes THEN changes[f]
                                                      ELSE views[v][f]
<1>1. PICK old : old = views[v]
  OBVIOUS
<1>2. PICK row : row = [f \in DOMAIN old |-> IF f \in DOMAIN changes THEN changes[f] ELSE old[f]]
  OBVIOUS
<1>3. views' = [views EXCEPT ![v] = row]
  BY <1>1, <1>2 DEF Notes
<1>4. DOMAIN old = ScreenFields
  BY <1>1 DEF ViewInv, ViewTyped
<1>5. /\ DOMAIN row = ScreenFields
      /\ \A f \in ScreenFields : row[f] = IF f \in DOMAIN changes THEN changes[f] ELSE views[v][f]
  BY <1>1, <1>2, <1>4
<1>. QED  BY <1>3, <1>5

\* Slots that a session's step may move: free ones and its own.
SlotsMove(s) ==
  /\ DOMAIN slots' = DOMAIN slots
  /\ \A r \in DOMAIN slots :
       \/ slots'[r] = slots[r]
       \/ /\ slots[r].state = "AVAILABLE" \/ slots[r].by = s
          /\ \E state : slots'[r] = [state |-> state, by |-> s] \/ slots'[r] = [state |-> state, by |-> 0]

LEMMA OtherSitsFit ==
  ASSUME NEW s, NEW t, t # s, t # 0, SlotsMove(s), NEW x, SitFits(x, t)
  PROVE  SitFits(x, t)'
<1>1. ASSUME NEW r, NEW state \in {"IN_USE", "RESERVED"}, Holding(r, state, t)
      PROVE  Holding(r, state, t)'
  BY <1>1 DEF SlotsMove, Holding
<1>2. ASSUME NEW r, Uses(t, r)' PROVE Uses(t, r)
  BY <1>2 DEF SlotsMove, Uses
<1>3. \A r : Uses(t, r) <=> Holding(r, "IN_USE", t)
  BY DEF Uses, Holding
<1>4. \A r : Uses(t, r) => Uses(t, r)'
  BY <1>1, <1>3 DEF Uses, Holding
<1>5. DOMAIN slots' = DOMAIN slots
  BY DEF SlotsMove
<1>. QED  BY <1>1, <1>2, <1>4, <1>5 DEF SitFits

\* Requests in progress stay sound, and theirs whose resource is given back stay so.
LEMMA ScreenStays ==
  ASSUME ViewInv, NEW v \in Viewer, Witness, views'[v] = views[v],
         DOMAIN sits \subseteq DOMAIN sits',
         \A s \in DOMAIN sits : sits[s].step \in SitOver =>
           sits'[s].step \in SitOver /\ sits'[s].on = sits[s].on,
         \A m \in DOMAIN taken : m \in DOMAIN taken' /\ taken'[m] = taken[m]
  PROVE  ScreenFits(views[v], v)'
<1>1. PICK b : b = views[v]
  OBVIOUS
<1>2. ScreenFits(b, v)
  BY <1>1 DEF ViewInv
<1>3. b.pc # "idle" /\ v \in sound => v \in sound'
  BY <1>1 DEF Witness
<1>4. bond' = bond
  BY DEF Witness
<1>5. ScreenFits(b, v)'
  BY <1>2, <1>3, <1>4 DEF ScreenFits
<1>. QED  BY <1>1, <1>5

\* A step of one session.
LEMMA SitStep ==
  ASSUME ViewInv, Witness, NEW s \in DOMAIN sits, NEW row, sits' = [sits EXCEPT ![s] = row],
         DOMAIN row = SitFields, SlotsMove(s), SitFits(row, s)',
         sits[s].step \in SitOver => row.step \in SitOver /\ row.on = sits[s].on,
         UNCHANGED Health
  PROVE  ViewInv'
<1>1. /\ DOMAIN sits' = DOMAIN sits /\ sits'[s] = row
      /\ \A t \in DOMAIN sits : t # s => sits'[t] = sits[t]
      /\ UNCHANGED <<gauge, taken, views>>
  BY DEF Health
<1>2. ViewTyped' /\ GaugeFits'
  BY <1>1 DEF ViewInv, ViewTyped, GaugeFits, SlotsMove
<1>3. ASSUME NEW t \in DOMAIN sits, t # s PROVE SitFits(sits[t], t)'
  <2>1. PICK x : x = sits[t]
    OBVIOUS
  <2>2. SitFits(x, t) /\ t # 0
    BY <2>1 DEF ViewInv, ViewTyped
  <2>3. SitFits(x, t)'
    BY <1>3, <2>2, OtherSitsFit
  <2>. QED  BY <1>1, <1>3, <2>1, <2>3
<1>4. \A t \in DOMAIN sits' : SitFits(sits[t], t)'
  BY <1>1, <1>3
<1>5. ASSUME NEW v \in Viewer PROVE ScreenFits(views[v], v)' BY <1>1, ScreenStays
<1>. QED  BY <1>2, <1>4, <1>5 DEF ViewInv

LEMMA PutsMove ==
  ASSUME NEW r, NEW state, NEW s, NEW by \in {s, 0}, Puts(r, state, by),
         r \in DOMAIN slots => slots[r].state = "AVAILABLE" \/ slots[r].by = s
  PROVE  /\ SlotsMove(s) /\ DOMAIN slots' = DOMAIN slots
         /\ r \in DOMAIN slots => slots'[r] = [state |-> state, by |-> by]
         /\ \A x \in DOMAIN slots : x # r => slots'[x] = slots[x]
BY DEF Puts, SlotsMove

LEMMA SlotsStand ==
  ASSUME NEW s, UNCHANGED slots
  PROVE  SlotsMove(s) /\ \A x : SitFits(x, s) => SitFits(x, s)'
BY DEF SlotsMove, SitFits, Uses, Holding

LEMMA BeginSwitchInv ==
  ASSUME ViewInv, Witness, NEW s \in DOMAIN sits, NEW r \in DOMAIN slots, BeginSwitch(s, r)
  PROVE  ViewInv'
<1>1. PICK x : x = sits[s]
  OBVIOUS
<1>2. /\ SitFits(x, s) /\ x.step = "still" /\ x.state \in {"ACTIVE", "DEGRADED"} /\ r # x.on
      /\ UNCHANGED slots /\ UNCHANGED Health
  BY <1>1 DEF ViewInv, BeginSwitch
<1>3. PICK changes : changes = [step |-> "reserve", state |-> "SWITCHING", was |-> x.state, to |-> r]
  OBVIOUS
<1>4. Sits(s, changes)
  BY <1>1, <1>3 DEF BeginSwitch
<1>5. PICK row : /\ sits' = [sits EXCEPT ![s] = row] /\ DOMAIN row = SitFields
                 /\ \A f \in SitFields : row[f] = IF f \in DOMAIN changes THEN changes[f]
                                                  ELSE sits[s][f]
  BY <1>4, SitsRow
<1>6. row.step = "reserve" /\ row.state = "SWITCHING" /\ row.to = r /\ row.on = x.on
  BY <1>1, <1>3, <1>5 DEF SitFields
<1>7. SitFits(row, s)
  BY <1>2, <1>6 DEF SitFits, SitOver
<1>. QED  BY <1>1, <1>2, <1>5, <1>7, SlotsStand, SitStep DEF SitOver

LEMMA ReserveForSwitchInv ==
  ASSUME ViewInv, Witness, NEW s \in DOMAIN sits, ReserveForSwitch(s)
  PROVE  ViewInv'
<1>1. PICK x : x = sits[s]
  OBVIOUS
<1>2. SitFits(x, s) /\ x.step = "reserve" /\ UNCHANGED Health
  BY <1>1 DEF ViewInv, ReserveForSwitch
<1>3. CASE Puts(x.to, "RESERVED", s) /\ Sits(s, [step |-> "use"]) /\ slots[x.to].state = "AVAILABLE"
  <2>1. PICK row : /\ sits' = [sits EXCEPT ![s] = row] /\ DOMAIN row = SitFields
                   /\ \A f \in SitFields : row[f] = IF f \in DOMAIN [step |-> "use"]
                                                    THEN [step |-> "use"][f] ELSE sits[s][f]
    BY <1>3, SitsRow
  <2>2. row.step = "use" /\ row.state = x.state /\ row.to = x.to /\ row.on = x.on
    BY <1>1, <2>1 DEF SitFields
  <2>3. PICK r : r = x.to
    OBVIOUS
  <2>4. /\ SlotsMove(s) /\ DOMAIN slots' = DOMAIN slots
        /\ r \in DOMAIN slots => slots'[r] = [state |-> "RESERVED", by |-> s]
        /\ \A y \in DOMAIN slots : y # r => slots'[y] = slots[y]
    <3>1. Puts(r, "RESERVED", s) /\ slots[r].state = "AVAILABLE"
      BY <1>3, <2>3
    <3>. QED  BY <3>1, PutsMove
  <2>5. r \in DOMAIN slots
    BY <1>2, <2>3 DEF SitFits
  <2>6. SitFits(row, s)'
    BY <1>2, <2>2, <2>3, <2>4, <2>5 DEF SitFits, SitOver, Uses, Holding
  <2>. QED  BY <1>1, <1>2, <2>1, <2>4, <2>6, SitStep DEF SitOver
<1>4. CASE UNCHANGED slots /\ Sits(s, [step |-> "still", state |-> x.was])
  <2>1. PICK changes : changes = [step |-> "still", state |-> x.was]
    OBVIOUS
  <2>2. PICK row : /\ sits' = [sits EXCEPT ![s] = row] /\ DOMAIN row = SitFields
                   /\ \A f \in SitFields : row[f] = IF f \in DOMAIN changes THEN changes[f]
                                                    ELSE sits[s][f]
    BY <1>4, <2>1, SitsRow
  <2>3. row.step = "still" /\ row.on = x.on
    BY <1>1, <2>1, <2>2 DEF SitFields
  <2>4. SitFits(row, s)
    BY <1>2, <2>3 DEF SitFits, SitOver
  <2>. QED  BY <1>1, <1>2, <1>4, <2>2, <2>4, SlotsStand, SitStep DEF SitOver
<1>. QED  BY <1>1, <1>3, <1>4 DEF ReserveForSwitch

LEMMA UseTargetInv ==
  ASSUME ViewInv, Witness, NEW s \in DOMAIN sits, UseTarget(s)
  PROVE  ViewInv'
<1>1. PICK x : x = sits[s]
  OBVIOUS
<1>2. SitFits(x, s) /\ x.step = "use" /\ UNCHANGED Health
  BY <1>1 DEF ViewInv, UseTarget, Step
<1>3. PICK changes : changes = [step |-> "stand"]
  OBVIOUS
<1>4. PICK row : /\ sits' = [sits EXCEPT ![s] = row] /\ DOMAIN row = SitFields
                 /\ \A f \in SitFields : row[f] = IF f \in DOMAIN changes THEN changes[f]
                                                  ELSE sits[s][f]
  BY <1>1, <1>3, SitsRow DEF UseTarget, Step
<1>5. row.step = "stand" /\ row.state = x.state /\ row.to = x.to /\ row.on = x.on
  BY <1>1, <1>3, <1>4 DEF SitFields
<1>6. PICK r : r = x.to
  OBVIOUS
<1>7. r \in DOMAIN slots /\ slots[r].by = s /\ Puts(r, "IN_USE", s)
  BY <1>1, <1>2, <1>6 DEF SitFits, Holding, UseTarget
<1>8. /\ SlotsMove(s) /\ DOMAIN slots' = DOMAIN slots
      /\ r \in DOMAIN slots => slots'[r] = [state |-> "IN_USE", by |-> s]
      /\ \A y \in DOMAIN slots : y # r => slots'[y] = slots[y]
  BY <1>7, PutsMove
<1>9. SitFits(row, s)'
  BY <1>2, <1>5, <1>6, <1>7, <1>8 DEF SitFits, SitOver, Uses, Holding
<1>. QED  BY <1>1, <1>2, <1>4, <1>8, <1>9, SitStep DEF SitOver

LEMMA GiveTargetUpInv ==
  ASSUME ViewInv, Witness, NEW s \in DOMAIN sits, GiveTargetUp(s)
  PROVE  ViewInv'
<1>1. PICK x : x = sits[s]
  OBVIOUS
<1>2. SitFits(x, s) /\ x.step \in {"use", "stand"} /\ UNCHANGED Health
  BY <1>1 DEF ViewInv, GiveTargetUp
<1>3. PICK changes : changes = [step |-> "still", state |-> x.was]
  OBVIOUS
<1>4. PICK row : /\ sits' = [sits EXCEPT ![s] = row] /\ DOMAIN row = SitFields
                 /\ \A f \in SitFields : row[f] = IF f \in DOMAIN changes THEN changes[f]
                                                  ELSE sits[s][f]
  BY <1>1, <1>3, SitsRow DEF GiveTargetUp
<1>5. row.step = "still" /\ row.on = x.on
  BY <1>1, <1>3, <1>4 DEF SitFields
<1>6. PICK r : r = x.to
  OBVIOUS
<1>7. r \in DOMAIN slots /\ slots[r].by = s /\ Puts(r, "AVAILABLE", 0)
  <2>1. Puts(r, "AVAILABLE", 0)
    BY <1>1, <1>6 DEF GiveTargetUp
  <2>2. PICK state : Holding(r, state, s)
    BY <1>2, <1>6 DEF SitFits
  <2>3. slots[r] = [state |-> state, by |-> s] /\ r \in DOMAIN slots
    BY <2>2 DEF Holding
  <2>4. slots[r].by = s
    BY <2>3
  <2>. QED  BY <2>1, <2>3, <2>4
<1>8. /\ SlotsMove(s) /\ DOMAIN slots' = DOMAIN slots
      /\ \A y \in DOMAIN slots : y # r => slots'[y] = slots[y]
  BY <1>7, PutsMove
<1>9. SitFits(row, s)'
  BY <1>2, <1>5, <1>6, <1>8 DEF SitFits, SitOver, Uses, Holding
<1>. QED  BY <1>1, <1>2, <1>4, <1>8, <1>9, SitStep DEF SitOver

LEMMA StandOnTargetInv ==
  ASSUME ViewInv, Witness, NEW s \in DOMAIN sits, StandOnTarget(s)
  PROVE  ViewInv'
<1>1. PICK x : x = sits[s]
  OBVIOUS
<1>2. SitFits(x, s) /\ x.step = "stand" /\ UNCHANGED slots /\ UNCHANGED Health
  BY <1>1 DEF ViewInv, StandOnTarget
<1>3. PICK changes : changes = [step |-> "activate", on |-> x.to, to |-> x.on]
  OBVIOUS
<1>4. PICK row : /\ sits' = [sits EXCEPT ![s] = row] /\ DOMAIN row = SitFields
                 /\ \A f \in SitFields : row[f] = IF f \in DOMAIN changes THEN changes[f]
                                                  ELSE sits[s][f]
  BY <1>1, <1>3, SitsRow DEF StandOnTarget
<1>5. row.step = "activate" /\ row.on = x.to /\ row.to = x.on /\ row.state = x.state
  BY <1>1, <1>3, <1>4 DEF SitFields
<1>6. SitFits(row, s)
  BY <1>2, <1>5 DEF SitFits, SitOver, Uses, Holding
<1>. QED  BY <1>1, <1>2, <1>4, <1>6, SlotsStand, SitStep DEF SitOver

LEMMA EndSwitchInv ==
  ASSUME ViewInv, Witness, NEW s \in DOMAIN sits, EndSwitch(s)
  PROVE  ViewInv'
<1>1. PICK x : x = sits[s]
  OBVIOUS
<1>2. SitFits(x, s) /\ x.step = "activate" /\ UNCHANGED slots /\ UNCHANGED Health
  BY <1>1 DEF ViewInv, EndSwitch
<1>3. PICK changes : changes = [step |-> "let go", state |-> "ACTIVE"]
  OBVIOUS
<1>4. PICK row : /\ sits' = [sits EXCEPT ![s] = row] /\ DOMAIN row = SitFields
                 /\ \A f \in SitFields : row[f] = IF f \in DOMAIN changes THEN changes[f]
                                                  ELSE sits[s][f]
  <2>1. Sits(s, changes)
    BY <1>1, <1>3 DEF EndSwitch
  <2>. QED  BY <2>1, SitsRow
<1>5. row.step = "let go" /\ row.state = "ACTIVE" /\ row.to = x.to /\ row.on = x.on
  BY <1>1, <1>3, <1>4 DEF SitFields
<1>6. SitFits(row, s)
  BY <1>2, <1>5 DEF SitFits, SitOver, Uses, Holding
<1>. QED  BY <1>1, <1>2, <1>4, <1>6, SlotsStand, SitStep DEF SitOver

LEMMA LetOldGoInv ==
  ASSUME ViewInv, Witness, NEW s \in DOMAIN sits, LetOldGo(s)
  PROVE  ViewInv'
<1>1. PICK x : x = sits[s]
  OBVIOUS
<1>2. SitFits(x, s) /\ x.step = "let go" /\ UNCHANGED Health
  BY <1>1 DEF ViewInv, LetOldGo, Step
<1>3. PICK changes : changes = [step |-> "still"]
  OBVIOUS
<1>4. PICK row : /\ sits' = [sits EXCEPT ![s] = row] /\ DOMAIN row = SitFields
                 /\ \A f \in SitFields : row[f] = IF f \in DOMAIN changes THEN changes[f]
                                                  ELSE sits[s][f]
  <2>1. Sits(s, changes)
    BY <1>1, <1>3 DEF LetOldGo, Step
  <2>. QED  BY <2>1, SitsRow
<1>5. row.step = "still" /\ row.state = x.state /\ row.on = x.on
  BY <1>1, <1>3, <1>4 DEF SitFields
<1>6. PICK r : r = x.to
  OBVIOUS
<1>7. CASE Uses(s, r)
  <2>1. r \in DOMAIN slots /\ slots[r].by = s /\ Puts(r, "AVAILABLE", 0)
    <3>1. r \in DOMAIN slots /\ slots[r].by = s
      BY <1>7 DEF Uses
    <3>2. Puts(r, "AVAILABLE", 0)
      BY <1>1, <1>6, <1>7 DEF LetOldGo
    <3>. QED  BY <3>1, <3>2
  <2>2. /\ SlotsMove(s) /\ DOMAIN slots' = DOMAIN slots
        /\ \A y \in DOMAIN slots : y # r => slots'[y] = slots[y]
    BY <2>1, PutsMove
  <2>3. SitFits(row, s)'
    BY <1>2, <1>5, <1>6, <2>2 DEF SitFits, SitOver, Uses, Holding
  <2>. QED  BY <1>1, <1>2, <1>4, <2>2, <2>3, SitStep DEF SitOver
<1>8. CASE ~Uses(s, r)
  <2>1. UNCHANGED slots
    BY <1>1, <1>6, <1>8 DEF LetOldGo
  <2>2. SitFits(row, s)
    BY <1>2, <1>5 DEF SitFits, SitOver
  <2>. QED  BY <1>1, <1>2, <1>4, <2>1, <2>2, SlotsStand, SitStep DEF SitOver
<1>. QED  BY <1>7, <1>8

LEMMA SuspendOrResumeInv ==
  ASSUME ViewInv, Witness, NEW s \in DOMAIN sits, SuspendOrResume(s)
  PROVE  ViewInv'
<1>1. PICK x : x = sits[s]
  OBVIOUS
<1>2. SitFits(x, s) /\ x.step = "still" /\ UNCHANGED slots /\ UNCHANGED Health
  BY <1>1 DEF ViewInv, SuspendOrResume
<1>3. ASSUME NEW state, Sits(s, [state |-> state]), x.state \in {"ACTIVE", "DEGRADED"}
      PROVE  ViewInv'
  <2>1. PICK changes : changes = [state |-> state]
    OBVIOUS
  <2>2. PICK row : /\ sits' = [sits EXCEPT ![s] = row] /\ DOMAIN row = SitFields
                   /\ \A f \in SitFields : row[f] = IF f \in DOMAIN changes THEN changes[f]
                                                    ELSE sits[s][f]
    BY <1>3, <2>1, SitsRow
  <2>3. row.step = "still" /\ row.on = x.on
    BY <1>1, <1>2, <2>1, <2>2 DEF SitFields
  <2>4. SitFits(row, s)
    BY <1>2, <1>3, <2>3 DEF SitFits, SitOver
  <2>. QED  BY <1>1, <1>2, <2>2, <2>4, SlotsStand, SitStep DEF SitOver
<1>. QED  BY <1>1, <1>3 DEF SuspendOrResume

LEMMA ReleaseSessionInv ==
  ASSUME ViewInv, Witness, NEW s \in DOMAIN sits, ReleaseSession(s)
  PROVE  ViewInv'
<1>1. PICK x : x = sits[s]
  OBVIOUS
<1>2. SitFits(x, s) /\ x.step = "still" /\ UNCHANGED Health
  BY <1>1 DEF ViewInv, ReleaseSession, Step
<1>3. PICK changes : changes = [step |-> "end"]
  OBVIOUS
<1>4. PICK row : /\ sits' = [sits EXCEPT ![s] = row] /\ DOMAIN row = SitFields
                 /\ \A f \in SitFields : row[f] = IF f \in DOMAIN changes THEN changes[f]
                                                  ELSE sits[s][f]
  BY <1>1, <1>3, SitsRow DEF ReleaseSession, Step
<1>5. row.step = "end" /\ row.on = x.on
  BY <1>1, <1>3, <1>4 DEF SitFields
<1>6. PICK r : r = x.on
  OBVIOUS
<1>7. CASE Uses(s, r)
  <2>1. r \in DOMAIN slots /\ slots[r].by = s /\ Puts(r, "AVAILABLE", 0)
    BY <1>7, <1>1, <1>6 DEF Uses, ReleaseSession
  <2>2. /\ SlotsMove(s) /\ slots'[r] = [state |-> "AVAILABLE", by |-> 0]
    BY <2>1, PutsMove
  <2>3. SitFits(row, s)'
    BY <1>5, <1>6, <2>2 DEF SitFits, SitOver, Uses
  <2>. QED  BY <1>1, <1>2, <1>4, <2>2, <2>3, SitStep DEF SitOver
<1>8. CASE ~Uses(s, r)
  <2>1. UNCHANGED slots
    BY <1>1, <1>6, <1>8 DEF ReleaseSession
  <2>2. SitFits(row, s)
    BY <1>5, <1>6, <1>8 DEF SitFits, SitOver
  <2>. QED  BY <1>1, <1>2, <1>4, <2>1, <2>2, SlotsStand, SitStep DEF SitOver
<1>. QED  BY <1>7, <1>8

LEMMA EndSessionInv ==
  ASSUME ViewInv, Witness, NEW s \in DOMAIN sits, EndSession(s)
  PROVE  ViewInv'
<1>1. PICK x : x = sits[s]
  OBVIOUS
<1>2. SitFits(x, s) /\ x.step = "end" /\ UNCHANGED slots /\ UNCHANGED Health
  BY <1>1 DEF ViewInv, EndSession
<1>3. PICK changes : changes = [step |-> "ended", state |-> "ENDED"]
  OBVIOUS
<1>4. PICK row : /\ sits' = [sits EXCEPT ![s] = row] /\ DOMAIN row = SitFields
                 /\ \A f \in SitFields : row[f] = IF f \in DOMAIN changes THEN changes[f]
                                                  ELSE sits[s][f]
  BY <1>1, <1>3, SitsRow DEF EndSession
<1>5. row.step = "ended" /\ row.on = x.on
  BY <1>1, <1>3, <1>4 DEF SitFields
<1>6. SitFits(row, s)
  BY <1>2, <1>5 DEF SitFits, SitOver
<1>. QED  BY <1>1, <1>2, <1>4, <1>5, <1>6, SlotsStand, SitStep DEF SitOver

LEMMA StoreReadingInv ==
  ASSUME ViewInv, Witness, NEW r \in DOMAIN slots, StoreReading(r)
  PROVE  ViewInv'
<1>1. PICK q : q = taken
  OBVIOUS
<1>2. taken' = Append(q, r) /\ UNCHANGED <<sits, slots, gauge, views>> /\ IsList(q)
  BY <1>1 DEF StoreReading, ViewInv, ViewTyped
<1>3. PICK X : q \in Seq(X) /\ r \in X
  BY <1>2, ListWith
<1>4. PICK w : w = Append(q, r)
  OBVIOUS
<1>5. w \in Seq(X) /\ \A m \in DOMAIN q : m \in DOMAIN w /\ w[m] = q[m]
  BY <1>3, <1>4, AppendedTo
<1>6. IsList(w)
  BY <1>5, ListOf
<1>7. IsList(taken)' /\ \A m \in DOMAIN taken : m \in DOMAIN taken' /\ taken'[m] = taken[m]
  BY <1>1, <1>2, <1>4, <1>5, <1>6 DEF IsList
<1>8. ViewTyped' /\ GaugeFits'
  BY <1>2, <1>7 DEF ViewInv, ViewTyped, GaugeFits
<1>9. \A s \in DOMAIN sits : SitFits(sits[s], s)'
  BY <1>2 DEF ViewInv, SitFits, Uses, Holding
<1>10. ASSUME NEW v \in Viewer PROVE ScreenFits(views[v], v)'
  BY <1>2, <1>7, ScreenStays
<1>. QED  BY <1>2, <1>8, <1>9, <1>10 DEF ViewInv

LEMMA PersistHealthInv ==
  ASSUME ViewInv, Witness, NEW r \in DOMAIN slots, PersistHealth(r)
  PROVE  ViewInv'
<1>1. PICK m \in DOMAIN taken : taken[m] = r /\ gauge' = [gauge EXCEPT ![r] = m]
  BY DEF PersistHealth
<1>2. UNCHANGED <<sits, slots, taken, views>>
  BY DEF PersistHealth
<1>3. ViewTyped' /\ GaugeFits'
  BY <1>1, <1>2 DEF ViewInv, ViewTyped, GaugeFits, IsList
<1>4. \A s \in DOMAIN sits : SitFits(sits[s], s)'
  BY <1>2 DEF ViewInv, SitFits, Uses, Holding
<1>5. ASSUME NEW v \in Viewer PROVE ScreenFits(views[v], v)'
  BY <1>2, ScreenStays
<1>. QED  BY <1>2, <1>3, <1>4, <1>5 DEF ViewInv

\* A step of one request.
LEMMA ScreenStep ==
  ASSUME ViewInv, Witness, NEW v \in Viewer, NEW row, views' = [views EXCEPT ![v] = row],
         DOMAIN row = ScreenFields, UNCHANGED World, ScreenFits(row, v)'
  PROVE  ViewInv'
<1>1. /\ DOMAIN views' = Viewer /\ views'[v] = row
      /\ \A w \in Viewer : w # v => views'[w] = views[w]
      /\ UNCHANGED <<sits, slots, gauge, taken>>
  BY DEF World, ViewInv, ViewTyped
<1>2. ViewTyped' /\ GaugeFits'
  BY <1>1 DEF ViewInv, ViewTyped, GaugeFits, IsList
<1>3. \A s \in DOMAIN sits : SitFits(sits[s], s)'
  BY <1>1 DEF ViewInv, SitFits, Uses, Holding
<1>4. ASSUME NEW w \in Viewer PROVE ScreenFits(views[w], w)' BY <1>1, ScreenStays
<1>. QED  BY <1>1, <1>2, <1>3, <1>4 DEF ViewInv

\* What a step adds to the history of a request.
LEMMA Soundly ==
  ASSUME Witness, NEW v \in Viewer, views'[v].pc # "idle"
  PROVE  /\ v \in sound => v \in sound'
         /\ Chain(v)' => v \in sound'
BY DEF Witness

LEMMA FindSessionInv ==
  ASSUME ViewInv, Witness, NEW v \in Viewer, FindSession(v)
  PROVE  ViewInv'
<1>1. UNCHANGED World /\ views[v].pc = "idle"
  BY DEF FindSession
<1>2. PICK s \in DOMAIN sits :
        Notes(v, [pc |-> IF sits[s].state = "ACTIVE" THEN "session" ELSE "health",
                  s |-> s, on |-> sits[s].on, shows |-> sits[s].state])
  BY DEF FindSession, NewestOf
<1>3. PICK changes : changes = [pc |-> IF sits[s].state = "ACTIVE" THEN "session" ELSE "health",
                                s |-> s, on |-> sits[s].on, shows |-> sits[s].state]
  OBVIOUS
<1>4. PICK row : /\ views' = [views EXCEPT ![v] = row] /\ DOMAIN row = ScreenFields
                 /\ \A f \in ScreenFields : row[f] = IF f \in DOMAIN changes THEN changes[f]
                                                     ELSE views[v][f]
  BY <1>2, <1>3, NotesRow
<1>5. /\ row.pc = (IF sits[s].state = "ACTIVE" THEN "session" ELSE "health")
      /\ row.s = s /\ row.shows = sits[s].state
      /\ row.row = views[v].row /\ row.metrics = views[v].metrics
  BY <1>3, <1>4 DEF ScreenFields
<1>6. ScreenFits(views[v], v)
  BY DEF ViewInv
<1>7. views[v].row = 0 /\ views[v].metrics = 0
  BY <1>1, <1>6 DEF ScreenFits
<1>8. ScreenFits(row, v)'
  BY <1>1, <1>5, <1>7 DEF ScreenFits, World
<1>. QED  BY <1>1, <1>4, <1>8, ScreenStep

LEMMA CheckSessionInv ==
  ASSUME ViewInv, Witness, NEW v \in Viewer, CheckSession(v)
  PROVE  ViewInv'
<1>1. PICK b : b = views[v]
  OBVIOUS
<1>2. PICK now : now = sits[b.s]
  OBVIOUS
<1>3. /\ b.pc = "session" /\ UNCHANGED World
      /\ CASE now.state # "ACTIVE" -> Notes(v, [pc |-> "health", skipped |-> TRUE])
           [] now.state = "ACTIVE" /\ now.on = 0 ->
                Notes(v, [pc |-> "health", shows |-> "RECONCILIATION_REQUIRED"])
           [] OTHER -> Notes(v, [pc |-> "chain", looks |-> now.on, whose |-> now.owner])
  BY <1>1, <1>2, Zenon DEF CheckSession, Shown
<1>4. ScreenFits(b, v) /\ b.s \in DOMAIN sits /\ b.row = 0 /\ b.metrics = 0
  BY <1>1, <1>3 DEF ViewInv, ScreenFits
<1>5. UNCHANGED <<sits, slots, gauge, taken>>
  BY <1>3 DEF World
<1>6. ASSUME NEW changes, Notes(v, changes)
      PROVE  \E row : /\ views' = [views EXCEPT ![v] = row] /\ DOMAIN row = ScreenFields
                      /\ \A f \in ScreenFields : row[f] = IF f \in DOMAIN changes THEN changes[f]
                                                          ELSE b[f]
  BY <1>1, <1>6, NotesRow
<1>7. CASE now.state # "ACTIVE"
  <2>1. PICK changes : changes = [pc |-> "health", skipped |-> TRUE]
    OBVIOUS
  <2>2. Notes(v, changes)
    BY <1>3, <1>7, <2>1
  <2>3. PICK row : /\ views' = [views EXCEPT ![v] = row] /\ DOMAIN row = ScreenFields
                   /\ \A f \in ScreenFields : row[f] = IF f \in DOMAIN changes THEN changes[f]
                                                       ELSE b[f]
    BY <1>6, <2>2
  <2>4. row.pc = "health" /\ row.skipped = TRUE /\ row.s = b.s /\ row.row = b.row /\ row.metrics = b.metrics
    BY <2>1, <2>3 DEF ScreenFields
  <2>5. ScreenFits(row, v)'
    BY <1>4, <1>5, <2>4 DEF ScreenFits
  <2>. QED  BY <1>3, <2>3, <2>5, ScreenStep
<1>8. CASE now.state = "ACTIVE" /\ now.on = 0
  <2>1. PICK changes : changes = [pc |-> "health", shows |-> "RECONCILIATION_REQUIRED"]
    OBVIOUS
  <2>2. Notes(v, changes)
    BY <1>3, <1>8, <2>1
  <2>3. PICK row : /\ views' = [views EXCEPT ![v] = row] /\ DOMAIN row = ScreenFields
                   /\ \A f \in ScreenFields : row[f] = IF f \in DOMAIN changes THEN changes[f]
                                                       ELSE b[f]
    BY <1>6, <2>2
  <2>4. row.pc = "health" /\ row.shows # "ACTIVE" /\ row.s = b.s /\ row.row = b.row /\ row.metrics = b.metrics
    BY <2>1, <2>3 DEF ScreenFields
  <2>5. ScreenFits(row, v)'
    BY <1>4, <1>5, <2>4 DEF ScreenFits
  <2>. QED  BY <1>3, <2>3, <2>5, ScreenStep
<1>9. CASE now.state = "ACTIVE" /\ now.on # 0
  <2>1. PICK changes : changes = [pc |-> "chain", looks |-> now.on, whose |-> now.owner]
    OBVIOUS
  <2>2. Notes(v, changes)
    BY <1>3, <1>9, <2>1
  <2>3. PICK row : /\ views' = [views EXCEPT ![v] = row] /\ DOMAIN row = ScreenFields
                   /\ \A f \in ScreenFields : row[f] = IF f \in DOMAIN changes THEN changes[f]
                                                       ELSE b[f]
    BY <1>6, <2>2
  <2>4. /\ row.pc = "chain" /\ row.looks = now.on /\ row.whose = now.owner
        /\ row.s = b.s /\ row.row = b.row /\ row.metrics = b.metrics
    BY <2>1, <2>3 DEF ScreenFields
  <2>5. SitFits(now, b.s)
    BY <1>2, <1>4 DEF ViewInv
  <2>6. now.step \in SitOver \/ bond'[now.on] # now.owner \/ v \in sound'
    <3>1. SUFFICES ASSUME now.step \notin SitOver, bond'[now.on] = now.owner PROVE v \in sound'
      OBVIOUS
    <3>2. Uses(b.s, now.on)
      BY <1>9, <2>5, <3>1 DEF SitFits
    <3>3. views'[v] = row
      BY <2>3 DEF ViewInv, ViewTyped
    <3>4. Chain(v)'
      <4>1. views'[v].s = b.s /\ sits'[b.s].state = "ACTIVE" /\ sits'[b.s].on = now.on /\ slots' = slots
            /\ DOMAIN sits' = DOMAIN sits /\ bond'[now.on] = sits'[b.s].owner
        BY <1>2, <1>5, <1>9, <2>4, <3>1, <3>3
      <4>2. Uses(b.s, now.on)'
        BY <3>2, <4>1 DEF Uses
      <4>. QED  BY <1>4, <4>1, <4>2 DEF Chain, Uses
    <3>. QED  BY <2>4, <3>3, <3>4, Soundly
  <2>7. ScreenFits(row, v)'
    BY <1>2, <1>4, <1>5, <2>4, <2>6 DEF ScreenFits
  <2>. QED  BY <1>3, <2>3, <2>7, ScreenStep
<1>. QED  BY <1>7, <1>8, <1>9

LEMMA CheckChainInv ==
  ASSUME ViewInv, Witness, NEW v \in Viewer, CheckChain(v)
  PROVE  ViewInv'
<1>1. PICK b : b = views[v]
  OBVIOUS
<1>2. b.pc = "chain" /\ UNCHANGED World /\ Concludes(v, Uses(b.s, b.looks) /\ bond[b.looks] = b.whose)
  BY <1>1 DEF CheckChain, Shown
<1>3. ScreenFits(b, v) /\ b.s \in DOMAIN sits /\ b.row = 0 /\ b.metrics = 0
  BY <1>1, <1>2 DEF ViewInv, ScreenFits
<1>4. UNCHANGED <<sits, slots, gauge, taken>>
  BY <1>2 DEF World
<1>5. PICK says : /\ Notes(v, [pc |-> "health", shows |-> says])
                  /\ says = "ACTIVE" => Uses(b.s, b.looks) /\ bond[b.looks] = b.whose
  <2>. DEFINE own == Uses(b.s, b.looks) /\ bond[b.looks] = b.whose
  <2>1. PICK rest \in BOOLEAN :
          Notes(v, [pc |-> "health", shows |-> IF own /\ rest THEN "ACTIVE"
                                               ELSE "RECONCILIATION_REQUIRED"])
    BY <1>2 DEF Concludes
  <2>2. PICK says : says = (IF own /\ rest THEN "ACTIVE" ELSE "RECONCILIATION_REQUIRED")
    OBVIOUS
  <2>3. Notes(v, [pc |-> "health", shows |-> says])
    BY <2>1, <2>2
  <2>4. says = "ACTIVE" => own
    BY <2>2
  <2>. QED  BY <2>3, <2>4
<1>6. PICK changes : changes = [pc |-> "health", shows |-> says]
  OBVIOUS
<1>7. PICK row : /\ views' = [views EXCEPT ![v] = row] /\ DOMAIN row = ScreenFields
                 /\ \A f \in ScreenFields : row[f] = IF f \in DOMAIN changes THEN changes[f]
                                                     ELSE views[v][f]
  BY <1>5, <1>6, NotesRow
<1>8. row.pc = "health" /\ row.shows = says /\ row.s = b.s /\ row.row = b.row /\ row.metrics = b.metrics
  BY <1>1, <1>6, <1>7 DEF ScreenFields
<1>9. says = "ACTIVE" => v \in sound BY <1>3, <1>2, <1>5 DEF ViewInv, ScreenFits, SitFits
<1>10. says = "ACTIVE" => v \in sound' BY <1>7, <1>8, <1>9, Soundly DEF ViewInv, ViewTyped
<1>11. ScreenFits(row, v)'
  BY <1>3, <1>4, <1>8, <1>10 DEF ScreenFits
<1>. QED  BY <1>2, <1>7, <1>11, ScreenStep

LEMMA ReadHealthInv ==
  ASSUME ViewInv, Witness, NEW v \in Viewer, ReadHealth(v)
  PROVE  ViewInv'
<1>1. PICK b : b = views[v]
  OBVIOUS
<1>2. PICK m : m = IF b.on \in DOMAIN gauge THEN gauge[b.on] ELSE 0
  OBVIOUS
<1>3. PICK changes : changes = [pc |-> IF m = 0 THEN "done" ELSE "metrics", row |-> m]
  OBVIOUS
<1>4. b.pc = "health" /\ UNCHANGED World /\ Notes(v, changes)
  BY <1>1, <1>2, <1>3 DEF ReadHealth, Shown
<1>5. ScreenFits(b, v) /\ b.s \in DOMAIN sits /\ b.row = 0 /\ b.metrics = 0
  BY <1>1, <1>4 DEF ViewInv, ScreenFits
<1>6. UNCHANGED <<sits, slots, gauge, taken>>
  BY <1>4 DEF World
<1>7. PICK row : /\ views' = [views EXCEPT ![v] = row] /\ DOMAIN row = ScreenFields
                 /\ \A f \in ScreenFields : row[f] = IF f \in DOMAIN changes THEN changes[f]
                                                     ELSE views[v][f]
  BY <1>4, NotesRow
<1>8. /\ row.pc = (IF m = 0 THEN "done" ELSE "metrics") /\ row.row = m /\ row.s = b.s
      /\ row.on = b.on /\ row.metrics = 0 /\ row.shows = b.shows /\ row.skipped = b.skipped
  BY <1>1, <1>3, <1>5, <1>7 DEF ScreenFields
<1>9. m # 0 => m \in DOMAIN taken /\ taken[m] = b.on
  BY <1>2 DEF ViewInv, GaugeFits
<1>10. row.shows = "ACTIVE" => v \in sound' \/ row.skipped
  BY <1>7, <1>8, <1>4, <1>5, Soundly DEF ViewInv, ViewTyped, ScreenFits
<1>11. ScreenFits(row, v)'
  BY <1>5, <1>6, <1>8, <1>9, <1>10 DEF ScreenFits
<1>. QED  BY <1>4, <1>7, <1>11, ScreenStep

LEMMA ReadMetricsInv ==
  ASSUME ViewInv, Witness, NEW v \in Viewer, ReadMetrics(v)
  PROVE  ViewInv'
<1>1. PICK b : b = views[v]
  OBVIOUS
<1>2. PICK changes : changes = [pc |-> "done", metrics |-> b.row]
  OBVIOUS
<1>3. b.pc = "metrics" /\ UNCHANGED World /\ Notes(v, changes)
  BY <1>1, <1>2 DEF ReadMetrics, Shown
<1>4. ScreenFits(b, v)
  BY <1>1 DEF ViewInv
<1>5. UNCHANGED <<sits, slots, gauge, taken>>
  BY <1>3 DEF World
<1>6. PICK row : /\ views' = [views EXCEPT ![v] = row] /\ DOMAIN row = ScreenFields
                 /\ \A f \in ScreenFields : row[f] = IF f \in DOMAIN changes THEN changes[f]
                                                     ELSE views[v][f]
  BY <1>3, NotesRow
<1>7. /\ row.pc = "done" /\ row.row = b.row /\ row.s = b.s /\ row.on = b.on
      /\ row.metrics = b.row /\ row.shows = b.shows /\ row.skipped = b.skipped
  BY <1>1, <1>2, <1>6 DEF ScreenFields
<1>8. row.shows = "ACTIVE" => v \in sound' \/ row.skipped
  BY <1>6, <1>7, <1>3, <1>4, Soundly DEF ViewInv, ViewTyped, ScreenFits
<1>9. ScreenFits(row, v)'
  BY <1>3, <1>4, <1>5, <1>7, <1>8 DEF ScreenFits
<1>. QED  BY <1>3, <1>6, <1>9, ScreenStep

LEMMA AnswerViewInv ==
  ASSUME ViewInv, Witness, NEW v \in Viewer, AnswerView(v)
  PROVE  ViewInv'
BY ScreenStep DEF AnswerView, ScreenFits, Fresh, ScreenFields

LEMMA ViewStepInv ==
  ASSUME ViewInv, ViewNext \/ UNCHANGED viewVars
  PROVE  ViewInv'
<1>1. CASE ViewNext
  <2>1. Witness
    BY <1>1 DEF ViewNext
  <2>2. ASSUME NEW s \in DOMAIN sits, NEW r \in DOMAIN slots, BeginSwitch(s, r) PROVE ViewInv'
    BY <2>1, <2>2, BeginSwitchInv
  <2>3. ASSUME NEW s \in DOMAIN sits,
               \/ ReserveForSwitch(s) \/ UseTarget(s) \/ GiveTargetUp(s) \/ StandOnTarget(s)
               \/ EndSwitch(s) \/ LetOldGo(s) \/ SuspendOrResume(s) \/ ReleaseSession(s)
               \/ EndSession(s)
        PROVE  ViewInv'
    BY <2>1, <2>3, ReserveForSwitchInv, UseTargetInv, GiveTargetUpInv, StandOnTargetInv,
       EndSwitchInv, LetOldGoInv, SuspendOrResumeInv, ReleaseSessionInv, EndSessionInv
  <2>4. ASSUME NEW r \in DOMAIN slots, StoreReading(r) \/ PersistHealth(r) PROVE ViewInv'
    BY <2>1, <2>4, StoreReadingInv, PersistHealthInv
  <2>5. ASSUME NEW v \in Viewer,
               \/ FindSession(v) \/ CheckSession(v) \/ CheckChain(v) \/ ReadHealth(v)
               \/ ReadMetrics(v) \/ AnswerView(v)
        PROVE  ViewInv'
    BY <2>1, <2>5, FindSessionInv, CheckSessionInv, CheckChainInv, ReadHealthInv,
       ReadMetricsInv, AnswerViewInv
  <2>. QED  BY <1>1, <2>2, <2>3, <2>4, <2>5 DEF ViewNext
<1>2. CASE UNCHANGED viewVars
  <2>1. UNCHANGED <<sits, slots, bond, gauge, taken, views, sound>>
    BY <1>2 DEF viewVars
  <2>2. ViewTyped' /\ GaugeFits'
    BY <2>1 DEF ViewInv, ViewTyped, GaugeFits, IsList
  <2>3. \A s \in DOMAIN sits : SitFits(sits[s], s)'
    BY <2>1 DEF ViewInv, SitFits, Uses, Holding
  <2>4. \A v \in Viewer : ScreenFits(views[v], v)'
    BY <2>1 DEF ViewInv, ScreenFits
  <2>. QED  BY <2>1, <2>2, <2>3, <2>4 DEF ViewInv
<1>. QED  BY <1>1, <1>2

LEMMA ViewInvSays ==
  ASSUME ViewInv
  PROVE  ViewIsTrue
BY DEF ViewInv, ScreenFits, ViewIsTrue, Shown

\* ConnectivityView: a session is shown ACTIVE only if, at some moment of the request, it stood
\* ACTIVE on a resource that it used with an account of its own, or left ACTIVE between the two reads of it; and the
\* readings shown are those that the shown health was derived from, and of the resource shown.
THEOREM ViewsAreTrue == ViewSpec => []ViewIsTrue
<1>1. ViewInit => ViewInv
  BY ViewInitInv DEF ViewInit
<1>2. ViewInv /\ [ViewNext]_viewVars => ViewInv'
  BY ViewStepInv
<1>3. ViewInv => ViewIsTrue
  BY ViewInvSays
<1>. QED  BY <1>1, <1>2, <1>3, PTL DEF ViewSpec

-----------------------------------------------------------------------------
(* The five together: one part moves at a time.                            *)

ServedInv == BridgeInv /\ RouteInv /\ EdgeInv /\ RecoveryInv /\ ViewInv

LEMMA ServedInitInv == Init => ServedInv
<1>. SUFFICES ASSUME Init PROVE ServedInv
  OBVIOUS
<1>1. BridgeInv BY BridgeAssumption, BridgeInitInv DEF Init, BridgeInit
<1>2. RouteInv BY RouteAssumption, RouteInitInv DEF Init, RouteInit
<1>3. EdgeInv BY EdgeAssumption, EdgeInitInv DEF Init, EdgeInit
<1>4. RecoveryInv BY RecoveryAssumption, RecoveryInitInv DEF Init, RecoveryInit
<1>5. ViewInv BY ViewAssumption, ViewInitInv DEF Init, ViewInit
<1>. QED  BY <1>1, <1>2, <1>3, <1>4, <1>5 DEF ServedInv

LEMMA ServedStepInv == ServedInv /\ [Next]_vars => ServedInv'
<1>. SUFFICES ASSUME ServedInv, [Next]_vars PROVE ServedInv'
  OBVIOUS
<1>1. BridgeInv'
  <2>1. CASE Linking(BridgeNext)
    BY <2>1, BridgeStepInv DEF ServedInv, Linking
  <2>2. CASE UNCHANGED bridgeVars
    BY <2>2, BridgeStepInv DEF ServedInv
  <2>3. Linking(BridgeNext) \/ UNCHANGED bridgeVars
    BY Zenon DEF Next, vars, Trades, Visits, Lines, LooksUp, Hunts, Works, Reporting, Procuring, Accounting, Rescuing, Showing
  <2>. QED  BY <2>1, <2>2, <2>3
<1>2. RouteInv'
  <2>1. CASE Works(RouteNext)
    BY <2>1, RouteStepInv DEF ServedInv, Works
  <2>2. CASE UNCHANGED routeVars
    BY <2>2, RouteStepInv DEF ServedInv
  <2>3. Works(RouteNext) \/ UNCHANGED routeVars
    BY Zenon DEF Next, vars, Linking, Trades, Visits, Lines, LooksUp, Hunts, Reporting, Procuring, Accounting, Rescuing, Showing
  <2>. QED  BY <2>1, <2>2, <2>3
<1>3. EdgeInv'
  <2>1. CASE Reporting(EdgeNext)
    BY <2>1, EdgeStepInv DEF ServedInv, Reporting
  <2>2. CASE UNCHANGED edgeVars
    BY <2>2, EdgeStepInv DEF ServedInv
  <2>3. Reporting(EdgeNext) \/ UNCHANGED edgeVars
    BY Zenon DEF Next, vars, Linking, Trades, Visits, Lines, LooksUp, Hunts, Works, Procuring, Accounting, Rescuing, Showing
  <2>. QED  BY <2>1, <2>2, <2>3
<1>4. RecoveryInv'
  <2>1. CASE Rescuing(RecoveryNext)
    BY <2>1, RecoveryStepInv DEF ServedInv, Rescuing
  <2>2. CASE UNCHANGED recoveryVars
    BY <2>2, RecoveryStepInv DEF ServedInv
  <2>3. Rescuing(RecoveryNext) \/ UNCHANGED recoveryVars
    BY Zenon DEF Next, vars, Linking, Trades, Visits, Lines, LooksUp, Hunts, Works, Reporting, Procuring, Accounting, Showing
  <2>. QED  BY <2>1, <2>2, <2>3
<1>5. ViewInv'
  <2>1. CASE Showing(ViewNext)
    BY <2>1, ViewStepInv DEF ServedInv, Showing
  <2>2. CASE UNCHANGED viewVars
    BY <2>2, ViewStepInv DEF ServedInv
  <2>3. Showing(ViewNext) \/ UNCHANGED viewVars
    BY Zenon DEF Next, vars, Linking, Trades, Visits, Lines, LooksUp, Hunts, Works, Reporting, Procuring, Accounting, Rescuing
  <2>. QED  BY <2>1, <2>2, <2>3
<1>. QED  BY <1>1, <1>2, <1>3, <1>4, <1>5 DEF ServedInv

\* A session is served over a binding of its own, a binding is asked over a client of its own
\* instance as configured, what a phone observes counts for its own session and resource, an
\* action recovered as FAILED leaves its session nothing and takes nothing of another's, and a
\* session is shown ACTIVE only on what it uses: the kernel bridge, the provider registry, the
\* ingestion of observations, the recovery of actions and the read model, each among all that
\* runs beside it.
THEOREM SessionsAreServedByTheirOwn == Spec => []ServedByOwn
<1>1. ServedInv => ServedByOwn
  BY BridgeInvSays, RouteInvSays, EdgeInvSays, ViewInvSays
     DEF ServedInv, ServedByOwn, RecoveryInv
<1>. QED  BY <1>1, ServedInitInv, ServedStepInv, PTL DEF Spec
================================================================================

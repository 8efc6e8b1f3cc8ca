------------------------- MODULE OrderFulfillmentProofs -------------------------
(***************************************************************************)
(* Theorems about the fulfilment of orders, for every set of orders,       *)
(* requests and offers, every price and every bound on failures, and about *)
(* the catalogue that is sold.                                             *)
(***************************************************************************)
EXTENDS OrderFulfillment, Catalogue, SequenceTheorems, FiniteSetTheorems,
        SumLaws, TLAPS

-----------------------------------------------------------------------------
(* The inductive invariant.                                                *)

\* Where a request relies on a reservation, a payment, an eSIM, a sale.
ReservedPc == Providing \cup Booking \cup {"release", "releaseTx"}
PaidPc == {"payConfirmed"} \cup Selecting \cup Providing \cup Booking
DeliveredPc == {"entity", "success", "provisioned", "completed"} \cup Booking
SoldPc == {"prov", "provPost", "finish"}

\* What a request may rely on, by where it is.  Other requests only add to it.
Facts(l) ==
  /\ l.pc # "idle" => l.order \in Order
  /\ l.pc = "initiate" => l.intent \in DOMAIN intent[l.order]
  /\ l.pc = "verify" => l.read.ref \in DOMAIN intent[l.order]
  /\ l.pc \in {"reserve", "check", "hold", "row"} => l.offer \in Offer
  /\ l.pc \in ReservedPc => l.row \in DOMAIN resv /\ resv[l.row].order = l.order
  /\ l.pc \in PaidPc => l.order \in PaidAtProvider
  /\ l.pc \in DeliveredPc => l.order \in esim
  /\ l.pc \in SoldPc => <<"sale", l.order>> \in ledger

AllFacts == \A r \in Request : Facts(at[r])

\* What an order row says of the payment is so at the payment provider.
RowFacts ==
  \A o \in Order :
    /\ ord[o].ref # 0 => ord[o].ref \in DOMAIN intent[o]
    /\ ord[o].pay = "succeeded" => o \in PaidAtProvider

IInv == TypeOK /\ AllFacts /\ RowFacts /\ DeliveryIsReal

-----------------------------------------------------------------------------
(* What no step takes back, and what a request's move keeps.               *)

Grows ==
  /\ \A o \in Order : DOMAIN intent[o] \subseteq DOMAIN intent'[o]
  /\ PaidAtProvider \subseteq PaidAtProvider'
  /\ esim \subseteq esim'
  /\ ledger \subseteq ledger'
  /\ \A i \in DOMAIN resv : i \in DOMAIN resv' /\ resv'[i].order = resv[i].order

LEMMA FactsGrow ==
  ASSUME Grows, NEW l \in Local, Facts(l)
  PROVE  Facts(l)'
BY DEF Grows, Facts

LEMMA QuietGrows ==
  ASSUME UNCHANGED <<esim, intent, resv, ledger>>
  PROVE  Grows
BY DEF Grows, PaidAtProvider

\* Only r has moved, and its new facts hold.
LEMMA OneMoves ==
  ASSUME at \in [Request -> Local], AllFacts, Grows, NEW r \in Request,
         \A q \in Request \ {r} : at'[q] = at[q], Facts(at[r])'
  PROVE  AllFacts'
<1> SUFFICES ASSUME NEW q \in Request PROVE Facts(at[q])' BY DEF AllFacts
<1>1. CASE q = r BY <1>1
<1>2. CASE q # r
  <2>1. PICK l \in Local : l = at[q] OBVIOUS
  <2>2. Facts(l) BY <2>1 DEF AllFacts
  <2>3. Facts(l)' BY <2>2, FactsGrow
  <2>4. at'[q] = l BY <1>2, <2>1
  <2> QED BY <2>3, <2>4 DEF Facts
<1> QED BY <1>1, <1>2

\* No request has moved.
LEMMA OthersStay ==
  ASSUME at \in [Request -> Local], AllFacts, Grows, UNCHANGED at
  PROVE  AllFacts'
<1> SUFFICES ASSUME NEW q \in Request PROVE Facts(at[q])' BY DEF AllFacts
<1>1. PICK l \in Local : l = at[q] OBVIOUS
<1>2. Facts(l)' BY <1>1, FactsGrow DEF AllFacts
<1> QED BY <1>1, <1>2 DEF Facts

\* r moves on to pc with the order it has.
Moves(r, pc) ==
  /\ at' \in [Request -> Local]
  /\ \A q \in Request \ {r} : at'[q] = at[q]
  /\ at'[r].pc = pc
  /\ at'[r].order = at[r].order

LEMMA GoMoves ==
  ASSUME at \in [Request -> Local], NEW r \in Request, NEW pc \in Pc, Go(r, pc)
  PROVE  Moves(r, pc) /\ at'[r].row = at[r].row /\ at'[r].offer = at[r].offer
BY DEF Go, Local, Moves

LEMMA NewOrderType == NewOrder \in OrderRow
BY DEF NewOrder, OrderRow, OrderStatus, FulfillmentStatus

LEMMA ForgetMoves ==
  ASSUME at \in [Request -> Local], NEW r \in Request, NEW pc \in Pc, Forget(r, pc)
  PROVE  Moves(r, pc) /\ at'[r].row = at[r].row /\ at'[r].offer = at[r].offer
<1> DEFINE l == [at[r] EXCEPT !.pc = pc, !.read = NewOrder]
<1>1. at[r] \in Local OBVIOUS
<1>2. at' = [at EXCEPT ![r] = l] BY DEF Forget
<1>3. l \in Local BY <1>1, NewOrderType DEF Local
<1>4. l.pc = pc /\ l.order = at[r].order /\ l.row = at[r].row /\ l.offer = at[r].offer
  BY <1>1 DEF Local
<1> HIDE DEF l
<1> QED BY <1>2, <1>3, <1>4 DEF Moves

LEMMA DoneMoves ==
  ASSUME at \in [Request -> Local], AllFacts, Grows, NEW r \in Request, Done(r)
  PROVE  at' \in [Request -> Local] /\ AllFacts'
<1>1. Idle \in Local BY NewOrderType DEF Idle, Call, Local, Pc, Outside
<1>2. at' = [at EXCEPT ![r] = Idle] BY DEF Done
<1>3. at'[r] = Idle /\ \A q \in Request \ {r} : at'[q] = at[q] BY <1>1, <1>2
<1>4. Facts(at[r])'
  BY <1>3 DEF Facts, Idle, Call, ReservedPc, PaidPc, DeliveredPc, SoldPc,
              Selecting, Providing, Booking
<1> QED BY <1>1, <1>2, <1>3, <1>4, OneMoves

\* Moving on needs only what is new at pc.
LEMMA MoveKeeps ==
  ASSUME at \in [Request -> Local], AllFacts, Grows, NEW r \in Request,
         NEW pc \in Pc \ {"idle", "initiate", "verify"},
         at[r].pc # "idle", Moves(r, pc),
         pc \in {"reserve", "check", "hold", "row"} => at'[r].offer \in Offer,
         pc \in ReservedPc => at'[r].row \in DOMAIN resv' /\ resv'[at'[r].row].order = at[r].order,
         pc \in PaidPc => at[r].order \in PaidAtProvider',
         pc \in DeliveredPc => at[r].order \in esim',
         pc \in SoldPc => <<"sale", at[r].order>> \in ledger'
  PROVE  at' \in [Request -> Local] /\ AllFacts'
BY OneMoves DEF AllFacts, Facts, Moves

-----------------------------------------------------------------------------
(* Steps that change one order row at most.                                *)

Tells(row) ==
  row.status \in {"ESIM_PROVISIONED", "COMPLETED"} \/ row.ful = "success"
    \/ row.entity \/ row.fin # "pending"

LEMMA RowChange ==
  ASSUME IInv, UNCHANGED <<esim, intent, finance, shared>>, faults' \in 0..MaxFaults,
         at' \in [Request -> Local], AllFacts',
         NEW o \in Order, NEW row \in OrderRow, ord' = [ord EXCEPT ![o] = row],
         row.ref = ord[o].ref,
         row.pay = "succeeded" => o \in PaidAtProvider,
         Tells(row) => Tells(ord[o]) \/ o \in esim
  PROVE  IInv'
<1>1. ord \in [Order -> OrderRow] BY DEF IInv, TypeOK
<1>2. ord'[o] = row /\ \A p \in Order \ {o} : ord'[p] = ord[p] BY <1>1
<1>3. PaidAtProvider' = PaidAtProvider BY DEF PaidAtProvider
<1>4. TypeOK' BY <1>1 DEF IInv, TypeOK, finance
<1>5. RowFacts' BY <1>2, <1>3 DEF IInv, RowFacts
<1>6. DeliveryIsReal' BY <1>2 DEF Tells, IInv, DeliveryIsReal, finance
<1> QED BY <1>4, <1>5, <1>6 DEF IInv

LEMMA NoRowChange ==
  ASSUME IInv, UNCHANGED <<ord, esim, intent, finance>>, faults' \in 0..MaxFaults,
         shared' \subseteq Order, at' \in [Request -> Local], AllFacts'
  PROVE  IInv'
BY DEF IInv, TypeOK, RowFacts, DeliveryIsReal, PaidAtProvider, finance

\* The status of an order, and what the payment says.
LEMMA StatusRow ==
  ASSUME TypeOK, NEW o \in Order, NEW s \in OrderStatus
  PROVE  /\ [ord[o] EXCEPT !.status = s] \in OrderRow
         /\ [ord[o] EXCEPT !.status = s].ref = ord[o].ref
         /\ [ord[o] EXCEPT !.status = s].pay = ord[o].pay
         /\ Tells([ord[o] EXCEPT !.status = s])
              => Tells(ord[o]) \/ s \in {"ESIM_PROVISIONED", "COMPLETED"}
<1>1. PICK row \in OrderRow : row = ord[o] BY DEF TypeOK
<1>2. DEFINE next == [row EXCEPT !.status = s]
<1>3. next \in OrderRow /\ next.ref = row.ref /\ next.pay = row.pay BY DEF OrderRow
<1>4. next.status = s /\ next.ful = row.ful /\ next.entity = row.entity /\ next.fin = row.fin
  BY DEF OrderRow
<1>5. Tells(next) => Tells(row) \/ s \in {"ESIM_PROVISIONED", "COMPLETED"} BY <1>4 DEF Tells
<1> QED BY <1>1, <1>3, <1>5

LEMMA SetStatusKeeps ==
  ASSUME IInv, UNCHANGED <<esim, intent, finance, shared, faults>>,
         at' \in [Request -> Local], AllFacts',
         NEW o \in Order, NEW s \in OrderStatus, SetStatus(o, s),
         s \in {"ESIM_PROVISIONED", "COMPLETED"} => o \in esim
  PROVE  IInv'
<1> DEFINE row == [ord[o] EXCEPT !.status = s]
<1>1. TypeOK /\ RowFacts /\ faults' \in 0..MaxFaults BY DEF IInv, TypeOK
<1>2. row \in OrderRow /\ row.ref = ord[o].ref /\ row.pay = ord[o].pay
      /\ (Tells(row) => Tells(ord[o]) \/ o \in esim)
  BY <1>1, StatusRow
<1>3. ord' = [ord EXCEPT ![o] = row] BY DEF SetStatus
<1>4. row.pay = "succeeded" => o \in PaidAtProvider BY <1>1, <1>2 DEF RowFacts
<1> HIDE DEF row
<1> QED BY <1>1, <1>2, <1>3, <1>4, RowChange

LEMMA FulfillmentKeeps ==
  ASSUME IInv, UNCHANGED <<esim, intent, finance, shared, faults>>,
         at' \in [Request -> Local], AllFacts',
         NEW o \in Order, NEW from \in FulfillmentStatus,
         NEW to \in {"provisioning", "failed"}, TransitionFulfillment(o, from, to)
  PROVE  IInv'
<1> DEFINE row == [ord[o] EXCEPT !.ful = IF @ = from THEN to ELSE @]
<1>1. TypeOK /\ RowFacts /\ faults' \in 0..MaxFaults /\ ord[o] \in OrderRow BY DEF IInv, TypeOK
<1>2. row \in OrderRow /\ row.ref = ord[o].ref /\ row.pay = ord[o].pay
      /\ (Tells(row) => Tells(ord[o]) \/ o \in esim)
  BY <1>1 DEF OrderRow, FulfillmentStatus, Tells
<1>3. ord' = [ord EXCEPT ![o] = row] BY DEF TransitionFulfillment
<1>4. row.pay = "succeeded" => o \in PaidAtProvider BY <1>1, <1>2 DEF RowFacts
<1> HIDE DEF row
<1> QED BY <1>1, <1>2, <1>3, <1>4, RowChange

\* A step that changes nothing but where r is.
LEMMA GoKeeps ==
  ASSUME IInv, UNCHANGED <<ord, esim, intent, finance, shared, faults>>,
         NEW r \in Request, at[r].pc # "idle",
         NEW pc \in Pc \ {"idle", "initiate", "verify"}, Go(r, pc) \/ Forget(r, pc),
         pc \in {"reserve", "check", "hold", "row"} => at[r].offer \in Offer,
         pc \in ReservedPc => at[r].pc \in ReservedPc,
         pc \in PaidPc => at[r].order \in PaidAtProvider,
         pc \in DeliveredPc => at[r].order \in esim,
         pc \in SoldPc => <<"sale", at[r].order>> \in ledger
  PROVE  IInv'
<1>1. at \in [Request -> Local] /\ AllFacts /\ faults \in 0..MaxFaults /\ shared \subseteq Order
  BY DEF IInv, TypeOK
<1>2. Moves(r, pc) /\ at'[r].row = at[r].row /\ at'[r].offer = at[r].offer
  BY <1>1, GoMoves, ForgetMoves
<1>3. Grows BY QuietGrows DEF finance
<1>4. PaidAtProvider' = PaidAtProvider BY DEF PaidAtProvider
<1>5. at[r].pc \in ReservedPc => at[r].row \in DOMAIN resv' /\ resv'[at[r].row].order = at[r].order
  BY <1>1 DEF AllFacts, Facts, finance
<1>6. at' \in [Request -> Local] /\ AllFacts'
  BY <1>1, <1>2, <1>3, <1>4, <1>5, MoveKeeps DEF finance
<1> QED BY <1>1, <1>6, NoRowChange

LEMMA DoneKeeps ==
  ASSUME IInv, UNCHANGED <<ord, esim, intent, finance, shared, faults>>,
         NEW r \in Request, Done(r)
  PROVE  IInv'
BY QuietGrows, DoneMoves, NoRowChange DEF IInv, TypeOK, finance

-----------------------------------------------------------------------------
(* Payment.                                                                *)

\* What the places are, for the steps that move between them.
LEMMA Places ==
  /\ Pc = Outside \cup ReservedPc \cup PaidPc \cup Undoing
  /\ ReservedPc \cup {"failed", "failOrder"} \subseteq Pc \ {"idle", "initiate", "verify"}
  /\ PaidPc \cup {"payFailed", "outer"} \subseteq Pc \ {"idle", "initiate", "verify"}
BY DEF Pc, Outside, ReservedPc, PaidPc, Undoing, Selecting, Providing, Booking

LEMMA AtRequest ==
  ASSUME IInv, NEW r \in Request
  PROVE  /\ at[r] \in Local /\ Facts(at[r])
         /\ at[r].pc # "idle" => at[r].order \in Order /\ ord[at[r].order] \in OrderRow
BY DEF IInv, TypeOK, AllFacts, Facts

LEMMA VerifyPaymentKeeps ==
  ASSUME IInv, NEW r \in Request, VerifyPayment(r)
  PROVE  IInv'
<1> DEFINE o == at[r].order
           read == at[r].read
<1> USE DEF VerifyPayment
<1>1. o \in Order /\ read.ref \in DOMAIN intent[o] BY AtRequest DEF Facts
<1>2. CASE Forget(r, "payFailed")
  BY <1>2, GoKeeps DEF Pc, Outside, Undoing, Selecting, Providing, Booking,
                       ReservedPc, PaidPc, DeliveredPc, SoldPc
<1>3. CASE Done(r) BY <1>3, DoneKeeps
<1>4. CASE /\ intent[o][read.ref].status = "succeeded"
           /\ Forget(r, "fulfil") \/ Forget(r, "payConfirmed")
  <2>1. o \in PaidAtProvider BY <1>1, <1>4 DEF PaidAtProvider
  <2>2. CASE Forget(r, "fulfil")
    BY <2>1, <2>2, GoKeeps DEF Pc, Outside, Undoing, Selecting, Providing, Booking,
                               ReservedPc, DeliveredPc, SoldPc
  <2>3. CASE Forget(r, "payConfirmed")
    BY <2>1, <2>3, GoKeeps DEF Pc, Outside, Undoing, Selecting, Providing, Booking,
                               ReservedPc, DeliveredPc, SoldPc
  <2> QED BY <1>4, <2>2, <2>3
<1> QED BY <1>2, <1>3, <1>4

\* A row that gets a status and the payment's state, where the payment is so.
LEMMA PaymentRow ==
  ASSUME TypeOK, NEW o \in Order, NEW s \in {"PAYMENT_CONFIRMED", "PAYMENT_FAILED"},
         NEW p \in {"succeeded", "failed"}
  PROVE  LET row == [ord[o] EXCEPT !.status = s, !.pay = p] IN
         row \in OrderRow /\ row.ref = ord[o].ref /\ row.pay = p /\ (Tells(row) => Tells(ord[o]))
<1>1. PICK row \in OrderRow : row = ord[o] BY DEF TypeOK
<1>2. DEFINE next == [row EXCEPT !.status = s, !.pay = p]
<1>3. next \in OrderRow /\ next.ref = row.ref /\ next.pay = p BY DEF OrderRow, OrderStatus
<1>4. next.status = s /\ next.ful = row.ful /\ next.entity = row.entity /\ next.fin = row.fin
  BY DEF OrderRow
<1>5. Tells(next) => Tells(row) BY <1>4 DEF Tells
<1> QED BY <1>1, <1>3, <1>5

LEMMA PaymentFailedKeeps ==
  ASSUME IInv, NEW r \in Request, PaymentFailed(r)
  PROVE  IInv'
<1> DEFINE o == at[r].order
           row == [ord[o] EXCEPT !.status = "PAYMENT_FAILED", !.pay = "failed"]
<1> USE DEF PaymentFailed
<1>1. o \in Order /\ TypeOK /\ AllFacts /\ faults' \in 0..MaxFaults BY AtRequest DEF IInv, TypeOK
<1>2. Grows BY QuietGrows DEF finance
<1>3. at' \in [Request -> Local] /\ AllFacts' BY <1>1, <1>2, DoneMoves DEF TypeOK
<1>4. row \in OrderRow /\ row.ref = ord[o].ref /\ row.pay = "failed" /\ (Tells(row) => Tells(ord[o]))
  BY <1>1, PaymentRow
<1>5. ord' = [ord EXCEPT ![o] = row] OBVIOUS
<1> HIDE DEF row
<1> QED BY <1>1, <1>3, <1>4, <1>5, RowChange

LEMMA PaymentConfirmedKeeps ==
  ASSUME IInv, NEW r \in Request, PaymentConfirmed(r)
  PROVE  IInv'
<1> DEFINE o == at[r].order
           row == [ord[o] EXCEPT !.status = "PAYMENT_CONFIRMED", !.pay = "succeeded"]
<1> USE DEF PaymentConfirmed
<1>1. o \in Order /\ TypeOK /\ AllFacts /\ faults' \in 0..MaxFaults BY AtRequest DEF IInv, TypeOK
<1>2. o \in PaidAtProvider BY AtRequest DEF Facts, PaidPc
<1>3. Grows /\ PaidAtProvider' = PaidAtProvider BY QuietGrows DEF finance, PaidAtProvider
<1>4. Moves(r, "fulfil") BY <1>1, GoMoves DEF TypeOK, Pc, Selecting
<1>5. at' \in [Request -> Local] /\ AllFacts'
  BY <1>1, <1>2, <1>3, <1>4, MoveKeeps
     DEF TypeOK, Pc, Outside, Undoing, Selecting, Providing, Booking,
         ReservedPc, DeliveredPc, SoldPc
<1>6. row \in OrderRow /\ row.ref = ord[o].ref /\ row.pay = "succeeded"
      /\ (Tells(row) => Tells(ord[o]))
  BY <1>1, PaymentRow
<1>7. ord' = [ord EXCEPT ![o] = row] OBVIOUS
<1> HIDE DEF row
<1> QED BY <1>1, <1>2, <1>5, <1>6, <1>7, RowChange

LEMMA ProvisioningFailedKeeps ==
  ASSUME IInv, NEW r \in Request, ProvisioningFailed(r)
  PROVE  IInv'
<1> USE DEF ProvisioningFailed
<1>1. at[r].order \in Order /\ TypeOK /\ AllFacts BY AtRequest DEF IInv
<1>2. Grows BY QuietGrows DEF finance
<1>3. at' \in [Request -> Local] /\ AllFacts' BY <1>1, <1>2, DoneMoves DEF TypeOK
<1> QED BY <1>1, <1>3, SetStatusKeeps DEF OrderStatus

\* A call that begins keeps the facts if what it read gives it those of pc.
LEMMA BeginKeeps ==
  ASSUME IInv, NEW r \in Request, NEW o \in Order, NEW pc \in {"intent", "verify"},
         Begin(r, o, pc), UNCHANGED <<ord, esim, intent, finance, faults>>,
         pc = "verify" => ord[o].ref # 0
  PROVE  IInv'
<1> DEFINE l == Call(pc, o, ord[o])
<1>1. at \in [Request -> Local] /\ AllFacts /\ RowFacts /\ ord[o] \in OrderRow
      /\ faults' \in 0..MaxFaults /\ shared' \subseteq Order
  BY DEF IInv, TypeOK, Begin
<1>2. l \in Local BY <1>1 DEF Call, Local, Pc, Outside
<1>3. at' = [at EXCEPT ![r] = l] BY DEF Begin
<1>4. at'[r] = l /\ \A q \in Request \ {r} : at'[q] = at[q] BY <1>1, <1>3
<1>5. l.pc = pc /\ l.order = o /\ l.read = ord[o] BY DEF Call
<1> HIDE DEF l
<1>6. pc = "verify" => ord[o].ref \in DOMAIN intent[o] BY <1>1 DEF RowFacts
<1>7. Facts(at[r])'
  BY <1>4, <1>5, <1>6
     DEF Facts, ReservedPc, PaidPc, DeliveredPc, SoldPc, Selecting, Providing, Booking
<1>8. AllFacts' BY <1>1, <1>4, <1>7, OneMoves, QuietGrows DEF finance
<1> QED BY <1>1, <1>2, <1>3, <1>8, NoRowChange

-----------------------------------------------------------------------------
(* The payment provider's intents.                                         *)

\* An intent may be added or decided, one that succeeded stays.
IntentsGrow ==
  \A o \in Order : \A i \in DOMAIN intent[o] :
    /\ i \in DOMAIN intent'[o]
    /\ intent[o][i].status = "succeeded" => intent'[o][i].status = "succeeded"

LEMMA IntentSet ==
  ASSUME TypeOK, NEW o \in Order, NEW i \in DOMAIN intent[o], NEW new \in PaymentIntent,
         intent[o][i].status = "succeeded" => new.status = "succeeded",
         intent' = [intent EXCEPT ![o] = [@ EXCEPT ![i] = new]]
  PROVE  intent' \in [Order -> Seq(PaymentIntent)] /\ IntentsGrow
<1> DEFINE s == [intent[o] EXCEPT ![i] = new]
<1>1. intent \in [Order -> Seq(PaymentIntent)] /\ intent[o] \in Seq(PaymentIntent) BY DEF TypeOK
<1>2. s \in Seq(PaymentIntent) /\ DOMAIN s = DOMAIN intent[o] /\ s[i] = new
      /\ \A j \in DOMAIN intent[o] \ {i} : s[j] = intent[o][j]
  BY <1>1, ExceptSeq
<1>3. intent' = [intent EXCEPT ![o] = s] BY <1>1
<1> HIDE DEF s
<1>4. intent'[o] = s /\ \A p \in Order \ {o} : intent'[p] = intent[p] BY <1>1, <1>3
<1>5. intent' \in [Order -> Seq(PaymentIntent)] BY <1>1, <1>2, <1>3
<1>6. ASSUME NEW p \in Order, NEW j \in DOMAIN intent[p]
      PROVE  /\ j \in DOMAIN intent'[p]
             /\ intent[p][j].status = "succeeded" => intent'[p][j].status = "succeeded"
  BY <1>2, <1>4
<1> QED BY <1>5, <1>6 DEF IntentsGrow

LEMMA IntentAdded ==
  ASSUME TypeOK, NEW o \in Order, NEW new \in PaymentIntent,
         intent' = [intent EXCEPT ![o] = Append(@, new)]
  PROVE  /\ intent' \in [Order -> Seq(PaymentIntent)] /\ IntentsGrow
         /\ Len(intent'[o]) \in DOMAIN intent'[o]
<1> DEFINE s == Append(intent[o], new)
<1>1. intent \in [Order -> Seq(PaymentIntent)] /\ intent[o] \in Seq(PaymentIntent) BY DEF TypeOK
<1>2. s \in Seq(PaymentIntent) /\ Len(s) \in DOMAIN s
      /\ \A j \in DOMAIN intent[o] : j \in DOMAIN s /\ s[j] = intent[o][j]
  BY <1>1
<1>3. intent' = [intent EXCEPT ![o] = s] BY <1>1
<1> HIDE DEF s
<1>4. intent'[o] = s /\ \A p \in Order \ {o} : intent'[p] = intent[p] BY <1>1, <1>3
<1>5. intent' \in [Order -> Seq(PaymentIntent)] BY <1>1, <1>2, <1>3
<1>6. ASSUME NEW p \in Order, NEW j \in DOMAIN intent[p]
      PROVE  /\ j \in DOMAIN intent'[p]
             /\ intent[p][j].status = "succeeded" => intent'[p][j].status = "succeeded"
  BY <1>2, <1>4
<1> QED BY <1>2, <1>4, <1>5, <1>6 DEF IntentsGrow

LEMMA IntentGrows ==
  ASSUME IntentsGrow, UNCHANGED <<esim, resv, ledger>>
  PROVE  Grows
BY DEF Grows, IntentsGrow, PaidAtProvider

\* Of the rows, only what the payment says may change with the intents.
LEMMA IntentKeeps ==
  ASSUME IInv, Grows, UNCHANGED <<esim, finance, shared, faults>>,
         intent' \in [Order -> Seq(PaymentIntent)], ord' \in [Order -> OrderRow],
         \A o \in Order : /\ ord'[o].ref # 0 => ord'[o].ref \in DOMAIN intent'[o]
                          /\ ord'[o].pay = "succeeded" => o \in PaidAtProvider'
                          /\ Tells(ord'[o]) => Tells(ord[o]),
         at' \in [Request -> Local], AllFacts'
  PROVE  IInv'
BY DEF IInv, TypeOK, finance, RowFacts, DeliveryIsReal, Tells

LEMMA CreatePaymentIntentKeeps ==
  ASSUME IInv, NEW r \in Request, CreatePaymentIntent(r)
  PROVE  IInv'
<1> DEFINE o == at[r].order
           new == [status |-> "created", processed |-> FALSE]
<1> USE DEF CreatePaymentIntent
<1>1. o \in Order /\ TypeOK /\ AllFacts /\ RowFacts BY AtRequest DEF IInv
<1>2. at[r] \in Local /\ intent[o] \in Seq(PaymentIntent) BY <1>1 DEF TypeOK
<1>3. PICK i \in Nat \ {0} :
        /\ at' = [at EXCEPT ![r].pc = "initiate", ![r].intent = i]
        /\ i \in DOMAIN intent'[o]
        /\ intent' \in [Order -> Seq(PaymentIntent)]
        /\ IntentsGrow
  <2>1. CASE /\ \E i \in DOMAIN intent[o] : at' = [at EXCEPT ![r].pc = "initiate", ![r].intent = i]
             /\ UNCHANGED intent
    <3>1. PICK i \in DOMAIN intent[o] : at' = [at EXCEPT ![r].pc = "initiate", ![r].intent = i]
      BY <2>1
    <3>2. i \in Nat \ {0} BY <1>2
    <3>3. IntentsGrow /\ intent' \in [Order -> Seq(PaymentIntent)] /\ i \in DOMAIN intent'[o]
      BY <1>1, <2>1 DEF IntentsGrow, TypeOK
    <3> QED BY <3>1, <3>2, <3>3
  <2>2. CASE /\ intent' = [intent EXCEPT ![o] = Append(@, new)]
             /\ at' = [at EXCEPT ![r].pc = "initiate", ![r].intent = Len(intent'[o])]
    <3>1. new \in PaymentIntent BY DEF PaymentIntent
    <3> HIDE DEF new
    <3>2. /\ intent' \in [Order -> Seq(PaymentIntent)] /\ IntentsGrow
          /\ Len(intent'[o]) \in DOMAIN intent'[o]
      BY <1>1, <2>2, <3>1, IntentAdded
    <3>3. Len(intent'[o]) \in Nat \ {0} BY <1>1, <3>2
    <3> QED BY <2>2, <3>2, <3>3
  <2> QED BY <2>1, <2>2
<1> DEFINE l == [at[r] EXCEPT !.pc = "initiate", !.intent = i]
<1>4. l \in Local /\ l.pc = "initiate" /\ l.order = o /\ l.intent = i
  BY <1>2 DEF Local, Pc, Outside
<1>5. at' = [at EXCEPT ![r] = l] BY <1>3
<1> HIDE DEF l
<1>6. at' \in [Request -> Local] /\ at'[r] = l /\ \A q \in Request \ {r} : at'[q] = at[q]
  BY <1>1, <1>4, <1>5 DEF TypeOK
<1>7. Grows BY <1>3, IntentGrows DEF finance
<1>8. Facts(at[r])'
  BY <1>1, <1>3, <1>4, <1>6
     DEF Facts, ReservedPc, PaidPc, DeliveredPc, SoldPc, Selecting, Providing, Booking
<1>9. AllFacts' BY <1>1, <1>6, <1>7, <1>8, OneMoves DEF TypeOK
<1> QED BY <1>1, <1>3, <1>6, <1>7, <1>9, IntentKeeps DEF TypeOK, RowFacts, Grows

LEMMA SavePaymentReferenceKeeps ==
  ASSUME IInv, NEW r \in Request, SavePaymentReference(r)
  PROVE  IInv'
<1> DEFINE o == at[r].order
           i == at[r].intent
           row == [ord[o] EXCEPT !.status = "PAYMENT_PENDING", !.pay = "pending", !.ref = i]
           new == [intent[o][i] EXCEPT !.status = IF @ = "created" THEN "pending" ELSE @]
<1>1. o \in Order /\ TypeOK /\ AllFacts /\ RowFacts /\ ord[o] \in OrderRow
  BY AtRequest DEF SavePaymentReference, IInv
<1>2. i \in DOMAIN intent[o] BY AtRequest DEF SavePaymentReference, Facts
<1>3. intent[o] \in Seq(PaymentIntent) /\ intent[o][i] \in PaymentIntent /\ i \in Nat
  BY <1>1, <1>2 DEF TypeOK
<1>4. new \in PaymentIntent /\ (intent[o][i].status = "succeeded" => new.status = "succeeded")
  BY <1>3 DEF PaymentIntent
<1>5. intent' = [intent EXCEPT ![o] = [@ EXCEPT ![i] = new]] BY DEF SavePaymentReference
<1>6. row \in OrderRow /\ row.ref = i /\ row.pay = "pending" /\ (Tells(row) => Tells(ord[o]))
  BY <1>1, <1>3 DEF OrderRow, OrderStatus, Tells
<1>7. ord' = [ord EXCEPT ![o] = row] BY DEF SavePaymentReference
<1>8. Done(r) /\ UNCHANGED <<esim, finance, shared, faults>> BY DEF SavePaymentReference
<1> HIDE DEF new, row, o, i
<1>9. intent' \in [Order -> Seq(PaymentIntent)] /\ IntentsGrow
  BY <1>1, <1>2, <1>4, <1>5, IntentSet
<1>10. Grows BY <1>9, <1>8, IntentGrows DEF finance
<1>11. at' \in [Request -> Local] /\ AllFacts' BY <1>1, <1>10, <1>8, DoneMoves DEF TypeOK
<1>12. ord' \in [Order -> OrderRow] /\ ord'[o] = row /\ \A p \in Order \ {o} : ord'[p] = ord[p]
  BY <1>1, <1>6, <1>7 DEF TypeOK
<1>13. i \in DOMAIN intent'[o] BY <1>1, <1>2, <1>9 DEF IntentsGrow
<1>14. \A p \in Order : /\ ord'[p].ref # 0 => ord'[p].ref \in DOMAIN intent'[p]
                        /\ ord'[p].pay = "succeeded" => p \in PaidAtProvider'
                        /\ Tells(ord'[p]) => Tells(ord[p])
  BY <1>1, <1>6, <1>10, <1>12, <1>13 DEF RowFacts, Grows
<1> QED BY <1>8, <1>9, <1>10, <1>11, <1>12, <1>14, IntentKeeps

LEMMA CustomerPaysKeeps ==
  ASSUME IInv, NEW o \in Order, NEW i \in DOMAIN intent[o], CustomerPays(o, i)
  PROVE  IInv'
<1> USE DEF CustomerPays
<1>1. TypeOK /\ AllFacts /\ RowFacts BY DEF IInv
<1>2. intent[o] \in Seq(PaymentIntent) /\ intent[o][i] \in PaymentIntent /\ i \in Nat
  BY <1>1 DEF TypeOK
<1>3. PICK s \in {"succeeded", "failed"} : intent' = [intent EXCEPT ![o][i].status = s] OBVIOUS
<1> DEFINE new == [intent[o][i] EXCEPT !.status = s]
<1>4. new \in PaymentIntent /\ intent[o][i].status # "succeeded" BY <1>2 DEF PaymentIntent
<1>5. intent' = [intent EXCEPT ![o] = [@ EXCEPT ![i] = new]] BY <1>3
<1> HIDE DEF new
<1>6. intent' \in [Order -> Seq(PaymentIntent)] /\ IntentsGrow
  BY <1>1, <1>4, <1>5, IntentSet
<1>7. Grows BY <1>6, IntentGrows DEF finance
<1>8. AllFacts' BY <1>1, <1>7, OthersStay DEF TypeOK
<1> QED BY <1>1, <1>6, <1>7, <1>8, IntentKeeps DEF TypeOK, RowFacts, Grows

LEMMA PaymentWebhookKeeps ==
  ASSUME IInv, NEW o \in Order, NEW i \in DOMAIN intent[o], PaymentWebhook(o, i)
  PROVE  IInv'
<1>0. UNCHANGED <<esim, finance, at, shared, faults>> /\ intent[o][i].status = "succeeded"
  BY DEF PaymentWebhook
<1>1. TypeOK /\ AllFacts /\ RowFacts /\ ord[o] \in OrderRow BY DEF IInv, TypeOK
<1>2. intent[o] \in Seq(PaymentIntent) /\ intent[o][i] \in PaymentIntent /\ i \in Nat
  BY <1>1 DEF TypeOK
<1>3. PICK done \in BOOLEAN : intent' = [intent EXCEPT ![o][i].processed = done]
  BY DEF PaymentWebhook
<1> DEFINE new == [intent[o][i] EXCEPT !.processed = done]
           row == [ord[o] EXCEPT !.pay = "succeeded"]
<1>4. new \in PaymentIntent /\ new.status = "succeeded" BY <1>0, <1>2 DEF PaymentIntent
<1>5. intent' = [intent EXCEPT ![o] = [@ EXCEPT ![i] = new]] BY <1>3
<1>6. row \in OrderRow /\ row.ref = ord[o].ref /\ (Tells(row) => Tells(ord[o]))
  BY <1>1 DEF OrderRow, Tells
<1>7. ord' = [ord EXCEPT ![o] = row] BY DEF PaymentWebhook
<1> HIDE DEF new, row
<1>8. intent' \in [Order -> Seq(PaymentIntent)] /\ IntentsGrow
  BY <1>1, <1>4, <1>5, IntentSet
<1>9. Grows BY <1>0, <1>8, IntentGrows DEF finance
<1>10. AllFacts' BY <1>0, <1>1, <1>9, OthersStay DEF TypeOK
<1>11. ord' \in [Order -> OrderRow] /\ ord'[o] = row /\ \A p \in Order \ {o} : ord'[p] = ord[p]
  BY <1>1, <1>6, <1>7 DEF TypeOK
<1>12. o \in PaidAtProvider BY <1>0 DEF PaidAtProvider
<1>13. \A p \in Order : /\ ord'[p].ref # 0 => ord'[p].ref \in DOMAIN intent'[p]
                        /\ ord'[p].pay = "succeeded" => p \in PaidAtProvider'
                        /\ Tells(ord'[p]) => Tells(ord[p])
  BY <1>1, <1>6, <1>9, <1>11, <1>12 DEF RowFacts, Grows
<1> QED BY <1>0, <1>1, <1>8, <1>9, <1>10, <1>11, <1>13, IntentKeeps DEF TypeOK

-----------------------------------------------------------------------------
(* fulfillOrder, up to the provider.                                       *)

\* A move that leaves the data but for order rows, to pc.
LEMMA QuietMove ==
  ASSUME IInv, UNCHANGED <<esim, intent, finance>>, NEW r \in Request, at[r].pc # "idle",
         NEW pc \in Pc \ {"idle", "initiate", "verify"}, Go(r, pc),
         pc \in {"reserve", "check", "hold", "row"} => at[r].offer \in Offer,
         pc \in ReservedPc => at[r].pc \in ReservedPc,
         pc \in PaidPc => at[r].order \in PaidAtProvider,
         pc \in DeliveredPc => at[r].order \in esim,
         pc \in SoldPc => <<"sale", at[r].order>> \in ledger
  PROVE  at' \in [Request -> Local] /\ AllFacts'
<1>1. at \in [Request -> Local] /\ AllFacts BY DEF IInv, TypeOK
<1>2. Moves(r, pc) /\ at'[r].row = at[r].row /\ at'[r].offer = at[r].offer BY <1>1, GoMoves
<1>3. Grows BY QuietGrows DEF finance
<1>4. PaidAtProvider' = PaidAtProvider BY DEF PaidAtProvider
<1>5. at[r].pc \in ReservedPc => at[r].row \in DOMAIN resv' /\ resv'[at[r].row].order = at[r].order
  BY <1>1 DEF AllFacts, Facts, finance
<1> QED BY <1>1, <1>2, <1>3, <1>4, <1>5, MoveKeeps DEF finance

\* What a request keeps at hand keeps its type.
LEMMA ReadRow ==
  ASSUME TypeOK, NEW r \in Request, NEW o \in Order, NEW pc \in Pc
  PROVE  LET l == [at[r] EXCEPT !.pc = pc, !.read = ord[o]] IN
         l \in Local /\ l.pc = pc /\ l.order = at[r].order
BY DEF TypeOK, Local

LEMMA FulfillOrderKeeps ==
  ASSUME IInv, NEW r \in Request, FulfillOrder(r)
  PROVE  IInv'
<1> DEFINE o == at[r].order
           l == [at[r] EXCEPT !.pc = "enter", !.read = ord[o]]
<1>1. at[r].pc = "fulfil" /\ UNCHANGED <<ord, esim, intent, finance, shared, faults>>
  BY DEF FulfillOrder
<1>2. o \in Order /\ TypeOK /\ AllFacts /\ o \in PaidAtProvider
  BY <1>1, AtRequest DEF IInv, Facts, PaidPc, Selecting
<1>3. CASE Done(r) BY <1>1, <1>3, DoneKeeps
<1>4. CASE Go(r, "outer")
  BY <1>1, <1>4, GoKeeps, Places DEF ReservedPc, PaidPc, DeliveredPc, SoldPc, Selecting, Providing, Booking
<1>5. CASE at' = [at EXCEPT ![r].pc = "enter", ![r].read = ord[o]]
  <2>1. "enter" \in Pc BY DEF Pc, Selecting
  <2>2. l \in Local /\ l.pc = "enter" /\ l.order = o BY <1>2, <2>1, ReadRow
  <2>3. at' = [at EXCEPT ![r] = l] BY <1>5
  <2> HIDE DEF l
  <2>4. Moves(r, "enter") BY <1>2, <2>2, <2>3 DEF Moves, TypeOK
  <2>5. Grows /\ PaidAtProvider' = PaidAtProvider
    BY <1>1, QuietGrows DEF finance, PaidAtProvider
  <2>6. at' \in [Request -> Local] /\ AllFacts'
    BY <1>1, <1>2, <2>1, <2>4, <2>5, MoveKeeps
       DEF TypeOK, ReservedPc, DeliveredPc, SoldPc, Providing, Booking
  <2>7. faults' \in 0..MaxFaults /\ shared' \subseteq Order BY <1>1, <1>2 DEF TypeOK
  <2> QED BY <1>1, <2>6, <2>7, NoRowChange
<1> QED BY <1>3, <1>4, <1>5 DEF FulfillOrder

LEMMA EnterProvisioningKeeps ==
  ASSUME IInv, NEW r \in Request, EnterProvisioning(r)
  PROVE  IInv'
<1>1. /\ at[r].pc = "enter" /\ Go(r, "begin")
      /\ UNCHANGED <<esim, intent, finance, shared, faults>>
      /\ SetStatus(at[r].order, "ESIM_PROVISIONING") \/ UNCHANGED ord
  BY DEF EnterProvisioning
<1>2. at[r].order \in Order /\ at[r].order \in PaidAtProvider
  BY <1>1, AtRequest DEF Facts, PaidPc, Selecting
<1>3. at' \in [Request -> Local] /\ AllFacts'
  BY <1>1, <1>2, QuietMove
     DEF Pc, Selecting, ReservedPc, DeliveredPc, SoldPc, Providing, Booking
<1>4. CASE SetStatus(at[r].order, "ESIM_PROVISIONING")
  BY <1>1, <1>2, <1>3, <1>4, SetStatusKeeps DEF OrderStatus
<1>5. CASE UNCHANGED ord BY <1>1, <1>3, <1>5, NoRowChange DEF IInv, TypeOK
<1> QED BY <1>1, <1>4, <1>5

LEMMA BeginFulfillmentKeeps ==
  ASSUME IInv, NEW r \in Request, BeginFulfillment(r)
  PROVE  IInv'
<1>1. /\ at[r].pc = "begin" /\ Go(r, "select")
      /\ UNCHANGED <<esim, intent, finance, shared, faults>>
      /\ \/ /\ at[r].read.ful \in {"pending", "failed"}
            /\ TransitionFulfillment(at[r].order, at[r].read.ful, "provisioning")
         \/ UNCHANGED ord
  BY DEF BeginFulfillment
<1>2. at[r].order \in Order /\ at[r].order \in PaidAtProvider
  BY <1>1, AtRequest DEF Facts, PaidPc, Selecting
<1>3. at' \in [Request -> Local] /\ AllFacts'
  BY <1>1, <1>2, QuietMove
     DEF Pc, Selecting, ReservedPc, DeliveredPc, SoldPc, Providing, Booking
<1>4. CASE /\ at[r].read.ful \in {"pending", "failed"}
           /\ TransitionFulfillment(at[r].order, at[r].read.ful, "provisioning")
  BY <1>4, <1>1, <1>2, <1>3, FulfillmentKeeps DEF FulfillmentStatus
<1>5. CASE UNCHANGED ord BY <1>1, <1>3, <1>5, NoRowChange DEF IInv, TypeOK
<1> QED BY <1>1, <1>4, <1>5

LEMMA SelectSupplierKeeps ==
  ASSUME IInv, NEW r \in Request, NEW f \in Offer, SelectSupplier(r, f)
  PROVE  IInv'
<1> DEFINE o == at[r].order
           l == [at[r] EXCEPT !.pc = "reserve", !.read = NewOrder, !.offer = f]
           row == [ord[o] EXCEPT !.offer = f]
<1>1. /\ at[r].pc = "select" /\ UNCHANGED <<esim, intent, finance, shared, faults>>
      /\ ord' = [ord EXCEPT ![o] = row] \/ UNCHANGED ord
      /\ at' = [at EXCEPT ![r] = l]
  BY DEF SelectSupplier
<1>2. o \in Order /\ TypeOK /\ AllFacts /\ RowFacts /\ o \in PaidAtProvider /\ ord[o] \in OrderRow
  BY <1>1, AtRequest DEF IInv, Facts, PaidPc, Selecting
<1>3. "reserve" \in Pc BY DEF Pc, Selecting
<1>4. l \in Local /\ l.pc = "reserve" /\ l.order = o /\ l.offer = f
  BY <1>2, NewOrderType, <1>3 DEF TypeOK, Local
<1>5. row \in OrderRow /\ row.ref = ord[o].ref /\ row.pay = ord[o].pay /\ (Tells(row) => Tells(ord[o]))
  BY <1>2 DEF OrderRow, Tells
<1> HIDE DEF l, row
<1>6. Moves(r, "reserve") /\ at'[r].offer \in Offer BY <1>1, <1>2, <1>4 DEF Moves, TypeOK
<1>7. Grows /\ PaidAtProvider' = PaidAtProvider
  BY <1>1, QuietGrows DEF finance, PaidAtProvider
<1>8. at' \in [Request -> Local] /\ AllFacts'
  BY <1>1, <1>2, <1>3, <1>6, <1>7, MoveKeeps
     DEF TypeOK, ReservedPc, DeliveredPc, SoldPc, Providing, Booking
<1>9. faults' \in 0..MaxFaults /\ shared' \subseteq Order BY <1>1, <1>2 DEF TypeOK
<1>10. row.pay = "succeeded" => o \in PaidAtProvider BY <1>2
<1>11. CASE ord' = [ord EXCEPT ![o] = row]
  BY <1>1, <1>2, <1>5, <1>8, <1>9, <1>10, <1>11, RowChange
<1>12. CASE UNCHANGED ord BY <1>1, <1>8, <1>9, <1>12, NoRowChange
<1> QED BY <1>1, <1>11, <1>12

-----------------------------------------------------------------------------
(* The provider's credit, the eSIMs and the ledger.                        *)

\* A step that leaves the rows, the intents and the history.
LEMMA BooksKeep ==
  ASSUME IInv, Grows, UNCHANGED <<ord, intent, shared, faults>>,
         esim' \subseteq Order, credit' \in [pending : Nat, liability : Nat],
         resv' \in Seq(Reservation), ledger' \subseteq {"sale", "cost"} \X Order,
         \A i \in DOMAIN resv' : resv'[i].state = "settled" => resv'[i].order \in esim',
         at' \in [Request -> Local], AllFacts'
  PROVE  IInv'
BY DEF IInv, TypeOK, RowFacts, PaidAtProvider, DeliveryIsReal, Grows

LEMMA UncommitType ==
  ASSUME TypeOK, NEW amount \in Nat
  PROVE  Uncommit(amount) \in Nat
BY DEF TypeOK, Uncommit

LEMMA ReserveCommitmentKeeps ==
  ASSUME IInv, NEW r \in Request, ReserveCommitment(r)
  PROVE  IInv'
<1> DEFINE o == at[r].order
<1>1. at[r].pc = "reserve" /\ UNCHANGED <<ord, esim, intent, finance, shared, faults>>
  BY DEF ReserveCommitment
<1>2. /\ o \in Order /\ TypeOK /\ AllFacts /\ o \in PaidAtProvider
      /\ at[r].offer \in Offer /\ at[r] \in Local
  BY <1>1, AtRequest DEF IInv, Facts, PaidPc, Selecting
<1>3. CASE Go(r, "check")
  BY <1>1, <1>2, <1>3, GoKeeps
     DEF Pc, Selecting, ReservedPc, DeliveredPc, SoldPc, Providing, Booking
<1>4. ASSUME NEW i \in DOMAIN resv, IsBase(i, o, at[r].offer),
             \/ at' = [at EXCEPT ![r].pc = "check", ![r].row = i]
             \/ at' = [at EXCEPT ![r].pc = "provision", ![r].row = i,
                                 ![r].settled = resv[i].state = "settled"]
      PROVE  IInv'
  <2>1. i \in Nat /\ resv[i].order = o /\ resv[i] \in Reservation
    BY <1>2, <1>4 DEF TypeOK, IsBase
  <2>2. PICK pc \in {"check", "provision"} : Moves(r, pc) /\ at'[r].row = i /\ at'[r].offer = at[r].offer
    <3>1. CASE at' = [at EXCEPT ![r].pc = "check", ![r].row = i]
      <4> DEFINE l == [at[r] EXCEPT !.pc = "check", !.row = i]
      <4>1. l \in Local /\ l.pc = "check" /\ l.order = o /\ l.row = i /\ l.offer = at[r].offer
        BY <1>2, <2>1 DEF Local, Pc, Selecting
      <4>2. at' = [at EXCEPT ![r] = l] BY <3>1
      <4> HIDE DEF l
      <4> QED BY <1>2, <4>1, <4>2 DEF Moves, TypeOK
    <3>2. CASE at' = [at EXCEPT ![r].pc = "provision", ![r].row = i,
                                ![r].settled = resv[i].state = "settled"]
      <4> DEFINE l == [at[r] EXCEPT !.pc = "provision", !.row = i, !.settled = resv[i].state = "settled"]
      <4>1. l \in Local /\ l.pc = "provision" /\ l.order = o /\ l.row = i /\ l.offer = at[r].offer
        BY <1>2, <2>1 DEF Local, Pc, Providing
      <4>2. at' = [at EXCEPT ![r] = l] BY <3>2
      <4> HIDE DEF l
      <4> QED BY <1>2, <4>1, <4>2 DEF Moves, TypeOK
    <3> QED BY <1>4, <3>1, <3>2
  <2>3. Grows /\ PaidAtProvider' = PaidAtProvider
    BY <1>1, QuietGrows DEF finance, PaidAtProvider
  <2>4. pc \in Pc \ {"idle", "initiate", "verify"} /\ pc \notin DeliveredPc \cup SoldPc
    BY DEF Pc, Selecting, Providing, Booking, DeliveredPc, SoldPc
  <2>5. at' \in [Request -> Local] /\ AllFacts'
    BY <1>1, <1>2, <1>4, <2>1, <2>2, <2>3, <2>4, MoveKeeps DEF TypeOK, finance
  <2>6. faults' \in 0..MaxFaults /\ shared' \subseteq Order BY <1>1, <1>2 DEF TypeOK
  <2> QED BY <1>1, <2>5, <2>6, NoRowChange
<1> QED BY <1>3, <1>4 DEF ReserveCommitment

LEMMA CheckCreditKeeps ==
  ASSUME IInv, NEW r \in Request, CheckCredit(r)
  PROVE  IInv'
<1>1. /\ at[r].pc = "check" /\ UNCHANGED <<ord, esim, intent, finance, shared, faults>>
      /\ Go(r, "hold") \/ Go(r, "outer")
  BY DEF CheckCredit
<1>2. at[r].offer \in Offer /\ at[r].order \in PaidAtProvider
  BY <1>1, AtRequest DEF Facts, PaidPc, Selecting
<1>3. CASE Go(r, "hold")
  BY <1>1, <1>2, <1>3, GoKeeps
     DEF Pc, Selecting, ReservedPc, DeliveredPc, SoldPc, Providing, Booking
<1>4. CASE Go(r, "outer")
  BY <1>1, <1>4, GoKeeps
     DEF Pc, Outside, Selecting, ReservedPc, PaidPc, DeliveredPc, SoldPc, Providing, Booking
<1> QED BY <1>1, <1>3, <1>4

LEMMA HoldCreditKeeps ==
  ASSUME IInv, NEW r \in Request, HoldCredit(r)
  PROVE  IInv'
<1>1. /\ at[r].pc = "hold" /\ Go(r, "row")
      /\ UNCHANGED <<ord, esim, intent, resv, ledger, shared, faults>>
      /\ credit' = [credit EXCEPT !.pending = @ + Cost[at[r].offer]]
  BY DEF HoldCredit
<1>2. /\ at[r].offer \in Offer /\ at[r].order \in PaidAtProvider
      /\ TypeOK /\ AllFacts /\ DeliveryIsReal
  BY <1>1, AtRequest DEF IInv, Facts, PaidPc, Selecting
<1>3. Cost[at[r].offer] \in Nat BY <1>2, CostAssumption
<1>4. credit' \in [pending : Nat, liability : Nat] BY <1>1, <1>2, <1>3 DEF TypeOK
<1>5. Grows /\ PaidAtProvider' = PaidAtProvider BY <1>1, QuietGrows DEF PaidAtProvider
<1>6. "row" \in Pc BY DEF Pc, Selecting
<1>7. Moves(r, "row") /\ at'[r].offer = at[r].offer BY <1>1, <1>2, <1>6, GoMoves DEF TypeOK
<1>8. at' \in [Request -> Local] /\ AllFacts'
  BY <1>1, <1>2, <1>5, <1>6, <1>7, MoveKeeps
     DEF TypeOK, ReservedPc, DeliveredPc, SoldPc, Providing, Booking
<1> QED BY <1>1, <1>2, <1>4, <1>5, <1>8, BooksKeep DEF TypeOK, DeliveryIsReal

LEMMA CreateReservationKeeps ==
  ASSUME IInv, NEW r \in Request, CreateReservation(r)
  PROVE  IInv'
<1> DEFINE o == at[r].order
           new == [order |-> o, offer |-> at[r].offer, base |-> at[r].row = 0, state |-> "reserved"]
           i == Len(resv) + 1
           l == [at[r] EXCEPT !.pc = "provision", !.row = i]
<1>1. /\ at[r].pc = "row" /\ UNCHANGED <<ord, esim, intent, credit, ledger, shared, faults>>
      /\ \/ /\ resv' = Append(resv, new)
            /\ at' = [at EXCEPT ![r].pc = "provision", ![r].row = Len(resv')]
         \/ Go(r, "outer") /\ UNCHANGED resv
  BY DEF CreateReservation
<1>2. /\ o \in Order /\ at[r].offer \in Offer /\ o \in PaidAtProvider /\ at[r] \in Local
      /\ TypeOK /\ AllFacts /\ DeliveryIsReal
  BY <1>1, AtRequest DEF IInv, Facts, PaidPc, Selecting
<1>3. CASE Go(r, "outer") /\ UNCHANGED resv
  BY <1>1, <1>3, GoKeeps
     DEF Pc, Outside, Selecting, ReservedPc, PaidPc, DeliveredPc, SoldPc, Providing, Booking, finance
<1>4. CASE /\ resv' = Append(resv, new)
           /\ at' = [at EXCEPT ![r].pc = "provision", ![r].row = Len(resv')]
  <2>1. new \in Reservation /\ new.order = o /\ new.state = "reserved" BY <1>2 DEF Reservation
  <2>2. resv \in Seq(Reservation) BY <1>2 DEF TypeOK
  <2> HIDE DEF new
  <2>3. /\ resv' \in Seq(Reservation) /\ Len(resv') = i /\ i \in Nat
        /\ DOMAIN resv' = DOMAIN resv \cup {i} /\ resv'[i] = new
        /\ \A j \in DOMAIN resv : resv'[j] = resv[j]
    BY <1>4, <2>1, <2>2
  <2>4. at' = [at EXCEPT ![r] = l] BY <1>4, <2>3
  <2>5. l \in Local /\ l.pc = "provision" /\ l.order = o /\ l.row = i
    BY <1>2, <2>3 DEF Local, Pc, Providing
  <2> HIDE DEF l, i
  <2>6. Moves(r, "provision") /\ at'[r].row = i BY <1>2, <2>4, <2>5 DEF Moves, TypeOK
  <2>7. Grows /\ PaidAtProvider' = PaidAtProvider BY <1>1, <2>3 DEF Grows, PaidAtProvider
  <2>8. at' \in [Request -> Local] /\ AllFacts'
    BY <1>1, <1>2, <2>1, <2>3, <2>6, <2>7, MoveKeeps
       DEF TypeOK, Pc, Providing, DeliveredPc, SoldPc, Booking
  <2>9. \A j \in DOMAIN resv' : resv'[j].state = "settled" => resv'[j].order \in esim'
    BY <1>1, <1>2, <2>1, <2>3 DEF DeliveryIsReal
  <2> QED BY <1>1, <1>2, <2>3, <2>7, <2>8, <2>9, BooksKeep DEF TypeOK
<1> QED BY <1>1, <1>3, <1>4

LEMMA ProvisionKeeps ==
  ASSUME IInv, NEW r \in Request, Provision(r)
  PROVE  IInv'
BY AtRequest, GoKeeps DEF Provision, Facts, PaidPc, Providing, Pc, ReservedPc, SoldPc, DeliveredPc,
   Booking

\* A step of r that keeps its reservation and adds to the rest.
LEMMA BookMove ==
  ASSUME IInv, Grows, NEW r \in Request, at[r].pc \in ReservedPc,
         NEW pc \in ReservedPc \cup {"failed"}, Go(r, pc),
         pc \in PaidPc => at[r].order \in PaidAtProvider,
         pc \in DeliveredPc => at[r].order \in esim',
         pc \in SoldPc => <<"sale", at[r].order>> \in ledger'
  PROVE  at' \in [Request -> Local] /\ AllFacts'
<1>1. at \in [Request -> Local] /\ AllFacts BY DEF IInv, TypeOK
<1>2. pc \in Pc /\ pc \notin {"idle", "initiate", "verify", "reserve", "check", "hold", "row"}
      /\ at[r].pc # "idle"
  BY DEF Pc, ReservedPc, Undoing, Providing, Booking
<1>3. Moves(r, pc) /\ at'[r].row = at[r].row BY <1>1, <1>2, GoMoves
<1>4. at[r].row \in DOMAIN resv' /\ resv'[at[r].row].order = at[r].order
  BY <1>1 DEF AllFacts, Facts, Grows
<1>5. pc \in PaidPc => at[r].order \in PaidAtProvider' BY DEF Grows
<1> QED BY <1>1, <1>2, <1>3, <1>4, <1>5, MoveKeeps

LEMMA CreateEsimKeeps ==
  ASSUME IInv, NEW r \in Request, CreateEsim(r)
  PROVE  IInv'
<1> DEFINE o == at[r].order
<1>1. /\ at[r].pc = "esim" /\ UNCHANGED <<ord, intent, finance, shared, faults>>
      /\ \/ esim' = esim \cup {o} /\ Go(r, "entity")
         \/ Go(r, "release") /\ UNCHANGED esim
  BY DEF CreateEsim
<1>2. o \in Order /\ o \in PaidAtProvider /\ TypeOK /\ DeliveryIsReal
  BY <1>1, AtRequest DEF IInv, Facts, PaidPc, Providing
<1>3. CASE Go(r, "release") /\ UNCHANGED esim
  BY <1>1, <1>3, GoKeeps
     DEF Pc, ReservedPc, PaidPc, DeliveredPc, SoldPc, Selecting, Providing, Booking, Undoing
<1>4. CASE esim' = esim \cup {o} /\ Go(r, "entity")
  BY <1>1, <1>4, <1>2, BookMove, BooksKeep DEF Grows, PaidAtProvider, finance, ReservedPc, SoldPc,
     Providing, DeliveryIsReal, TypeOK
<1> QED BY <1>1, <1>3, <1>4

\* A delivered order's row may tell it.
LEMMA DeliveredRow ==
  ASSUME IInv, UNCHANGED <<esim, intent, finance, shared>>, faults' \in 0..MaxFaults,
         at' \in [Request -> Local], AllFacts',
         NEW o \in esim, NEW row \in OrderRow, ord' = [ord EXCEPT ![o] = row],
         row.ref = ord[o].ref, row.pay = ord[o].pay
  PROVE  IInv'
BY RowChange DEF IInv, TypeOK, RowFacts

LEMMA DeliveredStepKeeps ==
  ASSUME IInv, NEW r \in Request,
         LinkEsim(r) \/ FulfillmentSucceeded(r) \/ Provisioned(r) \/ Completed(r)
  PROVE  IInv'
<1> DEFINE o == at[r].order
           linked == [ord[o] EXCEPT !.entity = TRUE]
           done == [ord[o] EXCEPT !.ful = "success", !.entity = TRUE]
<1>1. at[r].pc \in {"entity", "success", "provisioned", "completed"}
      /\ UNCHANGED <<esim, intent, finance, shared, faults>>
  BY DEF LinkEsim, FulfillmentSucceeded, Provisioned, Completed
<1>2. o \in esim /\ o \in PaidAtProvider /\ o \in Order /\ ord[o] \in OrderRow /\ faults' \in 0..MaxFaults
      /\ shared' \subseteq Order
  BY <1>1, AtRequest DEF Facts, PaidPc, DeliveredPc, Providing, IInv, TypeOK
<1>3. \A pc \in {"success", "provisioned", "completed", "pay", "settle"} :
        Go(r, pc) => at' \in [Request -> Local] /\ AllFacts'
  BY <1>1, <1>2, BookMove, QuietGrows DEF ReservedPc, SoldPc, Providing, Booking, finance
<1>4. CASE LinkEsim(r)
  <2>1. linked \in OrderRow /\ linked.ref = ord[o].ref /\ linked.pay = ord[o].pay
    BY <1>2 DEF OrderRow
  <2>2. ord' = [ord EXCEPT ![o] = linked] /\ Go(r, "success") BY <1>4 DEF LinkEsim
  <2> HIDE DEF linked
  <2> QED BY <1>1, <1>2, <1>3, <2>1, <2>2, DeliveredRow
<1>5. CASE FulfillmentSucceeded(r)
  <2>1. done \in OrderRow /\ done.ref = ord[o].ref /\ done.pay = ord[o].pay
    BY <1>2 DEF OrderRow, FulfillmentStatus
  <2>2. (ord' = [ord EXCEPT ![o] = done] \/ UNCHANGED ord) /\ Go(r, "provisioned")
    BY <1>5 DEF FulfillmentSucceeded
  <2> HIDE DEF done
  <2>3. CASE ord' = [ord EXCEPT ![o] = done]
    BY <1>1, <1>2, <1>3, <2>1, <2>2, <2>3, DeliveredRow
  <2>4. CASE UNCHANGED ord BY <1>1, <1>2, <1>3, <2>2, <2>4, NoRowChange
  <2> QED BY <2>2, <2>3, <2>4
<1>6. CASE Provisioned(r)
  BY <1>6, <1>1, <1>2, <1>3, SetStatusKeeps DEF Provisioned, OrderStatus
<1>7. CASE Completed(r) BY <1>7, <1>1, <1>2, <1>3, SetStatusKeeps DEF Completed, OrderStatus
<1> QED BY <1>4, <1>5, <1>6, <1>7

LEMMA SettleReadKeeps ==
  ASSUME IInv, NEW r \in Request, SettleRead(r)
  PROVE  IInv'
<1>1. at[r].pc = "settle" /\ UNCHANGED <<ord, esim, intent, finance, shared, faults>>
  BY DEF SettleRead
<1>2. at[r].order \in PaidAtProvider /\ at[r].order \in esim /\ at[r].row \in DOMAIN resv
  BY <1>1, AtRequest DEF Facts, PaidPc, DeliveredPc, ReservedPc, Booking
<1>3. resv[at[r].row].state \in {"reserved", "settled", "released"}
  <2>1. resv \in Seq(Reservation) BY DEF IInv, TypeOK
  <2>2. resv[at[r].row] \in Reservation BY <1>2, <2>1
  <2> QED BY <2>2 DEF Reservation
<1>4. PICK pc \in {"settleTx", "pay", "release"} : Go(r, pc) BY <1>3 DEF SettleRead
<1> QED BY <1>1, <1>2, <1>4, GoKeeps
        DEF Pc, ReservedPc, SoldPc, PaidPc, Selecting, Providing, Booking, Undoing

LEMMA ReleaseReadKeeps ==
  ASSUME IInv, NEW r \in Request, ReleaseRead(r)
  PROVE  IInv'
<1>1. at[r].pc = "release" /\ UNCHANGED <<ord, esim, intent, finance, shared, faults>>
  BY DEF ReleaseRead
<1>2. at[r].row \in DOMAIN resv BY <1>1, AtRequest DEF Facts, ReservedPc
<1>3. resv[at[r].row].state \in {"reserved", "settled", "released"}
  <2>1. resv \in Seq(Reservation) BY DEF IInv, TypeOK
  <2>2. resv[at[r].row] \in Reservation BY <1>2, <2>1
  <2> QED BY <2>2 DEF Reservation
<1>4. PICK pc \in {"releaseTx", "failed", "outer"} : Go(r, pc) BY <1>3 DEF ReleaseRead
<1> QED BY <1>1, <1>4, GoKeeps
        DEF Pc, Outside, ReservedPc, SoldPc, PaidPc, DeliveredPc, Selecting, Providing, Booking, Undoing

\* One reservation changes its state.
LEMMA StateSet ==
  ASSUME resv \in Seq(Reservation), NEW i \in DOMAIN resv,
         NEW s \in {"reserved", "settled", "released"},
         resv' = [resv EXCEPT ![i].state = s]
  PROVE  /\ resv' \in Seq(Reservation) /\ DOMAIN resv' = DOMAIN resv
         /\ \A j \in DOMAIN resv : /\ resv'[j].order = resv[j].order
                                   /\ resv'[j].state = IF j = i THEN s ELSE resv[j].state
<1> DEFINE new == [resv[i] EXCEPT !.state = s]
<1>1. resv[i] \in Reservation OBVIOUS
<1>2. new \in Reservation /\ new.state = s /\ new.order = resv[i].order
  BY <1>1 DEF Reservation
<1>3. resv' = [resv EXCEPT ![i] = new] OBVIOUS
<1> HIDE DEF new
<1>4. resv' \in Seq(Reservation) BY <1>2, <1>3, ExceptSeq
<1> QED BY <1>2, <1>3, <1>4

LEMMA SettleReservationKeeps ==
  ASSUME IInv, NEW r \in Request, SettleReservation(r)
  PROVE  IInv'
<1> DEFINE i == at[r].row
           amount == Cost[resv[i].offer]
<1>1. /\ at[r].pc = "settleTx" /\ UNCHANGED <<ord, esim, intent, ledger, shared, faults>>
      /\ credit' = [pending |-> Uncommit(amount), liability |-> credit.liability + amount]
      /\ resv' = [resv EXCEPT ![i].state = "settled"] /\ Go(r, "pay")
  BY DEF SettleReservation
<1>2. /\ i \in DOMAIN resv /\ resv[i].order = at[r].order /\ at[r].order \in esim
      /\ at[r].order \in PaidAtProvider /\ TypeOK /\ DeliveryIsReal
  BY <1>1, AtRequest DEF IInv, Facts, ReservedPc, PaidPc, DeliveredPc, Booking
<1>3. resv \in Seq(Reservation) /\ resv[i] \in Reservation /\ credit.liability \in Nat
  BY <1>2 DEF TypeOK
<1>4. amount \in Nat BY <1>3, CostAssumption DEF Reservation
<1>5. Uncommit(amount) \in Nat BY <1>2, <1>4, UncommitType
<1> HIDE DEF amount
<1>6. credit' \in [pending : Nat, liability : Nat] BY <1>1, <1>3, <1>4, <1>5
<1>7. /\ resv' \in Seq(Reservation) /\ DOMAIN resv' = DOMAIN resv
      /\ \A j \in DOMAIN resv : /\ resv'[j].order = resv[j].order
                                /\ resv'[j].state = IF j = i THEN "settled" ELSE resv[j].state
  BY <1>1, <1>2, <1>3, StateSet
<1>8. Grows BY <1>1, <1>7 DEF Grows, PaidAtProvider
<1>9. at' \in [Request -> Local] /\ AllFacts'
  BY <1>1, <1>2, <1>8, BookMove DEF ReservedPc, SoldPc, Booking
<1>10. \A j \in DOMAIN resv' : resv'[j].state = "settled" => resv'[j].order \in esim'
  BY <1>1, <1>2, <1>7 DEF DeliveryIsReal
<1> QED BY <1>1, <1>2, <1>6, <1>7, <1>8, <1>9, <1>10, BooksKeep DEF TypeOK

LEMMA ReleaseReservationKeeps ==
  ASSUME IInv, NEW r \in Request, ReleaseReservation(r)
  PROVE  IInv'
<1> DEFINE i == at[r].row
           amount == Cost[resv[i].offer]
<1>1. /\ at[r].pc = "releaseTx" /\ UNCHANGED <<ord, esim, intent, ledger, shared, faults>>
      /\ credit' = [credit EXCEPT !.pending = Uncommit(amount)]
      /\ resv' = [resv EXCEPT ![i].state = "released"] /\ Go(r, "failed")
  BY DEF ReleaseReservation
<1>2. i \in DOMAIN resv /\ TypeOK /\ DeliveryIsReal
  BY <1>1, AtRequest DEF IInv, Facts, ReservedPc
<1>3. resv \in Seq(Reservation) /\ resv[i] \in Reservation BY <1>2 DEF TypeOK
<1>4. amount \in Nat BY <1>3, CostAssumption DEF Reservation
<1>5. Uncommit(amount) \in Nat BY <1>2, <1>4, UncommitType
<1> HIDE DEF amount
<1>6. credit' \in [pending : Nat, liability : Nat] BY <1>1, <1>2, <1>5 DEF TypeOK
<1>7. /\ resv' \in Seq(Reservation) /\ DOMAIN resv' = DOMAIN resv
      /\ \A j \in DOMAIN resv : /\ resv'[j].order = resv[j].order
                                /\ resv'[j].state = IF j = i THEN "released" ELSE resv[j].state
  BY <1>1, <1>2, <1>3, StateSet
<1>8. Grows BY <1>1, <1>7 DEF Grows, PaidAtProvider
<1>9. at' \in [Request -> Local] /\ AllFacts'
  BY <1>1, <1>8, BookMove
     DEF ReservedPc, PaidPc, DeliveredPc, SoldPc, Selecting, Providing, Booking
<1>10. \A j \in DOMAIN resv' : resv'[j].state = "settled" => resv'[j].order \in esim'
  BY <1>1, <1>2, <1>7 DEF DeliveryIsReal
<1> QED BY <1>1, <1>2, <1>6, <1>7, <1>8, <1>9, <1>10, BooksKeep DEF TypeOK

LEMMA LookupKeeps ==
  ASSUME IInv, NEW r \in Request,
         \/ Lookup(r, "pay", "sale", "payPost", "prov")
         \/ Lookup(r, "prov", "cost", "provPost", "finish")
  PROVE  IInv'
<1>1. /\ at[r].pc \in {"pay", "prov"} /\ UNCHANGED <<ord, esim, intent, finance, shared, faults>>
      /\ \/ Go(r, "payPost")
         \/ <<"sale", at[r].order>> \in ledger /\ Go(r, "prov")
         \/ at[r].pc = "prov" /\ (Go(r, "provPost") \/ Go(r, "finish"))
  BY DEF Lookup
<1>2. /\ at[r].order \in PaidAtProvider /\ at[r].order \in esim
      /\ at[r].pc = "prov" => <<"sale", at[r].order>> \in ledger
  BY <1>1, AtRequest DEF Facts, PaidPc, DeliveredPc, SoldPc, Booking
<1>3. PICK pc \in {"payPost", "prov", "provPost", "finish"} :
        Go(r, pc) /\ (pc \in SoldPc => <<"sale", at[r].order>> \in ledger)
  BY <1>1, <1>2 DEF SoldPc
<1> QED BY <1>1, <1>2, <1>3, GoKeeps DEF Pc, ReservedPc, Booking

LEMMA PostKeeps ==
  ASSUME IInv, NEW r \in Request,
         NEW key \in {"sale", "cost"}, NEW next \in {"prov", "finish"},
         \/ key = "sale" /\ next = "prov" /\ Post(r, "payPost", key, next)
         \/ key = "cost" /\ next = "finish" /\ Post(r, "provPost", key, next)
  PROVE  IInv'
<1> DEFINE k == <<key, at[r].order>>
<1>1. /\ at[r].pc \in {"payPost", "provPost"} /\ (key = "cost" => at[r].pc = "provPost")
      /\ UNCHANGED <<ord, esim, intent, credit, resv, shared, faults>>
      /\ \/ ledger' = ledger \cup {k} /\ Go(r, next)
         \/ Go(r, "release") /\ UNCHANGED ledger
  BY DEF Post
<1>2. /\ at[r].order \in Order /\ at[r].order \in PaidAtProvider /\ at[r].order \in esim
      /\ at[r].pc = "provPost" => <<"sale", at[r].order>> \in ledger
      /\ TypeOK /\ DeliveryIsReal
  BY <1>1, AtRequest DEF IInv, Facts, PaidPc, DeliveredPc, SoldPc, Booking
<1>3. CASE Go(r, "release") /\ UNCHANGED ledger
  BY <1>1, <1>3, GoKeeps
     DEF Pc, ReservedPc, PaidPc, DeliveredPc, SoldPc, Selecting, Providing, Booking, Undoing, finance
<1>4. CASE ledger' = ledger \cup {k} /\ Go(r, next)
  BY <1>1, <1>4, <1>2, BookMove, BooksKeep DEF Grows, PaidAtProvider, ReservedPc, Booking, TypeOK,
     DeliveryIsReal
<1> QED BY <1>1, <1>3, <1>4

LEMMA FinancialStatusSettledKeeps ==
  ASSUME IInv, NEW r \in Request, FinancialStatusSettled(r)
  PROVE  IInv'
<1> DEFINE o == at[r].order
           row == [ord[o] EXCEPT !.fin = "settled"]
<1>1. /\ at[r].pc = "finish" /\ UNCHANGED <<esim, intent, finance, shared, faults>>
      /\ ord' = [ord EXCEPT ![o] = row] /\ Done(r)
  BY DEF FinancialStatusSettled
<1>2. o \in esim /\ ord[o] \in OrderRow /\ at \in [Request -> Local] /\ AllFacts
      /\ faults' \in 0..MaxFaults
  BY <1>1, AtRequest DEF Facts, DeliveredPc, Booking, IInv, TypeOK
<1>3. row \in OrderRow /\ row.ref = ord[o].ref /\ row.pay = ord[o].pay BY <1>2 DEF OrderRow
<1> HIDE DEF row
<1>4. Grows BY <1>1, QuietGrows DEF finance
<1>5. at' \in [Request -> Local] /\ AllFacts' BY <1>1, <1>2, <1>4, DoneMoves
<1> QED BY <1>1, <1>2, <1>3, <1>5, DeliveredRow

-----------------------------------------------------------------------------
(* Failures, and the invariant.                                            *)

LEMMA FulfillmentFailedKeeps ==
  ASSUME IInv, NEW r \in Request, FulfillmentFailed(r)
  PROVE  IInv'
<1>1. /\ at[r].pc = "failed" /\ Go(r, "failOrder")
      /\ UNCHANGED <<esim, intent, finance, shared, faults>>
      /\ TransitionFulfillment(at[r].order, "provisioning", "failed")
  BY DEF FulfillmentFailed
<1>2. at[r].order \in Order BY <1>1, AtRequest
<1>3. at' \in [Request -> Local] /\ AllFacts'
  BY <1>1, QuietMove
     DEF Pc, Undoing, ReservedPc, PaidPc, DeliveredPc, SoldPc, Selecting, Providing, Booking
<1> QED BY <1>1, <1>2, <1>3, FulfillmentKeeps DEF FulfillmentStatus

LEMMA FailOrderKeeps ==
  ASSUME IInv, NEW r \in Request, FailOrder(r)
  PROVE  IInv'
<1>1. /\ at[r].pc = "failOrder" /\ Go(r, "outer")
      /\ UNCHANGED <<esim, intent, finance, shared, faults>>
      /\ SetStatus(at[r].order, "PROVISIONING_FAILED")
  BY DEF FailOrder
<1>2. at[r].order \in Order BY <1>1, AtRequest
<1>3. at' \in [Request -> Local] /\ AllFacts'
  BY <1>1, QuietMove
     DEF Pc, Outside, ReservedPc, PaidPc, DeliveredPc, SoldPc, Selecting, Providing, Booking
<1> QED BY <1>1, <1>2, <1>3, SetStatusKeeps DEF OrderStatus

LEMMA FailsKeeps ==
  ASSUME IInv, NEW r \in Request, Fails(r)
  PROVE  IInv'
<1> DEFINE o == at[r].order
           row == [ord[o] EXCEPT !.fin = "reconciliation_required"]
<1>1. /\ at[r].pc # "idle" /\ UNCHANGED <<esim, intent, finance, shared>>
      /\ faults < MaxFaults /\ faults' = faults + 1
      /\ \/ Done(r) /\ UNCHANGED ord
         \/ /\ Go(r, Handler(at[r].pc)) /\ Handler(at[r].pc) # "idle"
            /\ \/ UNCHANGED ord
               \/ at[r].pc = "finish" /\ ord' = [ord EXCEPT ![o] = row]
  BY DEF Fails
<1>2. TypeOK /\ AllFacts /\ RowFacts /\ o \in Order /\ ord[o] \in OrderRow /\ at[r].pc \in Pc
  BY <1>1, AtRequest DEF IInv, Local
<1>3. faults' \in 0..MaxFaults /\ shared' \subseteq Order BY <1>1, <1>2, BoundAssumption DEF TypeOK
<1>4. at' \in [Request -> Local] /\ AllFacts'
  <2>1. CASE Done(r) BY <1>1, <1>2, <2>1, QuietGrows, DoneMoves DEF TypeOK, finance
  <2>2. CASE /\ Go(r, Handler(at[r].pc)) /\ Handler(at[r].pc) # "idle"
    <3>1. CASE at[r].pc \in Outside BY <2>2, <3>1 DEF Handler, Outside, Selecting, Undoing, Providing, Booking
    <3>2. CASE at[r].pc \in (Selecting \cup Undoing) \ Outside
      <4>1. Handler(at[r].pc) = "outer"
        BY <3>2 DEF Handler, Outside, Selecting, Undoing, Providing, Booking
      <4> QED BY <1>1, <2>2, <4>1, QuietMove
              DEF Pc, Outside, ReservedPc, PaidPc, DeliveredPc, SoldPc, Selecting, Providing, Booking
    <3>3. CASE at[r].pc \in Providing \cup Booking
      <4>1. Handler(at[r].pc) = "release"
        BY <3>3 DEF Handler, Outside, Selecting, Undoing, Providing, Booking
      <4> QED BY <1>1, <2>2, <3>3, <4>1, QuietMove
              DEF Pc, Undoing, ReservedPc, PaidPc, DeliveredPc, SoldPc, Selecting, Providing, Booking
    <3> QED BY <1>2, <3>1, <3>2, <3>3 DEF Pc
  <2> QED BY <1>1, <2>1, <2>2
<1>5. CASE UNCHANGED ord BY <1>1, <1>3, <1>4, <1>5, NoRowChange
<1>6. CASE at[r].pc = "finish" /\ ord' = [ord EXCEPT ![o] = row]
  <2>1. o \in esim BY <1>6, AtRequest DEF Facts, DeliveredPc, Booking
  <2>2. row \in OrderRow /\ row.ref = ord[o].ref /\ row.pay = ord[o].pay BY <1>2 DEF OrderRow
  <2> HIDE DEF row
  <2> QED BY <1>1, <1>3, <1>4, <1>6, <2>1, <2>2, DeliveredRow
<1> QED BY <1>1, <1>5, <1>6

LEMMA HandleKeeps ==
  ASSUME IInv, NEW r \in Request, Handle(r)
  PROVE  IInv'
<1>1. CASE CreatePaymentIntent(r) \/ SavePaymentReference(r)
  BY <1>1, CreatePaymentIntentKeeps, SavePaymentReferenceKeeps
<1>2. CASE VerifyPayment(r) \/ PaymentFailed(r) \/ PaymentConfirmed(r) \/ ProvisioningFailed(r)
  BY <1>2, VerifyPaymentKeeps, PaymentFailedKeeps, PaymentConfirmedKeeps, ProvisioningFailedKeeps
<1>3. CASE FulfillOrder(r) \/ EnterProvisioning(r) \/ BeginFulfillment(r)
  BY <1>3, FulfillOrderKeeps, EnterProvisioningKeeps, BeginFulfillmentKeeps
<1>4. ASSUME NEW f \in Offer, SelectSupplier(r, f) PROVE IInv' BY <1>4, SelectSupplierKeeps
<1>5. CASE ReserveCommitment(r) \/ CheckCredit(r) \/ HoldCredit(r) \/ CreateReservation(r)
  BY <1>5, ReserveCommitmentKeeps, CheckCreditKeeps, HoldCreditKeeps, CreateReservationKeeps
<1>6. CASE Provision(r) \/ CreateEsim(r) BY <1>6, ProvisionKeeps, CreateEsimKeeps
<1>7. CASE LinkEsim(r) \/ FulfillmentSucceeded(r) \/ Provisioned(r) \/ Completed(r)
  BY <1>7, DeliveredStepKeeps
<1>8. CASE SettleRead(r) \/ SettleReservation(r) BY <1>8, SettleReadKeeps, SettleReservationKeeps
<1>9. CASE LedgerCustomerPayment(r) \/ LedgerProviderPurchase(r) \/ FinancialStatusSettled(r)
  BY <1>9, LookupKeeps, PostKeeps, FinancialStatusSettledKeeps
     DEF LedgerCustomerPayment, LedgerProviderPurchase
<1>10. CASE ReleaseRead(r) \/ ReleaseReservation(r) \/ FulfillmentFailed(r) \/ FailOrder(r)
  BY <1>10, ReleaseReadKeeps, ReleaseReservationKeeps, FulfillmentFailedKeeps, FailOrderKeeps
<1> QED BY <1>1, <1>2, <1>3, <1>4, <1>5, <1>6, <1>7, <1>8, <1>9, <1>10 DEF Handle

LEMMA InitIInv == Init => IInv
<1> SUFFICES ASSUME Init PROVE IInv OBVIOUS
<1>1. TypeOK
  BY BoundAssumption, NewOrderType
     DEF Init, TypeOK, Idle, Call, Local, Pc, Outside
<1>2. AllFacts
  BY DEF Init, AllFacts, Facts, Idle, Call, ReservedPc, PaidPc, DeliveredPc, SoldPc,
         Selecting, Providing, Booking
<1>3. RowFacts /\ DeliveryIsReal BY DEF Init, NewOrder, RowFacts, DeliveryIsReal
<1> QED BY <1>1, <1>2, <1>3 DEF IInv

LEMMA StepIInv == IInv /\ [Next]_vars => IInv'
<1> SUFFICES ASSUME IInv, [Next]_vars PROVE IInv' OBVIOUS
<1>1. ASSUME NEW r \in Request, Handle(r) PROVE IInv' BY <1>1, HandleKeeps
<1>2. ASSUME NEW r \in Request, Fails(r) PROVE IInv' BY <1>2, FailsKeeps
<1>3. ASSUME NEW r \in Request, NEW o \in Order, InitiatePayment(r, o) \/ ConfirmAndProvision(r, o)
      PROVE IInv'
  BY <1>3, BeginKeeps DEF InitiatePayment, ConfirmAndProvision
<1>4. ASSUME NEW o \in Order, NEW i \in DOMAIN intent[o], CustomerPays(o, i) \/ PaymentWebhook(o, i)
      PROVE IInv'
  BY <1>4, CustomerPaysKeeps, PaymentWebhookKeeps
<1>5. CASE UNCHANGED vars
  BY <1>5, QuietGrows, OthersStay, NoRowChange DEF vars, finance, IInv, TypeOK
<1> QED BY <1>1, <1>2, <1>3, <1>4, <1>5 DEF Next

LEMMA Inductive == Spec => []IInv
BY InitIInv, StepIInv, PTL DEF Spec

\* Every row, reservation, posting and request keeps its type, whatever
\* requests race, fail or die.
THEOREM TypeCorrect == Spec => []TypeOK
<1>1. IInv => TypeOK BY DEF IInv
<1> QED BY <1>1, Inductive, PTL

\* No status, entity or settlement tells of a delivery that did not happen,
\* in whatever order any number of requests write theirs.
THEOREM DeliveryReal == Spec => []DeliveryIsReal
<1>1. IInv => DeliveryIsReal BY DEF IInv
<1> QED BY <1>1, Inductive, PTL

-----------------------------------------------------------------------------
(* The requests implement the abstract purchase.                           *)

sold == {o \in Order : <<"sale", o>> \in ledger}
bought == {o \in Order : <<"cost", o>> \in ledger}

\* Most steps of a request are no step of the purchase.
LEMMA Unseen ==
  ASSUME UNCHANGED <<esim, intent, ledger>>
  PROVE  UNCHANGED <<PaidAtProvider, esim, sold, bought>>
BY DEF PaidAtProvider, sold, bought

LEMMA HandleUnseen ==
  ASSUME NEW r \in Request, Handle(r)
  PROVE  \/ UNCHANGED <<esim, intent, ledger>>
         \/ CreatePaymentIntent(r) \/ SavePaymentReference(r) \/ CreateEsim(r)
         \/ Post(r, "payPost", "sale", "prov") \/ Post(r, "provPost", "cost", "finish")
<1>1. CASE VerifyPayment(r) \/ PaymentFailed(r) \/ PaymentConfirmed(r) \/ ProvisioningFailed(r)
  BY <1>1 DEF VerifyPayment, PaymentFailed, PaymentConfirmed, ProvisioningFailed, finance
<1>2. CASE FulfillOrder(r) \/ EnterProvisioning(r) \/ BeginFulfillment(r)
  BY <1>2 DEF FulfillOrder, EnterProvisioning, BeginFulfillment, finance
<1>3. CASE \E f \in Offer : SelectSupplier(r, f) BY <1>3 DEF SelectSupplier, finance
<1>4. CASE ReserveCommitment(r) \/ CheckCredit(r) \/ HoldCredit(r) \/ CreateReservation(r)
  BY <1>4 DEF ReserveCommitment, CheckCredit, HoldCredit, CreateReservation, finance
<1>5. CASE Provision(r) \/ LinkEsim(r) \/ FulfillmentSucceeded(r) \/ Provisioned(r) \/ Completed(r)
  BY <1>5 DEF Provision, LinkEsim, FulfillmentSucceeded, Provisioned, Completed, finance
<1>6. CASE SettleRead(r) \/ SettleReservation(r) \/ FinancialStatusSettled(r)
  BY <1>6 DEF SettleRead, SettleReservation, FinancialStatusSettled, finance
<1>7. CASE ReleaseRead(r) \/ ReleaseReservation(r) \/ FulfillmentFailed(r) \/ FailOrder(r)
  BY <1>7 DEF ReleaseRead, ReleaseReservation, FulfillmentFailed, FailOrder, finance
<1>8. CASE LedgerCustomerPayment(r) \/ LedgerProviderPurchase(r)
  BY <1>8 DEF LedgerCustomerPayment, LedgerProviderPurchase, Lookup, finance
<1> QED BY <1>1, <1>2, <1>3, <1>4, <1>5, <1>6, <1>7, <1>8 DEF Handle

\* An intent that is added is not paid.
LEMMA AddedUnpaid ==
  ASSUME TypeOK, NEW o \in Order,
         intent' = [intent EXCEPT ![o] = Append(@, [status |-> "created", processed |-> FALSE])]
  PROVE  PaidAtProvider' = PaidAtProvider
<1> DEFINE new == [status |-> "created", processed |-> FALSE]
<1>1. intent[o] \in Seq(PaymentIntent) /\ intent \in [Order -> Seq(PaymentIntent)] BY DEF TypeOK
<1>2. new \in PaymentIntent /\ new.status = "created" BY DEF PaymentIntent
<1>3. intent' = [intent EXCEPT ![o] = Append(@, new)] OBVIOUS
<1> HIDE DEF new
<1>4. intent'[o] = Append(intent[o], new) /\ \A p \in Order \ {o} : intent'[p] = intent[p]
  BY <1>1, <1>3
<1>5. /\ DOMAIN intent'[o] = DOMAIN intent[o] \cup {Len(intent[o]) + 1}
      /\ intent'[o][Len(intent[o]) + 1] = new
      /\ \A j \in DOMAIN intent[o] : intent'[o][j] = intent[o][j]
  BY <1>1, <1>2, <1>4
<1>6. ASSUME NEW p \in Order
      PROVE  (\E i \in DOMAIN intent'[p] : intent'[p][i].status = "succeeded")
               <=> (\E i \in DOMAIN intent[p] : intent[p][i].status = "succeeded")
  BY <1>2, <1>5, <1>4
<1> QED BY <1>6 DEF PaidAtProvider

\* An intent that is changed keeps its order's payment as it was.
LEMMA ChangedIntent ==
  ASSUME TypeOK, NEW o \in Order, NEW i \in DOMAIN intent[o], NEW new \in PaymentIntent,
         intent[o][i].status = "succeeded" <=> new.status = "succeeded",
         intent' = [intent EXCEPT ![o] = [@ EXCEPT ![i] = new]]
  PROVE  PaidAtProvider' = PaidAtProvider
BY DEF TypeOK, PaidAtProvider

LEMMA SavedUnseen ==
  ASSUME IInv, NEW r \in Request, SavePaymentReference(r)
  PROVE  PaidAtProvider' = PaidAtProvider
<1> DEFINE o == at[r].order
           i == at[r].intent
           new == [intent[o][i] EXCEPT !.status = IF @ = "created" THEN "pending" ELSE @]
<1>1. o \in Order /\ TypeOK BY AtRequest DEF SavePaymentReference, IInv
<1>2. i \in DOMAIN intent[o] BY AtRequest DEF SavePaymentReference, Facts
<1>3. intent[o][i] \in PaymentIntent BY <1>1, <1>2 DEF TypeOK
<1>4. new \in PaymentIntent /\ (intent[o][i].status = "succeeded" <=> new.status = "succeeded")
  BY <1>3 DEF PaymentIntent
<1>5. intent' = [intent EXCEPT ![o] = [@ EXCEPT ![i] = new]] BY DEF SavePaymentReference
<1> HIDE DEF new, o, i
<1> QED BY <1>1, <1>2, <1>4, <1>5, ChangedIntent

LEMMA WebhookUnseen ==
  ASSUME IInv, NEW o \in Order, NEW i \in DOMAIN intent[o], PaymentWebhook(o, i)
  PROVE  PaidAtProvider' = PaidAtProvider
<1>1. TypeOK BY DEF IInv
<1>2. intent[o][i] \in PaymentIntent /\ intent[o][i].status = "succeeded"
  BY <1>1 DEF TypeOK, PaymentWebhook
<1>3. PICK done \in BOOLEAN : intent' = [intent EXCEPT ![o][i].processed = done]
  BY DEF PaymentWebhook
<1> DEFINE new == [intent[o][i] EXCEPT !.processed = done]
<1>4. new \in PaymentIntent /\ new.status = "succeeded" BY <1>2 DEF PaymentIntent
<1>5. intent' = [intent EXCEPT ![o] = [@ EXCEPT ![i] = new]] BY <1>3
<1> HIDE DEF new
<1> QED BY <1>1, <1>2, <1>4, <1>5, ChangedIntent

\* The customer's payment pays for its order, or fails.
LEMMA CustomerPaysSeen ==
  ASSUME IInv, NEW o \in Order, NEW i \in DOMAIN intent[o], CustomerPays(o, i)
  PROVE  PaidAtProvider' = PaidAtProvider \/ PaidAtProvider' = PaidAtProvider \cup {o}
<1>1. TypeOK BY DEF IInv
<1>2. intent \in [Order -> Seq(PaymentIntent)] /\ intent[o][i] \in PaymentIntent
      /\ intent[o][i].status = "pending"
  BY <1>1 DEF TypeOK, CustomerPays
<1>3. PICK s \in {"succeeded", "failed"} : intent' = [intent EXCEPT ![o][i].status = s]
  BY DEF CustomerPays
<1> DEFINE new == [intent[o][i] EXCEPT !.status = s]
<1>4. new \in PaymentIntent /\ new.status = s BY <1>2 DEF PaymentIntent
<1>5. intent' = [intent EXCEPT ![o] = [@ EXCEPT ![i] = new]] BY <1>3
<1> HIDE DEF new
<1>6. CASE s = "failed" BY <1>1, <1>2, <1>4, <1>5, <1>6, ChangedIntent
<1>7. CASE s = "succeeded" BY <1>2, <1>5, <1>4, <1>7 DEF PaidAtProvider
<1> QED BY <1>6, <1>7

LEMMA PostSeen ==
  ASSUME IInv, NEW r \in Request,
         \/ Post(r, "payPost", "sale", "prov") \/ Post(r, "provPost", "cost", "finish")
  PROVE  [Promise!Next]_(Promise!vars)
<1> DEFINE o == at[r].order
<1>1. /\ at[r].pc \in {"payPost", "provPost"} /\ UNCHANGED <<esim, intent>>
      /\ \/ UNCHANGED ledger
         \/ /\ at[r].pc = "payPost" /\ <<"sale", o>> \notin ledger
            /\ ledger' = ledger \cup {<<"sale", o>>}
         \/ /\ at[r].pc = "provPost" /\ <<"cost", o>> \notin ledger
            /\ ledger' = ledger \cup {<<"cost", o>>}
  BY DEF Post
<1>2. /\ o \in Order /\ o \in esim
      /\ at[r].pc = "provPost" => <<"sale", o>> \in ledger
  BY <1>1, AtRequest DEF Facts, DeliveredPc, SoldPc, Booking
<1>3. PaidAtProvider' = PaidAtProvider /\ esim' = esim BY <1>1 DEF PaidAtProvider
<1>4. CASE UNCHANGED ledger BY <1>3, <1>4 DEF Promise!vars
<1>5. CASE /\ at[r].pc = "payPost" /\ <<"sale", o>> \notin ledger
           /\ ledger' = ledger \cup {<<"sale", o>>}
  BY <1>2, <1>5, <1>3 DEF sold, bought, Promise!Sell, Promise!Next
<1>6. CASE /\ at[r].pc = "provPost" /\ <<"cost", o>> \notin ledger
           /\ ledger' = ledger \cup {<<"cost", o>>}
  BY <1>2, <1>6, <1>3 DEF sold, bought, Promise!Buy, Promise!Next
<1> QED BY <1>1, <1>4, <1>5, <1>6

LEMMA CreateEsimSeen ==
  ASSUME IInv, NEW r \in Request, CreateEsim(r)
  PROVE  [Promise!Next]_(Promise!vars)
<1> DEFINE o == at[r].order
<1>1. /\ at[r].pc = "esim" /\ UNCHANGED <<intent, ledger>>
      /\ \/ UNCHANGED esim
         \/ o \notin esim /\ esim' = esim \cup {o}
  BY DEF CreateEsim, finance
<1>2. o \in Order /\ o \in PaidAtProvider BY <1>1, AtRequest DEF Facts, PaidPc, Providing
<1>3. PaidAtProvider' = PaidAtProvider /\ ledger' = ledger BY <1>1 DEF PaidAtProvider
<1>4. CASE UNCHANGED esim BY <1>3, <1>4 DEF Promise!vars
<1>5. CASE o \notin esim /\ esim' = esim \cup {o}
  BY <1>2, <1>3, <1>5 DEF Promise!Deliver, Promise!Next
<1> QED BY <1>1, <1>4, <1>5

LEMMA PromiseKept == IInv /\ [Next]_vars => [Promise!Next]_(Promise!vars)
<1> SUFFICES ASSUME IInv, [Next]_vars PROVE [Promise!Next]_(Promise!vars) OBVIOUS
<1>1. UNCHANGED <<PaidAtProvider, esim, ledger>> => UNCHANGED Promise!vars
  BY DEF Promise!vars
<1>2. ASSUME NEW r \in Request, Handle(r) PROVE [Promise!Next]_(Promise!vars)
  <2>1. CASE UNCHANGED <<esim, intent, ledger>> BY <2>1, <1>1, Unseen
  <2>2. CASE CreatePaymentIntent(r)
    BY <2>2, AtRequest, AddedUnpaid, <1>1 DEF CreatePaymentIntent, IInv, PaidAtProvider, finance
  <2>3. CASE SavePaymentReference(r)
    BY <2>3, <1>1, SavedUnseen DEF SavePaymentReference, finance
  <2>4. CASE CreateEsim(r) BY <2>4, CreateEsimSeen
  <2>5. CASE Post(r, "payPost", "sale", "prov") \/ Post(r, "provPost", "cost", "finish")
    BY <2>5, PostSeen
  <2> QED BY <1>2, <2>1, <2>2, <2>3, <2>4, <2>5, HandleUnseen
<1>3. ASSUME NEW r \in Request, Fails(r) PROVE [Promise!Next]_(Promise!vars)
  BY <1>3, <1>1, Unseen DEF Fails, finance
<1>4. ASSUME NEW r \in Request, NEW o \in Order, InitiatePayment(r, o) \/ ConfirmAndProvision(r, o)
      PROVE [Promise!Next]_(Promise!vars)
  BY <1>4, <1>1, Unseen DEF InitiatePayment, ConfirmAndProvision, finance
<1>5. ASSUME NEW o \in Order, NEW i \in DOMAIN intent[o], CustomerPays(o, i)
      PROVE [Promise!Next]_(Promise!vars)
  BY <1>5, <1>1, CustomerPaysSeen DEF CustomerPays, finance, Promise!Pay, Promise!Next
<1>6. ASSUME NEW o \in Order, NEW i \in DOMAIN intent[o], PaymentWebhook(o, i)
      PROVE [Promise!Next]_(Promise!vars)
  BY <1>6, <1>1, WebhookUnseen DEF PaymentWebhook, finance
<1>7. CASE UNCHANGED vars BY <1>7, <1>1, Unseen DEF vars
<1> QED BY <1>2, <1>3, <1>4, <1>5, <1>6, <1>7 DEF Next

\* However requests race, fail and retry, payment, delivery and the two
\* postings of an order happen in that order, each at most once.
THEOREM PurchaseRefinement == Spec => PurchaseSpec
<1>1. Init => Promise!Init BY DEF Init, Promise!Init, PaidAtProvider
<1> QED BY <1>1, Inductive, PromiseKept, PTL DEF Spec, PurchaseSpec, Promise!Spec

-----------------------------------------------------------------------------
(* Orders that one request at a time has served.                           *)

\* Two requests that are at one order have marked it.
ServedAlone ==
  \A q, r \in Request :
    q # r /\ at[q].order = at[r].order /\ at[q].order \in Order => at[q].order \in shared

\* Nobody else changes what the only request of an order has read: the offer
\* frozen on the order, and the state of the reservation.
StillRead ==
  \A r \in Request : at[r].order \notin shared =>
    /\ at[r].pc \in {"enter", "begin", "select"} => at[r].read.offer = ord[at[r].order].offer
    /\ at[r].pc \in {"settleTx", "releaseTx"} => resv[at[r].row].state = "reserved"

SameOffers == \A o \in Order : ord'[o].offer = ord[o].offer

\* A step of r that leaves the books: where it may get, with what it has read.
Moved(r) ==
  /\ UNCHANGED <<credit, resv, shared>>
  /\ \A q \in Request \ {r} : at'[q] = at[q]
  /\ at'[r].order \in {at[r].order, None}
  /\ at'[r].pc # "row"
  /\ at'[r].pc \in {"settleTx", "releaseTx"} => resv[at'[r].row].state = "reserved"
  /\ at'[r].pc \in {"enter", "begin", "select"} =>
       /\ at'[r].order = at[r].order /\ SameOffers
       /\ \/ at'[r].read = ord[at[r].order]
          \/ at[r].pc \in {"enter", "begin"} /\ at'[r].read = at[r].read

Freezes(r) == \E f \in Offer : SelectSupplier(r, f)

Plain == Pc \ {"row", "settleTx", "releaseTx", "enter", "begin", "select"}

LEMMA PlainMoved ==
  ASSUME TypeOK, NEW r \in Request, UNCHANGED <<credit, resv, shared>>,
         NEW pc \in Plain, Go(r, pc) \/ Forget(r, pc)
  PROVE  Moved(r)
BY GoMoves, ForgetMoves DEF TypeOK, Plain, Moved, Moves

LEMMA DoneMoved ==
  ASSUME TypeOK, NEW r \in Request, UNCHANGED <<credit, resv, shared>>, Done(r)
  PROVE  Moved(r)
BY DEF TypeOK, Done, Idle, Call, Moved

\* What a move of r with its reading does.
LEMMA ReadingMoved ==
  ASSUME TypeOK, NEW r \in Request, UNCHANGED <<credit, resv, shared>>, SameOffers,
         \/ at[r].pc = "enter" /\ Go(r, "begin")
         \/ at[r].pc = "begin" /\ Go(r, "select")
  PROVE  Moved(r)
<1>1. at \in [Request -> Local] /\ at[r] \in Local BY DEF TypeOK
<1>2. PICK pc \in {"begin", "select"} : Go(r, pc) /\ at[r].pc \in {"enter", "begin"} OBVIOUS
<1>3. pc \in Pc BY DEF Pc, Selecting
<1>4. Moves(r, pc) BY <1>1, <1>2, <1>3, GoMoves
<1>5. at'[r].read = at[r].read BY <1>1, <1>2 DEF Go, Local
<1> QED BY <1>2, <1>4, <1>5 DEF Moved, Moves

LEMMA RowOffers ==
  ASSUME TypeOK, NEW o \in Order, NEW row, row.offer = ord[o].offer,
         ord' = [ord EXCEPT ![o] = row]
  PROVE  SameOffers
BY DEF TypeOK, SameOffers

LEMMA StatusOffers ==
  ASSUME TypeOK, NEW o \in Order, NEW s, SetStatus(o, s)
  PROVE  SameOffers
<1>1. PICK row \in OrderRow : row = ord[o] BY DEF TypeOK
<1>2. [row EXCEPT !.status = s].offer = row.offer BY DEF OrderRow
<1>3. ord' = [ord EXCEPT ![o] = [ord[o] EXCEPT !.status = s]] BY DEF SetStatus
<1> QED BY <1>1, <1>2, <1>3, RowOffers

LEMMA TransitionOffers ==
  ASSUME TypeOK, NEW o \in Order, NEW from, NEW to, TransitionFulfillment(o, from, to)
  PROVE  SameOffers
<1>1. PICK row \in OrderRow : row = ord[o] BY DEF TypeOK
<1>2. [row EXCEPT !.ful = IF @ = from THEN to ELSE @].offer = row.offer BY DEF OrderRow
<1>3. ord' = [ord EXCEPT ![o] = [ord[o] EXCEPT !.ful = IF @ = from THEN to ELSE @]]
  BY DEF TransitionFulfillment
<1> QED BY <1>1, <1>2, <1>3, RowOffers

\* Whoever else writes an order row.
LEMMA OthersOffers ==
  ASSUME TypeOK, NEW o \in Order,
         \/ \E i \in Nat : ord' = [ord EXCEPT ![o].status = "PAYMENT_PENDING",
                                              ![o].pay = "pending", ![o].ref = i]
         \/ ord' = [ord EXCEPT ![o].pay = "succeeded"]
         \/ ord' = [ord EXCEPT ![o].status = "PAYMENT_FAILED", ![o].pay = "failed"]
         \/ ord' = [ord EXCEPT ![o].status = "PAYMENT_CONFIRMED", ![o].pay = "succeeded"]
         \/ ord' = [ord EXCEPT ![o].entity = TRUE]
         \/ ord' = [ord EXCEPT ![o].ful = "success", ![o].entity = TRUE]
         \/ ord' = [ord EXCEPT ![o].fin = "settled"]
         \/ ord' = [ord EXCEPT ![o].fin = "reconciliation_required"]
         \/ UNCHANGED ord
  PROVE  SameOffers
<1>0. PICK row \in OrderRow : row = ord[o] BY DEF TypeOK
<1>1. ASSUME NEW i \in Nat, ord' = [ord EXCEPT ![o].status = "PAYMENT_PENDING",
                                               ![o].pay = "pending", ![o].ref = i]
      PROVE  SameOffers
  <2> DEFINE next == [row EXCEPT !.status = "PAYMENT_PENDING", !.pay = "pending", !.ref = i]
  <2>1. next.offer = row.offer BY DEF OrderRow
  <2>2. ord' = [ord EXCEPT ![o] = next] BY <1>0, <1>1
  <2> HIDE DEF next
  <2> QED BY <1>0, <2>1, <2>2, RowOffers
<1>2. CASE ord' = [ord EXCEPT ![o].pay = "succeeded"] BY <1>0, <1>2, RowOffers DEF OrderRow
<1>3. CASE ord' = [ord EXCEPT ![o].status = "PAYMENT_FAILED", ![o].pay = "failed"]
  <2> DEFINE next == [row EXCEPT !.status = "PAYMENT_FAILED", !.pay = "failed"]
  <2>1. next.offer = row.offer BY DEF OrderRow
  <2>2. ord' = [ord EXCEPT ![o] = next] BY <1>0, <1>3
  <2> HIDE DEF next
  <2> QED BY <1>0, <2>1, <2>2, RowOffers
<1>4. CASE ord' = [ord EXCEPT ![o].status = "PAYMENT_CONFIRMED", ![o].pay = "succeeded"]
  <2> DEFINE next == [row EXCEPT !.status = "PAYMENT_CONFIRMED", !.pay = "succeeded"]
  <2>1. next.offer = row.offer BY DEF OrderRow
  <2>2. ord' = [ord EXCEPT ![o] = next] BY <1>0, <1>4
  <2> HIDE DEF next
  <2> QED BY <1>0, <2>1, <2>2, RowOffers
<1>5. CASE ord' = [ord EXCEPT ![o].entity = TRUE] BY <1>0, <1>5, RowOffers DEF OrderRow
<1>6. CASE ord' = [ord EXCEPT ![o].ful = "success", ![o].entity = TRUE]
  <2> DEFINE next == [row EXCEPT !.ful = "success", !.entity = TRUE]
  <2>1. next.offer = row.offer BY DEF OrderRow
  <2>2. ord' = [ord EXCEPT ![o] = next] BY <1>0, <1>6
  <2> HIDE DEF next
  <2> QED BY <1>0, <2>1, <2>2, RowOffers
<1>7. ASSUME NEW s \in {"settled", "reconciliation_required"}, ord' = [ord EXCEPT ![o].fin = s]
      PROVE  SameOffers
  BY <1>0, <1>7, RowOffers DEF OrderRow
<1>8. CASE UNCHANGED ord BY <1>8 DEF SameOffers
<1> QED BY <1>1, <1>2, <1>3, <1>4, <1>5, <1>6, <1>7, <1>8

\* A step that makes r's local l, at a plain place and with its order.
LEMMA LocalMoved ==
  ASSUME TypeOK, NEW r \in Request, UNCHANGED <<credit, resv, shared>>,
         NEW l, at' = [at EXCEPT ![r] = l], l.pc \in Plain, l.order = at[r].order
  PROVE  Moved(r)
BY DEF TypeOK, Moved, Plain

LEMMA PlainPlaces ==
  {"initiate", "payFailed", "payConfirmed", "outer", "fulfil", "reserve", "check", "hold",
   "provision", "esim", "entity", "success", "provisioned", "completed", "settle", "pay",
   "payPost", "prov", "provPost", "finish", "release", "failed", "failOrder"} \subseteq Plain
BY DEF Plain, Pc, Outside, Selecting, Providing, Booking, Undoing

LEMMA PaymentMoved ==
  ASSUME IInv, NEW r \in Request,
         \/ CreatePaymentIntent(r) \/ SavePaymentReference(r) \/ VerifyPayment(r)
         \/ PaymentFailed(r) \/ PaymentConfirmed(r) \/ ProvisioningFailed(r)
  PROVE  Moved(r) /\ SameOffers
<1>1. TypeOK /\ at[r] \in Local BY AtRequest DEF IInv
<1>2. CASE CreatePaymentIntent(r)
  <2>1. at[r].pc = "intent" /\ UNCHANGED <<ord, credit, resv, shared>> /\ at[r].order \in Order
    BY <1>2, AtRequest DEF CreatePaymentIntent, finance
  <2>2. PICK i : at' = [at EXCEPT ![r].pc = "initiate", ![r].intent = i]
    BY <1>2 DEF CreatePaymentIntent
  <2> DEFINE l == [at[r] EXCEPT !.pc = "initiate", !.intent = i]
  <2>3. at' = [at EXCEPT ![r] = l] /\ l.pc = "initiate" /\ l.order = at[r].order
    BY <1>1, <2>2 DEF Local
  <2> HIDE DEF l
  <2> QED BY <1>1, <2>1, <2>3, LocalMoved, PlainPlaces, OthersOffers
<1>3. CASE SavePaymentReference(r)
  BY <1>3, <1>1, AtRequest, DoneMoved, OthersOffers DEF SavePaymentReference, finance, Local
<1>4. CASE VerifyPayment(r)
  <2>1. /\ at[r].pc = "verify" /\ UNCHANGED <<ord, credit, resv, shared>>
        /\ \/ Done(r) \/ Forget(r, "payFailed") \/ Forget(r, "fulfil")
           \/ Forget(r, "payConfirmed")
    BY <1>4 DEF VerifyPayment, finance
  <2>2. at[r].order \in Order BY <2>1, AtRequest
  <2>3. Moved(r) BY <1>1, <2>1, DoneMoved, PlainMoved, PlainPlaces
  <2> QED BY <1>1, <2>1, <2>2, <2>3, OthersOffers
<1>5. CASE PaymentFailed(r)
  BY <1>5, AtRequest, <1>1, DoneMoved, OthersOffers DEF PaymentFailed, finance
<1>6. CASE PaymentConfirmed(r)
  BY <1>6, AtRequest, <1>1, PlainMoved, PlainPlaces, OthersOffers DEF PaymentConfirmed, finance
<1>7. CASE ProvisioningFailed(r)
  BY <1>7, AtRequest, <1>1, DoneMoved, StatusOffers DEF ProvisioningFailed, finance
<1> QED BY <1>2, <1>3, <1>4, <1>5, <1>6, <1>7

LEMMA FulfilMoved ==
  ASSUME IInv, NEW r \in Request,
         FulfillOrder(r) \/ EnterProvisioning(r) \/ BeginFulfillment(r)
  PROVE  Moved(r) /\ SameOffers
<1>1. TypeOK /\ at \in [Request -> Local] /\ at[r] \in Local BY AtRequest DEF IInv, TypeOK
<1>2. CASE FulfillOrder(r)
  <2>1. /\ at[r].pc = "fulfil" /\ UNCHANGED <<ord, credit, resv, shared>>
        /\ \/ Done(r) \/ Go(r, "outer")
           \/ at' = [at EXCEPT ![r].pc = "enter", ![r].read = ord[at[r].order]]
    BY <1>2 DEF FulfillOrder, finance
  <2>2. at[r].order \in Order BY <2>1, AtRequest
  <2>3. SameOffers BY <2>1 DEF SameOffers
  <2>4. CASE Done(r) \/ Go(r, "outer")
    BY <1>1, <2>1, <2>3, <2>4, DoneMoved, PlainMoved, PlainPlaces
  <2>5. CASE at' = [at EXCEPT ![r].pc = "enter", ![r].read = ord[at[r].order]]
    <3> DEFINE l == [at[r] EXCEPT !.pc = "enter", !.read = ord[at[r].order]]
    <3>1. /\ at' = [at EXCEPT ![r] = l] /\ l.pc = "enter" /\ l.order = at[r].order
          /\ l.read = ord[at[r].order]
      BY <1>1, <2>5 DEF Local
    <3> HIDE DEF l
    <3>2. at'[r] = l /\ \A q \in Request \ {r} : at'[q] = at[q] BY <1>1, <3>1
    <3> QED BY <2>1, <2>3, <3>1, <3>2 DEF Moved
  <2> QED BY <2>1, <2>4, <2>5
<1>3. CASE EnterProvisioning(r)
  BY <1>3, AtRequest, <1>1, StatusOffers, OthersOffers, ReadingMoved DEF EnterProvisioning, finance
<1>4. CASE BeginFulfillment(r)
  BY <1>4, AtRequest, <1>1, TransitionOffers, OthersOffers, ReadingMoved DEF BeginFulfillment,
     finance
<1> QED BY <1>2, <1>3, <1>4

LEMMA SelectMoved ==
  ASSUME IInv, NEW r \in Request, NEW f \in Offer, SelectSupplier(r, f)
  PROVE  Moved(r)
<1>1. TypeOK /\ at[r] \in Local BY AtRequest DEF IInv
<1>2. /\ UNCHANGED <<credit, resv, shared>>
      /\ at' = [at EXCEPT ![r].pc = "reserve", ![r].read = NewOrder, ![r].offer = f]
  BY DEF SelectSupplier, finance
<1> DEFINE l == [at[r] EXCEPT !.pc = "reserve", !.read = NewOrder, !.offer = f]
<1>3. at' = [at EXCEPT ![r] = l] /\ l.pc = "reserve" /\ l.order = at[r].order
  BY <1>1, <1>2 DEF Local
<1> HIDE DEF l
<1> QED BY <1>1, <1>2, <1>3, LocalMoved, PlainPlaces

LEMMA ReserveMoved ==
  ASSUME IInv, NEW r \in Request, ReserveCommitment(r) \/ CheckCredit(r)
  PROVE  Moved(r) /\ SameOffers
<1>1. TypeOK /\ at[r] \in Local BY AtRequest DEF IInv
<1>2. UNCHANGED <<ord, credit, resv, shared>> BY DEF ReserveCommitment, CheckCredit, finance
<1>3. SameOffers BY <1>2 DEF SameOffers
<1>4. ASSUME NEW pc \in {"check", "hold", "outer"}, Go(r, pc) PROVE Moved(r)
  BY PlainPlaces, <1>1, <1>2, <1>4, PlainMoved
<1>5. ASSUME NEW i, at' = [at EXCEPT ![r].pc = "check", ![r].row = i]
      PROVE  Moved(r)
  <2> DEFINE l == [at[r] EXCEPT !.pc = "check", !.row = i]
  <2>1. at' = [at EXCEPT ![r] = l] /\ l.pc = "check" /\ l.order = at[r].order
    BY <1>1, <1>5 DEF Local
  <2> HIDE DEF l
  <2> QED BY <1>1, <1>2, <2>1, LocalMoved, PlainPlaces
<1>6. ASSUME NEW i, at' = [at EXCEPT ![r].pc = "provision", ![r].row = i,
                                     ![r].settled = resv[i].state = "settled"]
      PROVE  Moved(r)
  <2> DEFINE l == [at[r] EXCEPT !.pc = "provision", !.row = i,
                                !.settled = resv[i].state = "settled"]
  <2>1. at' = [at EXCEPT ![r] = l] /\ l.pc = "provision" /\ l.order = at[r].order
    BY <1>1, <1>6 DEF Local
  <2> HIDE DEF l
  <2> QED BY <1>1, <1>2, <2>1, LocalMoved, PlainPlaces
<1> QED BY <1>3, <1>4, <1>5, <1>6 DEF ReserveCommitment, CheckCredit

LEMMA ProvideMoved ==
  ASSUME IInv, NEW r \in Request,
         \/ Provision(r) \/ CreateEsim(r) \/ LinkEsim(r)
         \/ FulfillmentSucceeded(r) \/ Provisioned(r) \/ Completed(r)
  PROVE  Moved(r) /\ SameOffers
<1>1. TypeOK /\ at[r].pc # "idle" BY DEF IInv, Provision, CreateEsim, LinkEsim, FulfillmentSucceeded, Provisioned, Completed
<1>2. at[r].order \in Order BY <1>1, AtRequest
<1>3. CASE Provision(r) \/ CreateEsim(r)
  BY <1>3, <1>1, PlainMoved, PlainPlaces DEF Provision, CreateEsim, finance, SameOffers
<1>4. CASE LinkEsim(r)
  BY <1>4, <1>1, <1>2, PlainMoved, PlainPlaces, OthersOffers DEF LinkEsim, finance
<1>5. CASE FulfillmentSucceeded(r)
  BY <1>5, <1>1, <1>2, PlainMoved, PlainPlaces, OthersOffers DEF FulfillmentSucceeded, finance
<1>6. CASE Provisioned(r)
  BY <1>6, <1>1, <1>2, PlainMoved, PlainPlaces, StatusOffers DEF Provisioned, finance
<1>7. CASE Completed(r)
  <2>1. /\ UNCHANGED <<credit, resv, shared>> /\ (Go(r, "pay") \/ Go(r, "settle"))
        /\ SetStatus(at[r].order, "COMPLETED")
    BY <1>7 DEF Completed, finance
  <2>2. PICK pc \in {"pay", "settle"} : Go(r, pc) BY <2>1
  <2>3. pc \in Plain BY PlainPlaces
  <2>4. UNCHANGED <<credit, resv, shared>> BY <2>1
  <2>5. Moved(r) BY <1>1, <2>2, <2>3, <2>4, PlainMoved
  <2> QED BY <1>1, <1>2, <2>1, <2>5, StatusOffers
<1> QED BY <1>3, <1>4, <1>5, <1>6, <1>7

\* A reader that found the reservation reserved.
LEMMA FoundReserved ==
  ASSUME TypeOK, NEW r \in Request, UNCHANGED <<credit, resv, shared>>,
         NEW pc \in {"settleTx", "releaseTx"}, Go(r, pc), resv[at[r].row].state = "reserved"
  PROVE  Moved(r)
BY GoMoves DEF TypeOK, Pc, Booking, Undoing, Moved, Moves

LEMMA BooksMoved ==
  ASSUME IInv, NEW r \in Request,
         \/ SettleRead(r) \/ ReleaseRead(r)
         \/ LedgerCustomerPayment(r) \/ LedgerProviderPurchase(r)
         \/ FinancialStatusSettled(r) \/ FulfillmentFailed(r) \/ FailOrder(r)
  PROVE  Moved(r) /\ SameOffers
<1>1. /\ TypeOK /\ at[r].pc # "idle" /\ UNCHANGED <<credit, resv, shared>>
  BY DEF IInv, SettleRead, ReleaseRead, LedgerCustomerPayment, LedgerProviderPurchase, Lookup,
         Post, FinancialStatusSettled, FulfillmentFailed, FailOrder, finance
<1>2. at[r].order \in Order BY <1>1, AtRequest
<1>3. CASE SettleRead(r) \/ ReleaseRead(r)
  <2>1. at[r].pc \in {"settle", "release"} /\ UNCHANGED ord BY <1>3 DEF SettleRead, ReleaseRead
  <2>2. at[r].row \in DOMAIN resv
    BY <2>1, AtRequest DEF Facts, ReservedPc, Booking
  <2>3. resv[at[r].row].state \in {"reserved", "settled", "released"}
    <3>1. resv[at[r].row] \in Reservation BY <1>1, <2>2 DEF TypeOK
    <3> QED BY <3>1 DEF Reservation
  <2>4. \/ resv[at[r].row].state = "reserved" /\ (Go(r, "settleTx") \/ Go(r, "releaseTx"))
        \/ Go(r, "pay") \/ Go(r, "release") \/ Go(r, "failed") \/ Go(r, "outer")
    BY <1>3, <2>3 DEF SettleRead, ReleaseRead
  <2>5. SameOffers BY <2>1 DEF SameOffers
  <2> QED BY <1>1, <2>4, <2>5, FoundReserved, PlainMoved, PlainPlaces
<1>4. CASE LedgerCustomerPayment(r) \/ LedgerProviderPurchase(r)
  BY <1>4, <1>1, PlainMoved, PlainPlaces DEF LedgerCustomerPayment, LedgerProviderPurchase, Lookup,
     Post, SameOffers
<1>5. CASE FinancialStatusSettled(r)
  BY <1>5, <1>1, <1>2, DoneMoved, OthersOffers DEF FinancialStatusSettled
<1>6. CASE FulfillmentFailed(r)
  BY <1>6, <1>1, <1>2, PlainMoved, PlainPlaces, TransitionOffers DEF FulfillmentFailed
<1>7. CASE FailOrder(r)
  BY <1>7, <1>1, <1>2, PlainMoved, PlainPlaces, StatusOffers DEF FailOrder
<1> QED BY <1>3, <1>4, <1>5, <1>6, <1>7

LEMMA FailsMoved ==
  ASSUME IInv, NEW r \in Request, Fails(r)
  PROVE  Moved(r) /\ SameOffers
<1>1. /\ TypeOK /\ at[r].pc # "idle" /\ UNCHANGED <<credit, resv, shared>>
      /\ Done(r) \/ (Handler(at[r].pc) # "idle" /\ Go(r, Handler(at[r].pc)))
      /\ \/ UNCHANGED ord
         \/ ord' = [ord EXCEPT ![at[r].order].fin = "reconciliation_required"]
  BY DEF IInv, Fails, finance
<1>2. at[r].order \in Order /\ at[r].pc \in Pc BY <1>1, AtRequest DEF Local
<1>3. SameOffers BY <1>1, <1>2, OthersOffers
<1>4. Handler(at[r].pc) \in {"idle", "outer", "release"}
  BY <1>2 DEF Handler, Outside, Selecting, Undoing, Providing, Booking, Pc
<1> QED BY <1>1, <1>3, <1>4, DoneMoved, PlainMoved, PlainPlaces

\* The steps that write the books of the credit.
CreditStep(r) ==
  HoldCredit(r) \/ CreateReservation(r) \/ SettleReservation(r) \/ ReleaseReservation(r)

LEMMA RequestMoved ==
  ASSUME IInv, NEW r \in Request, Handle(r) \/ Fails(r)
  PROVE  CreditStep(r) \/ (Moved(r) /\ (SameOffers \/ Freezes(r)))
<1>1. CASE Fails(r) BY <1>1, FailsMoved
<1>2. CASE \/ CreatePaymentIntent(r) \/ SavePaymentReference(r) \/ VerifyPayment(r)
           \/ PaymentFailed(r) \/ PaymentConfirmed(r) \/ ProvisioningFailed(r)
  BY <1>2, PaymentMoved
<1>3. CASE FulfillOrder(r) \/ EnterProvisioning(r) \/ BeginFulfillment(r) BY <1>3, FulfilMoved
<1>4. CASE \E f \in Offer : SelectSupplier(r, f) BY <1>4, SelectMoved DEF Freezes
<1>5. CASE ReserveCommitment(r) \/ CheckCredit(r) BY <1>5, ReserveMoved
<1>6. CASE \/ Provision(r) \/ CreateEsim(r) \/ LinkEsim(r)
           \/ FulfillmentSucceeded(r) \/ Provisioned(r) \/ Completed(r)
  BY <1>6, ProvideMoved
<1>7. CASE \/ SettleRead(r) \/ ReleaseRead(r)
           \/ LedgerCustomerPayment(r) \/ LedgerProviderPurchase(r)
           \/ FinancialStatusSettled(r) \/ FulfillmentFailed(r) \/ FailOrder(r)
  BY <1>7, BooksMoved
<1> QED BY <1>1, <1>2, <1>3, <1>4, <1>5, <1>6, <1>7 DEF Handle, CreditStep

\* What a step of the credit's books does to the rest.
LEMMA CreditMoves ==
  ASSUME IInv, NEW r \in Request, CreditStep(r)
  PROVE  /\ UNCHANGED <<ord, shared>> /\ at[r].pc \in {"hold", "row", "settleTx", "releaseTx"}
         /\ \E pc \in {"row", "provision", "outer", "pay", "failed"} : Moves(r, pc)
         /\ \A i \in DOMAIN resv : resv'[i].state # resv[i].state =>
              i = at[r].row /\ at[r].pc \in {"settleTx", "releaseTx"}
<1>1. TypeOK /\ at \in [Request -> Local] /\ at[r] \in Local /\ resv \in Seq(Reservation)
  BY AtRequest DEF IInv, TypeOK
<1>2. {"row", "provision", "outer", "pay", "failed"} \subseteq Pc
  BY DEF Pc, Outside, Selecting, Providing, Booking, Undoing
<1>3. CASE HoldCredit(r) BY <1>3, <1>1, <1>2, GoMoves DEF HoldCredit
<1>4. CASE CreateReservation(r)
  <2> DEFINE new == [order |-> at[r].order, offer |-> at[r].offer, base |-> at[r].row = 0,
                     state |-> "reserved"]
  <2>1. /\ UNCHANGED <<ord, shared>> /\ at[r].pc = "row"
        /\ \/ UNCHANGED resv /\ Go(r, "outer")
           \/ /\ resv' = Append(resv, new)
              /\ at' = [at EXCEPT ![r].pc = "provision", ![r].row = Len(resv')]
    BY <1>4 DEF CreateReservation
  <2>2. CASE UNCHANGED resv /\ Go(r, "outer") BY <1>1, <1>2, <2>1, <2>2, GoMoves
  <2>3. CASE /\ resv' = Append(resv, new)
             /\ at' = [at EXCEPT ![r].pc = "provision", ![r].row = Len(resv')]
    <3> HIDE DEF new
    <3>1. \A i \in DOMAIN resv : resv'[i] = resv[i] BY <1>1, <2>3
    <3>2. Len(resv') \in Nat BY <1>1, <2>3
    <3> DEFINE l == [at[r] EXCEPT !.pc = "provision", !.row = Len(resv')]
    <3>3. at' = [at EXCEPT ![r] = l] BY <2>3
    <3>4. l \in Local /\ l.pc = "provision" /\ l.order = at[r].order
      BY <1>1, <1>2, <3>2 DEF Local
    <3> HIDE DEF l
    <3>5. Moves(r, "provision") BY <1>1, <3>3, <3>4 DEF Moves
    <3> QED BY <2>1, <3>1, <3>5
  <2> QED BY <2>1, <2>2, <2>3
<1>5. CASE SettleReservation(r) \/ ReleaseReservation(r)
  <2>1. PICK s \in {"settled", "released"}, pc \in {"pay", "failed"} :
             /\ UNCHANGED <<ord, shared>> /\ Go(r, pc)
             /\ resv' = [resv EXCEPT ![at[r].row].state = s]
    BY <1>5 DEF SettleReservation, ReleaseReservation
  <2>2. at[r].pc \in {"settleTx", "releaseTx"}
    BY <1>5 DEF SettleReservation, ReleaseReservation
  <2>3. at[r].row \in DOMAIN resv BY <2>2, AtRequest DEF Facts, ReservedPc, Booking
  <2>4. \A j \in DOMAIN resv : resv'[j].state = IF j = at[r].row THEN s ELSE resv[j].state
    BY <1>1, <2>1, <2>3, StateSet
  <2>5. Moves(r, pc) BY <1>1, <1>2, <2>1, GoMoves
  <2> QED BY <2>1, <2>2, <2>4, <2>5
<1> QED BY <1>3, <1>4, <1>5 DEF CreditStep

\* A call that begins marks its order if another is at it.
Began(r, o) ==
  /\ at' = [at EXCEPT ![r] = Call(at'[r].pc, o, ord[o])] /\ at'[r].pc \in {"intent", "verify"}
  /\ shared' = IF \E q \in Request : at[q].order = o THEN shared \cup {o} ELSE shared
  /\ UNCHANGED <<ord, credit, resv>>

LEMMA Steps ==
  ASSUME IInv, [Next]_vars
  PROVE  \/ UNCHANGED <<at, shared, credit, resv>> /\ SameOffers
         \/ \E r \in Request, o \in Order : Began(r, o)
         \/ \E r \in Request : CreditStep(r)
         \/ \E r \in Request : Moved(r) /\ (SameOffers \/ Freezes(r))
<1>1. TypeOK /\ at \in [Request -> Local] BY DEF IInv, TypeOK
<1>2. CASE UNCHANGED vars BY <1>2 DEF vars, finance, SameOffers
<1>3. ASSUME NEW r \in Request, NEW o \in Order, InitiatePayment(r, o) \/ ConfirmAndProvision(r, o)
      PROVE  Began(r, o)
  <2>1. PICK pc \in {"intent", "verify"} : Begin(r, o, pc) /\ UNCHANGED <<ord, credit, resv>>
    BY <1>3 DEF InitiatePayment, ConfirmAndProvision, finance
  <2>2. at' = [at EXCEPT ![r] = Call(pc, o, ord[o])] BY <2>1 DEF Begin
  <2>3. at'[r].pc = pc BY <1>1, <2>2 DEF Call
  <2> QED BY <2>1, <2>2, <2>3 DEF Began, Begin
<1>4. ASSUME NEW o \in Order, NEW i \in DOMAIN intent[o], CustomerPays(o, i) \/ PaymentWebhook(o, i)
      PROVE  UNCHANGED <<at, shared, credit, resv>> /\ SameOffers
  BY <1>4, <1>1, OthersOffers DEF CustomerPays, PaymentWebhook, finance
<1> QED BY <1>2, <1>3, <1>4, RequestMoved DEF Next

\* What a step leaves of the requests' orders and of the marks.
LEMMA AloneStep ==
  ASSUME IInv, ServedAlone, [Next]_vars
  PROVE  ServedAlone' /\ shared \subseteq shared'
<1>1. at \in [Request -> Local] BY DEF IInv, TypeOK
<1>2. CASE UNCHANGED <<at, shared>> BY <1>2 DEF ServedAlone
<1>3. ASSUME NEW r \in Request, NEW o \in Order, Began(r, o)
      PROVE  ServedAlone' /\ shared \subseteq shared'
  BY <1>1, <1>3 DEF Began, Call, ServedAlone
<1>4. ASSUME NEW r \in Request, UNCHANGED shared,
             \A q \in Request \ {r} : at'[q] = at[q], at'[r].order \in {at[r].order, None}
      PROVE  ServedAlone' /\ shared \subseteq shared'
  BY <1>4, NameAssumption DEF ServedAlone
<1>5. ASSUME NEW r \in Request, CreditStep(r) PROVE ServedAlone' /\ shared \subseteq shared'
  BY <1>4, <1>5, CreditMoves DEF Moves
<1>6. ASSUME NEW r \in Request, Moved(r) PROVE ServedAlone' /\ shared \subseteq shared'
  BY <1>4, <1>6 DEF Moved
<1> QED BY <1>2, <1>3, <1>5, <1>6, Steps

\* Freezing writes the offer of r's order, if it was read as having none.
LEMMA FreezeOffers ==
  ASSUME IInv, NEW r \in Request, Freezes(r)
  PROVE  /\ at[r].pc = "select" /\ at[r].order \in Order
         /\ \A o \in Order : ord'[o].offer # ord[o].offer =>
              o = at[r].order /\ at[r].read.offer = None
         /\ at'[r].pc = "reserve" /\ \A q \in Request \ {r} : at'[q] = at[q]
<1>1. PICK f \in Offer : SelectSupplier(r, f) BY DEF Freezes
<1>2. /\ at[r].pc = "select"
      /\ \/ at[r].read.offer = None /\ ord' = [ord EXCEPT ![at[r].order].offer = f]
         \/ UNCHANGED ord
      /\ at' = [at EXCEPT ![r].pc = "reserve", ![r].read = NewOrder, ![r].offer = f]
  BY <1>1 DEF SelectSupplier
<1>3. at[r].order \in Order /\ at \in [Request -> Local] /\ ord \in [Order -> OrderRow] /\ at[r] \in Local
  BY <1>2, AtRequest DEF IInv, TypeOK
<1> DEFINE l == [at[r] EXCEPT !.pc = "reserve", !.read = NewOrder, !.offer = f]
<1>4. at' = [at EXCEPT ![r] = l] /\ l.pc = "reserve" BY <1>2, <1>3 DEF Local
<1> HIDE DEF l
<1>5. at'[r].pc = "reserve" /\ \A q \in Request \ {r} : at'[q] = at[q] BY <1>3, <1>4
<1>6. \A o \in Order : ord'[o].offer # ord[o].offer => o = at[r].order /\ at[r].read.offer = None
  BY <1>2, <1>3
<1> QED BY <1>2, <1>3, <1>5, <1>6

LEMMA StillReadStep ==
  ASSUME IInv, ServedAlone, StillRead, [Next]_vars
  PROVE  StillRead'
<1>1. at \in [Request -> Local] /\ shared \subseteq shared' BY AloneStep DEF IInv, TypeOK
<1>2. CASE UNCHANGED <<at, shared, credit, resv>> /\ SameOffers
  <2> SUFFICES ASSUME NEW q \in Request, at[q].order \notin shared,
                      at[q].pc \in {"enter", "begin", "select"}
               PROVE  ord'[at[q].order].offer = ord[at[q].order].offer
    BY <1>2 DEF StillRead
  <2>1. at[q].order \in Order BY AtRequest
  <2> QED BY <1>2, <2>1 DEF SameOffers
<1>3. ASSUME NEW r \in Request, NEW o \in Order, Began(r, o) PROVE StillRead'
  BY <1>1, <1>3 DEF Began, StillRead
<1>4. ASSUME NEW r \in Request, CreditStep(r) PROVE StillRead'
  <2>1. /\ UNCHANGED <<ord, shared>> /\ \A q \in Request \ {r} : at'[q] = at[q]
        /\ at'[r].pc \in {"row", "provision", "outer", "pay", "failed"}
        /\ \A i \in DOMAIN resv : resv'[i].state # resv[i].state =>
             i = at[r].row /\ at[r].pc \in {"settleTx", "releaseTx"}
    BY <1>4, CreditMoves DEF Moves
  <2>2. ASSUME NEW q \in Request \ {r}, at[q].order \notin shared,
               at[q].pc \in {"settleTx", "releaseTx"}
        PROVE  resv'[at[q].row].state = "reserved"
    <3>1. /\ at[q].row \in DOMAIN resv /\ resv[at[q].row].order = at[q].order
          /\ at[q].order \in Order
      BY <2>2, AtRequest DEF Facts, ReservedPc, Booking
    <3>2. resv[at[q].row].state = "reserved" BY <2>2 DEF StillRead
    <3>3. ASSUME at[q].row = at[r].row, at[r].pc \in {"settleTx", "releaseTx"} PROVE FALSE
      BY <3>3, AtRequest, <2>2, <3>1 DEF Facts, ReservedPc, Booking, ServedAlone
    <3> QED BY <2>1, <3>1, <3>2, <3>3
  <2> QED BY <2>1, <2>2 DEF StillRead
<1>5. ASSUME NEW r \in Request, Moved(r), SameOffers \/ Freezes(r) PROVE StillRead'
  <2>1. UNCHANGED <<resv, shared>> /\ \A q \in Request \ {r} : at'[q] = at[q]
    BY <1>5 DEF Moved
  <2>2. ASSUME NEW q \in Request \ {r}, at[q].order \notin shared,
               at[q].pc \in {"enter", "begin", "select"}
        PROVE  ord'[at[q].order].offer = ord[at[q].order].offer
    BY <2>2, AtRequest, FreezeOffers, <1>5 DEF SameOffers, ServedAlone
  <2>3. ASSUME at'[r].order \notin shared', at'[r].pc \in {"enter", "begin", "select"}
        PROVE  at'[r].read.offer = ord'[at'[r].order].offer
    <3>1. /\ at'[r].order = at[r].order /\ SameOffers
          /\ \/ at'[r].read = ord[at[r].order]
             \/ at[r].pc \in {"enter", "begin"} /\ at'[r].read = at[r].read
      BY <1>5, <2>3 DEF Moved
    <3>2. at'[r].order \in Order BY StepIInv, <2>3 DEF IInv, AllFacts, Facts
    <3>3. ord'[at[r].order].offer = ord[at[r].order].offer BY <3>1, <3>2 DEF SameOffers
    <3>4. at[r].order \notin shared BY <2>1, <2>3, <3>1
    <3> QED BY <3>1, <3>3, <3>4 DEF StillRead
  <2>4. at'[r].pc \in {"settleTx", "releaseTx"} => resv'[at'[r].row].state = "reserved"
    BY <1>5, <2>1 DEF Moved
  <2> QED BY <2>1, <2>2, <2>3, <2>4 DEF StillRead
<1> QED BY <1>2, <1>3, <1>4, <1>5, Steps

LEMMA AloneInit == Init => ServedAlone /\ StillRead
BY NameAssumption DEF Init, Idle, Call, ServedAlone, StillRead

\* The supplier offer of an order that no two requests served at once is
\* chosen once, whatever fails and is tried again.
THEOREM ChosenOnce == Spec => SelectionFrozen
<1>1. IInv /\ ServedAlone /\ StillRead /\ [Next]_vars
        => [\A o \in Order \ shared : ord[o].offer # None => ord'[o].offer = ord[o].offer]_vars
  <2> SUFFICES ASSUME IInv, ServedAlone, StillRead, [Next]_vars, NEW o \in Order \ shared,
                      ord[o].offer # None
               PROVE  ord'[o].offer = ord[o].offer
    OBVIOUS
  <2>1. CASE SameOffers BY <2>1 DEF SameOffers
  <2>2. CASE UNCHANGED ord BY <2>2
  <2>3. ASSUME NEW r \in Request, Freezes(r) PROVE ord'[o].offer = ord[o].offer
    BY <2>3, FreezeOffers DEF StillRead
  <2>4. \/ SameOffers \/ UNCHANGED ord \/ \E r \in Request : Freezes(r)
    BY Steps, CreditMoves DEF Began
  <2> QED BY <2>1, <2>2, <2>3, <2>4
<1>2. IInv /\ ServedAlone /\ [Next]_vars => ServedAlone' BY AloneStep
<1>3. IInv /\ ServedAlone /\ StillRead /\ [Next]_vars => StillRead' BY StillReadStep
<1> QED BY <1>1, <1>2, <1>3, InitIInv, StepIInv, AloneInit, PTL DEF Spec, SelectionFrozen

-----------------------------------------------------------------------------
(* The provider's credit covers the reservations.                          *)

\* Requests that have held credit and have no row for it yet.
Holders == {r \in Request : at[r].pc = "row"}
HeldCosts == [r \in Request |-> Cost[at[r].offer]]

\* What is committed covers the reserved rows and what is held for rows to come.
Covered ==
  /\ credit.pending >= Amount({"reserved"}) + SumFunctionOnSet(HeldCosts, Holders)
  /\ credit.liability = Amount({"settled"})

CreditInv == IsFiniteSet(Holders) /\ (shared = {} => Covered)

LEMMA CostsAreNat ==
  ASSUME IInv
  PROVE  /\ \A i \in DOMAIN resv : RowCosts[i] \in Nat
         /\ \A r \in Holders : HeldCosts[r] \in Nat
         /\ \A states : /\ IsFiniteSet(RowsIn(states)) /\ RowsIn(states) \subseteq DOMAIN resv
                        /\ Amount(states) \in Nat
<1>1. ASSUME NEW i \in DOMAIN resv PROVE RowCosts[i] \in Nat
  <2>1. resv[i] \in Reservation BY DEF IInv, TypeOK
  <2> QED BY <2>1, CostAssumption DEF Reservation, RowCosts
<1>2. ASSUME NEW r \in Holders PROVE HeldCosts[r] \in Nat
  BY AtRequest, CostAssumption DEF Holders, Facts, HeldCosts
<1>3. ASSUME NEW states
      PROVE  /\ IsFiniteSet(RowsIn(states)) /\ RowsIn(states) \subseteq DOMAIN resv
             /\ Amount(states) \in Nat
  <2>1. resv \in Seq(Reservation) BY DEF IInv, TypeOK
  <2>2. DOMAIN resv = 1..Len(resv) /\ Len(resv) \in Nat BY <2>1
  <2>3. IsFiniteSet(DOMAIN resv) BY <2>2, FS_Interval
  <2>4. RowsIn(states) \subseteq DOMAIN resv BY DEF RowsIn
  <2>5. IsFiniteSet(RowsIn(states)) BY <2>3, <2>4, FS_Subset
  <2>6. \A i \in RowsIn(states) : RowCosts[i] \in Nat BY <1>1, <2>4
  <2> QED BY <2>4, <2>5, <2>6, SumIsNat DEF Amount
<1> QED BY <1>1, <1>2, <1>3

LEMMA HeldIsNat ==
  ASSUME IInv, IsFiniteSet(Holders)
  PROVE  SumFunctionOnSet(HeldCosts, Holders) \in Nat
BY CostsAreNat, SumIsNat

\* Leaving "row" takes the cost held there from the sum.
LEMMA HolderLeaves ==
  ASSUME IInv, IsFiniteSet(Holders), NEW r \in Request,
         \A q \in Request \ {r} : at'[q] = at[q], at'[r].pc # "row"
  PROVE  /\ IsFiniteSet(Holders')
         /\ SumFunctionOnSet(HeldCosts, Holders)' \in Nat
         /\ at[r].pc = "row" => SumFunctionOnSet(HeldCosts, Holders)
                                  = Cost[at[r].offer] + SumFunctionOnSet(HeldCosts, Holders)'
         /\ at[r].pc # "row" => SumFunctionOnSet(HeldCosts, Holders)'
                                  = SumFunctionOnSet(HeldCosts, Holders)
<1>1. Holders' = Holders \ {r} /\ (at[r].pc = "row" <=> r \in Holders) BY DEF Holders
<1>2. IsFiniteSet(Holders') BY <1>1, FS_Subset
<1>3. \A q \in Holders' : HeldCosts'[q] = HeldCosts[q] /\ HeldCosts[q] \in Nat
  BY <1>1, CostsAreNat DEF HeldCosts, Holders
<1>4. SumFunctionOnSet(HeldCosts', Holders') = SumFunctionOnSet(HeldCosts, Holders')
  BY <1>2, <1>3, SumOfSame
<1>5. SumFunctionOnSet(HeldCosts, Holders') \in Nat BY <1>2, <1>3, SumIsNat
<1>6. CASE r \in Holders
  <2>1. \A q \in Holders : HeldCosts[q] \in Int BY CostsAreNat
  <2>2. SumFunctionOnSet(HeldCosts, Holders)
          = HeldCosts[r] + SumFunctionOnSet(HeldCosts, Holders \ {r})
    BY <1>6, <2>1, SumRemoves
  <2>3. HeldCosts[r] = Cost[at[r].offer] BY DEF HeldCosts
  <2> QED BY <1>1, <1>2, <1>4, <1>5, <1>6, <2>2, <2>3
<1>7. CASE r \notin Holders BY <1>1, <1>7, <1>2, <1>4, <1>5
<1> QED BY <1>6, <1>7

\* The books do not move: nobody holds more.
LEMMA CoveredStays ==
  ASSUME IInv, IsFiniteSet(Holders), Covered, UNCHANGED <<credit, resv>>, NEW r \in Request,
         \A q \in Request \ {r} : at'[q] = at[q], at'[r].pc # "row"
  PROVE  Covered'
<1> DEFINE h == SumFunctionOnSet(HeldCosts, Holders)
           k == SumFunctionOnSet(HeldCosts, Holders)'
           a == Amount({"reserved"})
<1>1. h \in Nat /\ k \in Nat /\ a \in Nat /\ credit.pending \in Nat
  BY HeldIsNat, HolderLeaves, CostsAreNat DEF IInv, TypeOK
<1>2. k <= h
  <2>1. CASE at[r].pc = "row"
    <3>1. r \in Holders /\ HeldCosts[r] = Cost[at[r].offer] BY <2>1 DEF Holders, HeldCosts
    <3>2. Cost[at[r].offer] \in Nat BY <3>1, CostsAreNat
    <3>3. h = Cost[at[r].offer] + k BY <2>1, HolderLeaves
    <3> HIDE DEF h, k
    <3> QED BY <1>1, <3>2, <3>3
  <2>2. CASE at[r].pc # "row"
    <3>1. k = h BY <2>2, HolderLeaves
    <3> HIDE DEF h, k
    <3> QED BY <1>1, <3>1
  <2> QED BY <2>1, <2>2
<1>3. credit.pending >= a + h /\ credit.liability = Amount({"settled"}) BY DEF Covered
<1>4. credit.pending >= a + k
  <2> HIDE DEF a, h, k
  <2> QED BY <1>1, <1>2, <1>3
<1>5. a' = a /\ Amount({"settled"})' = Amount({"settled"}) BY DEF Amount, RowCosts, RowsIn
<1> QED BY <1>3, <1>4, <1>5 DEF Covered

LEMMA HoldCovers ==
  ASSUME IInv, IsFiniteSet(Holders), NEW r \in Request, HoldCredit(r)
  PROVE  IsFiniteSet(Holders') /\ (Covered => Covered')
<1> DEFINE h == SumFunctionOnSet(HeldCosts, Holders)
           k == SumFunctionOnSet(HeldCosts, Holders)'
           a == Amount({"reserved"})
           c == Cost[at[r].offer]
<1>1. /\ at[r].pc = "hold" /\ UNCHANGED resv /\ Go(r, "row")
      /\ credit' = [credit EXCEPT !.pending = @ + Cost[at[r].offer]]
      /\ at[r].offer \in Offer
  BY AtRequest DEF HoldCredit, Facts
<1>2. at'[r].pc = "row" /\ at'[r].offer = at[r].offer /\ \A q \in Request \ {r} : at'[q] = at[q]
  BY <1>1, GoMoves DEF IInv, TypeOK, Moves, Pc, Selecting
<1>3. r \notin Holders /\ Holders' = Holders \cup {r} BY <1>1, <1>2 DEF Holders
<1>4. IsFiniteSet(Holders') BY <1>3, FS_AddElement
<1>5. /\ \A q \in Holders' : HeldCosts'[q] = HeldCosts[q] /\ HeldCosts[q] \in Int
      /\ HeldCosts[r] = c /\ c \in Nat
  BY <1>1, <1>2, <1>3, CostsAreNat, CostAssumption DEF HeldCosts, Holders
<1>6. k = SumFunctionOnSet(HeldCosts, Holders') BY <1>4, <1>5, SumOfSame
<1>7. SumFunctionOnSet(HeldCosts, Holders \cup {r}) = h + HeldCosts[r]
  BY <1>3, <1>5, SumAdds
<1>8. k = h + c BY <1>3, <1>5, <1>6, <1>7
<1>9. /\ h \in Nat /\ a \in Nat /\ credit.pending \in Nat
      /\ credit'.pending = credit.pending + c /\ credit'.liability = credit.liability
  BY <1>1, HeldIsNat, CostsAreNat DEF IInv, TypeOK
<1>10. a' = a /\ Amount({"settled"})' = Amount({"settled"}) BY <1>1 DEF Amount, RowCosts, RowsIn
<1>11. credit.pending >= a + h => credit'.pending >= a + k
  <2> HIDE DEF a, h, k, c
  <2> QED BY <1>5, <1>8, <1>9
<1> QED BY <1>4, <1>9, <1>10, <1>11 DEF Covered

\* A new row adds its cost to the reserved ones.
LEMMA RowAdded ==
  ASSUME IInv, NEW new \in Reservation, new.state = "reserved", resv' = Append(resv, new)
  PROVE  /\ Amount({"reserved"})' = Amount({"reserved"}) + Cost[new.offer]
         /\ Amount({"settled"})' = Amount({"settled"})
<1> DEFINE n == Len(resv) + 1
<1>1. resv \in Seq(Reservation) /\ Cost[new.offer] \in Nat
  BY CostAssumption DEF IInv, TypeOK, Reservation
<1>2. /\ DOMAIN resv' = DOMAIN resv \cup {n} /\ n \notin DOMAIN resv /\ resv'[n] = new
      /\ \A i \in DOMAIN resv : resv'[i] = resv[i]
  BY <1>1
<1> HIDE DEF n
<1>3. RowsIn({"reserved"})' = RowsIn({"reserved"}) \cup {n} /\ n \notin RowsIn({"reserved"})
  BY <1>2 DEF RowsIn
<1>4. RowsIn({"settled"})' = RowsIn({"settled"}) BY <1>2 DEF RowsIn
<1>5. RowCosts'[n] = Cost[new.offer] /\ \A i \in DOMAIN resv : RowCosts'[i] = RowCosts[i]
  BY <1>2 DEF RowCosts
<1>6. /\ IsFiniteSet(RowsIn({"reserved"})) /\ IsFiniteSet(RowsIn({"settled"}))
      /\ RowsIn({"reserved"}) \subseteq DOMAIN resv /\ RowsIn({"settled"}) \subseteq DOMAIN resv
      /\ \A i \in DOMAIN resv : RowCosts[i] \in Nat
  BY CostsAreNat
<1>7. SumFunctionOnSet(RowCosts', RowsIn({"reserved"}) \cup {n})
        = SumFunctionOnSet(RowCosts', RowsIn({"reserved"})) + RowCosts'[n]
  BY <1>1, <1>5, <1>6, <1>3, SumAdds
<1>8. SumFunctionOnSet(RowCosts', RowsIn({"reserved"})) = SumFunctionOnSet(RowCosts, RowsIn({"reserved"}))
  BY <1>5, <1>6, SumOfSame
<1>9. SumFunctionOnSet(RowCosts', RowsIn({"settled"})) = SumFunctionOnSet(RowCosts, RowsIn({"settled"}))
  BY <1>5, <1>6, SumOfSame
<1> QED BY <1>3, <1>4, <1>5, <1>7, <1>8, <1>9 DEF Amount

LEMMA CreateCovers ==
  ASSUME IInv, IsFiniteSet(Holders), NEW r \in Request, CreateReservation(r)
  PROVE  IsFiniteSet(Holders') /\ (Covered => Covered')
<1> DEFINE new == [order |-> at[r].order, offer |-> at[r].offer, base |-> at[r].row = 0,
                   state |-> "reserved"]
<1>1. /\ at[r].pc = "row" /\ UNCHANGED credit
      /\ resv' = Append(resv, new) \/ (UNCHANGED resv /\ Go(r, "outer"))
      /\ at[r].order \in Order /\ at[r].offer \in Offer
  BY AtRequest DEF CreateReservation, Facts
<1>2. at'[r].pc # "row" /\ \A q \in Request \ {r} : at'[q] = at[q]
  <2>1. CASE Go(r, "outer")
    BY <2>1, GoMoves DEF IInv, TypeOK, Moves, Pc, Outside
  <2>2. CASE at' = [at EXCEPT ![r].pc = "provision", ![r].row = Len(resv')]
    <3> DEFINE l == [at[r] EXCEPT !.pc = "provision", !.row = Len(resv')]
    <3>1. at[r] \in Local /\ at \in [Request -> Local] BY DEF IInv, TypeOK
    <3>2. l.pc = "provision" /\ at' = [at EXCEPT ![r] = l] BY <2>2, <3>1 DEF Local
    <3> HIDE DEF l
    <3> QED BY <3>1, <3>2
  <2> QED BY <2>1, <2>2 DEF CreateReservation
<1>3. IsFiniteSet(Holders') BY <1>2, HolderLeaves
<1>4. CASE UNCHANGED resv BY <1>1, <1>2, <1>3, <1>4, CoveredStays
<1>5. CASE resv' = Append(resv, new)
  <2>1. new \in Reservation /\ new.state = "reserved" /\ new.offer = at[r].offer
    BY <1>1 DEF Reservation
  <2> HIDE DEF new
  <2> DEFINE h == SumFunctionOnSet(HeldCosts, Holders)
             k == SumFunctionOnSet(HeldCosts, Holders)'
             a == Amount({"reserved"})
             b == Amount({"reserved"})'
             c == Cost[at[r].offer]
  <2>2. /\ b = a + c /\ Amount({"settled"})' = Amount({"settled"})
    BY <1>5, <2>1, RowAdded
  <2>3. h = c + k BY <1>1, <1>2, HolderLeaves
  <2>4. h \in Nat /\ k \in Nat /\ a \in Nat /\ c \in Nat /\ credit.pending \in Nat
    BY <1>1, <1>2, HeldIsNat, HolderLeaves, CostsAreNat, CostAssumption DEF IInv, TypeOK
  <2>5. credit.pending >= a + h => credit.pending >= b + k
    <3> HIDE DEF h, k, a, b, c
    <3> QED BY <2>2, <2>3, <2>4
  <2> QED BY <1>1, <1>3, <2>2, <2>5 DEF Covered
<1> QED BY <1>1, <1>4, <1>5

\* A reserved row that gets another state takes its cost with it.
LEMMA RowLeaves ==
  ASSUME IInv, NEW i \in DOMAIN resv, resv[i].state = "reserved",
         NEW s \in {"settled", "released"}, resv' = [resv EXCEPT ![i].state = s]
  PROVE  /\ Amount({"reserved"}) = Cost[resv[i].offer] + Amount({"reserved"})'
         /\ Amount({"reserved"})' \in Nat
         /\ Amount({"settled"})'
              = IF s = "settled" THEN Amount({"settled"}) + Cost[resv[i].offer]
                ELSE Amount({"settled"})
<1>1. resv \in Seq(Reservation) /\ resv[i] \in Reservation BY DEF IInv, TypeOK
<1>2. /\ DOMAIN resv' = DOMAIN resv
      /\ \A j \in DOMAIN resv : /\ resv'[j].state = IF j = i THEN s ELSE resv[j].state
                                /\ resv'[j].offer = resv[j].offer
  <2> DEFINE new == [resv[i] EXCEPT !.state = s]
  <2>1. new.state = s /\ new.offer = resv[i].offer BY <1>1 DEF Reservation
  <2>2. resv' = [resv EXCEPT ![i] = new] OBVIOUS
  <2> HIDE DEF new
  <2> QED BY <1>1, <2>1, <2>2
<1>3. RowCosts' = RowCosts BY <1>2 DEF RowCosts
<1>4. RowsIn({"reserved"})' = RowsIn({"reserved"}) \ {i} /\ i \in RowsIn({"reserved"})
  BY <1>2 DEF RowsIn
<1>5. /\ s = "settled" => RowsIn({"settled"})' = RowsIn({"settled"}) \cup {i}
      /\ s # "settled" => RowsIn({"settled"})' = RowsIn({"settled"})
      /\ i \notin RowsIn({"settled"})
  BY <1>2 DEF RowsIn
<1>6. /\ IsFiniteSet(RowsIn({"reserved"})) /\ IsFiniteSet(RowsIn({"settled"}))
      /\ \A j \in RowsIn({"reserved"}) : RowCosts[j] \in Int
      /\ \A j \in RowsIn({"settled"}) \cup {i} : RowCosts[j] \in Int
      /\ RowCosts[i] = Cost[resv[i].offer]
      /\ \A j \in RowsIn({"reserved"}) \ {i} : RowCosts[j] \in Nat
  BY CostsAreNat DEF RowCosts
<1>7. SumFunctionOnSet(RowCosts, RowsIn({"reserved"}))
        = RowCosts[i] + SumFunctionOnSet(RowCosts, RowsIn({"reserved"}) \ {i})
  BY <1>4, <1>6, SumRemoves
<1>8. SumFunctionOnSet(RowCosts, RowsIn({"settled"}) \cup {i})
        = SumFunctionOnSet(RowCosts, RowsIn({"settled"})) + RowCosts[i]
  BY <1>5, <1>6, SumAdds
<1>9. SumFunctionOnSet(RowCosts, RowsIn({"reserved"}) \ {i}) \in Nat
  BY <1>6, FS_Subset, SumIsNat
<1> QED BY <1>3, <1>4, <1>5, <1>6, <1>7, <1>8, <1>9 DEF Amount

LEMMA SettleCovers ==
  ASSUME IInv, IsFiniteSet(Holders), StillRead, NEW r \in Request,
         SettleReservation(r) \/ ReleaseReservation(r)
  PROVE  IsFiniteSet(Holders') /\ (shared = {} /\ Covered => Covered')
<1> DEFINE i == at[r].row
           c == Cost[resv[i].offer]
<1>1. PICK s \in {"settled", "released"}, pc \in {"pay", "failed"} :
           /\ Go(r, pc) /\ at[r].pc \in {"settleTx", "releaseTx"}
           /\ resv' = [resv EXCEPT ![i].state = s]
           /\ credit' = [pending |-> Uncommit(c),
                         liability |-> IF s = "settled" THEN credit.liability + c
                                       ELSE credit.liability]
  BY DEF SettleReservation, IInv, TypeOK, ReleaseReservation
<1>2. at'[r].pc # "row" /\ \A q \in Request \ {r} : at'[q] = at[q]
  BY <1>1, GoMoves DEF IInv, TypeOK, Moves, Pc, Booking, Undoing
<1>3. IsFiniteSet(Holders') BY <1>2, HolderLeaves
<1>4. i \in DOMAIN resv /\ resv[i] \in Reservation /\ c \in Nat
  <2>1. i \in DOMAIN resv BY <1>1, AtRequest DEF Facts, ReservedPc, Booking
  <2>2. resv[i] \in Reservation BY <2>1 DEF IInv, TypeOK
  <2> QED BY <2>1, <2>2, CostAssumption DEF Reservation
<1>5. ASSUME shared = {}, Covered PROVE Covered'
  <2> DEFINE h == SumFunctionOnSet(HeldCosts, Holders)
             k == SumFunctionOnSet(HeldCosts, Holders)'
             a == Amount({"reserved"})
             b == Amount({"reserved"})'
             t == Amount({"settled"})
  <2>1. resv[i].state = "reserved" BY <1>1, <1>5 DEF StillRead
  <2>2. /\ a = c + b /\ b \in Nat
        /\ t' = IF s = "settled" THEN t + c ELSE t
    BY <1>1, <1>4, <2>1, RowLeaves
  <2>3. k = h BY <1>1, <1>2, HolderLeaves
  <2>4. h \in Nat /\ a \in Nat /\ credit.pending \in Nat BY HeldIsNat, CostsAreNat DEF IInv, TypeOK
  <2>5. credit.pending >= a + h /\ credit.liability = t BY <1>5 DEF Covered
  <2>6. credit'.pending = IF credit.pending < c THEN 0 ELSE credit.pending - c
    BY <1>1 DEF Uncommit
  <2>7. credit'.liability = IF s = "settled" THEN credit.liability + c ELSE credit.liability
    BY <1>1
  <2>8. credit'.pending >= b + k
    <3> HIDE DEF h, k, a, b, c
    <3> QED BY <1>4, <2>2, <2>3, <2>4, <2>5, <2>6
  <2>9. credit'.liability = t'
    <3> HIDE DEF t, c
    <3> QED BY <2>2, <2>5, <2>7
  <2> QED BY <2>8, <2>9 DEF Covered
<1> QED BY <1>3, <1>5

LEMMA CreditInvStep ==
  ASSUME IInv, ServedAlone, StillRead, CreditInv, [Next]_vars
  PROVE  CreditInv'
<1>1. /\ IsFiniteSet(Holders) /\ at \in [Request -> Local]
      /\ shared' = {} => shared = {} /\ Covered
  BY AloneStep DEF CreditInv, IInv, TypeOK
<1>2. CASE UNCHANGED <<at, credit, resv>>
  BY <1>1, <1>2 DEF CreditInv, Covered, Holders, HeldCosts, Amount, RowCosts, RowsIn
<1>3. ASSUME NEW r \in Request, UNCHANGED <<credit, resv>>,
             \A q \in Request \ {r} : at'[q] = at[q], at'[r].pc # "row"
      PROVE  CreditInv'
  BY <1>1, <1>3, HolderLeaves, CoveredStays DEF CreditInv
<1>4. ASSUME NEW r \in Request, NEW o \in Order, Began(r, o) PROVE CreditInv'
  BY <1>1, <1>4, <1>3 DEF Began
<1>5. ASSUME NEW r \in Request, Moved(r) PROVE CreditInv' BY <1>3, <1>5 DEF Moved
<1>6. ASSUME NEW r \in Request, CreditStep(r) PROVE CreditInv'
  BY <1>1, <1>6, HoldCovers, CreateCovers, SettleCovers DEF CreditStep, CreditInv
<1> QED BY <1>2, <1>4, <1>5, <1>6, Steps

\* While no order is served by two requests at once, the provider's account
\* covers what its reservations say, whatever requests for different orders do
\* to each other and wherever they fail; the liability is exact.
THEOREM CreditIsCovered == Spec => []CreditCovered
<1>1. Init => CreditInv
  <2> SUFFICES ASSUME Init PROVE CreditInv OBVIOUS
  <2>1. Holders = {} BY DEF Init, Idle, Call, Holders
  <2>2. RowsIn({"reserved"}) = {} /\ RowsIn({"settled"}) = {} BY DEF Init, RowsIn
  <2>3. credit.pending = 0 /\ credit.liability = 0 BY DEF Init
  <2>4. /\ Amount({"reserved"}) = 0 /\ Amount({"settled"}) = 0
        /\ SumFunctionOnSet(HeldCosts, Holders) = 0
    BY <2>1, <2>2, SumOfNothing DEF Amount
  <2> QED BY <2>1, <2>3, <2>4, FS_EmptySet DEF CreditInv, Covered
<1>2. IInv /\ ServedAlone /\ [Next]_vars => ServedAlone' BY AloneStep
<1>3. IInv /\ ServedAlone /\ StillRead /\ [Next]_vars => StillRead' BY StillReadStep
<1>4. IInv /\ ServedAlone /\ StillRead /\ CreditInv /\ [Next]_vars => CreditInv' BY CreditInvStep
<1>5. IInv /\ CreditInv => CreditCovered
  <2> SUFFICES ASSUME IInv, CreditInv, shared = {}
               PROVE  /\ credit.pending >= Amount({"reserved"})
                      /\ credit.liability = Amount({"settled"})
    BY DEF CreditCovered
  <2> DEFINE h == SumFunctionOnSet(HeldCosts, Holders)
             a == Amount({"reserved"})
  <2>1. h \in Nat /\ a \in Nat /\ credit.pending \in Nat
    BY HeldIsNat, CostsAreNat DEF CreditInv, IInv, TypeOK
  <2>2. credit.pending >= a + h /\ credit.liability = Amount({"settled"}) BY DEF CreditInv, Covered
  <2>3. credit.pending >= a
    <3> HIDE DEF h, a
    <3> QED BY <2>1, <2>2
  <2> QED BY <2>2, <2>3
<1> QED BY <1>1, <1>2, <1>3, <1>4, <1>5, InitIInv, StepIInv, AloneInit, PTL DEF Spec

-----------------------------------------------------------------------------
(* Catalogue: what is sold, and what a sync leaves.                        *)

TaskPlaces ==
  {"begin", "plan", "store", "product", "claim", "rename", "create", "offer", "supply",
   "find", "put", "shelf", "stock", "place", "done", "thrown"}
TaskDeeds == Syncing \cup Ordering \cup Enabling \cup Disabling \cup Toggling \cup Changing
             \cup Resting
TaskRows ==
  [does : TaskDeeds, rules : SUBSET RuleRows, at : TaskPlaces, saw : FeedRows, n : Nat,
   status : {"absent", "active", "inactive"}, spec : Identities, product : Nat, id : Nat,
   price : Int]
OrderRows ==
  [by : Task, plan : PlanId, product : Nat, offer : Nat, tenant : Seller, amount : Int]

CatalogueTyped ==
  /\ feed \in FeedRows /\ plans \in [PlanId -> PlanRows] /\ products \in Seq(ProductRows)
  /\ offers \in Seq(OfferRows) /\ shelf \in Seq(ShelfRows)
  /\ task \in [Task -> TaskRows] /\ orders \in SUBSET OrderRows
  /\ offered \in SUBSET (Nat \X Int)

TaskFits(t) ==
  /\ DeedFits(task[t].does, shelf)
  /\ task[t].does.kind = "sync" =>
       /\ task[t].n \in 1..(Len(task[t].does.order) + 1)
       /\ task[t].at \notin {"done", "thrown"} => task[t].n \in DOMAIN task[t].does.order
       /\ task[t].at = "begin" => task[t].n = 1
       /\ task[t].at = "done" => task[t].n = Len(task[t].does.order) + 1

SourcesFit ==
  /\ \A p \in PlanId : PlanFits(plans[p])
  /\ \A i \in DOMAIN products : SourceFits(products[i], plans)

IsOf(i, p) == i \in DOMAIN products /\ products[i].been \cap plans[p].had # {}

\* Before it looks for an offer, a call has none.
IdFits(row) ==
  row.does.kind \in {"sync", "enable"}
  /\ row.at \in {"begin", "plan", "store", "product", "claim", "rename", "create", "offer", "find"}
  => row.id = 0

\* The row that a call has found is of the plan it is for.
FoundFits(t) ==
  LET i == task[t].product IN
  /\ IdFits(task[t])
  /\ Tasked(t, "sync", "claim") \/ Tasked(t, "sync", "rename") \/ Tasked(t, "sync", "offer")
     \/ Tasked(t, "sync", "supply") => IsOf(i, ThisPlan(t))
  /\ task[t].does.kind \in {"sync", "order"}
     /\ task[t].at \in {"product", "claim", "rename", "create"} => SpecOf(t) \in plans[PlanOf(t)].had
  /\ task[t].at = "create" => task[t].does.kind \in {"sync", "order"}
  /\ Tasked(t, "order", "shelf") \/ Tasked(t, "order", "stock") \/ Tasked(t, "order", "place") =>
       IsOf(i, task[t].does.plan)
  /\ Tasked(t, "sync", "supply") /\ task[t].id # 0 => task[t].id \in SuppliesOf(i)
  /\ Tasked(t, "enable", "put") /\ task[t].id # 0 =>
       task[t].id \in Shelved(task[t].does.product, task[t].does.tenant)
  /\ Tasked(t, "order", "place") =>
       /\ task[t].id \in Shelved(i, task[t].does.tenant)
       /\ <<task[t].id, task[t].price>> \in offered
  /\ Tasked(t, "order", "stock") => task[t].does.tenant = Direct

ActiveOffered == \A i \in DOMAIN shelf :
  shelf[i].status = "active" => <<i, shelf[i].retail>> \in offered

OrdersHold == \A o \in orders :
  /\ <<o.offer, o.amount>> \in offered /\ o.offer \in Shelved(o.product, o.tenant)
  /\ IsOf(o.product, o.plan)

\* A plan's row has what was read, and a product of its identity is supplied at its price.
Terms(p) == <<plans[p].wholesale, plans[p].spec>>
Copied(t, p) == LET pp == task[t].saw[p] IN Valid(pp) =>
  /\ Terms(p) = <<pp.wholesale, Identity(pp)>>
  /\ Supplied(task[t].saw, Identity(pp)) \/ GivenAway(task[t].saw, Identity(pp))

\* What a sync that writes alone knows of the product that it has found.
Placed(t) == LET i == task[t].product IN
  /\ task[t].at \in {"claim", "offer", "supply"} => products[i].identity = Identity(Seen(t))
  /\ task[t].at = "rename" => products[i].source = ThisPlan(t)

\* A sync without another writer has copied every plan that it has passed.
Stored == {"product", "claim", "rename", "create", "offer", "supply"}
SyncFits(t) == task[t].does.kind = "sync" /\ Alone(t) =>
  /\ \A k \in 1..(task[t].n - 1) : Copied(t, task[t].does.order[k])
  /\ task[t].at \in Stored => Terms(ThisPlan(t)) = <<Seen(t).wholesale, Identity(Seen(t))>>
  /\ Placed(t)

CatalogueInv ==
  /\ CatalogueTyped /\ SourcesFit /\ ActiveOffered /\ OrdersHold
  /\ \A t \in Task : TaskFits(t) /\ FoundFits(t) /\ SyncFits(t)


-----------------------------------------------------------------------------
(* What a step leaves of what others know.                                 *)

\* A row forgets no specification it has had.
PlansGrow == \A p \in PlanId : plans[p].had \subseteq plans'[p].had
ProductsGrow == \A i \in DOMAIN products :
  i \in DOMAIN products' /\ products[i].been \subseteq products'[i].been
OffersGrow == \A k \in DOMAIN offers :
  k \in DOMAIN offers' /\ offers'[k].product = offers[k].product
ShelfGrows == Len(shelf) <= Len(shelf') /\ \A i \in DOMAIN shelf :
  /\ i \in DOMAIN shelf'
  /\ shelf'[i].product = shelf[i].product /\ shelf'[i].tenant = shelf[i].tenant
CatalogueGrows ==
  /\ PlansGrow /\ ProductsGrow /\ OffersGrow /\ ShelfGrows /\ offered \subseteq offered'

\* One call's row is replaced, and what it does stays.
Replaces(t, row) ==
  /\ row \in TaskRows /\ row.does = task[t].does /\ task' = [task EXCEPT ![t] = row]

LEMMA CatalogueRows ==
  ASSUME CatalogueTyped
  PROVE  /\ DOMAIN products = 1..Len(products) /\ Len(products) \in Nat
         /\ DOMAIN offers = 1..Len(offers) /\ Len(offers) \in Nat
         /\ DOMAIN shelf = 1..Len(shelf) /\ Len(shelf) \in Nat
         /\ \A i \in DOMAIN products : products[i] \in ProductRows
         /\ \A i \in DOMAIN offers : offers[i] \in OfferRows
         /\ \A i \in DOMAIN shelf : shelf[i] \in ShelfRows
BY DEF CatalogueTyped

LEMMA ReplacedTask ==
  ASSUME CatalogueTyped, NEW t \in Task, NEW row, Replaces(t, row)
  PROVE  /\ task' \in [Task -> TaskRows] /\ task'[t] = row
         /\ \A u \in Task : u # t => task'[u] = task[u]
         /\ \A u \in Task : task'[u].does = task[u].does
BY DEF Replaces, CatalogueTyped

LEMMA ShelfFits ==
  ASSUME NEW does, NEW s, NEW r, DeedFits(does, s), Len(s) \in Nat, Len(r) \in Nat,
         Len(s) <= Len(r), DOMAIN s = 1..Len(s), DOMAIN r = 1..Len(r)
  PROVE  DeedFits(does, r)
BY DEF DeedFits

\* What a product is of, it stays of.
LEMMA StaysOf ==
  ASSUME CatalogueGrows, NEW i, NEW p \in PlanId, IsOf(i, p)
  PROVE  IsOf(i, p)'
BY DEF IsOf, CatalogueGrows, PlansGrow, ProductsGrow

\* Who runs what.
LEMMA DoesSync ==
  ASSUME CatalogueTyped, NEW t \in Task, TaskFits(t), task[t].does.kind = "sync"
  PROVE  /\ task[t].does \in Syncing
         /\ DOMAIN task[t].does.order = 1..Len(task[t].does.order)
         /\ Len(task[t].does.order) \in Nat /\ task[t].n \in Nat
         /\ \A n \in DOMAIN task[t].does.order : task[t].does.order[n] \in PlanId
         /\ task[t].at \notin {"done", "thrown"} =>
              ThisPlan(t) \in PlanId /\ PlanOf(t) = ThisPlan(t) /\ task[t].n \in 1..Len(task[t].does.order)
<1>1. task[t].does \in Syncing
  BY DEF TaskFits, DeedFits, Ordering, Disabling, Enabling, Toggling, Changing, Resting
<1>2. task[t].does.order \in Seq(PlanId)
  BY <1>1 DEF Syncing
<1>3. task[t].n \in Nat
  BY DEF CatalogueTyped, TaskRows
<1>4. PICK s \in Seq(PlanId) : s = task[t].does.order
  BY <1>2
<1>5. DOMAIN s = 1..Len(s) /\ Len(s) \in Nat /\ \A n \in DOMAIN s : s[n] \in PlanId
  OBVIOUS
<1>6. task[t].at \notin {"done", "thrown"} => task[t].n \in DOMAIN s
  BY <1>4 DEF TaskFits
<1>. QED  BY <1>1, <1>3, <1>4, <1>5, <1>6 DEF ThisPlan, PlanOf

LEMMA DoesOrder ==
  ASSUME CatalogueTyped, NEW t \in Task, TaskFits(t), task[t].does.kind = "order"
  PROVE  /\ task[t].does \in Ordering /\ task[t].does.plan \in PlanId
         /\ PlanOf(t) = task[t].does.plan /\ SpecOf(t) = task[t].spec
         /\ task[t].does.offer \in 0..Len(shelf) /\ task[t].does.tenant \in Seller
<1>1. task[t].does \in Ordering /\ task[t].does.offer \in 0..Len(shelf)
  BY DEF TaskFits, DeedFits, Syncing, Ordering, Disabling, Enabling, Toggling, Changing, Resting
<1>. QED  BY <1>1 DEF Ordering, PlanOf, SpecOf

LEMMA OtherCallsFit ==
  ASSUME CatalogueInv, CatalogueTyped', CatalogueGrows, NEW u \in Task, task'[u] = task[u]
  PROVE  TaskFits(u)' /\ FoundFits(u)'
<1>. USE DEF CatalogueInv
<1>1. TaskFits(u)'
  <2>1. DeedFits(task[u].does, shelf')
    <3>1. /\ DOMAIN shelf = 1..Len(shelf) /\ Len(shelf) \in Nat
          /\ DOMAIN shelf' = 1..Len(shelf') /\ Len(shelf') \in Nat
      BY CatalogueRows DEF CatalogueTyped
    <3>2. DeedFits(task[u].does, shelf)
      BY DEF TaskFits
    <3>3. PICK s, r : s = shelf /\ r = shelf'
      OBVIOUS
    <3>. QED  BY <3>1, <3>2, <3>3, ShelfFits DEF CatalogueGrows, ShelfGrows
  <2>. QED  BY <2>1 DEF TaskFits
<1>. DEFINE i == task[u].product
<1>3. \A kind, stop : Tasked(u, kind, stop)' <=> Tasked(u, kind, stop)
  BY DEF Tasked
<1>4. ThisPlan(u)' = ThisPlan(u)
  BY DEF ThisPlan
<1>5. ASSUME \/ Tasked(u, "sync", "claim") \/ Tasked(u, "sync", "rename")
             \/ Tasked(u, "sync", "offer") \/ Tasked(u, "sync", "supply")
      PROVE  IsOf(i, ThisPlan(u))'
  <2>1. ThisPlan(u) \in PlanId /\ IsOf(i, ThisPlan(u))
    BY <1>5, DoesSync DEF Tasked, FoundFits
  <2>2. PICK p, k : p \in PlanId /\ p = ThisPlan(u) /\ k = i
    BY <2>1
  <2>3. IsOf(k, p)'
    BY <2>1, <2>2, StaysOf
  <2>. QED  BY <1>4, <2>2, <2>3
<1>6. ASSUME task[u].does.kind \in {"sync", "order"},
             task[u].at \in {"product", "claim", "rename", "create"}
      PROVE  (SpecOf(u) \in plans[PlanOf(u)].had)'
  <2>1. PICK p : p = PlanOf(u) /\ p \in PlanId /\ SpecOf(u) \in plans[p].had
    BY <1>6, DoesSync, DoesOrder DEF FoundFits
  <2>2. SpecOf(u)' = SpecOf(u) /\ PlanOf(u)' = p
    BY <2>1 DEF SpecOf, PlanOf, Seen, ThisPlan
  <2>. QED  BY <2>1, <2>2 DEF CatalogueGrows, PlansGrow
<1>7. ASSUME Tasked(u, "order", "shelf") \/ Tasked(u, "order", "stock") \/ Tasked(u, "order", "place")
      PROVE  IsOf(i, task[u].does.plan)'
  <2>1. task[u].does.plan \in PlanId /\ IsOf(i, task[u].does.plan)
    BY <1>7, DoesOrder DEF Tasked, FoundFits
  <2>2. PICK p, k : p \in PlanId /\ p = task[u].does.plan /\ k = i
    BY <2>1
  <2>3. IsOf(k, p)'
    BY <2>1, <2>2, StaysOf
  <2>. QED  BY <2>2, <2>3
<1>8. \A k, n : k \in SuppliesOf(n) => k \in SuppliesOf(n)'
  BY DEF SuppliesOf, CatalogueGrows, OffersGrow
<1>9. \A k, n, tenant : k \in Shelved(n, tenant) => k \in Shelved(n, tenant)'
  BY DEF Shelved, CatalogueGrows, ShelfGrows
<1>10. offered \subseteq offered'
  BY DEF CatalogueGrows
<1>11. IdFits(task[u])' = IdFits(task[u])
  BY DEF IdFits
<1>. QED  BY <1>1, <1>3, <1>4, <1>5, <1>6, <1>7, <1>8, <1>9, <1>10, <1>11 DEF FoundFits

\* What has been copied stays, unless it is written over.
LEMMA StaysCopied ==
  ASSUME NEW t \in Task, NEW p \in PlanId, Copied(t, p), task'[t].saw = task[t].saw,
         Terms(p)' = Terms(p), offers' = offers, products' = products
  PROVE  Copied(t, p)'
  BY DEF Copied, Supplied, GivenAway, OfIdentity, SuppliesOf

LEMMA OtherSyncFits ==
  ASSUME CatalogueInv, NEW u \in Task, task'[u] = task[u],
         \A v \in Task : task'[v].does = task[v].does,
         Alone(u) => /\ products' = products /\ offers' = offers
                     /\ \A p \in PlanId : Terms(p)' = Terms(p)
  PROVE  SyncFits(u)'
<1>. SUFFICES ASSUME task[u].does.kind = "sync", Alone(u) PROVE SyncFits(u)'
  BY DEF SyncFits, Alone
<1>1. SyncFits(u) /\ TaskFits(u) /\ CatalogueTyped
  BY DEF CatalogueInv
<1>2. \A p \in PlanId : Copied(u, p) => Copied(u, p)'
  <2>1. TAKE p \in PlanId
  <2>2. HAVE Copied(u, p)
  <2>. QED  BY <2>2, StaysCopied DEF OfIdentity
<1>3. \A k \in 1..(task[u].n - 1) : task[u].does.order[k] \in PlanId
  BY <1>1, DoesSync DEF TaskFits
<1>4. \A k \in 1..(task[u].n - 1) : Copied(u, task[u].does.order[k])'
  <2>1. TAKE k \in 1..(task[u].n - 1)
  <2>2. PICK p : p \in PlanId /\ p = task[u].does.order[k] /\ Copied(u, p)
    BY <1>1, <1>3 DEF SyncFits
  <2>3. Copied(u, p)'
    BY <1>2, <2>2
  <2>. QED  BY <2>2, <2>3
<1>5. /\ ThisPlan(u)' = ThisPlan(u) /\ Seen(u)' = Seen(u)
      /\ task[u].at \notin {"done", "thrown"} => ThisPlan(u) \in PlanId
  BY <1>1, DoesSync DEF ThisPlan, Seen
<1>6. task[u].at \in Stored => (Terms(ThisPlan(u)) = <<Seen(u).wholesale, Identity(Seen(u))>>)'
  <2>1. HAVE task[u].at \in Stored
  <2>2. PICK p \in PlanId : p = ThisPlan(u) /\ Terms(p)' = Terms(p)
    BY <1>5, <2>1 DEF Stored
  <2>. QED  BY <1>1, <1>5, <2>1, <2>2 DEF SyncFits
<1>7. Placed(u)'
  BY <1>1, <1>5 DEF SyncFits, Placed
<1>. QED  BY <1>4, <1>5, <1>6, <1>7 DEF SyncFits

LEMMA OrdersStay ==
  ASSUME CatalogueInv, CatalogueGrows, NEW o \in orders
  PROVE  /\ <<o.offer, o.amount>> \in offered' /\ o.offer \in Shelved(o.product, o.tenant)'
         /\ IsOf(o.product, o.plan)'
<1>1. o \in OrderRows /\ <<o.offer, o.amount>> \in offered /\ IsOf(o.product, o.plan)
      /\ o.offer \in Shelved(o.product, o.tenant)
  BY DEF CatalogueInv, CatalogueTyped, OrdersHold
<1>2. PICK i, p : i = o.product /\ p = o.plan /\ p \in PlanId
  BY <1>1 DEF OrderRows
<1>3. IsOf(i, p)'
  BY <1>1, <1>2, StaysOf
<1>4. <<o.offer, o.amount>> \in offered'
  BY <1>1 DEF CatalogueGrows
<1>5. o.offer \in Shelved(o.product, o.tenant)'
  BY <1>1 DEF CatalogueGrows, ShelfGrows, Shelved
<1>. QED  BY <1>2, <1>3, <1>4, <1>5

\* A step is one call's: what the others know holds after it.
LEMMA StepFits ==
  ASSUME CatalogueInv, NEW t \in Task, NEW row, Replaces(t, row), CatalogueGrows,
         CatalogueTyped', SourcesFit', ActiveOffered', OrdersHold',
         TaskFits(t)', FoundFits(t)', SyncFits(t)',
         task[t].does.kind \notin {"sync", "order"} =>
           /\ products' = products /\ offers' = offers
           /\ \A p \in PlanId : Terms(p)' = Terms(p)
  PROVE  CatalogueInv'
BY ReplacedTask, OtherSyncFits, OtherCallsFit DEF CatalogueInv, Alone

LEMMA NothingGrows ==
  ASSUME UNCHANGED <<feed, catalogRows, offered>>, CatalogueTyped
  PROVE  CatalogueGrows
  BY CatalogueRows DEF CatalogueGrows, PlansGrow, ProductsGrow, OffersGrow, ShelfGrows, catalogRows

\* Only the call's own row changes.
LEMMA ReadFits ==
  ASSUME CatalogueInv, NEW t \in Task, NEW row, Replaces(t, row),
         UNCHANGED <<feed, catalogRows, orders, offered>>,
         TaskFits(t)', FoundFits(t)', SyncFits(t)'
  PROVE  CatalogueInv'
BY NothingGrows, ReplacedTask, OrdersStay, StepFits DEF CatalogueInv, CatalogueTyped, catalogRows,
   SourcesFit, ActiveOffered, OrdersHold, Terms

\* A call at a plan it is at already.
LEMMA TaskStays ==
  ASSUME CatalogueInv, NEW t \in Task, NEW row, Replaces(t, row), CatalogueGrows,
         CatalogueTyped',
         task[t].does.kind = "sync" =>
           /\ row.n = task[t].n /\ row.at \notin {"begin", "done"}
           /\ task[t].at \notin {"done", "thrown"}
  PROVE  TaskFits(t)'
<1>1. CatalogueTyped /\ TaskFits(t)
  BY DEF CatalogueInv
<1>2. task'[t] = row /\ row.does = task[t].does
  BY <1>1, ReplacedTask DEF Replaces
<1>3. DeedFits(row.does, shelf')
  <2>1. /\ DOMAIN shelf = 1..Len(shelf) /\ Len(shelf) \in Nat
        /\ DOMAIN shelf' = 1..Len(shelf') /\ Len(shelf') \in Nat
    BY <1>1, CatalogueRows DEF CatalogueTyped
  <2>2. DeedFits(row.does, shelf)
    BY <1>1, <1>2 DEF TaskFits
  <2>3. PICK s, r : s = shelf /\ r = shelf'
    OBVIOUS
  <2>. QED  BY <2>1, <2>2, <2>3, ShelfFits DEF CatalogueGrows, ShelfGrows
<1>. QED  BY <1>1, <1>2, <1>3 DEF TaskFits

\* A sync writes the price of its plan over that of another offer only if the offer is of a
\* product of its plan's identity, and it claims or renames a product only for its plan.
Rewritten(t, k) ==
  \/ offers'[k] = offers[k]
  \/ /\ offers'[k].product = offers[k].product /\ offers'[k].wholesale = Seen(t).wholesale
     /\ ThisPlan(t) \in PlanId /\ products[offers[k].product].identity = Identity(Seen(t))
Renamed(t, i) ==
  \/ products'[i].identity = products[i].identity /\ products'[i].source = products[i].source
  \/ /\ products'[i].identity = Identity(Seen(t)) /\ products'[i].source = ThisPlan(t)
     /\ ThisPlan(t) \in PlanId
     /\ products[i].identity = Identity(Seen(t)) \/ products[i].source = ThisPlan(t)

\* What a sync may change: to what it has read.
Reprices(t) ==
  /\ \A p \in PlanId :
       Terms(p)' \in {Terms(p), <<task[t].saw[p].wholesale, Identity(task[t].saw[p])>>}
  /\ \A k \in DOMAIN offers : Rewritten(t, k)
  /\ \A i \in DOMAIN products : Renamed(t, i)

LEMMA StaysGivenAway ==
  ASSUME NEW t \in Task, ProductsGrow, NEW identity, Reprices(t), task'[t].saw = task[t].saw,
         GivenAway(task[t].saw, identity)
  PROVE  GivenAway(task[t].saw, identity)'
<1>1. PICK i \in DOMAIN products :
        /\ identity \in products[i].been /\ products[i].source \in PlanId
        /\ products[i].identity = Identity(task[t].saw[products[i].source])
        /\ products[i].identity # identity
  BY DEF GivenAway
<1>2. i \in DOMAIN products' /\ identity \in products'[i].been /\ Renamed(t, i)
  BY <1>1 DEF ProductsGrow, Reprices
<1>. QED  BY <1>1, <1>2 DEF Renamed, Seen, GivenAway

LEMMA CopiesStay ==
  ASSUME CatalogueInv, NEW t \in Task, CatalogueGrows, task'[t].saw = task[t].saw,
         NEW p \in PlanId, Copied(t, p), Reprices(t)
  PROVE  Copied(t, p)'
<1>. DEFINE saw == task[t].saw
            identity == Identity(saw[p])
<1>1. ASSUME Supplied(saw, identity)
      PROVE  Supplied(saw, identity)' \/ GivenAway(saw, identity)'
  <2>1. PICK i \in OfIdentity(identity) : \E k \in SuppliesOf(i), q \in PlanId :
          Identity(saw[q]) = identity /\ offers[k].wholesale = saw[q].wholesale
    BY <1>1 DEF Supplied
  <2>2. PICK k \in SuppliesOf(i), q \in PlanId :
          Identity(saw[q]) = identity /\ offers[k].wholesale = saw[q].wholesale
    BY <2>1
  <2>3. /\ i \in DOMAIN products /\ products[i].identity = identity
        /\ k \in DOMAIN offers /\ offers[k].product = i
    BY DEF OfIdentity, SuppliesOf
  <2>4. /\ Renamed(t, i) /\ Rewritten(t, k) /\ i \in DOMAIN products'
        /\ identity \in products'[i].been
    BY <2>3 DEF Reprices, CatalogueGrows, ProductsGrow, CatalogueInv, SourcesFit, SourceFits
  <2>5. k \in SuppliesOf(i)'
    BY <2>3 DEF SuppliesOf, CatalogueGrows, OffersGrow
  <2>6. CASE products'[i].identity = identity
    <3>1. i \in OfIdentity(identity)'
      BY <2>4, <2>6 DEF OfIdentity
    <3>2. CASE offers'[k] = offers[k]
      BY <2>2, <2>5, <3>1, <3>2 DEF Supplied
    <3>3. CASE offers'[k] # offers[k]
      <4>1. PICK r \in PlanId : r = ThisPlan(t) /\ offers'[k].wholesale = saw[r].wholesale
                                /\ Identity(saw[r]) = identity
        BY <2>3, <2>4, <3>3 DEF Rewritten, Seen
      <4>. QED  BY <2>5, <3>1, <4>1 DEF Supplied
    <3>. QED  BY <3>2, <3>3
  <2>7. CASE products'[i].identity # identity
    BY <2>3, <2>4, <2>7 DEF Renamed, Seen, GivenAway
  <2>. QED  BY <2>6, <2>7
<1>2. ASSUME GivenAway(saw, identity) PROVE GivenAway(saw, identity)'
  BY <1>2, StaysGivenAway DEF CatalogueGrows
<1>3. Valid(saw[p]) => Terms(p)' = <<saw[p].wholesale, identity>>
  BY DEF Copied, Reprices
<1>. QED  BY <1>1, <1>2, <1>3 DEF Copied

LEMMA PassedStay ==
  ASSUME CatalogueInv, NEW t \in Task, CatalogueGrows, task'[t].saw = task[t].saw,
         task'[t].does = task[t].does, Reprices(t), task[t].does.kind = "sync", Alone(t)
  PROVE  \A k \in 1..(task[t].n - 1) : Copied(t, task[t].does.order[k])'
<1>1. SyncFits(t) /\ TaskFits(t) /\ CatalogueTyped
  BY DEF CatalogueInv
<1>2. TAKE k \in 1..(task[t].n - 1)
<1>3. task[t].does.order[k] \in PlanId /\ Copied(t, task[t].does.order[k])
  BY <1>1, DoesSync DEF TaskFits, SyncFits
<1>4. PICK p : p \in PlanId /\ p = task[t].does.order[k] /\ Copied(t, p)
  BY <1>3
<1>5. Copied(t, p)'
  BY <1>4, CopiesStay DEF Reprices
<1>. QED  BY <1>4, <1>5

LEMMA AloneStays ==
  ASSUME \A u \in Task : task'[u].does = task[u].does, NEW t
  PROVE  Alone(t)' = Alone(t)
  BY DEF Alone

\* A sync that stays at its plan.
LEMMA SyncStays ==
  ASSUME CatalogueInv, NEW t \in Task, NEW row, Replaces(t, row), CatalogueGrows,
         task[t].does.kind = "sync" =>
           /\ row.saw = task[t].saw /\ row.n = task[t].n
           /\ Alone(t) =>
                /\ Reprices(t)
                /\ row.at \in Stored =>
                     Terms(ThisPlan(t))' = <<Seen(t).wholesale, Identity(Seen(t))>>
                /\ Placed(t)'
  PROVE  SyncFits(t)'
<1>1. CatalogueTyped
  BY DEF CatalogueInv
<1>2. task'[t] = row /\ row.does = task[t].does /\ Alone(t)' = Alone(t)
  BY <1>1, ReplacedTask, AloneStays DEF Replaces
<1>3. SUFFICES ASSUME task[t].does.kind = "sync", Alone(t) PROVE SyncFits(t)'
  BY <1>2 DEF SyncFits
<1>4. \A k \in 1..(task[t].n - 1) : Copied(t, task[t].does.order[k])'
  BY <1>2, <1>3, PassedStay
<1>5. ThisPlan(t)' = ThisPlan(t) /\ Seen(t)' = Seen(t)
  BY <1>2, <1>3 DEF ThisPlan, Seen
<1>. QED  BY <1>2, <1>3, <1>4, <1>5 DEF SyncFits

\* A sync that goes on to its next plan.
NextRow(t) ==
  [task[t] EXCEPT !.n = task[t].n + 1, !.product = 0, !.id = 0,
                  !.at = IF task[t].n = Len(task[t].does.order) THEN "done" ELSE "plan"]

LEMMA NextPlanRow ==
  ASSUME CatalogueTyped, NEW t \in Task, NextPlan(t)
  PROVE  Replaces(t, NextRow(t)) /\ NextRow(t).saw = task[t].saw /\ NextRow(t).n = task[t].n + 1
         /\ NextRow(t).at = (IF task[t].n = Len(task[t].does.order) THEN "done" ELSE "plan")
         /\ NextRow(t).id = 0
<1>1. task[t] \in TaskRows
  BY DEF CatalogueTyped
<1>2. NextRow(t) \in TaskRows
  <2>1. task[t].n + 1 \in Nat
    BY <1>1 DEF TaskRows
  <2>2. (IF task[t].n = Len(task[t].does.order) THEN "done" ELSE "plan") \in TaskPlaces
    BY DEF TaskPlaces
  <2>3. PICK m \in Nat, place \in TaskPlaces :
          /\ m = task[t].n + 1
          /\ place = IF task[t].n = Len(task[t].does.order) THEN "done" ELSE "plan"
    BY <2>1, <2>2
  <2>4. NextRow(t) = [task[t] EXCEPT !.n = m, !.product = 0, !.id = 0, !.at = place]
    BY <2>3 DEF NextRow
  <2>5. PICK r \in TaskRows : r = task[t]
    BY <1>1
  <2>6. [r EXCEPT !.n = m] \in TaskRows
    BY DEF TaskRows
  <2>7. PICK s \in TaskRows : s = [r EXCEPT !.n = m]
    BY <2>6
  <2>8. [s EXCEPT !.product = 0, !.id = 0, !.at = place] \in TaskRows
    BY DEF TaskRows
  <2>9. NextRow(t) = [s EXCEPT !.product = 0, !.id = 0, !.at = place]
    BY <2>4, <2>5, <2>7 DEF TaskRows
  <2>. QED  BY <2>8, <2>9
<1>3. task' = [task EXCEPT ![t] = NextRow(t)]
  <2>1. PICK m, place : /\ m = task[t].n + 1
                        /\ place = IF task[t].n = Len(task[t].does.order) THEN "done" ELSE "plan"
    OBVIOUS
  <2>2. task' = [task EXCEPT ![t].n = m, ![t].product = 0, ![t].id = 0, ![t].at = place]
    BY <2>1 DEF NextPlan
  <2>3. NextRow(t) = [task[t] EXCEPT !.n = m, !.product = 0, !.id = 0, !.at = place]
    BY <2>1 DEF NextRow
  <2>. QED  BY <1>1, <2>2, <2>3 DEF CatalogueTyped, TaskRows
<1>4. NextRow(t).does = task[t].does /\ NextRow(t).saw = task[t].saw
      /\ NextRow(t).n = task[t].n + 1
      /\ NextRow(t).at = (IF task[t].n = Len(task[t].does.order) THEN "done" ELSE "plan")
      /\ NextRow(t).id = 0
  BY <1>1 DEF NextRow, TaskRows
<1>. QED  BY <1>2, <1>3, <1>4 DEF Replaces

LEMMA SyncPasses ==
  ASSUME CatalogueInv, NEW t \in Task, NextPlan(t), CatalogueGrows, CatalogueTyped',
         task[t].does.kind = "sync", task[t].at \notin {"done", "thrown"},
         Alone(t) => Reprices(t) /\ \A p \in PlanId : p = ThisPlan(t) => Copied(t, p)'
  PROVE  TaskFits(t)' /\ FoundFits(t)' /\ SyncFits(t)'
<1>1. CatalogueTyped /\ TaskFits(t)
  BY DEF CatalogueInv
<1>. DEFINE row == NextRow(t)
<1>2. /\ Replaces(t, row) /\ row.saw = task[t].saw /\ row.n = task[t].n + 1
      /\ row.at = (IF task[t].n = Len(task[t].does.order) THEN "done" ELSE "plan")
      /\ row.id = 0
  BY <1>1, NextPlanRow
<1>. HIDE DEF row
<1>3. task'[t] = row /\ row.does = task[t].does /\ Alone(t)' = Alone(t)
  BY <1>1, <1>2, ReplacedTask, AloneStays DEF Replaces
<1>4. task[t].n \in 1..Len(task[t].does.order) /\ Len(task[t].does.order) \in Nat
      /\ DOMAIN task[t].does.order = 1..Len(task[t].does.order)
  BY <1>1, DoesSync
<1>5. TaskFits(t)'
  <2>1. DeedFits(row.does, shelf')
    <3>1. /\ DOMAIN shelf = 1..Len(shelf) /\ Len(shelf) \in Nat
          /\ DOMAIN shelf' = 1..Len(shelf') /\ Len(shelf') \in Nat
      BY <1>1, CatalogueRows DEF CatalogueTyped
    <3>2. DeedFits(row.does, shelf)
      BY <1>1, <1>3 DEF TaskFits
    <3>3. PICK s, r : s = shelf /\ r = shelf'
      OBVIOUS
    <3>. QED  BY <3>1, <3>2, <3>3, ShelfFits DEF CatalogueGrows, ShelfGrows
  <2>3. /\ row.n \in 1..(Len(row.does.order) + 1)
        /\ row.at \notin {"done", "thrown"} => row.n \in DOMAIN row.does.order
        /\ row.at # "begin"
        /\ row.at = "done" => row.n = Len(row.does.order) + 1
    BY <1>2, <1>3, <1>4
  <2>. QED  BY <1>3, <2>1, <2>3 DEF TaskFits
<1>6. row.at \in {"plan", "done"}
  BY <1>2
<1>7. FoundFits(t)'
  BY <1>2, <1>3, <1>6 DEF FoundFits, IdFits, Tasked
<1>8. SyncFits(t)'
  <2>. SUFFICES ASSUME Alone(t) PROVE SyncFits(t)'
    BY <1>3 DEF SyncFits
  <2>1. \A k \in 1..(task[t].n - 1) : Copied(t, task[t].does.order[k])'
    BY <1>2, <1>3, PassedStay
  <2>2. \A k \in 1..(row.n - 1) : k = task[t].n => Copied(t, task[t].does.order[k])'
    <3>1. TAKE k \in 1..(row.n - 1)
    <3>2. HAVE k = task[t].n
    <3>3. PICK p : p \in PlanId /\ p = task[t].does.order[k] /\ p = ThisPlan(t)
      BY <1>1, <3>2, DoesSync DEF ThisPlan
    <3>4. Copied(t, p)'
      BY <3>3
    <3>. QED  BY <1>3, <3>3, <3>4
  <2>3. \A k \in 1..(row.n - 1) : k \in 1..(task[t].n - 1) \/ k = task[t].n
    BY <1>2, <1>4
  <2>4. \A k \in 1..(row.n - 1) : Copied(t, task[t].does.order[k])'
    BY <2>1, <2>2, <2>3
  <2>. QED  BY <1>3, <1>6, <2>4 DEF SyncFits, Stored, Placed
<1>. QED  BY <1>5, <1>7, <1>8

-----------------------------------------------------------------------------
(* Calls that only read.                                                   *)

LEMMA RetailIsNumber ==
  ASSUME NEW rules \in SUBSET RuleRows, NEW pp, pp.wholesale \in Int
  PROVE  RetailPrices(rules, pp) \subseteq Int
<1>1. \A amount, value \in Int : Percent(amount, value) \in Int BY DEF Percent
<1>2. \A r \in Applying(rules, pp) : r.value \in Int
  BY DEF Applying, RuleRows
<1>3. \A value \in Int : Percent(pp.wholesale, value) \in Int
  BY <1>1
<1>4. \A r \in Applying(rules, pp) :
        (IF r.type = "fixed" THEN r.value ELSE Percent(pp.wholesale, r.value)) \in Int
  <2>1. TAKE r \in Applying(rules, pp)
  <2>2. r.value \in Int /\ Percent(pp.wholesale, r.value) \in Int
    BY <1>2, <1>3
  <2>. QED  BY <2>2
<1>5. \A x \in Int : pp.wholesale + x \in Int
  OBVIOUS
<1>6. SUFFICES ASSUME NEW price \in RetailPrices(rules, pp) PROVE price \in Int
  OBVIOUS
<1>7. CASE Applying(rules, pp) = {} BY <1>3, <1>5, <1>6, <1>7 DEF RetailPrices
<1>8. CASE Applying(rules, pp) # {}
  <2>1. PICK r \in Applying(rules, pp) : price =
          pp.wholesale + IF r.type = "fixed" THEN r.value ELSE Percent(pp.wholesale, r.value)
    BY <1>6, <1>8 DEF RetailPrices
  <2>. QED  BY <1>4, <1>5, <2>1
<1>. QED  BY <1>7, <1>8

LEMMA Reads ==
  ASSUME CatalogueInv, NEW t \in Task, NEW row, Replaces(t, row),
         UNCHANGED <<feed, catalogRows, orders, offered>>,
         task[t].does.kind = "sync" =>
           /\ row.saw = task[t].saw
           /\ row.n = task[t].n /\ row.at \notin {"begin", "done"}
           /\ task[t].at \notin {"done", "thrown"}
           /\ row.at \in Stored => task[t].at \in Stored
           /\ Alone(t) => Placed(t)',
         FoundFits(t)'
  PROVE  CatalogueInv'
<1>1. CatalogueGrows /\ CatalogueTyped' /\ Reprices(t)
  BY ReplacedTask, NothingGrows DEF CatalogueInv, CatalogueTyped, catalogRows, Reprices,
     Rewritten, Renamed, Terms
<1>2. TaskFits(t)'
  BY <1>1, TaskStays
<1>3. task[t].does.kind = "sync" /\ Alone(t) /\ row.at \in Stored =>
        Terms(ThisPlan(t))' = <<Seen(t).wholesale, Identity(Seen(t))>>
  <2>. SUFFICES ASSUME task[t].does.kind = "sync", Alone(t), row.at \in Stored
                PROVE  Terms(ThisPlan(t))' = <<Seen(t).wholesale, Identity(Seen(t))>>
    OBVIOUS
  <2>1. task'[t] = row /\ row.does = task[t].does
    BY ReplacedTask DEF CatalogueInv, Replaces
  <2>2. PICK p : p = ThisPlan(t) /\ ThisPlan(t)' = p
    BY <2>1 DEF ThisPlan
  <2>3. Terms(p) = <<Seen(t).wholesale, Identity(Seen(t))>>
    BY <2>2 DEF CatalogueInv, SyncFits
  <2>. QED  BY <2>2, <2>3 DEF Terms, catalogRows
<1>4. SyncFits(t)'
  BY <1>1, <1>3, SyncStays
<1>. QED  BY <1>2, <1>4, ReadFits

\* A call at such a place has found nothing yet that must be of its plan.
LEMMA NothingFound ==
  ASSUME CatalogueTyped, NEW t \in Task, NEW row, Replaces(t, row),
         row.at \notin {"product", "claim", "rename", "create", "offer", "supply", "put", "shelf",
                        "stock", "place"},
         IdFits(row)
  PROVE  FoundFits(t)'
BY ReplacedTask DEF FoundFits, IdFits, Tasked

LEMMA FetchFeedFits ==
  ASSUME CatalogueInv, NEW t \in Task, FetchFeed(t)
  PROVE  CatalogueInv'
<1>1. CatalogueTyped /\ TaskFits(t) /\ task[t] \in TaskRows /\ feed \in FeedRows
  BY DEF CatalogueInv, CatalogueTyped
<1>. DEFINE row == [task[t] EXCEPT !.saw = feed, !.at = "plan"]
<1>2. row \in TaskRows
  BY <1>1 DEF TaskRows, TaskPlaces
<1>3. /\ row.does = task[t].does /\ row.saw = feed /\ row.at = "plan" /\ row.n = task[t].n
      /\ row.id = task[t].id
      /\ task' = [task EXCEPT ![t] = row]
  BY <1>1 DEF FetchFeed, CatalogueTyped, TaskRows
<1>. HIDE DEF row
<1>4. Replaces(t, row) /\ UNCHANGED <<feed, catalogRows, orders, offered>>
      /\ task[t].does.kind = "sync" /\ task[t].at = "begin"
  BY <1>2, <1>3 DEF Replaces, FetchFeed, Tasked
<1>5. CatalogueGrows /\ CatalogueTyped' /\ task'[t] = row
  BY <1>1, <1>4, ReplacedTask, NothingGrows DEF CatalogueTyped, catalogRows
<1>6. TaskFits(t)'
  BY <1>3, <1>4, <1>5, TaskStays
<1>7. FoundFits(t)' BY <1>3, <1>4, <1>1, NothingFound DEF CatalogueInv, FoundFits, IdFits
<1>8. SyncFits(t)' BY <1>1, <1>4, <1>3, <1>5 DEF TaskFits, SyncFits, Stored, Placed
<1>. QED  BY <1>4, <1>6, <1>7, <1>8, ReadFits

LEMMA ReadPlanFits ==
  ASSUME CatalogueInv, NEW t \in Task, ReadPlan(t)
  PROVE  CatalogueInv'
<1>1. CatalogueTyped /\ TaskFits(t) /\ task[t] \in TaskRows
  BY DEF CatalogueInv, CatalogueTyped
<1>2. /\ task[t].does.kind = "sync" /\ task[t].at = "plan"
      /\ UNCHANGED <<feed, catalogRows, orders, offered>>
  BY DEF ReadPlan, Tasked
<1>3. PICK p : p \in PlanId /\ p = ThisPlan(t) /\ Seen(t) = task[t].saw[p]
  BY <1>1, <1>2, DoesSync DEF Seen
<1>4. CASE Valid(Seen(t))
  <2>1. PICK price \in RetailPrices(task[t].rules, Seen(t)) :
          task' = [task EXCEPT ![t].status = plans[ThisPlan(t)].status,
                               ![t].price = price, ![t].at = "store"]
    BY <1>4 DEF ReadPlan
  <2>2. Seen(t).wholesale \in Int /\ task[t].rules \in SUBSET RuleRows
    BY <1>1, <1>3 DEF TaskRows, FeedRows, FeedRow
  <2>3. price \in Int
    BY <2>1, <2>2, RetailIsNumber
  <2>4. PICK status \in {"absent", "active", "inactive"} : status = plans[ThisPlan(t)].status
    BY <1>1, <1>3 DEF CatalogueTyped, PlanRows
  <2>. DEFINE row == [task[t] EXCEPT !.status = status, !.price = price, !.at = "store"]
  <2>5. row \in TaskRows
    BY <1>1, <2>3 DEF TaskRows, TaskPlaces
  <2>6. /\ row.does = task[t].does /\ row.saw = task[t].saw /\ row.at = "store"
        /\ row.n = task[t].n /\ row.id = task[t].id /\ task' = [task EXCEPT ![t] = row]
    BY <1>1, <2>1, <2>4 DEF CatalogueTyped, TaskRows
  <2>. HIDE DEF row
  <2>7. Replaces(t, row)
    BY <2>5, <2>6 DEF Replaces
  <2>8. FoundFits(t)'
    BY <1>2, <2>6, <1>1, <2>7, NothingFound DEF CatalogueInv, FoundFits, IdFits
  <2>9. Placed(t)' /\ row.at \notin Stored
    BY <1>1, <2>6, <2>7, ReplacedTask DEF Placed, Stored
  <2>. QED  BY <1>2, <2>6, <2>7, <2>8, <2>9, Reads
<1>5. CASE ~Valid(Seen(t))
  <2>1. NextPlan(t)
    BY <1>5 DEF ReadPlan
  <2>2. Replaces(t, NextRow(t))
    BY <1>1, <2>1, NextPlanRow
  <2>3. CatalogueGrows /\ CatalogueTyped' /\ task'[t].saw = task[t].saw
    <3>1. task' \in [Task -> TaskRows] /\ task'[t].saw = task[t].saw
      BY <1>1, <2>1, <2>2, NextPlanRow, ReplacedTask
    <3>. QED  BY <1>1, <1>2, <3>1, NothingGrows DEF CatalogueTyped, catalogRows
  <2>4. Reprices(t)
    BY <1>2 DEF Reprices, Rewritten, Renamed, Terms, catalogRows
  <2>5. \A q \in PlanId : q = ThisPlan(t) => Copied(t, q)'
    BY <1>3, <1>5, <2>3 DEF Copied
  <2>6. TaskFits(t)' /\ FoundFits(t)' /\ SyncFits(t)'
    BY <1>2, <2>1, <2>3, <2>4, <2>5, SyncPasses
  <2>. QED  BY <1>2, <2>2, <2>6, ReadFits
<1>. QED  BY <1>4, <1>5

\* A call's row with what the reads of a call may change of it.
Becomes(t, product, id, price, stop) ==
  task' = [task EXCEPT ![t] = [task[t] EXCEPT !.product = product, !.id = id, !.price = price,
                                              !.at = stop]]
FindsProduct(t, i, stop) == task' = [task EXCEPT ![t].product = i, ![t].at = stop]
FindsOffer(t, i, stop) == task' = [task EXCEPT ![t].id = i, ![t].at = stop]

\* What it is then.
Became(t, row, product, id, price, stop) ==
  /\ Replaces(t, row) /\ row.does = task[t].does /\ row.saw = task[t].saw
  /\ row.n = task[t].n /\ row.spec = task[t].spec
  /\ row.product = product /\ row.id = id /\ row.price = price
  /\ row.at = stop

LEMMA RowOfCall ==
  ASSUME CatalogueTyped, NEW t \in Task, NEW product \in Nat, NEW id \in Nat, NEW price \in Int,
         NEW stop \in TaskPlaces, Becomes(t, product, id, price, stop), NEW row, row = task'[t]
  PROVE  Became(t, row, product, id, price, stop)
<1>1. PICK r \in TaskRows : r = task[t]
  BY DEF CatalogueTyped
<1>2. row = [r EXCEPT !.product = product, !.id = id, !.price = price, !.at = stop]
  BY <1>1 DEF Becomes, CatalogueTyped
<1>3. row \in TaskRows
  BY <1>2 DEF TaskRows
<1>4. /\ row.does = r.does /\ row.saw = r.saw /\ row.n = r.n /\ row.spec = r.spec
      /\ row.product = product
      /\ row.id = id /\ row.price = price /\ row.at = stop
  BY <1>2 DEF TaskRows
<1>5. task' = [task EXCEPT ![t] = row]
  BY <1>1, <1>2 DEF Becomes
<1>. QED  BY <1>1, <1>3, <1>4, <1>5 DEF Replaces, Became

LEMMA OwnRow ==
  ASSUME CatalogueTyped, NEW t \in Task
  PROVE  /\ task[t].product \in Nat /\ task[t].id \in Nat /\ task[t].price \in Int
         /\ task[t] \in TaskRows
  BY DEF CatalogueTyped, TaskRows

\* A call that moves on, with nothing more, with a product, with an offer.
LEMMA MovedOn ==
  ASSUME CatalogueTyped, NEW t \in Task, NEW stop \in TaskPlaces, NEW row, row = task'[t]
  PROVE  /\ At(t, stop) => Became(t, row, task[t].product, task[t].id, task[t].price, stop)
         /\ \A i \in Nat :
              /\ FindsProduct(t, i, stop) => Became(t, row, i, task[t].id, task[t].price, stop)
              /\ FindsOffer(t, i, stop) => Became(t, row, task[t].product, i, task[t].price, stop)
<1>1. PICK product \in Nat, id \in Nat, price \in Int :
        product = task[t].product /\ id = task[t].id /\ price = task[t].price
  BY OwnRow
<1>2. ASSUME At(t, stop) PROVE Became(t, row, product, id, price, stop)
  BY <1>1, <1>2, OwnRow, RowOfCall DEF At, Becomes, CatalogueTyped, TaskRows
<1>3. ASSUME NEW i \in Nat, FindsProduct(t, i, stop) PROVE Became(t, row, i, id, price, stop)
  <2>1. Becomes(t, i, id, price, stop)
    BY <1>1, <1>3, OwnRow DEF FindsProduct, Becomes, CatalogueTyped, TaskRows
  <2>. QED  BY <2>1, RowOfCall
<1>4. ASSUME NEW i \in Nat, FindsOffer(t, i, stop) PROVE Became(t, row, product, i, price, stop)
  <2>1. Becomes(t, product, i, price, stop)
    BY <1>1, <1>4, OwnRow DEF FindsOffer, Becomes, CatalogueTyped, TaskRows
  <2>. QED  BY <2>1, RowOfCall
<1>. QED  BY <1>1, <1>2, <1>3, <1>4

\* A refusal is fit anywhere.
LEMMA ThrowFits ==
  ASSUME CatalogueInv, NEW t \in Task, Throws(t),
         UNCHANGED <<feed, catalogRows, orders, offered>>,
         task[t].at \notin {"done", "thrown"}
  PROVE  CatalogueInv'
<1>1. CatalogueTyped
  BY DEF CatalogueInv
<1>2. PICK row : row = task'[t]
  OBVIOUS
<1>3. Became(t, row, task[t].product, task[t].id, task[t].price, "thrown")
  BY <1>1, <1>2, MovedOn DEF Throws, TaskPlaces
<1>4. FoundFits(t)'
  BY <1>1, <1>3, NothingFound DEF IdFits, Became
<1>5. Placed(t)' /\ row.at \notin Stored
  BY <1>2, <1>3 DEF Placed, Stored, Became
<1>. QED  BY <1>3, <1>4, <1>5, Reads DEF Became

LEMMA FindProductFits ==
  ASSUME CatalogueInv, NEW t \in Task, FindProduct(t)
  PROVE  CatalogueInv'
<1>1. CatalogueTyped /\ TaskFits(t) /\ FoundFits(t)
  BY DEF CatalogueInv
<1>2. /\ task[t].does.kind = "sync" /\ task[t].at = "product"
      /\ UNCHANGED <<feed, catalogRows, orders, offered>> /\ task[t].id = 0
  BY <1>1 DEF FindProduct, Tasked, FoundFits, IdFits
<1>3. PICK p : p \in PlanId /\ p = ThisPlan(t) /\ Seen(t) = task[t].saw[p]
  BY <1>1, <1>2, DoesSync DEF Seen
<1>4. Identity(Seen(t)) \in plans[p].had
  BY <1>1, <1>2, <1>3, DoesSync DEF FoundFits, SpecOf
<1>5. \A i \in DOMAIN products :
        i \in Nat /\ products[i].identity \in products[i].been
        /\ (products[i].source = p => IsOf(i, p))
  BY <1>1, <1>3, CatalogueRows, CatalogueAssumption DEF CatalogueInv, SourcesFit, SourceFits, IsOf
<1>6. PICK row : row = task'[t]
  OBVIOUS
<1>7. ASSUME NEW i \in Nat, NEW stop \in {"claim", "rename", "offer"}, IsOf(i, p),
             FindsProduct(t, i, stop),
             stop \in {"claim", "offer"} => products[i].identity = Identity(Seen(t)),
             stop = "rename" => products[i].source = p
      PROVE  CatalogueInv'
  <2>1. Became(t, row, i, task[t].id, task[t].price, stop)
    BY <1>1, <1>6, <1>7, MovedOn DEF TaskPlaces
  <2>2. task'[t] = row /\ ThisPlan(t)' = p /\ Seen(t)' = Seen(t)
    BY <1>3, <1>6, <2>1 DEF ThisPlan, Seen, Became
  <2>3. IsOf(task[t].product, ThisPlan(t))'
    BY <1>2, <1>7, <2>1, <2>2 DEF IsOf, catalogRows, Became
  <2>4. (SpecOf(t) \in plans[PlanOf(t)].had)'
    BY <1>2, <1>4, <2>1, <2>2 DEF SpecOf, PlanOf, catalogRows, Became
  <2>5. FoundFits(t)'
    BY <1>2, <1>7, <2>1, <2>2, <2>3, <2>4 DEF FoundFits, IdFits, Tasked, Became
  <2>6. Placed(t)'
    BY <1>2, <1>7, <2>1, <2>2 DEF Placed, catalogRows, Became
  <2>. QED  BY <1>2, <2>1, <2>5, <2>6, Reads DEF Became, Stored
<1>8. ASSUME NEW i \in OfIdentity(Identity(Seen(t))),
             FindsProduct(t, i, IF products[i].source = "none" THEN "claim" ELSE "offer")
      PROVE  CatalogueInv'
  <2>1. PICK stop \in {"claim", "offer"} : FindsProduct(t, i, stop)
    BY <1>8
  <2>2. i \in DOMAIN products /\ products[i].identity = Identity(Seen(t))
    BY DEF OfIdentity
  <2>3. i \in Nat /\ IsOf(i, p)
    BY <1>4, <1>5, <2>2 DEF IsOf
  <2>. QED  BY <1>7, <2>1, <2>2, <2>3
<1>9. ASSUME NEW i \in OfSource(ThisPlan(t)), FindsProduct(t, i, "rename") PROVE CatalogueInv'
  <2>1. i \in DOMAIN products /\ products[i].source = p
    BY <1>3 DEF OfSource
  <2>2. i \in Nat /\ IsOf(i, p)
    BY <1>5, <2>1
  <2>. QED  BY <1>7, <1>9, <2>1, <2>2
<1>10. ASSUME At(t, "create") PROVE CatalogueInv'
  <2>1. Became(t, row, task[t].product, task[t].id, task[t].price, "create")
    BY <1>1, <1>6, <1>10, MovedOn DEF TaskPlaces
  <2>2. ThisPlan(t)' = p /\ Seen(t)' = Seen(t)
    BY <1>3, <1>6, <2>1 DEF ThisPlan, Seen, Became
  <2>3. (SpecOf(t) \in plans[PlanOf(t)].had)'
    BY <1>2, <1>4, <1>6, <2>1, <2>2 DEF SpecOf, PlanOf, catalogRows, Became
  <2>4. FoundFits(t)' /\ Placed(t)'
    BY <1>2, <1>6, <2>1, <2>3 DEF FoundFits, IdFits, Tasked, Placed, Became
  <2>. QED  BY <1>2, <2>1, <2>4, Reads DEF Became, Stored
<1>. QED  BY <1>8, <1>9, <1>10 DEF FindProduct, FindsProduct

LEMMA FindOfferFits ==
  ASSUME CatalogueInv, NEW t \in Task, FindOffer(t)
  PROVE  CatalogueInv'
<1>1. CatalogueTyped /\ TaskFits(t) /\ FoundFits(t)
  BY DEF CatalogueInv
<1>2. /\ task[t].does.kind = "sync" /\ task[t].at = "offer"
      /\ UNCHANGED <<feed, catalogRows, orders, offered>> /\ task[t].id = 0
      /\ IsOf(task[t].product, ThisPlan(t))
  BY <1>1 DEF FindOffer, Tasked, FoundFits, IdFits
<1>3. PICK row : row = task'[t]
  OBVIOUS
<1>4. PICK n : n = task[t].product
  OBVIOUS
<1>5. ASSUME NEW i, i = 0 \/ i \in SuppliesOf(n), Became(t, row, n, i, task[t].price, "supply")
      PROVE  CatalogueInv'
  <2>1. ThisPlan(t)' = ThisPlan(t) /\ Seen(t)' = Seen(t) /\ task'[t] = row
    BY <1>3, <1>5 DEF ThisPlan, Seen, Became
  <2>2. FoundFits(t)'
    BY <1>5, <1>2, <1>4, <2>1 DEF Became, IsOf, catalogRows, SuppliesOf, FoundFits, IdFits, Tasked
  <2>3. Alone(t) => Placed(t)'
    <3>1. Alone(t) => products[n].identity = Identity(Seen(t))
      BY <1>2, <1>4 DEF CatalogueInv, SyncFits, Placed
    <3>. QED  BY <1>2, <1>5, <2>1, <3>1 DEF Placed, Became, catalogRows
  <2>. QED  BY <1>2, <1>5, <2>2, <2>3, Reads DEF Became, Stored
<1>6. ASSUME NEW i \in SuppliesOf(n), FindsOffer(t, i, "supply") PROVE CatalogueInv'
  <2>1. i \in Nat
    BY <1>1, CatalogueRows DEF SuppliesOf
  <2>2. Became(t, row, n, i, task[t].price, "supply")
    BY <1>1, <1>3, <1>4, <1>6, <2>1, MovedOn DEF TaskPlaces
  <2>. QED  BY <1>5, <2>2
<1>7. ASSUME At(t, "supply") PROVE CatalogueInv'
  <2>1. Became(t, row, n, 0, task[t].price, "supply")
    BY <1>1, <1>2, <1>3, <1>4, <1>7, MovedOn DEF TaskPlaces
  <2>. QED  BY <1>5, <2>1
<1>. QED  BY <1>4, <1>6, <1>7 DEF FindOffer, FindsOffer

LEMMA CheckMarginFits ==
  ASSUME CatalogueInv, NEW t \in Task, CheckMargin(t)
  PROVE  CatalogueInv'
<1>1. CatalogueTyped /\ TaskFits(t) /\ FoundFits(t)
  BY DEF CatalogueInv
<1>2. /\ task[t].does.kind = "enable" /\ task[t].at = "begin"
      /\ UNCHANGED <<feed, catalogRows, orders, offered>> /\ task[t].id = 0
  BY <1>1 DEF CheckMargin, Tasked, FoundFits, IdFits
<1>3. Throws(t) \/ At(t, "find")
  BY Zenon DEF CheckMargin
<1>4. CASE Throws(t)
  BY <1>2, <1>4, ThrowFits
<1>5. CASE At(t, "find")
  <2>1. PICK row : row = task'[t]
    OBVIOUS
  <2>2. Became(t, row, task[t].product, task[t].id, task[t].price, "find")
    BY <1>1, <1>5, <2>1, MovedOn DEF TaskPlaces
  <2>3. FoundFits(t)'
    BY <1>1, <1>2, <2>2, NothingFound DEF IdFits, Became
  <2>. QED  BY <1>2, <2>2, <2>3, Reads DEF Became
<1>. QED  BY <1>3, <1>4, <1>5

LEMMA FindShelvedFits ==
  ASSUME CatalogueInv, NEW t \in Task, FindShelved(t)
  PROVE  CatalogueInv'
<1>1. CatalogueTyped /\ TaskFits(t) /\ FoundFits(t)
  BY DEF CatalogueInv
<1>2. /\ task[t].does.kind = "enable" /\ task[t].at = "find"
      /\ UNCHANGED <<feed, catalogRows, orders, offered>> /\ task[t].id = 0
  BY <1>1 DEF FindShelved, Tasked, FoundFits, IdFits
<1>3. PICK row : row = task'[t]
  OBVIOUS
<1>4. PICK n, tenant : n = task[t].does.product /\ tenant = task[t].does.tenant
  OBVIOUS
<1>5. ASSUME NEW i, i = 0 \/ i \in Shelved(n, tenant),
             Became(t, row, task[t].product, i, task[t].price, "put")
      PROVE  CatalogueInv'
  BY <1>3, <1>5, <1>2, <1>4, Reads DEF Became, Shelved, catalogRows, FoundFits, IdFits, Tasked
<1>6. ASSUME NEW i \in Shelved(n, tenant), FindsOffer(t, i, "put") PROVE CatalogueInv'
  BY <1>1, CatalogueRows, <1>3, <1>6, MovedOn, <1>5 DEF Shelved, TaskPlaces
<1>7. ASSUME At(t, "put") PROVE CatalogueInv'
  BY <1>1, <1>2, <1>3, <1>7, MovedOn, <1>5 DEF TaskPlaces
<1>. QED  BY <1>4, <1>6, <1>7 DEF FindShelved, FindsOffer

LEMMA ReadActivePlanFits ==
  ASSUME CatalogueInv, NEW t \in Task, ReadActivePlan(t)
  PROVE  CatalogueInv'
<1>1. CatalogueTyped /\ TaskFits(t) /\ task[t] \in TaskRows /\ feed \in FeedRows
  BY DEF CatalogueInv, CatalogueTyped
<1>2. /\ task[t].does.kind = "order" /\ task[t].at = "begin"
      /\ UNCHANGED <<feed, catalogRows, orders, offered>> /\ task[t].does.plan \in PlanId
  BY <1>1, DoesOrder DEF ReadActivePlan, Tasked
<1>3. CASE Throws(t)
  BY <1>2, <1>3, ThrowFits
<1>4. CASE /\ plans[task[t].does.plan].status = "active"
           /\ task' = [task EXCEPT ![t].price = plans[task[t].does.plan].retail,
                                   ![t].spec = plans[task[t].does.plan].spec, ![t].at = "product"]
  <2>1. PICK p \in PlanId : p = task[t].does.plan
    BY <1>2
  <2>2. plans[p] \in PlanRows /\ plans[p].spec \in plans[p].had
    BY <1>1, <1>2, <1>4, <2>1 DEF CatalogueTyped, CatalogueInv, SourcesFit, PlanFits
  <2>3. PICK price \in Int, spec \in Identities : price = plans[p].retail /\ spec = plans[p].spec
    BY <2>2 DEF PlanRows
  <2>4. PICK r \in TaskRows : r = task[t]
    BY <1>1
  <2>5. PICK row : row = [r EXCEPT !.price = price, !.spec = spec, !.at = "product"]
    OBVIOUS
  <2>6. row \in TaskRows
    BY <1>1, <2>5 DEF TaskRows, TaskPlaces
  <2>7. /\ row.does = task[t].does /\ row.at = "product" /\ row.spec = spec
        /\ task' = [task EXCEPT ![t] = row]
    BY <1>4, <2>1, <2>3, <2>4, <2>5 DEF TaskRows, CatalogueTyped
  <2>8. Replaces(t, row) /\ task'[t] = row
    BY <1>1, <2>6, <2>7 DEF Replaces, CatalogueTyped
  <2>9. (SpecOf(t) \in plans[PlanOf(t)].had)'
    BY <1>2, <2>1, <2>2, <2>3, <2>7, <2>8 DEF SpecOf, PlanOf, catalogRows
  <2>10. FoundFits(t)'
    BY <1>2, <2>7, <2>8, <2>9 DEF FoundFits, IdFits, Tasked
  <2>. QED  BY <1>2, <2>7, <2>8, <2>10, Reads
<1>. QED  BY <1>3, <1>4 DEF ReadActivePlan

LEMMA EnsureProductFits ==
  ASSUME CatalogueInv, NEW t \in Task, EnsureProduct(t)
  PROVE  CatalogueInv'
<1>1. CatalogueTyped /\ TaskFits(t) /\ FoundFits(t)
  BY DEF CatalogueInv
<1>2. /\ task[t].does.kind = "order" /\ task[t].at = "product"
      /\ UNCHANGED <<feed, catalogRows, orders, offered>>
  BY DEF EnsureProduct, Tasked
<1>3. PICK p : /\ p \in PlanId /\ p = task[t].does.plan /\ PlanOf(t) = p /\ p # "none"
  BY <1>1, <1>2, DoesOrder, CatalogueAssumption
<1>4. SpecOf(t) \in plans[p].had
  BY <1>1, <1>2, <1>3 DEF FoundFits
<1>5. PICK row : row = task'[t]
  OBVIOUS
<1>6. ASSUME NEW i, IsOf(i, p), FindsProduct(t, i, "shelf") PROVE CatalogueInv'
  <2>1. i \in Nat
    BY <1>1, <1>6, CatalogueRows DEF IsOf
  <2>2. Became(t, row, i, task[t].id, task[t].price, "shelf")
    BY <1>1, <1>5, <1>6, <2>1, MovedOn DEF TaskPlaces
  <2>3. task'[t] = row /\ task'[t].does = task[t].does
    BY <1>5, <2>2 DEF Became
  <2>4. IsOf(task[t].product, task[t].does.plan)'
    BY <1>2, <1>3, <1>6, <2>2, <2>3 DEF IsOf, catalogRows, Became
  <2>5. FoundFits(t)'
    BY <1>2, <2>2, <2>3, <2>4 DEF FoundFits, IdFits, Tasked, Became
  <2>. QED  BY <1>2, <2>2, <2>5, Reads DEF Became
<1>7. \A i \in OfSource(p) : IsOf(i, p)
  <2>1. TAKE i \in OfSource(p)
  <2>2. i \in DOMAIN products /\ products[i].source = p
    BY DEF OfSource
  <2>3. SourceFits(products[i], plans)
    BY <2>2 DEF CatalogueInv, SourcesFit
  <2>. QED  BY <1>3, <2>2, <2>3 DEF SourceFits, IsOf
<1>8. \A i \in OfIdentity(SpecOf(t)) : IsOf(i, p)
  BY <1>4 DEF OfIdentity, IsOf, CatalogueInv, SourcesFit, SourceFits
<1>9. ASSUME At(t, "create") PROVE CatalogueInv'
  <2>1. Became(t, row, task[t].product, task[t].id, task[t].price, "create")
    BY <1>1, <1>5, <1>9, MovedOn DEF TaskPlaces
  <2>2. (SpecOf(t) \in plans[PlanOf(t)].had)'
    BY <1>2, <1>3, <1>4, <1>5, <2>1 DEF SpecOf, PlanOf, catalogRows, Became
  <2>3. FoundFits(t)'
    BY <1>2, <1>5, <2>1, <2>2 DEF FoundFits, IdFits, Tasked, Became
  <2>. QED  BY <1>2, <2>1, <2>3, Reads DEF Became
<1>. QED  BY <1>3, <1>6, <1>7, <1>8, <1>9 DEF EnsureProduct, FindsProduct

LEMMA ResolveOfferFits ==
  ASSUME CatalogueInv, NEW t \in Task, ResolveOffer(t)
  PROVE  CatalogueInv'
<1>1. CatalogueTyped /\ TaskFits(t) /\ FoundFits(t)
  BY DEF CatalogueInv
<1>2. /\ task[t].does.kind = "order" /\ task[t].at = "shelf"
      /\ UNCHANGED <<feed, catalogRows, orders, offered>>
      /\ IsOf(task[t].product, task[t].does.plan)
  BY <1>1 DEF ResolveOffer, Tasked, FoundFits
<1>3. PICK n, p, tenant : n = task[t].product /\ p = task[t].does.plan
                          /\ tenant = task[t].does.tenant
  OBVIOUS
<1>4. PICK row : row = task'[t]
  OBVIOUS
<1>5. ASSUME NEW stop, NEW id, NEW price, Became(t, row, n, id, price, stop)
      PROVE  task'[t] = row /\ task'[t].does = task[t].does
             /\ IsOf(task[t].product, task[t].does.plan)'
  BY <1>2, <1>3, <1>4, <1>5 DEF IsOf, catalogRows, Became
<1>6. ASSUME NEW i \in Shelved(n, tenant), shelf[i].status = "active", Takes(t, i)
      PROVE  CatalogueInv'
  <2>1. i \in DOMAIN shelf /\ i \in Nat /\ shelf[i].retail \in Int
    BY <1>1, CatalogueRows DEF Shelved, ShelfRows
  <2>2. PICK price \in Int, m \in Nat : price = shelf[i].retail /\ m = n
    BY <1>1, <1>3, <2>1, OwnRow
  <2>3. Becomes(t, m, i, price, "place")
    BY <1>1, <1>3, <1>6, <2>2, OwnRow DEF Takes, Becomes, CatalogueTyped, TaskRows
  <2>4. Became(t, row, n, i, price, "place")
    BY <1>1, <1>4, <2>1, <2>2, <2>3, RowOfCall DEF TaskPlaces
  <2>5. <<i, price>> \in offered'
    BY <1>2, <1>6, <2>1, <2>2 DEF CatalogueInv, ActiveOffered
  <2>6. i \in Shelved(n, tenant)'
    BY <1>2 DEF Shelved, catalogRows
  <2>7. task'[t].id \in Shelved(task[t].product, task[t].does.tenant)'
    BY <1>3, <1>5, <2>4, <2>6 DEF Became, Shelved
  <2>8. FoundFits(t)'
    BY <1>2, <1>5, <2>4, <2>5, <2>7 DEF FoundFits, IdFits, Tasked, Became
  <2>. QED  BY <1>2, <2>4, <2>8, Reads DEF Became
<1>7. ASSUME At(t, "stock"), tenant = Direct PROVE CatalogueInv'
  <2>1. Became(t, row, n, task[t].id, task[t].price, "stock")
    BY <1>1, <1>3, <1>4, <1>7, MovedOn DEF TaskPlaces
  <2>2. FoundFits(t)'
    BY <1>2, <1>3, <1>5, <1>7, <2>1 DEF FoundFits, IdFits, Tasked, Became
  <2>. QED  BY <1>2, <2>1, <2>2, Reads DEF Became
<1>8. ASSUME task[t].does.offer # 0, MayUse(task[t].does.offer, t)
      PROVE  task[t].does.offer \in Shelved(n, tenant) /\ shelf[task[t].does.offer].status = "active"
  <2>1. task[t].does.offer \in 0..Len(shelf) /\ DOMAIN shelf = 1..Len(shelf) /\ Len(shelf) \in Nat
    BY <1>1, <1>2, DoesOrder, CatalogueRows
  <2>2. PICK i : i = task[t].does.offer
    OBVIOUS
  <2>3. i \in DOMAIN shelf
    BY <1>8, <2>1, <2>2
  <2>. QED  BY <1>3, <1>8, <2>2, <2>3 DEF MayUse, Shelved
<1>9. ASSUME Throws(t) PROVE CatalogueInv'
  BY <1>2, <1>9, ThrowFits
<1>10. \/ task[t].does.offer # 0 /\ MayUse(task[t].does.offer, t) /\ Takes(t, task[t].does.offer)
       \/ Throws(t)
       \/ tenant = Direct /\ At(t, "stock")
       \/ \E i \in Shelved(n, tenant) : shelf[i].status = "active" /\ Takes(t, i)
  BY <1>3, Zenon DEF ResolveOffer
<1>. QED  BY <1>6, <1>7, <1>8, <1>9, <1>10

-----------------------------------------------------------------------------
(* Calls that write.                                                       *)

LEMMA OtherRowsStay ==
  ASSUME UNCHANGED <<products, offers, shelf, offered>>, PlansGrow, CatalogueTyped
  PROVE  CatalogueGrows
  BY CatalogueRows DEF CatalogueGrows, ProductsGrow, OffersGrow, ShelfGrows

\* What holds of the rows when neither the products nor the shelf change.
LEMMA RowsFit ==
  ASSUME CatalogueInv, UNCHANGED <<products, shelf, offered, orders>>, CatalogueGrows,
         \A p \in PlanId : PlanFits(plans[p])'
  PROVE  SourcesFit' /\ ActiveOffered' /\ OrdersHold'
<1>1. ASSUME NEW i \in DOMAIN products PROVE SourceFits(products[i], plans')
  <2>1. SourceFits(products[i], plans) /\ products[i].source \in PlanId \cup {"none"}
    BY CatalogueRows DEF CatalogueInv, SourcesFit, ProductRows
  <2>. QED  BY <2>1 DEF SourceFits, CatalogueGrows, PlansGrow
<1>2. SourcesFit'
  BY <1>1 DEF SourcesFit
<1>. QED  BY <1>2, OrdersStay DEF CatalogueInv, ActiveOffered, OrdersHold

LEMMA IdentityTyped ==
  ASSUME NEW pp \in FeedRow
  PROVE  Identity(pp) \in Identities
BY DEF FeedRow, Codes, Normal, Identity, Identities

LEMMA StorePlanFits ==
  ASSUME CatalogueInv, NEW t \in Task, StorePlan(t)
  PROVE  CatalogueInv'
<1>1. CatalogueTyped /\ TaskFits(t) /\ FoundFits(t) /\ task[t] \in TaskRows
  BY DEF CatalogueInv, CatalogueTyped
<1>2. /\ task[t].does.kind = "sync" /\ task[t].at = "store" /\ task[t].id = 0
      /\ UNCHANGED <<feed, products, offers, shelf, orders, offered>>
  BY <1>1 DEF StorePlan, Tasked, FoundFits, IdFits
<1>3. PICK p : p \in PlanId /\ p = ThisPlan(t) /\ Seen(t) = task[t].saw[p]
  BY <1>1, <1>2, DoesSync DEF Seen
<1>4. CASE Throws(t) /\ UNCHANGED plans
  BY <1>2, <1>4, ThrowFits DEF catalogRows
<1>5. ASSUME NEW status \in {"absent", "active", "inactive"}, At(t, "product"),
             plans' = [plans EXCEPT ![p] = [status |-> status, retail |-> task[t].price,
                                            wholesale |-> Seen(t).wholesale,
                                            spec |-> Identity(Seen(t)),
                                            had |-> plans[p].had \cup {Identity(Seen(t))}]]
      PROVE  CatalogueInv'
  <2>1. PICK retail \in Int, wholesale \in Int, spec \in Identities, had \in SUBSET Identities :
          /\ retail = task[t].price /\ wholesale = Seen(t).wholesale /\ spec = Identity(Seen(t))
          /\ had = plans[p].had \cup {spec}
    <3>1. task[t].price \in Int /\ Seen(t) \in FeedRow
      BY <1>1, <1>3 DEF TaskRows, FeedRows
    <3>2. Seen(t).wholesale \in Int /\ Identity(Seen(t)) \in Identities
      BY <3>1, IdentityTyped DEF FeedRow
    <3>3. plans[p].had \subseteq Identities
      BY <1>1, <1>3 DEF CatalogueTyped, PlanRows
    <3>. QED  BY <3>1, <3>2, <3>3
  <2>2. PICK new : new = [status |-> status, retail |-> retail, wholesale |-> wholesale,
                          spec |-> spec, had |-> had]
    OBVIOUS
  <2>3. new \in PlanRows /\ new.wholesale = wholesale /\ new.spec = spec /\ new.had = had
    BY <2>2 DEF PlanRows
  <2>4. plans' = [plans EXCEPT ![p] = new] /\ plans \in [PlanId -> PlanRows]
    BY <1>1, <1>5, <2>1, <2>2 DEF CatalogueTyped
  <2>5. plans' \in [PlanId -> PlanRows] /\ plans'[p] = new
        /\ \A q \in PlanId : q # p => plans'[q] = plans[q]
    BY <1>3, <2>3, <2>4
  <2>6. PICK row : row = task'[t]
    OBVIOUS
  <2>7. Became(t, row, task[t].product, task[t].id, task[t].price, "product")
    BY <1>1, <1>5, <2>6, MovedOn DEF TaskPlaces
  <2>8. Replaces(t, row) /\ row.does = task[t].does /\ row.saw = task[t].saw
        /\ row.n = task[t].n /\ row.id = 0 /\ row.at = "product"
    BY <1>2, <2>7 DEF Became
  <2>9. PlansGrow
    BY <1>3, <2>1, <2>3, <2>5 DEF PlansGrow
  <2>10. CatalogueGrows
    BY <1>1, <1>2, <2>9, OtherRowsStay
  <2>11. task' \in [Task -> TaskRows] /\ task'[t] = row
    BY <1>1, <2>8, ReplacedTask
  <2>12. CatalogueTyped'
    BY <1>1, <1>2, <2>5, <2>11 DEF CatalogueTyped
  <2>13. TaskFits(t)'
    BY <1>2, <2>8, <2>10, <2>12, TaskStays
  <2>14. ThisPlan(t)' = p /\ Seen(t)' = Seen(t)
    BY <1>3, <2>8, <2>11 DEF ThisPlan, Seen
  <2>15. (SpecOf(t) \in plans[PlanOf(t)].had)'
    BY <1>2, <2>1, <2>3, <2>5, <2>8, <2>11, <2>14 DEF SpecOf, PlanOf
  <2>16. FoundFits(t)'
    BY <1>2, <2>8, <2>11, <2>15 DEF FoundFits, IdFits, Tasked
  <2>17. Reprices(t)
    BY <1>2, <1>3, <2>1, <2>3, <2>5 DEF Reprices, Rewritten, Renamed, Terms
  <2>18. Terms(ThisPlan(t))' = <<Seen(t).wholesale, Identity(Seen(t))>> /\ Placed(t)'
    BY <2>1, <2>3, <2>5, <2>8, <2>11, <2>14 DEF Terms, Placed
  <2>19. SyncFits(t)'
    BY <2>8, <2>10, <2>17, <2>18, SyncStays
  <2>20. \A q \in PlanId : PlanFits(plans[q])'
    BY <2>1, <2>3, <2>5 DEF CatalogueInv, SourcesFit, PlanFits
  <2>21. SourcesFit' /\ ActiveOffered' /\ OrdersHold'
    BY <1>2, <2>10, <2>20, RowsFit
  <2>. QED  BY <1>2, <2>8, <2>10, <2>12, <2>13, <2>16, <2>19, <2>21, StepFits
<1>6. \/ Throws(t) /\ UNCHANGED plans
      \/ \E status \in {"absent", "active", "inactive"} :
           /\ At(t, "product")
           /\ plans' = [plans EXCEPT ![p] = [status |-> status, retail |-> task[t].price,
                                            wholesale |-> Seen(t).wholesale,
                                            spec |-> Identity(Seen(t)),
                                            had |-> plans[p].had \cup {Identity(Seen(t))}]]
  BY <1>1, <1>3 DEF StorePlan, TaskRows
<1>. QED  BY <1>4, <1>5, <1>6

LEMMA ToggleStatusFits ==
  ASSUME CatalogueInv, NEW t \in Task, ToggleStatus(t)
  PROVE  CatalogueInv'
<1>1. CatalogueTyped /\ TaskFits(t)
  BY DEF CatalogueInv
<1>2. /\ task[t].does.kind = "toggle" /\ task[t].at = "begin"
      /\ UNCHANGED <<feed, products, offers, shelf, orders, offered>>
  BY DEF ToggleStatus, Tasked
<1>3. PICK p, status : /\ p \in PlanId /\ p = task[t].does.plan
                       /\ status \in {"active", "inactive"} /\ status = task[t].does.status
  BY <1>1, <1>2 DEF TaskFits, DeedFits, Syncing, Ordering, Disabling, Enabling, Toggling,
                    Changing, Resting
<1>4. CASE Throws(t) /\ UNCHANGED plans
  BY <1>2, <1>4, ThrowFits DEF catalogRows
<1>5. CASE /\ plans[p].status # "absent" /\ At(t, "done")
           /\ plans' = [plans EXCEPT ![p].status = status]
  <2>1. /\ plans' \in [PlanId -> PlanRows] /\ PlansGrow
        /\ \A q \in PlanId : Terms(q)' = Terms(q) /\ PlanFits(plans[q])'
    <3>1. PICK old, new : old = plans[p] /\ new = [plans[p] EXCEPT !.status = status]
      OBVIOUS
    <3>2. plans \in [PlanId -> PlanRows] /\ old \in PlanRows
      BY <1>1, <1>3, <3>1 DEF CatalogueTyped
    <3>3. new \in PlanRows /\ new.wholesale = old.wholesale /\ new.spec = old.spec
          /\ new.had = old.had
      BY <1>3, <3>1, <3>2 DEF PlanRows
    <3>4. plans' = [plans EXCEPT ![p] = new]
      BY <1>5, <3>1
    <3>5. plans' \in [PlanId -> PlanRows] /\ plans'[p] = new
          /\ \A q \in PlanId : q # p => plans'[q] = plans[q]
      BY <1>3, <3>2, <3>3, <3>4
    <3>6. old.spec \in old.had
      BY <1>3, <1>5, <3>1 DEF CatalogueInv, SourcesFit, PlanFits
    <3>. QED  BY <3>1, <3>3, <3>5, <3>6 DEF Terms, PlansGrow, CatalogueInv, SourcesFit, PlanFits
  <2>2. PICK row : row = task'[t]
    OBVIOUS
  <2>3. Became(t, row, task[t].product, task[t].id, task[t].price, "done")
    BY <1>1, <1>5, <2>2, MovedOn DEF TaskPlaces
  <2>4. Replaces(t, row) /\ row.does = task[t].does /\ row.saw = task[t].saw /\ row.at = "done"
    BY <2>3 DEF Became
  <2>5. CatalogueGrows
    BY <1>1, <1>2, <2>1, OtherRowsStay
  <2>6. task' \in [Task -> TaskRows] /\ task'[t].does = task[t].does
    BY <1>1, <2>4, ReplacedTask
  <2>7. CatalogueTyped'
    BY <1>1, <1>2, <2>1, <2>6 DEF CatalogueTyped
  <2>8. TaskFits(t)'
    BY <1>2, <2>4, <2>5, <2>7, TaskStays
  <2>9. FoundFits(t)'
    BY <1>1, <1>2, <2>4, NothingFound DEF IdFits
  <2>10. SyncFits(t)'
    BY <1>2, <2>6 DEF SyncFits
  <2>11. SourcesFit' /\ ActiveOffered' /\ OrdersHold'
    BY <1>2, <2>1, <2>5, RowsFit
  <2>. QED  BY <1>2, <2>1, <2>4, <2>5, <2>7, <2>8, <2>9, <2>10, <2>11, StepFits
<1>. QED  BY <1>3, <1>4, <1>5 DEF ToggleStatus

LEMMA FeedChangesFits ==
  ASSUME CatalogueInv, NEW t \in Task, FeedChanges(t)
  PROVE  CatalogueInv'
<1>1. CatalogueTyped /\ TaskFits(t)
  BY DEF CatalogueInv
<1>2. /\ task[t].does.kind = "change" /\ task[t].at = "begin" /\ At(t, "done")
      /\ UNCHANGED <<plans, products, offers, shelf, orders, offered>>
  BY DEF FeedChanges, Tasked, catalogRows
<1>3. PICK p \in PlanId, new \in FeedRow : p = task[t].does.plan /\ new = task[t].does.row
  BY <1>1, <1>2 DEF TaskFits, DeedFits, Syncing, Ordering, Disabling, Enabling, Toggling,
                    Changing, Resting
<1>4. feed' = [feed EXCEPT ![p] = new]
  BY <1>3 DEF FeedChanges
<1>5. feed' \in FeedRows
  BY <1>1, <1>3, <1>4 DEF CatalogueTyped, FeedRows
<1>7. PICK row : row = task'[t]
  OBVIOUS
<1>8. Became(t, row, task[t].product, task[t].id, task[t].price, "done")
  BY <1>1, <1>2, <1>7, MovedOn DEF TaskPlaces
<1>9. Replaces(t, row) /\ row.does = task[t].does /\ row.saw = task[t].saw /\ row.at = "done"
  BY <1>8 DEF Became
<1>10. CatalogueGrows
  BY <1>1, <1>2, OtherRowsStay DEF PlansGrow
<1>11. task' \in [Task -> TaskRows] /\ task'[t].does = task[t].does
  BY <1>1, <1>9, ReplacedTask
<1>12. CatalogueTyped'
  BY <1>1, <1>2, <1>5, <1>11 DEF CatalogueTyped
<1>13. TaskFits(t)'
  BY <1>2, <1>9, <1>10, <1>12, TaskStays
<1>14. FoundFits(t)'
  BY <1>1, <1>2, <1>9, NothingFound DEF IdFits
<1>15. SyncFits(t)'
  BY <1>2, <1>11 DEF SyncFits
<1>16. SourcesFit' /\ ActiveOffered' /\ OrdersHold'
  BY <1>2, <1>10, RowsFit DEF CatalogueInv, SourcesFit
<1>. QED  BY <1>2, <1>9, <1>10, <1>12, <1>13, <1>14, <1>15, <1>16, StepFits DEF Terms

\* A sequence with one more element, or another in one place.
LEMMA AppendedTo ==
  ASSUME NEW X, NEW s \in Seq(X), NEW x \in X, NEW r, r = Append(s, x)
  PROVE  /\ r \in Seq(X) /\ DOMAIN s = 1..Len(s) /\ Len(s) \in Nat
         /\ DOMAIN r = 1..(Len(s) + 1) /\ Len(r) = Len(s) + 1
         /\ \A i \in DOMAIN s : i \in DOMAIN r /\ r[i] = s[i]
         /\ r[Len(s) + 1] = x /\ Len(s) + 1 \in DOMAIN r /\ Len(s) + 1 \notin DOMAIN s
         /\ \A i \in DOMAIN r : i \in DOMAIN s \/ i = Len(s) + 1
  OBVIOUS

LEMMA PutInto ==
  ASSUME NEW X, NEW s \in Seq(X), NEW x \in X, NEW n \in DOMAIN s, NEW r, r = [s EXCEPT ![n] = x]
  PROVE  /\ r \in Seq(X) /\ DOMAIN r = DOMAIN s /\ Len(r) = Len(s) /\ r[n] = x
         /\ \A i \in DOMAIN s : i # n => r[i] = s[i]
  OBVIOUS

LEMMA WriteProductFits ==
  ASSUME CatalogueInv, NEW t \in Task, WriteProduct(t)
  PROVE  CatalogueInv'
<1>1. CatalogueTyped /\ TaskFits(t) /\ FoundFits(t) /\ SyncFits(t)
  BY DEF CatalogueInv
<1>2. /\ task[t].does.kind = "sync" /\ task[t].at \in {"claim", "rename"} /\ task[t].id = 0
      /\ UNCHANGED <<feed, plans, offers, shelf, orders, offered>>
  BY <1>1 DEF WriteProduct, Tasked, FoundFits, IdFits
<1>3. PICK p, i : p \in PlanId /\ p = ThisPlan(t) /\ Seen(t) = task[t].saw[p] /\ i = task[t].product
  BY <1>1, <1>2, DoesSync DEF Seen
<1>4. PICK spec \in Identities : spec = Identity(Seen(t)) /\ spec \in plans[p].had
  <2>1. Seen(t) \in FeedRow
    BY <1>1, <1>3 DEF CatalogueTyped, TaskRows, FeedRows
  <2>. QED  BY <1>1, <1>2, <1>3, <2>1, IdentityTyped DEF FoundFits, SpecOf, PlanOf
<1>5. CASE Throws(t) /\ UNCHANGED products
  BY <1>2, <1>5, ThrowFits DEF catalogRows
<1>6. IsOf(i, p) /\ i \in DOMAIN products
  BY <1>1, <1>2, <1>3 DEF FoundFits, Tasked, IsOf
<1>7. /\ products[i] \in ProductRows /\ products \in Seq(ProductRows)
      /\ SourceFits(products[i], plans)
  BY <1>1, <1>6, CatalogueRows DEF CatalogueTyped, CatalogueInv, SourcesFit
<1>8. Alone(t) => /\ task[t].at = "claim" => products[i].identity = spec
                  /\ task[t].at = "rename" => products[i].source = p
  BY <1>1, <1>2, <1>3, <1>4 DEF SyncFits, Placed
<1>9. ASSUME NEW new \in ProductRows, At(t, "offer"), products' = [products EXCEPT ![i] = new],
             products[i].been \subseteq new.been, SourceFits(new, plans),
             \/ task[t].at = "claim" /\ new.source = p /\ new.identity = products[i].identity
             \/ task[t].at = "rename" /\ new.source = products[i].source /\ new.identity = spec
      PROVE  CatalogueInv'
  <2>1. /\ products' \in Seq(ProductRows) /\ DOMAIN products' = DOMAIN products
        /\ products'[i] = new /\ \A n \in DOMAIN products : n # i => products'[n] = products[n]
    BY <1>6, <1>7, <1>9, PutInto
  <2>2. ProductsGrow
    BY <1>9, <2>1 DEF ProductsGrow
  <2>3. CatalogueGrows
    BY <1>1, <1>2, <2>2, CatalogueRows DEF CatalogueGrows, PlansGrow, OffersGrow, ShelfGrows
  <2>4. PICK row : row = task'[t]
    OBVIOUS
  <2>5. Became(t, row, i, task[t].id, task[t].price, "offer")
    BY <1>1, <1>3, <1>9, <2>4, MovedOn DEF TaskPlaces
  <2>6. Replaces(t, row) /\ row.does = task[t].does /\ row.saw = task[t].saw
        /\ row.n = task[t].n /\ row.id = 0 /\ row.at = "offer" /\ row.product = i
    BY <1>2, <2>5 DEF Became
  <2>7. task' \in [Task -> TaskRows] /\ task'[t] = row
    BY <1>1, <2>6, ReplacedTask
  <2>8. CatalogueTyped'
    BY <1>1, <1>2, <2>1, <2>7 DEF CatalogueTyped
  <2>9. TaskFits(t)'
    BY <1>2, <2>3, <2>6, <2>8, TaskStays
  <2>10. ThisPlan(t)' = p /\ Seen(t)' = Seen(t)
    BY <1>3, <2>6, <2>7 DEF ThisPlan, Seen
  <2>11. IsOf(task[t].product, ThisPlan(t))'
    <3>1. IsOf(i, p)'
      BY <1>3, <1>6, <2>3, StaysOf
    <3>. QED  BY <2>6, <2>7, <2>10, <3>1
  <2>12. FoundFits(t)'
    BY <1>2, <2>6, <2>7, <2>11 DEF FoundFits, IdFits, Tasked
  <2>13. Alone(t) => /\ new.identity = spec
                     /\ new.source = p
                     /\ products[i].identity = spec \/ products[i].source = p
    BY <1>8, <1>9
  <2>14. Alone(t) => Reprices(t)
    BY <1>2, <1>3, <1>4, <2>1, <2>13 DEF Reprices, Rewritten, Renamed, Terms
  <2>15. Alone(t) => Placed(t)'
    BY <1>4, <2>1, <2>6, <2>7, <2>10, <2>13 DEF Placed
  <2>16. Alone(t) => Terms(ThisPlan(t))' = <<Seen(t).wholesale, Identity(Seen(t))>>
    BY <1>1, <1>2, <1>3, <2>10 DEF SyncFits, Stored, Terms
  <2>17. SyncFits(t)'
    BY <1>2, <2>3, <2>6, <2>14, <2>15, <2>16, SyncStays
  <2>18. SourcesFit'
    BY <1>2, <1>9, <2>1 DEF CatalogueInv, SourcesFit
  <2>19. ActiveOffered'
    BY <1>2 DEF CatalogueInv, ActiveOffered
  <2>20. OrdersHold'
    BY <1>2, <2>3, OrdersStay DEF OrdersHold
  <2>. QED  BY <1>2, <2>3, <2>6, <2>8, <2>9, <2>12, <2>17, <2>18, <2>19, <2>20, StepFits
<1>10. CASE task[t].at = "claim" /\ ~Throws(t)
  <2>1. PICK new : new = [products[i] EXCEPT !.source = p]
    OBVIOUS
  <2>2. /\ new \in ProductRows /\ new.source = p /\ new.identity = products[i].identity
        /\ new.been = products[i].been
    BY <1>3, <1>7, <2>1 DEF ProductRows
  <2>3. At(t, "offer") /\ products' = [products EXCEPT ![i] = new]
    BY <1>3, <1>10, <2>1 DEF WriteProduct
  <2>4. SourceFits(new, plans)
    BY <1>6, <1>7, <2>2 DEF SourceFits, IsOf
  <2>. QED  BY <1>9, <1>10, <2>2, <2>3, <2>4
<1>11. CASE task[t].at = "rename" /\ ~Throws(t)
  <2>1. PICK new : new = [products[i] EXCEPT !.identity = spec, !.been = products[i].been \cup {spec}]
    OBVIOUS
  <2>2. /\ new \in ProductRows /\ new.source = products[i].source /\ new.identity = spec
        /\ new.been = products[i].been \cup {spec}
    BY <1>4, <1>7, <2>1 DEF ProductRows
  <2>3. At(t, "offer") /\ products' = [products EXCEPT ![i] = new]
    BY <1>3, <1>4, <1>11, <2>1 DEF WriteProduct
  <2>4. SourceFits(new, plans)
    BY <1>7, <2>2 DEF SourceFits
  <2>. QED  BY <1>9, <1>11, <2>2, <2>3, <2>4
<1>12. CASE Throws(t) /\ ~UNCHANGED products
  BY <1>12, <1>1 DEF WriteProduct, At, Throws, CatalogueTyped, TaskRows
<1>. QED  BY <1>2, <1>5, <1>10, <1>11, <1>12

LEMMA CreateProductFits ==
  ASSUME CatalogueInv, NEW t \in Task, CreateProduct(t)
  PROVE  CatalogueInv'
<1>1. CatalogueTyped /\ TaskFits(t) /\ FoundFits(t) /\ SyncFits(t)
  BY DEF CatalogueInv
<1>2. /\ task[t].does.kind \in {"sync", "order"} /\ task[t].at = "create"
      /\ task[t].does.kind = "sync" => task[t].id = 0
      /\ UNCHANGED <<feed, plans, offers, shelf, orders, offered>>
  BY <1>1 DEF CreateProduct, FoundFits, IdFits
<1>3. PICK p : /\ p \in PlanId /\ p = PlanOf(t)
               /\ task[t].does.kind = "sync" => p = ThisPlan(t)
               /\ task[t].does.kind = "order" => p = task[t].does.plan
  BY <1>1, <1>2, DoesSync, DoesOrder
<1>4. PICK spec \in Identities : spec = SpecOf(t) /\ spec \in plans[p].had
  <2>1. plans[p].had \subseteq Identities
    BY <1>1, <1>3 DEF CatalogueTyped, PlanRows
  <2>. QED  BY <1>1, <1>2, <1>3, <2>1 DEF FoundFits
<1>5. CASE Throws(t) /\ UNCHANGED products
  BY <1>2, <1>5, ThrowFits DEF catalogRows
<1>6. ASSUME NEW place \in {"offer", "shelf"}, FindsProduct(t, Len(products) + 1, place),
             products' = Append(products, [source |-> p, identity |-> spec, been |-> {spec}]),
             place = "offer" <=> task[t].does.kind = "sync"
      PROVE  CatalogueInv'
  <2>1. PICK new \in ProductRows : new = [source |-> p, identity |-> spec, been |-> {spec}]
    BY <1>3, <1>4 DEF ProductRows
  <2>2. products \in Seq(ProductRows) /\ products' = Append(products, new)
    BY <1>1, <1>6, <2>1 DEF CatalogueTyped
  <2>3. PICK i \in Nat : i = Len(products) + 1
    BY <2>2
  <2>4. /\ products' \in Seq(ProductRows) /\ i \in DOMAIN products' /\ products'[i] = new
        /\ \A n \in DOMAIN products : n \in DOMAIN products' /\ products'[n] = products[n]
        /\ \A n \in DOMAIN products' : n \in DOMAIN products \/ n = i
    BY <2>2, <2>3, AppendedTo
  <2>5. CatalogueGrows
    BY <1>1, <1>2, <2>4, CatalogueRows
    DEF CatalogueGrows, PlansGrow, ProductsGrow, OffersGrow, ShelfGrows
  <2>6. PICK row : row = task'[t]
    OBVIOUS
  <2>7. Became(t, row, i, task[t].id, task[t].price, place)
    BY <1>1, <1>6, <2>3, <2>6, MovedOn DEF TaskPlaces
  <2>8. Replaces(t, row) /\ row.does = task[t].does /\ row.saw = task[t].saw
        /\ row.n = task[t].n /\ row.id = task[t].id /\ row.at = place /\ row.product = i
    BY <2>7 DEF Became
  <2>9. task' \in [Task -> TaskRows] /\ task'[t] = row
    BY <1>1, <2>8, ReplacedTask
  <2>10. CatalogueTyped'
    BY <1>1, <1>2, <2>4, <2>9 DEF CatalogueTyped
  <2>11. TaskFits(t)'
    BY <1>2, <2>5, <2>8, <2>10, TaskStays
  <2>12. IsOf(i, p)'
    BY <1>2, <1>4, <2>1, <2>4 DEF IsOf
  <2>13. FoundFits(t)'
    <3>1. CASE task[t].does.kind = "sync"
      <4>1. ThisPlan(t)' = p
        BY <1>3, <2>8, <2>9, <3>1 DEF ThisPlan
      <4>2. IsOf(task[t].product, ThisPlan(t))'
        BY <2>8, <2>9, <2>12, <4>1 DEF IsOf
      <4>. QED  BY <1>2, <1>6, <2>8, <2>9, <3>1, <4>2 DEF FoundFits, IdFits, Tasked
    <3>2. CASE task[t].does.kind = "order"
      BY <1>3, <2>8, <2>9, <2>12, <3>2, <1>6 DEF IsOf, FoundFits, IdFits, Tasked
    <3>. QED  BY <1>2, <3>1, <3>2
  <2>14. Reprices(t)
    BY <1>2, <2>4 DEF Reprices, Rewritten, Renamed, Terms
  <2>15. task[t].does.kind = "sync" /\ Alone(t) =>
           Terms(ThisPlan(t))' = <<Seen(t).wholesale, Identity(Seen(t))>> /\ Placed(t)'
    <3>1. SUFFICES ASSUME task[t].does.kind = "sync", Alone(t)
                   PROVE  Terms(ThisPlan(t))' = <<Seen(t).wholesale, Identity(Seen(t))>> /\ Placed(t)'
      OBVIOUS
    <3>2. ThisPlan(t)' = p /\ Seen(t)' = Seen(t) /\ spec = Identity(Seen(t))
      BY <1>3, <1>4, <2>8, <2>9, <3>1 DEF ThisPlan, Seen, SpecOf
    <3>3. Terms(p) = <<Seen(t).wholesale, Identity(Seen(t))>>
      BY <1>1, <1>2, <1>3, <3>1 DEF SyncFits, Stored
    <3>4. Terms(ThisPlan(t))' = <<Seen(t).wholesale, Identity(Seen(t))>>
      BY <1>2, <3>2, <3>3 DEF Terms
    <3>. QED  BY <1>6, <2>1, <2>4, <2>8, <2>9, <3>1, <3>2, <3>4 DEF Placed
  <2>16. SyncFits(t)'
    BY <1>2, <1>6, <2>5, <2>8, <2>14, <2>15, SyncStays
  <2>17. SourcesFit'
    BY <2>1, <2>4, <1>2, <1>3, <1>4 DEF CatalogueInv, SourcesFit, SourceFits
  <2>18. ActiveOffered'
    BY <1>2 DEF CatalogueInv, ActiveOffered
  <2>19. OrdersHold'
    BY <1>2, <2>5, OrdersStay DEF OrdersHold
  <2>. QED  BY <1>2, <2>5, <2>8, <2>10, <2>11, <2>13, <2>16, <2>17, <2>18, <2>19, StepFits
<1>7. CASE OfSource(PlanOf(t)) = {}
  <2>1. PICK place \in {"offer", "shelf"} : /\ FindsProduct(t, Len(products) + 1, place)
                                            /\ place = "offer" <=> task[t].does.kind = "sync"
    BY <1>7 DEF CreateProduct, FindsProduct
  <2>2. products' = Append(products, [source |-> p, identity |-> spec, been |-> {spec}])
    BY <1>3, <1>4, <1>7 DEF CreateProduct
  <2>. QED  BY <1>6, <2>1, <2>2
<1>8. CASE OfSource(PlanOf(t)) # {}
  BY <1>5, <1>8 DEF CreateProduct
<1>. QED  BY <1>7, <1>8

LEMMA WriteOfferFits ==
  ASSUME CatalogueInv, NEW t \in Task, WriteOffer(t)
  PROVE  CatalogueInv'
<1>1. CatalogueTyped /\ TaskFits(t) /\ FoundFits(t) /\ SyncFits(t)
  BY DEF CatalogueInv
<1>2. /\ task[t].does.kind = "sync" /\ task[t].at = "supply" /\ NextPlan(t)
      /\ UNCHANGED <<feed, plans, products, shelf, orders, offered>>
  BY DEF WriteOffer, Tasked
<1>3. PICK p : /\ p \in PlanId /\ p = ThisPlan(t) /\ Seen(t) = task[t].saw[p]
  BY <1>1, <1>2, DoesSync DEF Seen
<1>4. PICK n \in Nat, wholesale \in Int : n = task[t].product /\ wholesale = Seen(t).wholesale
  <2>1. task[t].product \in Nat /\ task[t].saw \in FeedRows
    BY <1>1 DEF CatalogueTyped, TaskRows
  <2>2. Seen(t).wholesale \in Int
    BY <1>3, <2>1 DEF FeedRows, FeedRow
  <2>. QED  BY <2>1, <2>2
<1>5. n \in Nat /\ IsOf(n, p) /\ (task[t].id # 0 => task[t].id \in SuppliesOf(n))
  BY <1>1, <1>2, <1>3, <1>4, OwnRow DEF FoundFits, Tasked
<1>6. offers \in Seq(OfferRows)
  BY <1>1 DEF CatalogueTyped
<1>7. PICK k : /\ offers' \in Seq(OfferRows) /\ k \in DOMAIN offers'
               /\ offers'[k].product = n /\ offers'[k].wholesale = wholesale
               /\ k \in DOMAIN offers => offers[k].product = n
               /\ \A j \in DOMAIN offers : j \in DOMAIN offers' /\ (j # k => offers'[j] = offers[j])
  <2>1. CASE task[t].id # 0
    <3>1. PICK k : k = task[t].id
      OBVIOUS
    <3>2. k \in DOMAIN offers /\ offers[k].product = n /\ offers[k] \in OfferRows
      BY <1>1, <1>5, <2>1, <3>1, CatalogueRows DEF SuppliesOf
    <3>3. PICK new : new = [offers[k] EXCEPT !.wholesale = wholesale]
      OBVIOUS
    <3>4. new \in OfferRows /\ new.product = n /\ new.wholesale = wholesale
      BY <3>2, <3>3 DEF OfferRows
    <3>5. offers' = [offers EXCEPT ![k] = new]
      BY <1>4, <2>1, <3>1, <3>3 DEF WriteOffer
    <3>6. /\ offers' \in Seq(OfferRows) /\ DOMAIN offers' = DOMAIN offers /\ offers'[k] = new
          /\ \A j \in DOMAIN offers : j # k => offers'[j] = offers[j]
      BY <1>6, <3>2, <3>4, <3>5, PutInto
    <3>. QED  BY <3>2, <3>4, <3>6
  <2>2. CASE task[t].id = 0
    <3>1. PICK new \in OfferRows : new = [product |-> n, wholesale |-> wholesale]
      BY <1>5 DEF OfferRows
    <3>2. offers' = Append(offers, new)
      BY <1>4, <2>2, <3>1 DEF WriteOffer
    <3>3. PICK k : k = Len(offers) + 1
      OBVIOUS
    <3>4. /\ offers' \in Seq(OfferRows) /\ k \in DOMAIN offers' /\ k \notin DOMAIN offers
          /\ offers'[k] = new
          /\ \A j \in DOMAIN offers : j \in DOMAIN offers' /\ offers'[j] = offers[j]
      BY <1>6, <3>2, <3>3, AppendedTo
    <3>. QED  BY <3>1, <3>4
  <2>. QED  BY <2>1, <2>2
<1>8. CatalogueGrows
  BY <1>7, <1>1, <1>2, CatalogueRows DEF OffersGrow, CatalogueGrows, PlansGrow, ProductsGrow,
     ShelfGrows
<1>9. PICK row : row = NextRow(t)
  OBVIOUS
<1>10. Replaces(t, row) /\ row.saw = task[t].saw
  BY <1>1, <1>2, <1>9, NextPlanRow
<1>11. task' \in [Task -> TaskRows] /\ task'[t] = row
  BY <1>1, <1>10, ReplacedTask
<1>12. CatalogueTyped'
  BY <1>1, <1>2, <1>7, <1>11 DEF CatalogueTyped
<1>13. Alone(t) => products[n].identity = Identity(Seen(t))
  BY <1>1, <1>2, <1>4 DEF SyncFits, Placed
<1>17. Alone(t) => Reprices(t)
  BY <1>7, <1>3, <1>4, <1>2, <1>13 DEF Rewritten, Renamed, Terms, Reprices
<1>14. ASSUME Alone(t) PROVE \A q \in PlanId : q = ThisPlan(t) => Copied(t, q)'
  <2>1. Terms(p) = <<wholesale, Identity(task[t].saw[p])>> /\ task[t].saw[p].wholesale = wholesale
    BY <1>1, <1>2, <1>3, <1>4, <1>14 DEF SyncFits, Stored
  <2>3. n \in OfIdentity(Identity(task[t].saw[p]))'
    BY <1>2, <1>3, <1>5, <1>10, <1>11, <1>13, <1>14 DEF OfIdentity, IsOf
  <2>4. k \in SuppliesOf(n)'
    BY <1>7 DEF SuppliesOf
  <2>5. offers'[k].wholesale = task'[t].saw[p].wholesale
    BY <1>7, <1>10, <1>11, <2>1
  <2>6. Supplied(task[t].saw, Identity(task[t].saw[p]))'
    BY <1>3, <2>3, <2>4, <2>5 DEF Supplied
  <2>7. Copied(t, p)'
    BY <1>2, <1>10, <1>11, <2>1, <2>6 DEF Copied, Terms
  <2>. QED  BY <1>3, <2>7
<1>15. TaskFits(t)' /\ FoundFits(t)' /\ SyncFits(t)'
  BY <1>2, <1>8, <1>12, <1>14, <1>17, SyncPasses
<1>16. SourcesFit' /\ ActiveOffered' /\ OrdersHold'
  BY <1>2, <1>8, RowsFit DEF CatalogueInv, SourcesFit
<1>. QED  BY <1>2, <1>8, <1>10, <1>12, <1>15, <1>16, StepFits

\* What a call that changes the shelf leaves, and what it must see to.
LEMMA ShelfWrites ==
  ASSUME CatalogueInv, NEW t \in Task, NEW row, Replaces(t, row), row.saw = task[t].saw,
         task[t].does.kind # "sync", UNCHANGED <<feed, plans, products, offers>>,
         orders' = orders, shelf' \in Seq(ShelfRows), offered' \in SUBSET (Nat \X Int),
         ShelfGrows, offered \subseteq offered', ActiveOffered', FoundFits(t)'
  PROVE  CatalogueInv'
<1>1. CatalogueTyped' /\ CatalogueGrows /\ task'[t].does = task[t].does
  BY CatalogueRows, ReplacedTask DEF CatalogueInv, CatalogueGrows, PlansGrow, ProductsGrow,
     OffersGrow, CatalogueTyped
<1>2. TaskFits(t)' /\ SyncFits(t)'
  BY <1>1, TaskStays DEF SyncFits
<1>3. SourcesFit' /\ OrdersHold'
  BY <1>1, OrdersStay DEF CatalogueInv, SourcesFit, OrdersHold
<1>. QED  BY <1>1, <1>2, <1>3, StepFits DEF Terms

LEMMA PutOnShelfFits ==
  ASSUME CatalogueInv, NEW t \in Task, PutOnShelf(t)
  PROVE  CatalogueInv'
<1>1. CatalogueTyped /\ TaskFits(t) /\ FoundFits(t) /\ shelf \in Seq(ShelfRows)
      /\ offered \in SUBSET (Nat \X Int)
  BY DEF CatalogueInv, CatalogueTyped
<1>2. /\ task[t].does.kind = "enable" /\ task[t].at = "put"
      /\ UNCHANGED <<feed, plans, products, offers, orders>>
  BY DEF PutOnShelf, Tasked
<1>3. task[t].does \in Enabling
  BY <1>1, <1>2 DEF TaskFits, DeedFits, Syncing, Ordering, Disabling, Enabling, Toggling,
                    Changing, Resting
<1>4. PICK n \in Nat, tenant \in Seller, price \in Int :
        n = task[t].does.product /\ tenant = task[t].does.tenant /\ price = task[t].does.price
  BY <1>3 DEF Enabling
<1>5. task[t].id # 0 => task[t].id \in Shelved(n, tenant)
  BY <1>1, <1>2, <1>4 DEF FoundFits, Tasked
<1>6. CASE Throws(t) /\ UNCHANGED <<shelf, offered>>
  BY <1>2, <1>6, ThrowFits DEF catalogRows
<1>7. PICK new \in ShelfRows : new = [product |-> n, tenant |-> tenant, retail |-> price,
                                      status |-> "active"]
  BY DEF ShelfRows
<1>8. ASSUME NEW i \in Nat, At(t, "done"), offered' = offered \cup {<<i, price>>},
             \/ i \in Shelved(n, tenant) /\ shelf' = [shelf EXCEPT ![i] = new]
             \/ i = Len(shelf) + 1 /\ shelf' = Append(shelf, new)
      PROVE  CatalogueInv'
  <2>1. /\ shelf' \in Seq(ShelfRows) /\ ShelfGrows /\ i \in DOMAIN shelf' /\ shelf'[i] = new
        /\ \A j \in DOMAIN shelf' : j # i => j \in DOMAIN shelf /\ shelf'[j] = shelf[j]
    BY <1>1, PutInto, <1>7, AppendedTo, <1>8 DEF Shelved, ShelfGrows
  <2>2. PICK row : row = task'[t]
    OBVIOUS
  <2>3. Became(t, row, task[t].product, task[t].id, task[t].price, "done")
    BY <1>1, <1>8, <2>2, MovedOn DEF TaskPlaces
  <2>4. Replaces(t, row) /\ row.does = task[t].does /\ row.saw = task[t].saw /\ row.at = "done"
    BY <2>3 DEF Became
  <2>5. FoundFits(t)'
    BY <1>1, <1>2, <2>4, NothingFound DEF IdFits
  <2>6. ActiveOffered' BY <1>7, <1>8, <2>1 DEF CatalogueInv, ActiveOffered
  <2>7. offered' \in SUBSET (Nat \X Int) /\ offered \subseteq offered'
    BY <1>1, <1>8
  <2>. QED  BY <1>2, <2>1, <2>4, <2>5, <2>6, <2>7, ShelfWrites
<1>9. CASE task[t].id # 0
  <2>1. PICK i \in Nat : i = task[t].id
    BY <1>1, OwnRow
  <2>2. At(t, "done") /\ offered' = offered \cup {<<i, price>>} /\ shelf' = [shelf EXCEPT ![i] = new]
    BY <1>4, <1>7, <1>9, <2>1 DEF PutOnShelf
  <2>. QED  BY <1>5, <1>8, <1>9, <2>1, <2>2
<1>10. CASE task[t].id = 0 /\ Shelved(n, tenant) = {}
  <2>1. PICK i \in Nat : i = Len(shelf) + 1
    BY <1>1
  <2>2. At(t, "done") /\ offered' = offered \cup {<<i, price>>} /\ shelf' = Append(shelf, new)
    BY <1>4, <1>7, <1>10, <2>1 DEF PutOnShelf
  <2>. QED  BY <1>8, <2>1, <2>2
<1>11. CASE task[t].id = 0 /\ Shelved(n, tenant) # {}
  BY <1>4, <1>6, <1>11 DEF PutOnShelf
<1>. QED  BY <1>9, <1>10, <1>11

LEMMA DisableFits ==
  ASSUME CatalogueInv, NEW t \in Task, Disable(t)
  PROVE  CatalogueInv'
<1>1. CatalogueTyped /\ TaskFits(t) /\ FoundFits(t) /\ shelf \in Seq(ShelfRows)
      /\ offered \in SUBSET (Nat \X Int)
  BY DEF CatalogueInv, CatalogueTyped
<1>2. /\ task[t].does.kind = "disable" /\ task[t].at = "begin"
      /\ UNCHANGED <<feed, plans, products, offers, orders, offered>>
  BY DEF Disable, Tasked
<1>3. PICK i : i \in DOMAIN shelf /\ i = task[t].does.offer
  BY <1>1, <1>2 DEF TaskFits, DeedFits, Syncing, Ordering, Disabling, Enabling, Toggling,
                    Changing, Resting
<1>4. CASE Throws(t) /\ UNCHANGED shelf
  BY <1>2, <1>4, ThrowFits DEF catalogRows
<1>5. CASE At(t, "done") /\ shelf' = [shelf EXCEPT ![i].status = "inactive"]
  <2>1. shelf[i] \in ShelfRows
    BY <1>1, <1>3, CatalogueRows
  <2>2. PICK new : new = [shelf[i] EXCEPT !.status = "inactive"]
    OBVIOUS
  <2>3. /\ new \in ShelfRows /\ new.product = shelf[i].product /\ new.tenant = shelf[i].tenant
        /\ new.status = "inactive"
    BY <2>1, <2>2 DEF ShelfRows
  <2>4. shelf' = [shelf EXCEPT ![i] = new]
    BY <1>5, <2>2
  <2>5. /\ shelf' \in Seq(ShelfRows) /\ DOMAIN shelf' = DOMAIN shelf
        /\ Len(shelf') = Len(shelf) /\ shelf'[i] = new /\ Len(shelf) \in Nat
        /\ \A j \in DOMAIN shelf : j # i => shelf'[j] = shelf[j]
    BY <1>1, <1>3, <2>3, <2>4, PutInto
  <2>6. ShelfGrows BY <2>3, <2>5 DEF ShelfGrows
  <2>7. PICK row : row = task'[t]
    OBVIOUS
  <2>8. Became(t, row, task[t].product, task[t].id, task[t].price, "done")
    BY <1>1, <1>5, <2>7, MovedOn DEF TaskPlaces
  <2>9. Replaces(t, row) /\ row.does = task[t].does /\ row.saw = task[t].saw /\ row.at = "done"
    BY <2>8 DEF Became
  <2>10. FoundFits(t)'
    BY <1>1, <1>2, <2>9, NothingFound DEF IdFits
  <2>11. ActiveOffered'
    BY <1>2, <2>3, <2>5 DEF CatalogueInv, ActiveOffered
  <2>. QED  BY <1>1, <1>2, <2>5, <2>6, <2>9, <2>10, <2>11, ShelfWrites
<1>. QED  BY <1>3, <1>4, <1>5 DEF Disable

LEMMA StockDirectFits ==
  ASSUME CatalogueInv, NEW t \in Task, StockDirect(t)
  PROVE  CatalogueInv'
<1>1. CatalogueTyped /\ TaskFits(t) /\ FoundFits(t) /\ shelf \in Seq(ShelfRows)
      /\ offered \in SUBSET (Nat \X Int)
  BY DEF CatalogueInv, CatalogueTyped
<1>2. /\ task[t].does.kind = "order" /\ task[t].at = "stock"
      /\ UNCHANGED <<feed, plans, products, offers, orders>>
      /\ task[t].does.tenant = Direct /\ IsOf(task[t].product, task[t].does.plan)
  BY <1>1 DEF StockDirect, Tasked, FoundFits
<1>3. PICK n \in Nat, price \in Int : n = task[t].product /\ price = task[t].price
  BY <1>1, OwnRow
<1>4. PICK new \in ShelfRows : new = [product |-> n, tenant |-> Direct, retail |-> price,
                                      status |-> "active"]
  BY DEF ShelfRows, Seller
<1>5. PICK i \in Nat : i = Len(shelf) + 1
  BY <1>1
<1>6. shelf' = Append(shelf, new) /\ offered' = offered \cup {<<i, price>>}
      /\ task' = [task EXCEPT ![t].id = i, ![t].at = "place"]
  BY <1>3, <1>4, <1>5 DEF StockDirect
<1>7. /\ shelf' \in Seq(ShelfRows) /\ i \in DOMAIN shelf' /\ shelf'[i] = new /\ ShelfGrows
      /\ \A j \in DOMAIN shelf' : j # i => j \in DOMAIN shelf /\ shelf'[j] = shelf[j]
  BY <1>1, <1>5, <1>6, AppendedTo DEF ShelfGrows
<1>8. PICK row : row = task'[t]
  OBVIOUS
<1>9. Became(t, row, n, i, price, "place")
  BY <1>1, <1>3, <1>6, <1>8, MovedOn DEF TaskPlaces, FindsOffer
<1>10. Replaces(t, row) /\ row.does = task[t].does /\ row.saw = task[t].saw /\ row.at = "place"
       /\ row.id = i /\ row.price = price /\ row.product = n
  BY <1>9 DEF Became
<1>11. i \in Shelved(n, Direct)'
  BY <1>4, <1>7 DEF Shelved
<1>12. task'[t].id \in Shelved(task[t].product, task[t].does.tenant)'
  BY <1>2, <1>8, <1>10, <1>11 DEF Shelved
<1>13. IsOf(task[t].product, task[t].does.plan)'
  BY <1>2, <1>3, <1>8, <1>10 DEF IsOf
<1>14. <<i, price>> \in offered'
  BY <1>6
<1>15. FoundFits(t)'
  BY <1>2, <1>8, <1>10, <1>12, <1>13, <1>14 DEF FoundFits, IdFits, Tasked
<1>16. ActiveOffered' BY <1>4, <1>6, <1>7 DEF CatalogueInv, ActiveOffered
<1>17. offered' \in SUBSET (Nat \X Int) /\ offered \subseteq offered'
  BY <1>1, <1>6
<1>. QED  BY <1>2, <1>7, <1>10, <1>15, <1>16, <1>17, ShelfWrites

LEMMA PlaceOrderFits ==
  ASSUME CatalogueInv, NEW t \in Task, PlaceOrder(t)
  PROVE  CatalogueInv'
<1>1. CatalogueTyped /\ TaskFits(t) /\ FoundFits(t)
  BY DEF CatalogueInv
<1>2. /\ task[t].does.kind = "order" /\ task[t].at = "place" /\ At(t, "done")
      /\ UNCHANGED <<feed, plans, products, offers, shelf, offered>>
      /\ task[t].does.plan \in PlanId /\ task[t].does.tenant \in Seller
  BY <1>1, DoesOrder DEF PlaceOrder, Tasked, catalogRows
<1>3. PICK new : new = [by |-> t, plan |-> task[t].does.plan, product |-> task[t].product,
                        offer |-> task[t].id, tenant |-> task[t].does.tenant,
                        amount |-> task[t].price]
  OBVIOUS
<1>4. new \in OrderRows
  BY <1>1, <1>2, <1>3, OwnRow DEF OrderRows
<1>5. orders' = orders \cup {new}
  BY <1>3 DEF PlaceOrder
<1>6. <<new.offer, new.amount>> \in offered /\ new.offer \in Shelved(new.product, new.tenant)
      /\ IsOf(new.product, new.plan) /\ new.plan \in PlanId
  BY <1>1, <1>2, <1>3 DEF FoundFits, Tasked
<1>7. PICK row : row = task'[t]
  OBVIOUS
<1>8. Became(t, row, task[t].product, task[t].id, task[t].price, "done")
  BY <1>1, <1>2, <1>7, MovedOn DEF TaskPlaces
<1>9. Replaces(t, row) /\ row.does = task[t].does /\ row.saw = task[t].saw /\ row.at = "done"
  BY <1>8 DEF Became
<1>10. CatalogueGrows
  BY <1>1, <1>2, OtherRowsStay DEF PlansGrow
<1>11. task' \in [Task -> TaskRows] /\ task'[t].does = task[t].does
  BY <1>1, <1>9, ReplacedTask
<1>12. CatalogueTyped'
  BY <1>1, <1>2, <1>4, <1>5, <1>11 DEF CatalogueTyped
<1>13. TaskFits(t)'
  BY <1>2, <1>9, <1>10, <1>12, TaskStays
<1>14. FoundFits(t)'
  BY <1>1, <1>2, <1>9, NothingFound DEF IdFits
<1>15. SyncFits(t)'
  BY <1>2, <1>11 DEF SyncFits
<1>16. SourcesFit'
  BY <1>2, <1>11 DEF CatalogueInv, SourcesFit
<1>17. ActiveOffered'
  BY <1>2 DEF CatalogueInv, ActiveOffered
<1>18. OrdersHold'
  BY <1>10, OrdersStay, <1>2, <1>6, <1>5 DEF IsOf, Shelved, OrdersHold
<1>. QED  BY <1>2, <1>9, <1>10, <1>12, <1>13, <1>14, <1>15, <1>16, <1>17, <1>18, StepFits

LEMMA CatalogueInitFits == CatalogueInit => CatalogueInv
<1>. SUFFICES ASSUME NEW plan \in CataloguePlans, CatalogueInitOf(plan) PROVE CatalogueInv
  BY DEF CatalogueInit
<1>1. /\ plan.feed \in FeedRows /\ plan.plans \in [PlanId -> PlanRows]
      /\ plan.products \in Seq(ProductRows) /\ plan.offers \in Seq(OfferRows)
      /\ plan.shelf \in Seq(ShelfRows) /\ plan.rules \in SUBSET RuleRows
      /\ \A t \in Task : DeedFits(plan.does[t], plan.shelf)
      /\ \A p \in PlanId : PlanFits(plan.plans[p])
      /\ \A i \in DOMAIN plan.products : SourceFits(plan.products[i], plan.plans)
  BY CatalogueAssumption
<1>2. /\ feed = plan.feed /\ plans = plan.plans /\ products = plan.products
      /\ offers = plan.offers /\ shelf = plan.shelf /\ orders = {}
      /\ offered = {<<i, plan.shelf[i].retail>> :
                      i \in {j \in DOMAIN plan.shelf : plan.shelf[j].status = "active"}}
  BY DEF CatalogueInitOf
<1>3. ASSUME NEW t \in Task
      PROVE  /\ task[t].does = plan.does[t] /\ task[t].at = "begin" /\ task[t].saw = plan.feed
             /\ task[t].n = 1 /\ task[t].id = 0 /\ task[t] \in TaskRows
  BY <1>1 DEF CatalogueInitOf, DeedFits, TaskDeeds, TaskRows, TaskPlaces, Identities, Codes
<1>4. task \in [Task -> TaskRows] BY <1>3 DEF CatalogueInitOf
<1>5. \A i \in DOMAIN shelf : i \in Nat /\ shelf[i].retail \in Int
  <2>1. shelf \in Seq(ShelfRows)
    BY <1>1, <1>2
  <2>2. \A i \in DOMAIN shelf : i \in Nat /\ shelf[i] \in ShelfRows
    BY <2>1
  <2>. QED  BY <2>2 DEF ShelfRows
<1>6. offered \in SUBSET (Nat \X Int)
  BY <1>2, <1>5
<1>7. CatalogueTyped
  BY <1>1, <1>2, <1>4, <1>6 DEF CatalogueTyped
<1>9. SourcesFit
  BY <1>1, <1>2 DEF SourcesFit
<1>10. ActiveOffered
  BY <1>2 DEF ActiveOffered
<1>11. OrdersHold
  BY <1>2 DEF OrdersHold
<1>12. ASSUME NEW t \in Task PROVE TaskFits(t)
  <2>1. DeedFits(task[t].does, shelf)
    BY <1>1, <1>2, <1>3
  <2>3. ASSUME task[t].does.kind = "sync"
        PROVE  1 \in DOMAIN task[t].does.order /\ 1 \in 1..(Len(task[t].does.order) + 1)
    <3>1. task[t].does \in Syncing /\ task[t].does.order # <<>>
      BY <2>1, <2>3 DEF DeedFits, Ordering, Disabling, Enabling, Toggling, Changing, Resting
    <3>2. PICK s \in Seq(PlanId) : s = task[t].does.order /\ s # <<>>
      BY <3>1 DEF Syncing
    <3>3. 1 \in DOMAIN s /\ 1 \in 1..(Len(s) + 1)
      BY <3>2
    <3>. QED  BY <3>2, <3>3
  <2>. QED  BY <1>3, <2>1, <2>3 DEF TaskFits
<1>13. ASSUME NEW t \in Task PROVE FoundFits(t)
  BY <1>3 DEF FoundFits, IdFits, Tasked
<1>14. ASSUME NEW t \in Task PROVE SyncFits(t)
  BY <1>3 DEF SyncFits, Stored, Placed
<1>. QED  BY <1>7, <1>9, <1>10, <1>11, <1>12, <1>13, <1>14 DEF CatalogueInv

LEMMA CatalogueStepFits == CatalogueInv /\ [CatalogueNext]_catalogueVars => CatalogueInv'
<1>. SUFFICES ASSUME CatalogueInv, [CatalogueNext]_catalogueVars PROVE CatalogueInv'
  OBVIOUS
<1>1. ASSUME NEW t \in Task, Syncs(t) PROVE CatalogueInv'
  BY <1>1, FetchFeedFits, ReadPlanFits, StorePlanFits, FindProductFits, WriteProductFits,
     CreateProductFits, FindOfferFits, WriteOfferFits DEF Syncs
<1>2. ASSUME NEW t \in Task, Shelves(t) PROVE CatalogueInv'
  BY <1>2, CheckMarginFits, FindShelvedFits, PutOnShelfFits, DisableFits, ToggleStatusFits,
     FeedChangesFits DEF Shelves
<1>3. ASSUME NEW t \in Task, Buys(t) PROVE CatalogueInv'
  BY <1>3, ReadActivePlanFits, EnsureProductFits, ResolveOfferFits, StockDirectFits,
     PlaceOrderFits DEF Buys
<1>4. ASSUME UNCHANGED catalogueVars PROVE CatalogueInv'
  <2>. USE <1>4 DEF catalogueVars
  <2>1. CatalogueTyped' /\ SourcesFit' /\ ActiveOffered' /\ OrdersHold'
    BY DEF CatalogueInv, CatalogueTyped, SourcesFit, ActiveOffered, OrdersHold,
           Shelved, IsOf
  <2>2. CatalogueGrows
    BY OtherRowsStay DEF CatalogueInv, PlansGrow
  <2>3. ASSUME NEW u \in Task PROVE TaskFits(u)' /\ FoundFits(u)' /\ SyncFits(u)'
    BY OtherSyncFits, <2>1, <2>2, OtherCallsFit DEF Terms
  <2>. QED  BY <2>1, <2>3 DEF CatalogueInv
<1>. QED  BY <1>1, <1>2, <1>3, <1>4 DEF CatalogueNext

\* Whatever plans, shelves and rules a shop begins with, and however syncs, tenants, orders,
\* switches and changes of plans interleave: an order's amount is a price its offer has had
\* while active, of the tenant's own shelf, for a product that has borne a specification of
\* the plan that is bought (createOrder, orders/service.ts:193-260, 401-473); and a sync that
\* had the catalogue to itself ends with each valid plan's price and specification copied
\* and its product supplied, or renamed for the plan that owns it (syncPlansFromProvider,
\* plans/service.ts:288-363, 410-520).
THEOREM CatalogueHolds == CatalogueSpec => []CatalogueIsTrue
<1>1. CatalogueInv => CatalogueIsTrue
  <2>. SUFFICES ASSUME CatalogueInv PROVE OrderAsOffered /\ SyncCopies
    BY DEF CatalogueIsTrue
  <2>1. OrderAsOffered
    BY DEF CatalogueInv, OrdersHold, OrderAsOffered, Shelved, IsOf
  <2>2. ASSUME NEW t \in Task, task[t].does.kind = "sync", task[t].at = "done", Alone(t),
               NEW p \in PlanId, Valid(task[t].saw[p])
        PROVE  LET pp == task[t].saw[p] IN
               /\ plans[p].wholesale = pp.wholesale /\ plans[p].spec = Identity(pp)
               /\ Supplied(task[t].saw, Identity(pp)) \/ GivenAway(task[t].saw, Identity(pp))
    <3>1. CatalogueTyped /\ TaskFits(t) /\ SyncFits(t)
      BY DEF CatalogueInv
    <3>2. /\ task[t].does \in Syncing /\ task[t].n = Len(task[t].does.order) + 1
          /\ DOMAIN task[t].does.order = 1..Len(task[t].does.order)
          /\ Len(task[t].does.order) \in Nat
      BY <2>2, <3>1, DoesSync DEF TaskFits
    <3>3. PICK k \in DOMAIN task[t].does.order : task[t].does.order[k] = p
      BY <2>2, <3>1 DEF TaskFits, DeedFits, Ordering, Disabling, Enabling, Toggling, Changing,
                        Resting
    <3>4. k \in 1..(task[t].n - 1)
      BY <3>2, <3>3
    <3>5. Copied(t, p)
      BY <2>2, <3>1, <3>3, <3>4 DEF SyncFits
    <3>. QED  BY <2>2, <3>5 DEF Copied, Terms
  <2>3. SyncCopies
    BY <2>2 DEF SyncCopies
  <2>. QED  BY <2>1, <2>3
<1>. QED  BY CatalogueInitFits, CatalogueStepFits, <1>1, PTL DEF CatalogueSpec
===============================================================================

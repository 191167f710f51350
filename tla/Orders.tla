--------------------------------- MODULE Orders ---------------------------------
(***************************************************************************)
(* modules/orders: customers' orders, which move along the pipeline of     *)
(* their type (order-pipelines.ts), with their timeline, the payments      *)
(* taken on them and the acknowledgement of a repair (api/routes.orders).  *)
(*                                                                         *)
(* A move or a cancellation takes its time (now() is when its transaction  *)
(* began) before it waits for the order's row, so it is two steps; the     *)
(* timeline is listed by that time and not as it was written.  Booking,    *)
(* payment and acknowledgement are one statement on the row and one step.  *)
(* A tenant may have its own stages for a type; rows of order_pipeline are *)
(* not edited by this code and stay as they start.  Lines and their prices *)
(* are one total; amounts have the four decimals the columns keep; who did *)
(* it and why is left out, except that a backward move has a reason.       *)
(***************************************************************************)
EXTENDS Integers, SequencesExt, FiniteSetsExt

CONSTANTS
  OrderTypes,   \* the types taken in this shop
  Overrides,    \* what order_pipeline may hold: the shop's own stages of each type
  Totals,       \* what an order may come to
  Instalments,  \* what may be paid at once; order_payment takes nothing but more than 0
  Tolerance,    \* the 0.01 by which the table lets an advance exceed the total
  Salespeople,  \* who may be moving or cancelling an order at once
  MaxRetail, MaxBegun, MaxPayments   \* bounds: orders, requests that take a time, payments on one

ASSUME OrdersAssumption ==
  /\ Totals \subseteq Nat /\ Instalments \subseteq Nat \ {0} /\ Tolerance \in Nat /\ MaxRetail \in Nat
  /\ IsFiniteSet(Salespeople) /\ Salespeople # {}
  /\ OrderTypes \subseteq {"booking", "custom", "repair", "wedding", "corporate"}
  /\ \A p \in Overrides, t \in OrderTypes : p[t] \in Seq([key : STRING, terminal : BOOLEAN])

VARIABLES
  pipeline,   \* order_pipeline
  retail,     \* retail_order
  timeline,   \* order_stage_event rows of each order, as they were written
  payments,   \* order_payment rows of each order
  orderClock, \* the database's clock: how many requests have taken a time
  attending   \* the request each salesperson has begun: of which order, and its time

ordersVars == <<pipeline, retail, timeline, payments, orderClock, attending>>

Retail == 1..MaxRetail

\* order-pipelines.ts; the last stage of each is terminal.
ORDER_PIPELINES ==
  [booking   |-> <<"booked", "sourcing", "ready", "delivered">>,
   custom    |-> <<"intake", "design", "crafting", "finishing", "compliance", "ready", "delivered">>,
   repair    |-> <<"received", "repair", "quality", "ready", "delivered">>,
   wedding   |-> <<"planning", "sourcing", "production", "quality", "ready", "delivered">>,
   corporate |-> <<"confirmed", "sourcing", "production", "quality", "ready", "delivered">>]

ALL_STAGE_KEYS == UNION {Range(ORDER_PIPELINES[t]) : t \in DOMAIN ORDER_PIPELINES}

firstStage(type) == ORDER_PIPELINES[type][1]

\* The shop's own stages of a type, or the built-in ones.
pipelineFor(type) ==
  IF pipeline[type] # <<>> THEN pipeline[type]
  ELSE LET stages == ORDER_PIPELINES[type] IN
       [n \in DOMAIN stages |-> [key |-> stages[n], terminal |-> n = Len(stages)]]

stageIndex(type, stage) ==
  LET at == {n \in DOMAIN ORDER_PIPELINES[type] : ORDER_PIPELINES[type][n] = stage} IN
  IF at = {} THEN 0 ELSE CHOOSE n \in at : TRUE

\* By the built-in order of stages, whatever the shop's own is.
stageMoveDirection(type, from, to) ==
  LET a == stageIndex(type, from)
      b == stageIndex(type, to)
  IN IF a = 0 \/ b = 0 THEN "invalid" ELSE IF a = b THEN "same" ELSE IF b > a THEN "forward" ELSE "backward"

RetailRows == [status : {"none", "active", "completed", "cancelled"}, type : OrderTypes \cup {"none"},
               stage : ALL_STAGE_KEYS \cup {"none"}, total : Nat, advance : Nat, balance : Int, acknowledged : BOOLEAN]

NoRetail == [status |-> "none", type |-> "none", stage |-> "none", total |-> 0, advance |-> 0, balance |-> 0,
             acknowledged |-> FALSE]

\* With whether the stage is terminal, which the pipeline says and not the row.
StageEvents == [at : Nat, from : ALL_STAGE_KEYS \cup {"none"}, to : ALL_STAGE_KEYS,
                direction : {"forward", "backward", "same"}, reason : BOOLEAN, terminal : BOOLEAN]

Attendings == [order : {0} \cup Retail, at : Nat]
NotAttending == [order |-> 0, at |-> 0]

OrdersTypeOK ==
  /\ retail \in [Retail -> RetailRows]
  /\ \A o \in Retail : timeline[o] \in Seq(StageEvents) /\ payments[o] \in Seq(Nat)
  /\ orderClock \in Nat /\ attending \in [Salespeople -> Attendings]

OrdersInit ==
  /\ pipeline \in Overrides
  /\ retail = [o \in Retail |-> NoRetail]
  /\ timeline = [o \in Retail |-> <<>>]
  /\ payments = [o \in Retail |-> <<>>]
  /\ orderClock = 0
  /\ attending = [s \in Salespeople |-> NotAttending]

\* recordStage: a row of the timeline; `at` defaults to now().
recordStage(o, at, from, to, direction, reason, terminal) ==
  timeline' = [timeline EXCEPT ![o] = Append(@, [at |-> at, from |-> from, to |-> to, direction |-> direction,
                                                 reason |-> reason, terminal |-> terminal])]

\* A request's transaction begins.  It names an order somebody has seen, hence one there is.
BeginOrderRequest(s, o) ==
  /\ attending[s].order = 0
  /\ retail[o].status # "none"
  /\ orderClock < MaxBegun
  /\ orderClock' = orderClock + 1
  /\ attending' = [attending EXCEPT ![s] = [order |-> o, at |-> orderClock + 1]]
  /\ UNCHANGED <<pipeline, retail, timeline, payments>>

\* It is refused, or there is nothing to move, or it fails.
DropOrderRequest(s) ==
  /\ attending[s].order # 0
  /\ attending' = [attending EXCEPT ![s] = NotAttending]
  /\ UNCHANGED <<pipeline, retail, timeline, payments, orderClock>>

\* It has the row's lock, and commits.
Attended(s, o) ==
  /\ attending[s].order = o
  /\ attending' = [attending EXCEPT ![s] = NotAttending]
  /\ UNCHANGED <<pipeline, payments, orderClock>>

\* It starts at the built-in first stage, also where the shop has its own stages; what is
\* paid at booking is a payment like any other.  createOrder compares it with the total
\* unless that is 0; the table compares it always, with its tolerance.
createRetailOrder ==
  \E type \in OrderTypes, total \in Totals, advance \in Instalments \cup {0} :
  \E o \in {o \in Retail : retail[o].status = "none" /\ \A p \in 1..o - 1 : retail[p].status # "none"} :
    /\ total > 0 => advance <= total
    /\ advance <= total + Tolerance
    /\ orderClock < MaxBegun
    /\ orderClock' = orderClock + 1
    /\ retail' = [retail EXCEPT ![o] = [NoRetail EXCEPT !.status = "active", !.type = type, !.stage = firstStage(type),
                    !.total = total, !.advance = advance, !.balance = total - advance]]
    /\ recordStage(o, orderClock + 1, "none", firstStage(type), "forward", FALSE, FALSE)
    /\ payments' = IF advance > 0 THEN [payments EXCEPT ![o] = <<advance>>] ELSE payments
    /\ UNCHANGED <<pipeline, attending>>

\* Any order moves but a cancelled one: a completed one too, although order-pipelines.ts:19
\* has it that nothing moves out of a terminal stage.
Movable_Cancelled(o) == retail[o].status # "none"

Movable(o) == retail[o].status \notin {"none", "cancelled"}

\* To any stage of the pipeline in force; backward only with a reason.  A terminal stage
\* completes the order, leaving one does not take that back.
moveStage(s, o) ==
  /\ Attended(s, o)
  /\ Movable(o)
  /\ \E n \in DOMAIN pipelineFor(retail[o].type), reason \in BOOLEAN :
       LET row == retail[o]
           target == pipelineFor(row.type)[n]
           direction == stageMoveDirection(row.type, row.stage, target.key)
       IN
       /\ direction \in {"forward", "backward"}
       /\ direction = "backward" => reason
       /\ retail' = [retail EXCEPT ![o].stage = target.key, ![o].status = IF target.terminal THEN "completed" ELSE @]
       /\ recordStage(o, attending[s].at, row.stage, target.key, direction, reason, target.terminal)

cancelRetailOrder(s, o) ==
  /\ Attended(s, o)
  /\ retail[o].status \notin {"none", "cancelled"}
  /\ recordStage(o, attending[s].at, retail[o].stage, retail[o].stage, "same", TRUE, FALSE)
  /\ retail' = [retail EXCEPT ![o].status = "cancelled"]

balanceAfter(o, amount) == retail[o].total - (retail[o].advance + amount)

\* Of any order, also one cancelled; the table alone limits it.
recordPayment(o) ==
  \E amount \in Instalments :
    /\ retail[o].status # "none"
    /\ Len(payments[o]) < MaxPayments
    /\ retail[o].advance + amount <= retail[o].total + Tolerance
    /\ payments' = [payments EXCEPT ![o] = Append(@, amount)]
    /\ retail' = [retail EXCEPT ![o].advance = @ + amount, ![o].balance = balanceAfter(o, amount)]
    /\ UNCHANGED <<pipeline, timeline, orderClock, attending>>

\* Once; of any order.
acknowledge(o) ==
  /\ retail[o].status # "none" /\ ~retail[o].acknowledged
  /\ retail' = [retail EXCEPT ![o].acknowledged = TRUE]
  /\ UNCHANGED <<pipeline, timeline, payments, orderClock, attending>>

\* GET /api/orders/:id lists the timeline by `at`: the rows above the n-th one written.
ListedAbove(o, n) == {m \in DOMAIN timeline[o] : timeline[o][m].at < timeline[o][n].at}

\* board: the active orders of a type by stage, in the columns of its pipeline.
board(type) ==
  [n \in DOMAIN pipelineFor(type) |->
    {o \in Retail : retail[o].type = type /\ retail[o].status = "active" /\ retail[o].stage = pipelineFor(type)[n].key}]

OrdersNext ==
  \/ createRetailOrder
  \/ \E s \in Salespeople :
       \/ DropOrderRequest(s)
       \/ \E o \in Retail : BeginOrderRequest(s, o) \/ moveStage(s, o) \/ cancelRetailOrder(s, o)
  \/ \E o \in Retail : recordPayment(o) \/ acknowledge(o)

-------------------------------------------------------------------------------
\* "Every move - forward or backward - is written to the timeline.  Backward moves demand
\* a reason" (orders.service.ts:5-7).  However its rows are listed, the timeline tells where
\* an order is, the one stage it came to once more than it left, and its status: cancelled
\* by a row that says so, otherwise completed once a stage it came to was terminal,
\* wherever it was moved since, otherwise active.  As the rows were written, one after the
\* other while the order was locked, each starts where the one before ended and nothing
\* follows a cancellation.  They are listed by when each request began: the booking on
\* top, and above any row no more rows written after it than there were others at work,
\* so that with one salesperson the list is as it was written.  What the order says was
\* paid is what its payments add up to, also the one at booking, and with the balance
\* makes the total, which it exceeds by the table's tolerance at most; the board of the
\* built-in stages shows every active order.
TimelineTells ==
  \A o \in Retail : retail[o].status # "none" =>
    LET rows == timeline[o]
        written == DOMAIN rows
    IN
    /\ \A stage \in ALL_STAGE_KEYS :
         Cardinality({n \in written : rows[n].to = stage}) - Cardinality({n \in written : rows[n].from = stage})
           = IF stage = retail[o].stage THEN 1 ELSE 0
    /\ retail[o].status = IF \E n \in written : rows[n].direction = "same" THEN "cancelled"
                          ELSE IF \E n \in written : rows[n].terminal THEN "completed" ELSE "active"
    /\ \A n \in written : rows[n].direction = "backward" => rows[n].reason
    /\ rows[1].from = "none" /\ rows[1].to = firstStage(retail[o].type) /\ ListedAbove(o, 1) = {}
    /\ \A n \in 2..Len(rows) : rows[n].from = rows[n - 1].to /\ rows[n - 1].direction # "same"
    /\ \A n \in written : Cardinality(ListedAbove(o, n) \ 1..n) < Cardinality(Salespeople)
    /\ retail[o].advance = SumFunction(payments[o])
    /\ retail[o].balance = retail[o].total - retail[o].advance /\ retail[o].balance >= -Tolerance
    /\ pipeline[retail[o].type] = <<>> /\ retail[o].status = "active" => o \in UNION Range(board(retail[o].type))
===============================================================================

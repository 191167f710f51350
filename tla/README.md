# Verification of the karatsetu backend

The repository is the backend of a jewellery shop's billing and stock system: a TypeScript
server over PostgreSQL, one schema per business (tenant), several branches and tills per
business. This directory holds TLA+ models of it, TLC configurations that check them on small
instances, and proofs checked by TLAPS. Paths below are relative to `src/`.

The server keeps almost nothing in memory. A request opens one transaction
(`src/core/db/client.ts`, READ COMMITTED), reads and writes rows, and commits or rolls back.
So the state of every model is the committed rows plus what each open transaction holds, and
the question asked of nearly every component is the same: what can other transactions commit
between something a request reads and something it writes, and does `for update`, an upsert or
a unique key prevent the harm? The other question is what long sequences of legal documents,
each of which undoes or corrects another, leave behind.

## 1. Inventory

| Component | State | Operations | What makes it correct |
|---|---|---|---|
| Document numbering (`modules/numbering`, `api/routes.master-setup.ts`) | `numbering_series`: next number and period, a shared row and one per branch that has its own | `nextDocumentNumber(s)`, called inside the caller's transaction; series settings | no number twice, no hole, restart with the period, every till served |
| Stock movements (`modules/inventory/stock.service.ts`) | `stock_movement` journal, `stock_balance`, movements' reversals | `recordMovements`, `reverseMovementsFor`, `rebuildBalances` | balance = sum of the journal, no reversal twice, never below zero, no deadlock |
| Sales (`modules/sales`) | bills with lines and tenders, returns, receipts, approval memos; piece statuses | `checkout`, `cancelInvoice`, `createSalesReturn`, `createReceipt`, `cancelReceipt`, `createMemo`, `returnMemoPieces` | a piece is in one place, dues agree with the ledger, credit and cash limits, memos close |
| Ledger (`modules/accounts`) | vouchers and lines, account and party balances | `postVoucher`, `reverseVoucher`, `partyBalance` | each voucher balances, a reversal undoes it once |
| Purchases (`modules/purchase`) | orders, inwards with lots, bills, returns, settlements | the life of an order; inward, bill, return, settlement and their cancellation | an order's status agrees with its inwards; what a supplier is owed is what the documents say |
| Tagging (`modules/tagging`) | lots and the pieces made from them, HUIDs, labels | tag, close a lot, assign a HUID, print | a lot's weight and cost are its pieces and its rest; one HUID per piece |
| Transfers, counts, adjustments (`modules/inventory`) | documents and piece statuses | send, receive, cancel; start, scan, post; adjust, re-weigh | a piece on the road arrives once; a count leaves the books as the shelf |
| Old gold (`modules/oldgold`) | intakes and articles, melt batches, credit | desk and counter intake, cancel, payout, melt, refine and receive | metal and money are accounted for; an article is melted once |
| Orders (`modules/orders`) | order, stage history, payments | create, `moveStage`, cancel, pay, acknowledge | the timeline tells the order's stage and its status, in whatever order it is listed, and the payments what was paid |
| Identity (`modules/identity`) | users, refresh tokens, per-process access cache | sign in, refresh, sign out, new password, roles | a token rotates once, a way in that was closed stays closed, lockout |
| Platform (`modules/platform`) | support sessions, tenants, tenant roles | start and end support; provisioning; staff and roles | access only within its time; one admin per branch |
| Tenancy (`modules/tenancy`) | branches and locations, enabled modules with a cache | add and change branches, set modules | allowance kept, one active branch left |
| Pricing (`modules/pricing`, `modules/masters/pricing`) | rules, rates, GST versions | which rule wins, price of a line, discount over lines, versions | deterministic choice, parts sum to the whole, the past stays |
| Configuration (`core/config`) | settings with a 60 s per-process cache | get, set | a read is at most a minute stale |
| Transactions (`core/db/client.ts`) | the request's transaction and tenant | begin, join, tenant switch, commit, rollback | one transaction per request, one tenant |
| Schema sync (`core/db/schema`) | the tables themselves | compared and changed when an instance starts | nothing saved is lost, the release's rows are taken |
| Girvi and schemes (`api/routes.commercial.ts`) | loans and receipts; plans, accounts, installments | sanction, repay; enrol, collect | totals tell the receipts |
| Lists (`api/crud.ts`) | none of their own | paging by cursor or offset | nothing skipped or given twice |
| HTTP routes, validation, printing (`src/api`, `core/http`) | none | parse, authorise, call a service | see 6 |
| Karigar | tables only | none written yet | nothing to model |

**How they interact.** A bill (`checkout`) takes a number from numbering, writes movements and
balances through stock, sets piece statuses, settles memo lines, posts a voucher and, when old
gold comes in, makes an intake - all in one transaction. Cancelling runs the same components in
another order. Purchases, transfers, counts, tagging and old gold all reach stock through
`recordMovements`. Pricing, configuration and access are read by the rest and never wait for it.
There are no queues or callbacks; components share rows, and each instance of the server keeps
three caches.

**What is hard.** The interleavings of two transactions at the statements that do not lock what
they read (memo lines, credit, cash of the day, tagged lots, a running count, other admins, the
branch allowance, a HUID elsewhere); lock order between batches; a document dated before a period
boundary and numbered after it; sequences of legal documents that undo each other in an unusual
order (cancel after return, cancel a receipt after a return, cancel a bill off a closed memo,
receive goods while another count is open); rollback after numbers were taken; releases of
different age starting against one database; caches filled while what they hold is changing.
`PROJECT.json` lists every such hazard at its line.

## 2. Modules

| Module | Models |
|---|---|
| `GaplessNumbers` | what numbering promises, with no transactions in it |
| `Numbering` | numbering inside transactions: row lock, making the series on first use, periods, bulk takes, rollback |
| `StockMovements` | journal and balances at the grain of single row locks: post, cancel, rebuild |
| `PieceCustody` | what billing promises about who has a piece, with no documents in it |
| `Sales` | the counter: bills, returns, receipts and memos, with pieces, dues and credit |
| `Shelf` | pieces and balances as documents of goods see them: a batch of movements is one step |
| `Purchases` | orders, inwards, tagging, bills, returns and settlements, on `Shelf` |
| `Floor` | transfers, counts, adjustments and re-weighing, on `Shelf` |
| `Goods` | `Purchases` and `Floor` on the same pieces and balances |
| `OldGold`, `Orders`, `Sessions`, `Caches`, `Staff`, `Schema`, `Pricing`, `GstRates`, `Branches`, `NumberSeries`, `Support`, `Schemes`, `Girvi`, `Lists`, `Tags` | one part each that keeps to its own tables |
| `Office` | those fifteen, one at work in each behaviour |
| `Money` | rounding and percentages (`core/util/decimal.ts`) |
| `NumberingProofs`, `StockMovementsProofs`, `SalesProofs`, `GoodsProofs`, `OfficeProofs` | theorems about those five |
| `BooksProofs` | that the balances of `Goods` are the goods and an inward's cost is shared out, on top of `GoodsProofs` |
| `AccountsProofs` | the inductive invariants of half the parts of `Office`; `OfficeProofs` has the other half |
| `SumTheorems` | sums over finite sets: one more, one less, one changed, split in two |
| `MCNumbering`, `MCStockMovements`, `MCSales`, `MCGoods`, `MCOffice` | the instances TLC checks |

Definitions carry the source's names where there is one to carry (`nextCounter`, `periodKey`,
`cancelInvoice`, `closeMemoIfDone` as `closedBy`); `PROJECT.json` maps each to its lines. A
definition named `X_Something` is a wrong variant of `X` - a plausible bug - kept to show that
some property would notice it; none of them is part of a `Next`.

A request is one step when all it decides by is read under locks it keeps, or is protected by an
`update ... where` or a unique index. It is two steps when something it read without a lock can be
changed by others before it writes: the first step (`Begin...`) reads, the second writes, and a
third (`GiveUp`, `Abandon`, `LeaveDesk`, ...) is its rollback.

### Numbering

`row` is `numbering_series` as committed, `lock` who holds each row's lock (or has inserted the
row and not committed), `till` each till's call, `issued` the numbers on committed documents.
The steps of a till are the statements of `nextDocumentNumber`: `Begin` (the caller settled the
document's date), `Find` (`select ... for update`, which waits), `FindNothing` and `Create`
(`insert ... on conflict do nothing`, then the second find), `Commit`, `Rollback`. The counter's
update is not an action of its own: until the transaction ends nobody sees it, because nobody
else can have the row. `Commit` needs the numbers to be fresh, for documents' number columns are
unique; a till with a used number can only roll back. Dates are month counts, because nothing
finer decides a period. Documents may be dated back (`AnyDate`).

### StockMovements

A row of `stock_balance` is a number, its place in the order the service sorts by. An upsert
takes its rows one at a time in that order (`LockRow`), reading each row's latest committed value
once it has the lock. `StartPost` and `StartCancel` begin a document and its first batch;
`NextBatch` ends a batch, refuses a row that would fall below zero, and starts the second batch,
for documents that have one; `Commit` shows everything at once. `StartCancel` locks the document
(`select ... for update`) before it looks at the status. `StartRebuild`, `DeleteRow`, `Refill` and
`CommitRebuild` are the delete and insert-select of `rebuildBalances`. `Rollback` is anything that
fails, also the database breaking a deadlock.

### Sales

One shop on one business day, money in small whole numbers, one price per piece. A request whose
outcome rests on something it read without a lock takes two or three steps:

- `checkout`: `ResolveLines` (memo lines read by the statement that then waits for the pieces),
  `TakePayment` (pieces locked and checked; credit, cash of the day and the memos' other lines read),
  `SaveBill`;
- `createReceipt`: `BeginReceipt` (cash of the day), `SaveReceipt` (bills locked, oldest first);
- `cancelReceipt`: `BeginCancelReceipt` (receipt locked, credit read), `SaveCancelReceipt`;
- `returnMemoPieces`: `BeginBringBack` (memo, lines and pieces locked, other lines read),
  `SaveBringBack`.

`cancelInvoice`, `createSalesReturn` and `createMemo` decide on what they have locked and are one
step each. `Free` and `FreeMemos` stand for waiting on a piece's or a memo's lock. A `Rollback` is
possible at every intermediate step.

`Sales` is mapped onto `PieceCustody` by what the DOCUMENTS say about a piece (`DocumentedPlace`),
not by the piece's own status, so `CustodySpec` checks that documents alone never let a customer
be billed what another has on approval, and that undoing a sale puts a piece back where that sale
took it from. `PieceAccounted` ties the piece's own status to the documents.

### Purchases, Floor and Goods

`piece` is `stock_piece` and `stock` the balance per item and location, of one item tracked piece by
piece and one lot item; fine weight goes with net weight. A voucher is what it does to the
supplier's balances in rupees (2000) and fine metal (2010) and to a few accounts of the shop.
An inward has one line, an order two, since what a line received decides the order's status.

`Purchases` decides by rows it does not lock in tagging (`BeginTag`/`tagPieces`: the lot's rest),
cancelling an inward (`BeginCancelInward`/`cancelInward`: tagged and returned goods), sending back
untagged pieces and settling in metal; those are two steps. Everything else, `createInward` with
its bill when the two come together, `createBill`, `cancelBill`, `closeLot`, `paySupplier`,
`cancelSettlement` and so on, is one. `rollUpOrder` is the statement as written, with the inner
join that leaves out a line all of whose receipts are cancelled.

`Floor` has two steps for opening a count (is one running?) and posting it (`countResult` before the
pieces are locked); `sellPiece` and `undoSale` are checkout and `cancelInvoice` as far as a piece's
place and the balances notice.

`Goods` composes the two. A behaviour keeps to one member of `MCBounds`: `Buying` (inward, bill,
tagging, returns), `Ordering` (an order and two inwards), `Settling` (metal and rupees paid and
returned), `Billing` (two suppliers, two bills), `Racing` (two clerks at everything), `Moving`,
`Adjusting`, `Counting` (transfers, re-weighing, write-offs, two counts), `Whole` (goods that are
bought, tagged, sent, sold and sent back) and
`Recalling` (a piece counted at the branch it is on the road to). Each is small and one run covers all
of them.

What tagging, cancelling an inward and posting a count promise holds while one request at a time is
served on either side (`Alone` in `BooksAgree` and `CostShared`); the other properties are checked
with two clerks as well.

### Office

`part` says which of fifteen modules is at work; they neither call nor wait for each other, so
nothing is learnt from their interleavings and the others keep their first state. Where the code
lets two of the same kind of people meet, there are two.

| Part | Property | Two steps because |
|---|---|---|
| `OldGold`: intake at the desk or with a bill, payout, cancellation, melt, refine, receive | `GoldAccounted` | payout, cancellation and melt look at each other's rows without locks |
| `Orders`: booking, stages of the built-in or the shop's own pipeline, payments, acknowledgement | `TimelineTells` | a move or a cancellation takes its time when it begins (`BeginOrderRequest`) and may wait for the order's row after that; the timeline is listed by that time (`ListedAbove`) |
| `Sessions`: one user's sign-ins, lockout, refresh with grace, copies, sign-out, new password | `WaysInClosed` | what ends sign-ins waits for tokens it saw earlier; a password is compared between two statements |
| `Caches`: settings, modules and access on two instances | `ServedFresh` | a load reads, others change and drop, the load is kept |
| `Staff`: creating, switching off, roles, branches, what a role allows | `StaffTells` | other admins are only looked at; a role in use is counted |
| `Schema`: releases starting against one table, rows saved in between | `SchemaPlan` | never: an advisory lock |
| `Pricing`: formulas saved, rates changed, lines, bills and orders quoted | `PricedRight` | never: a quote reads one snapshot each |
| `GstRates`: versions added and deleted, days passing | `GstStands` | only the open version's row is locked |
| `Branches`: a shop made, branches added, changed, switched off, deleted | `BranchAllowance` | allowance, code and last active branch are read without a lock |
| `NumberSeries`: a series edited, branches opened, numbers taken, years passing | `NumbersOnce` | never: it holds the shared row |
| `Support`: sessions started and ended, requests on their way, modules switched | `SupportWindow` | a request is let in before it is served; two close a session |
| `Schemes`: plans, enrolment, collection | `PaymentsTell` | never: `update ... where status <> 'paid'` |
| `Girvi`: sanction and repayment | `PaymentsTell` | never: the loan is locked |
| `Lists`: a screen paging while rows change | `ListsWhole` | each page is a transaction |
| `Tags`: tagging with HUIDs, replacing one, printing, write-off, sale and its undoing | `TagsTell` | a HUID elsewhere is looked for without a lock; a count writes off what was missing when it looked |

Pricing and the old gold's rounding are arithmetic on small numbers with the code's rounding; which
rule wins is stated a second time in the property (`RuleWins`) as the documents say it, by
comparing, not by scoring.
`Sessions`' clock ticks are the 30 seconds of grace, or the 15 minutes of a lock where a behaviour
looks at wrong passwords; `Caches`' minute is two ticks; `Support`'s tick is five minutes; `GstRates`
and `Schemes` count days and months.

## 3. Runs

| Run | Instance | Shows |
|---|---|---|
| `Numbering_tills` | two tills, a branch with its own series and one on the shared series that may not exist yet, March and April 2026 in any order, one or two numbers a call, numbers up to 2 | `NoHoles`, `CounterAgrees`, `FreshInPeriod`, the refinement `GaplessSpec`, and under fairness `Served` |
| `Numbering_rollover` (violated) | same, documents dated on the day they are begun, numbers up to 3 | `HandedOutFresh` fails, see 5 |
| `Stock_documents` | three sessions, two rows, a purchase of one of each, two bills for the same piece | `BalanceIsJournal`, `CancelledOnce`, `NeverBelowZero`, `NoDeadlock`, with cancellations and rebuilds in between |
| `Stock_exchange` (violated) | bills that take old gold in and goods out | `NoDeadlock` fails, see 5 |
| `Sales_counter` | one till, a named customer and the walk-in, two pieces at 1 and 2, two bills, one receipt, cash, bank, credit and old gold of 0 or 2, a cash limit of 3 | `OwedAgrees`, `CreditCovered`, `CashWithinLimit` over every sequence of bills, returns, cancellations and receipts |
| `Sales_tills` | two sessions, two named customers, two pieces, two bills, one memo, nothing paid | `PieceAccounted` and `CustodySpec` over every interleaving |
| `Sales_memo`, `Sales_stale`, `Sales_refund` (violated) | two sessions and one memo; two sessions, two customers and two memos; one session and one bill | `MemoAccounted`, `BilledToHolder`, `RefundWithinBill` fail, see 5 |
| `Goods_documents` | a branch with a shop and a safe, another with a shop, a transit location each, two pieces, one lot item, the kinds of `MCBounds` (337,000 states) | `BooksAgree`, `OnTheRoad`, `CostShared`, `OrderFollows`, `BillTogether`, `OwedByDocuments`, `CountSettles` |
| `Goods_recount` (violated) | one session, a count, two pieces, sales and their undoing | `BooksAgree` fails, see 5 |
| `Office` | the fifteen parts (659,000 states) | the property of each part, as above |

**Why the bounds are enough to be interesting.** Two tills meet at every lock, and two dates lie on
either side of the one boundary the code knows; a third number in `Numbering_rollover` lets a
period be entered, left and entered again. Three sessions in `Stock_documents` let a rebuild run
against a post and a cancellation, or two cancellations race while a bill waits. In `Sales`, two
bills share a customer's credit, a receipt covers one bill and part of the next, a return leaves
part of a bill, and the two pieces are of different price so that a partial return and an amount
tell apart. `Amounts` are {0, 2} against a limit of 3: one payment is allowed, two are not.
`Sales_tills` sets all money to zero because custody does not depend on it; its sessions and its
named customers are interchangeable, which is the symmetry it declares.

In `Goods`, `Rings` cost 8 for 3 grams, which does not divide, so the last piece must take what is
left; `Bangle` has stones and is bought in fine metal; `Bar` is sold by weight. Two inwards on an
order of two lines cover a line received twice, once and not at all; two returns of one inward
exhaust it in either order. Three transfers let a piece go out, come back and go again.

In `Office`: three tokens in two families are a sign-in, its successor and a second sign-in; two
wrong passwords lock; three GST versions are a past, a present and a future one, or two futures;
orders come to 0 or 2, instalments and the table's tolerance are such
that one can be overpaid and one of nothing booked with something paid, and two salespeople take four times
between them, so that a row written second can be listed first; three branches against an allowance of two, and codes that clash (changed only
where one manager is at work, since the unique index decides between two); a limit of 3 for cash of 2;
three releases of a table that add, retype, tighten, drop and bring back columns; three listed
rows on pages of one or two; two HUIDs for two pieces, each of which may change twice. Formulas
cover each basis and scope, the rate sheets leave gaps, and the bills have discounts that round to
either side.

Deadlock is checked in the numbering and stock runs; the others stop when all documents the
bounds allow are used up, so they do not check it.

**Bounds, by name.** `MaxCount`, `MaxNumber` (numbers in one call, highest number), `Dates`;
the finite `Docs` of `StockMovements`, each posted at most once; `MaxBills`, `MaxReceipts`,
`MaxMemos` in `Sales`; `MaxOrders`, `MaxInwards`, `MaxBills`, `MaxReturns`, `MaxSettlements`,
`MaxTransfers`, `MaxCounts` in `Goods`, lowered per kind by `MCBounds`; in `Office` `MaxIntakes`,
`MaxBatches`; `MaxRetail`, `MaxBegun` (requests that take a time), `MaxPayments`; `MaxFamilies`, `MaxTokens`, `MaxClock`;
`MaxChanges`, `MaxMinutes`; `MaxUsers`, `MaxVersion`; `MaxRows`, `MaxBoots`; `MaxFormulas`;
`MaxVersions`, `LastDate`; `MaxBranches`, `MaxRenamers`; `MaxYear`, `MaxCounter`, `MaxDocuments`, `MaxEdition`;
`MaxSupport`, `MaxDuration`, `MaxFiveMinutes`; `MaxAccounts`; `MaxLoans`, `MaxReceipts`; `MaxListed`;
`MaxAssignments`, `MaxLabels`.

**Fairness.** Only `Numbering` assumes any. A transaction ends, because a request runs to its end
or its connection is lost and the database rolls back: weak fairness of `FindNothing`, `Commit` and
`Rollback` together. PostgreSQL queues the waiters of a row lock, so a waiter is not passed over
for ever by a lock that keeps coming free: strong fairness of `Find` and `Create`. Nothing
obliges a till to begin. The rest of the system has no background work: nothing expires, retries or
settles by itself, and what people may do next they need not do, so no liveness is claimed of it.

**Mutants.** Every property of a passing run has a wrong variant of a mapped definition under
which TLC finds that property violated: a find without the lock, a counter that survives a
rollback, balances read and written back, a cancellation without `for update`, rows locked in the
order the document lists them, a memo line that counts for any customer, a bill cancelled under
a receipt, an inward cancelled under its bill, a settlement reversed without its rupees, a lot closed
without its pieces, a transfer received twice, a cursor on the column without the id, a HUID looked
for only among pieces in stock, and so on. They are listed in `PROJECT.json`.

## 4. Proofs

`NumberingProofs` proves, for any number of tills, branches, dates and numbers per call:

- `TypeCorrect`: `Spec => []TypeOK`;
- `NoHolesEver`: `Spec => []NoHoles`;
- `FreshInPeriodEver`: `Spec => []FreshInPeriod`;
- `ImplementsGapless`: every behaviour of `Numbering` is one of `GaplessNumbers`.

From the named assumptions of `Numbering` only: `NoTill` is no till, branch series and the shared
one differ, dates are months past year 0, the null period is not a number.

`NoHoles` is not inductive: that committed numbers have no hole says nothing about the number a
till is about to commit. The inductive invariant `IInv` adds `Held` (a till past its find holds
its series' lock, and its first number is still what the committed row gives) and `CounterAgrees`
(in the period the row stands in, saved numbers are exactly 1..next-1). From these `CommitBlock`
concludes that whenever a commit goes through, the numbers saved before were exactly
1..first-1, in the row's period by `CounterAgrees`, in another period because the counter restarts
at 1 and the unique column leaves only the empty set. Both `NoHoles'` and the step of
`GaplessNumbers` follow from that lemma. The abstract specification's bound on saved numbers is
the concrete one.

`StockMovementsProofs` proves, for any sessions, rows and documents with any changes per row:

- `TypeCorrect`, `BalanceIsJournalEver`, `CancelledOnceEver`, `NeverBelowZeroEver`.

From the named assumptions that rows are numbered, `Nobody` is no session, `NoDoc` no document, and
changes are whole numbers. None of these properties is inductive: they speak of committed rows,
and what a commit brings depends on what its session gathered since it began. `IInv` adds, per
session (`SessionInv`): `Owns`, it holds its document, which is as it found it (so two
cancellations cannot both be under way); `Counted`, a locked row's new weight is its committed
weight plus the movements inserted less what the batch has still to add, and movements on rows
not locked are all still to come (so at commit the locked rows change by exactly the movements,
and the others not at all); `InHand`, a new weight below zero is one the current batch has yet to
be refused for; `Refilled`, nothing reached a rebuild's rows since it summed the journal; and
`Released`, an idle session holds nothing. `OtherSession` shows that a step of one session leaves
another's invariant alone, since it changes neither the other's locks, nor its locked rows, nor its
document; so each action is looked at for its own session only.

- `NoDeadlockEver`: no two sessions wait for each other, for documents whose movements are one batch
  (`OneBatch`) and finitely many rows (`FewRows`), which is what `stock.service.ts:96-97` says of documents;
  `Stock_exchange` shows it false of two batches. The invariant is `Ascending`: a session with rows left
  to lock holds only rows below all of them. So whoever waits for a row waits for a session that waits,
  if it does, for a higher one, and the one waiting highest waits for nobody.

`CounterAgreesEver` is likewise there for `Numbering`: in the period the row stands in, committed numbers
are 1..next-1.

### Sales

`SalesProofs`, from the named assumptions of `Sales` (finitely many pieces with prices, no customer is the
walk-in, whole amounts), has three inductive invariants, each on top of the one before:

| Theorem | For | Invariant |
|---|---|---|
| `TypeCorrect`, `OwedAgreesEver` | any sessions | `BooksInv` |
| `CashWithinLimitEver`, `CreditCoveredEver` | at most one session (`OneAtATime`) | `TillInv` |
| `PieceAccountedEver`, `CustodyImplemented` (`Spec => CustodySpec`) | one session, or at most one memo (`Undisturbed`) | `CustodyInv` |

`BooksInv` says what each document is made of: a receipt's amount is its advance and what it put to
bills; a bill nothing came back from was charged its balance and what receipts cleared of it; what a customer
owes is the sum of the balances of their bills; and a receipt is cancelled by one request at a time. That
the sums agree is not inductive without it: cancelling a receipt gives bills back what the receipt says it put
to them, and a return takes off what the bill has left.
`TillInv` adds that today's cash is the sum of today's tenders and receipts within the limit, that credit
plus what cancelled gold took back of it is not negative, and that what a request checked before its last
step is still so when it takes it.
`CustodyInv` adds that each piece is told by exactly one document, that a memo line tells the bill that
stands on it, and that requests under way hold disjoint pieces.

The hypotheses are what the code supports, not what the proof needs to be easy. Two tills do overrun the
cash limit and the credit (section 5, "One at a time"), so no theorem without `OneAtATime` is true; two
sessions and two memos do bill a customer for a piece another has, which is `Sales_stale`, so none without
`Undisturbed` is. `Sales_tills`, two sessions and one memo, is inside it.

### Goods

`GoodsProofs` is about any number of pieces, places, clerks, sessions and documents. It starts from what the
modules assume of their constants: a transit location belongs to its branch and every counter's branch has
one (`PlacesAssumption`); a behaviour starts with pieces in stock at counters and nothing on the road
(`ShelfAssumption`), whose weights and cost are the opening balances, and a lot item has no piece count;
what is bought weighs no less than its stones, tagged goods come as at least one piece, and amounts and
weights are whole (`PurchasesAssumption`, `FloorAssumption`).

`GoodsInv`, types and what rows say of each other, is inductive by itself; the rest rests on it:

| Theorem | Invariant | What it adds |
|---|---|---|
| `GoodsInvHolds`, `GoodsTyped` | `GoodsInv` | who cancels an inward or returns from it has it to themselves and it stays posted, and an inward being cancelled is on no bill unless it is direct; a piece from a lot has its lot; metal at a counter is not negative, so a lot movement's average cost is defined |
| `OrdersFollowEver` | `OrderInv` | an inward's order is there before it; nothing was received on an order that is not |
| `BillsTogetherEver` | `BillInv` | a direct purchase is alone on its bill; what was cancelled for itself was on no bill |
| `OwedByDocumentsEver` | `BillInv`, `OwedInv` | a bill is of its inwards' supplier, and what went back had come in |
| `CostSharedEver` (`BooksProofs`) | `CostInv` | a lot's cost is its pieces, what went back untagged and what is left; what the one clerk is about to take is still there; a piece not yet tagged is of no lot |
| `CountSettlesEver` | `CountInv` | a clerk in the middle of something was let in; with one session and no clerk, what a count is set against is still what the books say |
| `OnTheRoadEver` | `RoadInv` | a piece is on one open transfer; on the road it is not sold; a piece in stock has no sale left to undo; what a count holds missing is off the road unless two sessions are at work |

`OrderFollows` needs to know what `rollUpOrder` recomputes and what it leaves: a line with receipts that are
all cancelled keeps its old sum, so the proof goes line by line (`RollUpFacts`, `OrderRolled`) and shows that a line whose last
receipt is cancelled is the only one that may part from its receipts. `OwedByDocuments` is four sums per
supplier; each action changes one row of one of them (`SumTheorems`), and each voucher moves the balance by
what that row then says. For `OnTheRoad` every action is put down as one of a few things that may happen
to a piece (`Stays`, `Leaves`, `Appears`, `SaleUndone`, `Misses`, ...), and what those do to `RoadInv` is
shown once. That a count does not write off a piece on the road is not true of two sessions (section 5),
and the property says so: with one session the missing pieces are off the road because nothing else moves
between looking and posting.

`BooksAgreeEver` (`BooksProofs`) is for bounds that do not both count and sell, as all of `MCBounds` are;
with both, `BooksAgree` is false of one session (`Goods_recount`). A balance cannot be followed from
the property alone, so `BooksInv` tells it twice:

| Part | What it says |
|---|---|
| `RowsTold` | a location's row of tagged goods is the pieces it answers for (`HeldAt`) and what waits there (`WaitingAt`), both added up over all there is room for; on the road always, at counters one request at a time |
| `Covered`, `Uncounted` | no counter's row of pieces is below zero; nothing that moves metal counts pieces |
| `PlacesTold` | pieces in stock are at counters, sold ones where they were sold, pieces on the road where their transfer goes (with no counts) |
| `MissingTold` | alone, what a count is about to write off is where the count is |
| `LotsTold` | an open lot's inward stands and nothing of it was taken off; a closed one has nothing left, or a rest it was closed with; what a clerk saw of a lot is still so |

Each action is shown once to move pieces, what waits and the balance by the same amounts (`RowTold`,
`ToldMoves`); papers that touch nothing tagged are one case (`Quiet`). `NoneShort`, that no balance is
below zero, needs no one at a time: counters are guarded by `recordMovements` (`Covered`), and the road has what
its transfers carry.

### The parts of Office

A step of `Office` is a step of one part and leaves the others alone (`PartsStep`), and its initial states
are initial for each (`PartsStart`); so each part's invariant is proved by itself and is one of the system.

| Theorem | Invariant | What it adds |
|---|---|---|
| `PaymentsTellEver` | `SchemesInv`, `GirviInv` | a row that is due has nothing paid on it, and rows fall due a month apart, give or take the month's end; an account's totals are the sums of its rows, a loan's those of its receipts |
| `TimelineTellsEver` | `OrdersInv` | what the property says of every order, with its stage one of the built-in ones and nothing before the order is created; each request on an order began after its booking, and the rows that overtook one, with the requests still to do so, are fewer than the salespeople |
| `NumbersOnceEver` | `SeriesInv` | a document of this format is from another year, where numbers restart, or below what its counter gives next |
| `ServedFreshEver` | `CachesInv` | what is kept was so at most a tick before it was kept and is no older than its key; what was read and is not kept yet was read in this tick or the one before |
| `TagsTellEver` | `TagsInv` | pieces are tagged in their order, the HUIDs of one request differ, and a piece whose HUID is being replaced stays in stock |
| `GstStandsEver` | `GstInv` | no two versions start on a day, one that ended did so the day before another starts; who closes or deletes has the rows to end or open; with one editor versions do not overlap one that ended |
| `WaysInClosedEver` | `SessionsInv` | a sign-in that was ended has a live token only where another was replaced within the grace before; tokens a request that ends sign-ins did not see come from one replaced just now; passwords being compared count with the failures |
| `StaffTellsEver` | `StaffInv` | with one operator what was checked is still so when the change is made; a user is changed by one request at a time |
| `BranchAllowanceEver` | `BranchesInv` | branches and those on their way in are within the allowance, or what there were, and one for each other manager |
| `GoldAccountedEver` | `OldGoldInv` | see below |
| `ListsWholeEver` | `ListsInv` | a screen was given nobody untouched twice and nothing past its cursor; of the rows still as they were, those it was not given are past it; by offset, undisturbed, the first rows of the list |
| `PricedRightEver` | `PricedInv` | formulas and rates are ones the shop may have; see below |
| `SupportWindowEver` | `SupportInv` | a request let in came within its session's time, before its first closing, and writes only where that is allowed |

`GstStands` names what holds of any number of editors and what of one; `GstInv` has both, and the second half
needs the first: that the version before the one deleted is opened again, and not one a second deletion
has already opened, is what `AsksTold` says of two editors at once.

`OldGoldInv` starts from `OldGoldAssumption`: articles have whole weights, a purity of 1 to 100 and a loss of
at most half, some purity has a rate, rates are whole; from these `ValueLineTyped` has every article worth
nothing or more, whatever the rounding. Its parts:

| Part | What it says |
|---|---|
| `IntakesTold`, `BatchesTold` | an intake pays no more than it is worth, a cancelled one nothing; an article's batch stands; metal not back from a refiner cost nothing yet |
| `VisitsTold` | an intake is at one desk at a time and still posted; an article is at one desk and still unmelted, though its intake may by now be cancelled |
| `MetalTells`, `CreditTells` | `MetalAccounted` and `PaidFromCredit` summed over every row there may be, those that do not stand counting nothing |
| `OneDeskTold` | with one desk, what a payout, a cancellation or a melt looked at before it locked anything is still so |

Each action changes one intake (`IntakeChanges`) or one batch with its articles (`BatchStep`, for every way
articles are put into a batch or taken out); `MetalFromTold` goes from the sums over all rows back to
those the property adds up. The last part is what two desks break: a cancellation and a melt of one intake.

`ListsInv` starts from `ListsAssumption`: a page has a row at least (the code clamps `limit`), ids are finitely
many, and ids and names are numbered as they compare, so that a cursor of no row is before every row. That the rows of a list can be put in order, and in one
way only, is shown by induction over their number (`RowsOrdered`, `OneTurn`).

`PricedRight` speaks of the last quote alone, so its invariant adds little; the work is in what the engine's
operators return. They start from `PricingAssumption`: formulas are finitely many, their scopes name the five
levels, weights, rates and what is taken off have no sign, and amounts are whole.

| Lemmas | What they say |
|---|---|
| `RoundedNear`, `RoundedWithin` | a rounding takes or adds at most half of what it divides by, and keeps the order of amounts |
| `SharesAddUp`, `ShareBetween`, `TwoShares` | the shares of a discount are the discount, each within a rounding per part of its proportion; of two parts not below nought none gives more than it is, the paisa left over included |
| `SlabTypes`, `OneSlab`, `SlabsCharge` | slabs that meet end to end have one slab for each weight, and their own parts added up are each unit at its slab's rate |
| `LevelsWeigh`, `SpecificWeighs`, `FirstWins` | adding up 16, 8, 4, 2 and 1 compares scopes as going level by level does, so the formula `pick` puts first is the one `Wins` describes |
| `PriceAdds`, `LineTakesShare`, `OrderedPriced` | a line at the counter, a line of a bill with its share and a line of an order come to their parts and taxes |

A wastage of a negative percentage is a charge below nought, and then making gives more of a discount than it
is: `BillAddsUp` bounds shares by their charges only where both are not below nought.

Sums over finite sets come from the community modules, whose definition is recursive, and the library's
induction theorems cannot be used (they take an operator). `SumTheorems` does the induction over sets of
numbers (the numbers up to which a fact holds) with the library's well-founded order, once, for
everything above.

### What stays with TLC

- `Served`: it needs fairness and `ENABLED`, which the prover does not reason about.
- `SchemaPlan`, and the types of `Schema` in `OfficeTypeOK`: a plan computed over a sequence of any length, which is an induction over data.
- Everything the runs expect to be violated is shown by a trace.

## 5. Where the code and its words part

Each of these is a run expected to fail, with the trace as evidence.

- **`Numbering_rollover`.** `numbering.service.ts:4-6` says two tills never get the same number.
  `nextCounter` (line 67) restarts whenever the period differs, also backwards: a bill dated
  31 March that waits while another till opens the new year flips the series back, restarts at
  1 and is handed a number the old year used. The unique column refuses it, so the bill fails, and
  nothing is duplicated: `FreshInPeriod` and `NoHoles` still hold, and are proved.
- **`Stock_exchange`.** `stock.service.ts:96-97` says documents touching the same rows never
  deadlock. The order is fixed within one call of `recordMovements`; a bill with old gold makes two
  and its cancellation makes them in the opposite order. PostgreSQL aborts one of the two.
- **`Sales_memo`.** `tests/trade.test.ts:275` and `:460` expect a memo closed when its last piece
  is settled. `closeMemoIfDone` (`sales.service.ts:775`) looks for other lines without a lock; two
  sessions settling the last two lines at once both see another line out, and the memo stays open.
- **`Sales_stale`.** `tests/trade.test.ts:264`: pieces on approval can be billed to that customer only.
  `resolveLines` (`sales.service.ts:168`) locks the piece but takes its memo line from the snapshot
  its statement began with. If the piece comes back and goes out to another customer before the
  lock is had, the old line still says "on memo for you". It takes two memos in a row; with one,
  `PieceAccounted` and `CustodySpec` hold at two tills, which is what `Sales_tills` checks.
- **`Sales_refund`.** `sales.service.ts:536` says value comes back in proportion. A return that
  lists a line twice pays it back twice, while the line counts as returned once.

- **`Goods_recount`.** `stock.service.ts:55` keeps the balance of a location in step with the pieces
  there. `postCount` (`count.service.ts:125-160`) moves a piece scanned here that the books have
  elsewhere, also when it was sold since the scan; when that sale is undone the piece is back at the
  counted location while its balance goes back to the other.

The rest was met while modelling; the property named allows exactly the case described, so that it
holds of the code as it is, or holds only for as many at once as is said.

*One at a time.* `CashWithinLimit` (`checkCashLimit`, `sales.service.ts:90`, sums what is committed and
locks nothing of the customer) and `CreditCovered` (`checkout` and `cancelReceipt` read the credit
without locking the customer) hold for one till. `BooksAgree` and `CostShared` hold for one clerk
(two tag more than arrived, or tag while the inward is cancelled) and one session (two counts of a
location can be open; a piece moved since a count began is taken from the wrong location), and
`CountSettles` for one session while nobody buys. In
`GoldAccounted`, that an intake is not both cancelled and melted, and its credit not both paid out and
spent, holds for one desk. `SupportWindow` counts a support session as over from its first closing: of
two operators who close it at once (`support-session.service.ts`) the second overwrites `ended_at` with a later
time, so that the row may say a session was open when a request was refused (`firstEnd`). `OneAdmin` holds for
one operator, "the last active branch cannot be
deactivated" (`routes.master.ts:47`) and the exact allowance for one manager, and the rest of
`GstStands` for one editor.

*Documents.*
- Cancelling a bill takes back the whole credit of its old gold although what the bill left over may
  have been spent (`CreditCovered`, `GoldAccounted`).
- `postCount` (`count.service.ts:161-164`) writes off every piece that was missing when it looked, also one
  another session has dispatched since; the transfer still lists it, and brings it back to stock when it
  lands (`OnTheRoad`).
- `postCount` (`count.service.ts:156`) gives every piece listed as scanned here its new location, also one that
  is on the road by then: the piece says it is at the counter, the transfer and the balances have it on the
  road until it lands (`BooksAgree`, and `Recalling` among the bounds).
- `rollUpOrder` (`purchase.service.ts:280-296`) does not set back a line all of whose receipts are
  cancelled: the order stays closed with nothing received (`OrderFollows`). It also reopens an order
  that was closed by hand.
- `createReturn` (`purchase.service.ts:530-538`) takes GST off whatever was billed, also when the bill
  charged none (`:439-443`); cancelling the bill afterwards reverses the whole GST.
- A return of all untagged pieces with less than all their weight closes the lot and leaves the rest
  of the weight on the books; `closeLot` sees no rest when more net weight was tagged than arrived;
  a closed lot's difference is taken off again when its inward is cancelled (`Untagged`).
- `order-pipelines.ts:19` says of terminal stages that "nothing moves out of them"; `moveStage` checks the
  order's status only, and only for a cancelled one (`Movable`, `orders.service.ts:287`). The code breaks that
  sentence, and `TimelineTells` does not claim it: it says what becomes of an order that is moved out of a
  terminal stage, namely that it stays completed at whatever stage it is moved to, and off the board. There is
  no run of its own for it: one `moveStage` after another shows it.
- The timeline is listed by `at` (`routes.orders.ts:134`), which is when the transaction began
  (`orders.schema.ts:197`) and not when it had the order's row. Of two moves under way at once the one that
  began first may be written second, and then the list has them the other way round: its rows do not follow
  one from the other, and the last may not be the order's stage. `TimelineTells` therefore says of rows as they
  were written that each starts where the one before ended, of the list how many may stand out of order, and
  the order's stage and status without regard to any order. Two rows of the same microsecond, which the
  database may list either way, are left out.
- `recordPayment` compares nothing; the table lets an advance exceed the total by 0.01 (`orders.schema.ts:128`,
  `Tolerance`), so that a balance may be that much below nought. `createOrder` (`orders.service.ts:152`) does not
  compare the advance of an order that comes to nothing, and the same tolerance applies to it. Payments are taken
  on cancelled orders, and an order starts at the built-in first stage also when the shop has its own.
- A loan that is closed still takes repayments (`routes.commercial.ts:303` announces a refusal), and what
  is owed goes below zero when too much is paid; a penalty above the amount makes a negative
  interest part. Enrolling on the 29th to 31st skips a month and doubles the next.

*Ways in.* A token replaced less than 30 seconds before a sign-out still yields a live one
(`auth.service.ts:261`, `SignedOutStays`). A login under way during a password change keeps its
sign-in. Its second look at the user and the issue of its tokens (`auth.service.ts:164-178`) are one step of
`Sessions`: a user switched off between the two gets tokens, which refreshing refuses while they are off. A second admin of a branch can be created or switched on (`OneAdmin`), which only a change
of role refuses. Platform operators' lockout is never kept: the update is rolled back by the throw
(`platform-auth.service.ts:80-91`; not modelled). `createBranch` and `createTenantUser` write their
audit entry in a transaction after the change's own.

*Masters.*
- After the middle of three GST versions is deleted two are open, and every later one of that code
  is refused (`GstStands`); `pricing.schema.ts:24` calls a null end "still in force".
- A branch that took numbers from the shared series before it had its own counts again from 1 and
  meets its own numbers (`NumbersOnce`); switching restarting off after a restart lets numbers
  without a year come again (`edition`). `routes.master-setup.ts:133` protects the shared row only.
- The only active branch can be deleted, although not switched off. A deleted branch's code is free
  by `assertBranchCodeFree` and refused by the unique index.
- `Pricing` takes stones' and other weight together (`engine.ts:155-158` subtracts both from the gross weight and
  uses neither by itself).
- `masters/pricing/engine.ts:2` says bills, orders, old gold and the preview agree to the paisa; orders
  use `modules/pricing/pricing.service.ts`, with GST on the whole line and other rounding. A bill discount of
  a few paise over four or more like lines can give the first a negative share, and one within
  rounding of all charges over five a share above its charges, which is then refused; the lists of
  `MCBills` have up to three lines.
- A sync never makes an existing column NOT NULL, even when it could; a foreign key no longer declared
  stays, a check that quotes no values is compared by name only, and a unique index no longer wanted
  stays though it refuses rows (`WithoutLeftovers`, `WithoutRules`).
- Lists by offset order by a column that may tie, so a page can skip or repeat rows (`ListsWhole`).
- `loadUserAccess` reads a user and their grants in two statements, which may see different moments.
- `tagging.schema.ts:49` says a HUID is
  retired when its piece is melted; melting and writing off retire nothing. A bill of a piece that a
  count wrote off cannot be cancelled once its HUID is on another piece.

## 6. Not modelled, and why

- **No state of their own**: request parsing, permissions, printing layout and reports, the generated
  client, the command-line seed.
- **Karigar**: tables and a list of masters; no operation issues work yet.
- **Left out of modelled parts**: the walk-in customer exists from the start, so the race of two first
  walk-in bills is not shown; items sold by weight at the counter; PAN capture; voucher rows and the
  accounts a document does not turn on; tag designs; a piece's own prices; operators' own sign-in;
  a new shop's other defaults; settings' list and validation; several tables and their order in a
  sync; stones' price lists. Expired tokens are never cleared away.
- **Locks as locks**: only `Numbering` and `StockMovements` model waiting. Elsewhere a request that
  decides under locks it keeps is a step, so a deadlock among other rows
  (`sales.service.ts:755`) shows only as the rollback each request may take.
- **Negative stock allowed by setting** (`stock.service.ts:62`): `NeverBelowZero` is about shops that do
  not allow it, the default; `BalanceIsJournal` does not depend on it.
- **Nested transactions and switching tenant inside one** (`core/db/client.ts`): no service nests writes
  in a way that commits apart, except the audit entries above.

## 7. Plan

What there is left to do, in this order:

1. The ledger's vouchers and nested transactions as a layer of their own.

`Served` and everything under fairness stays with TLC.

# A TLA+ model of the Sentry POS back end

Sentry POS is the server of a multi-tenant point of sale: a NestJS application
over PostgreSQL (through Prisma).  Owners run businesses with branches; every
branch has paired terminals that sell, refund and keep shifts; owners manage the
catalogue and read analytics in a web portal; an administrator provisions and
suspends owners.  This directory models the server's concurrent protocols in
TLA+, checks them with TLC on small instances, and proves the most important
results for every instance with TLAPS.

All source paths below are relative to `src/` of this development, which is the
repository root (so the services live in `src/src/...`).  Line-by-line
correspondence is in `PROJECT.json` under `map`.

1. [The system](#1-the-system)
2. [The modules](#2-the-modules)
3. [What is abstracted](#3-what-is-abstracted)
4. [The runs](#4-the-runs)
5. [Where code and documents disagree](#5-where-code-and-documents-disagree)
6. [Fairness](#6-fairness)
7. [The proofs](#7-the-proofs)
8. [What is only model-checked, and what is not modelled](#8-what-is-only-model-checked-and-what-is-not-modelled)
9. [Plan](#9-plan)

## 1. The system

### 1.1 Where the concurrency is

One Node.js process runs many requests at once; a request loses control at each
`await`, and every database access is one.  PostgreSQL runs at READ COMMITTED.
There is no in-memory state shared by requests except a few caches whose life is
one request.  So two requests interfere only through committed rows, through row
locks taken by `SELECT ... FOR UPDATE` or by an `UPDATE`, and through unique
indexes.  One peculiarity makes the hard part harder: `prisma/scoped-prisma.ts`
sends WRITES of a business transaction to the transaction's connection, but runs
scoped READS on the base client, outside it.  A read inside a transaction is
therefore a read of committed state that nothing holds afterwards, unless the
code asks for a lock with raw SQL.  Every handler is modelled on that footing: a
sequence of committed reads, and a commit.

Clients are outside the model's control: they resend drafts (an answer may be
lost), they send corrected drafts under the id of a refused one, and two
terminals or a terminal and the portal act at once.

### 1.2 Components

| Component | State it keeps | Operations | Hard because | What makes it correct |
|---|---|---|---|---|
| POS sales (`pos/sales`) | sales, payments, sale movements, `terminals.receipt_seq`, `branch_stock.qty` | `completeSale`, `voidSale`, `refundSale`, lists | idempotent resends, oversell race, rollback on a unique violation, reversal racing reversal; row locks taken one by one inside a transaction that needs a second connection | no oversell; stock taken and returned once; answers that tell the truth; terminal statuses; every request is answered |
| POS shifts (`pos/shifts`) | shifts, cash movements, `expected_cash` | open, cash in/out, totals, close | reads and a write with no transaction and no lock between | one open shift per terminal; sales only in an open shift; the recorded expected cash is right |
| Stock (`portal/stock`, `pos/stock`) | `branch_stock`, `stock_movements` | receive, adjust, lists | first level of a key created by two requests, absolute adjust from a level read before | a level and its movements part only at an adjust that overwrites a change |
| Tenancy choke point (`prisma/scoped-prisma.ts`) | audit rows, per-request scope cache | every scoped read, create, update, delete | memoised scope sets go stale inside a request; before-read then write by id | a request changes only its tenant's rows; every change is logged |
| Businesses, branches, discounts, categories, products, modifier groups (`portal/*`) | the tenant tables | create, update, remove, set groups | check-then-write across several rows; cap counted under a lock; soft-deleted rows restored | references stay inside one business; cap holds; SKUs unique |
| POS catalogue pull (`pos/catalog`) | none | pull | several separate reads, without a common snapshot, make one answer | the answer names only groups it carries (a filter at its end) |
| Activity log (`portal/activity-log`) | none | list | depends on what the choke point stamped | shows a business its own events |
| Owners (`admin/owners`) | `owners.status`, `suspended_at`, `max_businesses` | create, suspend, hard-suspend, reinstate, set cap | create is two transactions; status read-then-write | `suspended_at` set exactly while suspended |
| Invites and resets (`auth/invite`) | `auth_tokens`, passwords, the demo business | accept, request and confirm reset | two copies of one token | single use; an activation is whole |
| Pairing (`pos/pairing`) and terminals (`portal/terminals`) | terminals, codes, device tokens | sign in, pair, unpair, remote unpair | code computed from a count, retried on collision | codes never used twice; giving up is earned |
| Terminal guard (`common/guards`) | none | admit a POS request | status may change after the guard has looked | a suspended owner's terminal finishes its shift and starts none |
| Cart totals (`common/totals` and the sale path) | none | recompute a cart | floating point, rounding, which discount a line takes | the parts make the total; a discount never costs the customer |
| Money reports (`portal/analytics`: overview, sales, products, profit, leaks, tax, dashboard) | none | one query each | business-day boundaries per business, figures reconstructed from what a sale stores, reports that must agree | reports over the same sales agree with each other and with the engine |
| Inventory reports (`portal/analytics/inventory`, drawer over/short, the dashboard's shifts) | none | movements, shrinkage, stock on hand, low stock, over/short, open and unclosed shifts | three tables that tell one story, NULL variants and costs, pages cut out of a merge over businesses | the pages are the ledger; the shelf is accounted for; every shift is in one place |
| Login, sessions, TOTP, lockout, mail, configuration, error filters | credentials, sessions | - | authentication and wiring | not a subject of this development |

### 1.3 How the components meet

* A terminal's request passes `TerminalGuard` (owner status, open shift), then a
  POS service, then the choke point, then PostgreSQL.
* A sale reads the catalogue, the terminal's open shift and the receipt counter;
  it locks `branch_stock` rows, and writes levels, movements, the sale and the
  counter in one transaction.  A close reads sales and cash movements and writes
  the shift.  A reversal locks the sale row, reads the open shift and the sale's
  movements, and gives stock back through the levels that receive and adjust also
  write.  These four meet on the same rows: `PosBranch` composes them.
* Portal services share the choke point and its tables: `PortalCatalog` composes
  them, together with the admin's change of the cap and the terminal's pull.
* Provisioning, invites, suspension, pairing and the guard share `owners.status`,
  `auth_tokens` and `terminals`: `PosAccounts` composes them.
* The terminal computes a cart's totals and the server recomputes them before it
  posts the sale.  The reports never see the cart: they work from the rows the sale
  left, and what the rows leave out they reconstruct.  `SalesReports` composes the
  engine, the row and the reports.
* Deliveries, counts, sales, reversals, trashed products and shifts leave rows in
  five tables, and the inventory pages read across them: `InventoryReports` composes
  these writers, one request after another, with the pages.
* Below all of them are PostgreSQL's lock table and Prisma's pool of connections.
  `RowLocks` composes the four kinds of stock transaction with both, one step per lock.

The first three compositions share no row that one of them changes and another one's
properties speak of, with one exception named in section 3 (an open shift, cut down to
one bit in `PosAccounts`).

`PROJECT.json` lists, under `hazards`, each place where this code can go wrong in
a way a test would hardly reach, with the properties that would show it.

## 2. The modules

```
PosDb ── PosSales ─┬─ PosStock ──┐
Sums ──────────────┴─ PosShifts ─┴─ PosBranch ─┬─ MCBranch                      (TLC)
                        SaleBook ═ INSTANCE ═══╡
                                               └─ PosBranchProofs                (TLAPS)
RowLocks ─┬─ MCRowLocks                                                         (TLC)
          └─ RowLocksProofs                                                     (TLAPS)
ScopedPrisma ── PortalCatalog ─┬─ MCCatalog                                     (TLC)
                               └─ PortalCatalogProofs                           (TLAPS)
PosAccounts ─┬─ MCAccounts                                                      (TLC)
             └─ PosAccountsProofs                                               (TLAPS)
Sums ─┬─ CartTotals ─┬─ CartDraft ── MCCart                                     (TLC)
      │  BusinessDay ┴─ ReportScope ─┬─ SalesReports ── ReportAgreement ── MCReports (TLC)
      │                              └─ InventoryReports ── InventoryAgreement ── MCInventory (TLC)
      └─ SumProofs ─┬─ CommonProofs ─┬─ ReportProofs                            (TLAPS)
                    │                └─ InventoryProofs                         (TLAPS)
                    └─ PosBranchProofs
```

`EXTENDS` runs from left to right.  `ReportScope` extends `CartTotals` and `BusinessDay`,
`PosShifts` also `Sums`; `CommonProofs` extends `CartDraft` and `ReportScope`,
`ReportProofs` extends `ReportAgreement`, and `InventoryProofs` extends `InventoryAgreement`.  Operators marked "A bug:" or "mutant:" in the modules are never used by a specification; each is a plausible mistake in the
definition it stands beside, and section 4 says what they are for.

### 2.1 The branch

**`PosDb`** is the committed database of one branch.  `rows`, `qty` are
`branch_stock`; `movedQty` is the sum of `stock_movements.qty_delta` per key;
`saleDraft`, `saleStatus`, `refundShift` are the rows of `sales`; `saleMoves`
and `backMoves` are the quantities of the movements whose `ref_id` is the sale;
`shiftState`, `drawer`, `expected` are `shifts`; `receiptSeq` is
`terminals.receipt_seq`.  A key is a product with a variant or none.
`Clashes(d)` is the set of stored sales that would violate a unique index on the
insert of `d`: `sales.id`, `(terminal_id, receipt_no)` and `sale_payments.id`.

**`PosSales`** is `SalesService`.  A post is a process with a program counter:

| Step | Code | May end in |
|---|---|---|
| `Submit` | a client sends, or resends, a draft | |
| `FastPath` | the idempotency look-up before any transaction | `replay` |
| `CheckShift` | the draft's shift is the terminal's open shift | `shiftClosed` |
| `Refuse` | lines, discounts, totals or payment are invalid | `invalid` |
| `LockStock` | `lockStock`: every row of every product with a tracked line, `FOR UPDATE` | (waits) |
| `LookAgain` | the second look-up of the id, under the lock | `created` |
| `ConflictPass` | the wanted quantities against the levels the lock read | `conflict` |
| `ReadSeq` | the receipt counter, without a lock | |
| `CommitSale` | levels, sale, movements, counter; commit | `created` |
| `CommitClash` | a unique violation; roll back | |
| `ExplainClash` | look the id up again, outside any transaction | `replay`, `receiptTaken` |
| `AbortPost` | crash, timeout, lost connection: roll back anywhere | `error` |

A reversal is `BeginReversal`, `LockSale` (row lock and status test),
`ReadOpenShift` (a void needs the sale's own shift open at this terminal, a
refund charges that shift if it is), `CommitVoid` or `CommitRefund` with
`RestoreStock`, which mirrors the sale's stored movements (and not the product's
`trackStock` flag of today: the code reads none).

**`PosStock`** is `receive` and `adjust` with `withLevelCreateRetry`:
`ReadLevels`, `RetryStock` (a row to be created exists by now: up to three
attempts), `CommitReceive` (increment of the row as it is), `CommitAdjust` (sets
the level; the movement's delta comes from the level read before).

**`PosShifts`** is `ShiftsService`: `CheckNoneOpen` then `CreateShift`;
`FindForCash` then `AddCash`; `FindForClose`, `ReadSold`, `ReadRefunds`,
`CloseShift`.  No lock and no transaction spans two of them, which is what the
code does.

**`PosBranch`** interleaves the four kinds of request.  `OneAtATime` says whether
a terminal waits for its answer before it sends again.  It defines the safety
properties, the action properties, liveness, the inductive invariant and the
refinement mapping.

**`SaleBook`** is what the sale handlers promise with everything else hidden: a
shelf that never goes below zero and a book in which a sale is entered whole and
once, with a receipt number and a payment of its own, and reversed at most once,
whole.  `PosBranch` implements it under `shelf <- qty`, `entry <- saleDraft`,
`status <- saleStatus`, `charged <- refundShift`: requests, locks, retries and
the movement tables are hidden, and every step of every interleaving is one
entry, void, refund, restock or recount, or a stutter.

**`RowLocks`** is the same four transactions (post, reversal, delivery, adjust) at
the grain of one row lock, over a pool of connections.  What the rows contain is
left to `PosBranch`; here a request is the set of rows it wants and the order in which
its code takes them:

| Step | Code |
|---|---|
| `Send`, `Begin` | a job arrives; `BEGIN` takes a connection; `lockStock` selects the rows that are committed now |
| `Pick` | the next lock: a post's rows `ORDER BY product_id, variant_id` and then its unique values and its terminal's counter; a reversal's sale first and then its movements in any order; a delivery's lines in any order.  A statement that is preceded by a scoped read needs a second connection (`OnTx` says which are not) |
| `Grant` | the lock is free |
| `Clash` | what it would insert is there by now: a delivery or an adjust runs again from the start, at most twice (`withLevelCreateRetry`), anything else is over |
| `Refuse`, `Commit`, `Abort` | the code's own refusals under the first locks; commit; crash |
| `Victim`, `Expire` | PostgreSQL ends one transaction of a circle of waits; Prisma's timeout ends a transaction whose read finds no connection |

### 2.2 The catalogue

**`ScopedPrisma`** is the choke point over a generic table of rows: `up` is the
scope column or the parent, `ref` the other foreign key, `st` whether the row is
live or soft-deleted.  It defines the scope filter (`TenantWhere`), the memoised
scope sets (`AllowedBusinessIds`, `AllowedBranchIds`, `Remember`), the policing of
creates, the audit stamp (`StampBusiness`) and what an activity log shows.

**`PortalCatalog`** runs requests over it.  A request is a job - create, update,
remove, set a product's groups, pull, change the cap - and each action is one
committed read or the final commit: `Own`, `Load`, `Category`, `Unique`,
`Police`, `Insert`, `Before`, `Update`, `Groups`, `ReadJoins`, `UpdateJoins`,
`ReadDelete`, `Bury`, `LockOwner`, `CountBusinesses`, `InsertBusiness`, `SetMax`,
`LogMax`, `Pull`, `PullProducts`, `PullGroups`, and `Abort` anywhere.

### 2.3 The accounts

**`PosAccounts`** holds `owners.status` and `suspended_at` (as null, within
the 24 hours, or past them), passwords, demo businesses, `auth_tokens`, terminals
with their codes and whether a shift is open.  Its jobs are the admin's create,
suspend, hard-suspend and reinstate; accepting an invite, requesting and
confirming a reset; pairing and both unpairings; and a POS request that opens or
closes a shift behind the guard.  `DayPasses` and `TokenExpires` are time.

### 2.4 Totals and reports

**`Sums`** is what the code adds up: a `reduce` over a list or a `SUM` over rows is
`SumOf` over a set, and a column is a function with its `Total`.

**`CartTotals`** is the totals engine (`common/totals`), a function of a cart and
the business's rates, and `buildSaleData`, which makes the rows of a sale from it.
It has no state.  Money is whole centavos and quantity whole thousandths, as in
the code; what the code computes in IEEE doubles and rounds, the model computes
in integers and rounds, with one difference kept: `halfUpDouble` (section 3).

**`CartDraft`** is a cart under the edits of a cashier, with the totals it carries
after each edit (the server recomputes and compares them, `sales.service.ts:157-173`);
its specification is `DraftSpec`.

**`ReportScope`** is the scope of a query: which businesses and branches of an owner
it reaches, each on its own business day (`resolve`, `resolveToday`, `refused`), and
the server's clock.

**`BusinessDay`** is `business-day.ts` and the day, week and hour expressions
of the report SQL, which compute the same thing a second time.

**`SalesReports`** is the sales table of one owner and every money report over it:
`completeSale` appends the row `buildSaleData` makes, `voidSale` and `refundSale`
change its status, `Tick` is the clock; `overview`, `heatmap`, `trend`, `patterns`, `breakdowns`,
`tax`, `profit`, `zeroSales`, `productTrend`, `leaks` and `dashboard` are the answers.  The
sales protocol itself is `PosSales`; here a sale is its committed row.

**`ReportAgreement`** states what these answers promise of each other.

**`InventoryReports`** is the other half of the tables: `branch_stock`,
`stock_movements`, costs, sales by quantity and shifts, changed by `receive`, `adjust`,
`remove`, `open`, `close`, `complete`, `voidSale`, `refundSale` and read by
`movementsPage`, `shrinkage`, `onHand`, `lowStockCountSql`, `overShort`, `openShifts`,
`unclosedShifts` and a till's `listSales`.  Requests follow one another here; how they
interleave is the subject of `PosBranch` and `RowLocks`.

**`InventoryAgreement`** states what these pages promise of each other and of the
tables they read.

### 2.5 Model-checking modules

`MCBranch`, `MCRowLocks`, `MCCatalog`, `MCAccounts`, `MCCart`, `MCReports` and
`MCInventory` only give values to
constants and define symmetry sets.

## 3. What is abstracted

*Data.*  A sale draft is its id, terminal, shift, receipt number, payment id,
wanted quantity per tracked key and cash total: what the handlers compare and
add.  Names, prices and texts are not kept.  Whether a draft's recomputed totals
match is the nondeterministic `Refuse`, because what it reads changes under other
requests.  SKU and barcode follow the same path; one of them is kept.

*Steps.*  These are the places where the model takes several accesses as one:

* in `PosBranch` taking several row locks is one step, so a lock wait is seen and a
  circle of waits is not; `RowLocks` takes them one by one and leaves out the contents;
* `restoreStock` is one step, at the commit.  Its writes are increments by what the sale's
  movements say, which no step changes, and nobody sees one of them before the commit: the
  levels it has written are locked, and an error on the way rolls them all back.  So what the
  other movements do in between is on the level that the increment then meets.  The order in
  which it takes its locks, and what a level row created meanwhile does to it, is in `RowLocks`;
* a post's decrements, its insert, its movements and its counter are one step, its commit, for
  the same reason.  Its look-up under the lock and its conflict pass are two: a corrected draft
  of the same id over other rows holds none of the same locks and may be stored between them.
  The pass itself compares with what the lock has read;
* the pull's three existence reads at its start are one step, and a guard's
  nested `include` is one read;
* requesting a reset reads the user and mints the token in one step;
* the portal's session guard and the load of the terminal to unpair are one step.

*Locks left out of `RowLocks`.*  The locks of a cost update on a product or variant,
which a delivery takes after its levels; the `KEY SHARE` locks of foreign keys, which
do not conflict with the updates made here; and the order of a post's claims among
each other, which is the same for every post and is the order of their numbers.  A
timeout takes the request out as a crash would.

*Audit rows.*  Equal audit rows are kept once.  Explicit audit rows of
authentication and pairing, and `last_seen_at`, are written by the code and read
by nothing modelled; they are left out.

*Fresh ids.*  Which unused uuid a new token or terminal gets makes no difference,
so one is chosen.

*Scenes of calls.*  `PortalCatalog` and `PosAccounts` take `Offers`, a set of sets
of calls; a behaviour picks one set and its clients make those calls as often
as they like, concurrently.  Calls of different sets touch different rows or
commute; putting them in one set multiplies states and no outcomes.

*Shifts in `PosAccounts`* are one bit per terminal; `PosShifts` has them whole.

*Doubles.*  The engine's quantities are integers below 2^53 until a rate with a
fraction takes part, and one rounding follows each division or product.  The double
and the exact value can then round apart only where the exact value is half a
centavo: 14 / 1.12 is 12.5, the double 12.499999999999998, and the engine makes it 12.
Which amounts lose their half depends on the rate; the record of rates lists them
(`baseShort`, `vatShort`, `serviceShort`; computed with IEEE doubles for 12% and 10%
over the amounts that occur).  A negative amount loses its half as its positive twin does,
since `halfUp` rounds the absolute value.  The value of a shelf is a quantity in doubles
times a cost, and loses a half in the same way: 0.7 times 45 is 31.499999999999996, and
`ValueShort` lists such pairs.  Percentages of discounts are whole numbers here.

*Reports.*  A report is evaluated on one state of the table.  The code runs several
statements without a common snapshot, so a figure can miss a sale that commits
between two of them; nothing promises otherwise.  Product rows are keyed by product and
variant and a product's trend merges its variants, as in the code; names and ordering are
layout, and ratios are left out.  An instant is
a whole minute, which is as fine as a day start can be.  `MonthStart` is the
calendar of the dates that occur.

*Inventory.*  The opening float is in both the expected and the counted cash of a
drawer and left out of both.  Expiry batches, the actor column, the quotient of
days of stock and a terminal's own stock list are left out: they show columns that
decide nothing else.  A product's `active` flag has no effect on these pages.
The rows of a business come in the order of the SQL (`created_at DESC, id DESC`); the merge
sorts again with an order of its own (`compare`, a `localeCompare` of the ids, which for
lower-case uuids is the order of PostgreSQL's `uuid`).
`MAX_MERGE_ROWS` is the code's 2000 cut to 6, so that the last page within reach and
the first one refused both occur.

*Training data.*  `demo-seed.ts` is one write inside the transaction of an accepted
invite.  Its opening levels have no movements, as the model's opening levels have none.

*A terminal that waits.*  `pos/shifts/shifts.service.ts` relies on a terminal
being one physical device that makes one request at a time.  `OneAtATime = TRUE`
is that assumption; in `PosAccounts` it is the guard of `Begin` for a terminal's
own requests; the theorems of section 7.2 take it as an assumption.  It is a property of the
device and of its network layer (a request whose answer timed out may still run), so
runs with it and without it are kept apart.

## 4. The runs

| Run | Instance | Checks |
|---|---|---|
| `sales_race` | 2 posts, 1 reversal, 2 terminals, 3 keys of 2 products, 4 drafts | `NoOversell`, `SalePostedOnce`, `StockConserved`, `AnswersTruthful`, `ReplayNeverConflicts` |
| `sale_book` | 1 post, 2 reversals, 2 deliveries or adjusts, 1 key that has no row at first, 1 draft | `IndInv`, `ReturnedOnce`, `LedgerDriftsByAdjustOnly`, `ImplementsSaleBook` |
| `serial_terminal` | `OneAtATime`; 1 post, 1 reversal, 1 shift request, 2 terminals, 2 shifts one after the other | `ReceiptSeqAhead`, `ExpectedCashFinal`, `SaleInOpenShift` |
| `requests_answered` | 3 requests, 5 stock rows of which 2 exist, 2 sale ids, 1 counter, 1 stored sale, 3 connections, four scenes; `FairSpec` | `LocksInv`, `CirclesNeedDisorder`, `LossesAreReal`, `RequestsAnswered` |
| `catalog` | 3 requests, 2 owners, 3 businesses and room for more, six scenes of calls | `RefsSameBusiness`, `ReplaceSetsExact`, `OwnRowsOnly`, `BusinessCap`, `EveryChangeLogged` |
| `accounts` | 3 requests, 3 owners, 6 terminals, 3 tokens, three scenes of calls | `CodesInOrder`, `LosesOnlyToOthers`, `ActivatedOnce`, `NoShiftFromGrace` |
| `cart_totals` | every cart of up to two of five lines, two discounts, 12% VAT, 10% service charge | `DiscountsNeverStack`, `VatIsContained`, `DiscountNeverRaisesTotal` |
| `reports` | 3 businesses (midnight, 04:00, demo), 4 branches, 5 instants, 2 sales of 5 drafts, 6 queries | `ReportsAgree`, `DaysAddUp`, `DiscountsAttributed`, `TaxMatchesPayments`, `RevenueAccounted`, `StatusesOnlyInLeaks`, `DashboardIsToday` |
| `inventory` | 3 businesses, 2 tills, 3 requests, 4 instants over two days, 3 queries with 3 filters, pages of 2 and of 3 | `MovementPages`, `StockAccounted`, `LossesAccounted`, `ShiftsAccounted` |

Between 8,000 and 1,030,000 distinct states each.  `TypeOK` is part of `IndInv` and of
`LocksInv`; of the catalogue and the accounts it is proved for every instance.

What each shows:

* **`sales_race`**.  Three of a key are on the shelf and two sales want two each.
  A resend, a correction under the id of a refused draft, a payment id used
  twice and a void all happen meanwhile.  Row locks and the conflict pass alone
  prevent the oversell (the `CHECK` constraint is not modelled, so it cannot help);
  each stored sale takes its stock once; what the sales that stand took is
  what is missing; an answer never lies about the database; and a 409 never counts against a draft
  what the sale of its own id took, although a corrected draft of that id over another
  variant can be stored between the second look-up and the conflict pass.
* **`sale_book`**.  Voids and refunds from either terminal race on one sale while
  deliveries and adjusts create its level, raise it and set it to zero or one.  One
  reversal wins; whatever races and is retried, a level and the sum of its movements part only when an adjust
  overwrites a level that changed since it was read; the implementation of `SaleBook`
  holds; and so does the inductive invariant the proofs use.
* **`serial_terminal`**.  With a terminal that waits, the shift rules, the expected
  cash of a Z report and the receipt counter hold, over two shifts and a second
  terminal that voids and refunds: a sale is stored or voided, and a refund charged to a shift,
  only while that shift is the terminal's one open shift.
* **`requests_answered`**.  Four scenes: posts of one terminal against two voids of a
  sale of the same rows; posts with a common id and no common row against a delivery and
  an adjust; overlapping baskets against a delivery; and a delivery of three new levels
  against others that create the same three.  Every circle of waits contains a
  delivery or a reversal that holds a row above the one it asks for: `lockStock`'s `ORDER BY` does
  keep posts out of deadlocks among themselves.  An attempt is lost only to a level of the
  request's own lines that somebody else created, so the third collision, after which
  the client sees an error, takes three new levels; the last scene has them.
  Every request is answered, whatever circles it meets and when all three connections
  are held by transactions that wait for a second one.
* **`cart_totals`**.  The lines contain a half centavo that doubles lose and one they keep,
  a promo worth exactly the SC/PWD discount, a line that modifiers take below
  zero and one too cheap for SC/PWD.  A line takes the better discount and is VAT
  exempt only if that is SC/PWD; an order discount never reaches an SC/PWD line;
  the VAT is the VAT inside the total to half a centavo.  A discount never raises the
  total, with one exception that the code's own rule makes: a line that goes to
  SC/PWD leaves the base of an order discount already given.
* **`reports`**.  Sales on the last minute of a month, at midnight, on both sides of the
  cafe's 04:00 and eight days later; a senior's table where SC/PWD wins on one
  line and the promo on the other under an order discount; an open-price line and a
  line without a cost; a sale on the house.  Every report of a range has the same
  net figure; a range is the sum of its days and its previous period the overview of
  the dates before; the leaks report attributes to each named discount what the
  engine took for it, though the rows do not say; tax parts are the payments; revenue
  is accounted for once, by product with its variants, by category and by a product's trend over
  all its variants; an unknown cost never becomes a profit; the dashboard is each
  business's own today, branch by branch.  Two sales are enough because every figure is a sum over sales
  (or lines) of one sale's own contribution: what can go wrong is which set a sale
  falls into, and what two of them are grouped by.
* **`inventory`**.  A retailer that begins its day at midnight and a cafe that begins
  it at 04:00, a product with a costed and an uncosted size, beans sold tracked and
  untracked, a product in the trash, movements written in one instant with uuids in another
  order, and a drawer open for more than a day.  The pages of any size put one after another are the
  ledger; a shelf is opening plus deliveries and counts less what the sales table
  says was sold; losses are the losses of their days and are priced as the shelf is, with
  unknown costs as unvalued units; the value of a shelf is right to half a centavo where doubles
  lose one; an open shift is on the dashboard and a closed one in the over/short of one day, with
  the amount that the sales table still gives for it.
* **`catalog`**.  What a submission replaces as a set - a product's variants, a group's
  options, a product's groups - is afterwards exactly what was submitted, groups linked again included,
  unless another editor's commit came between the read and the write.  Its other properties, and
  those of **`accounts`**, are described by their comments.

**Bounds.**  `MaxQty` bounds levels and movements at the start of a stock request,
`MaxDrawer` what cash movements add up to; without them deliveries and cash
movements count up for ever.  `MaxRetries` is the code's own (two more attempts in
`PosStock`, three in `PosAccounts`), not a bound of the model.  Numbers of requests,
ids, tokens and terminals are the sizes of the constant sets.  Two posts and two
reversals are enough for each race the handlers decide, because each is decided
pairwise by a row lock or a unique index; six terminals let a pairing lose four
times and give up.  Three new levels and two rivals let a delivery lose all its
attempts.  For all that the inductive invariants cover, the proofs remove the bounds.

**Mutants.**  For every property of every passing run `PROJECT.json` names a
definition of the code and a mutated form of it - a lock not taken, a check made
too early, an off-by-one, a missing reset - under which TLC finds the property
violated in the same instance.  So each property depends on something the code
does, and each instance is large enough to see it fail.

`CHECK_DEADLOCK` is left on except for the reports and the inventory, where the clock stops
at the last instant and the tables at `MaxSales` and `MaxRequests`: elsewhere a client can always send again.
`MaxLines` bounds a cart.

## 5. Where code and documents disagree

Each is a run that TLC ends with a counterexample.

* **`close_during_sale`** - `pos-spec.md` defines the expected cash of a shift as a
  sum over its sales.  A close reads the sales, then writes the sum; a sale whose shift
  check came before the close commits after the read.  The closed shift's
  expected cash misses it for good.  Needs two requests of one terminal at once.
* **`sku_race`** - SKUs are to be unique across products and variants of a business.
  The check reads, and the write comes later; the indexes cover products of a
  business and variants of one product, not one against the other.
* **`activity_log`** - portal mutations are never to land without a business in the
  audit log.  A nested variant row has none, an owner's context has none, and the
  log shows such a row in every business of the owner.

Refuted in the same way, without a run kept for it:

* `ReceiptSeqAhead`, in the instance of `close_during_sale` with two posts: the receipt
  counter is read without a lock and written as an absolute value; of two sales of
  one terminal the lower number can be written last, and a re-paired device would
  print a number already in use.  `serial_terminal` checks it for a terminal that waits.
* `OneCreated`, in the same instance: the sales controller promises 201 for the first
  insert and 200 for a replay; a copy of a draft that finds the sale under the row
  lock answers as a first insert.
* `SaleInOpenShift`, and that a terminal has one open shift, without `OneAtATime`: the same
  gap lets two opens of one terminal both succeed, a sale or a void commit after
  its shift closed, and a refund be charged to a shift that has closed since the reversal
  read it - where the comment of `refundSale` says that `refund_shift_id` is set only when the refund
  happens during the sale's own open shift.
* `PaymentSplitIsNetSales`, in the instance of `reports`: the header of
  `sales-series.sql.ts` says that `salesC` throughout is net sales with the service
  charge excluded, and the payment split of the same file sums the payments, which
  include it.  The query's own comment says so; the header is what is wrong.

Seen in the models: an adjust that races with a sale breaks `LedgerMatchesLevels`
(`LedgerDriftsByAdjustOnly` says that nothing else does);
suspending a suspended owner again restarts the 24 hours; no endpoint sends an
invite again when the statement that creates it fails after the owner was created;
accepting an invite re-activates a suspended owner; unpairing a terminal leaves its
shift open; an update that races an archive edits the archived row; a crash after
a change of the cap leaves it without its audit row; a pull may carry products
whose category it does not list; a sale snapshots `variant.cost` alone where the
inventory pages fall back to the product's; and the demo seed writes levels without movements.  No document promises otherwise.

## 6. Fairness

`FairSpec` of `RowLocks` assumes, of each request:

* strong fairness of its own next step.  The event loop and the database keep running,
  which would be weak fairness; two waits need more.  A lock wait ends when the row
  is free often enough, because PostgreSQL queues the waiters of a row; a wait for
  a connection ends when one is free often enough, because the pool serves its queue in
  order;
* weak fairness of `Victim`: PostgreSQL's deadlock detection runs after a second of
  waiting, and a circle of waits does not go away by itself;
* weak fairness of `Expire`: a transaction whose read finds no connection runs into the
  timeout of an interactive transaction or of the pool.

Nothing is assumed of clients, nor of crashes and refusals.  Without the second
assumption a delivery and a reversal hold each other for ever; without the third, as
many transactions as there are connections do, each waiting for its second one.

## 7. The proofs

The eight proof modules are checked to the last leaf.  They use the named assumptions
on the constants and nothing else:

* `PosDb`: there is a sale id and a terminal, and finitely many sale ids (uuids have
  128 bits); `ProductOf`, `SeqOf`, `TerminalOf` and
  `OpeningQty` are functions of the right type; `NoShift` and `NoDraft` are not ids or
  drafts; a key without a row has an opening level of zero;
* `RowLocks`: the locks are numbers below some bound, a post's claims above its rows; a
  job of each kind wants the locks its handler takes;
* `ScopedPrisma`: the set of ids is finite; the rows of the start hang under rows
  of the right tables and refer inside their business;
* `PortalCatalog`: callers are what the guards stamp (an owner without a business, a
  terminal with those of its branch, the admin for the cap alone), a call has the shape its DTO
  allows, and the uuids of a submission's new rows are its own;
* `PosAccounts`: the calls have the form of a call, provisioned owners have invites of their
  own, a branch starts with one paired terminal at most, the set of terminals is finite;
* the four theorems of section 7.2: a terminal waits for its answers (`OneAtATime`) and has one
  open shift at most at the start (`OneOpenAtStart`);
* `CartTotals`, `CartDraft`, `SalesReports`: a line, a cart and the rates have the form that
  `CartLineDto`, `SaleDraftDto` and `CreateBusinessDto` give them.  Discounts are the one point where
  the code validates less: they are `@Allow`'d as they come, and the assumption is what a cashier
  can give, a whole percentage up to a hundred or an amount (`Discount`).  A line that names no
  product has no cost;
* `ReportScope`: a branch belongs to a business, a day starts at a minute of the day, there are
  finitely many branches and instants, and null is nobody's id;
* `ReportAgreement`, `InventoryAgreement`: the queries have the form of a query and are not
  refused; `Always` asks, for each business, for a range that holds every instant, so the clock
  of a behaviour spans 366 days at most (the limit of one query) where a theorem speaks of
  "everything so far";
* `InventoryReports`: the tables have the columns of the schema and requests passed validation (a
  line names a product, a correction its reason); no two movements have the same uuid; a shift
  that is there at the start is open (a closed one would bring a Z report no request made).

No other set has to be finite: the results hold for any number of requests, keys,
shifts, owners, calls, drafts and queries, for carts of any length and tables of any size.

### 7.1 The branch (`PosBranchProofs`)

| Theorem | States |
|---|---|
| `TypeCorrect` | `TypeOK` always |
| `InductiveInvariant` | `IndInv` always |
| `NeverOversold` | `NoOversell` |
| `StockMovedOnce` | `SalePostedOnce` |
| `StockReturnedOnce` | `ReturnedOnce` |
| `AnswersRight` | `AnswersTruthful` |
| `CopiesNeverConflict` | `ReplayNeverConflicts` |
| `BranchImplementsBook` | `Spec => ImplementsSaleBook` |
| `StatusesNeverReopen` | `StatusesTerminal` |
| `LedgerDrifts` | `LedgerDriftsByAdjustOnly` |
| `SalesConserveStock` | while nothing but sales and reversals moves stock (`StockOps = {}`), `StockConserved` |
| `LedgerWithoutAdjust` | if no adjust is ever requested (`Targets = {}`), `LedgerMatchesLevels` |

`NoOversell` is not inductive: a post about to commit might take more than is
there.  The strengthening says why it never does:

* `GrantsStand`: what the conflict pass granted is still on the level, and locked,
  when the commit comes;
* `LocksExclusive`: a row is locked by one post, exists, and only inside a
  transaction, so nobody else lowers it - posts wait for the row, and so do
  deliveries, adjusts and reversals (`Unlocked`);
* `SalePostedOnce`: a reversal gives back what the sale took, hence a non-negative
  amount;
* `SaleLocksExclusive`: two reversals never both hold a completed sale, which
  gives `ReturnedOnce`;
* `CopiesTakeElsewhere` and `ClashesStand`: what happens around the second look-up and after a
  rollback.  A post that has looked and found nothing may see its id stored by the time of its
  conflict pass, but then by a post that held none of its rows; and what made an insert clash
  is still stored when the post comes back for the reason;
* `RequestsCarryDrafts`, `SalesStoreDrafts`, `StockLinesRight`: what the requests
  and the rows carry.

Each step that a request takes falls into one of a few shapes - leaving, moving,
locking, clearing, committing - with a lemma each; the lemmas of one table group
(`TablesInvKept`, `PostsInvKept`, `SaleLocksKept`) take the steps that leave it
alone.  The refinement then needs `IndInv` at one place: a commit is an `Enter` of
the book because `GrantsStand` puts the wanted goods on the shelf and `Clashes = {}`
makes id, receipt and payment new; a reversal is a `Void` or a `Refund` because
`SalePostedOnce` makes the mirrored movements the entry's own quantities.

`ReplayNeverConflicts` is about a step, and the first of these makes it true: whichever sale has
the draft's id when the 409 is decided took nothing from the rows the post has locked, so the
levels it compares with are not short on that sale's account.

`LedgerDrifts` compares what each commit adds to a level with what it adds to the
movements of the key: the same for a sale, a reversal and a delivery, by the way
`CommitSale`, `RestoreStock` and `CommitReceive` write the two together; an adjust writes the
difference to the level it read, so the two part only if the level is another by then.
`LedgerWithoutAdjust` is its corollary.

`SalesConserveStock` follows the sum of what the standing sales took of each key
(`Taken`): a posted sale adds its own quantity to the sum and takes as much off the level,
a reversal removes it and gives as much back, since the mirrored movements are the entry's
(`SalePostedOnce`) and the status test saw a standing sale (`SaleLocksExclusive`).

### 7.2 A terminal that waits (second part of `PosBranchProofs`)

| Theorem | States, for `OneAtATime` and `OneOpenAtStart` |
|---|---|
| `SerialInvariant` | `SerialInv` |
| `ReportsFinal` | `ExpectedCashFinal` |
| `ReceiptsAhead` | `ReceiptSeqAhead` |
| `SalesInOpenShift` | `SaleInOpenShift` |

`SerialInv` says what waiting buys.  `OneRequest`: whoever is in the server for a
terminal is there alone.  `ShiftsStand`: hence what a post, a reversal or a shift request has found
out about the terminal's open shift is still so at its commit.  `CashStands`: what a
close has summed is what the shift's rows still add up to - a sale commits only into
the open shift, and a refund from another terminal is charged only to a shift of
that terminal (`SalesOnOwnShift`) and only while it is open, so nobody else moves the sum; after the close the
shift is open no more and nothing is added to it.  `ReceiptsStand`: the counter a
post has read is the counter it advances.  Of `CashOf`, a sum over a set, the proof uses only that
equal sets have equal sums.

### 7.3 Row locks (`RowLocksProofs`)

| Theorem | States |
|---|---|
| `LockTableRight` | `LocksInv`: a lock has one holder; a transaction holds and wants locks of its job only, a post in ascending order, a reversal its sale first |
| `DeadlocksNeedDisorder` | `CirclesNeedDisorder` |
| `RetriesSpentOnRealLosses` | `LossesAreReal` |

Given a circle of waits, take its largest wanted lock.  Its holder is on the circle too and
wants a lock that is no larger, so it holds a row above the one it asks for.  A post never does
(`InOrder`), an adjust has one lock, and a circle of sale rows alone is impossible
because whoever holds a sale asks for stock rows.

`LossesAreReal` is about a counter and a cardinality: the attempts a delivery has lost
are at most the levels of its own lines that exist by now.  Such levels never
disappear, so the bound stands while others move.  It has to grow with each loss, and does
because an attempt begins by reading which levels exist and plans to create the others: the one
it collides with is of its lines, was not there at the beginning, and is now.

### 7.4 The catalogue (`PortalCatalogProofs`)

| Theorem | States |
|---|---|
| `PortalInvariant`, `Types` | `IInv`, `TypeOK` |
| `ReferencesStayHome` | `RefsSameBusiness` |
| `TenantsIsolated` | `OwnRowsOnly` |
| `CapHolds` | `BusinessCap` |
| `ChangesLogged` | `EveryChangeLogged` |
| `ReplaceSetsHold` | `ReplaceSetsExact` |

Every handler here checks first and writes later, in steps between which others
write.  It is safe because of one fact: a row once written never disappears (deletes are
soft) and never changes its scope column.  So what a request has found out about the
*owner* of a row stays true, while what it found out about the row being live, or
about its SKU, does not.  `IInv` states that per request: its memoized scopes are its
caller's (`CachesRight`), the row it loaded and the children it saw are (`Loaded`,
`SeenRight`, `KidsSeen`), the category, groups and parent it checked still belong where they did
(`RefChecked`, `GroupsChecked`, `Policed`), the ids of its new rows are free (`NewFree`) and
nobody else's (`NewApart`), and whoever counts businesses holds the owner row
(`Locked`), so the count stands (`HasRoom`).  Every write is then either `Kept`
(a row of the caller stays under its parent) or `Born` (a new row hangs under one of
the caller's), and the tenancy, cap and log properties are read off those two.
`TenantsIsolated` and `ChangesLogged` are properties of steps and follow from `IInv` before the
step; `CapHolds` compares the counts around an insert, for which only the finiteness of `Ids` is
needed.

`ReplaceSetsHold` is about what one write makes of a set of children, and needs the writes
themselves.  `ReplacementAt` finds the step; `KidsExact` (variants and options) and `LinksExact`
(a product's groups) go through the rows the write updates, buries, restores and
adds: each child is in exactly one of these sets, by whether it was live when the handler read
the children and whether the submission names it, and a child that was live then is live now
unless the editor's read is stale.

### 7.5 The accounts (`PosAccountsProofs`)

| Theorem | States |
|---|---|
| `InvariantHolds`, `TypeCorrect` | `IndInv`, `TypeOK` |
| `CodesNeverReused` | `CodesInOrder` |
| `RetriesAreEarned` | `LosesOnlyToOthers` |
| `InvitesActivateOnce` | `ActivatedOnce` |
| `GraceOpensNothing` | `NoShiftFromGrace` |

`CodesInOrder` needs only itself: a stored code is one more than a count, and not
taken.  That the code is then the next in line, and that a retry was caused by
another pairing, needs `CountsBehind`: the count a pairing holds is at most what there is,
and its lost attempts plus the growth since its count are at most the
others' wins.  `ActivatedOnce` needs one invite per owner (`OneInvite`), which needs that
a creation still to send its invite belongs to an owner without one
(`InvitePending`), and that a token being consumed is of the kind its request wants
(`ConsumesItsKind`).  `NoShiftFromGrace` needs that the terminal's own requests
do not overlap (`OneAtATime`, from the guard of `Begin`): a request let in on grace saw an
open shift, which is still open when it acts, so an open refuses.

### 7.6 Sums (`SumProofs`)

Every figure of this code is a sum, over the sales that stand, the lines of a cart or the
rows of a query.  The library's induction over finite sets takes an operator as a
parameter, which the installed provers cannot instantiate.  `SumProofs` works
without it: a property of finite sets is the set of the subsets that have it
(`SubsetInduction`, `AddInduction`: a set of subsets with the empty one in it, closed under adding
an element, contains the whole set), and that is proved from a smallest
counterexample, for which `Nat` being well-founded is enough.

The sum itself is defined by a recursion over subsets with a choice in it.
`SolutionExists` and `SolutionUnique` show that the recursion has one solution, and
`SumRemove` that the choice does not matter.  The laws used everywhere
follow: sums of sums and of differences (`SumPlus`), order (`SumMonotone`), disjoint
parts (`SumDisjoint`), one entry changed (`SumChange`), renaming (`SumRenamed`), and that a
`GROUP BY` adds up to its set (`SumByKey`, `SumGroups`, `CountByKey`).

### 7.7 Carts and days (`CommonProofs`)

| Theorem | States |
|---|---|
| `VatIsInside` | the VAT stated for an amount is the VAT contained in it to half a centavo, and a part of it |
| `DiscountWithinBase` | a discount is between zero and its base, and nothing of a base that is not positive |
| `LineSellsAtTheBetter` | a line sells at the lower of its promo price and its SC/PWD price, between zero and its gross |
| `ReceiptContainsItsVat` | `VatIsContained` |
| `NoCartStacksDiscounts` | `DiscountsNeverStack` |
| `DiscountsOnlyLower` | `DiscountNeverRaisesTotal` |
| `WindowIsItsDays` | an instant is in the window of a range exactly when its SQL day bucket is one of the range's dates |
| `RangeIsItsDays` | the windows of the days partition the window of the range |
| `PreviousIsJustBefore` | the previous period is the window of as many dates just before |
| `DatesAddUp` | moving a date by whole days is addition, and a day's first instant belongs to it |

The first three are about one amount or one line.  They rest on `HalfUpNear` and
`HalfUpDoubleNear`: what `halfUp` returns is within half a unit of the quotient on
either side of zero, and so is the half that the doubles lose, on the same side of zero,
whatever the set of amounts that lose it.  So nothing depends on the table of lost halves.

The next three are about carts.  The invariant is that the totals are those of
the cart (`CartAlwaysTotalled`), and the engine's totals are sums of columns over the
lines (`TotalsByColumn`).  `DiscountNeverRaisesTotal` compares two of them: a discounted line has
a net no larger than before and the others are as they were, so the discounted subtotal is no
larger (`DiscountedGivesTotal`); an order discount is monotone in its base with slope at most
one (`DiscountMonotone`) in spite of its rounding, and so is the service charge (`ChargeMonotone`).
The proof says where the exception comes from: a line that goes to SC/PWD leaves the order
discount's base, so the claim for granting SC/PWD needs that there is no order discount.

The facts about days are arithmetic for every instant, range and day start and need no
assumption: window (TypeScript) and bucket (SQL) shift by the same amount, and the
division rounds down, before 1970 too.

### 7.8 The reports (`ReportProofs`)

| Theorem | States |
|---|---|
| `EveryCutAddsUp` | `ReportsAgree` |
| `RangeIsTheSumOfItsDays` | `DaysAddUp` |
| `NothingPostedIsLost` | `StatusesOnlyInLeaks` |
| `TaxAccountsForPayments` | `TaxMatchesPayments` |
| `RevenueIsAccountedFor` | `RevenueAccounted` |
| `EveryDiscountIsAttributed` | `DiscountsAttributed` |
| `TodayIsItsOverview` | `DashboardIsToday` |

They hold for every owner, with any businesses, branches and day starts, any drafts, any
table of sales and any accepted query.  The inductive invariant is `Table`:
each row is what `completeSale` wrote for some valid draft and the totals of that draft, with a
status that may have changed since.  None of the seven properties could be carried from one state
to the next by itself, for a new sale moves every figure at once; each is a
consequence of `Table` and three lemmas.

* `ScopeIsItsDays`: the sales of a query are those whose date, by the day start of their own
  business, is one of the query's.  It is `WindowIsItsDays` laid over the scope that `resolve` makes,
  and gives the days, the weeks, the previous period and the dashboard's "today".
* `SumByKey` and `Regrouped`: whatever key a query groups by, and however the groups
  are grouped again, the figures add up to those of the set.  `ReportsAgree` is one application per
  cut (the payment split is none of them: it includes the service charge, section 5); the
  products with their variants, the categories and the trend of one product are the same for
  lines, and the rows of a product's variants regroup to its trend.
* `LinesAddUp` and `OrdersTook`: revenue and profit by line are sums over the lines, priced
  modifiers included, and the revenue of a set of sales is their net sales and what the engine took
  from their orders.

A branch of the dashboard is the overview of a query for that branch alone: the rows grouped by
branch (`DeskBranch`) are those of the scope that `resolve` makes of it.

Profit is null where no costed line was sold.  `ProfitByKey` therefore proves two
things of every grouping: the profit of the whole is known exactly if that of some group is, and
then it is the sum of the known ones.  `EveryDiscountIsAttributed` is the reconstruction: a
stored line has no promo amount, but `gross - net` is it when the line went to its promo, and
`discount_id` is set only then; the order-level amount is the sale's discount less
those of its lines, which `OrdersTook` shows to be what the engine took.

### 7.9 The inventory pages (`InventoryProofs`)

| Theorem | States |
|---|---|
| `PagesAreTheLedger` | `MovementPages` |
| `ShelvesAccountForSales` | `StockAccounted` |
| `LossesArePricedByShelf` | `LossesAccounted` |
| `EveryShiftIsInOnePlace` | `ShiftsAccounted` |

They hold for any catalogue, day starts, requests and length of history.  `Tables` types the
tables and says of the ledger what the pages lean on: every movement's shelf has a level
(`receive`, `adjust`, `complete` and `restoreStock` write the two in one transaction) and every
correction has a reason.  With the scope (`ScopeReaches`) it suffices for three of the
theorems; the shelf needs more.

* *Stock.*  `StockAccounted` compares the shelf with the ledger, of which deliveries and corrections
  count, and with the sales table, of which standing sales count.  It is not inductive: a reversal
  takes a sale out of the second by its status and puts on the shelf what it finds in the ledger,
  and nothing in the property says these are the same.  `StockKept` does: `Balanced` is the
  equation per key, with what each standing sale took written out (`Taken`), and `SalesMoved`
  says that the movements with a standing sale's id amount to what it took of each key.  A sale
  brings both about (`CompleteBalances`: the wanted amounts of the conflict pass, one per key, and the movements,
  one per tracked line, add up to the same); a reversal uses the second to keep the first
  (`UndoBalances`); later requests only append movements that are not of that sale (`MovesStand`).
  Units sold then differ from `Taken` by the lines a till sold untracked (`WantedSplit`).  A worth
  is within half a centavo of its product whether or not the double loses its half (`WorthNear`).
* *Losses.*  A reason's row is a sum over the movements that `LostIn` names, whatever the query
  (`LossesOfDesk`, `ShrinkageIs`); it is sorted by business, by day and by shelf with one lemma
  (`LossesByKey`).  A value is null only if no loss of the reason has a cost (`AllUncosted`), the
  uncosted units say the rest, and the cost of a movement is that of its shelf, trashed or not
  (`LossesByShelf`).
* *Pages.*  A movement's rank is the number of newer ones; ranks number a finite set from
  zero (`RanksNumber`, `RankIsPlace`) because uuids differ.  Each business sends the first
  `page * pageSize` of its own, and a rank among fewer rows is no larger, so the merge has the
  first `page * pageSize` of all (`MergeHasNewest`).  It has older rows too, and they do no harm: the
  places below the limit are taken by the same rows (`MergeKeepsPlaces`), so the cut is the page
  (`PageIsCut`).  The queries and the merge order rows by two definitions, and the merge keeps the
  queries' order (`MergeOrder`).  `PagesCounted` is the arithmetic of `totalPages`.
* *Shifts.*  A closed shift's bucket is one date of its own business (`ClosedOn`), a
  sale's Manila date is one date (`ListedOnce`), and today's scope reaches every branch that is not
  the demo's (`TodayReaches`).  The amounts need an invariant of their own, `Drawers`: what a close
  recorded as expected is what the sales of the shift and the refunds charged to it still add up to,
  because a sale goes into an open shift, a void is refused after the close and a later refund is
  charged to no shift (`CloseKeepsDrawers`, `SalesKeepDrawers`, `DrawersHold`).

## 8. What is only model-checked, and what is not modelled

Only model-checked:

* liveness (`RequestsAnswered`): fairness and `ENABLED` are beyond this prover.  It is the one
  property of a run that no theorem states;
* that `MonthStart` is the calendar, which it is for the dates that occur; the proofs about
  months hold for any function in its place.

Not modelled:

* **Formatting and parsing of amounts** (`formatC`, `parsePesoInput`): wording.
* **The rest of the analytics**: the dashboard's recent lists, expiry batches, days of stock,
  rankings, limits, ratios, CSV and the report audit are layout or append-only.
  That a report is several statements without a common snapshot is not modelled
  either: no document promises one.
* **Login, sessions, TOTP, lockout, refund PIN**: authentication.  A request that needs
  credentials has them or is refused.  `prisma/seed.ts` and `bootstrap-admin.ts` write
  development data and the first administrator before the server runs.
* **Tenant browsing by the administrator**: read-only; that the administrator changes no
  tenant row is part of `OwnRowsOnly`.
* **Error filters, mail, health, configuration, OpenAPI, bootstrap**: no protocol.

## 9. Plan

Done: the branch (modelled, checked, refined, proved, with and without a terminal that
waits), its row locks (modelled, checked with liveness, proved), the catalogue and
the accounts (modelled, checked, proved), the totals of a cart and the money reports
(modelled, checked, proved), the inventory pages (modelled, checked, proved).

What would come next:

1. The inventory pages over requests that overlap, as `PosBranch` has them, instead of one
   after another: `StockKept` per commit, with an adjust's drift as the only exception.
2. A report as several reads of a changing table, once a document says what it may miss.
3. Stock counts, expiry batches and notifications, which have tables and no code yet.

# Beacon DEX: a verification project

Beacon DEX is an order-book exchange on Cardano. An order is a UTxO at a script
address whose staking part is its owner; five *beacon* tokens in it make it
findable by anyone. Takers spend orders in full or in part, in batches, and pay
each seller directly. A backend indexes the beacons into a database, plans and
builds unsigned transactions; a browser frontend lets the user sign and submit.

This directory holds TLA+ models of the parts whose behaviour is hard to test,
TLC configurations that check them on small instances, and proofs, for all
instances, of most of the safety properties those runs check. Paths below are relative to the
repository.

## 1. The system

| Part | State | Operations | Talks to |
|---|---|---|---|
| on-chain scripts (`contracts/`) | none; they judge transactions over the UTxO set | `spend` with CancelOrder / TakeOrder / TakeOrderPartial, `mint` with MintBeacons / BurnBeacons | the ledger |
| order indexer (`backend/src/services/order-indexer.ts`) | the cache of orders, their lineage; per object `running`, `lastSync`, a timer | `syncOnce` (discover, confirm, backfill ancestry; classify vanished orders, surface continuations), `repairLineage` | chain provider, order cache |
| order cache (`backend/src/db/orders-repo.ts`) | `orders`, `order_lineage`, `tx_history` | upsertOpenOrder, markSpent, setLineage, queries; once for PostgreSQL, once in memory | |
| chain provider (`chain-provider.ts`) | none | one interface over the endpoints of two services, which differ in what they say: UTxOs, transactions, redeemers, tip | Blockfrost, Koios |
| transaction builder (`tx-builder.ts`) | none | buildCreateOrder, buildCancelOrder, buildTakeOrder, buildTakeManyOrders, resolveOrder | provider, datum codec, Mesh |
| datum codec (`protocol/datum.ts`) | none | decodeOrderDatum, requiredPayment, maxTakeForSpend | |
| Smart Fill planner (`smart-fill.ts`), arbitrage planner (`arbitrage.ts`) | none | planSmartFill; findArbitrage | order cache |
| settings (`settings-store.ts`, `index.ts`) | the settings file, the copy in memory, the running provider and indexer | load, update, applySettings | indexer |
| frontend flow (`useTxFlow.ts`, `TxStatus.tsx`) | what is built, previewed, signed, waited for | build, confirmAndSign, reject, reset; polling | HTTP API, wallet |
| trade panel (`TradePanel.tsx`) | form, route, queue of batches | quote, runBatch, re-plan | flow, HTTP API |
| pages of orders (`MyOrders.tsx`, `OrderBook.tsx`, `ArbitragePanel.tsx`) | rows on display, claim queue, selection | refresh, reindex, claim, cancel, take, execute a cycle | flow, HTTP API |
| positions (`positions.ts`) | none | groupPositions, positionStatus, fillEvents | pages of orders |

What makes it hard: the scripts validate each input on its own although a batch
spends several; ceilings accumulate over fills; the indexer awaits the provider
between reading and writing while the chain moves, rolls back, and the process
restarts or is hot-swapped; a built transaction goes stale before it is signed;
several off-chain computations must agree with the scripts to the lovelace.
`PROJECT.json` lists these hazards line by line with the properties that cover
them.

What makes each part correct:

- *scripts*: beacons mark orders and nothing else, with one exception (section
  6); no payment satisfies two orders; rounding favours the seller and by less than a unit per fill; the
  deposit survives partial fills; no take at or after the expiration; the owner
  can always cancel; two live orders can always be taken together;
- *indexer*: what a row says of a spent order is true; lineage is true and
  complete; live orders stay in the book; the book converges to the chain;
- *provider*: both services show the same chain; what cannot be found out is
  `unknown` and never a wrong answer;
- *builder*: what it builds is accepted unless something went stale; what it
  quotes is what the wallet gets; every order on the chain can be served;
- *planners*: a quote stays within its budget and wastes none of it, meets a
  target exactly and at the least cost, and every leg can be settled; a cycle
  loses in no asset, gains in one, and none that does is missed;
- *settings*: what is shown is what runs and what survives a restart; one
  indexer polls; the backend can be booted from what it has written;
- *panel*: a route is executed batch by batch, each after the one before has
  settled and within the budget it was planned for; what is displayed when
  nothing is under way answers what the form says;
- *pages of orders*: a queue of claims goes on claim by claim and only while
  nothing has gone wrong; every live order that is displayed as open can be
  cancelled, whatever became of the other rows; what is taken is what the chain
  accepts, and pays.

## 2. Modules

| Module | Models | Uses |
|---|---|---|
| `Beacons` | assets, values, the datum, the five beacon names (`types.ak`, `beacons.ak`) | |
| `OrderRules` | both scripts, predicate by predicate (`order_rules.ak`, `beacon_rules.ak`, the two validators) | `Beacons` |
| `OrderLedger` | the UTxO set of beacon-bearing outputs, changed by accepted transactions, beside inputs without beacons; properties | `OrderRules` |
| `OrderBook` | the abstract promise: a book of orders placed, withdrawn, traded | |
| `ChainView` | blocks, transactions and rollbacks as a provider shows them | |
| `Indexer` | `order-indexer.ts` with the cache, awaits as interleaving points | `ChainView` |
| `Provider` | `chain-provider.ts`: both services' endpoints, with failures, and what the indexer makes of them | `Indexer` |
| `TxBuilder` | `tx-builder.ts` and the codec, composed with the ledger | `OrderLedger` |
| `SmartFill` | `planSmartFill` and the price arithmetic of partial fills, with reference definitions | |
| `Arbitrage` | `findArbitrage`: cycles, their amounts, ranking, with reference definitions | `SmartFill` |
| `Planners` | the endpoints `GET /smart-fill` and `GET /arbitrage` over whatever the cache holds | `Arbitrage` |
| `Settings` | `settings-store.ts` and `applySettings`, at the grain of awaits and of the steps of `writeFile` | |
| `TxFlow` | the hook `useTxFlow` (build, preview, sign, submit), the wait for settlement, the chain they act on | `SmartFill` |
| `TradePanel` | the market tab: form, debounced quotes, route, batches; the form shared with the limit tab | `TxFlow` |
| `Positions` | `positions.ts`, pure | `SmartFill` |
| `WalletPages` | the three pages that list orders and act on them, on rows that lag behind the chain | `TxFlow`, `Arbitrage`, `Positions` |
| `MC...` | instances for TLC | |
| `CountingTheorems` | lemmas the proofs share: finite sums, folds, ranks in a total order | |
| `OrderLedger_proofs` | theorems about the ledger, the refinement of `OrderBook` included, and about what the builder makes for it | `TxBuilder` |
| `Indexer_proofs` | theorems about the cache (statuses, live orders, lineage) and about what the two services tell | `Provider` |
| `SmartFill_proofs` | theorems about the two planners | `Arbitrage` |
| `Planners_proofs` | the same as properties of the endpoints | `Planners`, `SmartFill_proofs` |
| `Settings_proofs` | theorems about the settings | `Settings` |
| `TradePanel_proofs` | theorems about quotes, routes, batches | `TradePanel`, `SmartFill_proofs` |
| `WalletPages_proofs` | theorems about the claim queue, the rows of the wallet's orders, and what is sent to be taken | `WalletPages`, `SmartFill_proofs` |

Definitions keep the source's names where they stand for a function
(`required_payment`, `take_partial_ok`, `classifySpend`, `buildTakeManyOrders`,
`planSmartFill`...). A definition that ends in a suffix naming a mistake (`..._floor`,
`..._unspent`) and is preceded by "Fault:" is a plausible wrong version of the
one after it, used only to show that a property can fail.

**OrderLedger.** `Offered(utxo)` is the set of transactions somebody tries;
`Accepted` is the ledger's rule plus the scripts. Who builds a transaction is
irrelevant, so the theorems quantify over every `Offered`. `lineage`, `closed`,
`credit`, `surplus` and `mixed` are history variables that no guard reads.
Abstractions, all of which matter when reading the results:

- Of the UTxO set only the outputs that carry beacons are kept in `utxo`. The
  others at the script address are *imitations*: nothing validates an output
  when it is made, so any may lie there at any time, with any datum and value,
  and a transaction brings those it spends (`imitations`). They are inputs like
  the others: the validator runs for them, with the policy their own datum
  names, and they count in `partial_take_refs` and `only_one_order_input`.
- `mixed` says that an imitation was taken in part beside an order taken in
  full, after which beacons may lie anywhere (section 6). What fails then is
  stated for the chains without: `BeaconsMarkOrders`, the arithmetic of fills,
  the refinement, and what the builder is promised. `TypeOK`, `SellersPaid`,
  `NoLateTake`, `Reclaimable` and `PairsTakeable` hold on all.
- Inputs at keys without beacons are not represented: no rule reads them.
- A hash is the term it is the hash of: no collisions.
- The validity interval's upper bound is exclusive; there is no lower bound,
  as no rule reads one.
- Fees, collateral and key-only outputs are absent; `surplus` counts what
  outputs at a key's address pay.

**Indexer.** Each process (`Sessions`, `Repair`) has a program counter; an
action is the code between two awaits whose order matters. All writes to the
cache are separate actions, and so is each link of an ancestry walk; two
consecutive reads with no write or decision between them (the tip and the
holders) are one. A block above the tip that was read counts as no block, and
with no confirmations asked for an order always has enough. The two
repository implementations differ in whether rows survive a restart and a
lineage row is overwritten; `repository` is chosen among `Repositories` at the
start and `Durable` tells them apart. Order content is
immutable and not kept. Cooldown and poll period are left out: a sync may start
whenever its session is not running one. `ChainView` takes from `OrderLedger`
that outputs with beacons are orders and that continuations are rank-paired,
which is so on the chains that are not mixed: there no imitation is taken in
part in a transaction with orders, and no rank counts one;
an output of the model says which order it continues, the root of that one and
how many fills lie between, which the code cannot read and the properties
compare with.

The fault `redeemers` is the answer of `getSpendRedeemers` in the Koios variant
when the request fails, an empty list: the walk up the ancestry takes the order
it has reached for the root (`WalkCutShort`).

**Provider.** `ChainView` is what the indexer is modelled against; here each
call is put together from the endpoints, as the code does it: what each
endpoint says of a transaction, which of them fail (`down`), which redeemers an
answer lacks (`skipped`). It has no state of its own and extends `Indexer` so
that its properties are evaluated on every chain of the `sync` run, whose
`classifySpend` they compare it with. Paging and the fields no order depends on
are left out.

**TxBuilder.** One request at a time is in progress: the builder is stateless,
so two requests interact through the ledger only, and the other party is in
`Offered`. `Resolve` is one `resolveOrder` await. Coin selection, change and
fees belong to Mesh. The clock counts milliseconds, `SlotLength` of them a slot.
The legs are sorted by the number of references before each, for the same reason
as in `SmartFill` below.

**SmartFill.** A pure module: `planSmartFill` is a fold over the candidates,
cheapest first. Orders are sorted by the number of orders that rank before
each, and filtered by `kept`, for the proof system knows no definition of the
library's operators for either. An order is a record of its assets, amounts, flag and
expiration; decimal prices and warnings are not computed. Below it stand the
reference definitions the quotes are compared with, among them `Fills`, every
way of filling the book.

**Arbitrage.** Pure as well: the scan of cycles of two and three edges, the
best `DirectTopK` or `TriangularTopK` orders of each, the amounts of every
anchor (`evaluateCycle`), the ranking. `findArbitrage` is the set of what is
reported; the places in the list are left out, as a page shows them all. The
reference definitions enumerate all amounts of all cycles.

**Planners.** The two endpoints, over any content of the cache: a set of orders
that differ in their ids, with whole numbers of any sign for terms. `GET
/arbitrage` reads the cache pair by pair; what it puts together is such a set
too, as an order never changes its pair. `MCPlanners` gives the books and wishes.

**Settings.** A request awaits the check of the provider and then each step of
`update`; `writeFile` opens, which empties the file, then writes, then calls
back, so two writers or a crash can leave an empty or a garbled file. Boot and
crash are actions. `blemish` is a history variable that says whether requests
have overlapped, with all fields or with some, or a write was cut short since
the file was last written by a request alone: the properties name what they do
not hold after. Paths, permissions and the schema's details are left out.

**TxFlow and TradePanel.** A step is an event handler, or what follows an
await, with the effects React runs after it: `QuoteEffect` for the debounced
quote, `ErrorEffect` for the re-plan after a failed batch. Requests under way
are state (`quotes`, `requotes`, `builds`, `signings`), for nothing cancels
them. A quote has a number (`reqSeq`) and remembers which mount of the tab asked
for it; the form belongs to the panel and survives. The backend plans a quote on
`cache`, which a sync brings up to date with the chain (`book`); a reindex may
leave it as it is, because of the cooldown or an error. The wallet is connected
and the pair chosen; amounts are raw numbers, as going to text and back loses
nothing at a fixed number of decimals. `late` and `overlapped` are history
variables.

**WalletPages.** One page at a time is mounted, each with a `useTxFlow` of its
own. `ledger` has every order there ever was as its row truly is; what a page
shows is any answer the cache may give: a row is inserted open and marked when
its spend is classified, late for each row on its own; a failed read or a
rolled-back spend may leave it closed or `unknown`, also when its order is on
the chain (`Closings`, `MaxClosed`); it is linked when its
parent has a row, and its root is its parent's root, or its parent if that had
no link by then, as the indexer computes it. That covers answers that come late or out of order, so
fetches under way are only counted. Others fill, take and cancel; at time 1
orders with an expiration are expired. Claims of a queue carry the click they
come from. Orders of one owner are listed by id, which stands for the slot they
were created in. Not covered: two sessions of the indexer that write links at
once (section 6), which may root orders of one lineage in no order; and the
rows of orders whose own transaction was rolled back, which stay (section 6). **Positions** groups the rows as the page of the wallet's own
orders shows them. Labels, fractions and the history in the browser's storage
are left out, as is the choice of the pair.

## 3. Runs

| Run | Question | Bounds | States |
|---|---|---|---|
| `orders` | can any sequence of transactions, correct or nearly so, cheat a seller, misplace a beacon, erode a deposit or be late; does the chain implement the abstract book | 4 transactions, 2 keys, ADA and one token; batches of 2; every near miss of `MCOrderLedger`; an imitation that names a policy of its own or this one beside an order, before or after it; and, with 3 transactions, times 0..2 and upper bounds around an expiration of 2, each field of a creation altered in turn | 46 k |
| `sync` | a sync against a moving chain with mixed batches; and what both providers say of each such chain, with any endpoints failing and any redeemers lacking | 3 transactions, 2 owners, wallet inputs sorted first or last, both repositories | 1.2 M |
| `faults` | does the book converge | 2 transactions, any two faults of six kinds, the PostgreSQL repository (the other has nothing left after a restart) | 581 k |
| `repair_heals` | does repairLineage, beside a sync that a restart cuts short anywhere, keep links true and restore those that are missing | 3 transactions, batches of one, a restart, the PostgreSQL repository | 680 k |
| `take` | is what is built accepted, and honest, while others place, take and cancel | 3 transactions, times 0..4 with 2 to a slot, batches of 2 with every amount | 428 k |
| `plan` | is every quote sound and as good as can be; does every reported cycle pay, and is every cycle that pays reported | books of up to 3 orders with offers 1, 3, 4 and asks 1, 2, 3, 5, an expired one, one of the other side; every budget and target 1..7; dust threshold 2; books with cycles of 2 and of 3 assets, amounts 2, 3, 5, second orders on an edge | 310 k |
| `flow` | can edits, answers out of order, rejections, failures and other takers make the panel execute what it should not | 2 books of 2 orders, batches of 1, 3 edits or changes of tab, 3 quotes per mount, 2 clicks, 2 mounts | 3.5 M |
| `settings` | can overlapping, refused, failing or interrupted requests make settings shown, running and kept differ | 2 clients, 3 builds of a provider, 2 crashes; forms that send all fields, scripts that send some; a valid and an invalid project id | 399 k |
| `pages` | can lagging rows, other traders, rejections, failures and dismissals make the pages claim, take or execute what they should not | an order filled in parts, three claims, a cycle; 2 orders spent by others, one row closed by mistake, 3 clicks, 2 mounts | 402 k |
| `leak`, `interrupted`, `stale_quote` | the disagreements of section 6 | as small as shows them | |

Why these bounds are enough: a pairing, counting or double-satisfaction error
needs two orders and one transaction that spends both, three transactions in
all; a fourth lets the result be filled again. No rule reads an order that a
transaction leaves alone, so two at a time are open. An imitation is spent by
the second transaction, beside an order that is taken in full, in part or
cancelled, with up to two outputs for the beacons; the later ones settle what it
leaves, stray beacons included. Ids are chosen freely among
`TxIds`, so every relation between the order of submission and the ledger's
order of inputs occurs. Owners: two, because a holder's UTxOs are fetched
together and two holders' are not. Lineage needs a fill of a fill, hence three
transactions wherever a root is in question; `faults` asks only about the book
and makes do with two and a second fault instead. Its chains have no fill of a
fill, so a walk that is cut short there comes to the right root all the same;
with three transactions, one session, batches of one and all faults but `swap`
`Converges` holds too (717 k states), and what the fault does to lineage is in
section 6. Two confirmations are the
least that makes an order be passed over first. `MaxHeight` and `LastHeight`
leave a block after the last transaction so that every order can be confirmed.
Amounts are chosen so that ceilings really round (3 for 4, 6 for 7, 5 for 10)
and fills of every size occur. Three orders are what it takes for the planner
to pass one over, take one whole and one in part. In `flow`, batches of one
order make routes of two batches; two clicks let two builds overlap, three
quotes let an answer be overtaken and a re-plan follow, and three edits let the
form change, change back and change tab around them. Cycles of the arbitrage
planner have two or three legs, and a second order on an edge is what it takes
to choose the wrong one. Two settings requests are enough for every overlap of
two writers, a third build for one that follows them. In `pages`, three claims
make a queue that goes on after it has gone on; an order of 5 for 4 is filled
by parts that round, and a line of three orders is the shortest in which a link
that comes late gives a root of its own. One row closed by mistake is shown
beside any others; what a status does to a position depends on its tip, and
`LiveRowsAlwaysCancellable` is for any number of them. The starts that need a
wallet with history begin some clicks in, and the three claims and the book
begin on the last page that is opened.
`CHECK_DEADLOCK FALSE` is set for `orders`, whose chain stops when the ids are
used up, for `plan`, whose behaviours are one quote or scan, and for `pages`,
where the clicks are used up and everything may be done; the indexer, the
builder, the trade panel and the settings never stop.

Liveness (`Converges`, `RepairHeals`) assumes weak fairness of each process's
`Step` (Node's event loop runs what is pending and every provider call answers
or throws, the interval timer fires again), of `RepairNext` (a repair under way
goes on), and of `Block`. `QueueMovesOn` assumes weak fairness of `Watched`, the
chain including the transaction that is waited for as long as its inputs are
there, and of `onSettled`, the status view asking on. Nobody is forced to trade
or to sign and no fault is forced.

## 4. What the properties say

- `BeaconsNeverLeak`, as the contracts claim it: each output with even one
  beacon is a well-formed order with exactly its own five. It is false (section
  6); `BeaconsMarkOrders` says that it holds as long as no imitation was taken in
  part beside an order taken in full. `SellersPaid`: each key has received in every asset
  at least what its orders were owed. `FillsPaidProRata`, `RoundingBounded`,
  `DepositRetained`: the arithmetic of fills over the whole life of an order.
  `NoLateTake`, `Reclaimable`, `PairsTakeable`: expiry, cancel, joint takes.
- `ImplementsOrderBook`: as long as the chain is not mixed, and under the mapping *open order = lineage, terms = datum
  of its only UTxO*, every step of the ledger is a step of `OrderBook`: one
  order placed, one withdrawn, or a set traded, each leg at its own price.
- `CacheTrue`: what a row says of a spent order is true (`StatusTrue`), every
  link is (`LineageTrue`), and between syncs no open continuation lacks its link
  (`ContinuationsLinked`). `NeverHidesLive`: what leaves the book was spent.
  `LinksTrue`: what a restart leaves is true in every row and in every link's
  parent, and its root is an order of the same lineage. It holds in larger
  bounds too (two blocks of confirmation, another block: 1.2 M states; one and
  another block: 4.1 M), where a root is the wrong one (section 6).
  `Converges`, `RepairHeals`: the indexer recovers.
- `ProvidersAgree`: through either service the indexer sees the chain it is
  modelled against, spends in the block of creation included.
  `NeverMisclassified`: whatever fails or is lacking, the answer to "how was
  this spent" is right or `unknown`, and a fill is linked to its own
  continuation as long as no redeemer is lacking.
- On chains that are not mixed, `OnlyStaleRefused`: a built transaction is refused only when an input is gone
  or its interval is over. `QuoteHonest`: the wallet's balance is what the
  summary said. `BookServed`: each order on the chain is recognised off-chain,
  cancellable, and takeable until the slot of its expiration.
- `QuoteFillable`: the builder and the scripts accept every leg of a quote;
  `QuoteServesBudget`: at most the budget is spent, and no order that fits in
  what is left was passed over; `QuoteServesTarget`: a target is met exactly when
  it can be and, when all orders may be filled in part, no other way to reach it
  costs less.
- `CyclesSelfFund`: taken together the legs of an opportunity lose in no asset
  and gain in one after costs, and each is accepted. `CyclesFound`: no cycle
  of the candidates that gains and loses nothing goes unreported, and each is
  reported once, trimmed no more than it needs.
- `OnePoller`: at most one indexer polls, the one the routes use.
  `RunningIsShown`: the settings shown are those the provider runs on.
  `SurvivesRestarts`: a restart loads them (`Persisted`), and whenever the
  backend crashes it can be booted from its file (`Bootable`). They name the
  overlaps and interruptions after which they fail (section 6): what is lost
  then is exempt, and only `Bootable` speaks of an interrupted write.
- `RouteBudget`: the submitted batches of one click spend no more than the
  maximum their route was planned for. `BatchesInOrder`: no batch is built
  before its predecessor has settled. `RestingRouteCurrent`: with nothing under
  way, the route on display answers the form, unless the last quote was sent
  late, the case that `stale_quote` is about (section 6). `LatestAnswerShown`: an earlier answer never replaces a
  later one.
- `ClaimsInTurn`, `QueueOnlyBehindClaim`, `QueueMovesOn`: a queue of claims goes
  on one settlement at a time (`OneClaimAtATime`), claims nothing twice
  (`ClaimedOnce`), ends with the first error or early leave, and does not stand
  still.
  `LiveRowsCancellable`: whatever became of the other rows, each live order that
  is displayed as open is the tip of one position, which can be cancelled. `HistoryTrue`: once its rows are
  true, a position's fills add up to what was sold and paid.
  `PartialTakesFillable`: the editor sends only amounts the script accepts.
  `ExecutedCyclesPay`: a cycle that settles pays, however old its scan.

## 5. Proofs

TLAPS checks the following for every value of the constants: any set of ids,
keys and amounts, any book, any length of a behaviour.

| Module | Theorem | Statement |
|---|---|---|
| `OrderLedger_proofs` | `TypeCorrect` | `Spec => []TypeOK` |
| | `BeaconsAlwaysMarkOrders` | `Spec => []BeaconsMarkOrders`: `~mixed => BeaconsNeverLeak`, always |
| | `FillsAlwaysPaidProRata`, `RoundingAlwaysBounded`, `DepositAlwaysRetained` | the arithmetic over any number of fills, on chains that are not mixed |
| | `SellersAlwaysPaid` | `Spec => []SellersPaid`, mixed or not |
| | `NeverTakenLate`, `AlwaysReclaimable`, `PairsAlwaysTakeable` | expiry, cancel, joint takes, mixed or not |
| | `ChainImplementsOrderBook` | `Spec => ImplementsOrderBook`, the refinement, until the chain is mixed |
| | `OnlyStaleOrdersRefused` | `BuilderSpec => [](~mixed /\ AnswerFresh => Accepted(job.tx))`: the ledger's own rules and both scripts pass whatever was built, unless it is stale |
| | `BuiltRefusedOnlyWhenStale`, `BookAlwaysServed` | `BuilderSpec /\ []OthersPlaceAlike => []OnlyStaleRefused`, and `=> []BookServed` |
| | `QuotesAlwaysHonest` | `BuilderSpec => []QuoteHonest` |
| `Settings_proofs` | `OnePollerAlways`, `ShownAlways`, `SettingsSurvive` | `OnePoller`, `RunningIsShown`, `SurvivesRestarts`, always |
| `Indexer_proofs` | `TypeCorrect`, `StatusAlwaysTrue` | `TypeOK` and `StatusTrue`, always, under every fault |
| | `LiveNeverHidden` | `Undisturbed => (Spec => NeverHidesLive)` |
| | `CacheAlwaysTrue` | `Uninterrupted => (Spec /\ []WithinReach => []CacheTrue)` |
| | `ProvidersAlwaysAgree`, `NeverMisclassifies` | `ProvidersAgree`, `NeverMisclassified`, always |
| `SmartFill_proofs` | `PlanFillable`, `PlanServesBudget`, `PlanMeetsTarget` | `planSmartFill` computes a route that is fillable, within its budget and wastes none of it, meets its target |
| | `PlanCheapest` | it meets a target at the least cost of all ways to fill the book, when every order may be filled in part |
| | `ReportedRiskless`, `RisklessFundsItself` | what `findArbitrage` reports is riskless, and what is riskless funds itself |
| `Planners_proofs` | `QuotesFillable`, `QuotesServeBudget`, `QuotesServeTarget` | `QuoteFillable`, `QuoteServesBudget`, `QuoteServesTarget`, always |
| | `CyclesFundThemselves` | `Spec => []CyclesSelfFund` |
| `TradePanel_proofs` | `RestingRouteAlwaysCurrent` | `Spec => []RestingRouteCurrent` |
| | `LatestAnswerAlwaysShown` | `Spec => LatestAnswerShown`, an action property |
| | `RoutesKeepBudget`, `BatchesAlwaysInOrder` | `RouteBudget`, `BatchesInOrder`, always |
| `WalletPages_proofs` | `QueueAlwaysBehindClaim`, `ClaimsAlwaysInTurn` | `QueueOnlyBehindClaim`, `ClaimsInTurn`, always |
| | `LiveRowsAlwaysCancellable` | `Spec => []LiveRowsCancellable` |
| | `PartialTakesAlwaysFillable` | `Spec => []PartialTakesFillable` |
| | `ExecutedCyclesAlwaysPay` | `Spec => []ExecutedCyclesPay` |

**Assumptions.** Those on constants that the modules name, and TLC evaluates in
every run of them: what a unit and a credential is, that ids are numbers, that
`None` and `Thrown` are nothing an endpoint answers, that a batch has an order
at least, that the orders to begin with have positive amounts and ids that
differ modulo `RestId` (a continuation's id is its parent's plus `RestId`).
Of the books of `Planners`: that orders differ in their ids and their terms are
whole numbers. Of the builder's configuration: that the deposit and the
lovelace of a payment are no less than the ledger's minimum (`MinAda`); of the
requests: that addresses are addresses and amounts natural numbers, which the
routes' parsing sees to (`routes/tx.ts:17` and `:44`).
`Submit` is taken with `TypedTransaction` (natural quantities in outputs), which
is in `Next`. Four hypotheses stand in theorems:

- `Undisturbed`: no page of orders is lost, no session is replaced, no block is
  rolled back, and no restart empties the cache. Each of the four does hide live
  orders, for a while (`Converges`); calls that throw, walks cut short, restarts
  with PostgreSQL and repairs beside a sync are allowed.
- `Uninterrupted`: no fault but lost pages. A restart, a thrown call or a walk cut
  short leaves a link out for good (section 6), a rollback changes what links
  are true, and a second session writes beside the first.
- `WithinReach`: no order is filled `MaxAncestry` times or more, the bound at which
  a walk stops in the code too.
- `OthersPlaceAlike`: an order that somebody else mints has, as this backend's
  have, a payment address without a script for its stake part and a deposit of
  at least `MinAda`. The minting policy demands neither, and without it both
  `BookServed` and the part of `OnlyStaleRefused` about the ledger's minimum are
  false (section 6). `OnlyStaleOrdersRefused` and `QuotesAlwaysHonest` do
  without.

**Sums and ranks** (`CountingTheorems`). The library's induction over finite
sets takes an operator as a parameter, which no prover here can instantiate, so
induction is by the least counterexample: `SubsetInduction` says of a family of
subsets, given as a set, that it contains all when it contains the empty one
and grows by one element. From it come what the folds of the models compute:
`SumIsValue`, `SumRemove`, `SumUnion`, `SumImage`, `SumDifference` for sums,
`LeftFold` and `LeftSum` for `FoldLeft`, and that the elements of a finite set in a total order have the
ranks 0, 1, 2..., each once (`RanksFill`).

**The ledger: the trust chain.** `TypeOK` is inductive by itself (`InitTyped`,
`NextTyped`), as the histories count nothing for what is no order. On the chains
that are not mixed an output with a beacon is an order because its parent was:
the invariant is `Chain`, `TypeOK` with `~mixed` and `BeaconsNeverLeak`, and
every accepted transaction keeps it or makes the chain mixed (`NextChain`), which
it stays. The step is in three parts. A beacon in an output comes
from an input or from a mint (`NoBeaconsFromNothing`, by injecting tokens). If
the transaction mints, the policy admits only complete orders (`MintedOrder`).
If not, an order cancelled leaves no beacons in outputs. With an order taken in
full there are as many outputs with beacons as inputs taken in part, so that
ranks pair them one to one (`RanksCover`, `OutputRanks`, `EveryOutputPaired`),
and the inputs are orders, or the transaction were mixed. Without one, each order leaves
its beacons to its own continuation, and no others are left (`OthersMinted`).
The continuation rule makes what is paired a well-formed order (`ContinuationWellFormed`).

*Prices.* `PriceChain` adds `Priced`, which relates each order to what it was
placed as: pro rata from below, one unit per fill from above, same deposit. The
bounds are chained through the cross-multiplied inequalities `PriceKept` and
`OneUnitOfRounding`; nonlinear steps are isolated in `TimesMonotone` and
`TimesCancel`. The bounds need each other's range facts, which is why they form
one invariant. `SellersPaid`: the payments that different inputs require are
different outputs, so that the sum over outputs is at least the sum over inputs.

*Time.* `Timely` adds `NoLateTake`: an accepted take has an upper bound at most
the expiration and the ledger's clock is below it. `AlwaysReclaimable` and
`PairsAlwaysTakeable` evaluate the scripts on the transaction in question. All
three, and `SellersPaid`, need no more than `TypeOK`: they hold for every
well-formed order on mixed chains too.

*Refinement.* The book's orders are lineages, and the mapping reads the datum of
*the* UTxO of a lineage: `BookChain` adds that no two are of one lineage
(`OneUTxOEach`). `PriceChain`, `BookChain` and `BuilderInv` below are invariants
of the chains that are not mixed, like `Chain`. An accepted transaction mints, burns or trades, and
each is a step of `OrderBook`.

**The builder.** `BuilderInv` is `Chain` with `JobOver`: what a request has noted
of an order is what is on the chain for as long as the order is there, because a
transaction's outputs never change and ids are never used twice (`SeenAfter`). So
the awaits between the legs of a batch do no harm, and neither does whatever
happens before it is submitted. What remains is to evaluate the rules on the transaction. Sorting
permutes the legs into the ledger's order (`SortedLegs`); the fold over the legs
lays their outputs out one after the other, each payment followed by its
continuation, if there is one (`LaidOut`, by induction in `BatchLaidOut`). Hence the
continuations are the only outputs with beacons and pair by rank with the
partial inputs (`RanksOfTake`), each tag is on one output (`PaymentOfLeg`), what is
burnt and what is continued add up to the beacons of the inputs (`TakeConserves`),
and the rounded deadline is early enough for each leg (`DeadlineInTime`).
`AllServiceable`, for the ledger's minimum, is kept by fills because the deposit
is. A quote is honest leg by leg (`NetOf`); the sums over inputs and outputs are
turned into sums over legs (`InputsWorth`, `OutputsWorth`), of which any order
will do.

**The settings.** `IInv` says what each request under way knows: `BuiltFromTarget`
(the provider it has built is of the settings it is going to keep),
`FileOfTheOnly` and `FileIsMemory` (what the file contains at every step of the
only writer), `CompanyOnRecord` (if there are two, `blemish` says so).

**The indexer.** `CacheInv` says what each process remembers across its awaits
(`Remembers`): orders once seen, links and verdicts that were true of some
block and stay true of the transaction, on the chain or not. `LiveInv` adds for `LiveNeverHidden`
what the sync has seen: a live order in the book is in `seen` or its holder's
page has yet to come. `BackInv` adds for `CacheAlwaysTrue` what a walk has done
so far, that rows are linked but for the one in hand, and the chain's own part
`ChainPaired`: by ranks, the continuation that the indexer finds for a spent order is
the one that continues it.

**The providers.** They have no state, so what is proved is that in every
reachable state of the indexer's chain their answers agree. `HistoryInv` and
`BatchInv` are what a chain satisfies: an order is spent once at most, by another
transaction and not before its own block, and no transaction has more than
`MaxBatch + 1` inputs.

**The planners.** A plan is a fold over the ranking; the invariants of the fold
are `Budgeted` and `Targeted`: what the legs so far leave pays for none that was
passed over, and a target is approached by whole legs of all orders so far.
`maxTakeForSpend` is the largest affordable take (`LargestTake`), which is what
`residual` needs. `PlanCheapest` measures all orders at
the price of the last one taken, `k`: filling one of those before it saves at
most its `gains`, and one of those after it nothing. Whatever reaches the target
therefore costs, times the offer of `k`, at least the target at that price less
all the gains; the plan has all of them, and rounds up once, to the least whole
amount of which that is true (`Least`).

A cycle is sized by a fold as well, whose invariant `Sized` says that each leg is
whole or what the leg before it delivers can buy. So what a wallet has of the
asset in hand never falls below zero, and its net in an asset is what the one leg
that delivers it leaves over what the one leg that costs it takes
(`NetIsGains`): orders around a cycle ask for different assets (`Around`). The
best of the rotations is one of them (`BestIsRotation`), and riskless by the test
it has passed. `PlannersInv` carries both to the endpoints: the cache is one of
`Books`, and an answer is the plan or the scan of it.

**The panel.** `QuoteInv`: the last quote sent is for what the form says, or another
is due, or it was sent late; and the route of an earlier one is on display only
while the last is under way. `RoutesInv` and `TxsInv`: the batches still to come, the one
in hand and those submitted are parts of one route, without overlap, which
makes the sum of `RouteBudget`. `OrderInv`: at most one batch of a click is
anywhere between being built and being settled, and those before it are.

**The pages.** `RowsInv` and `FlowInv`: rows are of orders with different ids, and
of the claims of one click one at most is in any stage, with the rest in the queue. For
`LiveRowsCancellable`, `LineInv`: the orders of one lineage are the ids of one
residue, each filled but the last, which alone may be open; and `TruthInv`: the
rows shown are linked as the indexer links, so that no live order is shown as
the parent of another. Statuses may be wrong in every row but the one in
question. Then
within a group of rows the links lead from row to row in steps of one lineage
(`ChainInSteps`), so the rows without a child are the tips, a live order has no
child, and each row is listed in one group (`ListedOnce`, with a count of roots
and chains). The proof found an error of an earlier form of the model: the cache
was allowed to link each row to any ancestor independently, and then a live order can
be on display in no position or in two. The indexer does not do that, since a root is
copied from the parent's row; the model now says so.

For what is sent to be taken, `PagesInv` adds `TradesInv`. The terms of an order
never change and none leaves `ledger` (`TermsStay`), so what was sound of the
orders when a page showed them stays so: `ShownSound` of the rows and
opportunities on display, `RequestsSound` of every request that is built, signed,
waited for or settled. The editor clamps a partial take to the row (`EditorSends`), and
a continuation is an order of its own, so an old row makes a request that fails,
never one that the script refuses of an open order. A cycle is sent as the scan
reported it (`CycleSent`, from `ReportedRiskless`), and what settles is exactly
what was sent.

**Only model-checked.**

- `CyclesFound`: that the best of the rotations is as good as any way to size the
  cycle, which is a claim about all amounts of a fold;
- `HistoryTrue`: a sum along a line of orders whose length is arbitrary, over
  lists that a filter of the library makes;
- all liveness (`Converges`, `RepairHeals`, `QueueMovesOn`): the prover
  has no rules for fairness and `ENABLED`.


## 6. Where the code departs from what is said of it

Each is a run that TLC refutes:

- `interrupted`: a row is cached before its ancestry is walked, and the walk is
  tried only for orders without a row. A restart between the two leaves the
  continuation unlinked; no later sync walks it, and when it is filled in turn it
  is recorded as the root of what follows, for good. `repairLineage` heals it if
  it is called before the next fill (`repair_heals`).
- `stale_quote`: after a route is left, settled or failed, the panel reindexes
  and then quotes for the wish of *before* the reindex. If the user changes the
  maximum meanwhile, the late quote has the highest number, the answer for the
  new maximum is dropped, and the route for the old one stays, ready to execute.

- `leak`: `partial_take_refs` counts every input at the validator's address that
  is spent by a partial take, also one that carries no beacons and whose datum
  names another policy, while `beacon_bearing_outputs` counts the outputs with
  beacons of this one. With such an input beside an order taken in full the two
  counts are equal when one output keeps the order's beacons. No partial take
  pins that output and no policy runs, since nothing is burnt. So beacons may
  lie on an output that is no order, or on one that nobody placed by the policy.
  `order_rules.ak:103` says that "no beacon can leak anywhere else", lines
  117-118 that the beacons of an order taken in full "MUST be burned by value
  conservation", and lines 15-17 that "Beacon-less imitations are invisible to
  discovery and can't hurt anyone but their creator". Nothing else makes a beacon leak:
  `BeaconsAlwaysMarkOrders` is for any offered transactions, with any other
  imitations among the inputs. What sellers are paid, when, and what owners can
  take back does not rest on it (section 5); what the indexer and the builder
  take for granted does.

Seen while modelling, without a run. In the indexer:

- a continuation that step 1 has seen unconfirmed is not surfaced by step 2 of
  the same sync, although its parent is closed (`docs/partial-fills.md:120-123`
  promises "no vanish window"); it enters the book when it is confirmed;
- `getUtxosByAddress` answers an empty list for any error, so one failed
  request closes a holder's live orders until the next sync (`faults` shows
  that they come back);
- `stop()` does not wait for a sync under way; after a settings change two
  indexers write the cache, and one may take for a root a continuation that the
  other has cached but not yet linked;
- with Koios a failed request for redeemers answers an empty list
  (`chain-provider.ts:577`), so an ancestry walk ends at a continuation and
  records it as the root, for good; `order-indexer.ts:251-254` says that every
  link's root is correct and that a walk that stops short leaves an unlinked
  order. With the fault kind `redeemers` alone, `MCIndexer_interrupted.cfg`
  refutes `LineageTrue` too;
- Blockfrost redeemers whose datum cannot be read are skipped
  (`chain-provider.ts:276`); lacking that of another partial fill, the ranks
  shift and a fill is linked to the continuation of another order;
- when a partial fill is rolled back, the row of its continuation stays, as
  `unknown` and linked (`order-indexer.ts:205-206` says that "the child
  vanishes"): the owner's position then ends in it and the order, live again,
  cannot be cancelled from the page;
- a failed `getUtxosByAddress` (`chain-provider.ts:126-131`) or a spend that is
  rolled back closes the row of a live order (`order-indexer.ts:190-195`,
  `:461-462`), which `positions.ts:140-141` does not let its owner cancel until
  it has been read again.

In the planner: "fill as much as possible without exceeding `limit`"
(`smart-fill.ts:18`): the loop passes over a cheap order that is larger than the
budget and spends it on dearer whole orders, even if the cheap one may be filled
in part. The partial leg is tried afterwards, with what is left
(`smart-fill.ts:183`).

In the settings (`settings-store.ts:8-11` says that they survive restarts):

- two overlapping requests that send some of the fields are each checked against
  the settings before the other: memory and `GET /settings` may say Koios while
  Blockfrost runs, and the file may get a pair no check has seen, Blockfrost with
  an id its constructor rejects, so that the backend cannot boot until the file
  is removed;
- a write that overlaps another or is cut short leaves an empty or garbled file,
  which is read as none: the environment's settings are back.

In the pages of orders:

- after a claim settles the page asks for its rows and does not reindex, so the
  claimed order may still show as claimable (`OrderBook.tsx:222-227` reindexes
  for that reason);
- a position that was unticked is ticked again when a fill changes its tip
  (`MyOrders.tsx:42-46`);
- unticking an order while a claim is built does not take it off the queue;
- a claim whose order is spent by somebody else after it was submitted is waited
  for until the user leaves;
- a cancelled order shows as filled to the whole (`positions.ts:119-139`);
- the book never clears an error, so after one failed refresh it is unavailable
  until it is opened again (`OrderBook.tsx:181-199`).

In the panel:

- a late answer overwrites the amount typed on the limit tab, or on the other
  side within the 300 ms of the debounce (`TradePanel.tsx:56-57` promises that
  switching "never resets" the amounts);
- the reindex after a failed batch is skipped within 20 s of the last sync, so
  the new plan may contain the order that has just failed
  (`TradePanel.tsx:263-269`);
- "Take best order only" stays enabled while a build is under way, so two builds
  can overlap and the preview shows the one that returns last;
- clearing the form while a quote is under way leaves it marked as quoting;
- a route that fails after its first batch is planned again for the full
  maximum (`docs/smart-fill.md:53` speaks of the remaining budget);
- the dust threshold holds for budgets, not for targets, and the warning that
  "the remaining orders don't allow partial fills" also appears when they do but
  a single unit costs more than is left.

In the builder and codec: `datum.ts` rejects a
payment address with a script staking part, which the policy accepts, so such
an order exists that the backend neither lists nor cancels. `buildCreateOrder`
accepts such an address in a request and stores it without that part while the
summary names the requested one. And an ADA offer placed elsewhere with a tiny
deposit is valid, but the payment of its full take carries just that deposit
and may be below the ledger's floor, so the built take is refused although
nothing is stale. Hence the hypothesis `OthersPlaceAlike` in section 5; in the
`take` run others place theirs with what `buildCreateOrder` makes.

## 7. Not modelled, and the plan

Left out for good: rendering, formatting and fetch calls of the frontend, asset
metadata, the list of submitted transactions in the browser's storage and in
`tx_history` (nothing reads either but its own view), deployment, end-to-end
scripts, HTTP paging of the provider, byte encodings of datums and names, the
conversions of the wallet adapter. Left out so far, in the order planned:

1. Proofs: `HistoryTrue`, a sum along a line of orders; `CyclesFound`.
2. Legs of a quote against the builder's `leg_ok`: composing `SmartFill` with
   `TxBuilder`.
3. The submission of limit orders with the validation of its form, and the
   choice of collateral.

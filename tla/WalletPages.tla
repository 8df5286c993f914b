------------------------------ MODULE WalletPages ------------------------------
(***************************************************************************)
(* The pages that list orders and act on them: the wallet's own orders     *)
(* with their claim queue (frontend/components/MyOrders.tsx), the order    *)
(* book of a pair (OrderBook.tsx) and the arbitrage scanner                *)
(* (ArbitragePanel.tsx), one of them at a time, each with a useTxFlow of   *)
(* its own.                                                                *)
(*                                                                         *)
(* What a page shows is an answer of the backend, read from its cache, and *)
(* the cache lags behind the chain row by row: a row is inserted open, is  *)
(* marked when its spend is classified, and is linked to its parent once   *)
(* the parent has a row.  A read that failed, or a spend that was rolled   *)
(* back, leaves the row of an order closed or unknown, also of one that is *)
(* on the chain.  An answer is any such view of the chain, which covers    *)
(* answers that are late or come out of order.  An order whose own         *)
(* transaction is rolled back is outside of this model.  Others take and   *)
(* fill orders, the owner cancels from elsewhere, and at time 1 the orders *)
(* with an expiration expire.                                              *)
(***************************************************************************)
EXTENDS TxFlow, Arbitrage, Positions

CONSTANTS
  Me,         (* the owner whose wallet is connected                         *)
  Starts,     (* what to begin with: a book, a page, its mount and clicks    *)
  Closings,   (* bound: what a misread or a rollback may close a row as      *)
  MaxClosed,  (* bound: rows of an answer that are closed so                 *)
  MaxSpent,   (* bound: orders spent by the time that others still act       *)
  MaxClicks,  (* bound: transactions and refreshes asked for by hand         *)
  MaxMounts   (* bound: pages opened                                         *)

ASSUME WalletAssumption ==
  /\ Closings \subseteq {"unknown", "taken", "cancelled", "partially_filled"}
  /\ \A s \in Starts : s.mount \in Nat /\ s.clicks \in Nat
  /\ \A orders \in InitialBook :
       /\ IsFiniteSet(orders)
       /\ \A o \in orders :
            /\ DOMAIN o = {"id", "owner", "offer", "ask", "offeredAmount", "requestedAmount",
                           "allowPartialFill", "expiration"}
            /\ o.id \in Int
            /\ o.offeredAmount \in Nat \ {0} /\ o.requestedAmount \in Nat \ {0}
       /\ \A o, p \in orders : o.id % RestId = p.id % RestId => o = p

VARIABLES
  ledger,      (* every order there ever was: its row as it truly is         *)
  clock,       (* 0, or 1 once orders have expired                           *)
  page,        (* "orders", "book" or "arbitrage"                            *)
  mount,       (* how many pages were opened                                 *)
  shown,       (* the answer on display, or None                             *)
  failed,      (* the book shows an error of a refresh or of a reindexing    *)
  fetches,     (* refreshes under way                                        *)
  resyncing,   (* a reindexing asked for by this page is under way           *)
  claimQueue,  (* orders to claim after the one in progress                  *)
  deselected,  (* tips that the user unticked                                *)
  clicks       (* counter                                                    *)

Pages == {"orders", "book", "arbitrage"}

display == <<page, mount, shown, failed, fetches, resyncing, claimQueue, deselected, clicks>>
vars == <<chain, flow, builds, signings, ledger, clock, display>>

----------------------------------------------------------------------------
(***************************************************************************)
(* The chain and the cache.                                                *)
(***************************************************************************)
row(o, parent, root) ==
  [ id |-> o.id, owner |-> o.owner, offer |-> o.offer, ask |-> o.ask,
    offeredAmount |-> o.offeredAmount, requestedAmount |-> o.requestedAmount,
    allowPartialFill |-> o.allowPartialFill, expiration |-> o.expiration,
    status |-> "open", parentOrderId |-> parent, rootOrderId |-> root ]

trueRoot(id) == IF ledger[id].rootOrderId = None THEN id ELSE ledger[id].rootOrderId

SpentIds == {id \in DOMAIN ledger : ledger[id].status # "open"}

(* The rows after the chain has gone from book to book', where the orders  *)
(* that are gone were closed like this unless they have a continuation.    *)
Recorded(closed) ==
  LET left == {o.id : o \in book'}
      new  == {o \in book' : o.id \notin DOMAIN ledger}
  IN  ledger' = [id \in DOMAIN ledger \cup {o.id : o \in new} |->
        IF id \in DOMAIN ledger
        THEN [ledger[id] EXCEPT !.status =
                IF @ # "open" \/ id \in left THEN @
                ELSE IF id + RestId \in left THEN "partially_filled" ELSE closed]
        ELSE row(CHOOSE o \in new : o.id = id, id - RestId, trueRoot(id - RestId))]

(* A taker's transaction is not valid after an order in it has expired.    *)
InTime(tx) ==
  tx.kind = "take" => \A id \in taken(tx) : ~isExpired(ledger[id], clock)

Fillable(o) == {t \in 1..(o.offeredAmount - 1) : requiredPayment(t, o) < o.requestedAmount}

SettleTx(tx) ==
  /\ InTime(tx)
  /\ Settle(tx)
  /\ Recorded(IF tx.kind = "cancel" THEN "cancelled" ELSE "taken")

SomeoneCloses(o) ==
  /\ SomeoneTakes(o)
  /\ \/ Recorded("cancelled")
     \/ ~isExpired(o, clock) /\ Recorded("taken")

SomeoneFills(o) ==
  /\ o.allowPartialFill /\ ~isExpired(o, clock)
  /\ \E t \in Fillable(o) : book' = (book \ {o}) \cup {rest(o, partialLeg(o, t))}
  /\ UNCHANGED <<pending, settled>>
  /\ Recorded("taken")

ChainStep ==
  /\ \/ \E tx \in pending : SettleTx(tx)
     \/ /\ Cardinality(SpentIds) < MaxSpent
        /\ \E o \in book : SomeoneCloses(o) \/ SomeoneFills(o)
  /\ UNCHANGED <<flow, builds, signings, clock, display>>

Tick ==
  /\ clock = 0 /\ clock' = 1
  /\ UNCHANGED <<chain, flow, builds, signings, ledger, display>>

----------------------------------------------------------------------------
(***************************************************************************)
(* What the backend answers.                                               *)
(***************************************************************************)
(* The order that the cache takes for the root of a linked one: the        *)
(* nearest one above it that had no link by then.                          *)
cachedRoot(id, unlinked) ==
  Max({a \in unlinked : a < id /\ trueRoot(a) = trueRoot(id)})

(* The row of an order with the status that the cache has for it, which    *)
(* may be linked later than it happened.                                   *)
cached(id, status, linked, unlinked) ==
  [ledger[id] EXCEPT !.status        = status,
                     !.parentOrderId = IF linked THEN @ ELSE None,
                     !.rootOrderId   = IF linked THEN cachedRoot(id, unlinked) ELSE None]

(* Rows whose parent has one.                                              *)
linkable(rows) == {id \in rows : ledger[id].parentOrderId \in rows}

(* How the cache lags with these rows: which are still open to it, which    *)
(* are closed otherwise than they are on the chain, if they are, and which *)
(* have no link, or got it later than their children.                      *)
lags(rows) ==
  [stale  : SUBSET (rows \cap SpentIds),
   closed : UNION {[S -> Closings] : S \in {T \in SUBSET rows : Cardinality(T) <= MaxClosed}},
   link   : [linkable(rows) -> {"in time", "late", "lacking"}]]

statusIn(lag, id) ==
  IF id \in DOMAIN lag.closed THEN lag.closed[id]
  ELSE IF id \in lag.stale THEN "open" ELSE ledger[id].status

(* A row is linked to the root of its parent, which is the parent itself   *)
(* if that had no link in time.                                            *)
view(rows, lag) ==
  {cached(id, statusIn(lag, id), id \in linkable(rows) /\ lag.link[id] # "lacking",
          {a \in rows : a \in linkable(rows) => lag.link[a] # "in time"}) : id \in rows}

views(rows) == {view(rows, lag) : lag \in lags(rows)}

(* Rows of some continuations are missing.                                 *)
caches ==
  UNION {views(DOMAIN ledger \ missing) :
           missing \in SUBSET {id \in DOMAIN ledger : ledger[id].parentOrderId # None}}

(* The newest first, as they were created.                                 *)
listByOwner(rows, owner) ==
  LET mine     == {r \in rows : r.owner = owner}
      newer(r) == {q \in mine : q.id > r.id}
  IN  [n \in 1..Cardinality(mine) |-> CHOOSE r \in mine : Cardinality(newer(r)) = n - 1]

(* What the cache may take for the open orders: some that are spent, and   *)
(* not some that are live.                                                 *)
openOrders ==
  { {[ledger[id] EXCEPT !.status = "open"] : id \in known} : known \in SUBSET DOMAIN ledger }

orderbook(orders, now) == {o \in orders : ~isOrderExpired(o, now)}

Answers(p) ==
  CASE p = "orders"    -> {listByOwner(rows, Me) : rows \in caches}
    [] p = "book"      -> {orderbook(orders, now) : orders \in openOrders, now \in 0..clock}
    [] p = "arbitrage" -> {findArbitrage(orders, now) : orders \in openOrders, now \in 0..clock}

----------------------------------------------------------------------------
(***************************************************************************)
(* Refreshing.                                                             *)
(***************************************************************************)
refresh == fetches' = fetches + 1

(* Nothing orders the answers.                                             *)
Answered ==
  /\ fetches > 0 /\ fetches' = fetches - 1
  /\ shown' \in Answers(page)
  /\ UNCHANGED <<chain, flow, builds, signings, ledger, clock, page, mount, failed, resyncing,
                 claimQueue, deselected, clicks>>

(* The book forgets no error; on the other pages it is a line of text.     *)
fails == failed' = (failed \/ page = "book")

FetchFails ==
  /\ fetches > 0 /\ fetches' = fetches - 1
  /\ fails
  /\ UNCHANGED <<chain, flow, builds, signings, ledger, clock, page, mount, shown, resyncing,
                 claimQueue, deselected, clicks>>

(* The list is on screen; the book is not once there was an error.         *)
listed ==
  /\ flow.step \in {"idle", "building", "error"}
  /\ page = "book" => shown # None /\ ~failed

(* Its buttons are enabled.                                                *)
enabled == listed /\ shown # None /\ flow.step # "building"

hardRefresh ==
  /\ listed /\ ~resyncing
  /\ resyncing' = TRUE
  /\ clicks' = clicks + 1
  /\ UNCHANGED <<chain, flow, builds, signings, ledger, clock, page, mount, shown, failed,
                 fetches, claimQueue, deselected>>

(* POST /reindex returns, and whatever it did, the page is refreshed.      *)
Reindexed ==
  /\ resyncing
  /\ resyncing' = FALSE
  /\ fails \/ UNCHANGED failed
  /\ refresh
  /\ UNCHANGED <<chain, flow, builds, signings, ledger, clock, page, mount, shown,
                 claimQueue, deselected, clicks>>

(* Another page is opened: the state of this one is gone, but not what is  *)
(* with the builder, the wallet or the chain.                              *)
Open(p) ==
  /\ page' = p
  /\ mount' = mount + 1
  /\ shown' = None /\ failed' = FALSE
  /\ fetches' = 1 /\ resyncing' = FALSE
  /\ flow' = Idle
  /\ claimQueue' = << >> /\ deselected' = {}
  /\ UNCHANGED <<chain, builds, signings, ledger, clock, clicks>>

----------------------------------------------------------------------------
(***************************************************************************)
(* Asking for transactions.  One carries the page that asks and the number *)
(* of the click.                                                           *)
(***************************************************************************)
request(kind, click, legs) ==
  [kind |-> kind, page |-> page, mount |-> mount, click |-> click, legs |-> legs]

cancelLeg(id) == [orderId |-> id, spend |-> 0, receive |-> 0, takeAmount |-> None]

buildClaim(id, click) == build(request("cancel", click, <<cancelLeg(id)>>))

claimAll(orderIds, click) ==
  /\ claimQueue' = Tail(orderIds)
  /\ buildClaim(Head(orderIds), click)

Asking ==
  /\ clicks' = clicks + 1
  /\ UNCHANGED <<chain, signings, ledger, clock, page, mount, shown, failed, fetches,
                 resyncing, deselected>>

expiredTips ==
  LET ps   == groupPositions(shown)
      gone == kept(ps, {i \in DOMAIN ps : positionStatus(ps[i], clock).expired})
  IN  [i \in DOMAIN gone |-> gone[i].tip.id]

selectedTips ==
  LET tips == expiredTips IN kept(tips, {i \in DOMAIN tips : tips[i] \notin deselected})

ClaimSelected ==
  /\ page = "orders" /\ enabled
  /\ selectedTips # << >>
  /\ claimAll(selectedTips, clicks + 1)
  /\ Asking

CancelRow ==
  /\ page = "orders" /\ enabled
  /\ \E p \in ToSet(groupPositions(shown)) :
       /\ positionStatus(p, clock).canCancel
       /\ buildClaim(p.tip.id, clicks + 1)
  /\ UNCHANGED claimQueue
  /\ Asking

ToggleSelect(id) ==
  /\ page = "orders" /\ listed /\ shown # None
  /\ id \in ToSet(expiredTips)
  /\ deselected' = IF id \in deselected THEN deselected \ {id} ELSE deselected \cup {id}
  /\ clicks' = clicks + 1
  /\ UNCHANGED <<chain, flow, builds, signings, ledger, clock, page, mount, shown, failed,
                 fetches, resyncing, claimQueue>>

clampTake(take, o) ==
  IF o.offeredAmount <= 1 \/ o.requestedAmount <= 1 THEN 0
  ELSE LET most == maxTakeForSpend(o.requestedAmount - 1, o) IN
       IF most <= 0 THEN 0 ELSE Max({1, Min({take, most})})

(* Fault: all that is less than the whole order is sent.                   *)
PartialTakes_unclamped(o) == 1..(o.offeredAmount - 1)

(* What the editor of a partial take sends, of all that can be typed.      *)
PartialTakes(o) ==
  {raw \in 1..o.offeredAmount :
     /\ clampTake(raw, o) # 0 /\ raw < o.offeredAmount
     /\ clampTake(raw, o) = raw}

take(leg) ==
  /\ build(request("take", clicks + 1, <<leg>>))
  /\ UNCHANGED claimQueue
  /\ Asking

Take(o) ==
  /\ page = "book" /\ enabled
  /\ ~isExpired(o, clock)
  /\ \/ take(wholeLeg(o))
     \/ o.allowPartialFill /\ \E amount \in PartialTakes(o) : take(partialLeg(o, amount))

(* Fault: the amounts to take are not sent.                                *)
takeMany_whole(legs) ==
  [i \in DOMAIN legs |-> wholeLeg(ledger[legs[i].orderId])]

(* The backend is given the orders and the amounts to take.                *)
takeMany(legs) ==
  [i \in DOMAIN legs |->
     IF legs[i].takeAmount = None THEN wholeLeg(ledger[legs[i].orderId])
     ELSE partialLeg(ledger[legs[i].orderId], legs[i].takeAmount)]

Execute(opportunity) ==
  /\ page = "arbitrage" /\ enabled
  /\ build(request("take", clicks + 1, takeMany(opportunity.legs)))
  /\ UNCHANGED claimQueue
  /\ Asking

----------------------------------------------------------------------------
(***************************************************************************)
(* The flow.                                                               *)
(***************************************************************************)
mounted(tx) == tx.mount = mount

(* Fault: an error leaves the rest of the queue.                           *)
ErrorEffect_keeps == UNCHANGED claimQueue

(* A failed claim aborts the rest of the queue.                            *)
ErrorEffect ==
  claimQueue' = IF flow'.step = "error" /\ flow.step # "error" THEN << >> ELSE claimQueue

WhileFlowing ==
  UNCHANGED <<ledger, clock, page, mount, shown, failed, fetches, resyncing, deselected, clicks>>

BuildReturns(tx) ==
  /\ \/ InTime(tx) /\ Built(tx, mounted(tx))
     \/ BuildFails(tx, mounted(tx))
  /\ ErrorEffect
  /\ WhileFlowing
  /\ UNCHANGED <<chain, signings>>

Confirm ==
  /\ confirmAndSign
  /\ WhileFlowing
  /\ UNCHANGED <<chain, builds, claimQueue>>

WalletReturns(tx) ==
  /\ \/ InTime(tx) /\ Submitted(tx, mounted(tx))
     \/ SigningFails(tx, mounted(tx)) /\ UNCHANGED pending
  /\ ErrorEffect
  /\ WhileFlowing
  /\ UNCHANGED <<book, settled, builds>>

Reject ==
  /\ flow.step = "preview"
  /\ reset
  /\ claimQueue' = << >>
  /\ WhileFlowing
  /\ UNCHANGED <<chain, builds, signings>>

(* Fault: leaving goes on with the queue.                                  *)
Leave_next ==
  IF claimQueue # << >> THEN claimAll(claimQueue, flow.tx.click)
  ELSE reset /\ UNCHANGED <<builds, claimQueue>>

(* The rest of the queue is dropped.                                       *)
Leave ==
  /\ reset
  /\ claimQueue' = << >>
  /\ UNCHANGED builds

(* The user does not wait.  The book offers no way to leave.               *)
onDismiss ==
  /\ flow.step = "submitted" /\ page # "book"
  /\ Leave
  /\ refresh
  /\ UNCHANGED <<chain, signings, ledger, clock, page, mount, shown, failed, resyncing,
                 deselected, clicks>>

(* Fault: the rest of the queue waits for another click.                   *)
NextClaim_waits ==
  IF claimQueue # << >> THEN UNCHANGED <<flow, builds, claimQueue>>
  ELSE reset /\ UNCHANGED <<builds, claimQueue>>

NextClaim ==
  IF claimQueue # << >> THEN claimAll(claimQueue, flow.tx.click)
  ELSE reset /\ UNCHANGED <<builds, claimQueue>>

(* TxStatus sees two confirmations: the book reindexes, the others only    *)
(* ask for the rows again.                                                 *)
onSettled ==
  /\ flow.step = "submitted"
  /\ flow.tx \in settled
  /\ NextClaim
  /\ IF page = "book" THEN resyncing' = TRUE /\ UNCHANGED fetches
     ELSE refresh /\ UNCHANGED resyncing
  /\ UNCHANGED <<chain, signings, ledger, clock, page, mount, shown, failed, deselected,
                 clicks>>

----------------------------------------------------------------------------
Init ==
  /\ FlowInit
  /\ ledger = [id \in {o.id : o \in book} |->
                 row(CHOOSE o \in book : o.id = id, None, None)]
  /\ clock = 0
  /\ \E s \in Starts :
       /\ book = s.book
       /\ page = s.page /\ mount = s.mount /\ clicks = s.clicks
  /\ shown = None /\ failed = FALSE
  /\ fetches = 1 /\ resyncing = FALSE
  /\ claimQueue = << >> /\ deselected = {}

Next ==
  \/ ChainStep \/ Tick
  \/ Answered \/ FetchFails \/ Reindexed
  \/ mount < MaxMounts /\ \E p \in Pages : Open(p)
  \/ /\ clicks < MaxClicks
     /\ \/ hardRefresh
        \/ ClaimSelected
        \/ CancelRow
        \/ \E id \in DOMAIN ledger : ToggleSelect(id)
        \/ page = "book" /\ shown # None /\ \E o \in shown : Take(o)
        \/ page = "arbitrage" /\ shown # None /\ \E op \in shown : Execute(op)
  \/ \E tx \in builds : BuildReturns(tx)
  \/ Confirm
  \/ \E tx \in signings : WalletReturns(tx)
  \/ Reject \/ onDismiss \/ onSettled

(* The chain includes a transaction that stays valid, and the status view  *)
(* goes on asking.                                                         *)
Watched ==
  /\ \E tx \in pending : tx = flow.tx /\ SettleTx(tx)
  /\ UNCHANGED <<flow, builds, signings, clock, display>>

Spec == Init /\ [][Next]_vars /\ WF_vars(Watched) /\ WF_vars(onSettled)
----------------------------------------------------------------------------
(***************************************************************************)
(* Properties.                                                             *)
(***************************************************************************)

Requests == builds \cup signings \cup pending \cup settled

(* A claim is not even built before the one before it in its queue has     *)
(* settled: of one click, one transaction at most is under way.            *)
OneClaimAtATime ==
  \A c \in 1..clicks :
    Cardinality({tx \in builds \cup signings \cup pending : tx.click = c}) <= 1

(* There is a queue only behind a claim in progress: after an error, a     *)
(* refusal or an early leave nothing goes on by itself.                    *)
QueueOnlyBehindClaim ==
  claimQueue # << >> =>
    /\ page = "orders"
    /\ flow.step \in {"building", "preview", "signing", "submitted"}

(* The request that the page is busy with.                                 *)
InProgress(tx) ==
  /\ tx.mount = mount
  /\ tx \in builds \/ (flow.step \in {"signing", "submitted"} /\ tx = flow.tx)

(* No order is claimed twice by one click.                                 *)
ClaimedOnce ==
  /\ IsInjective(claimQueue)
  /\ \A t, u \in Requests : t # u /\ t.click = u.click => taken(t) \cap taken(u) = {}
  /\ \A tx \in Requests : InProgress(tx) => taken(tx) \cap ToSet(claimQueue) = {}

(* A queue of claims is claimed one after the other, each order once.      *)
ClaimsInTurn == OneClaimAtATime /\ ClaimedOnce

(* The owner can cancel every live order whose row on display is open,     *)
(* whatever became of the rows of the others, be they stale, missing,      *)
(* wrongly closed, or linked late or not at all: the order is the tip of   *)
(* a position, and no other position has that tip.  A live order whose own *)
(* row is wrongly closed cannot be cancelled until it is read again.       *)
LiveRowsCancellable ==
  page = "orders" /\ shown # None =>
    LET ps == ToSet(groupPositions(shown)) IN
    \A k \in DOMAIN shown :
      LET id == shown[k].id IN
      shown[k].status = "open" /\ ledger[id].status = "open" =>
        /\ \E p \in ps : p.tip.id = id /\ positionStatus(p, clock).canCancel
        /\ \A p, q \in ps : p.tip.id = id /\ q.tip.id = id => p = q

(* What was sold of an order and its continuations in truth.               *)
lineageOf(root) == {id \in DOMAIN ledger : trueRoot(id) = root}
lastOf(root) == ledger[Max(lineageOf(root))]
soldOf(root) ==
  IF lastOf(root).status = "taken"
  THEN <<ledger[root].offeredAmount, ledger[root].requestedAmount>>
  ELSE <<ledger[root].offeredAmount - lastOf(root).offeredAmount,
         ledger[root].requestedAmount - lastOf(root).requestedAmount>>

(* Once all rows of an order and its continuations are true and linked,    *)
(* they show as one position, and its fills add up to what was sold and    *)
(* what was paid for it.                                                   *)
HistoryTrue ==
  page = "orders" /\ shown # None =>
    \A root \in idsOf(shown) :
      LET true == {ledger[id] : id \in lineageOf(root)}
          ps   == {p \in ToSet(groupPositions(shown)) : p.rootId = root}
      IN  ledger[root].rootOrderId = None /\ true \subseteq ToSet(shown) =>
            \A p \in ps :
              LET events == fillEvents(p) IN
              /\ ToSet(p.chain) = true
              /\ << FoldLeft(LAMBDA sum, e : sum + e.soldOffered, 0, events),
                    FoldLeft(LAMBDA sum, e : sum + e.receivedAsk, 0, events) >> = soldOf(root)

(* The editor of partial takes sends no more than the script accepts: part *)
(* of the offer for part of the ask, whoever else has taken a part before. *)
PartialTakesFillable ==
  \A tx \in Requests : \A i \in DOMAIN tx.legs :
    tx.legs[i].takeAmount # None =>
      /\ tx.legs[i].receive \in Fillable(ledger[tx.legs[i].orderId])
      /\ ledger[tx.legs[i].orderId].allowPartialFill

(* "The cycle funds itself": a cycle that is executed, however old the     *)
(* scan it was found in, loses in no asset and gains in one.               *)
ExecutedCyclesPay ==
  \A tx \in settled :
    tx.page = "arbitrage" =>
      LET net(asset) == netOf([i \in DOMAIN tx.legs |-> ledger[tx.legs[i].orderId]], tx.legs, asset)
      IN  /\ \A asset \in Assets(Range(ledger)) : net(asset) >= 0
          /\ \E asset \in Assets(Range(ledger)) : net(asset) > 0

(* A queue does not stand still: the claim that is waited for settles and  *)
(* the next is built, or it is left, or it has become impossible.          *)
QueueMovesOn ==
  flow.step = "submitted" /\ claimQueue # << >>
    ~> (flow.step # "submitted" \/ (~live(flow.tx) /\ flow.tx \notin settled))
=============================================================================

------------------------------ MODULE TradePanel ------------------------------
(***************************************************************************)
(* The market tab of the trade panel (frontend/components/TradePanel.tsx): *)
(* the form, the debounced quotes and their answers, the route on display, *)
(* and its execution batch by batch through useTxFlow.                     *)
(*                                                                         *)
(* A step is an event handler or the continuation of an await, with the    *)
(* effects that React runs after it.  Quotes and reindexing are requests   *)
(* under way; the backend plans a quote on its cache, a snapshot of the    *)
(* chain.  The form outlives the tab: it belongs to the panel, which the   *)
(* limit tab shares.  Amounts are raw; going to text and back loses        *)
(* nothing.  The wallet is connected, and the pair is chosen.              *)
(***************************************************************************)
EXTENDS TxFlow

CONSTANTS
  Pair,             (* the assets chosen: spend and receive                  *)
  Amounts,          (* what the user types; None is an empty box             *)
  MinPartialSpend,  (* SMART_FILL_MIN_PARTIAL_SPEND                          *)
  MaxOrdersPerTx,   (* MAX_ORDERS_PER_TX                                     *)
  MaxEdits,         (* bound: edits of the form and changes of tab           *)
  MaxQuotes,        (* bound: reqSeq                                         *)
  MaxClicks,        (* bound: routes executed                                *)
  MaxMounts         (* bound: times the tab is opened                        *)

(* What a quote may be asked for.                                          *)
Wishes ==
  [ spend : {Pair.spend, Pair.receive}, receive : {Pair.spend, Pair.receive},
    mode : {"spend", "receive"}, limit : Nat \cup {None} ]

(* Orders differ in their ids, and so do those that fills leave of them.   *)
ASSUME TradePanelAssumption ==
  /\ Pair = [spend |-> Pair.spend, receive |-> Pair.receive]
  /\ None \notin Wishes
  /\ MaxMounts \in Nat \ {0} /\ MaxOrdersPerTx \in Nat \ {0} /\ MinPartialSpend \in Nat
  /\ Amounts \subseteq Nat \cup {None}
  /\ \A orders \in InitialBook :
       /\ IsFiniteSet(orders)
       /\ \A o \in orders : /\ {"id", "offeredAmount", "requestedAmount"} \subseteq DOMAIN o
                            /\ o.id \in Int
                            /\ o.offeredAmount \in Int /\ o.requestedAmount \in Int
       /\ \A o, p \in orders : o.id % RestId = p.id % RestId => o = p

VARIABLES
  cache,     (* the orders of the backend's cache                            *)
  form,      (* assets, the side edited last, and both amounts               *)
  tab,       (* "market" or "limit"                                          *)
  mount,     (* how often the market tab was opened                          *)
  timer,     (* the wish whose quote is delayed, or None                     *)
  reqSeq,    (* the number of the last quote, for each mount                 *)
  quotes,    (* quotes under way, with the legs planned once they are        *)
  requotes,  (* wishes to quote when their reindexing returns                *)
  route,     (* the route on display, with the wish and number of its quote  *)
  queue,     (* the batches of the route being executed                      *)
  runIndex,  (* the one that is next                                         *)
  edits, clicks,  (* counters                                                *)
  late,      (* history: a quote was sent for a wish that had changed        *)
  overlapped (* history: a build was started beside another                  *)

panel == <<cache, form, tab, mount, timer, reqSeq, quotes, requotes, route,
           queue, runIndex, edits, clicks, late, overlapped>>
vars == <<chain, flow, builds, signings, panel>>

----------------------------------------------------------------------------
Other(side) == IF side = "spend" THEN "receive" ELSE "spend"

(* rawLimit and what goes with it: the wish the form expresses.            *)
Wish(f) ==
  [ spend |-> f.assets.spend, receive |-> f.assets.receive,
    mode |-> f.edited, limit |-> f.amount[f.edited] ]

Blank == [spend |-> None, receive |-> None]

mounted(m) == tab = "market" /\ m = mount

(* The list is on screen, not a preview or a status.                       *)
listed == tab = "market" /\ flow.step \in {"idle", "building", "error"}

changed == Wish(form') # Wish(form)

(* Fault: clearing the form leaves the answers under way valid.            *)
QuoteEffect_no_bump(r) ==
  IF ~changed THEN route' = r /\ UNCHANGED <<timer, reqSeq>>
  ELSE IF Wish(form').limit = None
       THEN route' = None /\ timer' = None /\ UNCHANGED reqSeq
       ELSE route' = r /\ timer' = Wish(form') /\ UNCHANGED reqSeq

(***************************************************************************)
(* The effect that quotes the form, 300 ms after its last change; r is the *)
(* route that the handler leaves.                                          *)
(***************************************************************************)
QuoteEffect(r) ==
  IF ~changed THEN route' = r /\ UNCHANGED <<timer, reqSeq>>
  ELSE IF Wish(form').limit = None
       THEN route' = None /\ timer' = None /\ reqSeq' = [reqSeq EXCEPT ![mount] = @ + 1]
       ELSE route' = r /\ timer' = Wish(form') /\ UNCHANGED reqSeq

(* reindex().finally(quote): the wish is the one of this moment.           *)
Reindex(wish) == requotes' = Append(requotes, [mount |-> mount, wish |-> wish])

(***************************************************************************)
(* The effect that reindexes and quotes again after a failed batch.        *)
(***************************************************************************)
ErrorEffect ==
  IF /\ flow'.step = "error" /\ Wish(form').limit # None
     /\ flow.step # "error" \/ changed
  THEN Reindex(Wish(form')) ELSE UNCHANGED requotes

----------------------------------------------------------------------------
(***************************************************************************)
(* The form.                                                               *)
(***************************************************************************)
Edit(f, r) ==
  /\ listed
  /\ edits' = edits + 1
  /\ form' = f
  /\ flow' = flow
  /\ QuoteEffect(r)
  /\ ErrorEffect
  /\ UNCHANGED <<chain, builds, signings, cache, tab, mount, quotes, queue, runIndex,
                 clicks, late, overlapped>>

Type(side, amount) ==
  Edit([form EXCEPT !.edited = side, !.amount[side] = amount], route)

(* flipMarketSides: the amount typed stays in its box, the other clears.   *)
flipSides ==
  Edit([form EXCEPT !.assets = [spend |-> @.receive, receive |-> @.spend],
                    !.amount[Other(form.edited)] = None],
       None)

(* The limit tab: the market tab and its state are gone, the form is not,  *)
(* nor are the requests under way.                                         *)
OpenLimit ==
  /\ listed
  /\ tab' = "limit"
  /\ edits' = edits + 1
  /\ form' = [form EXCEPT !.edited = "spend"]
  /\ flow' = Idle
  /\ timer' = None /\ route' = None
  /\ queue' = << >> /\ runIndex' = 1
  /\ UNCHANGED <<chain, builds, signings, cache, mount, reqSeq, quotes, requotes,
                 clicks, late, overlapped>>

TypeLimit(side, amount) ==
  /\ tab = "limit"
  /\ edits' = edits + 1
  /\ form' = [form EXCEPT !.amount[side] = amount]
  /\ UNCHANGED <<chain, flow, builds, signings, cache, tab, mount, timer, reqSeq, quotes,
                 requotes, route, queue, runIndex, clicks, late, overlapped>>

OpenMarket ==
  /\ tab = "limit"
  /\ tab' = "market"
  /\ mount' = mount + 1
  /\ edits' = edits + 1
  /\ timer' = IF Wish(form).limit = None THEN None ELSE Wish(form)
  /\ reqSeq' = [reqSeq EXCEPT ![mount + 1] = IF Wish(form).limit = None THEN 1 ELSE 0]
  /\ UNCHANGED <<chain, flow, builds, signings, cache, form, quotes, requotes, route,
                 queue, runIndex, clicks, late, overlapped>>

----------------------------------------------------------------------------
(***************************************************************************)
(* Quotes.                                                                 *)
(***************************************************************************)
quote(m, wish) ==
  /\ reqSeq[m] < MaxQuotes
  /\ reqSeq' = [reqSeq EXCEPT ![m] = @ + 1]
  /\ quotes' = quotes \cup {[mount |-> m, seq |-> reqSeq[m] + 1, wish |-> wish,
                             legs |-> None]}
  /\ late' = IF mounted(m) THEN wish # Wish(form) ELSE late

TimerFires ==
  /\ timer # None
  /\ quote(mount, timer)
  /\ timer' = None
  /\ UNCHANGED <<chain, flow, builds, signings, cache, form, tab, mount, requotes, route,
                 queue, runIndex, edits, clicks, overlapped>>

(* GET /smart-fill: the backend plans on its cache.                        *)
Planned(q) ==
  /\ q.legs = None
  /\ quotes' = (quotes \ {q}) \cup
                 {[q EXCEPT !.legs = planSmartFill(cache, q.wish, MinPartialSpend, 0)]}
  /\ UNCHANGED <<chain, flow, builds, signings, cache, form, tab, mount, timer, reqSeq,
                 requotes, route, queue, runIndex, edits, clicks, late, overlapped>>

(* Fault: every answer counts.                                             *)
current_any(q) == TRUE

current(q) == q.seq = reqSeq[q.mount]

(* The other box shows what the route comes to.                            *)
estimated(f, q) ==
  [f EXCEPT !.amount[Other(q.wish.mode)] =
     IF q.legs = << >> THEN None
     ELSE IF q.wish.mode = "spend" THEN totalReceive(q.legs) ELSE totalSpend(q.legs)]

(* The answer of a quote.  A tab that is gone keeps no route, but the form *)
(* is not the tab's.                                                       *)
Answered(q) ==
  /\ q.legs # None
  /\ quotes' = quotes \ {q}
  /\ form' = IF current(q) THEN estimated(form, q) ELSE form
  /\ flow' = flow
  /\ IF tab = "market"
     THEN /\ QuoteEffect(IF mounted(q.mount) /\ current(q)
                         THEN [seq |-> q.seq, wish |-> q.wish, legs |-> q.legs] ELSE route)
          /\ ErrorEffect
     ELSE UNCHANGED <<route, timer, reqSeq, requotes>>
  /\ UNCHANGED <<chain, builds, signings, cache, tab, mount, queue, runIndex, edits, clicks,
                 late, overlapped>>

QuoteFails(q) ==
  /\ quotes' = quotes \ {q}
  /\ route' = IF mounted(q.mount) /\ current(q) THEN None ELSE route
  /\ UNCHANGED <<chain, flow, builds, signings, cache, form, tab, mount, timer, reqSeq,
                 requotes, queue, runIndex, edits, clicks, late, overlapped>>

(* The reindexing returns: synced, skipped because the last sync is less   *)
(* than the cooldown ago, or failed.  It is followed by the quote.         *)
Reindexed(i) ==
  /\ quote(requotes[i].mount, requotes[i].wish)
  /\ requotes' = RemoveAt(requotes, i)
  /\ cache' \in {cache, book}
  /\ UNCHANGED <<chain, flow, builds, signings, form, tab, mount, timer, route, queue,
                 runIndex, edits, clicks, overlapped>>

(* The background poll, or somebody else's refresh.                        *)
Synced ==
  /\ cache' = book
  /\ UNCHANGED <<chain, flow, builds, signings, form, tab, mount, timer, reqSeq, quotes,
                 requotes, route, queue, runIndex, edits, clicks, late, overlapped>>

----------------------------------------------------------------------------
(***************************************************************************)
(* Execution.  A batch carries the wish of its route and the number of the *)
(* click that started it.                                                  *)
(***************************************************************************)
batch(index, legs) ==
  [mount |-> mount, click |-> clicks + 1, wish |-> route.wish, index |-> index, legs |-> legs]

chunk(legs, size) ==
  [i \in 1..((Len(legs) + size - 1) \div size) |->
     batch(i, SubSeq(legs, (i - 1) * size + 1, Min({i * size, Len(legs)})))]

runBatch(batches, index) ==
  /\ queue' = batches
  /\ runIndex' = index
  /\ build(batches[index])

Click(batches) ==
  /\ listed
  /\ route.legs # << >>
  /\ clicks' = clicks + 1
  /\ runBatch(batches, 1)
  /\ overlapped' = (overlapped \/ builds \cup signings # {})
  /\ UNCHANGED <<chain, signings, cache, form, tab, mount, timer, reqSeq, quotes, requotes,
                 route, edits, late>>

Execute ==
  /\ flow.step # "building" /\ route # None
  /\ Click(chunk(route.legs, MaxOrdersPerTx))

TakeBest ==
  /\ route # None /\ Len(route.legs) > 1
  /\ Click(<<batch(1, <<route.legs[1]>>)>>)

WhileFlowing ==
  UNCHANGED <<cache, form, tab, mount, timer, reqSeq, quotes, route, queue, runIndex,
              edits, clicks, late, overlapped>>

BuildReturns(tx) ==
  /\ Built(tx, mounted(tx.mount)) \/ BuildFails(tx, mounted(tx.mount))
  /\ form' = form
  /\ ErrorEffect
  /\ WhileFlowing
  /\ UNCHANGED <<chain, signings>>

Confirm ==
  /\ confirmAndSign
  /\ WhileFlowing
  /\ UNCHANGED <<chain, builds, requotes>>

WalletReturns(tx) ==
  /\ \/ Submitted(tx, mounted(tx.mount))
     \/ SigningFails(tx, mounted(tx.mount)) /\ UNCHANGED pending
  /\ form' = form
  /\ ErrorEffect
  /\ WhileFlowing
  /\ UNCHANGED <<book, settled, builds>>

Reject ==
  /\ flow.step = "preview"
  /\ reset
  /\ queue' = << >> /\ runIndex' = 1
  /\ UNCHANGED <<chain, builds, signings, cache, form, tab, mount, timer, reqSeq, quotes,
                 requotes, route, edits, clicks, late, overlapped>>

(* Fault: leaving goes on with the next batch.                             *)
Leave_next ==
  IF runIndex < Len(queue)
  THEN runBatch(queue, runIndex + 1) /\ UNCHANGED requotes
  ELSE /\ reset /\ queue' = << >> /\ runIndex' = 1
       /\ UNCHANGED <<builds, requotes>>

(* backToTrade, and the end of a route: the rest of the queue is dropped.  *)
Leave ==
  /\ reset
  /\ queue' = << >> /\ runIndex' = 1
  /\ IF Wish(form).limit # None THEN Reindex(Wish(form)) ELSE UNCHANGED requotes
  /\ UNCHANGED builds

(* The user does not wait.                                                 *)
Dismiss ==
  /\ flow.step = "submitted"
  /\ Leave
  /\ UNCHANGED <<chain, signings, cache, form, tab, mount, timer, reqSeq, quotes, route,
                 edits, clicks, late, overlapped>>

(* Fault: the next batch is planned from the route on display.             *)
NextBatch_of_route ==
  IF runIndex < Len(queue) /\ route # None
     /\ runIndex < Len(chunk(route.legs, MaxOrdersPerTx))
  THEN runBatch([i \in DOMAIN chunk(route.legs, MaxOrdersPerTx) |->
                   [chunk(route.legs, MaxOrdersPerTx)[i] EXCEPT
                      !.click = queue[1].click, !.wish = queue[1].wish]],
                runIndex + 1)
       /\ UNCHANGED requotes
  ELSE Leave

NextBatch ==
  IF runIndex < Len(queue)
  THEN runBatch(queue, runIndex + 1) /\ UNCHANGED requotes
  ELSE Leave

(* TxStatus sees two confirmations.                                        *)
onSettled ==
  /\ flow.step = "submitted"
  /\ flow.tx \in settled
  /\ NextBatch
  /\ UNCHANGED <<chain, signings, cache, form, tab, mount, timer, reqSeq, quotes, route,
                 edits, clicks, late, overlapped>>

ChainStep ==
  /\ (\E tx \in pending : Settle(tx)) \/ (\E o \in book : SomeoneTakes(o))
  /\ UNCHANGED <<flow, builds, signings, panel>>

----------------------------------------------------------------------------
Init ==
  /\ FlowInit
  /\ cache = book
  /\ form = [assets |-> Pair, edited |-> "spend", amount |-> Blank]
  /\ tab = "market" /\ mount = 1
  /\ timer = None
  /\ reqSeq = [m \in 1..MaxMounts |-> IF m = 1 THEN 1 ELSE 0]
  /\ quotes = {} /\ requotes = << >>
  /\ route = None
  /\ queue = << >> /\ runIndex = 1
  /\ edits = 0 /\ clicks = 0
  /\ late = FALSE /\ overlapped = FALSE

Next ==
  \/ /\ edits < MaxEdits
     /\ \/ \E side \in {"spend", "receive"}, amount \in Amounts :
             Type(side, amount) \/ TypeLimit(side, amount)
        \/ flipSides
        \/ OpenLimit
        \/ mount < MaxMounts /\ OpenMarket
  \/ TimerFires
  \/ \E q \in quotes : Planned(q) \/ Answered(q) \/ QuoteFails(q)
  \/ \E i \in DOMAIN requotes : Reindexed(i)
  \/ Synced
  \/ clicks < MaxClicks /\ (Execute \/ TakeBest)
  \/ \E tx \in builds : BuildReturns(tx)
  \/ Confirm
  \/ \E tx \in signings : WalletReturns(tx)
  \/ Reject \/ Dismiss \/ onSettled
  \/ ChainStep

Spec == Init /\ [][Next]_vars

----------------------------------------------------------------------------
(***************************************************************************)
(* Properties.                                                             *)
(***************************************************************************)

Batches == builds \cup signings \cup pending \cup settled

(* A route executes within its budget: whatever is cancelled, fails or is  *)
(* replanned on the way, the batches of one click that are submitted spend *)
(* no more than the maximum its route was planned for.                     *)
RouteBudget ==
  \A c \in 1..clicks :
    LET txs == {tx \in pending \cup settled : tx.click = c} IN
    \A tx \in txs :
      tx.wish.mode = "spend" =>
        MapThenSumSet(LAMBDA t : totalSpend(t.legs), txs) <= tx.wish.limit

(* "Never builds ahead of confirmation": a batch is not even built before  *)
(* the one before it in its route has settled - as long as no build is     *)
(* started beside another.                                                 *)
BatchesInOrder ==
  ~overlapped =>
    \A tx \in Batches :
      tx.index > 1 => \E t \in settled : t.click = tx.click /\ t.index = tx.index - 1

(* At rest, with no quote of this tab due or under way, the route on       *)
(* display is for what the form says - unless the last quote was sent for  *)
(* a wish that had changed by then.                                        *)
Resting ==
  /\ tab = "market"
  /\ timer = None
  /\ \A q \in quotes : q.mount # mount
  /\ \A i \in DOMAIN requotes : requotes[i].mount # mount

RestingRouteCurrent == Resting /\ ~late => route = None \/ route.wish = Wish(form)

(* "Max spend is never exceeded": at rest, the route that a click would    *)
(* execute spends at most the maximum in the form.                         *)
MaxSpendShown ==
  Resting /\ route # None /\ form.edited = "spend" /\ form.amount.spend # None
    => totalSpend(route.legs) <= form.amount.spend

(* Answers out of order: the route of an earlier quote never replaces that *)
(* of a later one.                                                         *)
LatestAnswerShown ==
  [][route # None /\ route' # None /\ mount' = mount => route'.seq >= route.seq]_vars
=============================================================================

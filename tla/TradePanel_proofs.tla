--------------------------- MODULE TradePanel_proofs ---------------------------
(***************************************************************************)
(* Proofs about TradePanel: the route on display is the answer to the last *)
(* quote; the batches of a click keep within the budget of its route; and  *)
(* they are built one after the other.                                     *)
(***************************************************************************)
EXTENDS TradePanel, SmartFill_proofs

(***************************************************************************)
(* Lists, of whatever members.                                             *)
(***************************************************************************)
IsList(s) == s \in Seq({s[i] : i \in DOMAIN s})

LEMMA ListOf ==
  ASSUME NEW Y, NEW t \in Seq(Y)
  PROVE  /\ IsList(t)
         /\ DOMAIN t = 1..Len(t) /\ Len(t) \in Nat /\ \A i \in DOMAIN t : t[i] \in Y
<1> DEFINE Z == {t[i] : i \in DOMAIN t}
<1>1. DOMAIN t = 1..Len(t) /\ Len(t) \in Nat /\ \A i \in DOMAIN t : t[i] \in Y /\ t[i] \in Z
  OBVIOUS
<1>2. t = [i \in 1..Len(t) |-> t[i]]
  OBVIOUS
<1> HIDE DEF Z
<1>3. t \in Seq(Z)
  BY <1>1, <1>2
<1>4. QED
  BY <1>1, <1>3 DEF IsList, Z

LEMMA ListAppend ==
  ASSUME NEW s, IsList(s), NEW x
  PROVE  /\ IsList(Append(s, x))
         /\ \A i \in DOMAIN Append(s, x) :
              Append(s, x)[i] = x \/ \E j \in DOMAIN s : Append(s, x)[i] = s[j]
<1> DEFINE Y == {s[i] : i \in DOMAIN s} \cup {x}
           t == Append(s, x)
<1>1. s \in Seq(Y) /\ x \in Y
  BY DEF IsList
<1>2. t \in Seq(Y)
  <2> HIDE DEF Y
  <2>1. QED
    BY <1>1
<1>3. IsList(t) /\ \A i \in DOMAIN t : t[i] \in Y
  <2> HIDE DEF Y, t
  <2>1. QED
    BY <1>2, ListOf
<1> HIDE DEF t
<1>4. QED
  BY <1>3 DEF t

LEMMA ListRemove ==
  ASSUME NEW s, IsList(s), NEW k \in DOMAIN s
  PROVE  /\ IsList(RemoveAt(s, k))
         /\ \A i \in DOMAIN RemoveAt(s, k) : \E j \in DOMAIN s : RemoveAt(s, k)[i] = s[j]
<1> DEFINE Y == {s[i] : i \in DOMAIN s}
           t == RemoveAt(s, k)
<1>1. s \in Seq(Y) /\ k \in 1..Len(s) /\ Len(s) \in Nat
  BY DEF IsList
<1>2. t \in Seq(Y)
  <2> HIDE DEF Y
  <2>1. SubSeq(s, 1, k - 1) \in Seq(Y) /\ SubSeq(s, k + 1, Len(s)) \in Seq(Y)
    BY <1>1, SubSeqProperties
  <2>2. QED
    BY <2>1 DEF RemoveAt
<1>3. IsList(t) /\ \A i \in DOMAIN t : t[i] \in Y
  <2> HIDE DEF Y, t
  <2>1. QED
    BY <1>2, ListOf
<1> HIDE DEF t
<1>4. QED
  BY <1>3 DEF t

----------------------------------------------------------------------------
(***************************************************************************)
(* The form, the quotes and the route on display.                          *)
(***************************************************************************)
Sides == {"spend", "receive"}

Forms ==
  [ assets : [Sides -> {Pair.spend, Pair.receive}], edited : Sides,
    amount : [Sides -> Nat \cup {None}] ]

LEMMA WishOfForm ==
  ASSUME NEW f \in Forms
  PROVE  /\ Wish(f) \in Wishes /\ Wish(f) # None
         /\ Wish(f).mode = f.edited /\ Wish(f).limit = f.amount[f.edited]
  BY TradePanelAssumption DEF Forms, Wish, Wishes, Sides

RequotesSent(m, s) == IsList(s) /\ \A i \in DOMAIN s : s[i].mount \in 1..m

(* Tabs and quotes have been opened and sent; what is gone shows nothing.  *)
Sent ==
  /\ form \in Forms
  /\ mount \in 1..MaxMounts
  /\ reqSeq \in [1..MaxMounts -> Nat]
  /\ \A q \in quotes :
       /\ {"mount", "seq", "wish", "legs"} \subseteq DOMAIN q
       /\ q.mount \in 1..mount /\ q.seq \in Nat /\ q.seq <= reqSeq[q.mount]
  /\ RequotesSent(mount, requotes)
  /\ route # None => tab = "market" /\ route.seq \in Nat /\ route.seq <= reqSeq[mount]
  /\ timer # None => tab = "market"

Last_(q) == q.mount = mount /\ q.seq = reqSeq[mount]

(* An older route is shown only while the last quote is under way.         *)
OlderAwaited == route # None => route.seq = reqSeq[mount] \/ \E q \in quotes : Last_(q)

(* What is due is what the form says, and so is what was sent last, if the *)
(* form had not changed by then and has not since.                         *)
LastIsForForm ==
  tab = "market" =>
    /\ timer # None => timer = Wish(form)
    /\ timer = None /\ ~late =>
         /\ \A q \in quotes : Last_(q) => q.wish = Wish(form)
         /\ route # None /\ route.seq = reqSeq[mount] => route.wish = Wish(form)

QuoteInv == Sent /\ OlderAwaited /\ LastIsForForm

LEMMA QuoteBegins ==
  ASSUME Init
  PROVE  QuoteInv
<1>1. form \in Forms
  <2>1. Pair \in [Sides -> {Pair.spend, Pair.receive}]
    BY TradePanelAssumption DEF Sides
  <2>2. form = [assets |-> Pair, edited |-> "spend", amount |-> Blank]
    BY DEF Init
  <2>3. Blank \in [Sides -> Nat \cup {None}]
    BY DEF Blank, Sides
  <2>4. QED
    BY <2>1, <2>2, <2>3 DEF Forms, Sides
<1>2. /\ mount = 1 /\ quotes = {} /\ requotes = << >> /\ route = None /\ timer = None
      /\ reqSeq = [m \in 1..MaxMounts |-> IF m = 1 THEN 1 ELSE 0]
  BY DEF Init
<1>3. reqSeq \in [1..MaxMounts -> Nat] /\ mount \in 1..MaxMounts
  BY <1>2, TradePanelAssumption
<1>4. RequotesSent(mount, requotes)
  BY <1>2 DEF RequotesSent, IsList
<1>5. QED
  BY <1>1, <1>2, <1>3, <1>4 DEF QuoteInv, Sent, OlderAwaited, LastIsForForm

(* Steps that do not change the form, the quotes or the route.             *)
quoteVars == <<form, tab, mount, timer, reqSeq, quotes, route, late>>

LEMMA QuotesRest ==
  ASSUME QuoteInv, UNCHANGED quoteVars,
         RequotesSent(mount, requotes')
  PROVE  QuoteInv'
  BY DEF QuoteInv, Sent, OlderAwaited, LastIsForForm, Last_, quoteVars

(* Another reindexing may be under way.                                    *)
LEMMA ReindexSent ==
  ASSUME Sent, NEW wish, Reindex(wish) \/ UNCHANGED requotes
  PROVE  RequotesSent(mount, requotes')
<1>1. CASE Reindex(wish)
  <2> DEFINE x == [mount |-> mount, wish |-> wish]
  <2>1. requotes' = Append(requotes, x) /\ x.mount \in 1..mount
    BY <1>1 DEF Reindex, Sent
  <2> HIDE DEF x
  <2>2. IsList(requotes) /\ \A i \in DOMAIN requotes : requotes[i].mount \in 1..mount
    BY DEF Sent, RequotesSent
  <2>3. QED
    BY <2>1, <2>2, ListAppend DEF RequotesSent
<1>2. CASE UNCHANGED requotes
  BY <1>2 DEF Sent
<1>3. QED
  BY <1>1, <1>2

(* The form may change, and answers may be gone; r is the route left.      *)
LEMMA EffectKeeps ==
  ASSUME QuoteInv, tab = "market", form' \in Forms, UNCHANGED <<tab, mount, late>>,
         quotes' \subseteq quotes, RequotesSent(mount, requotes'), NEW r, QuoteEffect(r),
         r # None => /\ r.seq \in Nat /\ r.seq <= reqSeq[mount]
                     /\ r.seq = reqSeq[mount] \/ \E q \in quotes' : Last_(q),
         r # None /\ r.seq = reqSeq[mount] /\ timer = None /\ ~late => r.wish = Wish(form)
  PROVE  QuoteInv'
<1> USE DEF QuoteInv
<1>1. reqSeq \in [1..MaxMounts -> Nat] /\ mount \in 1..MaxMounts
  BY DEF Sent
<1>2. CASE ~changed
  <2>1. route' = r /\ timer' = timer /\ reqSeq' = reqSeq /\ Wish(form') = Wish(form)
    BY <1>2 DEF QuoteEffect, changed
  <2>2. Sent'
    BY <2>1 DEF Sent
  <2>3. OlderAwaited'
    BY <2>1 DEF OlderAwaited, Last_
  <2>4. LastIsForForm'
    BY <2>1 DEF LastIsForForm, Last_, Wish
  <2>5. QED
    BY <2>2, <2>3, <2>4
<1>3. CASE changed /\ Wish(form').limit = None
  <2>1. route' = None /\ timer' = None /\ reqSeq' = [reqSeq EXCEPT ![mount] = reqSeq[mount] + 1]
    BY <1>3 DEF QuoteEffect
  <2>2. /\ reqSeq' \in [1..MaxMounts -> Nat] /\ reqSeq'[mount] = reqSeq[mount] + 1
        /\ \A m \in 1..MaxMounts : reqSeq[m] <= reqSeq'[m]
    BY <1>1, <2>1
  <2>3. \A q \in quotes : q.seq <= reqSeq'[q.mount] /\ (q.mount = mount => q.seq # reqSeq'[mount])
    <3> SUFFICES ASSUME NEW q \in quotes
                 PROVE  q.seq <= reqSeq'[q.mount] /\ (q.mount = mount => q.seq # reqSeq'[mount])
      OBVIOUS
    <3>1. q.mount \in 1..MaxMounts /\ q.seq \in Nat /\ q.seq <= reqSeq[q.mount]
      <4>1. q.mount \in 1..mount /\ q.seq \in Nat /\ q.seq <= reqSeq[q.mount]
        BY DEF Sent
      <4>2. mount \in Int /\ mount <= MaxMounts /\ MaxMounts \in Nat
        BY <1>1, TradePanelAssumption
      <4>3. QED
        BY <4>1, <4>2
    <3>2. reqSeq[q.mount] \in Nat /\ reqSeq'[q.mount] \in Nat /\ reqSeq[mount] \in Nat
      BY <1>1, <2>2, <3>1
    <3>3. QED
      BY <2>2, <3>1, <3>2
  <2>4. Sent'
    BY <2>1, <2>2, <2>3 DEF Sent
  <2>5. OlderAwaited' /\ LastIsForForm'
    BY <2>1, <2>3 DEF OlderAwaited, LastIsForForm, Last_
  <2>6. QED
    BY <2>4, <2>5
<1>4. CASE changed /\ Wish(form').limit # None
  <2>1. route' = r /\ timer' = Wish(form') /\ reqSeq' = reqSeq
    BY <1>4 DEF QuoteEffect
  <2>2. Wish(form') # None
    BY WishOfForm
  <2>3. Sent'
    BY <2>1 DEF Sent
  <2>4. OlderAwaited'
    BY <2>1 DEF OlderAwaited, Last_
  <2>5. LastIsForForm'
    BY <2>1, <2>2 DEF LastIsForForm
  <2>6. QED
    BY <2>3, <2>4, <2>5
<1>5. QED
  BY <1>2, <1>3, <1>4

(* A quote is sent.                                                        *)
LEMMA SendKeeps ==
  ASSUME QuoteInv, NEW m \in 1..mount, NEW wish, quote(m, wish),
         UNCHANGED <<form, tab, mount, route>>, RequotesSent(mount, requotes'),
         timer' = timer \/ (mounted(m) /\ timer' = None)
  PROVE  QuoteInv'
<1> USE DEF QuoteInv
<1>0. PICK new : new = [mount |-> m, seq |-> reqSeq[m] + 1, wish |-> wish, legs |-> None]
  OBVIOUS
<1>1. reqSeq \in [1..MaxMounts -> Nat] /\ mount \in 1..MaxMounts /\ m \in 1..MaxMounts
  <2>1. reqSeq \in [1..MaxMounts -> Nat] /\ mount \in 1..MaxMounts
    BY DEF Sent
  <2>2. MaxMounts \in Nat
    BY TradePanelAssumption
  <2>3. QED
    BY <2>1, <2>2
<1>2. /\ reqSeq' = [reqSeq EXCEPT ![m] = reqSeq[m] + 1] /\ quotes' = quotes \cup {new}
      /\ late' = IF mounted(m) THEN wish # Wish(form) ELSE late
  BY <1>0 DEF quote
<1>3. /\ reqSeq' \in [1..MaxMounts -> Nat] /\ reqSeq'[m] = reqSeq[m] + 1
      /\ \A k \in 1..MaxMounts : reqSeq[k] <= reqSeq'[k] /\ (k # m => reqSeq'[k] = reqSeq[k])
  BY <1>1, <1>2
<1>4. /\ {"mount", "seq", "wish", "legs"} \subseteq DOMAIN new
      /\ new.mount = m /\ new.seq = reqSeq'[m] /\ new.seq \in Nat /\ new.wish = wish
  BY <1>0, <1>1, <1>3
<1>5. ASSUME NEW q \in quotes
      PROVE  /\ q.mount \in 1..mount /\ q.seq \in Nat /\ q.seq <= reqSeq'[q.mount]
             /\ q.mount = m => q.seq # reqSeq'[m]
  <2>1. q.mount \in 1..mount /\ q.seq \in Nat /\ q.seq <= reqSeq[q.mount]
    BY DEF Sent
  <2>2. q.mount \in 1..MaxMounts
    <3>1. mount \in Int /\ mount <= MaxMounts /\ MaxMounts \in Nat
      BY <1>1, TradePanelAssumption
    <3>2. QED
      BY <2>1, <3>1
  <2>3. reqSeq[q.mount] \in Nat /\ reqSeq'[q.mount] \in Nat /\ reqSeq[m] \in Nat
    BY <1>1, <1>3, <2>2
  <2>4. QED
    BY <1>3, <2>1, <2>2, <2>3
<1>6. route # None => tab = "market" /\ route.seq \in Nat /\ route.seq <= reqSeq[mount]
                      /\ route.seq <= reqSeq'[mount] /\ (m = mount => route.seq # reqSeq'[mount])
  <2>1. route # None => tab = "market" /\ route.seq \in Nat /\ route.seq <= reqSeq[mount]
    BY DEF Sent
  <2>2. reqSeq[mount] \in Nat /\ reqSeq'[mount] \in Nat /\ reqSeq[m] \in Nat
    BY <1>1, <1>3
  <2>3. QED
    BY <1>1, <1>3, <2>1, <2>2
<1>7. Sent'
  <2>1. \A q \in quotes' :
          /\ {"mount", "seq", "wish", "legs"} \subseteq DOMAIN q
          /\ q.mount \in 1..mount /\ q.seq \in Nat /\ q.seq <= reqSeq'[q.mount]
    BY <1>2, <1>3, <1>4, <1>5 DEF Sent
  <2>2. timer' # None => tab' = "market"
    BY DEF Sent
  <2>3. form' \in Forms
    BY DEF Sent
  <2>4. QED
    BY <1>1, <1>3, <1>6, <2>1, <2>2, <2>3 DEF Sent
<1>8. CASE m = mount
  <2>1. Last_(new)' /\ \A q \in quotes : ~Last_(q)'
    BY <1>4, <1>5, <1>8 DEF Last_
  <2>2. OlderAwaited'
    BY <1>2, <2>1 DEF OlderAwaited
  <2>3. LastIsForForm'
    BY <1>2, <1>4, <1>6, <1>8, <2>1 DEF LastIsForForm, mounted, Wish
  <2>4. QED
    BY <1>7, <2>2, <2>3
<1>9. CASE m # mount
  <2>1. reqSeq'[mount] = reqSeq[mount] /\ timer' = timer /\ late' = late
    BY <1>1, <1>2, <1>3, <1>9 DEF mounted
  <2>2. ~Last_(new)' /\ \A q \in quotes : Last_(q)' <=> Last_(q)
    BY <1>4, <1>9, <2>1 DEF Last_
  <2>3. OlderAwaited'
    BY <1>2, <2>1, <2>2 DEF OlderAwaited
  <2>4. LastIsForForm'
    BY <1>2, <2>1, <2>2 DEF LastIsForForm, Wish
  <2>5. QED
    BY <1>7, <2>3, <2>4
<1>10. QED
  BY <1>8, <1>9

(* The backend plans.                                                      *)
LEMMA PlanningKeeps ==
  ASSUME QuoteInv, NEW q \in quotes, Planned(q)
  PROVE  QuoteInv'
<1> USE DEF QuoteInv
<1> DEFINE new == [q EXCEPT !.legs = planSmartFill(cache, q.wish, MinPartialSpend, 0)]
<1>1. /\ quotes' = (quotes \ {q}) \cup {new}
      /\ UNCHANGED <<form, tab, mount, timer, reqSeq, requotes, route, late>>
  BY DEF Planned
<1>2. {"mount", "seq", "wish", "legs"} \subseteq DOMAIN q
  BY DEF Sent
<1>3. /\ {"mount", "seq", "wish", "legs"} \subseteq DOMAIN new
      /\ new.mount = q.mount /\ new.seq = q.seq /\ new.wish = q.wish
  <2> DEFINE legs_ == planSmartFill(cache, q.wish, MinPartialSpend, 0)
  <2> HIDE DEF legs_
  <2>1. new = [q EXCEPT !.legs = legs_]
    BY DEF legs_
  <2>2. QED
    BY <1>2, <2>1
<1> HIDE DEF new
<1>4. Sent'
  BY <1>1, <1>3 DEF Sent
<1>5. OlderAwaited'
  BY <1>1, <1>3 DEF OlderAwaited, Last_
<1>6. LastIsForForm'
  BY <1>1, <1>3 DEF LastIsForForm, Last_
<1>7. QED
  BY <1>4, <1>5, <1>6

(* What the form says of the side edited last is not overwritten by an     *)
(* answer to a quote of that side.                                         *)
LEMMA EstimateInForm ==
  ASSUME NEW f \in Forms, NEW q, q.wish \in Wishes,
         q.legs = << >> \/ (totalSpend(q.legs) \in Nat /\ totalReceive(q.legs) \in Nat)
  PROVE  /\ estimated(f, q) \in Forms
         /\ q.wish.mode = f.edited => Wish(estimated(f, q)) = Wish(f)
<1> DEFINE s == Other(q.wish.mode)
           v == IF q.legs = << >> THEN None
                ELSE IF q.wish.mode = "spend" THEN totalReceive(q.legs) ELSE totalSpend(q.legs)
<1>1. v \in Nat \cup {None} /\ s \in Sides /\ s # q.wish.mode
  BY DEF Other, Sides, Wishes
<1>2. estimated(f, q) = [f EXCEPT !.amount[s] = v]
  BY DEF estimated
<1> HIDE DEF s, v
<1>3. estimated(f, q) = [f EXCEPT !.amount = [f.amount EXCEPT ![s] = v]]
  BY <1>2 DEF Forms
<1>4. [f.amount EXCEPT ![s] = v] \in [Sides -> Nat \cup {None}]
      /\ \A t \in Sides : t # s => [f.amount EXCEPT ![s] = v][t] = f.amount[t]
  BY <1>1 DEF Forms
<1>5. /\ estimated(f, q) \in Forms
      /\ estimated(f, q).assets = f.assets /\ estimated(f, q).edited = f.edited
      /\ estimated(f, q).amount = [f.amount EXCEPT ![s] = v]
  BY <1>3, <1>4 DEF Forms
<1>6. q.wish.mode = f.edited => estimated(f, q).amount[f.edited] = f.amount[f.edited]
  BY <1>1, <1>4, <1>5 DEF Forms
<1>7. QED
  BY <1>5, <1>6 DEF Wish

----------------------------------------------------------------------------
(***************************************************************************)
(* What is known of orders, wishes and routes.                             *)
(***************************************************************************)
OrdersKept(orders) ==
  /\ IsFiniteSet(orders)
  /\ \A o \in orders : /\ {"id", "offeredAmount", "requestedAmount"} \subseteq DOMAIN o
                       /\ o.id \in Int
                       /\ o.offeredAmount \in Int /\ o.requestedAmount \in Int
  /\ \A o, p \in orders : o.id % RestId = p.id % RestId => o = p

LEMMA KeptOrders ==
  ASSUME NEW orders, OrdersKept(orders)
  PROVE  Orders(orders)
  BY DEF OrdersKept, Orders

(* A wish that a quote may be asked for: there is a limit.                 *)
Asked(wish) == wish \in Wishes /\ wish.limit \in Nat

(* A route that a quote may be answered with.                              *)
Routed(wish, legs) == Asked(wish) /\ legs \in Seq(Legs) /\ WithinBudget(wish, legs)

RoutesInv ==
  /\ OrdersKept(book) /\ OrdersKept(cache)
  /\ timer # None => Asked(timer)
  /\ \A i \in DOMAIN requotes : Asked(requotes[i].wish)
  /\ \A q \in quotes : Asked(q.wish) /\ (q.legs # None => Routed(q.wish, q.legs))
  /\ route # None => Routed(route.wish, route.legs)

LEMMA AskedOfForm ==
  ASSUME NEW f \in Forms, Wish(f).limit # None
  PROVE  Asked(Wish(f))
<1>1. Wish(f) \in Wishes
  BY WishOfForm
<1>2. QED
  BY <1>1 DEF Asked, Wishes

LEMMA RoutePlanned ==
  ASSUME NEW orders, OrdersKept(orders), NEW wish, Asked(wish)
  PROVE  Routed(wish, planSmartFill(orders, wish, MinPartialSpend, 0))
<1>1. Orders(orders) /\ MinPartialSpend \in Int /\ wish.limit \in Nat
  BY KeptOrders, TradePanelAssumption DEF Asked
<1>2. planSmartFill(orders, wish, MinPartialSpend, 0) \in Seq(Legs)
  BY <1>1, PlanIsLegs
<1>3. WithinBudget(wish, planSmartFill(orders, wish, MinPartialSpend, 0))
  BY <1>1, PlanServesBudget
<1>4. QED
  BY <1>2, <1>3 DEF Routed

LEMMA EstimateOfAnswer ==
  ASSUME NEW f \in Forms, NEW q, Routed(q.wish, q.legs)
  PROVE  /\ estimated(f, q) \in Forms
         /\ q.wish.mode = f.edited => Wish(estimated(f, q)) = Wish(f)
<1>1. q.wish \in Wishes /\ totalSpend(q.legs) \in Nat /\ totalReceive(q.legs) \in Nat
  BY TotalsAreSums DEF Routed, Asked
<1>2. QED
  BY <1>1, EstimateInForm

----------------------------------------------------------------------------
(***************************************************************************)
(* The quotes, action by action.                                           *)
(***************************************************************************)
LEMMA ErrorsSent ==
  ASSUME Sent, UNCHANGED mount, ErrorEffect
  PROVE  RequotesSent(mount, requotes')
  BY ReindexSent DEF ErrorEffect

LEMMA EditQuotes ==
  ASSUME QuoteInv, NEW f \in Forms, NEW r, r = route \/ r = None, Edit(f, r)
  PROVE  QuoteInv'
<1>1. /\ tab = "market" /\ form' \in Forms /\ UNCHANGED <<tab, mount, late, quotes>>
      /\ QuoteEffect(r)
  BY DEF Edit, listed
<1>2. RequotesSent(mount, requotes')
  BY ErrorsSent DEF Edit, QuoteInv
<1>3. r # None => /\ r.seq \in Nat /\ r.seq <= reqSeq[mount]
                  /\ r.seq = reqSeq[mount] \/ \E q \in quotes' : Last_(q)
  BY <1>1 DEF QuoteInv, Sent, OlderAwaited
<1>4. r # None /\ r.seq = reqSeq[mount] /\ timer = None /\ ~late => r.wish = Wish(form)
  BY <1>1 DEF QuoteInv, LastIsForForm
<1>5. QED
  BY <1>1, <1>2, <1>3, <1>4, EffectKeeps

LEMMA TypeQuotes ==
  ASSUME QuoteInv, NEW side \in Sides, NEW amount \in Amounts, Type(side, amount)
  PROVE  QuoteInv'
<1> DEFINE f == [form EXCEPT !.edited = side, !.amount[side] = amount]
<1>1. f \in Forms
  BY TradePanelAssumption DEF QuoteInv, Sent, Forms
<1>2. Edit(f, route)
  BY DEF Type
<1> HIDE DEF f
<1>3. QED
  BY <1>1, <1>2, EditQuotes

LEMMA FlipQuotes ==
  ASSUME QuoteInv, flipSides
  PROVE  QuoteInv'
<1> DEFINE f == [form EXCEPT !.assets = [spend |-> @.receive, receive |-> @.spend],
                             !.amount[Other(form.edited)] = None]
<1>1. f \in Forms
  <2>1. Other(form.edited) \in Sides
    BY DEF Other, Sides
  <2>2. form \in Forms
    BY DEF QuoteInv, Sent
  <2> DEFINE other == Other(form.edited)
             a == [spend |-> form.assets.receive, receive |-> form.assets.spend]
             g == [form EXCEPT !.assets = a]
  <2>3. a \in [Sides -> {Pair.spend, Pair.receive}]
    BY <2>2 DEF Forms, Sides
  <2> HIDE DEF a
  <2>4. g \in Forms
    BY <2>2, <2>3 DEF Forms
  <2>5. f = [g EXCEPT !.amount[other] = None]
    BY DEF a
  <2> HIDE DEF f, g, other
  <2>6. other \in Sides
    BY <2>1 DEF other
  <2>7. QED
    BY <2>4, <2>5, <2>6 DEF Forms
<1>2. Edit(f, None)
  BY DEF flipSides
<1> HIDE DEF f
<1>3. QED
  BY <1>1, <1>2, EditQuotes

LEMMA LimitQuotes ==
  ASSUME QuoteInv, OpenLimit
  PROVE  QuoteInv'
<1>1. form' \in Forms
  <2>1. form \in Forms /\ form' = [form EXCEPT !.edited = "spend"]
    BY DEF OpenLimit, QuoteInv, Sent
  <2>2. QED
    BY <2>1 DEF Forms, Sides
<1>2. /\ tab' = "limit" /\ timer' = None /\ route' = None
      /\ UNCHANGED <<mount, reqSeq, quotes, requotes, late>>
  BY DEF OpenLimit
<1>3. QED
  BY <1>1, <1>2 DEF QuoteInv, Sent, OlderAwaited, LastIsForForm

LEMMA TypeLimitQuotes ==
  ASSUME QuoteInv, NEW side \in Sides, NEW amount \in Amounts, TypeLimit(side, amount)
  PROVE  QuoteInv'
<1>1. form' \in Forms
  <2>1. form \in Forms /\ form' = [form EXCEPT !.amount[side] = amount]
    BY DEF TypeLimit, QuoteInv, Sent
  <2>2. QED
    BY <2>1, TradePanelAssumption DEF Forms
<1>2. tab = "limit" /\ UNCHANGED <<tab, mount, timer, reqSeq, quotes, requotes, route, late>>
  BY DEF TypeLimit
<1>3. QED
  BY <1>1, <1>2 DEF QuoteInv, Sent, OlderAwaited, LastIsForForm, Last_

(* A tab that is opened has sent nothing.                                  *)
LEMMA MarketQuotes ==
  ASSUME QuoteInv, mount < MaxMounts, OpenMarket
  PROVE  QuoteInv'
<1>1. /\ tab = "limit" /\ tab' = "market" /\ mount' = mount + 1
      /\ timer' = IF Wish(form).limit = None THEN None ELSE Wish(form)
      /\ reqSeq' = [reqSeq EXCEPT ![mount + 1] = IF Wish(form).limit = None THEN 1 ELSE 0]
      /\ UNCHANGED <<form, quotes, requotes, route, late>>
  BY DEF OpenMarket
<1>2. /\ form \in Forms /\ mount \in 1..MaxMounts /\ reqSeq \in [1..MaxMounts -> Nat]
      /\ route = None
  BY <1>1 DEF QuoteInv, Sent
<1>3. mount + 1 \in 1..MaxMounts /\ mount \in Nat /\ MaxMounts \in Nat
  BY <1>2, TradePanelAssumption
<1>4. /\ reqSeq' \in [1..MaxMounts -> Nat]
      /\ \A m \in 1..mount : reqSeq'[m] = reqSeq[m]
  <2>1. \A m \in 1..mount : m \in 1..MaxMounts /\ m # mount + 1
    BY <1>2, <1>3
  <2>2. QED
    BY <1>1, <1>2, <1>3, <2>1
<1>5. ASSUME NEW q \in quotes
      PROVE  /\ q.mount \in 1..mount' /\ q.seq \in Nat /\ q.seq <= reqSeq'[q.mount]
             /\ q.mount # mount'
  <2>1. q.mount \in 1..mount /\ q.seq \in Nat /\ q.seq <= reqSeq[q.mount]
    BY DEF QuoteInv, Sent
  <2>2. QED
    BY <1>1, <1>3, <1>4, <2>1
<1>6. RequotesSent(mount', requotes')
  <2>1. RequotesSent(mount, requotes)
    BY DEF QuoteInv, Sent
  <2>2. \A m \in 1..mount : m \in 1..(mount + 1)
    BY <1>3
  <2>3. QED
    BY <1>1, <2>1, <2>2 DEF RequotesSent
<1>7. Sent'
  BY <1>1, <1>2, <1>3, <1>4, <1>5, <1>6 DEF Sent, QuoteInv
<1>8. OlderAwaited' /\ LastIsForForm'
  <2>1. form' = form /\ Wish(form') = Wish(form)
    BY <1>1
  <2>2. QED
    BY <1>1, <1>2, <1>5, <2>1 DEF OlderAwaited, LastIsForForm, Last_
<1>9. QED
  BY <1>7, <1>8 DEF QuoteInv

LEMMA TimerQuotes ==
  ASSUME QuoteInv, TimerFires
  PROVE  QuoteInv'
<1>1. /\ quote(mount, timer) /\ timer # None /\ timer' = None
      /\ UNCHANGED <<form, tab, mount, route, requotes>>
  BY DEF TimerFires
<1>2. mount \in 1..mount /\ mounted(mount)
  BY <1>1, TradePanelAssumption DEF QuoteInv, Sent, mounted
<1>3. RequotesSent(mount, requotes')
  BY <1>1 DEF QuoteInv, Sent
<1>4. QED
  BY <1>1, <1>2, <1>3, SendKeeps

LEMMA ReindexedQuotes ==
  ASSUME QuoteInv, NEW i \in DOMAIN requotes, Reindexed(i)
  PROVE  QuoteInv'
<1>1. /\ quote(requotes[i].mount, requotes[i].wish) /\ requotes' = RemoveAt(requotes, i)
      /\ UNCHANGED <<form, tab, mount, timer, route>>
  BY DEF Reindexed
<1>2. IsList(requotes) /\ \A k \in DOMAIN requotes : requotes[k].mount \in 1..mount
  BY DEF QuoteInv, Sent, RequotesSent
<1>3. RequotesSent(mount, requotes')
  BY <1>1, <1>2, ListRemove DEF RequotesSent
<1>4. QED
  BY <1>1, <1>2, <1>3, SendKeeps

(* An answer.  That of a quote of this tab is the last one, or it is       *)
(* dropped; that of an older tab may write the form.                       *)
LEMMA AnsweredQuotes ==
  ASSUME QuoteInv, RoutesInv, NEW q \in quotes, Answered(q)
  PROVE  QuoteInv'
<1>1. /\ q.legs # None /\ quotes' = quotes \ {q}
      /\ form' = IF current(q) THEN estimated(form, q) ELSE form
      /\ UNCHANGED <<tab, mount, late>>
  BY DEF Answered
<1>2. form \in Forms /\ form' \in Forms
  BY <1>1, EstimateOfAnswer DEF QuoteInv, Sent, RoutesInv
<1>3. CASE tab # "market"
  <2>1. UNCHANGED <<route, timer, reqSeq, requotes>>
    BY <1>3 DEF Answered
  <2>2. route = None
    BY <1>3 DEF QuoteInv, Sent
  <2>3. QED
    BY <1>1, <1>2, <1>3, <2>1, <2>2 DEF QuoteInv, Sent, OlderAwaited, LastIsForForm
<1>4. CASE tab = "market"
  <2> DEFINE here == mounted(q.mount) /\ current(q)
             new == [seq |-> q.seq, wish |-> q.wish, legs |-> q.legs]
             r == IF here THEN new ELSE route
  <2>1. QuoteEffect(r) /\ ErrorEffect
    BY <1>4 DEF Answered
  <2>2. RequotesSent(mount, requotes')
    BY <1>1, <2>1, ErrorsSent DEF QuoteInv
  <2>3. here => Last_(q) /\ q.seq \in Nat
    BY DEF mounted, current, Last_, QuoteInv, Sent
  <2>4. new.seq = q.seq /\ new.wish = q.wish
    OBVIOUS
  <2>5. r # None => /\ r.seq \in Nat /\ r.seq <= reqSeq[mount]
                    /\ r.seq = reqSeq[mount] \/ \E p \in quotes' : Last_(p)
    <3>1. CASE here
      <4>1. r.seq = q.seq /\ q.seq \in Nat /\ q.seq = reqSeq[mount]
        BY <2>3, <2>4, <3>1 DEF Last_
      <4>2. QED
        BY <4>1
    <3>2. CASE ~here
      <4>1. r = route
        BY <3>2
      <4>2. Last_(q) => here
        BY <1>4 DEF Last_, mounted, current
      <4>3. QED
        BY <1>1, <3>2, <4>1, <4>2 DEF QuoteInv, Sent, OlderAwaited
    <3>3. QED
      BY <3>1, <3>2
  <2>6. r # None /\ r.seq = reqSeq[mount] /\ timer = None /\ ~late => r.wish = Wish(form)
    <3>1. CASE here
      BY <1>4, <2>3, <2>4, <3>1 DEF QuoteInv, LastIsForForm
    <3>2. CASE ~here
      BY <1>4, <3>2 DEF QuoteInv, LastIsForForm
    <3>3. QED
      BY <3>1, <3>2
  <2> HIDE DEF r
  <2>7. quotes' \subseteq quotes
    BY <1>1
  <2>8. QED
    BY <1>1, <1>2, <1>4, <2>1, <2>2, <2>5, <2>6, <2>7, EffectKeeps
<1>5. QED
  BY <1>3, <1>4

LEMMA FailureQuotes ==
  ASSUME QuoteInv, NEW q \in quotes, QuoteFails(q)
  PROVE  QuoteInv'
<1>1. /\ quotes' = quotes \ {q}
      /\ route' = IF mounted(q.mount) /\ current(q) THEN None ELSE route
      /\ UNCHANGED <<form, tab, mount, timer, reqSeq, requotes, late>>
  BY DEF QuoteFails
<1>2. route' # None => route' = route /\ ~Last_(q)
  <2>1. route # None => tab = "market"
    BY DEF QuoteInv, Sent
  <2>2. QED
    BY <1>1, <2>1 DEF Last_, mounted, current
<1>3. Sent'
  BY <1>1, <1>2 DEF QuoteInv, Sent
<1>4. OlderAwaited'
  BY <1>1, <1>2 DEF QuoteInv, OlderAwaited, Last_
<1>5. LastIsForForm'
  BY <1>1, <1>2 DEF QuoteInv, LastIsForForm, Last_
<1>6. QED
  BY <1>3, <1>4, <1>5 DEF QuoteInv

(* Whatever the flow, the chain and the backend do.                        *)
LEMMA OtherQuotes ==
  ASSUME QuoteInv,
         \/ Synced \/ Execute \/ TakeBest \/ Confirm \/ Reject \/ Dismiss \/ onSettled
         \/ ChainStep \/ UNCHANGED vars
         \/ \E tx \in builds : BuildReturns(tx)
         \/ \E tx \in signings : WalletReturns(tx)
  PROVE  QuoteInv'
<1>1. UNCHANGED <<form, tab, mount, timer, reqSeq, quotes, route, late>>
  BY DEF Synced, Execute, TakeBest, Click, Confirm, Reject, Dismiss, onSettled, ChainStep,
         vars, panel, BuildReturns, WalletReturns, WhileFlowing
<1>2. UNCHANGED requotes \/ ErrorEffect \/ Reindex(Wish(form))
  BY DEF Synced, Execute, TakeBest, Click, Confirm, Reject, Dismiss, onSettled, ChainStep,
         vars, panel, BuildReturns, WalletReturns, NextBatch, Leave
<1>3. RequotesSent(mount, requotes')
  <2>1. Sent /\ UNCHANGED mount
    BY <1>1 DEF QuoteInv
  <2>2. CASE ErrorEffect
    BY <2>1, <2>2, ErrorsSent
  <2>3. CASE UNCHANGED requotes \/ Reindex(Wish(form))
    BY <2>1, <2>3, ReindexSent
  <2>4. QED
    BY <1>2, <2>2, <2>3
<1>4. QED
  BY <1>1, <1>3, QuotesRest DEF quoteVars

LEMMA QuotesKept ==
  ASSUME QuoteInv, RoutesInv, [Next]_vars
  PROVE  QuoteInv'
<1>1. CASE \E side \in Sides, amount \in Amounts : Type(side, amount) \/ TypeLimit(side, amount)
  BY <1>1, TypeQuotes, TypeLimitQuotes
<1>2. CASE flipSides
  BY <1>2, FlipQuotes
<1>3. CASE OpenLimit
  BY <1>3, LimitQuotes
<1>4. CASE mount < MaxMounts /\ OpenMarket
  BY <1>4, MarketQuotes
<1>5. CASE TimerFires
  BY <1>5, TimerQuotes
<1>6. CASE \E q \in quotes : Planned(q) \/ Answered(q) \/ QuoteFails(q)
  BY <1>6, PlanningKeeps, AnsweredQuotes, FailureQuotes
<1>7. CASE \E i \in DOMAIN requotes : Reindexed(i)
  BY <1>7, ReindexedQuotes
<1>8. CASE \/ Synced \/ Execute \/ TakeBest \/ Confirm \/ Reject \/ Dismiss \/ onSettled
           \/ ChainStep \/ UNCHANGED vars
           \/ \E tx \in builds : BuildReturns(tx)
           \/ \E tx \in signings : WalletReturns(tx)
  BY <1>8, OtherQuotes
<1>9. QED
  BY <1>1, <1>2, <1>3, <1>4, <1>5, <1>6, <1>7, <1>8 DEF Next, Sides

----------------------------------------------------------------------------
(***************************************************************************)
(* The open orders.                                                        *)
(***************************************************************************)

(* What a fill leaves of an order.                                         *)
LEMMA RestOfOrder ==
  ASSUME NEW orders, OrdersKept(orders), NEW o \in orders, NEW leg \in Legs
  PROVE  /\ {"id", "offeredAmount", "requestedAmount"} \subseteq DOMAIN rest(o, leg)
         /\ rest(o, leg).id = o.id + RestId
         /\ rest(o, leg).offeredAmount \in Int /\ rest(o, leg).requestedAmount \in Int
         /\ rest(o, leg).id \in Int /\ rest(o, leg).id % RestId = o.id % RestId
<1>1. /\ {"id", "offeredAmount", "requestedAmount"} \subseteq DOMAIN o
      /\ o.id \in Int /\ o.offeredAmount \in Int /\ o.requestedAmount \in Int
  BY DEF OrdersKept
<1>2. PICK i \in Int, f \in Int, a \in Int :
        i = o.id + RestId /\ f = o.offeredAmount - leg.receive /\ a = o.requestedAmount - leg.spend
  BY <1>1 DEF Legs, RestId
<1>3. PICK x : x = [o EXCEPT !.id = i]
  OBVIOUS
<1>4. PICK y : y = [x EXCEPT !.offeredAmount = f]
  OBVIOUS
<1>5. DOMAIN x = DOMAIN o /\ x.id = i /\ x.offeredAmount = o.offeredAmount
      /\ x.requestedAmount = o.requestedAmount
  BY <1>1, <1>3
<1>6. DOMAIN y = DOMAIN o /\ y.id = i /\ y.offeredAmount = f
      /\ y.requestedAmount = o.requestedAmount
  BY <1>1, <1>4, <1>5
<1>7. rest(o, leg) = [y EXCEPT !.requestedAmount = a]
  BY <1>2, <1>3, <1>4, <1>5, <1>6 DEF rest
<1>8. /\ DOMAIN rest(o, leg) = DOMAIN o /\ rest(o, leg).id = i
      /\ rest(o, leg).offeredAmount = f /\ rest(o, leg).requestedAmount = a
  BY <1>1, <1>6, <1>7
<1>9. i % RestId = o.id % RestId
  BY <1>1, <1>2 DEF RestId
<1>10. QED
  BY <1>1, <1>2, <1>8, <1>9

LEMMA SettledOrders ==
  ASSUME OrdersKept(book), NEW tx, tx.legs \in Seq(Legs), Settle(tx)
  PROVE  OrdersKept(book)'
<1> DEFINE K == {o \in book : o.id \notin taken(tx)}
           P == {o \in book : o.id \in taken(tx) /\ legOn(tx, o).takeAmount # None}
           f == [o \in P |-> rest(o, legOn(tx, o))]
           R == {f[o] : o \in P}
<1>1. book' = K \cup {rest(o, legOn(tx, o)) : o \in P}
  BY DEF Settle, remainders
<1>2. {rest(o, legOn(tx, o)) : o \in P} = R
  OBVIOUS
<1>3. ASSUME NEW o \in P PROVE legOn(tx, o) \in Legs
  <2>1. \E i \in DOMAIN tx.legs : tx.legs[i].orderId = o.id
    BY DEF taken, selected
  <2>2. \A i \in DOMAIN tx.legs : tx.legs[i] \in Legs
    OBVIOUS
  <2>3. QED
    BY <2>1, <2>2 DEF legOn
<1>4. ASSUME NEW o \in P
      PROVE  /\ {"id", "offeredAmount", "requestedAmount"} \subseteq DOMAIN f[o]
             /\ f[o].offeredAmount \in Int /\ f[o].requestedAmount \in Int
             /\ f[o].id \in Int /\ f[o].id % RestId = o.id % RestId
  <2>1. legOn(tx, o) \in Legs /\ o \in book /\ f[o] = rest(o, legOn(tx, o))
    BY <1>3
  <2> HIDE DEF f, P
  <2>2. QED
    BY <2>1, RestOfOrder
<1>5. IsFiniteSet(book')
  <2>1. IsFiniteSet(book)
    BY DEF OrdersKept
  <2>2. IsFiniteSet(K) /\ IsFiniteSet(P)
    BY <2>1, FS_Subset
  <2>3. DOMAIN f = P /\ f = [o \in DOMAIN f |-> f[o]]
    OBVIOUS
  <2> HIDE DEF f, K, P
  <2>4. IsFiniteSet(R)
    BY <2>2, <2>3, ImageFinite
  <2>5. QED
    BY <1>1, <1>2, <2>2, <2>4, FS_Union
<1>6. book' = K \cup R
  BY <1>1, <1>2
<1>7. K \subseteq book /\ P \subseteq book /\ K \cap P = {}
  OBVIOUS
<1> HIDE DEF K, P, f
<1>8. \A o \in book' : /\ {"id", "offeredAmount", "requestedAmount"} \subseteq DOMAIN o
                       /\ o.id \in Int
                       /\ o.offeredAmount \in Int /\ o.requestedAmount \in Int
  BY <1>4, <1>6, <1>7 DEF OrdersKept
<1>9. \A o, p \in book' : o.id % RestId = p.id % RestId => o = p
  <2> SUFFICES ASSUME NEW o \in book', NEW p \in book', o.id % RestId = p.id % RestId
               PROVE  o = p
    OBVIOUS
  <2>1. PICK a \in K \cup P : /\ o.id % RestId = a.id % RestId
                              /\ (a \in K => o = a) /\ (a \in P => o = f[a])
    BY <1>4, <1>6, <1>7
  <2>2. PICK b \in K \cup P : /\ p.id % RestId = b.id % RestId
                              /\ (b \in K => p = b) /\ (b \in P => p = f[b])
    BY <1>4, <1>6, <1>7
  <2>3. a = b
    BY <1>7, <2>1, <2>2 DEF OrdersKept
  <2>4. QED
    BY <2>1, <2>2, <2>3
<1>10. QED
  BY <1>5, <1>8, <1>9 DEF OrdersKept

----------------------------------------------------------------------------
(***************************************************************************)
(* The batches of a route.                                                 *)
(***************************************************************************)
Pieces(legs) == (Len(legs) + MaxOrdersPerTx - 1) \div MaxOrdersPerTx

piece(legs, i) ==
  SubSeq(legs, (i - 1) * MaxOrdersPerTx + 1, Min({i * MaxOrdersPerTx, Len(legs)}))

(* A batch of that route.                                                  *)
BatchOf(tx, m, wish, legs) ==
  /\ tx.index \in 1..Pieces(legs)
  /\ tx = [mount |-> m, click |-> tx.click, wish |-> wish, index |-> tx.index,
           legs |-> piece(legs, tx.index)]

Underway == {"preview", "signing", "submitted"}

(* The batches there are, or were, or may be built yet.                    *)
Txs ==
  Batches \cup {queue[i] : i \in DOMAIN queue} \cup {t \in {flow.tx} : flow.step \in Underway}

OneRoute(c, txs) ==
  \E m, wish, legs : /\ Routed(wish, legs)
                     /\ \A tx \in txs : tx.click = c => BatchOf(tx, m, wish, legs)

(* Every batch is of a click, and those of a click are pieces of one route *)
(* that keeps within its limit.                                            *)
TxsInv ==
  /\ clicks \in Nat
  /\ IsList(queue) /\ runIndex \in Nat /\ runIndex > 0
  /\ \A tx \in Txs : tx.click \in 1..clicks
  /\ \A c \in 1..clicks : OneRoute(c, Txs)

LEMMA TxsBegin ==
  ASSUME Init
  PROVE  TxsInv
<1>1. /\ clicks = 0 /\ queue = << >> /\ runIndex = 1 /\ flow.step = "idle"
      /\ builds = {} /\ signings = {} /\ pending = {} /\ settled = {}
  BY DEF Init, FlowInit, Idle
<1>2. IsList(queue) /\ DOMAIN queue = {}
  BY <1>1 DEF IsList
<1>3. Txs = {}
  BY <1>1, <1>2 DEF Txs, Batches, Underway
<1>4. QED
  BY <1>1, <1>2, <1>3 DEF TxsInv

(* Steps without a click only move batches on, or drop them.               *)
LEMMA BatchesMove ==
  ASSUME TxsInv, clicks' = clicks, Txs' \subseteq Txs,
         IsList(queue)', runIndex' \in Nat, runIndex' > 0
  PROVE  TxsInv'
  BY DEF TxsInv, OneRoute

LEMMA PiecesOf ==
  ASSUME NEW legs \in Seq(Legs)
  PROVE  /\ Pieces(legs) \in Nat
         /\ \A i \in Nat : Pieces(legs) >= i <=> Len(legs) > (i - 1) * MaxOrdersPerTx
<1>1. PICK size \in Nat, n \in Nat : size = MaxOrdersPerTx /\ size > 0 /\ n = Len(legs)
  BY TradePanelAssumption
<1>2. PICK k \in Nat : k = n + size - 1
  BY <1>1
<1>3. PICK p \in Nat : p = k \div size /\ size * p <= k /\ k < size * p + size
  BY <1>1
<1>4. Pieces(legs) = p
  BY <1>1, <1>2, <1>3 DEF Pieces
<1>5. ASSUME NEW i \in Nat PROVE p >= i <=> n > (i - 1) * size
  <2>1. (i - 1) * size = size * i - size /\ size * i \in Nat /\ size * p \in Nat
    BY <1>1
  <2>2. p >= i => size * p >= size * i
    BY TimesMonotone
  <2>3. p < i => size * (p + 1) <= size * i
    BY TimesMonotone, p + 1 \in Int, p < i => p + 1 <= i
  <2>4. size * (p + 1) = size * p + size
    OBVIOUS
  <2>5. QED
    BY <1>2, <1>3, <2>1, <2>2, <2>3, <2>4
<1>6. QED
  BY <1>1, <1>4, <1>5

(* The legs of a piece, at their places in the route.                      *)
PieceOf(legs, i) ==
  \E a \in Nat, b \in Nat :
    /\ a = (i - 1) * MaxOrdersPerTx /\ b <= MaxOrdersPerTx /\ a + b <= Len(legs)
    /\ piece(legs, i) \in Seq(Legs) /\ Len(piece(legs, i)) = b
    /\ \A j \in 1..b : piece(legs, i)[j] = legs[a + j]

LEMMA PieceLegs ==
  ASSUME NEW legs \in Seq(Legs), NEW i \in 1..Pieces(legs)
  PROVE  PieceOf(legs, i)
<1>1. PICK size \in Nat, n \in Nat : size = MaxOrdersPerTx /\ size > 0 /\ n = Len(legs)
  BY TradePanelAssumption
<1>2. i \in Nat /\ i > 0 /\ Pieces(legs) >= i
  BY PiecesOf
<1>3. PICK a \in Nat : a = (i - 1) * size /\ i * size = a + size
  <2>1. (i - 1) * size = i * size - size
    BY <1>1, <1>2
  <2>2. i - 1 \in Nat
    BY <1>2
  <2>3. (i - 1) * size \in Nat
    BY <2>2
  <2>4. QED
    BY <2>1, <2>3
<1>4. a < n
  BY <1>1, <1>2, <1>3, PiecesOf
<1>5. PICK e \in Nat : e = Min({a + size, n}) /\ e <= n /\ e <= a + size /\ e > a
  <2>1. Min({a + size, n}) = IF a + size <= n THEN a + size ELSE n
    BY DEF Min
  <2>2. QED
    BY <1>1, <1>4, <2>1
<1>6. piece(legs, i) = SubSeq(legs, a + 1, e)
  BY <1>1, <1>3, <1>5 DEF piece
<1>7. PICK b \in Nat : b = e - a
  BY <1>5
<1>8. /\ SubSeq(legs, a + 1, e) \in Seq(Legs) /\ Len(SubSeq(legs, a + 1, e)) = b
      /\ \A j \in 1..b : SubSeq(legs, a + 1, e)[j] = legs[a + j]
  <2>1. a + 1 \in 1..n /\ e \in 1..n /\ e - (a + 1) + 1 = b
    BY <1>4, <1>5, <1>7
  <2>2. \A j \in 1..b : (a + 1) + j - 1 = a + j
    OBVIOUS
  <2>3. SubSeq(legs, a + 1, e) = [j \in 1..b |-> legs[(a + 1) + j - 1]]
    BY <1>1, <2>1
  <2>4. \A j \in 1..b : a + j \in 1..n
    BY <1>5, <1>7
  <2>5. \A j \in 1..b : legs[a + j] \in Legs
    <3>1. \A k \in 1..n : legs[k] \in Legs
      BY <1>1
    <3>2. QED
      BY <2>4, <3>1
  <2> DEFINE p == SubSeq(legs, a + 1, e)
  <2> HIDE DEF p
  <2>6. p = [j \in 1..b |-> legs[(a + 1) + j - 1]]
    BY <2>3 DEF p
  <2>7. /\ p = [j \in 1..b |-> p[j]]
        /\ \A j \in 1..b : p[j] = legs[a + j] /\ p[j] \in Legs
    BY <2>2, <2>5, <2>6
  <2>8. p \in Seq(Legs) /\ Len(p) = b
    <3>1. PICK Z : Z = Legs
      OBVIOUS
    <3>2. \A j \in 1..b : p[j] \in Z
      BY <2>7, <3>1
    <3>3. p = [j \in 1..b |-> p[j]]
      BY <2>7
    <3>4. p \in [1..b -> Z]
      BY <3>2, <3>3
    <3>5. p \in Seq(Z) /\ DOMAIN p = 1..b
      BY <3>4, b \in Nat
    <3>6. Len(p) = b
      BY <3>5
    <3>7. QED
      BY <3>1, <3>5, <3>6
  <2>9. QED
    BY <2>7, <2>8 DEF p
<1>9. a + b <= Len(legs) /\ b <= size
  BY <1>1, <1>5, <1>7
<1> DEFINE p == piece(legs, i)
<1>10. p \in Seq(Legs) /\ Len(p) = b /\ \A j \in 1..b : p[j] = legs[a + j]
  BY <1>6, <1>8
<1> HIDE DEF p
<1>11. QED
  BY <1>1, <1>3, <1>9, <1>10 DEF PieceOf, p

(* A click starts a route of its own.                                      *)
LEMMA ClickTxs ==
  ASSUME TxsInv, NEW batches, Click(batches), NEW legs, Routed(route.wish, legs),
         IsList(batches), 1 \in DOMAIN batches,
         \A i \in DOMAIN batches : i \in 1..Pieces(legs) /\ batches[i] = batch(i, piece(legs, i))
  PROVE  TxsInv'
<1> DEFINE new == {batches[i] : i \in DOMAIN batches}
<1>1. /\ clicks' = clicks + 1 /\ queue' = batches /\ runIndex' = 1
      /\ flow'.step = "building" /\ builds' = builds \cup {batches[1]}
      /\ UNCHANGED <<chain, signings>>
  BY DEF Click, runBatch, build, At
<1>2. Txs' \subseteq Txs \cup new
  BY <1>1 DEF Txs, Batches, chain, Underway
<1>3. ASSUME NEW tx \in new
      PROVE  tx.click = clicks + 1 /\ BatchOf(tx, mount, route.wish, legs)
  <2>1. PICK i \in DOMAIN batches : tx = batch(i, piece(legs, i)) /\ i \in 1..Pieces(legs)
    OBVIOUS
  <2>2. PICK l : l = piece(legs, i)
    OBVIOUS
  <2>3. tx = [mount |-> mount, click |-> clicks + 1, wish |-> route.wish, index |-> i,
              legs |-> l]
    BY <2>1, <2>2 DEF batch
  <2>4. tx.index = i /\ tx.click = clicks + 1
    BY <2>3
  <2>5. QED
    BY <2>1, <2>2, <2>3, <2>4 DEF BatchOf
<1> HIDE DEF new
<1>4. \A tx \in Txs' : tx.click \in 1..(clicks + 1)
  BY <1>2, <1>3 DEF TxsInv
<1>5. ASSUME NEW c \in 1..(clicks + 1) PROVE OneRoute(c, Txs')
  <2>1. CASE c = clicks + 1
    <3>1. \A tx \in Txs' : tx.click = c => tx \in new
      BY <1>2, <2>1 DEF TxsInv
    <3>2. QED
      BY <1>3, <3>1 DEF OneRoute
  <2>2. CASE c # clicks + 1
    <3>1. c \in 1..clicks
      BY <2>2 DEF TxsInv
    <3>2. \A tx \in Txs' : tx.click = c => tx \in Txs
      BY <1>2, <1>3, <2>2
    <3>3. QED
      BY <3>1, <3>2 DEF TxsInv, OneRoute
  <2>3. QED
    BY <2>1, <2>2
<1>6. QED
  BY <1>1, <1>4, <1>5 DEF TxsInv

LEMMA ExecuteTxs ==
  ASSUME TxsInv, RoutesInv, Execute
  PROVE  TxsInv'
<1> DEFINE legs == route.legs
           batches == chunk(legs, MaxOrdersPerTx)
<1>1. Routed(route.wish, legs) /\ legs # << >> /\ Click(batches)
  BY DEF Execute, Click, RoutesInv
<1>2. legs \in Seq(Legs) /\ Len(legs) > 0
  BY <1>1 DEF Routed
<1> HIDE DEF legs
<1>3. Pieces(legs) \in Nat /\ Pieces(legs) >= 1
  <2>1. MaxOrdersPerTx \in Nat
    BY TradePanelAssumption
  <2>2. (1 - 1) * MaxOrdersPerTx = 0
    BY <2>1
  <2>3. QED
    BY <1>2, <2>2, PiecesOf
<1>4. /\ DOMAIN batches = 1..Pieces(legs)
      /\ batches = [i \in 1..Pieces(legs) |-> batches[i]]
      /\ \A i \in 1..Pieces(legs) : batches[i] = batch(i, piece(legs, i))
  BY DEF chunk, Pieces, piece
<1> HIDE DEF batches
<1>5. IsList(batches)
  <2> DEFINE Z == {batches[i] : i \in DOMAIN batches}
  <2>1. \A i \in 1..Pieces(legs) : batches[i] \in Z
    BY <1>4
  <2> HIDE DEF Z
  <2>2. batches \in Seq(Z)
    BY <1>3, <1>4, <2>1
  <2>3. QED
    BY <2>2 DEF IsList, Z
<1>6. QED
  BY <1>1, <1>3, <1>4, <1>5, ClickTxs

LEMMA OneLegRouted ==
  ASSUME NEW wish, NEW legs, Routed(wish, legs), Len(legs) > 1
  PROVE  Routed(wish, <<legs[1]>>)
<1>1. legs \in Seq(Legs) /\ DOMAIN legs = 1..Len(legs) /\ 1 \in DOMAIN legs
  BY DEF Routed
<1>2. /\ spends(legs) \in Seq(Nat) /\ DOMAIN spends(legs) = DOMAIN legs
      /\ IsFiniteSet(DOMAIN legs) /\ legs[1] \in Legs
  BY <1>1, LegsTyped
<1>3. \A i \in DOMAIN legs : spends(legs)[i] \in Nat
  <2>1. \A s \in Seq(Nat) : \A i \in DOMAIN s : s[i] \in Nat
    OBVIOUS
  <2>2. QED
    BY <1>2, <2>1
<1>4. totalSpend(legs) = spends(legs)[1] + SumFunctionOnSet(spends(legs), DOMAIN legs \ {1})
  <2> DEFINE S == DOMAIN legs
             f == spends(legs)
  <2>1. totalSpend(legs) = SumFunctionOnSet(f, S)
    BY <1>1, TotalsAreSums
  <2>2. IsFiniteSet(S) /\ 1 \in S /\ \A i \in S : f[i] \in Nat
    BY <1>1, <1>2, <1>3
  <2> HIDE DEF S, f
  <2>3. SumFunctionOnSet(f, S) = f[1] + SumFunctionOnSet(f, S \ {1})
    BY <2>2, SumRemove
  <2>4. QED
    BY <2>1, <2>3 DEF S, f
<1>5. SumFunctionOnSet(spends(legs), DOMAIN legs \ {1}) \in Nat
  BY <1>2, <1>3, SumType
<1>6. spends(legs)[1] = legs[1].spend
  BY <1>1 DEF spends
<1>7. /\ <<legs[1]>> \in Seq(Legs) /\ totalSpend(<<legs[1]>>) = legs[1].spend
  <2>1. /\ Append(<< >>, legs[1]) \in Seq(Legs)
        /\ totalSpend(Append(<< >>, legs[1])) = 0 + legs[1].spend
    BY <1>2, TotalsOfNothing, TotalsOfMore
  <2>2. Append(<< >>, legs[1]) = <<legs[1]>>
    OBVIOUS
  <2>3. legs[1].spend \in Nat
    BY <1>2 DEF Legs
  <2>4. QED
    BY <2>1, <2>2, <2>3
<1>8. spends(legs)[1] \in Nat /\ totalSpend(legs) >= totalSpend(<<legs[1]>>)
  BY <1>1, <1>3, <1>4, <1>5, <1>6, <1>7
<1>9. wish.limit \in Nat /\ totalSpend(legs) \in Nat /\ totalSpend(<<legs[1]>>) \in Nat
  BY <1>1, <1>7, TotalsAreSums DEF Routed, Asked
<1>10. QED
  BY <1>7, <1>8, <1>9 DEF Routed, WithinBudget

LEMMA TakeBestTxs ==
  ASSUME TxsInv, RoutesInv, TakeBest
  PROVE  TxsInv'
<1> DEFINE legs == <<route.legs[1]>>
           batches == <<batch(1, legs)>>
<1>1. Routed(route.wish, route.legs) /\ Len(route.legs) > 1 /\ Click(batches)
  BY DEF TakeBest, RoutesInv
<1>2. Routed(route.wish, legs)
  BY <1>1, OneLegRouted
<1>3. legs \in Seq(Legs) /\ Len(legs) = 1
  BY <1>2 DEF Routed
<1>4. Pieces(legs) \in Nat /\ Pieces(legs) >= 1 /\ piece(legs, 1) = legs
  <2>1. PICK size \in Nat : size = MaxOrdersPerTx /\ size > 0
    BY TradePanelAssumption
  <2>2. (1 - 1) * size = 0 /\ 1 * size = size
    OBVIOUS
  <2>3. Min({size, 1}) = 1
    <3>1. \A x \in {size, 1} : 1 <= x
      BY <2>1
    <3>2. QED
      BY <2>1, <3>1 DEF Min
  <2>4. piece(legs, 1) = SubSeq(legs, 1, 1)
    BY <1>3, <2>1, <2>2, <2>3 DEF piece
  <2> HIDE DEF legs
  <2>5. SubSeq(legs, 1, 1) = legs
    <3>1. SubSeq(legs, 1, 1) = [i \in 1..1 |-> legs[i]] /\ legs = [i \in 1..1 |-> legs[i]]
      BY <1>3
    <3>2. QED
      BY <3>1
  <2>6. Pieces(legs) \in Nat /\ Pieces(legs) >= 1
    <3>1. Len(legs) > (1 - 1) * MaxOrdersPerTx
      BY <1>3, <2>1, <2>2
    <3>2. QED
      BY <1>3, <3>1, PiecesOf
  <2>7. QED
    BY <2>4, <2>5, <2>6
<1> HIDE DEF legs
<1>5. DOMAIN batches = {1} /\ batches[1] = batch(1, piece(legs, 1)) /\ IsList(batches)
  <2>1. DOMAIN batches = {1} /\ batches[1] = batch(1, legs)
    OBVIOUS
  <2> DEFINE Z == {batches[i] : i \in DOMAIN batches}
  <2>2. batch(1, legs) \in Z
    BY <2>1
  <2> HIDE DEF Z
  <2>3. batches \in Seq(Z)
    BY <2>2
  <2> HIDE DEF batches
  <2>4. QED
    BY <1>4, <2>1, <2>3 DEF IsList, Z
<1> HIDE DEF batches
<1>6. QED
  BY <1>1, <1>2, <1>4, <1>5, ClickTxs

(* The form, the quotes and the backend have no part in it.                *)
LEMMA QuotingTxs ==
  ASSUME TxsInv, UNCHANGED <<chain, flow, builds, signings, queue, runIndex, clicks>>
  PROVE  TxsInv'
<1>1. Txs' = Txs
  BY DEF Txs, Batches, chain
<1>2. QED
  BY <1>1, BatchesMove DEF TxsInv

(* The queue is dropped.                                                   *)
LEMMA DroppedTxs ==
  ASSUME TxsInv, UNCHANGED <<chain, signings, builds, clicks>>,
         flow'.step \notin Underway, queue' = << >>, runIndex' = 1
  PROVE  TxsInv'
<1>1. IsList(queue') /\ DOMAIN queue' = {}
  BY DEF IsList
<1>2. Txs' \subseteq Txs
  BY <1>1 DEF Txs, Batches, chain
<1>3. QED
  BY <1>1, <1>2, BatchesMove

LEMMA BuildReturnsTxs ==
  ASSUME TxsInv, NEW tx \in builds, BuildReturns(tx)
  PROVE  TxsInv'
<1>1. /\ UNCHANGED <<chain, signings, queue, runIndex, clicks>>
      /\ builds' = builds \ {tx}
      /\ flow' = flow \/ flow' = At("preview", tx) \/ flow' = At("error", None)
  BY DEF BuildReturns, Built, BuildFails, WhileFlowing
<1>2. Txs' \subseteq Txs
  BY <1>1 DEF Txs, Batches, chain, At, Underway
<1>3. QED
  BY <1>1, <1>2, BatchesMove DEF TxsInv

LEMMA ConfirmTxs ==
  ASSUME TxsInv, Confirm
  PROVE  TxsInv'
<1>1. /\ UNCHANGED <<chain, builds, queue, runIndex, clicks>>
      /\ flow.step = "preview" /\ flow' = At("signing", flow.tx)
      /\ signings' = signings \cup {flow.tx}
  BY DEF Confirm, confirmAndSign, WhileFlowing
<1>2. flow.tx \in Txs
  BY <1>1 DEF Txs, Underway
<1>3. flow'.tx = flow.tx
  BY <1>1 DEF At
<1>4. Txs' \subseteq Txs
  BY <1>1, <1>2, <1>3 DEF Txs, Batches, chain
<1>5. QED
  BY <1>1, <1>4, BatchesMove DEF TxsInv

LEMMA WalletReturnsTxs ==
  ASSUME TxsInv, NEW tx \in signings, WalletReturns(tx)
  PROVE  TxsInv'
<1>1. /\ UNCHANGED <<settled, builds, queue, runIndex, clicks>>
      /\ signings' = signings \ {tx} /\ pending' \subseteq pending \cup {tx}
      /\ flow' = flow \/ flow' = At("submitted", tx) \/ flow' = At("error", None)
  BY DEF WalletReturns, Submitted, SigningFails, WhileFlowing
<1>2. Txs' \subseteq Txs
  BY <1>1 DEF Txs, Batches, At, Underway
<1>3. QED
  BY <1>1, <1>2, BatchesMove DEF TxsInv

LEMMA LeaveTxs ==
  ASSUME TxsInv, Leave, UNCHANGED <<chain, signings, clicks>>
  PROVE  TxsInv'
  BY DroppedTxs DEF Leave, reset, Idle, Underway

LEMMA SettledTxs ==
  ASSUME TxsInv, onSettled
  PROVE  TxsInv'
<1>1. UNCHANGED <<chain, signings, clicks>>
  BY DEF onSettled
<1>2. CASE runIndex < Len(queue)
  <2> DEFINE i == runIndex + 1
  <2>1. /\ queue' = queue /\ runIndex' = i /\ flow' = At("building", None)
        /\ builds' = builds \cup {queue[i]}
    BY <1>2 DEF onSettled, NextBatch, runBatch, build
  <2>2. i \in DOMAIN queue /\ i \in Nat /\ i > 0
    BY <1>2 DEF TxsInv, IsList
  <2> HIDE DEF i
  <2>3. Txs' \subseteq Txs
    BY <1>1, <2>1, <2>2 DEF Txs, Batches, chain, At, Underway
  <2>4. QED
    BY <1>1, <2>1, <2>2, <2>3, BatchesMove DEF TxsInv
<1>3. CASE ~(runIndex < Len(queue))
  BY <1>1, <1>3, LeaveTxs DEF onSettled, NextBatch
<1>4. QED
  BY <1>2, <1>3

LEMMA ChainTxs ==
  ASSUME TxsInv, ChainStep
  PROVE  TxsInv'
<1>1. UNCHANGED <<flow, builds, signings, queue, runIndex, clicks>>
  BY DEF ChainStep, panel
<1>2. pending' \cup settled' \subseteq pending \cup settled
  BY DEF ChainStep, Settle, SomeoneTakes
<1>3. Txs' \subseteq Txs
  BY <1>1, <1>2 DEF Txs, Batches
<1>4. QED
  BY <1>1, <1>3, BatchesMove DEF TxsInv

LEMMA TxsKept ==
  ASSUME TxsInv, RoutesInv, [Next]_vars
  PROVE  TxsInv'
<1>1. CASE UNCHANGED <<chain, flow, builds, signings, queue, runIndex, clicks>>
  BY <1>1, QuotingTxs
<1>2. CASE OpenLimit \/ Reject
  BY <1>2, DroppedTxs DEF OpenLimit, Reject, reset, Idle, Underway
<1>3. CASE Execute \/ TakeBest
  BY <1>3, ExecuteTxs, TakeBestTxs
<1>4. CASE \E tx \in builds : BuildReturns(tx)
  BY <1>4, BuildReturnsTxs
<1>5. CASE Confirm
  BY <1>5, ConfirmTxs
<1>6. CASE \E tx \in signings : WalletReturns(tx)
  BY <1>6, WalletReturnsTxs
<1>7. CASE Dismiss
  BY <1>7, LeaveTxs DEF Dismiss
<1>8. CASE onSettled
  BY <1>8, SettledTxs
<1>9. CASE ChainStep
  BY <1>9, ChainTxs
<1>10. CASE \/ \E side \in Sides, amount \in Amounts : Type(side, amount) \/ TypeLimit(side, amount)
            \/ flipSides \/ OpenMarket \/ TimerFires \/ Synced \/ UNCHANGED vars
            \/ \E q \in quotes : Planned(q) \/ Answered(q) \/ QuoteFails(q)
            \/ \E i \in DOMAIN requotes : Reindexed(i)
  <2>1. UNCHANGED <<chain, flow, builds, signings, queue, runIndex, clicks>>
    BY <1>10 DEF Type, Edit, TypeLimit, flipSides, OpenMarket, TimerFires, Synced, vars, panel,
                 Planned, Answered, QuoteFails, Reindexed
  <2>2. QED
    BY <2>1, <1>1
<1>11. QED
  BY <1>2, <1>3, <1>4, <1>5, <1>6, <1>7, <1>8, <1>9, <1>10 DEF Next, Sides

----------------------------------------------------------------------------
(***************************************************************************)
(* The orders, and the routes planned on them.                             *)
(***************************************************************************)
LEMMA RoutesBegin ==
  ASSUME Init
  PROVE  RoutesInv
<1>1. /\ book \in InitialBook /\ cache = book /\ timer = None /\ quotes = {}
      /\ requotes = << >> /\ route = None
  BY DEF Init, FlowInit
<1>2. OrdersKept(book)
  BY <1>1, TradePanelAssumption DEF OrdersKept
<1>3. QED
  BY <1>1, <1>2 DEF RoutesInv

(* The legs of a batch are legs of the planner.                            *)
LEMMA LegsOfTx ==
  ASSUME TxsInv, NEW tx \in Txs
  PROVE  tx.legs \in Seq(Legs)
<1>1. PICK m, wish, legs : Routed(wish, legs) /\ BatchOf(tx, m, wish, legs)
  BY DEF TxsInv, OneRoute
<1>2. legs \in Seq(Legs) /\ Len(legs) \in Nat /\ tx.index \in 1..Pieces(legs)
  BY <1>1 DEF Routed, BatchOf
<1>3. PICK p, k, i, c : p = piece(legs, i) /\ i = tx.index /\ c = tx.click
  OBVIOUS
<1>4. tx = [mount |-> m, click |-> c, wish |-> wish, index |-> i, legs |-> p]
  BY <1>1, <1>3 DEF BatchOf
<1>5. tx.legs = piece(legs, i) /\ i \in 1..Pieces(legs)
  BY <1>2, <1>3, <1>4
<1>6. PieceOf(legs, i)
  BY <1>2, <1>5, PieceLegs
<1>7. QED
  BY <1>5, <1>6 DEF PieceOf

(* What reindexing, quoting and the form leave due is asked for.           *)
LEMMA ReindexAsks ==
  ASSUME Sent, RoutesInv, NEW wish, Asked(wish), Reindex(wish) \/ UNCHANGED requotes
  PROVE  \A i \in DOMAIN requotes' : Asked(requotes'[i].wish)
<1>1. CASE Reindex(wish)
  <2>1. PICK x : x = [mount |-> mount, wish |-> wish]
    OBVIOUS
  <2>2. requotes' = Append(requotes, x) /\ IsList(requotes) /\ x.wish = wish
    BY <1>1, <2>1 DEF Reindex, Sent, RequotesSent
  <2>3. \A i \in DOMAIN requotes' :
          requotes'[i] = x \/ \E j \in DOMAIN requotes : requotes'[i] = requotes[j]
    BY <2>2, ListAppend
  <2>4. QED
    BY <2>2, <2>3 DEF RoutesInv
<1>2. CASE UNCHANGED requotes
  BY <1>2 DEF RoutesInv
<1>3. QED
  BY <1>1, <1>2

LEMMA ErrorAsks ==
  ASSUME Sent, RoutesInv, form' \in Forms, ErrorEffect \/ UNCHANGED requotes
  PROVE  \A i \in DOMAIN requotes' : Asked(requotes'[i].wish)
<1>1. CASE UNCHANGED requotes
  BY <1>1 DEF RoutesInv
<1>2. CASE Wish(form').limit # None /\ Reindex(Wish(form'))
  BY <1>2, AskedOfForm, ReindexAsks
<1>3. QED
  BY <1>1, <1>2 DEF ErrorEffect

LEMMA EffectAsks ==
  ASSUME RoutesInv, form' \in Forms, NEW r, QuoteEffect(r),
         r # None => Routed(r.wish, r.legs)
  PROVE  /\ timer' # None => Asked(timer')
         /\ route' # None => Routed(route'.wish, route'.legs)
<1>1. Wish(form').limit # None => Asked(Wish(form'))
  BY AskedOfForm
<1>2. QED
  BY <1>1 DEF QuoteEffect, RoutesInv

LEMMA QuoteAsks ==
  ASSUME RoutesInv, NEW m, NEW wish, Asked(wish), quote(m, wish)
  PROVE  \A q \in quotes' : Asked(q.wish) /\ (q.legs # None => Routed(q.wish, q.legs))
<1>1. PICK new : new = [mount |-> m, seq |-> reqSeq[m] + 1, wish |-> wish, legs |-> None]
  OBVIOUS
<1>2. new.wish = wish /\ new.legs = None /\ quotes' = quotes \cup {new}
  BY <1>1 DEF quote
<1>3. QED
  BY <1>2 DEF RoutesInv

LEMMA EditRoutes ==
  ASSUME QuoteInv, RoutesInv, form' \in Forms, NEW f, NEW r, r = route \/ r = None, Edit(f, r)
  PROVE  RoutesInv'
<1>1. QuoteEffect(r) /\ ErrorEffect /\ UNCHANGED <<chain, cache, quotes>>
  BY DEF Edit
<1>2. /\ timer' # None => Asked(timer')
      /\ route' # None => Routed(route'.wish, route'.legs)
  BY <1>1, EffectAsks DEF RoutesInv
<1>3. \A i \in DOMAIN requotes' : Asked(requotes'[i].wish)
  BY <1>1, ErrorAsks DEF QuoteInv
<1>4. QED
  BY <1>1, <1>2, <1>3 DEF RoutesInv, chain

LEMMA AnsweredRoutes ==
  ASSUME QuoteInv, RoutesInv, form' \in Forms, NEW q \in quotes, Answered(q)
  PROVE  RoutesInv'
<1>1. q.legs # None /\ quotes' = quotes \ {q} /\ UNCHANGED <<chain, cache>>
  BY DEF Answered
<1>2. CASE tab = "market"
  <2> DEFINE new == [seq |-> q.seq, wish |-> q.wish, legs |-> q.legs]
             r == IF mounted(q.mount) /\ current(q) THEN new ELSE route
  <2>1. QuoteEffect(r) /\ ErrorEffect
    BY <1>2 DEF Answered
  <2>2. new.wish = q.wish /\ new.legs = q.legs
    OBVIOUS
  <2> HIDE DEF new
  <2>3. r # None => Routed(r.wish, r.legs)
    BY <1>1, <2>2 DEF RoutesInv
  <2> HIDE DEF r
  <2>4. /\ timer' # None => Asked(timer')
        /\ route' # None => Routed(route'.wish, route'.legs)
    BY <2>1, <2>3, EffectAsks
  <2>5. \A i \in DOMAIN requotes' : Asked(requotes'[i].wish)
    BY <2>1, ErrorAsks DEF QuoteInv
  <2>6. QED
    BY <1>1, <2>4, <2>5 DEF RoutesInv, chain
<1>3. CASE tab # "market"
  BY <1>1, <1>3 DEF Answered, RoutesInv, chain
<1>4. QED
  BY <1>2, <1>3

LEMMA PlanningRoutes ==
  ASSUME QuoteInv, RoutesInv, NEW q \in quotes, Planned(q)
  PROVE  RoutesInv'
<1> DEFINE legs_ == planSmartFill(cache, q.wish, MinPartialSpend, 0)
<1>1. PICK legs : legs = legs_
  OBVIOUS
<1>2. Routed(q.wish, legs)
  BY <1>1, RoutePlanned DEF RoutesInv
<1> HIDE DEF legs_
<1>3. PICK new : new = [q EXCEPT !.legs = legs]
  OBVIOUS
<1>4. new.wish = q.wish /\ new.legs = legs
  BY <1>3 DEF QuoteInv, Sent
<1>5. /\ quotes' = (quotes \ {q}) \cup {new}
      /\ UNCHANGED <<chain, cache, timer, requotes, route>>
  BY <1>1, <1>3 DEF Planned, legs_
<1>6. QED
  BY <1>2, <1>4, <1>5 DEF RoutesInv, chain

LEMMA ReindexedRoutes ==
  ASSUME QuoteInv, RoutesInv, NEW i \in DOMAIN requotes, Reindexed(i)
  PROVE  RoutesInv'
<1>1. /\ quote(requotes[i].mount, requotes[i].wish) /\ requotes' = RemoveAt(requotes, i)
      /\ cache' \in {cache, book} /\ UNCHANGED <<chain, timer, route>>
  BY DEF Reindexed
<1>2. IsList(requotes)
  BY DEF QuoteInv, Sent, RequotesSent
<1>3. \A k \in DOMAIN requotes' : \E j \in DOMAIN requotes : requotes'[k] = requotes[j]
  BY <1>1, <1>2, ListRemove
<1>4. \A p \in quotes' : Asked(p.wish) /\ (p.legs # None => Routed(p.wish, p.legs))
  BY <1>1, QuoteAsks DEF RoutesInv
<1>5. OrdersKept(book)' /\ OrdersKept(cache)'
  <2>1. book' = book /\ (cache' = cache \/ cache' = book)
    BY <1>1 DEF chain
  <2>2. QED
    BY <2>1 DEF RoutesInv
<1>6. QED
  BY <1>1, <1>3, <1>4, <1>5 DEF RoutesInv

LEMMA TimerRoutes ==
  ASSUME RoutesInv, TimerFires
  PROVE  RoutesInv'
<1>1. /\ timer # None /\ quote(mount, timer) /\ timer' = None
      /\ UNCHANGED <<chain, cache, requotes, route>>
  BY DEF TimerFires
<1>2. \A p \in quotes' : Asked(p.wish) /\ (p.legs # None => Routed(p.wish, p.legs))
  BY <1>1, QuoteAsks DEF RoutesInv
<1>3. QED
  BY <1>1, <1>2 DEF RoutesInv, chain

LEMMA TabsRoutes ==
  ASSUME QuoteInv, RoutesInv, OpenLimit \/ OpenMarket
  PROVE  RoutesInv'
<1>1. form \in Forms
  BY DEF QuoteInv, Sent
<1>2. Wish(form).limit # None => Asked(Wish(form))
  BY <1>1, AskedOfForm
<1>3. QED
  BY <1>2 DEF OpenLimit, OpenMarket, RoutesInv, chain

LEMMA FlowRoutes ==
  ASSUME QuoteInv, RoutesInv, UNCHANGED <<book, cache, form, timer, quotes, route>>,
         ErrorEffect \/ UNCHANGED requotes
         \/ (Wish(form).limit # None /\ Reindex(Wish(form)))
  PROVE  RoutesInv'
<1>1. Sent /\ form \in Forms /\ form' \in Forms
  BY DEF QuoteInv, Sent
<1>2. \A i \in DOMAIN requotes' : Asked(requotes'[i].wish)
  <2>1. CASE ErrorEffect \/ UNCHANGED requotes
    BY <1>1, <2>1, ErrorAsks
  <2>2. CASE Wish(form).limit # None /\ Reindex(Wish(form))
    BY <1>1, <2>2, AskedOfForm, ReindexAsks
  <2>3. QED
    BY <2>1, <2>2
<1>3. QED
  BY <1>2 DEF RoutesInv

LEMMA ChainRoutes ==
  ASSUME RoutesInv, TxsInv, ChainStep
  PROVE  RoutesInv'
<1>1. UNCHANGED <<cache, timer, quotes, requotes, route>>
  BY DEF ChainStep, panel
<1>2. OrdersKept(book)'
  <2>1. ASSUME NEW tx \in pending, Settle(tx) PROVE OrdersKept(book)'
    <3>1. tx \in Txs
      BY DEF Txs, Batches
    <3>2. tx.legs \in Seq(Legs)
      BY <3>1, LegsOfTx
    <3>3. QED
      BY <2>1, <3>2, SettledOrders DEF RoutesInv
  <2>2. ASSUME NEW o \in book, SomeoneTakes(o) PROVE OrdersKept(book)'
    <3>1. book' \subseteq book
      BY <2>2 DEF SomeoneTakes
    <3>2. QED
      BY <3>1, FS_Subset DEF RoutesInv, OrdersKept
  <2>3. QED
    BY <2>1, <2>2 DEF ChainStep
<1>3. QED
  BY <1>1, <1>2 DEF RoutesInv

LEMMA RoutesKept ==
  ASSUME QuoteInv, RoutesInv, TxsInv, [Next]_vars
  PROVE  RoutesInv'
<1>0. form' \in Forms
  BY QuotesKept DEF QuoteInv, Sent
<1>1. CASE \E side \in Sides, amount \in Amounts : Type(side, amount)
  BY <1>0, <1>1, EditRoutes DEF Type
<1>2. CASE flipSides
  BY <1>0, <1>2, EditRoutes DEF flipSides
<1>3. CASE OpenLimit \/ OpenMarket
  BY <1>3, TabsRoutes
<1>4. CASE TimerFires
  BY <1>4, TimerRoutes
<1>5. CASE \E q \in quotes : Planned(q) \/ Answered(q) \/ QuoteFails(q)
  <2>1. ASSUME NEW q \in quotes, QuoteFails(q) PROVE RoutesInv'
    BY <2>1 DEF QuoteFails, RoutesInv, chain
  <2>2. QED
    BY <1>0, <1>5, <2>1, PlanningRoutes, AnsweredRoutes
<1>6. CASE \E i \in DOMAIN requotes : Reindexed(i)
  BY <1>6, ReindexedRoutes
<1>7. CASE Synced
  <2>1. book' = book /\ cache' = book /\ UNCHANGED <<timer, quotes, requotes, route>>
    BY <1>7 DEF Synced, chain
  <2>2. QED
    BY <2>1 DEF RoutesInv
<1>8. CASE \/ \E side \in Sides, amount \in Amounts : TypeLimit(side, amount)
           \/ UNCHANGED vars
  BY <1>8 DEF TypeLimit, vars, panel, chain, RoutesInv
<1>9. CASE \/ Execute \/ TakeBest \/ Confirm \/ Reject \/ Dismiss \/ onSettled
           \/ \E tx \in builds : BuildReturns(tx)
           \/ \E tx \in signings : WalletReturns(tx)
  <2>1. UNCHANGED <<book, cache, form, timer, quotes, route>>
    BY <1>9 DEF Execute, TakeBest, Click, Confirm, Reject, Dismiss, onSettled, BuildReturns,
                WalletReturns, WhileFlowing, chain
  <2>2. ErrorEffect \/ UNCHANGED requotes \/ (Wish(form).limit # None /\ Reindex(Wish(form)))
    BY <1>9 DEF Execute, TakeBest, Click, Confirm, Reject, Dismiss, onSettled, BuildReturns,
                WalletReturns, NextBatch, Leave
  <2>3. QED
    BY <2>1, <2>2, FlowRoutes
<1>10. CASE ChainStep
  BY <1>10, ChainRoutes
<1>11. QED
  BY <1>1, <1>2, <1>3, <1>4, <1>5, <1>6, <1>7, <1>8, <1>9, <1>10 DEF Next, Sides

LEMMA PanelInvariant == Spec => [](QuoteInv /\ RoutesInv /\ TxsInv)
<1>1. Init => QuoteInv /\ RoutesInv /\ TxsInv
  BY QuoteBegins, RoutesBegin, TxsBegin
<1>2. QuoteInv /\ RoutesInv /\ TxsInv /\ [Next]_vars => (QuoteInv /\ RoutesInv /\ TxsInv)'
  BY QuotesKept, RoutesKept, TxsKept
<1>3. QED
  BY <1>1, <1>2, PTL DEF Spec

(* The route on display is for what the form says whenever no quote of the *)
(* tab is due or under way, whatever order answers come in, however tabs   *)
(* and amounts are changed meanwhile - unless the last quote was sent for  *)
(* a wish that had changed by then (the effects of TradePanel.tsx that     *)
(* debounce, send and drop quotes).                                        *)
THEOREM RestingRouteAlwaysCurrent == Spec => []RestingRouteCurrent
<1>1. QuoteInv => RestingRouteCurrent
  BY DEF QuoteInv, OlderAwaited, LastIsForForm, Last_, RestingRouteCurrent, Resting
<1>2. QED
  BY <1>1, PanelInvariant, PTL

(* The route of an earlier quote never replaces that of a later one: the   *)
(* sequence numbers of TradePanel.tsx do their work across tabs and edits. *)
LEMMA RoutesReplaced ==
  ASSUME QuoteInv, [Next]_vars, route # None, route' # None, mount' = mount
  PROVE  route'.seq >= route.seq
<1>1. /\ mount \in Int /\ route.seq \in Nat /\ route.seq <= reqSeq[mount]
      /\ reqSeq[mount] \in Nat
  BY DEF QuoteInv, Sent
<1>2. CASE route' = route
  BY <1>1, <1>2
<1>3. ASSUME NEW q \in quotes, Answered(q)
      PROVE  route'.seq >= route.seq
  <2> DEFINE new == [seq |-> q.seq, wish |-> q.wish, legs |-> q.legs]
             r == IF mounted(q.mount) /\ current(q) THEN new ELSE route
  <2>1. route' = r \/ route' = route
    BY <1>3 DEF Answered, QuoteEffect
  <2>2. mounted(q.mount) /\ current(q) => q.seq = reqSeq[mount]
    BY DEF mounted, current
  <2>3. new.seq = q.seq
    OBVIOUS
  <2> HIDE DEF new
  <2>4. route' = route \/ (route' = new /\ new.seq = reqSeq[mount])
    BY <2>1, <2>2, <2>3
  <2>5. QED
    BY <1>1, <2>4
<1>4. ASSUME NEW f, NEW r, r = route \/ r = None, Edit(f, r)
      PROVE  route' = route
  BY <1>4 DEF Edit, QuoteEffect
<1>5. mount' # mount + 1
  BY <1>1
<1>6. route' = route \/ \E q \in quotes : Answered(q)
  BY <1>4, <1>5 DEF Next, Type, TypeLimit, flipSides, OpenLimit, OpenMarket, TimerFires,
        Planned, QuoteFails, Reindexed, Synced, Execute, TakeBest, Click, Confirm, Reject,
        Dismiss, onSettled, BuildReturns, WalletReturns, WhileFlowing, ChainStep, vars, panel
<1>7. QED
  BY <1>2, <1>3, <1>6

THEOREM LatestAnswerAlwaysShown == Spec => LatestAnswerShown
<1>1. QuoteInv /\ [Next]_vars =>
        [route # None /\ route' # None /\ mount' = mount => route'.seq >= route.seq]_vars
  BY RoutesReplaced
<1>2. QED
  BY <1>1, PanelInvariant, PTL DEF Spec, LatestAnswerShown

----------------------------------------------------------------------------
(***************************************************************************)
(* What the batches of a click spend.                                      *)
(***************************************************************************)

(* The sum in RouteBudget is one of those of CountingTheorems.             *)
spent(txs) == MapThenSumSet(LAMBDA t : totalSpend(t.legs), txs)

LEMMA SpentIsSum ==
  ASSUME NEW txs, IsFiniteSet(txs)
  PROVE  spent(txs) = SumFunctionOnSet([t \in txs |-> totalSpend(t.legs)], txs)
<1> DEFINE f == [t \in txs |-> totalSpend(t.legs)]
           eq(g) == g = [T \in SUBSET txs |->
                           IF T = {} THEN 0
                           ELSE totalSpend(first(T).legs) + g[T \ {first(T)}]]
           sum == CHOOSE g : eq(g)
<1>1. spent(txs) = sum[txs]
  BY DEF spent, MapThenSumSet, MapThenFoldSet, first
<1>2. \A T \in SUBSET txs : T # {} => f[first(T)] = totalSpend(first(T).legs)
  BY FirstIn
<1>3. \A g : Sums(f, txs, g) <=> eq(g)
  <2> SUFFICES ASSUME NEW g PROVE Sums(f, txs, g) <=> eq(g)
    OBVIOUS
  <2> HIDE DEF f
  <2>1. [T \in SUBSET txs |-> IF T = {} THEN 0 ELSE f[first(T)] + g[T \ {first(T)}]]
          = [T \in SUBSET txs |-> IF T = {} THEN 0
                                  ELSE totalSpend(first(T).legs) + g[T \ {first(T)}]]
    BY <1>2
  <2>2. QED
    BY <2>1 DEF Sums
<1> HIDE DEF f, eq
<1>4. eq(sum)
  BY <1>3, SumsExist
<1> HIDE DEF sum
<1>5. Sums(f, txs, sum)
  BY <1>3, <1>4
<1>6. SumFunctionOnSet(f, txs) = sum[txs]
  BY <1>5, SumIsValue
<1>7. QED
  BY <1>1, <1>6 DEF f

LEMMA BudgetBySpent ==
  ASSUME \A c \in 1..clicks :
           LET txs == {tx \in pending \cup settled : tx.click = c} IN
           \A tx \in txs : tx.wish.mode = "spend" => spent(txs) <= tx.wish.limit
  PROVE  RouteBudget
  BY DEF RouteBudget, spent

places(legs, i) ==
  {j \in DOMAIN legs : /\ (i - 1) * MaxOrdersPerTx < j
                       /\ j <= (i - 1) * MaxOrdersPerTx + MaxOrdersPerTx}

LEMMA PieceSpends ==
  ASSUME NEW legs \in Seq(Legs), NEW i \in 1..Pieces(legs)
  PROVE  /\ totalSpend(piece(legs, i)) \in Nat
         /\ totalSpend(piece(legs, i)) <= SumFunctionOnSet(spends(legs), places(legs, i))
<1> DEFINE p == piece(legs, i)
           P == places(legs, i)
<1>1. PICK a \in Nat, b \in Nat :
        /\ a = (i - 1) * MaxOrdersPerTx /\ b <= MaxOrdersPerTx /\ a + b <= Len(legs)
        /\ p \in Seq(Legs) /\ Len(p) = b /\ \A j \in 1..b : p[j] = legs[a + j]
  BY PieceLegs DEF PieceOf
<1>2. /\ DOMAIN legs = 1..Len(legs) /\ Len(legs) \in Nat /\ IsFiniteSet(DOMAIN legs)
      /\ spends(legs) \in Seq(Nat) /\ DOMAIN spends(legs) = DOMAIN legs
  BY LegsTyped
<1>3. P \subseteq DOMAIN legs /\ IsFiniteSet(P) /\ \A j \in 1..b : a + j \in P
  <2>1. P \subseteq DOMAIN legs
    BY DEF places
  <2>2. MaxOrdersPerTx \in Nat
    BY TradePanelAssumption
  <2>3. QED
    BY <1>1, <1>2, <2>1, <2>2, FS_Subset DEF places
<1> HIDE DEF p, P
<1>4. /\ DOMAIN p = 1..b /\ IsFiniteSet(DOMAIN p)
      /\ spends(p) \in Seq(Nat) /\ DOMAIN spends(p) = DOMAIN p
      /\ totalSpend(p) = SumFunctionOnSet(spends(p), DOMAIN p) /\ totalSpend(p) \in Nat
  BY <1>1, LegsTyped, TotalsAreSums
<1> DEFINE h == [j \in DOMAIN p |-> a + j]
<1>5. h \in [DOMAIN p -> P] /\ \A x, y \in DOMAIN p : h[x] = h[y] => x = y
  <2>1. DOMAIN p = 1..b
    BY <1>4
  <2>2. \A j \in DOMAIN p : a + j \in P
    BY <1>3, <2>1
  <2>3. \A x, y \in 1..b : a + x = a + y => x = y
    OBVIOUS
  <2>4. QED
    BY <2>1, <2>2, <2>3
<1>6. \A j \in DOMAIN p : spends(p)[j] = spends(legs)[h[j]]
  <2>1. \A j \in DOMAIN p : spends(p)[j] = p[j].spend /\ h[j] = a + j
    BY DEF spends
  <2>2. \A k \in DOMAIN legs : spends(legs)[k] = legs[k].spend
    BY DEF spends
  <2>3. \A j \in DOMAIN p : a + j \in DOMAIN legs /\ p[j] = legs[a + j]
    BY <1>1, <1>3, <1>4
  <2> HIDE DEF h
  <2>4. QED
    BY <2>1, <2>2, <2>3
<1>7. /\ \A j \in DOMAIN p : spends(p)[j] \in Nat
      /\ \A j \in P : spends(legs)[j] \in Nat
  <2>1. \A s \in Seq(Nat) : \A j \in DOMAIN s : s[j] \in Nat
    OBVIOUS
  <2>2. QED
    BY <1>2, <1>3, <1>4, <2>1
<1>8. \A j \in DOMAIN p : spends(p)[j] <= spends(legs)[h[j]]
  BY <1>6, <1>7
<1> HIDE DEF h
<1>9. SumFunctionOnSet(spends(p), DOMAIN p) <= SumFunctionOnSet(spends(legs), P)
  BY <1>3, <1>4, <1>5, <1>7, <1>8, SumCovered
<1>10. QED
  BY <1>4, <1>9 DEF p, P

(* No leg is in two pieces.                                                *)
LEMMA PiecesApart ==
  ASSUME NEW legs, DOMAIN legs \subseteq Int, NEW i \in Nat, NEW k \in Nat, i # k
  PROVE  places(legs, i) \cap places(legs, k) = {}
<1>1. PICK size \in Nat : size = MaxOrdersPerTx
  BY TradePanelAssumption
<1>2. ASSUME NEW x \in Nat, NEW y \in Nat, x < y
      PROVE  (x - 1) * size + size <= (y - 1) * size
  <2>1. size * x <= size * (y - 1)
    BY <1>2, TimesMonotone, y - 1 \in Int, x <= y - 1
  <2>2. (x - 1) * size = size * x - size /\ (y - 1) * size = size * (y - 1)
    OBVIOUS
  <2>3. size * x \in Int /\ size * (y - 1) \in Int
    OBVIOUS
  <2>4. QED
    BY <2>1, <2>2, <2>3
<1>3. PICK a \in Int, b \in Int : a = (i - 1) * size /\ b = (k - 1) * size
  OBVIOUS
<1>4. a + size <= b \/ b + size <= a
  <2>1. i < k \/ k < i
    OBVIOUS
  <2>2. QED
    BY <1>2, <1>3, <2>1
<1>5. \A j \in DOMAIN legs : ~(a < j /\ j <= a + size /\ b < j /\ j <= b + size)
  BY <1>4
<1>6. QED
  BY <1>1, <1>3, <1>5 DEF places

LEMMA BatchesSpend ==
  ASSUME NEW wish, NEW legs, Routed(wish, legs), NEW m, NEW c, NEW txs,
         \A tx \in txs : tx.click = c /\ BatchOf(tx, m, wish, legs)
  PROVE  spent(txs) \in Nat /\ spent(txs) <= totalSpend(legs)
<1> DEFINE f == [t \in txs |-> totalSpend(t.legs)]
           g == spends(legs)
           cover(T) == {j \in DOMAIN legs : \E t \in T : j \in places(legs, t.index)}
           A == {T \in SUBSET txs : SumFunctionOnSet(f, T) <= SumFunctionOnSet(g, cover(T))}
<1>1. legs \in Seq(Legs) /\ Pieces(legs) \in Nat
  BY PiecesOf DEF Routed
<1>2. /\ DOMAIN legs = 1..Len(legs) /\ IsFiniteSet(DOMAIN legs)
      /\ \A j \in DOMAIN legs : g[j] \in Nat
  <2>1. \A s \in Seq(Nat) : \A j \in DOMAIN s : s[j] \in Nat
    OBVIOUS
  <2>2. QED
    BY <1>1, <2>1, LegsTyped
<1>3. ASSUME NEW t \in txs
      PROVE  /\ t.index \in 1..Pieces(legs) /\ t.legs = piece(legs, t.index)
             /\ t = [mount |-> m, click |-> c, wish |-> wish, index |-> t.index,
                     legs |-> piece(legs, t.index)]
  <2>1. PICK p, i : p = piece(legs, i) /\ i = t.index
    OBVIOUS
  <2>2. t = [mount |-> m, click |-> c, wish |-> wish, index |-> i, legs |-> p]
    BY <2>1 DEF BatchOf
  <2>3. t.legs = p
    BY <2>2
  <2>4. QED
    BY <2>1, <2>2, <2>3 DEF BatchOf
<1>4. \A t, u \in txs : t.index = u.index => t = u
  BY <1>3
<1>5. IsFiniteSet(txs)
  <2> DEFINE h == [t \in txs |-> t.index]
  <2>1. h \in Injection(txs, 1..Pieces(legs))
    BY <1>3, <1>4 DEF Injection, IsInjective
  <2>2. IsFiniteSet(1..Pieces(legs))
    BY <1>1, FS_Interval
  <2> HIDE DEF h
  <2>3. QED
    BY <2>1, <2>2, FS_Injection
<1>6. ASSUME NEW t \in txs
      PROVE  /\ f[t] \in Nat /\ f[t] <= SumFunctionOnSet(g, places(legs, t.index))
             /\ places(legs, t.index) \subseteq DOMAIN legs
  BY <1>1, <1>3, PieceSpends DEF places
<1>7. spent(txs) = SumFunctionOnSet(f, txs)
  BY <1>5, SpentIsSum
<1>8. \A t, u \in txs : t # u => places(legs, t.index) \cap places(legs, u.index) = {}
  <2>1. DOMAIN legs \subseteq Int /\ \A t \in txs : t.index \in Nat
    BY <1>1, <1>2, <1>3
  <2>2. QED
    BY <1>4, <2>1, PiecesApart
<1>9. \A T \in SUBSET txs : cover(T) \subseteq DOMAIN legs /\ IsFiniteSet(cover(T))
  BY <1>2, FS_Subset
<1> HIDE DEF f, g
<1>10. {} \in A
  <2>1. cover({}) = {}
    OBVIOUS
  <2>2. SumFunctionOnSet(f, {}) = 0 /\ SumFunctionOnSet(g, {}) = 0
    BY FS_EmptySet, SumFirst
  <2>3. QED
    BY <2>1, <2>2
<1>11. ASSUME NEW T \in SUBSET txs, T # {}, \A x \in T : T \ {x} \in A
       PROVE  T \in A
  <2>1. PICK x \in T : TRUE
    BY <1>11
  <2> DEFINE U == T \ {x}
             P == places(legs, x.index)
  <2>2. SumFunctionOnSet(f, U) <= SumFunctionOnSet(g, cover(U))
    BY <1>11
  <2>3. cover(T) = cover(U) \cup P /\ cover(U) \cap P = {}
    <3>1. P \subseteq DOMAIN legs /\ \A t \in U : places(legs, t.index) \cap P = {}
      BY <1>6, <1>8
    <3>2. QED
      BY <3>1
  <2>4. IsFiniteSet(T) /\ \A t \in T : f[t] \in Nat
    BY <1>5, <1>6, FS_Subset
  <2>5. SumFunctionOnSet(f, T) = f[x] + SumFunctionOnSet(f, U) /\ SumFunctionOnSet(f, U) \in Nat
    BY <2>4, SumRemove, SumType
  <2>6. IsFiniteSet(P) /\ IsFiniteSet(cover(U)) /\ \A j \in P \cup cover(U) : g[j] \in Nat
    BY <1>2, <1>6, <1>9, FS_Subset
  <2>7. f[x] \in Nat /\ f[x] <= SumFunctionOnSet(g, P)
    BY <1>6
  <2>8. T \in SUBSET txs
    OBVIOUS
  <2> HIDE DEF U, P, cover
  <2>9. /\ SumFunctionOnSet(g, cover(U) \cup P)
             = SumFunctionOnSet(g, cover(U)) + SumFunctionOnSet(g, P)
        /\ SumFunctionOnSet(g, P) \in Nat /\ SumFunctionOnSet(g, cover(U)) \in Nat
    BY <2>3, <2>6, SumUnion, SumType
  <2>10. SumFunctionOnSet(f, T) <= SumFunctionOnSet(g, cover(T))
    BY <2>2, <2>3, <2>5, <2>7, <2>9
  <2>11. QED
    BY <2>8, <2>10
<1>12. SUBSET txs \subseteq A
  <2> HIDE DEF A
  <2>1. QED
    BY <1>5, <1>10, <1>11, SubsetInduction
<1>13. SumFunctionOnSet(f, txs) <= SumFunctionOnSet(g, cover(txs))
  BY <1>12
<1>14. SumFunctionOnSet(g, cover(txs)) <= SumFunctionOnSet(g, DOMAIN legs)
  <2> DEFINE h == [j \in cover(txs) |-> j]
             C == cover(txs)
  <2>1. C \subseteq DOMAIN legs /\ IsFiniteSet(C)
    BY <1>9
  <2>2. /\ h \in [C -> DOMAIN legs] /\ \A x, y \in C : h[x] = h[y] => x = y
        /\ \A x \in C : g[x] \in Nat /\ g[x] <= g[h[x]]
    BY <1>2, <2>1
  <2> HIDE DEF h, C
  <2>3. SumFunctionOnSet(g, C) <= SumFunctionOnSet(g, DOMAIN legs)
    BY <1>2, <2>1, <2>2, SumCovered
  <2>4. QED
    BY <2>3 DEF C
<1>15. /\ totalSpend(legs) = SumFunctionOnSet(g, DOMAIN legs)
       /\ SumFunctionOnSet(f, txs) \in Nat /\ SumFunctionOnSet(g, cover(txs)) \in Nat
       /\ SumFunctionOnSet(g, DOMAIN legs) \in Nat
  <2>1. totalSpend(legs) = SumFunctionOnSet(g, DOMAIN legs)
    BY <1>1, TotalsAreSums DEF g
  <2>2. SumFunctionOnSet(f, txs) \in Nat
    BY <1>5, <1>6, SumType
  <2>3. cover(txs) \in SUBSET (DOMAIN legs)
    BY <1>9
  <2> HIDE DEF cover
  <2>4. SumFunctionOnSet(g, cover(txs)) \in Nat /\ SumFunctionOnSet(g, DOMAIN legs) \in Nat
    BY <1>2, <2>3, SumType
  <2>5. QED
    BY <2>1, <2>2, <2>4
<1> HIDE DEF cover
<1>16. QED
  BY <1>7, <1>13, <1>14, <1>15

(* The batches of a click that are submitted spend no more than the        *)
(* maximum their route was planned for, whatever is cancelled, fails, is   *)
(* dismissed or planned again on the way: for every book, every amount and *)
(* every size of a batch (executeQueue and runBatch of TradePanel.tsx, on  *)
(* routes of smart-fill.ts).                                               *)
THEOREM RoutesKeepBudget == Spec => []RouteBudget
<1>1. ASSUME TxsInv PROVE RouteBudget
  <2>1. ASSUME NEW c \in 1..clicks, NEW txs, txs = {tx \in pending \cup settled : tx.click = c},
               NEW tx \in txs, tx.wish.mode = "spend"
        PROVE  spent(txs) <= tx.wish.limit
    <3>1. PICK m, wish, legs : /\ Routed(wish, legs)
                               /\ \A t \in Txs : t.click = c => BatchOf(t, m, wish, legs)
      BY <1>1 DEF TxsInv, OneRoute
    <3>2. \A t \in txs : t.click = c /\ BatchOf(t, m, wish, legs)
      BY <2>1, <3>1 DEF Txs, Batches
    <3>3. tx.wish = wish
      <4>1. PICK p, i, k : p = piece(legs, i) /\ i = tx.index /\ k = tx.click
        OBVIOUS
      <4>2. tx = [mount |-> m, click |-> k, wish |-> wish, index |-> i, legs |-> p]
        BY <3>2, <4>1 DEF BatchOf
      <4>3. QED
        BY <4>2
    <3>4. totalSpend(legs) <= wish.limit /\ totalSpend(legs) \in Nat /\ wish.limit \in Nat
      BY <2>1, <3>1, <3>3, TotalsAreSums DEF Routed, Asked, WithinBudget
    <3>5. spent(txs) \in Nat /\ spent(txs) <= totalSpend(legs)
      BY <3>1, <3>2, BatchesSpend
    <3>6. QED
      BY <3>3, <3>4, <3>5
  <2>2. QED
    BY <2>1, BudgetBySpent
<1>2. QED
  BY <1>1, PanelInvariant, PTL

----------------------------------------------------------------------------
(***************************************************************************)
(* The order of batches, while no build is started beside another.         *)
(***************************************************************************)
Current == queue[runIndex]

(* The batches of one click of this tab, all those before the next one     *)
(* settled; or none.                                                       *)
QueueInTurn ==
  \/ DOMAIN queue = {} /\ Len(queue) = 0
  \/ /\ tab = "market" /\ runIndex \in DOMAIN queue
     /\ \A i \in DOMAIN queue : /\ queue[i].index = i /\ queue[i].click = Current.click
                                /\ queue[i].mount = mount
     /\ runIndex > 1 => queue[runIndex - 1] \in settled

(* One transaction at a time: what the hook shows is the state of the      *)
(* batch that is next, and of a tab that is gone at most a build is left.  *)
OneAtATime ==
  \/ /\ flow.step \in {"idle", "error"} /\ signings = {}
     /\ \A t, u \in builds : t = u
     /\ \A t \in builds : ~mounted(t.mount)
  \/ /\ DOMAIN queue # {}
     /\ \/ flow.step = "building" /\ builds = {Current} /\ signings = {}
        \/ /\ flow.step \in {"preview", "submitted"} /\ flow.tx = Current
           /\ builds = {} /\ signings = {}
        \/ /\ flow.step = "signing" /\ flow.tx = Current
           /\ builds = {} /\ signings = {Current}

PredecessorSettled(tx) ==
  tx.index > 1 => \E t \in settled : t.click = tx.click /\ t.index = tx.index - 1

Ordered ==
  /\ QueueInTurn /\ OneAtATime
  /\ tab # "market" => flow.step = "idle"
  /\ \A tx \in Batches : PredecessorSettled(tx)

OrderInv ==
  /\ \A tx \in builds : tx.mount \in 1..mount
  /\ \A i \in DOMAIN queue : queue[i].mount \in 1..mount
  /\ ~overlapped => Ordered

LEMMA OrderBegins ==
  ASSUME Init
  PROVE  OrderInv
<1>1. /\ queue = << >> /\ flow.step = "idle"
      /\ builds = {} /\ signings = {} /\ pending = {} /\ settled = {}
  BY DEF Init, FlowInit, Idle
<1>2. QED
  BY <1>1 DEF OrderInv, Ordered, QueueInTurn, OneAtATime, Batches

(* The form, the quotes and the backend have no part in it.                *)
LEMMA QuotingOrder ==
  ASSUME OrderInv,
         UNCHANGED <<chain, flow, builds, signings, queue, runIndex, tab, mount, overlapped>>
  PROVE  OrderInv'
  BY DEF OrderInv, Ordered, QueueInTurn, Current, OneAtATime, mounted, Batches,
         PredecessorSettled, chain

LEMMA LimitOrder ==
  ASSUME OrderInv, OpenLimit
  PROVE  OrderInv'
<1>1. /\ flow.step \in {"idle", "building", "error"} /\ tab' = "limit" /\ flow'.step = "idle"
      /\ DOMAIN queue' = {} /\ Len(queue') = 0
      /\ UNCHANGED <<chain, builds, signings, mount, overlapped>>
  BY DEF OpenLimit, listed, Idle
<1>2. ASSUME ~overlapped PROVE Ordered'
  <2>1. Ordered
    BY <1>2 DEF OrderInv
  <2>2. OneAtATime'
    BY <1>1, <2>1 DEF Ordered, OneAtATime, mounted
  <2>3. QueueInTurn'
    BY <1>1 DEF QueueInTurn
  <2>4. QED
    BY <1>1, <2>1, <2>2, <2>3 DEF Ordered, Batches, PredecessorSettled, chain
<1>3. QED
  BY <1>1, <1>2 DEF OrderInv

LEMMA MarketOrder ==
  ASSUME OrderInv, mount \in Nat, OpenMarket
  PROVE  OrderInv'
<1>1. /\ tab = "limit" /\ tab' = "market" /\ mount' = mount + 1
      /\ UNCHANGED <<chain, flow, builds, signings, queue, overlapped>>
  BY DEF OpenMarket
<1>2. \A tx \in builds : tx.mount \in 1..mount' /\ tx.mount # mount'
  BY <1>1 DEF OrderInv
<1>3. ASSUME ~overlapped PROVE Ordered'
  <2>1. Ordered
    BY <1>3 DEF OrderInv
  <2>2. OneAtATime'
    BY <1>1, <1>2, <2>1 DEF Ordered, OneAtATime, mounted
  <2>3. QueueInTurn'
    BY <1>1, <2>1 DEF Ordered, QueueInTurn
  <2>4. QED
    BY <1>1, <2>1, <2>2, <2>3 DEF Ordered, Batches, PredecessorSettled, chain
<1>4. QED
  BY <1>1, <1>2, <1>3 DEF OrderInv

LEMMA ClickOrder ==
  ASSUME OrderInv, mount \in Nat, mount > 0, NEW batches, Click(batches),
         1 \in DOMAIN batches,
         \A i \in DOMAIN batches : /\ batches[i].index = i /\ batches[i].click = clicks + 1
                                   /\ batches[i].mount = mount
  PROVE  OrderInv'
<1>1. /\ tab = "market" /\ queue' = batches /\ runIndex' = 1 /\ flow'.step = "building"
      /\ builds' = builds \cup {batches[1]}
      /\ overlapped' = (overlapped \/ builds \cup signings # {})
      /\ UNCHANGED <<chain, signings, tab, mount>>
  BY DEF Click, listed, runBatch, build, At
<1>2. \A tx \in builds' : tx.mount \in 1..mount
  BY <1>1 DEF OrderInv
<1>3. ASSUME ~overlapped' PROVE Ordered'
  <2>1. Ordered /\ builds = {} /\ signings = {}
    BY <1>1, <1>3 DEF OrderInv
  <2>2. OneAtATime'
    BY <1>1, <2>1 DEF OneAtATime, Current
  <2>3. QueueInTurn'
    BY <1>1 DEF QueueInTurn, Current
  <2>4. \A tx \in Batches' : tx \in Batches \/ tx.index = 1
    BY <1>1 DEF Batches, chain
  <2>5. \A tx \in Batches' : PredecessorSettled(tx)'
    BY <1>1, <2>1, <2>4 DEF Ordered, PredecessorSettled, chain
  <2>6. QED
    BY <1>1, <2>2, <2>3, <2>5 DEF Ordered
<1>4. QED
  BY <1>1, <1>2, <1>3 DEF OrderInv

LEMMA BatchFields ==
  ASSUME NEW i, NEW legs
  PROVE  /\ batch(i, legs).index = i /\ batch(i, legs).click = clicks + 1
         /\ batch(i, legs).mount = mount
  BY DEF batch

LEMMA ExecuteOrder ==
  ASSUME OrderInv, RoutesInv, mount \in Nat, mount > 0, Execute
  PROVE  OrderInv'
<1> DEFINE legs == route.legs
           batches == chunk(legs, MaxOrdersPerTx)
<1>1. Routed(route.wish, legs) /\ legs # << >> /\ Click(batches)
  BY DEF Execute, Click, RoutesInv
<1>2. legs \in Seq(Legs) /\ Len(legs) > 0
  BY <1>1 DEF Routed
<1> HIDE DEF legs
<1>3. 1 \in 1..Pieces(legs)
  <2>1. MaxOrdersPerTx \in Nat
    BY TradePanelAssumption
  <2>2. (1 - 1) * MaxOrdersPerTx = 0
    BY <2>1
  <2>3. QED
    BY <1>2, <2>2, PiecesOf
<1>4. /\ DOMAIN batches = 1..Pieces(legs)
      /\ \A i \in DOMAIN batches : batches[i] = batch(i, piece(legs, i))
  BY DEF chunk, Pieces, piece
<1> HIDE DEF batches
<1>5. \A i \in DOMAIN batches : /\ batches[i].index = i /\ batches[i].click = clicks + 1
                                /\ batches[i].mount = mount
  BY <1>4, BatchFields
<1>6. QED
  BY <1>1, <1>3, <1>4, <1>5, ClickOrder

LEMMA TakeBestOrder ==
  ASSUME OrderInv, mount \in Nat, mount > 0, TakeBest
  PROVE  OrderInv'
<1> DEFINE batches == <<batch(1, <<route.legs[1]>>)>>
<1>1. Click(batches)
  BY DEF TakeBest
<1>2. DOMAIN batches = {1} /\ batches[1] = batch(1, <<route.legs[1]>>)
  OBVIOUS
<1> HIDE DEF batches
<1>3. QED
  BY <1>1, <1>2, BatchFields, ClickOrder

(* A build that returns is that of the batch shown, or of a tab that is    *)
(* gone.                                                                   *)
LEMMA BuildReturnsOrder ==
  ASSUME OrderInv, NEW tx \in builds, BuildReturns(tx)
  PROVE  OrderInv'
<1>1. /\ UNCHANGED <<chain, signings, queue, runIndex, tab, mount, overlapped>>
      /\ builds' = builds \ {tx}
      /\ IF mounted(tx.mount) THEN flow' = At("preview", tx) \/ flow' = At("error", None)
                              ELSE flow' = flow
  BY DEF BuildReturns, Built, BuildFails, WhileFlowing
<1>2. ASSUME ~overlapped PROVE Ordered'
  <2>1. Ordered
    BY <1>2 DEF OrderInv
  <2>2. CASE mounted(tx.mount)
    <3>1. /\ DOMAIN queue # {} /\ builds = {Current} /\ signings = {} /\ tx = Current
      BY <2>1, <2>2 DEF Ordered, OneAtATime
    <3>2. OneAtATime'
      BY <1>1, <2>2, <3>1 DEF OneAtATime, Current, At
    <3>3. tab' = "market"
      BY <1>1, <2>2 DEF mounted
    <3>4. QED
      BY <1>1, <2>1, <3>2, <3>3 DEF Ordered, QueueInTurn, Current, Batches, PredecessorSettled,
                                    chain
  <2>3. CASE ~mounted(tx.mount)
    <3>1. flow' = flow /\ flow.step \in {"idle", "error"} /\ signings = {}
      <4>1. DOMAIN queue # {} => mounted(Current.mount)
        BY <2>1 DEF Ordered, QueueInTurn, Current, mounted
      <4>2. QED
        BY <1>1, <2>1, <2>3, <4>1 DEF Ordered, OneAtATime
    <3>2. OneAtATime'
      BY <1>1, <2>1, <3>1 DEF Ordered, OneAtATime, mounted
    <3>3. QED
      BY <1>1, <2>1, <3>1, <3>2 DEF Ordered, QueueInTurn, Current, Batches, PredecessorSettled,
                                    chain
  <2>4. QED
    BY <2>2, <2>3
<1>3. QED
  BY <1>1, <1>2 DEF OrderInv

LEMMA InTurnSettled ==
  ASSUME TxsInv, QueueInTurn, DOMAIN queue # {}
  PROVE  PredecessorSettled(Current)
<1>1. Current.index = runIndex /\ runIndex \in DOMAIN queue
  BY DEF QueueInTurn, Current
<1>2. CASE runIndex > 1
  <2>1. runIndex - 1 \in DOMAIN queue
    BY <1>1, <1>2 DEF TxsInv, IsList
  <2>2. QED
    BY <1>1, <1>2, <2>1 DEF QueueInTurn, Current, PredecessorSettled
<1>3. CASE ~(runIndex > 1)
  BY <1>1, <1>3 DEF PredecessorSettled
<1>4. QED
  BY <1>2, <1>3

LEMMA ConfirmOrder ==
  ASSUME OrderInv, TxsInv, Confirm
  PROVE  OrderInv'
<1>1. /\ UNCHANGED <<chain, builds, queue, runIndex, tab, mount, overlapped>>
      /\ flow.step = "preview" /\ flow'.step = "signing" /\ flow'.tx = flow.tx
      /\ signings' = signings \cup {flow.tx}
  BY DEF Confirm, confirmAndSign, WhileFlowing, At
<1>2. ASSUME ~overlapped PROVE Ordered'
  <2>1. Ordered
    BY <1>2 DEF OrderInv
  <2>2. /\ DOMAIN queue # {} /\ flow.tx = Current /\ builds = {} /\ signings = {}
    BY <1>1, <2>1 DEF Ordered, OneAtATime
  <2>3. OneAtATime'
    BY <1>1, <2>2 DEF OneAtATime, Current
  <2>4. QueueInTurn
    BY <2>1 DEF Ordered
  <2>5. PredecessorSettled(Current) /\ tab = "market"
    BY <2>2, <2>4, InTurnSettled DEF QueueInTurn
  <2>6. \A t \in Batches' : PredecessorSettled(t)'
    BY <1>1, <2>1, <2>2, <2>5 DEF Ordered, Batches, PredecessorSettled, chain
  <2>7. QED
    BY <1>1, <2>1, <2>3, <2>4, <2>5, <2>6 DEF Ordered, QueueInTurn, Current, chain
<1>3. QED
  BY <1>1, <1>2 DEF OrderInv

LEMMA WalletReturnsOrder ==
  ASSUME OrderInv, NEW tx \in signings, WalletReturns(tx)
  PROVE  OrderInv'
<1>1. /\ UNCHANGED <<settled, builds, queue, runIndex, tab, mount, overlapped>>
      /\ signings' = signings \ {tx} /\ pending' \subseteq pending \cup {tx}
      /\ IF mounted(tx.mount) THEN flow' = At("submitted", tx) \/ flow' = At("error", None)
                              ELSE flow' = flow
  BY DEF WalletReturns, Submitted, SigningFails, WhileFlowing
<1>2. ASSUME ~overlapped PROVE Ordered'
  <2>1. Ordered
    BY <1>2 DEF OrderInv
  <2>2. DOMAIN queue # {} /\ builds = {} /\ signings = {Current} /\ tx = Current
    BY <2>1 DEF Ordered, OneAtATime
  <2>3. mounted(tx.mount) /\ tab = "market"
    BY <2>1, <2>2 DEF Ordered, QueueInTurn, Current, mounted
  <2>4. OneAtATime'
    BY <1>1, <2>2, <2>3 DEF OneAtATime, Current, At
  <2>5. \A t \in Batches' : t \in Batches
    BY <1>1 DEF Batches
  <2>6. \A t \in Batches' : PredecessorSettled(t)'
    BY <1>1, <2>1, <2>5 DEF Ordered, PredecessorSettled
  <2>7. QED
    BY <1>1, <2>1, <2>3, <2>4, <2>6 DEF Ordered, QueueInTurn, Current
<1>3. QED
  BY <1>1, <1>2 DEF OrderInv

(* The flow is over, and the queue dropped.                                *)
LEMMA LeaveOrder ==
  ASSUME OrderInv, flow.step \in {"preview", "submitted"}, flow' = Idle, queue' = << >>,
         UNCHANGED <<chain, builds, signings, tab, mount, overlapped>>
  PROVE  OrderInv'
<1>1. ASSUME ~overlapped PROVE Ordered'
  <2>1. Ordered
    BY <1>1 DEF OrderInv
  <2>2. builds = {} /\ signings = {}
    BY <2>1 DEF Ordered, OneAtATime
  <2>3. OneAtATime' /\ flow'.step = "idle"
    BY <2>2 DEF OneAtATime, Idle
  <2>4. QED
    BY <2>1, <2>3 DEF Ordered, QueueInTurn, Batches, PredecessorSettled, chain
<1>2. QED
  BY <1>1 DEF OrderInv

(* The next batch is built when the one before it has settled.             *)
LEMMA SettledOrder ==
  ASSUME OrderInv, TxsInv, mount \in Nat, mount > 0, onSettled
  PROVE  OrderInv'
<1>1. /\ flow.step = "submitted" /\ flow.tx \in settled
      /\ UNCHANGED <<chain, signings, tab, mount, overlapped>>
  BY DEF onSettled
<1>2. CASE runIndex < Len(queue)
  <2> DEFINE n == runIndex + 1
  <2>1. /\ queue' = queue /\ runIndex' = n /\ flow'.step = "building"
        /\ builds' = builds \cup {queue[n]}
    BY <1>2 DEF onSettled, NextBatch, runBatch, build, At
  <2>2. /\ runIndex \in Nat /\ runIndex > 0 /\ n \in Nat /\ n > 1 /\ n - 1 = runIndex
        /\ n \in DOMAIN queue /\ Len(queue) # 0
    BY <1>2 DEF TxsInv, IsList
  <2> HIDE DEF n
  <2>3. ASSUME ~overlapped PROVE Ordered'
    <3>1. Ordered
      BY <2>3 DEF OrderInv
    <3>2. builds = {} /\ signings = {} /\ flow.tx = queue[runIndex] /\ QueueInTurn
      BY <1>1, <3>1 DEF Ordered, OneAtATime, Current
    <3>3. /\ tab = "market" /\ runIndex \in DOMAIN queue
          /\ \A i \in DOMAIN queue : /\ queue[i].index = i
                                     /\ queue[i].click = queue[runIndex].click
                                     /\ queue[i].mount = mount
      BY <2>2, <3>2 DEF QueueInTurn, Current
    <3>4. QueueInTurn'
      BY <1>1, <2>1, <2>2, <3>2, <3>3 DEF QueueInTurn, Current, chain
    <3>5. OneAtATime'
      BY <1>1, <2>1, <2>2, <3>2 DEF OneAtATime, Current
    <3>6. PredecessorSettled(queue[n])
      BY <1>1, <2>2, <3>2, <3>3 DEF PredecessorSettled
    <3>7. \A t \in Batches' : PredecessorSettled(t)'
      BY <1>1, <2>1, <3>1, <3>6 DEF Ordered, Batches, PredecessorSettled, chain
    <3>8. QED
      BY <1>1, <3>3, <3>4, <3>5, <3>7 DEF Ordered
  <2>4. \A tx \in builds' : tx.mount \in 1..mount
    BY <2>1, <2>2 DEF OrderInv
  <2>5. QED
    BY <1>1, <2>1, <2>3, <2>4 DEF OrderInv
<1>3. CASE ~(runIndex < Len(queue))
  <2>1. flow' = Idle /\ queue' = << >> /\ builds' = builds
    BY <1>3 DEF onSettled, NextBatch, Leave, reset
  <2>2. QED
    BY <1>1, <2>1, LeaveOrder
<1>4. QED
  BY <1>2, <1>3

LEMMA ChainOrder ==
  ASSUME OrderInv, ChainStep
  PROVE  OrderInv'
<1>1. UNCHANGED <<flow, builds, signings, queue, runIndex, tab, mount, overlapped>>
  BY DEF ChainStep, panel
<1>2. settled \subseteq settled' /\ pending' \cup settled' \subseteq pending \cup settled
  BY DEF ChainStep, Settle, SomeoneTakes
<1>3. QED
  BY <1>1, <1>2 DEF OrderInv, Ordered, QueueInTurn, Current, OneAtATime, mounted, Batches,
                    PredecessorSettled

LEMMA OrderKept ==
  ASSUME OrderInv, QuoteInv, RoutesInv, TxsInv, [Next]_vars
  PROVE  OrderInv'
<1>0. mount \in Nat /\ mount > 0
  BY DEF QuoteInv, Sent
<1>1. CASE OpenLimit
  BY <1>1, LimitOrder
<1>2. CASE OpenMarket
  BY <1>0, <1>2, MarketOrder
<1>3. CASE Execute \/ TakeBest
  BY <1>0, <1>3, ExecuteOrder, TakeBestOrder
<1>4. CASE \E tx \in builds : BuildReturns(tx)
  BY <1>4, BuildReturnsOrder
<1>5. CASE Confirm
  BY <1>5, ConfirmOrder
<1>6. CASE \E tx \in signings : WalletReturns(tx)
  BY <1>6, WalletReturnsOrder
<1>7. CASE Reject \/ Dismiss
  BY <1>7, LeaveOrder DEF Reject, Dismiss, Leave, reset
<1>8. CASE onSettled
  BY <1>0, <1>8, SettledOrder
<1>9. CASE ChainStep
  BY <1>9, ChainOrder
<1>10. CASE \/ \E side \in Sides, amount \in Amounts : Type(side, amount) \/ TypeLimit(side, amount)
            \/ flipSides \/ TimerFires \/ Synced \/ UNCHANGED vars
            \/ \E q \in quotes : Planned(q) \/ Answered(q) \/ QuoteFails(q)
            \/ \E i \in DOMAIN requotes : Reindexed(i)
  <2>1. UNCHANGED <<chain, flow, builds, signings, queue, runIndex, tab, mount, overlapped>>
    BY <1>10 DEF Type, Edit, TypeLimit, flipSides, TimerFires, Synced, vars, panel,
                 Planned, Answered, QuoteFails, Reindexed
  <2>2. QED
    BY <2>1, QuotingOrder
<1>11. QED
  BY <1>1, <1>2, <1>3, <1>4, <1>5, <1>6, <1>7, <1>8, <1>9, <1>10 DEF Next, Sides

(* "Never builds ahead of confirmation": as long as no build is started    *)
(* beside another, a batch is not built before the one before it in its    *)
(* route has settled, whatever returns late, fails, is declined or         *)
(* dismissed (runBatch and onSettled of TradePanel.tsx with useTxFlow).    *)
THEOREM BatchesAlwaysInOrder == Spec => []BatchesInOrder
<1>1. Init => OrderInv
  BY OrderBegins
<1>2. OrderInv /\ QuoteInv /\ RoutesInv /\ TxsInv /\ [Next]_vars => OrderInv'
  BY OrderKept
<1>3. OrderInv => BatchesInOrder
  BY DEF OrderInv, Ordered, PredecessorSettled, BatchesInOrder
<1>4. QED
  BY <1>1, <1>2, <1>3, PanelInvariant, PTL DEF Spec
=============================================================================

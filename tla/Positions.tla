------------------------------- MODULE Positions -------------------------------
(***************************************************************************)
(* Positions (frontend/lib/positions.ts): the rows of a seller's orders,   *)
(* collapsed so that an order and the continuations that partial fills     *)
(* leave of it show as one.  It is pure.                                   *)
(*                                                                         *)
(* A row is an order with its status, and its parentOrderId and            *)
(* rootOrderId, which are None for a row that has no lineage.  Rows come   *)
(* as a sequence, and lineage may lag behind.                              *)
(***************************************************************************)
EXTENDS SmartFill

idsOf(rows) == {rows[i].id : i \in DOMAIN rows}

(* What s has at the places I, in order.                                   *)
kept(s, I) ==
  [n \in 1..Cardinality(I) |-> s[CHOOSE i \in I : Cardinality({j \in I : j < i}) = n - 1]]

(* The row of the root, else the first whose parent is not in the group,   *)
(* else the first.                                                         *)
head(rootId, members) ==
  LET rooted == {i \in DOMAIN members : members[i].id = rootId}
      atop   == {i \in DOMAIN members : members[i].parentOrderId \notin idsOf(members)}
  IN  members[IF rooted # {} THEN Min(rooted) ELSE IF atop # {} THEN Min(atop) ELSE 1]

(* The chain, with the child of its last row when there is one that is not *)
(* in it yet.                                                              *)
extended(members, chain) ==
  LET children == {i \in DOMAIN members : members[i].parentOrderId = Last(chain).id} IN
  IF children = {} THEN chain
  ELSE IF members[Max(children)].id \in idsOf(chain) THEN chain
  ELSE Append(chain, members[Max(children)])

(* Fault: the rows are taken in the order in which they come.              *)
orderChain_listed(rootId, members) == members

(* Root to tip along the links; rows that no link leads to come last.      *)
orderChain(rootId, members) ==
  LET linked == FoldLeft(LAMBDA chain, m : extended(members, chain),
                         <<head(rootId, members)>>, members)
  IN  linked \o kept(members, {i \in DOMAIN members : members[i].id \notin idsOf(linked)})

rootOf(row) == IF row.rootOrderId = None THEN row.id ELSE row.rootOrderId

(* In the order of the rows, by the first row of each.                     *)
rootsOf(rows) ==
  FoldLeft(LAMBDA roots, row : IF Contains(roots, rootOf(row)) THEN roots
                               ELSE Append(roots, rootOf(row)),
           << >>, rows)

position(rows, rootId) ==
  LET members == kept(rows, {i \in DOMAIN rows : rootOf(rows[i]) = rootId})
      chain   == orderChain(rootId, members)
  IN
  [rootId |-> rootId, chain |-> chain, original |-> Head(chain), tip |-> Last(chain)]

groupPositions(rows) ==
  LET roots == rootsOf(rows) IN [i \in DOMAIN roots |-> position(rows, roots[i])]

----------------------------------------------------------------------------
isExpired(row, now) == row.expiration # None /\ row.expiration <= now

(* filled is what was sold of the original offer.                          *)
positionStatus(p, now) ==
  LET done    == p.tip.status \in {"taken", "cancelled"}
      expired == p.tip.status = "open" /\ isExpired(p.tip, now)
  IN  [ filled    |-> IF done THEN p.original.offeredAmount
                      ELSE p.original.offeredAmount - p.tip.offeredAmount,
        canCancel |-> p.tip.status = "open",
        expired   |-> expired ]

(* Fault: the fill that closes an order is left out.                       *)
closing_none(tip) == << >>

(* The event that closed the order.                                        *)
closing(tip) ==
  CASE tip.status = "taken" ->
         <<[kind |-> "final", soldOffered |-> tip.offeredAmount,
            receivedAsk |-> tip.requestedAmount]>>
    [] tip.status = "cancelled" ->
         <<[kind |-> "cancel", soldOffered |-> 0, receivedAsk |-> 0]>>
    [] OTHER -> << >>

(* A fill for every link along which the offer shrinks.                    *)
fillEvents(p) ==
  LET fill(i) == [ kind |-> "fill",
                   soldOffered |-> p.chain[i].offeredAmount - p.chain[i + 1].offeredAmount,
                   receivedAsk |-> p.chain[i].requestedAmount - p.chain[i + 1].requestedAmount ]
      fills   == [i \in 1..(Len(p.chain) - 1) |-> fill(i)]
  IN  SelectSeq(fills, LAMBDA f : f.soldOffered > 0) \o closing(p.tip)
=============================================================================

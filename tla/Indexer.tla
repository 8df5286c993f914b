------------------------------- MODULE Indexer -------------------------------
(***************************************************************************)
(* The order indexer (services/order-indexer.ts) and the cache it keeps    *)
(* (db/orders-repo.ts).  A sync is a chain of awaits; between two of them  *)
(* the chain moves on and other calls of the backend run.  An action is    *)
(* the code between two awaits whose order matters: every write to the     *)
(* cache is an action of its own, reads of the provider that nothing       *)
(* happens between are one.                                                *)
(*                                                                         *)
(* A session is one OrderIndexer object.  A settings change replaces the   *)
(* current session; a sync of the old one that is under way runs on.  The  *)
(* process Repair is a call of repairLineage.                              *)
(*                                                                         *)
(* Of an order row only status and spending transaction are kept: the      *)
(* other columns copy the order's output and never change.  Cooldown and   *)
(* poll period are left out: a sync may start whenever none is running.    *)
(***************************************************************************)
EXTENDS ChainView

CONSTANTS
  Sessions,       (* OrderIndexer objects                                    *)
  First,          (* the session started at boot                             *)
  Repair,         (* the process that runs repairLineage                     *)
  Confirmations,  (* INDEXER_CONFIRMATIONS                                   *)
  MaxAncestry,    (* depth of the ancestry walk: 64 in the code              *)
  Repositories,   (* {"postgres", "memory"}: those the backend may run on    *)
  Repairs,        (* TRUE: repairLineage is called now and then              *)
  FaultKinds,     (* the faults that may happen                              *)
  MaxFaults       (* bound on the number of faults                           *)

ASSUME IndexerAssumption ==
  /\ First \in Sessions /\ Repair \notin Sessions
  /\ Confirmations \in Nat /\ MaxAncestry \in Nat /\ MaxFaults \in Nat
  /\ Repositories \subseteq {"postgres", "memory"}

VARIABLES
  repository,     (* the one it runs on                                      *)
  row,            (* orders table: order -> status and spending transaction  *)
  lineage,        (* order_lineage table: continuation -> parent and root    *)
  proc,           (* where each process is, and its local variables          *)
  current,        (* deps.indexer                                            *)
  faults          (* faults so far                                           *)

vars == <<chain, mempool, height, repository, row, lineage, proc, current, faults>>

Procs == Sessions \cup {Repair}

Idle ==
  [ pc |-> "idle", tip |-> 0, holders |-> {}, page |-> {}, seen |-> {}, todo |-> {},
    cur |-> None, known |-> FALSE, links |-> << >>, root |-> None,
    verdict |-> [status |-> None, tx |-> None, child |-> None] ]

----------------------------------------------------------------------------
(***************************************************************************)
(* The repository.  The two implementations differ: PostgreSQL keeps the   *)
(* spending transaction of a row it reopens and keeps the lineage it has,  *)
(* the in-memory one replaces both.                                        *)
(***************************************************************************)
Durable == repository = "postgres"

open == {ref \in DOMAIN row : row[ref].status = "open"}

Put(f, k, v) == [x \in DOMAIN f \cup {k} |-> IF x = k THEN v ELSE f[x]]

upsertOpenOrder(ref) ==
  row' = Put(row, ref,
             [status |-> "open",
              tx |-> IF Durable /\ ref \in DOMAIN row THEN row[ref].tx ELSE None])

markSpent(ref, status, tx) ==
  row' = IF ref \notin DOMAIN row THEN row
         ELSE [row EXCEPT ![ref] =
                 [status |-> status, tx |-> IF Durable \/ tx # None THEN tx ELSE @.tx]]

setLineage(child, parent, root) ==
  lineage' = IF Durable /\ child \in DOMAIN lineage THEN lineage
             ELSE Put(lineage, child, [parent |-> parent, root |-> root])

----------------------------------------------------------------------------
(***************************************************************************)
(* Reading the chain.                                                      *)
(***************************************************************************)
Unknown(tx) == [status |-> "unknown", tx |-> tx, child |-> None]

(* Fault: the first order output instead of the one of the same rank.     *)
classifySpend_first_output(ref) ==
  IF ~OnChain(ref) \/ SpentBy(ref) = {} THEN Unknown(None)
  ELSE LET id    == CHOOSE t \in SpentBy(ref) : TRUE
           tx    == chain[id]
           at    == CHOOSE i \in DOMAIN tx.inputs : tx.inputs[i].ref = ref
           kind  == tx.inputs[at].redeemer
       IN  CASE kind = "CancelOrder"      -> [status |-> "cancelled", tx |-> id, child |-> None]
             [] kind = "TakeOrder"        -> [status |-> "taken", tx |-> id, child |-> None]
             [] kind = "TakeOrderPartial" -> [status |-> "partially_filled", tx |-> id,
                                              child |-> <<id, Nth(OrderOutputs(tx), 0)>>]

(* Fault: the rank itself is taken for the index of the output.            *)
classifySpend_rank_as_index(ref) ==
  IF ~OnChain(ref) \/ SpentBy(ref) = {} THEN Unknown(None)
  ELSE LET id   == CHOOSE t \in SpentBy(ref) : TRUE
           tx   == chain[id]
           at   == CHOOSE i \in DOMAIN tx.inputs : tx.inputs[i].ref = ref
           kind == tx.inputs[at].redeemer
           rank == Rank(PartialInputs(tx), at)
       IN  CASE kind = "CancelOrder" -> [status |-> "cancelled", tx |-> id, child |-> None]
             [] kind = "TakeOrder"   -> [status |-> "taken", tx |-> id, child |-> None]
             [] kind = "TakeOrderPartial" ->
                  [status |-> "partially_filled", tx |-> id, child |-> <<id, rank + 1>>]

(***************************************************************************)
(* How the order ref was spent, from the redeemer of its own input; for a  *)
(* partial take the continuation is the order output of the same rank.     *)
(***************************************************************************)
classifySpend(ref) ==
  IF ~OnChain(ref) \/ SpentBy(ref) = {} THEN Unknown(None)
  ELSE LET id   == CHOOSE t \in SpentBy(ref) : TRUE
           tx   == chain[id]
           at   == CHOOSE i \in DOMAIN tx.inputs : tx.inputs[i].ref = ref
           kind == tx.inputs[at].redeemer
           rank == Rank(PartialInputs(tx), at)
       IN  CASE kind = "CancelOrder" -> [status |-> "cancelled", tx |-> id, child |-> None]
             [] kind = "TakeOrder"   -> [status |-> "taken", tx |-> id, child |-> None]
             [] kind = "TakeOrderPartial" ->
                  [ status |-> "partially_filled", tx |-> id,
                    child  |-> IF rank < Cardinality(OrderOutputs(tx))
                               THEN <<id, Nth(OrderOutputs(tx), rank)>> ELSE None ]

(* Fault: the parent is looked up among the unspent outputs (getUtxo).     *)
ParentOnChain_unspent(ref) ==
  IF ~OnChain(ref) THEN None
  ELSE LET tx   == chain[ref[1]]
           rank == Rank(OrderOutputs(tx), ref[2])
       IN  IF rank >= Cardinality(PartialInputs(tx)) THEN None
           ELSE LET parent == tx.inputs[Nth(PartialInputs(tx), rank)].ref
                IN  IF parent \in Unspent THEN parent ELSE None

(* Fault: the parent is the first partial input, whatever the rank.        *)
ParentOnChain_first_input(ref) ==
  IF ~OnChain(ref) \/ PartialInputs(chain[ref[1]]) = {} THEN None
  ELSE LET tx     == chain[ref[1]]
           parent == tx.inputs[Nth(PartialInputs(tx), 0)].ref
       IN  IF parent \in Orders THEN parent ELSE None

(* The order that the partial take in the creating transaction of ref      *)
(* continued, by the same ranks read backward; None when there is none.    *)
ParentOnChain(ref) ==
  IF ~OnChain(ref) THEN None
  ELSE LET tx   == chain[ref[1]]
           rank == Rank(OrderOutputs(tx), ref[2])
       IN  IF rank >= Cardinality(PartialInputs(tx)) THEN None
           ELSE LET parent == tx.inputs[Nth(PartialInputs(tx), rank)].ref
                IN  IF parent \in Orders THEN parent ELSE None

----------------------------------------------------------------------------
(***************************************************************************)
(* The actions.  Each moves process p from one program point to the next.  *)
(***************************************************************************)
At(p, point) == proc[p].pc = point

Becomes(p, record) == proc' = [proc EXCEPT ![p] = record]

Elsewhere == UNCHANGED <<chain, mempool, height, repository, current, faults>>

(* syncOnce on the current session (timer or reindex request): `running`   *)
(* keeps it out while a sync of the same session is under way.             *)
Begin(p) ==
  /\ p = current
  /\ At(p, "idle")
  /\ Becomes(p, [Idle EXCEPT !.pc = "fetch", !.tip = height,
                             !.holders = {OwnerOf(ref) : ref \in Unspent}])
  /\ UNCHANGED <<row, lineage>>
  /\ Elsewhere

(* Fault: an order that is cached as open is passed over before it is      *)
(* entered among the seen ones.                                            *)
Fetch_new_only(p) ==
  /\ At(p, "fetch")
  /\ \E h \in proc[p].holders :
       LET page == {ref \in Unspent : OwnerOf(ref) = h} IN
       Becomes(p, [proc[p] EXCEPT !.pc = "scan", !.holders = @ \ {h},
                                  !.page = page, !.seen = @ \cup (page \ open)])
  /\ UNCHANGED <<row, lineage>>
  /\ Elsewhere

(* The next holder's UTxOs.  All of them count as seen.                    *)
Fetch(p) ==
  /\ At(p, "fetch")
  /\ \E h \in proc[p].holders :
       LET page == {ref \in Unspent : OwnerOf(ref) = h} IN
       Becomes(p, [proc[p] EXCEPT !.pc = "scan", !.holders = @ \ {h},
                                  !.page = page, !.seen = @ \cup page])
  /\ UNCHANGED <<row, lineage>>
  /\ Elsewhere

(* Fault: an order that was ever cached is passed over.                    *)
cached_open_any(ref) == ref \in DOMAIN row

(* An order that is cached as open is passed over.                         *)
cached_open(ref) == ref \in open

Scan(p) ==
  /\ At(p, "scan")
  /\ \/ \E ref \in proc[p].page :
          Becomes(p, [proc[p] EXCEPT !.page = @ \ {ref},
                        !.cur   = IF cached_open(ref) THEN @ ELSE ref,
                        !.known = ~cached_open(ref) /\ ref \in DOMAIN row,
                        !.pc    = IF cached_open(ref) THEN @ ELSE "confirm"])
     \/ /\ proc[p].page = {}
        /\ Becomes(p, [proc[p] EXCEPT !.pc = IF proc[p].holders = {} THEN "list" ELSE "fetch"])
  /\ UNCHANGED <<row, lineage>>
  /\ Elsewhere

(* A session without any holder goes on to the vanished orders at once.    *)
NoHolders(p) ==
  /\ At(p, "fetch")
  /\ proc[p].holders = {}
  /\ Becomes(p, [proc[p] EXCEPT !.pc = "list"])
  /\ UNCHANGED <<row, lineage>>
  /\ Elsewhere

(* The block of a transaction is its first confirmation; a block above the *)
(* tip that was read before counts as none.                                *)
ConfirmedAt(tip, ref) ==
  OnChain(ref) /\ (Confirmations = 0 \/ tip - chain[ref[1]].height + 1 >= Confirmations)

Confirmed(p, ref) == ConfirmedAt(proc[p].tip, ref)

(* Too fresh: left to the next sync.  Otherwise cached, and if it had no   *)
(* row before the confirmations were asked for, its ancestry is looked up. *)
Confirm(p) ==
  LET ref == proc[p].cur IN
  /\ At(p, "confirm")
  /\ IF Confirmed(p, ref)
     THEN /\ upsertOpenOrder(ref)
          /\ Becomes(p, [proc[p] EXCEPT !.known = FALSE,
                                        !.pc = IF proc[p].known THEN "scan" ELSE "walk"])
     ELSE /\ Becomes(p, [proc[p] EXCEPT !.known = FALSE, !.pc = "scan"])
          /\ UNCHANGED row
  /\ UNCHANGED lineage
  /\ Elsewhere

AfterWalk(p) == IF p = Repair THEN "repair" ELSE "scan"

(* backfillAncestry, the reads: link by link up from the order, until there *)
(* is a node that has lineage or no parent.                                *)
Reached(p) == IF proc[p].links = << >> THEN proc[p].cur ELSE Last(proc[p].links).parent

AfterReads(p, root) ==
  Becomes(p, IF proc[p].links = << >> \/ root = None
             THEN [proc[p] EXCEPT !.pc = AfterWalk(p), !.links = << >>]
             ELSE [proc[p] EXCEPT !.pc = "reopen", !.root = root])

Walk(p) ==
  LET node   == Reached(p)
      parent == ParentOnChain(node)
  IN
  /\ At(p, "walk")
  /\ \/ Len(proc[p].links) >= MaxAncestry /\ AfterReads(p, None)
     \/ /\ Len(proc[p].links) < MaxAncestry
        /\ \/ node \in DOMAIN lineage /\ AfterReads(p, lineage[node].root)
           \/ node \notin DOMAIN lineage /\ parent = None /\ AfterReads(p, node)
           \/ /\ node \notin DOMAIN lineage /\ parent # None
              /\ Becomes(p, [proc[p] EXCEPT !.links =
                               Append(@, [child |-> node, parent |-> parent])])
  /\ UNCHANGED <<row, lineage>>
  /\ Elsewhere

(* backfillAncestry, the writes, from the root down: each parent is cached *)
(* as open, marked spent, and linked from its child.                       *)
Reopen(p) ==
  /\ At(p, "reopen")
  /\ upsertOpenOrder(Last(proc[p].links).parent)
  /\ Becomes(p, [proc[p] EXCEPT !.pc = "close"])
  /\ UNCHANGED lineage
  /\ Elsewhere

Close(p) ==
  LET link == Last(proc[p].links) IN
  /\ At(p, "close")
  /\ markSpent(link.parent, "partially_filled", link.child[1])
  /\ Becomes(p, [proc[p] EXCEPT !.pc = "link"])
  /\ UNCHANGED lineage
  /\ Elsewhere

(* Fault: each parent is linked from the order that was discovered.        *)
Link_discovered(p) ==
  LET link == Last(proc[p].links) IN
  /\ At(p, "link")
  /\ setLineage(proc[p].cur, link.parent, proc[p].root)
  /\ Becomes(p, [proc[p] EXCEPT !.pc = IF Len(proc[p].links) = 1 THEN AfterWalk(p) ELSE "reopen",
                                !.links = Front(@)])
  /\ UNCHANGED row
  /\ Elsewhere

Link(p) ==
  LET link == Last(proc[p].links) IN
  /\ At(p, "link")
  /\ setLineage(link.child, link.parent, proc[p].root)
  /\ Becomes(p, [proc[p] EXCEPT !.pc = IF Len(proc[p].links) = 1 THEN AfterWalk(p) ELSE "reopen",
                                !.links = Front(@)])
  /\ UNCHANGED row
  /\ Elsewhere

(* Step 2: the orders cached as open, listed once.                         *)
ListOpen(p) ==
  /\ At(p, "list")
  /\ Becomes(p, [proc[p] EXCEPT !.pc = "vanished", !.todo = open])
  /\ UNCHANGED <<row, lineage>>
  /\ Elsewhere

(* The next one that was not seen is classified.                           *)
Vanished(p) ==
  /\ At(p, "vanished")
  /\ \E ref \in proc[p].todo :
       Becomes(p, IF ref \in proc[p].seen
                  THEN [proc[p] EXCEPT !.todo = @ \ {ref}]
                  ELSE [proc[p] EXCEPT !.todo = @ \ {ref}, !.pc = "mark", !.cur = ref,
                                       !.verdict = classifySpend(ref)])
  /\ UNCHANGED <<row, lineage>>
  /\ Elsewhere

Mark(p) ==
  LET v == proc[p].verdict IN
  /\ At(p, "mark")
  /\ markSpent(proc[p].cur, v.status, v.tx)
  /\ Becomes(p, [proc[p] EXCEPT !.pc = IF v.child # None THEN "lineage" ELSE "vanished"])
  /\ UNCHANGED lineage
  /\ Elsewhere

(* The continuation inherits the root of the order, if that has one.       *)
RootFor(ref) == IF ref \in DOMAIN lineage THEN lineage[ref].root ELSE ref

Inherit(p) ==
  LET parent == proc[p].cur
      child  == proc[p].verdict.child
  IN
  /\ At(p, "lineage")
  /\ setLineage(child, parent, RootFor(parent))
  /\ Becomes(p, [proc[p] EXCEPT !.pc = IF child \in proc[p].seen THEN "vanished" ELSE "surface"])
  /\ UNCHANGED row
  /\ Elsewhere

(* The continuation is cached without waiting for confirmations.           *)
Surface(p) ==
  LET child == proc[p].verdict.child IN
  /\ At(p, "surface")
  /\ IF child \in Unspent
     THEN /\ upsertOpenOrder(child)
          /\ Becomes(p, [proc[p] EXCEPT !.pc = "vanished", !.seen = @ \cup {child}])
     ELSE /\ Becomes(p, [proc[p] EXCEPT !.pc = "vanished"])
          /\ UNCHANGED row
  /\ UNCHANGED lineage
  /\ Elsewhere

Finish(p) ==
  /\ At(p, "vanished")
  /\ proc[p].todo = {}
  /\ Becomes(p, Idle)
  /\ UNCHANGED <<row, lineage>>
  /\ Elsewhere

(* repairLineage: every open order that has no lineage is walked.          *)
BeginRepair ==
  /\ At(Repair, "idle")
  /\ Repairs
  /\ Becomes(Repair, [Idle EXCEPT !.pc = "repair", !.todo = open])
  /\ UNCHANGED <<row, lineage>>
  /\ Elsewhere

RepairNext ==
  /\ At(Repair, "repair")
  /\ \/ \E ref \in proc[Repair].todo :
          Becomes(Repair, [proc[Repair] EXCEPT !.todo = @ \ {ref}, !.cur = ref,
                             !.pc = IF ref \in DOMAIN lineage THEN @ ELSE "walk"])
     \/ proc[Repair].todo = {} /\ Becomes(Repair, Idle)
  /\ UNCHANGED <<row, lineage>>
  /\ Elsewhere

Step(p) ==
  \/ Begin(p) \/ NoHolders(p) \/ Fetch(p) \/ Scan(p) \/ Confirm(p)
  \/ Walk(p) \/ Reopen(p) \/ Close(p) \/ Link(p)
  \/ ListOpen(p) \/ Vanished(p) \/ Mark(p) \/ Inherit(p) \/ Surface(p) \/ Finish(p)

----------------------------------------------------------------------------
(***************************************************************************)
(* Faults.                                                                 *)
(***************************************************************************)
Fault(kind) ==
  /\ kind \in FaultKinds
  /\ faults < MaxFaults
  /\ faults' = faults + 1

(* A provider call throws: the sync ends, `running` is reset.  Inside      *)
(* classifySpend and backfillAncestry the exception is caught.             *)
Throws(p) ==
  /\ Fault("throw")
  /\ proc[p].pc \in {"fetch", "confirm", "surface", "walk"}
  /\ IF At(p, "walk") THEN AfterReads(p, None) ELSE Becomes(p, Idle)
  /\ UNCHANGED <<chain, mempool, height, repository, row, lineage, current>>

(* classifySpend catches the exception and answers `unknown`.              *)
ClassifyThrows(p) ==
  /\ Fault("throw")
  /\ At(p, "vanished")
  /\ \E ref \in proc[p].todo \ proc[p].seen :
       Becomes(p, [proc[p] EXCEPT !.todo = @ \ {ref}, !.pc = "mark", !.cur = ref,
                                  !.verdict = Unknown(None)])
  /\ UNCHANGED <<chain, mempool, height, repository, row, lineage, current>>

(* getUtxosByAddress catches every exception and answers an empty list.    *)
FetchFails(p) ==
  /\ Fault("fetch")
  /\ At(p, "fetch")
  /\ \E h \in proc[p].holders :
       Becomes(p, [proc[p] EXCEPT !.pc = "scan", !.holders = @ \ {h}, !.page = {}])
  /\ UNCHANGED <<chain, mempool, height, repository, row, lineage, current>>

(* Koios answers an error of the redeemers with none, and the walk takes   *)
(* the order it has come to for the root.                                  *)
WalkCutShort(p) ==
  /\ Fault("redeemers")
  /\ At(p, "walk")
  /\ proc[p].links # << >> /\ AfterReads(p, Reached(p))
  /\ UNCHANGED <<chain, mempool, height, repository, row, lineage, current>>

(* The backend is restarted: every call under way is lost, and with the    *)
(* in-memory cache its contents.                                           *)
Restart ==
  /\ Fault("restart")
  /\ proc' = [p \in Procs |-> Idle]
  /\ IF Durable THEN UNCHANGED <<row, lineage>> ELSE row' = << >> /\ lineage' = << >>
  /\ UNCHANGED <<chain, mempool, height, repository, current>>

(* applySettings: stop() clears the timer of the old session and start()   *)
(* begins a sync of the new one; a sync of the old one runs on.            *)
HotSwap ==
  /\ Fault("swap")
  /\ \E s \in Sessions \ {current} : At(s, "idle") /\ current' = s
  /\ UNCHANGED <<chain, mempool, height, repository, row, lineage, proc>>

Reorg ==
  /\ Fault("reorg")
  /\ Rollback
  /\ UNCHANGED <<repository, row, lineage, proc, current>>

----------------------------------------------------------------------------
Init ==
  /\ ChainInit
  /\ repository \in Repositories
  /\ row = << >>
  /\ lineage = << >>
  /\ proc = [p \in Procs |-> Idle]
  /\ current = First
  /\ faults = 0

Next ==
  \/ ChainStep /\ UNCHANGED <<repository, row, lineage, proc, current, faults>>
  \/ \E p \in Procs : Step(p) \/ Throws(p) \/ ClassifyThrows(p) \/ FetchFails(p) \/ WalkCutShort(p)
  \/ BeginRepair \/ RepairNext
  \/ Restart \/ HotSwap \/ Reorg

(* The event loop runs what is pending: every call that is under way goes  *)
(* on (the provider answers or throws), the interval timer of the current  *)
(* session fires again and again, and blocks are made.  Nothing forces     *)
(* anyone to trade, nor any fault to happen.                               *)
Fairness ==
  /\ \A p \in Procs : WF_vars(Step(p))
  /\ WF_vars(RepairNext)
  /\ WF_vars(Block /\ UNCHANGED <<repository, row, lineage, proc, current, faults>>)

Spec == Init /\ [][Next]_vars /\ Fairness
----------------------------------------------------------------------------
(***************************************************************************)
(* Properties.                                                             *)
(***************************************************************************)

(* Type invariant.  What is cached or remembered by a process are orders   *)
(* that were once on the chain; rows have a status of the schema.          *)
Statuses == {"open", "taken", "partially_filled", "cancelled", "unknown"}

OrdersSeen == UNION {{<<id, i>> : i \in OrderOutputs(Seen(id))} : id \in EverSeen}

TypeOK ==
  /\ DOMAIN row \subseteq OrdersSeen
  /\ \A ref \in DOMAIN row : row[ref] \in [status : Statuses, tx : EverSeen \cup {None}]
  /\ DOMAIN lineage \subseteq OrdersSeen
  /\ \A ref \in DOMAIN lineage : lineage[ref] \in [parent : OrdersSeen, root : OrdersSeen]
  /\ current \in Sessions
  /\ \A p \in Procs :
       /\ proc[p].tip \in 0..height
       /\ proc[p].page \cup proc[p].seen \cup proc[p].todo \subseteq OrdersSeen
       /\ proc[p].cur \in OrdersSeen \cup {None}

(* A row that says how its order was spent says so truly: the recorded     *)
(* transaction spends this very order under that redeemer, whatever else   *)
(* the same batch spends under other redeemers.                            *)
RedeemerOf(status) ==
  CASE status = "cancelled" -> "CancelOrder"
    [] status = "taken" -> "TakeOrder"
    [] status = "partially_filled" -> "TakeOrderPartial"

StatusTrue ==
  \A ref \in DOMAIN row :
    row[ref].status \notin {"open", "unknown"} =>
      /\ row[ref].tx \in EverSeen
      /\ [ref |-> ref, redeemer |-> RedeemerOf(row[ref].status)] \in ToSet(Seen(row[ref].tx).inputs)

ParentOf(ref) == Seen(ref[1]).outputs[ref[2]].parent

RootOf(ref) == Seen(ref[1]).outputs[ref[2]].root

(* Lineage is true: each continuation is linked to the order it continues  *)
(* and to the order its seller placed, found forward (classification) or   *)
(* backward (backfill), in batches and over several fills per sync.        *)
LineageTrue ==
  \A ref \in DOMAIN lineage :
    lineage[ref] = [parent |-> ParentOf(ref), root |-> RootOf(ref)]

(* "Cheap and correct for every order discovered": between syncs, every    *)
(* open continuation in the cache has its lineage.                         *)
ContinuationsLinked ==
  (\A p \in Procs : At(p, "idle")) =>
    \A ref \in open : ParentOf(ref) # None => ref \in DOMAIN lineage

(* All of it: the cache is true of every order that was spent and of every *)
(* link, and between syncs no link of an open order is lacking.            *)
CacheTrue == StatusTrue /\ LineageTrue /\ ContinuationsLinked

(* What a restart between two writes leaves true, and a repair keeps so:   *)
(* the rows, the parent of every link, and of its root that it is an order *)
(* of the same lineage, if not the one that the seller placed.             *)
LinksTrue ==
  /\ StatusTrue
  /\ \A ref \in DOMAIN lineage :
       /\ lineage[ref].parent = ParentOf(ref)
       /\ RootOf(lineage[ref].root) = RootOf(ref)

(* A live order that is in the book stays there: what leaves the book as   *)
(* vanished was really spent.                                              *)
NeverHidesLive ==
  [][\A ref \in open \cap Unspent \cap Unspent' : ref \in open']_vars

(* What repairLineage is for: if it is called again and again, every open  *)
(* continuation gets its lineage, whatever interrupted its backfill.       *)
RepairHeals ==
  []<><<BeginRepair>>_vars
    => <>[](\A ref \in open : ParentOf(ref) # None => ref \in DOMAIN lineage)

(* Once the chain is quiet the book becomes, and stays, the set of orders  *)
(* that are open on the chain, whatever faults there were before.          *)
Converges == <>[](open = Unspent)
=============================================================================

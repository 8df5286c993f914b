------------------------------- MODULE Provider -------------------------------
(***************************************************************************)
(* The two chain providers (services/chain-provider.ts).  The endpoints of *)
(* Blockfrost and Koios give different answers; the interface over them is *)
(* what the indexer is written against, and ChainView is what the indexer  *)
(* is modelled against.  Here the calls are put together as the code does, *)
(* from what each endpoint says of the chain.                              *)
(*                                                                         *)
(* down is the set of endpoints that fail during a call, and skipped are   *)
(* the inputs whose redeemer an answer lacks or words in an unknown way.   *)
(* A call that throws has the value Thrown.                                *)
(***************************************************************************)
EXTENDS Indexer

CONSTANT Thrown

(* What is told of a transaction, and of its redeemers.                    *)
Answers == [inputs : Seq(Int \X Nat), outputs : Seq([beacon : BOOLEAN, consumedByTx : TxIds \cup {None}])]
Entries == [txIndex : 1..(MaxBatch + 1), constructor : 0..2]

ASSUME ProviderAssumption ==
  /\ None \notin Answers /\ Thrown \notin Answers \cup {None}
  /\ \A S \in SUBSET Entries : Thrown # S

Providers == {"blockfrost", "koios"}

(* Those that say how an order was spent.                                  *)
Endpoints(provider) ==
  IF provider = "blockfrost" THEN {"utxos", "redeemers", "datum"}
  ELSE {"tx_utxos", "utxo_info", "tx_info", "address_txs"}

----------------------------------------------------------------------------
(***************************************************************************)
(* What the endpoints say of a transaction on the chain.                   *)
(***************************************************************************)
inputsOf(id) == [i \in DOMAIN chain[id].inputs |-> chain[id].inputs[i].ref]

(* Outputs, each with whether it holds an OrderBeacon and the transaction  *)
(* that spent it.                                                          *)
consumedBy(ref) == IF SpentBy(ref) = {} THEN None ELSE CHOOSE t \in SpentBy(ref) : TRUE

outputsOf(id, spenders) ==
  [i \in DOMAIN spenders |->
     [beacon |-> i \in OrderOutputs(chain[id]), consumedByTx |-> spenders[i]]]

Constructor == [CancelOrder |-> 0, TakeOrder |-> 1, TakeOrderPartial |-> 2]

redeemersOf(id) ==
  {[txIndex |-> i, constructor |-> Constructor[chain[id].inputs[i].redeemer]] :
     i \in {j \in DOMAIN chain[id].inputs : chain[id].inputs[j].redeemer # None}}

(* Transactions with an input or an output at the address of an owner.     *)
touches(owner) ==
  {id \in DOMAIN chain :
     \/ \E i \in OrderOutputs(chain[id]) : OwnerOf(<<id, i>>) = owner
     \/ \E i \in DOMAIN chain[id].inputs :
          chain[id].inputs[i].redeemer # None /\ OwnerOf(chain[id].inputs[i].ref) = owner}

----------------------------------------------------------------------------
(***************************************************************************)
(* Blockfrost: a 404 is null, any other failure is thrown.                 *)
(***************************************************************************)
blockfrostTxUtxos(id, down) ==
  LET spenders == [i \in DOMAIN chain[id].outputs |-> consumedBy(<<id, i>>)]
  IN  IF "utxos" \in down THEN Thrown
      ELSE IF id \notin DOMAIN chain THEN None
      ELSE [inputs |-> inputsOf(id), outputs |-> outputsOf(id, spenders)]

blockfrostOutput(ref, requireUnspent, down) ==
  IF "utxos" \in down THEN Thrown
  ELSE IF ref \notin Orders \/ (requireUnspent /\ consumedBy(ref) # None) THEN None
  ELSE ref

(* The datum of every spend redeemer is asked for; one without is left out. *)
blockfrostSpendRedeemers(id, down, skipped) ==
  IF "redeemers" \in down \/ ("datum" \in down /\ redeemersOf(id) # {}) THEN Thrown
  ELSE {r \in redeemersOf(id) : r.txIndex \notin skipped}

----------------------------------------------------------------------------
(***************************************************************************)
(* Koios.  An output does not say which transaction spent it, only whether *)
(* it is spent.                                                            *)
(***************************************************************************)
(* Fault: transactions in the block of the output are left out.            *)
findSpendingTx_later(ref, down) ==
  LET candidates == {id \in touches(OwnerOf(ref)) \ {ref[1]} :
                       chain[id].height > chain[ref[1]].height}
  IN  IF down \cap {"tx_info", "address_txs", "tx_utxos"} # {} THEN None
      ELSE IF \E id \in candidates : Spends(chain[id], ref)
           THEN CHOOSE id \in candidates : Spends(chain[id], ref) ELSE None

(* The transactions at the address of the output, from its block on, are   *)
(* searched; a failure counts as not found.                                *)
findSpendingTx(ref, down) ==
  LET candidates == {id \in touches(OwnerOf(ref)) \ {ref[1]} :
                       chain[id].height >= chain[ref[1]].height}
      spending   == {id \in candidates : ref \in ToSet(inputsOf(id))}
  IN  IF down \cap {"tx_info", "address_txs", "tx_utxos"} # {} \/ spending = {} THEN None
      ELSE CHOOSE id \in spending : \A t \in spending : chain[id].height <= chain[t].height

isSpent(ref) == SpentBy(ref) # {}

koiosTxUtxos(id, down) ==
  LET spender(ref) == IF ref \in Orders /\ isSpent(ref) THEN findSpendingTx(ref, down) ELSE None
      spenders     == [i \in DOMAIN chain[id].outputs |-> spender(<<id, i>>)]
  IN  IF "tx_utxos" \in down \/ (id \in DOMAIN chain /\ "utxo_info" \in down) THEN Thrown
      ELSE IF id \notin DOMAIN chain THEN None
      ELSE [inputs |-> inputsOf(id), outputs |-> outputsOf(id, spenders)]

koiosOutput(ref, requireUnspent, down) ==
  IF "utxo_info" \in down THEN Thrown
  ELSE IF ref \notin Orders \/ (requireUnspent /\ isSpent(ref)) THEN None
  ELSE ref

(* A failure is an empty list.                                             *)
koiosSpendRedeemers(id, down, skipped) ==
  IF "tx_info" \in down \/ id \notin DOMAIN chain THEN {}
  ELSE {r \in redeemersOf(id) : r.txIndex \notin skipped}

----------------------------------------------------------------------------
(***************************************************************************)
(* The interface, and the indexer on top of it.                            *)
(***************************************************************************)
getTxUtxos(provider, id, down) ==
  IF provider = "blockfrost" THEN blockfrostTxUtxos(id, down) ELSE koiosTxUtxos(id, down)

getSpendRedeemers(provider, id, down, skipped) ==
  IF provider = "blockfrost" THEN blockfrostSpendRedeemers(id, down, skipped)
  ELSE koiosSpendRedeemers(id, down, skipped)

getOutput(provider, ref, requireUnspent, down) ==
  IF provider = "blockfrost" THEN blockfrostOutput(ref, requireUnspent, down)
  ELSE koiosOutput(ref, requireUnspent, down)

(* Who holds an OrderBeacon, and the order outputs of one of them: the     *)
(* latter are none when the call fails.                                    *)
getAssetAddresses(down) ==
  IF "asset_addresses" \in down THEN Thrown ELSE {OwnerOf(ref) : ref \in Unspent}

getUtxosByAddress(owner, down) ==
  IF "address_utxos" \in down THEN {} ELSE {ref \in Unspent : OwnerOf(ref) = owner}

getTip(down) == IF "tip" \in down THEN Thrown ELSE height

(* 0 for a block above the tip that was read before; None off the chain.   *)
getTxConfirmations(provider, id, tip, down) ==
  IF (IF provider = "blockfrost" THEN "txs" ELSE "tx_info") \in down THEN Thrown
  ELSE IF id \notin DOMAIN chain THEN None
  ELSE Max({0, tip - chain[id].height + 1})

partialRank(redeemers, index) ==
  Rank({r.txIndex : r \in {q \in redeemers : q.constructor = 2}}, index)

(* Fault: the first redeemer of the script is that of every input.         *)
entriesOf_first(redeemers, index) ==
  {r \in redeemers : \A q \in redeemers : r.txIndex <= q.txIndex}

entriesOf(redeemers, index) == {r \in redeemers : r.txIndex = index}

(* What the found redeemer means.                                          *)
verdict(id, consuming, redeemers, index, constructor) ==
  LET beacons == {i \in DOMAIN consuming.outputs : consuming.outputs[i].beacon}
      rank    == partialRank(redeemers, index)
  IN  CASE constructor = 0 -> [status |-> "cancelled", tx |-> id, child |-> None]
        [] constructor = 1 -> [status |-> "taken", tx |-> id, child |-> None]
        [] constructor = 2 ->
             [ status |-> "partially_filled", tx |-> id,
               child  |-> IF rank < Cardinality(beacons) THEN <<id, Nth(beacons, rank)>>
                          ELSE None ]

(* classifySpend over the calls of a provider.                             *)
classifyVia(provider, ref, down, skipped) ==
  LET created   == getTxUtxos(provider, ref[1], down)
      id        == created.outputs[ref[2]].consumedByTx
      consuming == getTxUtxos(provider, id, down)
      index     == CHOOSE i \in DOMAIN consuming.inputs : consuming.inputs[i] = ref
      redeemers == getSpendRedeemers(provider, id, down, skipped)
      entries   == entriesOf(redeemers, index)
  IN  IF created \in {Thrown, None} \/ id = None THEN Unknown(None)
      ELSE IF consuming = Thrown \/ redeemers = Thrown THEN Unknown(None)
      ELSE IF consuming = None \/ entries = {} THEN Unknown(id)
      ELSE verdict(id, consuming, redeemers, index, (CHOOSE r \in entries : TRUE).constructor)

----------------------------------------------------------------------------
(***************************************************************************)
(* Properties.  They are about the chain alone, which moves whatever the   *)
(* indexer does: it is enough to look while there is nothing in the cache. *)
(***************************************************************************)
Unindexed == row = << >> /\ \A p \in Procs : At(p, "idle")

(* The indexer sees the same chain through either provider, and it is the  *)
(* one it is modelled against: outputs, spends in the same block or later, *)
(* mixed batches, wallet inputs among the orders.                          *)
ProvidersAgree ==
  Unindexed =>
    \A provider \in Providers, ref \in Orders :
      /\ classifyVia(provider, ref, {}, {}) = classifySpend(ref)
      /\ getOutput(provider, ref, TRUE, {}) = (IF ref \in Unspent THEN ref ELSE None)
      /\ getOutput(provider, ref, FALSE, {}) = ref
      /\ ref \in Unspent <=>
           \E owner \in getAssetAddresses({}) : ref \in getUtxosByAddress(owner, {})
      /\ \A tip \in 0..getTip({}) :
           getTxConfirmations(provider, ref[1], tip, {}) >= Confirmations
             <=> ConfirmedAt(tip, ref)

(* "It never misclassifies a fund-moving action": whatever endpoints fail  *)
(* and whatever redeemers are lacking, an order is shown as it was spent   *)
(* or as unknown; and a fill is linked to its own continuation, as long as *)
(* no redeemer is lacking.                                                 *)
NeverMisclassified ==
  Unindexed =>
    \A provider \in Providers : \A ref \in Orders, down \in SUBSET Endpoints(provider),
                                   skipped \in SUBSET (1..(MaxBatch + 1)) :
      LET told == classifyVia(provider, ref, down, skipped) IN
      /\ told.status \in {classifySpend(ref).status, "unknown"}
      /\ skipped = {} => told.child \in {classifySpend(ref).child, None}
=============================================================================

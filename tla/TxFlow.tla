-------------------------------- MODULE TxFlow --------------------------------
(***************************************************************************)
(* Build, preview, sign, submit: the hook useTxFlow of the frontend, the   *)
(* status view that waits for a transaction to settle (TxStatus.tsx), and  *)
(* the chain they act on.                                                  *)
(*                                                                         *)
(* The hook keeps one state and does not cancel what it has started: a     *)
(* build or a signature that comes back sets the state, whatever happened  *)
(* meanwhile.  What comes back to a component that is no longer mounted    *)
(* sets nothing, but a transaction the wallet submits is submitted.        *)
(*                                                                         *)
(* A transaction is a batch of legs of the planner: a record with legs and *)
(* the mount of the component that asked for it.  The chain is the set of  *)
(* open orders; reads of it by the builder are live, and others take       *)
(* orders too.                                                             *)
(***************************************************************************)
EXTENDS SmartFill

CONSTANT InitialBook   (* the open orders at the start, one of these sets *)

VARIABLES
  book,      (* orders that are open on the chain                            *)
  pending,   (* transactions submitted and not settled                       *)
  settled,   (* transactions with two confirmations                          *)
  flow,      (* the state of the hook: step and tx                           *)
  builds,    (* builds under way                                             *)
  signings   (* transactions in the wallet                                   *)

chain == <<book, pending, settled>>

Idle == [step |-> "idle", tx |-> None]
At(step, tx) == [step |-> step, tx |-> tx]

----------------------------------------------------------------------------
(***************************************************************************)
(* The chain.                                                              *)
(***************************************************************************)
taken(tx) == selected(tx.legs)

live(tx) == taken(tx) \subseteq {o.id : o \in book}

(* What partial fills leave, under ids of their own.                       *)
RestId == 10

rest(o, leg) ==
  [o EXCEPT !.id = @ + RestId,
            !.offeredAmount = @ - leg.receive, !.requestedAmount = @ - leg.spend]

(* A transaction spends an order once.                                     *)
legOn(tx, o) == tx.legs[CHOOSE i \in DOMAIN tx.legs : tx.legs[i].orderId = o.id]

remainders(tx) ==
  LET partly == {o \in book : o.id \in taken(tx) /\ legOn(tx, o).takeAmount # None} IN
  {rest(o, legOn(tx, o)) : o \in partly}

Settle(tx) ==
  /\ live(tx)
  /\ book' = {o \in book : o.id \notin taken(tx)} \cup remainders(tx)
  /\ pending' = pending \ {tx}
  /\ settled' = settled \cup {tx}

SomeoneTakes(o) ==
  /\ book' = book \ {o}
  /\ UNCHANGED <<pending, settled>>

----------------------------------------------------------------------------
(***************************************************************************)
(* The hook.  here is whether the component that started the work is       *)
(* still mounted.                                                          *)
(***************************************************************************)
build(tx) ==
  /\ flow' = At("building", None)
  /\ builds' = builds \cup {tx}

(* The builder finds every order and answers with a transaction.           *)
Built(tx, here) ==
  /\ live(tx)
  /\ builds' = builds \ {tx}
  /\ flow' = IF here THEN At("preview", tx) ELSE flow

(* order_not_found, no collateral, a provider error, ...                   *)
BuildFails(tx, here) ==
  /\ builds' = builds \ {tx}
  /\ flow' = IF here THEN At("error", None) ELSE flow

confirmAndSign ==
  /\ flow.step = "preview"
  /\ flow' = At("signing", flow.tx)
  /\ signings' = signings \cup {flow.tx}

Submitted(tx, here) ==
  /\ live(tx)
  /\ signings' = signings \ {tx}
  /\ pending' = pending \cup {tx}
  /\ flow' = IF here THEN At("submitted", tx) ELSE flow

(* The user declines in the wallet, or an input is spent.                  *)
SigningFails(tx, here) ==
  /\ signings' = signings \ {tx}
  /\ flow' = IF here THEN At("error", None) ELSE flow

reset == flow' = Idle

FlowInit ==
  /\ book \in InitialBook
  /\ pending = {} /\ settled = {}
  /\ flow = Idle
  /\ builds = {} /\ signings = {}
=============================================================================

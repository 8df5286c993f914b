------------------------------- MODULE Beacons -------------------------------
(***************************************************************************)
(* The vocabulary of the protocol: assets, values, credentials, the order  *)
(* datum and the five beacon tokens derived from it.                       *)
(*                                                                         *)
(* A value is a function from units to quantities.  Units are the assets,  *)
(* each of the policy policy_id names, and the tokens of the beacon policy,*)
(* which are the beacon names and no others.  A hash is represented by the *)
(* term it is the hash of, so two names are equal exactly when their       *)
(* preimages are: the derivation is taken to be collision free, as         *)
(* beacons.ak argues it is.                                                *)
(***************************************************************************)
EXTENDS Integers, FiniteSets

CONSTANTS
  ADA,            (* lovelace: the empty policy id and asset name          *)
  Tokens,         (* the other tradable assets                             *)
  Keys,           (* key hashes: payment and staking credentials of users  *)
  Script,         (* the order validator's script hash                     *)
  BeaconPolicy,   (* the beacon policy id                                  *)
  Policies,       (* policy ids a datum may name                           *)
  policy_id,      (* the policy of each asset; lovelace has the empty one  *)
  None            (* absent: no expiration, no datum, no staking part, ... *)

Assets == Tokens \cup {ADA}

is_ada(a) == a = ADA

(***************************************************************************)
(* Beacon names.  The pair beacon is undirected: (a, b) and (b, a) give    *)
(* the same name.                                                          *)
(***************************************************************************)
order_beacon_name      == [kind |-> "order", of |-> None]
pair_beacon_name(a, b) == [kind |-> "pair",  of |-> {a, b}]
offer_beacon_name(a)   == [kind |-> "offer", of |-> a]
ask_beacon_name(a)     == [kind |-> "ask",   of |-> a]
owner_beacon_name(k)   == [kind |-> "owner", of |-> k]

BeaconNames ==
  {order_beacon_name}
    \cup {pair_beacon_name(a, b) : a, b \in Assets}
    \cup {offer_beacon_name(a) : a \in Assets}
    \cup {ask_beacon_name(a) : a \in Assets}
    \cup {owner_beacon_name(k) : k \in Keys}

Units  == Assets \cup BeaconNames
Values == [Units -> Nat]

(***************************************************************************)
(* Addresses, output references, datums.                                   *)
(***************************************************************************)
Credentials == Keys \cup {Script}
Addresses   == [payment : Credentials, stake : Credentials \cup {None}]
Refs        == Nat \X Nat

OrderDatums ==
  [ version            : Nat,
    beacon_policy_id   : Policies,
    owner              : Credentials,
    payment_address    : Addresses,
    offer              : Units,
    offer_amount       : Nat,
    ask                : Units,
    ask_amount         : Nat,
    expiration         : Nat \cup {None},
    allow_partial_fill : BOOLEAN ]

PaymentTag(ref) == [order_ref |-> ref]
PaymentTags     == [order_ref : Refs]

Outputs ==
  [ address          : Addresses,
    value            : Values,
    datum            : OrderDatums \cup PaymentTags \cup {None},
    reference_script : BOOLEAN ]

(***************************************************************************)
(* The five names an order with datum d carries, one token of each.        *)
(***************************************************************************)
beacon_set(d) ==
  { order_beacon_name,
    pair_beacon_name(d.offer, d.ask),
    offer_beacon_name(d.offer),
    ask_beacon_name(d.ask),
    owner_beacon_name(d.owner) }

(***************************************************************************)
(* The value rule (4) of the minting policy demands of an order's output:  *)
(* the lovelace it holds, the offered amount and the five beacons, nothing *)
(* else.  With an ADA offer the lovelace is deposit and offer together.    *)
(***************************************************************************)
expected_value(d, lovelace) ==
  [u \in Units |-> IF u \in beacon_set(d) THEN 1
                   ELSE IF u = ADA THEN lovelace
                   ELSE IF u = d.offer THEN d.offer_amount
                   ELSE 0]

(***************************************************************************)
(* The deposit: the lovelace of an order that is not for sale.             *)
(***************************************************************************)
deposit(d, value) == value[ADA] - (IF is_ada(d.offer) THEN d.offer_amount ELSE 0)

(***************************************************************************)
(* assets.tokens(value, policy) # {}.  A datum may name any policy: with   *)
(* the empty one, the lovelace of a value counts.                          *)
(***************************************************************************)
has_tokens(value, policy) ==
  IF policy = BeaconPolicy
  THEN \E u \in BeaconNames : value[u] > 0
  ELSE \E a \in Assets : policy_id[a] = policy /\ value[a] > 0

ASSUME UnitsAssumption ==
  /\ ADA \notin Tokens
  /\ Assets \cap BeaconNames = {}

ASSUME CredentialsAssumption ==
  /\ Script \notin Keys
  /\ None \notin Keys \cup {Script}
  /\ None \notin Nat
  /\ BeaconPolicy \in Policies
  /\ policy_id \in [Assets -> Policies \ {BeaconPolicy}]
=============================================================================

----------------------------- MODULE FeeLedger -----------------------------
(***************************************************************************)
(* The service-fee ledger of core/service_fee_ledger.py and the planning of *)
(* its collections in core/wallet/dna_fees.py. Every accepted payment owes  *)
(* an exact fee, kept in 1/Scale atomic units; what has become whole units  *)
(* is collected by a transfer of its own, a collection, that rides the      *)
(* approval of a later payment.                                             *)
(*                                                                          *)
(* One identity (payer, network, asset, treasury, policy) is modelled: the  *)
(* ledger never relates two. state_version is left out, every fence on it   *)
(* also names the state, and a state is never entered twice.                *)
(***************************************************************************)
EXTENDS Integers, FiniteSets, Sums

CONSTANTS
    Payments,       \* payment proposals
    Collections,    \* collections, and the companion proposals that pay them
    Debts,          \* settled provider payments that accrue a fee
    Basis,          \* what each of them paid
    Rate,           \* rate_bps
    Scale,          \* SCALE: a fee numerator of Scale is one atomic unit
    MinCollect      \* collect_min_atomic, the threshold of a collection

ASSUME FeeAssumption ==
    /\ Payments \cap Collections = {}
    /\ "none" \notin Payments \cup Collections     \* no id stands for NULL
    /\ IsFiniteSet(Collections) /\ IsFiniteSet(Debts)
    /\ Basis \in Nat \ {0} /\ Rate \in Nat \ {0}
    /\ Scale \in Nat \ {0} /\ MinCollect \in Nat \ {0}

VARIABLES
    debt,         \* of each debt: whether it accrued, and the basis refunded since
    collection    \* the row of each collection

ledger == <<debt, collection>>

NoPayment == "none"
OPEN_COLLECTION_STATES == {"offered", "claimed", "submitted"}
CollectionStates == OPEN_COLLECTION_STATES \cup {"unused", "confirmed", "failed", "released"}

NoCollection == [state |-> "unused", amount |-> 0, lapsed |-> FALSE, payment |-> NoPayment]

\* The rows of the ledger.
DebtRows == [accrued : BOOLEAN, refunded : 0..Basis]
CollectionRows == [state : CollectionStates, amount : Nat, lapsed : BOOLEAN, payment : Payments \cup {NoPayment}]

LedgerInit == /\ debt = [d \in Debts |-> [accrued |-> FALSE, refunded |-> 0]]
              /\ collection = [c \in Collections |-> NoCollection]

-----------------------------------------------------------------------------
(* The position *)

fee_numerator(basis) == basis * Rate
whole_atomic(numerator) == IF numerator >= 0 THEN numerator \div Scale ELSE 0
at_least_zero(amount) == IF amount >= 0 THEN amount ELSE 0

\* An accrual and the reversals of it; of natural numbers, as no refund exceeds the basis.
Entries == [d \in Debts |->
    IF debt[d].accrued THEN fee_numerator(Basis) - fee_numerator(debt[d].refunded) ELSE 0]
Accrued == Sum(Entries, Debts)

Amounts == [c \in Collections |-> collection[c].amount]
In(states) == {c \in Collections : collection[c].state \in states}
Retired == Sum(Amounts, In({"confirmed"}))
Held == Sum(Amounts, In(OPEN_COLLECTION_STATES))

Owed == whole_atomic(Accrued - Retired * Scale)
Collectible == at_least_zero(Owed - Held)

-----------------------------------------------------------------------------
(* The ledger's operations *)

\* Once per settled payment: a retried settlement finds its entry.
accrue(d) ==
    /\ ~debt[d].accrued
    /\ debt' = [debt EXCEPT ![d].accrued = TRUE]
    /\ UNCHANGED collection

\* A proven refund, bounded by what the operation paid. It asks nothing of the
\* collections that were offered or sent against the debt.
reverse(d, refunded) ==
    /\ debt[d].accrued
    /\ debt[d].refunded + refunded <= Basis
    /\ debt' = [debt EXCEPT ![d].refunded = @ + refunded]
    /\ UNCHANGED collection

SetCollection(c, state) ==
    /\ collection' = [collection EXCEPT ![c].state = state]
    /\ UNCHANGED debt

\* plan_companion_collection, up to its offer: the position is read, the wallet's
\* means and caps consulted (they may refuse), then the offer checks for itself
\* that nothing is open and the amount is still collectible. It offers all of what
\* it read as collectible.
offer_collection(c, amount) ==
    /\ collection[c].state = "unused"
    /\ In(OPEN_COLLECTION_STATES) = {}
    /\ amount >= MinCollect /\ amount <= Collectible
    /\ collection' = [collection EXCEPT ![c].state = "offered", ![c].amount = amount]
    /\ UNCHANGED debt

\* The companion proposal is made, and bound with the payment it rides.
bind_collection(c, p) ==
    /\ collection[c].state = "offered" /\ collection[c].payment = NoPayment
    /\ collection' = [collection EXCEPT ![c].payment = p]
    /\ UNCHANGED debt

\* The plan failed, its fee rose, its payment ended or its proposal did: the offer is
\* given back, fenced on the state it was read in.
_release_plan(c) == collection[c].state = "offered" /\ SetCollection(c, "released")

\* The clock passes expires_epoch.
OfferLapses(c) ==
    /\ collection[c].state = "offered" /\ ~collection[c].lapsed
    /\ collection' = [collection EXCEPT ![c].lapsed = TRUE]
    /\ UNCHANGED debt

\* A slip: an expiry decided on a snapshot, not on the row.
ExpireAnyway(c) ==
    /\ collection[c].state = "claimed" \/ (collection[c].state = "offered" /\ collection[c].lapsed)
    /\ SetCollection(c, "released")
expire_offer(c) == collection[c].state = "offered" /\ collection[c].lapsed /\ SetCollection(c, "released")

LedgerStep ==
    \/ \E d \in Debts : accrue(d) \/ \E refunded \in 1..Basis : reverse(d, refunded)
    \/ \E c \in Collections :
        \/ \E amount \in 1..Collectible : offer_collection(c, amount)
        \/ _release_plan(c) \/ OfferLapses(c) \/ expire_offer(c)

-----------------------------------------------------------------------------
(* Inside the wallet's transactions *)

\* A slip: the position the offer was made at is believed.
ClaimsBlindly(c) == collection[c].state = "offered" /\ collection[c].payment # NoPayment /\ ~collection[c].lapsed
\* claim_collection: the offer stands, and the debt still covers it.
CanClaim(c) ==
    /\ collection[c].state = "offered" /\ collection[c].payment # NoPayment /\ ~collection[c].lapsed
    /\ Owed - at_least_zero(Held - Amounts[c]) >= Amounts[c]

\* on_transfer_state: the state of the collection that follows its transfer to new.
Followed(new) ==
    CASE new = "dispatching" -> "submitted"
      [] new = "confirmed" -> "confirmed"
      [] new = "failed_on_chain" -> "failed"
      [] new \in {"released", "discarded", "cancelled"} -> "released"
      [] OTHER -> "unchanged"

\* The states it may be followed from: a submitted collection is never released, one
\* that was given back never confirmed. A refusal rolls the transfer's step back.
MayFollow(c, new) ==
    LET from == collection[c].state
    IN  CASE Followed(new) = "submitted" -> from \in {"claimed", "submitted"}
          [] Followed(new) \in {"confirmed", "failed"} -> from \in {"claimed", "submitted", Followed(new)}
          [] Followed(new) = "released" -> from \in {"offered", "claimed", "released"}
          [] OTHER -> TRUE

\* A slip: every state is written, those that change nothing too.
FollowedAlways(c, new) == [collection[c] EXCEPT !.state = Followed(new)]
FollowedCollection(c, new) ==
    IF Followed(new) = "unchanged" THEN collection[c] ELSE [collection[c] EXCEPT !.state = Followed(new)]
=============================================================================

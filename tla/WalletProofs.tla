---------------------------- MODULE WalletProofs ----------------------------
(***************************************************************************)
(* Proofs about WalletTransfer, for every set of payments, collections and  *)
(* debts, in every lane.                                                    *)
(***************************************************************************)
EXTENDS WalletTransfer, SumLemmas

-----------------------------------------------------------------------------
(* The inductive invariant.                                                 *)

\* The collection of the ledger stands as the row of its transfer says.
LedgerTied ==
    \A c \in Collections :
      /\ State(c) = "none" => collection[c].state \in {"unused", "offered", "released"}
      /\ State(c) \in PRE_DISPATCH => collection[c].state = "claimed"
      /\ State(c) \in {"dispatching", "unknown", "pending", "stopped_waiting"} => collection[c].state = "submitted"
      /\ State(c) = "confirmed" => collection[c].state = "confirmed"
      /\ State(c) = "failed_on_chain" => collection[c].state = "failed"
      /\ State(c) \in NEVER_SENT_STATES => collection[c].state = "released"
      /\ State(c) # "rejected"
      /\ State(c) # "none" => collection[c].payment \in Payments

\* A request sends its payment or the collection that rides it, the collection only
\* once the payment has left; what it is transmitting, or waits for, has left.
KnownRequest(p) ==
    /\ job[p].sending \in Both(p)
    /\ job[p].comp # NoTransfer => collection[job[p].comp].payment = p
    /\ At(p, "sign") => job[p].sending = p
    /\ At(p, "unsent") => job[p].comp # NoTransfer
    /\ job[p].at \in {"transmit", "answer"} => State(job[p].sending) \in SENT_STATES
    /\ job[p].at \in {"send", "guard", "transmit", "answer"} /\ job[p].sending # p => State(p) \in SENT_STATES
RequestsKnown == \A p \in Payments : KnownRequest(p)

\* What is on the chain, or being sent again, has a row that says it left.
LeftIsSent ==
    /\ \A t \in Transfers : net[t] # "absent" => State(t) \in SENT_STATES
    /\ \A p \in Payments : resend[p] # "none" => State(p) \in SENT_STATES

\* What is offered is never nothing.
AmountsOffered == \A c \in Collections : collection[c].state # "unused" => collection[c].amount >= 1

\* A flagged row never left.
FlaggedUnsent == \A t \in Transfers : row[t].cancel => State(t) \notin SENT_STATES

WalletInv ==
    LedgerTied /\ RequestsKnown /\ LeftIsSent /\ AmountsOffered /\ FlaggedUnsent /\ EndingsAreTrue /\ CompanionFollows

-----------------------------------------------------------------------------
(* What a step does to the row of a transfer and to its collection.         *)

\* They rest; but for a flag, which an unsent row may get.
Rests(t) ==
    /\ row'[t].state = State(t)
    /\ row'[t].cancel => row[t].cancel \/ State(t) \in PRE_DISPATCH
    /\ t \in Collections => collection'[t] = collection[t]

\* They move along an edge. A row ends only as the chain has, and a collection
\* leaves only after its payment.
MayEnd(t, to) ==
    /\ to = "confirmed" => net[t] = "ok"
    /\ to = "failed_on_chain" => net[t] = "failed" \/ ExpiredUnused(t)
    /\ to = "dispatching" /\ t \in Collections => State(PaymentOf(t)) \in SENT_STATES
Moved(t) ==
    \E from, to \in TransferStates :
      /\ CanMove(t, from, to) /\ MayEnd(t, to)
      /\ row'[t] = MovedRow(t, to)
      /\ t \in Collections => collection'[t] = FollowedCollection(t, to)

\* A collection without a row is offered, bound, or given back. It is offered for
\* something, and stays offered for that.
OffersSomething(old, new) == new.amount >= 1 \/ (old.state = "offered" /\ new.amount = old.amount)
Planned(t) ==
    /\ t \in Collections /\ row'[t] = row[t]
    /\ collection[t].state \in {"unused", "offered"} /\ collection'[t].state \in {"offered", "released"}
    /\ collection[t].payment # NoPayment => collection'[t].payment = collection[t].payment
    /\ OffersSomething(collection[t], collection'[t])

\* A transfer is claimed; a payment is rejected; the row of a payment that is out, of
\* which nothing is proven, is pending.
Claimed(t) ==
    /\ State(t) = "none" /\ row'[t] = [row[t] EXCEPT !.state = "claimed"]
    /\ t \in Collections =>
         /\ CanClaim(t) /\ collection[t].state = "offered" /\ collection[t].payment \in Payments
         /\ collection'[t] = [collection[t] EXCEPT !.state = "claimed"]
Rejected(t) == t \in Payments /\ State(t) = "none" /\ row'[t] = [row[t] EXCEPT !.state = "rejected"]
Unproved(t) ==
    /\ t \in Payments /\ State(t) \in {"unknown", "pending"}
    /\ row'[t].state = "pending" /\ (row'[t].cancel <=> row[t].cancel)

RowMove(t) == Rests(t) \/ Moved(t) \/ Planned(t) \/ Claimed(t) \/ Rejected(t) \/ Unproved(t)

\* The rows and the ledger keep their types, and every row moves as it may.
RowsOK ==
    /\ row' \in [Transfers -> TransferRows]
    /\ collection' \in [Collections -> CollectionRows]
    /\ debt' \in [Debts -> DebtRows]
    /\ \A t \in Transfers : RowMove(t)

-----------------------------------------------------------------------------
(* Rows.                                                                    *)

\* A step that leaves the rows and the ledger alone.
LEMMA RowsRest == ASSUME WalletTypeOK, row' = row, UNCHANGED ledger PROVE RowsOK
BY DEF RowsOK, RowMove, Rests, State, WalletTypeOK, ledger

\* Writing the exit, the evidence or the flag of one row.
LEMMA RowWritten ==
    ASSUME WalletTypeOK, NEW t \in Transfers, NEW new \in TransferRows,
           row' = [row EXCEPT ![t] = new], UNCHANGED ledger,
           new.state = State(t), new.cancel => row[t].cancel \/ State(t) \in PRE_DISPATCH
    PROVE  RowsOK
<1>1. row' \in [Transfers -> TransferRows] /\ row'[t] = new
    BY DEF WalletTypeOK
<1>2. ASSUME NEW u \in Transfers PROVE Rests(u)
    <2>1. u # t => row'[u] = row[u]
        BY DEF WalletTypeOK
    <2> QED
        BY <1>1, <2>1 DEF Rests, State, ledger
<1> QED
    BY <1>1, <1>2 DEF RowsOK, RowMove, WalletTypeOK, ledger

\* What a collection is made to follow is a row of the ledger, with its payment.
LEMMA FollowedRow ==
    ASSUME NEW c \in Collections, collection[c] \in CollectionRows, NEW to
    PROVE  /\ FollowedCollection(c, to) \in CollectionRows
           /\ FollowedCollection(c, to).payment = collection[c].payment
           /\ FollowedCollection(c, to).amount = collection[c].amount
           /\ FollowedCollection(c, to).state = IF Followed(to) = "unchanged" THEN collection[c].state ELSE Followed(to)
<1>1. Followed(to) \in {"submitted", "confirmed", "failed", "released", "unchanged"}
    BY DEF Followed
<1> QED
    BY <1>1 DEF FollowedCollection, CollectionRows, CollectionStates, OPEN_COLLECTION_STATES

\* A moved row is a row in its new state, flagged as before.
LEMMA MovedRowType ==
    ASSUME NEW t \in Transfers, row[t] \in TransferRows, NEW to \in TransferStates
    PROVE  MovedRow(t, to) \in TransferRows /\ MovedRow(t, to).state = to
           /\ (MovedRow(t, to).cancel <=> row[t].cancel)
<1> DEFINE exit == IF to \in {"confirmed", "failed_on_chain"} \/ (Evm(t) /\ to = "pending")
                    THEN "none" ELSE row[t].exit
<1>1. exit \in Exits
    BY DEF TransferRows, Exits
<1>2. MovedRow(t, to) = [row[t] EXCEPT !.state = to, !.nulls = 0, !.exit = exit]
    BY DEF MovedRow
<1>3. PICK r \in TransferRows, x \in Exits, n \in 0..1 : r = row[t] /\ x = exit /\ n = 0
    BY <1>1
<1>4. MovedRow(t, to) = [r EXCEPT !.state = to, !.nulls = n, !.exit = x]
    BY <1>2, <1>3
<1> HIDE DEF exit
<1>5. [r EXCEPT !.state = to, !.nulls = n, !.exit = x] \in TransferRows
    BY DEF TransferRows
<1>6. [r EXCEPT !.state = to, !.nulls = n, !.exit = x].state = to
    BY DEF TransferRows
<1>7. [r EXCEPT !.state = to, !.nulls = n, !.exit = x].cancel <=> r.cancel
    BY DEF TransferRows
<1> QED
    BY <1>3, <1>4, <1>5, <1>6, <1>7, Zenon

\* Moving transfers along an edge.
LEMMA RowsMoved ==
    ASSUME WalletTypeOK, NEW ts \in SUBSET Transfers, NEW from \in TransferStates, NEW to \in TransferStates,
           MoveAll(ts, from, to), \A t \in ts : MayEnd(t, to)
    PROVE  RowsOK
<1>1. /\ \A t \in ts : CanMove(t, from, to)
      /\ row' = [t \in Transfers |-> IF t \in ts THEN MovedRow(t, to) ELSE row[t]]
      /\ collection' = [c \in Collections |-> IF c \in ts THEN FollowedCollection(c, to) ELSE collection[c]]
      /\ debt' = debt
    BY DEF MoveAll, Follow
<1>2. row' \in [Transfers -> TransferRows]
    BY <1>1, MovedRowType DEF WalletTypeOK
<1>3. collection' \in [Collections -> CollectionRows]
    BY <1>1, FollowedRow DEF WalletTypeOK
<1>4. ASSUME NEW t \in Transfers PROVE Rests(t) \/ Moved(t)
    <2>1. CASE t \in ts
        BY <1>1, <2>1 DEF Moved
    <2>2. CASE t \notin ts
        BY <1>1, <2>2 DEF Rests, State
    <2> QED
        BY <2>1, <2>2
<1> QED
    BY <1>1, <1>2, <1>3, <1>4 DEF RowsOK, RowMove, WalletTypeOK

LEMMA RowMoved ==
    ASSUME WalletTypeOK, NEW t \in Transfers, NEW from \in TransferStates, NEW to \in TransferStates,
           Move(t, from, to), MayEnd(t, to)
    PROVE  RowsOK
BY RowsMoved DEF Move

\* Revoking a signed row.
LEMMA RowRevoked == ASSUME WalletTypeOK, NEW t \in Transfers, revoke_signed(t) PROVE RowsOK
<1>1. CASE State(t) = "signed"
    <2>1. MayEnd(t, "signed_revoked")
        BY DEF MayEnd
    <2> QED
        BY <1>1, <2>1, RowMoved DEF revoke_signed, TransferStates, LIVE_STATES, PRE_DISPATCH
<1>2. CASE State(t) # "signed"
    BY <1>2, RowsRest DEF revoke_signed
<1> QED
    BY <1>1, <1>2

-----------------------------------------------------------------------------
(* Every step moves every row as it may.                                    *)

\* A step that writes the collection of one offer, or the debts, and no row.
LEMMA LedgerWritten ==
    ASSUME WalletTypeOK, row' = row, debt' \in [Debts -> DebtRows],
           \/ collection' = collection
           \/ \E c \in Collections, new \in CollectionRows :
                /\ collection' = [collection EXCEPT ![c] = new]
                /\ collection[c].state \in {"unused", "offered"} /\ new.state \in {"offered", "released"}
                /\ collection[c].payment # NoPayment => new.payment = collection[c].payment
                /\ OffersSomething(collection[c], new)
    PROVE  RowsOK
<1>1. CASE collection' = collection
    BY <1>1 DEF RowsOK, RowMove, Rests, State, WalletTypeOK
<1>2. CASE \E c \in Collections, new \in CollectionRows :
             /\ collection' = [collection EXCEPT ![c] = new]
             /\ collection[c].state \in {"unused", "offered"} /\ new.state \in {"offered", "released"}
             /\ collection[c].payment # NoPayment => new.payment = collection[c].payment
             /\ OffersSomething(collection[c], new)
    <2>1. PICK c \in Collections, new \in CollectionRows :
             /\ collection' = [collection EXCEPT ![c] = new]
             /\ collection[c].state \in {"unused", "offered"} /\ new.state \in {"offered", "released"}
             /\ collection[c].payment # NoPayment => new.payment = collection[c].payment
             /\ OffersSomething(collection[c], new)
        BY <1>2
    <2>2. collection' \in [Collections -> CollectionRows] /\ collection'[c] = new
        BY <2>1 DEF WalletTypeOK
    <2>3. ASSUME NEW t \in Transfers PROVE Rests(t) \/ Planned(t)
        <3>1. CASE t = c
            BY <2>1, <2>2, <3>1 DEF Planned
        <3>2. CASE t # c
            <4>1. t \in Collections => collection'[t] = collection[t]
                BY <2>1, <3>2 DEF WalletTypeOK
            <4> QED
                BY <4>1 DEF Rests, State
        <3> QED
            BY <3>1, <3>2
    <2> QED
        BY <2>2, <2>3 DEF RowsOK, RowMove, WalletTypeOK
<1> QED
    BY <1>1, <1>2

\* A row of the ledger in another state, or lapsed, or bound.
LEMMA CollectionWith ==
    ASSUME NEW r \in CollectionRows
    PROVE  /\ \A state \in CollectionStates : /\ [r EXCEPT !.state = state] \in CollectionRows
                                              /\ [r EXCEPT !.state = state].state = state
                                              /\ [r EXCEPT !.state = state].payment = r.payment
                                              /\ [r EXCEPT !.state = state].amount = r.amount
           /\ [r EXCEPT !.lapsed = TRUE] \in CollectionRows
           /\ [r EXCEPT !.lapsed = TRUE].state = r.state /\ [r EXCEPT !.lapsed = TRUE].payment = r.payment
           /\ [r EXCEPT !.lapsed = TRUE].amount = r.amount
           /\ \A p \in Payments : /\ [r EXCEPT !.payment = p] \in CollectionRows
                                  /\ [r EXCEPT !.payment = p].state = r.state
                                  /\ [r EXCEPT !.payment = p].amount = r.amount
BY DEF CollectionRows

\* The ledger's own operations.
LEMMA LedgerRows == ASSUME WalletTypeOK, LedgerStep, UNCHANGED wallet PROVE RowsOK
<1>0. row' = row
    BY DEF wallet
<1>1. ASSUME NEW d \in Debts, accrue(d) PROVE RowsOK
    <2>1. debt' \in [Debts -> DebtRows] /\ collection' = collection
        BY <1>1 DEF accrue, DebtRows, WalletTypeOK
    <2> QED
        BY <1>0, <2>1, LedgerWritten
<1>2. ASSUME NEW d \in Debts, NEW refunded \in 1..Basis, reverse(d, refunded) PROVE RowsOK
    <2>1. debt[d] \in DebtRows /\ debt' = [debt EXCEPT ![d] = [debt[d] EXCEPT !.refunded = debt[d].refunded + refunded]]
        BY <1>2 DEF reverse, WalletTypeOK
    <2>2. debt[d].refunded + refunded \in 0..Basis
        BY <1>2, <2>1, FeeAssumption DEF reverse, DebtRows
    <2>3. [debt[d] EXCEPT !.refunded = debt[d].refunded + refunded] \in DebtRows
        BY <2>1, <2>2 DEF DebtRows
    <2>4. debt' \in [Debts -> DebtRows] /\ collection' = collection
        BY <1>2, <2>1, <2>3 DEF reverse, WalletTypeOK
    <2> QED
        BY <1>0, <2>4, LedgerWritten
<1>3. ASSUME NEW c \in Collections, NEW amount \in 1..Collectible, offer_collection(c, amount) PROVE RowsOK
    <2>1. PICK r \in CollectionRows, n \in Nat : r = collection[c] /\ n = amount /\ n >= 1
        BY <1>3 DEF WalletTypeOK
    <2>2. debt' = debt /\ collection[c].state = "unused"
          /\ collection' = [collection EXCEPT ![c] = [r EXCEPT !.state = "offered", !.amount = n]]
        BY <1>3, <2>1 DEF offer_collection, WalletTypeOK
    <2>3. [r EXCEPT !.state = "offered", !.amount = n] \in CollectionRows
        BY DEF CollectionRows, CollectionStates, OPEN_COLLECTION_STATES
    <2>4. /\ [r EXCEPT !.state = "offered", !.amount = n].state = "offered"
          /\ [r EXCEPT !.state = "offered", !.amount = n].payment = r.payment
          /\ [r EXCEPT !.state = "offered", !.amount = n].amount = n
        BY DEF CollectionRows
    <2>5. PICK new \in CollectionRows : /\ new = [r EXCEPT !.state = "offered", !.amount = n]
                                        /\ new.state = "offered" /\ new.payment = r.payment
                                        /\ new.amount = n
        BY <2>3, <2>4, Zenon
    <2> QED
        BY <1>0, <2>1, <2>2, <2>5, LedgerWritten DEF OffersSomething, WalletTypeOK
<1>4. ASSUME NEW c \in Collections, _release_plan(c) \/ expire_offer(c) PROVE RowsOK
    <2>1. PICK r \in CollectionRows : r = collection[c]
        BY DEF WalletTypeOK
    <2>2. debt' = debt /\ collection[c].state = "offered"
          /\ collection' = [collection EXCEPT ![c] = [r EXCEPT !.state = "released"]]
        BY <1>4, <2>1 DEF _release_plan, expire_offer, SetCollection, WalletTypeOK
    <2>3. PICK new \in CollectionRows : /\ new = [r EXCEPT !.state = "released"]
                                        /\ new.state = "released" /\ new.payment = r.payment /\ new.amount = r.amount
        BY CollectionWith DEF CollectionStates
    <2> QED
        BY <1>0, <2>1, <2>2, <2>3, LedgerWritten DEF OffersSomething, WalletTypeOK
<1>5. ASSUME NEW c \in Collections, OfferLapses(c) PROVE RowsOK
    <2>1. PICK r \in CollectionRows : r = collection[c]
        BY DEF WalletTypeOK
    <2>2. debt' = debt /\ collection[c].state = "offered"
          /\ collection' = [collection EXCEPT ![c] = [r EXCEPT !.lapsed = TRUE]]
        BY <1>5, <2>1 DEF OfferLapses, WalletTypeOK
    <2>3. PICK new \in CollectionRows : /\ new = [r EXCEPT !.lapsed = TRUE]
                                        /\ new.state = r.state /\ new.payment = r.payment /\ new.amount = r.amount
        BY CollectionWith
    <2> QED
        BY <1>0, <2>1, <2>2, <2>3, LedgerWritten DEF OffersSomething, WalletTypeOK
<1> QED
    BY <1>1, <1>2, <1>3, <1>4, <1>5 DEF LedgerStep

\* A collection is bound once.
LEMMA BindRows == ASSUME WalletTypeOK, NEW c \in Collections, NEW p \in Payments, Bind(c, p) PROVE RowsOK
<1>1. PICK r \in CollectionRows : r = collection[c]
    BY DEF WalletTypeOK
<1>2. /\ row' = row /\ debt' = debt /\ collection[c].state = "offered" /\ collection[c].payment = NoPayment
      /\ collection' = [collection EXCEPT ![c] = [r EXCEPT !.payment = p]]
    BY <1>1 DEF Bind, bind_collection, wallet, WalletTypeOK
<1>3. PICK new \in CollectionRows : new = [r EXCEPT !.payment = p] /\ new.state = r.state /\ new.amount = r.amount
    BY CollectionWith
<1> QED
    BY <1>1, <1>2, <1>3, LedgerWritten DEF OffersSomething, WalletTypeOK

\* A payment is claimed, and the collection with it.
LEMMA ClaimRows == ASSUME WalletTypeOK, WalletInv, NEW p \in Payments, Claim(p) PROVE RowsOK
<1>1. /\ State(p) = "none" /\ \A c \in Riders(p) : CanClaim(c)
      /\ row' = [t \in Transfers |-> IF t \in Both(p) THEN [row[t] EXCEPT !.state = "claimed"] ELSE row[t]]
      /\ collection' = [c \in Collections |->
            IF c \in Riders(p) THEN [collection[c] EXCEPT !.state = "claimed"] ELSE collection[c]]
      /\ debt' = debt
    BY DEF Claim
<1>2. Riders(p) \subseteq Collections /\ p \notin Collections /\ p \in Transfers
    BY FeeAssumption DEF Riders, WalletTypeOK, Requests, Transfers
<1>3. ASSUME NEW r \in TransferRows
      PROVE  [r EXCEPT !.state = "claimed"] \in TransferRows
    BY DEF TransferRows, TransferStates, LIVE_STATES, PRE_DISPATCH
<1>4. row' \in [Transfers -> TransferRows]
    BY <1>1, <1>3 DEF WalletTypeOK
<1>5. collection' \in [Collections -> CollectionRows]
    BY <1>1, CollectionWith DEF CollectionStates, OPEN_COLLECTION_STATES, WalletTypeOK
<1>6. ASSUME NEW t \in Transfers PROVE Rests(t) \/ Claimed(t)
    <2>1. CASE t \in Riders(p)
        <3>1. collection[t].state = "offered" /\ collection[t].payment \in Payments
            BY <1>1, <1>2, <2>1 DEF CanClaim, WalletTypeOK, CollectionRows
        <3>2. State(t) = "none"
            BY <1>2, <2>1, <3>1 DEF WalletInv, LedgerTied, WalletTypeOK, TransferRows, TransferStates, LIVE_STATES,
                SENT_STATES, State, PRE_DISPATCH, NEVER_SENT_STATES
        <3> QED
            BY <1>1, <1>2, <2>1, <3>1, <3>2 DEF Claimed, Both
    <2>2. CASE t = p
        BY <1>1, <1>2, <2>2 DEF Claimed, Both
    <2>3. CASE t \notin Both(p)
        BY <1>1, <2>3 DEF Rests, State, Both
    <2> QED
        BY <2>1, <2>2, <2>3 DEF Both
<1> QED
    BY <1>1, <1>4, <1>5, <1>6 DEF RowsOK, RowMove, WalletTypeOK

\* A proposal is rejected before its claim.
LEMMA RejectRows == ASSUME WalletTypeOK, NEW t \in Transfers, RejectUnclaimed(t) PROVE RowsOK
<1>1. CASE t \in Payments
    <2>1. PICK r \in TransferRows : r = row[t]
        BY DEF WalletTypeOK
    <2>2. State(t) = "none" /\ row' = [row EXCEPT ![t] = [r EXCEPT !.state = "rejected"]] /\ UNCHANGED ledger
        BY <1>1, <2>1 DEF RejectUnclaimed, WalletTypeOK
    <2>3. [r EXCEPT !.state = "rejected"] \in TransferRows
        BY DEF TransferRows, TransferStates
    <2>4. row' \in [Transfers -> TransferRows] /\ row'[t] = [r EXCEPT !.state = "rejected"]
        BY <2>2, <2>3 DEF WalletTypeOK
    <2>5. ASSUME NEW u \in Transfers PROVE Rests(u) \/ Rejected(u)
        <3>1. CASE u = t
            BY <1>1, <2>1, <2>2, <2>4, <3>1 DEF Rejected
        <3>2. CASE u # t
            BY <2>2, <3>2 DEF Rests, State, WalletTypeOK, ledger
        <3> QED
            BY <3>1, <3>2
    <2> QED
        BY <2>2, <2>4, <2>5 DEF RowsOK, RowMove, WalletTypeOK, ledger
<1>2. CASE t \notin Payments
    <2>1. t \in Collections /\ collection[t].state = "offered" /\ SetCollection(t, "released") /\ row' = row
        BY <1>2 DEF RejectUnclaimed, Transfers
    <2>2. PICK r \in CollectionRows : r = collection[t]
        BY <2>1 DEF WalletTypeOK
    <2>3. debt' = debt /\ collection' = [collection EXCEPT ![t] = [r EXCEPT !.state = "released"]]
        BY <2>1, <2>2 DEF SetCollection, WalletTypeOK
    <2>4. PICK new \in CollectionRows : /\ new = [r EXCEPT !.state = "released"]
                                        /\ new.state = "released" /\ new.payment = r.payment /\ new.amount = r.amount
        BY CollectionWith DEF CollectionStates
    <2> QED
        BY <2>1, <2>2, <2>3, <2>4, LedgerWritten DEF OffersSomething, WalletTypeOK
<1> QED
    BY <1>1, <1>2

-----------------------------------------------------------------------------
(* Rows, action by action.                                                  *)

\* Writing evidence or an exit into one row.
LEMMA EvidenceRows ==
    ASSUME WalletTypeOK, NEW t \in Transfers, UNCHANGED ledger, NEW n \in 0..1, NEW x \in Exits,
           \/ row' = [row EXCEPT ![t].nulls = n]
           \/ row' = [row EXCEPT ![t].exit = x]
           \/ row' = [row EXCEPT ![t].exit = x, ![t].nulls = n]
    PROVE  RowsOK
<1>1. PICK r \in TransferRows : r = row[t]
    BY DEF WalletTypeOK
<1>2. PICK new : /\ row' = [row EXCEPT ![t] = new]
                 /\ \/ new = [r EXCEPT !.nulls = n] \/ new = [r EXCEPT !.exit = x]
                    \/ new = [r EXCEPT !.exit = x, !.nulls = n]
    BY <1>1 DEF WalletTypeOK
<1>3. new \in TransferRows
    BY <1>2 DEF TransferRows
<1>4. new.state = r.state
    BY <1>2 DEF TransferRows
<1>5. new.cancel <=> r.cancel
    BY <1>2 DEF TransferRows
<1> QED
    BY <1>1, <1>2, <1>3, <1>4, <1>5, RowWritten DEF State

\* Every step moves every row as it may, and keeps the types of the rows and ledger.
LEMMA RowStep == ASSUME WalletTypeOK, WalletInv, [Next]_vars PROVE RowsOK
<1>1. CASE UNCHANGED vars
    BY <1>1, RowsRest DEF vars, wallet, ledger
<1>2. CASE LedgerStep /\ UNCHANGED wallet
    BY <1>2, LedgerRows
<1>3. ASSUME NEW c \in Collections, NEW p \in Payments, Bind(c, p) PROVE RowsOK
    BY <1>3, BindRows
<1>4. ASSUME NEW p \in Payments, Approve(p) \/ ClaimRefused(p) \/ ReserveEffect(p) \/ SigningFails(p)
             \/ SignLost(p) \/ Transmit(p)
      PROVE  RowsOK
    BY <1>4, RowsRest DEF Approve, ClaimRefused, ReserveEffect, SigningFails, SignLost, Transmit
<1>5. ASSUME NEW p \in Payments, Deliver(p) \/ RequestDies(p) \/ claim_resend(p) \/ ResendTransmit(p)
             \/ ResendDies(p) \/ HeightPasses(p)
      PROVE  RowsOK
    BY <1>5, RowsRest DEF Deliver, RequestDies, claim_resend, ResendTransmit, ResendDies, HeightPasses
<1>6. ASSUME NEW p \in Payments, NonceUsed(p) PROVE RowsOK
    BY <1>6, RowsRest DEF NonceUsed
<1>7. ASSUME NEW t \in Transfers, owner_discard(t) \/ RecoverByRelease(t) \/ RecoverCrossed(t)
             \/ ResolveSettled(t) \/ EffectLeaseExpires(t) \/ ChainStep(t)
      PROVE  RowsOK
    BY <1>7, RowsRest DEF owner_discard, RecoverByRelease, RecoverCrossed, ResolveSettled,
        EffectLeaseExpires, ChainStep
<1>8. ASSUME NEW i \in releasing, ResolveUnsent(i) \/ DropRelease(i) PROVE RowsOK
    BY <1>8, RowsRest DEF ResolveUnsent, DropRelease
<1>9. ASSUME NEW p \in Payments, Claim(p) PROVE RowsOK
    BY <1>9, ClaimRows
<1>10. ASSUME NEW t \in Transfers, RejectUnclaimed(t) PROVE RowsOK
    BY <1>10, RejectRows
<1>11. ASSUME NEW p \in Payments, Sign(p) PROVE RowsOK
    <2>1. MoveAll(Both(p), "claimed", "signed")
        BY <1>11 DEF Sign
    <2>2. Both(p) \in SUBSET Transfers
        BY DEF Both, Riders, WalletTypeOK, Requests, Transfers
    <2>3. \A t \in Both(p) : MayEnd(t, "signed")
        BY DEF MayEnd
    <2> QED
        BY <2>1, <2>2, <2>3, RowsMoved DEF TransferStates, LIVE_STATES, PRE_DISPATCH
<1>12. ASSUME NEW p \in Payments, CredentialRotated(p) \/ DeliveryRefused(p) PROVE RowsOK
    BY <1>12, RowRevoked DEF CredentialRotated, DeliveryRefused, Transfers
<1>13. ASSUME NEW p \in Payments, SendRefused(p) PROVE RowsOK
    <2>1. job[p].sending \in Transfers
        BY DEF WalletTypeOK, Requests
    <2>2. revoke_signed(job[p].sending) \/ UNCHANGED <<row, ledger>>
        BY <1>13 DEF SendRefused
    <2> QED
        BY <2>1, <2>2, RowRevoked, RowsRest
<1>14. ASSUME NEW p \in Payments, MarkDispatched(p) PROVE RowsOK
    <2>1. job[p].sending \in Transfers
        BY DEF WalletTypeOK, Requests
    <2>2. revoke_signed(job[p].sending) \/ UNCHANGED <<row, ledger>>
        BY <1>14 DEF MarkDispatched
    <2> QED
        BY <2>1, <2>2, RowRevoked, RowsRest
<1>15. ASSUME NEW p \in Payments, GuardRefused(p) PROVE RowsOK
    <2>1. job[p].sending \in Transfers
        BY DEF WalletTypeOK, Requests
    <2>2. revoke_signed(job[p].sending) \/ UNCHANGED <<row, ledger>>
        BY <1>15 DEF GuardRefused
    <2> QED
        BY <2>1, <2>2, RowRevoked, RowsRest
<1>16. ASSUME NEW p \in Payments, SendGuard(p) PROVE RowsOK
    <2>1. PICK t \in Transfers : t = job[p].sending
        BY DEF WalletTypeOK, Requests
    <2>2. KnownRequest(p) /\ At(p, "guard") /\ Move(t, "signed", "dispatching")
        BY <1>16, <2>1 DEF SendGuard, WalletInv, RequestsKnown
    <2>3. ASSUME t \in Collections PROVE State(PaymentOf(t)) \in SENT_STATES
        <3>1. t # p /\ t \notin Payments
            BY <2>3, FeeAssumption
        <3>2. t = job[p].comp /\ t # NoTransfer
            BY <2>1, <2>2, <3>1 DEF KnownRequest, Both, Riders
        <3>3. PaymentOf(t) = p
            BY <2>2, <3>1, <3>2 DEF KnownRequest, PaymentOf
        <3> QED
            BY <2>1, <2>2, <3>1, <3>3 DEF KnownRequest, At
    <2>4. MayEnd(t, "dispatching")
        BY <2>3 DEF MayEnd
    <2> QED
        BY <2>2, <2>4, RowMoved DEF TransferStates, LIVE_STATES, PRE_DISPATCH
<1>17. ASSUME NEW p \in Payments, SendAnswered(p) PROVE RowsOK
    <2>1. job[p].sending \in Transfers
        BY DEF WalletTypeOK, Requests
    <2>2. Move(job[p].sending, "dispatching", "unknown") \/ UNCHANGED <<row, ledger>>
        BY <1>17 DEF SendAnswered
    <2>3. MayEnd(job[p].sending, "unknown")
        BY DEF MayEnd
    <2> QED
        BY <2>1, <2>2, <2>3, RowMoved, RowsRest DEF TransferStates, LIVE_STATES
<1>18. ASSUME NEW p \in Payments, CompanionNotSent(p) PROVE RowsOK
    <2>1. revoke_signed(job[p].comp)
        BY <1>18 DEF CompanionNotSent
    <2>2. job[p].comp \in Transfers
        BY <1>18 DEF CompanionNotSent, At, WalletInv, RequestsKnown, KnownRequest, WalletTypeOK, Requests, Transfers
    <2> QED
        BY <2>1, <2>2, RowRevoked
<1>19. ASSUME NEW p \in Payments, ResendAnswered(p) PROVE RowsOK
    <2>1. row' = [row EXCEPT ![p].exit = "none", ![p].nulls = 0] /\ UNCHANGED ledger /\ p \in Transfers
        BY <1>19 DEF ResendAnswered, Transfers
    <2>2. PICK n \in 0..1, x \in Exits : n = 0 /\ x = "none"
        BY DEF Exits
    <2> QED
        BY <2>1, <2>2, EvidenceRows
<1>20. ASSUME NEW i \in releasing, FinishRelease(i) PROVE RowsOK
    <2>1. i.t \in Transfers /\ i.target \in NEVER_SENT_STATES /\ i.from \in PRE_DISPATCH
        BY DEF WalletTypeOK, Intents
    <2>2. Move(i.t, i.from, i.target) \/ UNCHANGED <<row, ledger>>
        BY <1>20 DEF FinishRelease
    <2>3. MayEnd(i.t, i.target) /\ i.from \in TransferStates /\ i.target \in TransferStates
        BY <2>1 DEF MayEnd, NEVER_SENT_STATES, TransferStates, LIVE_STATES
    <2> QED
        BY <2>1, <2>2, <2>3, RowMoved, RowsRest
<1>21. ASSUME NEW t \in Transfers, FlagCancel(t) PROVE RowsOK
    <2>1. PICK r \in TransferRows : r = row[t]
        BY DEF WalletTypeOK
    <2>2. row' = [row EXCEPT ![t] = [r EXCEPT !.cancel = TRUE]] /\ UNCHANGED ledger /\ State(t) \in PRE_DISPATCH
        BY <1>21, <2>1 DEF FlagCancel, WalletTypeOK
    <2>3. [r EXCEPT !.cancel = TRUE] \in TransferRows /\ [r EXCEPT !.cancel = TRUE].state = r.state
        BY DEF TransferRows
    <2> QED
        BY <2>1, <2>2, <2>3, RowWritten DEF State
<1>22. ASSUME NEW t \in Transfers, owner_stop_waiting(t) PROVE RowsOK
    <2>1. PICK from \in {"unknown", "pending"} : Move(t, from, "stopped_waiting")
        BY <1>22 DEF owner_stop_waiting
    <2>2. MayEnd(t, "stopped_waiting")
        BY DEF MayEnd
    <2> QED
        BY <2>1, <2>2, RowMoved DEF TransferStates, LIVE_STATES, SENT_STATES
<1>23. ASSUME NEW t \in Transfers, RecoverByMove(t) PROVE RowsOK
    <2>1. Move(t, "signed", "signed_revoked") \/ Move(t, "dispatching", "unknown")
        BY <1>23 DEF RecoverByMove
    <2>2. MayEnd(t, "signed_revoked") /\ MayEnd(t, "unknown")
        BY DEF MayEnd
    <2> QED
        BY <2>1, <2>2, RowMoved DEF TransferStates, LIVE_STATES, PRE_DISPATCH
<1>24. ASSUME NEW t \in Transfers, ObserveNull(t) PROVE RowsOK
    <2>1. PICK n \in 0..1, x \in Exits : n = 1 /\ x = "stop"
        BY DEF Exits
    <2>2. \/ Move(t, "pending", "unknown")
          \/ row' = [row EXCEPT ![t].nulls = n] /\ UNCHANGED ledger
          \/ row' = [row EXCEPT ![t].exit = x] /\ UNCHANGED ledger
        BY <1>24, <2>1 DEF ObserveNull
    <2>3. MayEnd(t, "unknown")
        BY DEF MayEnd
    <2>4. Move(t, "pending", "unknown") => RowsOK
        BY <2>3, RowMoved DEF TransferStates, LIVE_STATES
    <2> QED
        BY <2>2, <2>4, EvidenceRows
<1>25. ASSUME NEW t \in Transfers, ObserveUnplaced(t) PROVE RowsOK
    <2>1. PICK x \in Exits : row' = [row EXCEPT ![t].exit = x] /\ UNCHANGED ledger
        BY <1>25 DEF ObserveUnplaced
    <2>2. PICK n \in 0..1 : n = 0
        OBVIOUS
    <2> QED
        BY <2>1, <2>2, EvidenceRows
<1>26. ASSUME NEW t \in Transfers, ObserveUnsettled(t) PROVE RowsOK
    <2>1. PICK n \in 0..1, x \in Exits : n = 0 /\ x = "none"
        BY DEF Exits
    <2>2. Move(t, "unknown", "pending") \/ (row' = [row EXCEPT ![t].nulls = n] /\ UNCHANGED ledger)
        BY <1>26, <2>1 DEF ObserveUnsettled
    <2>3. MayEnd(t, "pending")
        BY DEF MayEnd
    <2>4. Move(t, "unknown", "pending") => RowsOK
        BY <2>3, RowMoved DEF TransferStates, LIVE_STATES
    <2> QED
        BY <2>2, <2>4, EvidenceRows
<1>27. ASSUME NEW t \in Transfers, ObserveSettled(t) PROVE RowsOK
    <2>1. PICK from \in {"unknown", "pending", "stopped_waiting"}, to \in {"confirmed", "failed_on_chain"} :
            /\ Move(t, from, to)
            /\ to = IF net[t] = "ok" THEN "confirmed" ELSE "failed_on_chain"
        BY <1>27 DEF ObserveSettled
    <2>2. MayEnd(t, to)
        BY <1>27, <2>1 DEF MayEnd, ObserveSettled
    <2> QED
        BY <2>1, <2>2, RowMoved DEF TransferStates, LIVE_STATES, SENT_STATES
<1>32. ASSUME NEW t \in Transfers, ObserveUnproven(t), ~Evm(t) PROVE RowsOK
    <2>1. PICK n \in 0..1, x \in Exits : n = 0 /\ x = "none"
        BY DEF Exits
    <2>2. row' = [row EXCEPT ![t].nulls = n] /\ UNCHANGED ledger
        BY <1>32, <2>1 DEF ObserveUnproven
    <2> QED
        BY <2>2, EvidenceRows
<1>28. ASSUME NEW t \in Transfers, ObserveUnproven(t) PROVE RowsOK
  <2>1. CASE ~Evm(t)
    BY <1>28, <1>32, <2>1
  <2>2. CASE Evm(t)
    <3>1. PICK r \in TransferRows : r = row[t]
        BY DEF WalletTypeOK
    <3>2. PICK n \in 0..1 : n = 0
        OBVIOUS
    <3>3. row' = [row EXCEPT ![t] = [r EXCEPT !.state = "pending", !.nulls = n, !.exit = "stop"]] /\ UNCHANGED ledger
        BY <1>28, <2>2, <3>1, <3>2 DEF ObserveUnproven, WalletTypeOK
    <3>4. PICK new \in TransferRows : /\ new = [r EXCEPT !.state = "pending", !.nulls = n, !.exit = "stop"]
                                      /\ new.state = "pending" /\ (new.cancel <=> r.cancel)
        <4>1. [r EXCEPT !.state = "pending", !.nulls = n, !.exit = "stop"] \in TransferRows
            BY DEF TransferRows, TransferStates, LIVE_STATES, Exits
        <4>2. [r EXCEPT !.state = "pending", !.nulls = n, !.exit = "stop"].state = "pending"
            BY DEF TransferRows
        <4>3. [r EXCEPT !.state = "pending", !.nulls = n, !.exit = "stop"].cancel <=> r.cancel
            BY DEF TransferRows
        <4> QED
            BY <4>1, <4>2, <4>3, Zenon
    <3>5. row' \in [Transfers -> TransferRows] /\ row'[t] = new
        BY <3>3, <3>4 DEF WalletTypeOK
    <3>6. t \in Payments /\ State(t) \in {"unknown", "pending"}
        BY <1>28, <2>2 DEF ObserveUnproven, Evm
    <3>7. ASSUME NEW u \in Transfers PROVE Rests(u) \/ Unproved(u)
        <4>1. CASE u = t
            BY <3>1, <3>4, <3>5, <3>6, <4>1 DEF Unproved
        <4>2. CASE u # t
            BY <3>3, <4>2 DEF Rests, State, WalletTypeOK, ledger
        <4> QED
            BY <4>1, <4>2
    <3> QED
        BY <3>3, <3>5, <3>7 DEF RowsOK, RowMove, WalletTypeOK, ledger
  <2> QED
    BY <2>1, <2>2
<1>29. ASSUME NEW t \in Transfers, ObserveExpiredUnused(t) PROVE RowsOK
    <2>1. MayEnd(t, "failed_on_chain")
        BY <1>29 DEF ObserveExpiredUnused, MayEnd
    <2> QED
        BY <1>29, <2>1, RowMoved DEF ObserveExpiredUnused, TransferStates, LIVE_STATES, SENT_STATES
<1> QED
    BY <1>1, <1>2, <1>3, <1>4, <1>5, <1>6, <1>7, <1>8, <1>9, <1>10, <1>11, <1>12, <1>13, <1>14,
       <1>15, <1>16, <1>17, <1>18, <1>19, <1>20, <1>21, <1>22, <1>23, <1>24, <1>25, <1>26, <1>27, <1>28,
       <1>29
    DEF Next, RequestStep, RequestFails, ResendStep, OwnerStep, Recover, Observe, ReleaseStep

-----------------------------------------------------------------------------
(* What follows for each transfer.                                          *)

\* The collection c, in a state of the ledger, stands as a row in state says.
Tied(state, c) ==
    /\ state = "none" => c.state \in {"unused", "offered", "released"}
    /\ state \in PRE_DISPATCH => c.state = "claimed"
    /\ state \in {"dispatching", "unknown", "pending", "stopped_waiting"} => c.state = "submitted"
    /\ state = "confirmed" => c.state = "confirmed"
    /\ state = "failed_on_chain" => c.state = "failed"
    /\ state \in NEVER_SENT_STATES => c.state = "released"
    /\ state # "rejected"
    /\ state # "none" => c.payment \in Payments

\* What moves along an edge of its lane.
LEMMA EdgeFacts ==
    ASSUME NEW from, NEW to, <<from, to>> \in Edges
    PROVE  /\ from \in SENT_STATES => to \in SENT_STATES
           /\ from \notin SENT_STATES /\ to \in SENT_STATES => from = "signed" /\ to = "dispatching"
           /\ from # "none" /\ to \notin {"none", "claimed", "rejected"}
           /\ from \in PRE_DISPATCH /\ to \notin PRE_DISPATCH => to = "dispatching" \/ to \in NEVER_SENT_STATES
           /\ from \notin PRE_DISPATCH => to \in SENT_STATES \ {"dispatching"}
           /\ to \in PRE_DISPATCH => from \in PRE_DISPATCH
           /\ from \in {"dispatching", "unknown", "pending", "stopped_waiting"} \cup PRE_DISPATCH
BY DEF Edges, AuthorizationOnly, SENT_STATES, PRE_DISPATCH, NEVER_SENT_STATES

\* A collection that follows its transfer stands as the row then says.
LEMMA FollowedTied ==
    ASSUME NEW c \in Collections, collection[c] \in CollectionRows, NEW from, NEW to, <<from, to>> \in Edges,
           Tied(from, collection[c])
    PROVE  Tied(to, FollowedCollection(c, to))
<1>1. /\ FollowedCollection(c, to).payment = collection[c].payment
      /\ FollowedCollection(c, to).state = IF Followed(to) = "unchanged" THEN collection[c].state ELSE Followed(to)
    BY FollowedRow
<1>2. collection[c].payment \in Payments
    BY EdgeFacts DEF Tied
<1>3. Followed(to) = CASE to = "dispatching" -> "submitted"
                       [] to = "confirmed" -> "confirmed"
                       [] to = "failed_on_chain" -> "failed"
                       [] to \in NEVER_SENT_STATES -> "released"
                       [] OTHER -> "unchanged"
    BY DEF Followed, NEVER_SENT_STATES
<1>4. CASE to \in PRE_DISPATCH
    BY <1>1, <1>2, <1>3, <1>4, EdgeFacts DEF Tied, PRE_DISPATCH, NEVER_SENT_STATES
<1>5. CASE to \in NEVER_SENT_STATES
    BY <1>1, <1>2, <1>3, <1>5, EdgeFacts DEF Tied, PRE_DISPATCH, NEVER_SENT_STATES
<1>6. CASE to \in SENT_STATES
    BY <1>1, <1>2, <1>3, <1>6, EdgeFacts DEF Tied, PRE_DISPATCH, NEVER_SENT_STATES, SENT_STATES
<1>7. to \in PRE_DISPATCH \cup NEVER_SENT_STATES \cup SENT_STATES
    BY DEF Edges, AuthorizationOnly, SENT_STATES, PRE_DISPATCH, NEVER_SENT_STATES
<1> QED
    BY <1>4, <1>5, <1>6, <1>7

\* What was sent stays so; what is sent was signed and not flagged; who pays for a
\* collection stays; and ends are the chain's.
LEMMA RowFacts ==
    ASSUME WalletTypeOK, WalletInv, RowsOK, NEW t \in Transfers
    PROVE  /\ State(t) \in SENT_STATES => row'[t].state \in SENT_STATES
           /\ row'[t].state \in SENT_STATES /\ State(t) \notin SENT_STATES =>
                MayEnd(t, "dispatching") /\ State(t) # "none"
           /\ t \in Collections /\ collection[t].payment \in Payments =>
                collection'[t].payment = collection[t].payment
           /\ t \in Collections /\ collection'[t].state # "unused" => collection'[t].amount >= 1
           /\ t \in Collections /\ collection[t].state = "offered" /\ collection'[t].state = "claimed" => CanClaim(t)
           /\ row'[t].cancel => row'[t].state \notin SENT_STATES
           /\ row'[t].state = "confirmed" => net[t] = "ok"
           /\ row'[t].state = "failed_on_chain" => net[t] = "failed" \/ ExpiredUnused(t)
           /\ t \in Collections => Tied(row'[t].state, collection'[t])
<1>1. row[t] \in TransferRows /\ (t \in Collections => collection[t] \in CollectionRows)
    BY DEF WalletTypeOK
<1>2. /\ State(t) = row[t].state
      /\ row[t].cancel => State(t) \notin SENT_STATES
      /\ State(t) = "confirmed" => net[t] = "ok"
      /\ State(t) = "failed_on_chain" => net[t] = "failed" \/ ExpiredUnused(t)
      /\ t \in Collections => Tied(State(t), collection[t])
      /\ t \in Collections /\ collection[t].state # "unused" => collection[t].amount >= 1
    BY DEF WalletInv, AmountsOffered, FlaggedUnsent, EndingsAreTrue, LedgerTied, Tied, State
<1>3. CASE Rests(t)
    BY <1>2, <1>3 DEF Rests, SENT_STATES, PRE_DISPATCH
<1>4. CASE Moved(t)
    <2>1. PICK from \in TransferStates, to \in TransferStates :
             /\ CanMove(t, from, to) /\ MayEnd(t, to)
             /\ row'[t] = MovedRow(t, to)
             /\ t \in Collections => collection'[t] = FollowedCollection(t, to)
        BY <1>4 DEF Moved
    <2>2. /\ State(t) = from /\ <<from, to>> \in Edges
          /\ <<from, to>> = <<"signed", "dispatching">> => ~row[t].cancel
        BY <2>1 DEF CanMove, NoCancel
    <2>3. row'[t].state = to /\ (row'[t].cancel <=> row[t].cancel)
        BY <1>1, <2>1, MovedRowType
    <2>4. t \in Collections => Tied(to, collection'[t])
        BY <1>1, <1>2, <2>1, <2>2, FollowedTied
    <2>5. t \in Collections => /\ collection'[t].payment = collection[t].payment
                               /\ collection'[t].amount = collection[t].amount
                               /\ collection[t].state \notin {"unused", "offered"}
        <3>1. t \in Collections => collection[t].state \notin {"unused", "offered"}
            BY <1>2, <2>2, EdgeFacts DEF Tied, Edges, AuthorizationOnly, PRE_DISPATCH
        <3> QED
            BY <1>1, <2>1, <3>1, FollowedRow
    <2>6. to = "confirmed" => net[t] = "ok"
        BY <2>1 DEF MayEnd
    <2>7. to = "failed_on_chain" => net[t] = "failed" \/ ExpiredUnused(t)
        BY <2>1 DEF MayEnd
    <2> QED
        BY <1>2, <2>1, <2>2, <2>3, <2>4, <2>5, <2>6, <2>7, EdgeFacts
<1>5. CASE Planned(t)
    <2>1. /\ t \in Collections /\ row'[t] = row[t] /\ State(t) = "none"
          /\ collection'[t].state \in {"offered", "released"}
          /\ collection[t].payment # NoPayment => collection'[t].payment = collection[t].payment
          /\ collection'[t].amount >= 1
        BY <1>1, <1>2, <1>5 DEF Planned, OffersSomething, Tied, TransferRows, TransferStates, LIVE_STATES, PRE_DISPATCH, SENT_STATES,
            NEVER_SENT_STATES
    <2> QED
        BY <1>2, <2>1, FeeAssumption DEF Tied, NoPayment, SENT_STATES, PRE_DISPATCH, NEVER_SENT_STATES
<1>6. CASE Claimed(t)
    <2>1. row'[t].state = "claimed" /\ (row'[t].cancel <=> row[t].cancel) /\ State(t) = "none"
        BY <1>1, <1>6 DEF Claimed, TransferRows
    <2>2. t \in Collections => /\ collection'[t].state = "claimed" /\ collection'[t].payment = collection[t].payment
                               /\ collection[t].payment \in Payments /\ collection'[t].amount = collection[t].amount
                               /\ CanClaim(t) /\ collection[t].state = "offered"
        BY <1>1, <1>6 DEF Claimed, CollectionRows
    <2>3. t \in Collections => collection'[t].amount >= 1
        BY <1>2, <2>2
    <2> QED
        BY <2>1, <2>2, <2>3 DEF Tied, SENT_STATES, PRE_DISPATCH, NEVER_SENT_STATES
<1>7. CASE Rejected(t)
    <2>1. t \notin Collections /\ row'[t].state = "rejected" /\ State(t) = "none"
        BY <1>1, <1>7, FeeAssumption DEF Rejected, TransferRows
    <2> QED
        BY <2>1 DEF SENT_STATES
<1>8. CASE Unproved(t)
    <2>1. t \notin Collections /\ row'[t].state = "pending" /\ State(t) \in SENT_STATES /\ ~row'[t].cancel
        BY <1>2, <1>8, FeeAssumption DEF Unproved, SENT_STATES
    <2> QED
        BY <2>1 DEF SENT_STATES
<1>9. RowMove(t)
    BY DEF RowsOK
<1> QED
    BY <1>3, <1>4, <1>5, <1>6, <1>7, <1>8, <1>9 DEF RowMove

-----------------------------------------------------------------------------
(* The chain, the records, and releases, step by step.                      *)

\* What a step may do to the chain and the clocks: bytes reach the chain only from a
\* row that says they left, and what is final stays.
NetKept ==
    /\ lane' = lane /\ expired' \subseteq Payments /\ expired \subseteq expired'
    /\ net' \in [Transfers -> ChainStates]
    /\ \A t \in Transfers : /\ net'[t] # "absent" => net[t] # "absent" \/ State(t) \in SENT_STATES
                            /\ net[t] \in Final => net'[t] = net[t]
                            /\ ExpiredUnused(t) => ExpiredUnused(t)'

\* An effect record is applied only for a confirmed row, and bytes are sent again only
\* from an unknown one.
RecordsKept ==
    /\ effect' \in [Transfers -> Effects] /\ resend' \in [Payments -> Resends]
    /\ \A t \in Transfers : effect'[t] = "applied" => effect[t] = "applied" \/ State(t) = "confirmed"
    /\ \A p \in Payments : resend'[p] # "none" => resend[p] # "none" \/ State(p) = "unknown"

ReleasesTyped == releasing' \subseteq Intents

\* Sending bytes that left.
LEMMA SentNet ==
    ASSUME WalletTypeOK, NEW t \in Transfers, Sent(t), State(t) \in SENT_STATES, lane' = lane, expired' = expired
    PROVE  NetKept
<1>1. PICK reached : /\ reached \in {net[t], IF net[t] = "absent" THEN "flight" ELSE net[t]}
                     /\ net' = [net EXCEPT ![t] = reached]
    BY DEF Sent
<1>2. reached \in ChainStates /\ (net[t] # "absent" => reached = net[t]) /\ reached \in {net[t], "flight"}
    BY <1>1 DEF WalletTypeOK, ChainStates
<1>3. net' \in [Transfers -> ChainStates] /\ net'[t] = reached /\ \A u \in Transfers : u # t => net'[u] = net[u]
    BY <1>1, <1>2 DEF WalletTypeOK
<1>4. ASSUME NEW u \in Transfers, ExpiredUnused(u) PROVE ExpiredUnused(u)'
    <2>1. u \in Payments
        BY <1>4 DEF ExpiredUnused, Authorization
    <2>2. net'[u] \in {"absent", "flight"}
        BY <1>2, <1>3, <1>4 DEF ExpiredUnused
    <2> QED
        BY <1>4, <2>1, <2>2 DEF ExpiredUnused, Authorization, Expired, PaymentOf
<1> QED
    BY <1>2, <1>3, <1>4 DEF NetKept, WalletTypeOK, Final

\* The chain and the clocks.
LEMMA NetStep ==
    ASSUME WalletTypeOK, WalletInv, [Next]_vars
    PROVE  NetKept
<1>1. ASSUME UNCHANGED <<lane, expired, net>> PROVE NetKept
    BY <1>1 DEF NetKept, WalletTypeOK, ExpiredUnused, Authorization, Expired, PaymentOf
<1>2. CASE UNCHANGED vars
    BY <1>1, <1>2 DEF vars, wallet
<1>3. CASE LedgerStep /\ UNCHANGED wallet
    BY <1>1, <1>3 DEF wallet
<1>4. ASSUME NEW c \in Collections, NEW p \in Payments, Bind(c, p) PROVE NetKept
    BY <1>1, <1>4 DEF Bind, wallet
<1>5. ASSUME NEW p \in Payments, Approve(p) \/ Claim(p) \/ ReserveEffect(p) \/ Sign(p) \/ SignLost(p)
      PROVE  NetKept
    BY <1>1, <1>5 DEF Approve, Claim, ReserveEffect, Sign, SignLost
<1>6. ASSUME NEW p \in Payments, MarkDispatched(p) \/ SendGuard(p) \/ GuardRefused(p) \/ SendAnswered(p)
             \/ CompanionNotSent(p)
      PROVE  NetKept
    BY <1>1, <1>6 DEF MarkDispatched, SendGuard, GuardRefused, SendAnswered, CompanionNotSent
<1>7. ASSUME NEW p \in Payments, ClaimRefused(p) \/ SigningFails(p) \/ CredentialRotated(p)
             \/ SendRefused(p) \/ DeliveryRefused(p)
      PROVE  NetKept
    BY <1>1, <1>7 DEF ClaimRefused, SigningFails, CredentialRotated, SendRefused, DeliveryRefused
<1>8. ASSUME NEW p \in Payments, RequestDies(p) \/ claim_resend(p) \/ ResendAnswered(p) \/ ResendDies(p)
      PROVE  NetKept
    BY <1>1, <1>8 DEF RequestDies, claim_resend, ResendAnswered, ResendDies
<1>9. ASSUME NEW p \in Payments, Transmit(p) PROVE NetKept
    <2>1. job[p].sending \in Transfers /\ State(job[p].sending) \in SENT_STATES
        BY <1>9 DEF Transmit, At, WalletInv, RequestsKnown, KnownRequest, WalletTypeOK, Requests
    <2> QED
        BY <1>9, <2>1, SentNet DEF Transmit
<1>10. ASSUME NEW p \in Payments, Deliver(p) PROVE NetKept
    <2>1. p \in Transfers /\ State(p) \in SENT_STATES
        BY <1>10 DEF Deliver, At, WalletInv, RequestsKnown, KnownRequest, Transfers
    <2> QED
        BY <1>10, <2>1, SentNet DEF Deliver
<1>11. ASSUME NEW p \in Payments, ResendTransmit(p) PROVE NetKept
    <2>1. p \in Transfers /\ State(p) \in SENT_STATES
        BY <1>11 DEF ResendTransmit, WalletInv, LeftIsSent, Transfers
    <2> QED
        BY <1>11, <2>1, SentNet DEF ResendTransmit
<1>12. ASSUME NEW p \in Payments, HeightPasses(p) PROVE NetKept
    BY <1>12 DEF HeightPasses, NetKept, WalletTypeOK, ExpiredUnused, Authorization, Expired, PaymentOf
<1>13. ASSUME NEW p \in Payments, NonceUsed(p) PROVE NetKept
    BY <1>13 DEF NonceUsed, NetKept, WalletTypeOK, ExpiredUnused, Authorization, Expired, PaymentOf
<1>14. ASSUME NEW t \in Transfers, RejectUnclaimed(t) \/ FlagCancel(t) \/ owner_stop_waiting(t)
              \/ owner_discard(t) \/ RecoverByRelease(t)
       PROVE  NetKept
    BY <1>1, <1>14 DEF RejectUnclaimed, FlagCancel, owner_stop_waiting, owner_discard, RecoverByRelease
<1>15. ASSUME NEW t \in Transfers, RecoverCrossed(t) \/ RecoverByMove(t) \/ ObserveNull(t)
              \/ ObserveUnplaced(t) \/ ObserveUnsettled(t)
       PROVE  NetKept
    BY <1>1, <1>15 DEF RecoverCrossed, RecoverByMove, ObserveNull, ObserveUnplaced, ObserveUnsettled
<1>16. ASSUME NEW t \in Transfers, ObserveSettled(t) \/ ObserveUnproven(t) \/ ObserveExpiredUnused(t)
              \/ ResolveSettled(t) \/ EffectLeaseExpires(t)
       PROVE  NetKept
    BY <1>1, <1>16 DEF ObserveSettled, ObserveUnproven, ObserveExpiredUnused, ResolveSettled, EffectLeaseExpires
<1>17. ASSUME NEW t \in Transfers, ChainStep(t) PROVE NetKept
    <2>1. PICK next \in ChainNext(t) : net' = [net EXCEPT ![t] = next]
        BY <1>17 DEF ChainStep
    <2>2. /\ next \in ChainStates /\ net[t] \in {"flight", "processed", "erring"}
          /\ net[t] = "flight" => ~Expired(t)
        BY <2>1 DEF ChainNext, ChainStates, Final
    <2>3. lane' = lane /\ expired' = expired
        BY <1>17 DEF ChainStep
    <2>4. net' \in [Transfers -> ChainStates] /\ \A u \in Transfers : u # t => net'[u] = net[u]
        BY <2>1, <2>2 DEF WalletTypeOK
    <2>5. ~ExpiredUnused(t)
        BY <2>2 DEF ExpiredUnused
    <2>6. ASSUME NEW u \in Transfers, ExpiredUnused(u) PROVE ExpiredUnused(u)'
        <3>1. u \in Payments /\ u # t
            BY <2>5, <2>6 DEF ExpiredUnused, Authorization
        <3> QED
            BY <2>3, <2>4, <2>6, <3>1 DEF ExpiredUnused, Authorization, Expired, PaymentOf
    <2> QED
        BY <2>2, <2>3, <2>4, <2>6 DEF NetKept, WalletTypeOK, Final
<1>18. ASSUME NEW i \in releasing, ResolveUnsent(i) \/ FinishRelease(i) \/ DropRelease(i) PROVE NetKept
    BY <1>1, <1>18 DEF ResolveUnsent, FinishRelease, DropRelease
<1> QED
    BY <1>2, <1>3, <1>4, <1>5, <1>6, <1>7, <1>8, <1>9, <1>10, <1>11, <1>12, <1>13, <1>14, <1>15,
       <1>16, <1>17, <1>18
    DEF Next, RequestStep, RequestFails, ResendStep, OwnerStep, Recover, Observe, ReleaseStep

\* The effect records and the owner's resends.
LEMMA RecordStep ==
    ASSUME WalletTypeOK, [Next]_vars
    PROVE  RecordsKept
<1>1. ASSUME UNCHANGED <<effect, resend>> PROVE RecordsKept
    BY <1>1 DEF RecordsKept, WalletTypeOK
<1>2. CASE UNCHANGED vars
    BY <1>1, <1>2 DEF vars, wallet
<1>3. CASE LedgerStep /\ UNCHANGED wallet
    BY <1>1, <1>3 DEF wallet
<1>4. ASSUME NEW c \in Collections, NEW p \in Payments, Bind(c, p) PROVE RecordsKept
    BY <1>1, <1>4 DEF Bind, wallet
<1>5. ASSUME NEW p \in Payments, Approve(p) \/ Claim(p) \/ Sign(p) \/ SignLost(p) \/ SendGuard(p) PROVE RecordsKept
    BY <1>1, <1>5 DEF Approve, Claim, Sign, SignLost, SendGuard
<1>6. ASSUME NEW p \in Payments, GuardRefused(p) \/ Transmit(p) \/ Deliver(p) \/ SendAnswered(p)
             \/ CompanionNotSent(p)
      PROVE  RecordsKept
    BY <1>1, <1>6 DEF GuardRefused, Transmit, Deliver, SendAnswered, CompanionNotSent
<1>7. ASSUME NEW p \in Payments, ClaimRefused(p) \/ SigningFails(p) \/ CredentialRotated(p)
             \/ SendRefused(p) \/ DeliveryRefused(p)
      PROVE  RecordsKept
    BY <1>1, <1>7 DEF ClaimRefused, SigningFails, CredentialRotated, SendRefused, DeliveryRefused
<1>8. ASSUME NEW p \in Payments, RequestDies(p) \/ HeightPasses(p) \/ NonceUsed(p) PROVE RecordsKept
    BY <1>1, <1>8 DEF RequestDies, HeightPasses, NonceUsed
<1>9. ASSUME NEW p \in Payments, ReserveEffect(p) PROVE RecordsKept
    BY <1>9 DEF RecordsKept, ReserveEffect, WalletTypeOK, Effects, Resends, Requests, Evm, Transfers
<1>10. ASSUME NEW p \in Payments, MarkDispatched(p) PROVE RecordsKept
    BY <1>10 DEF RecordsKept, MarkDispatched, WalletTypeOK, Effects, Resends, Requests, Evm, Transfers
<1>11. ASSUME NEW p \in Payments, claim_resend(p) PROVE RecordsKept
    BY <1>11 DEF RecordsKept, claim_resend, WalletTypeOK, Effects, Resends, Requests, Evm, Transfers
<1>12. ASSUME NEW p \in Payments, ResendTransmit(p) PROVE RecordsKept
    BY <1>12 DEF RecordsKept, ResendTransmit, WalletTypeOK, Effects, Resends, Requests, Evm, Transfers
<1>13. ASSUME NEW p \in Payments, ResendAnswered(p) PROVE RecordsKept
    BY <1>13 DEF RecordsKept, ResendAnswered, WalletTypeOK, Effects, Resends, Requests, Evm, Transfers
<1>14. ASSUME NEW p \in Payments, ResendDies(p) PROVE RecordsKept
    BY <1>14 DEF RecordsKept, ResendDies, WalletTypeOK, Effects, Resends, Requests, Evm, Transfers
<1>15. ASSUME NEW t \in Transfers, RejectUnclaimed(t) \/ FlagCancel(t) \/ owner_stop_waiting(t)
              \/ owner_discard(t) \/ RecoverByRelease(t)
       PROVE  RecordsKept
    BY <1>1, <1>15 DEF RejectUnclaimed, FlagCancel, owner_stop_waiting, owner_discard, RecoverByRelease
<1>16. ASSUME NEW t \in Transfers, RecoverCrossed(t) \/ RecoverByMove(t) \/ ObserveNull(t)
              \/ ObserveUnplaced(t) \/ ObserveUnsettled(t)
       PROVE  RecordsKept
    BY <1>1, <1>16 DEF RecoverCrossed, RecoverByMove, ObserveNull, ObserveUnplaced, ObserveUnsettled
<1>17. ASSUME NEW t \in Transfers, ObserveSettled(t) \/ ObserveUnproven(t) \/ ObserveExpiredUnused(t) \/ ChainStep(t)
       PROVE  RecordsKept
    BY <1>1, <1>17 DEF ObserveSettled, ObserveUnproven, ObserveExpiredUnused, ChainStep
<1>18. ASSUME NEW t \in Transfers, ResolveSettled(t) PROVE RecordsKept
    <2>1. resend' = resend
        BY <1>18 DEF ResolveSettled
    <2>2. PICK e \in Effects : effect' = [effect EXCEPT ![t] = e] /\ (e = "applied" => State(t) = "confirmed")
        BY <1>18 DEF ResolveSettled, Effects
    <2> QED
        BY <2>1, <2>2 DEF RecordsKept, WalletTypeOK
<1>19. ASSUME NEW t \in Transfers, EffectLeaseExpires(t) PROVE RecordsKept
    BY <1>19 DEF RecordsKept, EffectLeaseExpires, WalletTypeOK, Effects, Resends, Requests, Evm, Transfers
<1>20. ASSUME NEW i \in releasing, FinishRelease(i) \/ DropRelease(i) PROVE RecordsKept
    BY <1>1, <1>20 DEF FinishRelease, DropRelease
<1>21. ASSUME NEW i \in releasing, ResolveUnsent(i) PROVE RecordsKept
    <2>1. i.t \in Transfers /\ resend' = resend
        BY <1>21 DEF ResolveUnsent, WalletTypeOK, Intents
    <2>2. effect' = effect \/ effect' = [effect EXCEPT ![i.t] = "none"] \/ effect' = [effect EXCEPT ![i.t] = "closed"]
        BY <1>21, <2>1 DEF ResolveUnsent, WalletTypeOK
    <2> QED
        BY <2>1, <2>2 DEF RecordsKept, WalletTypeOK, Effects
<1> QED
    BY <1>2, <1>3, <1>4, <1>5, <1>6, <1>7, <1>8, <1>9, <1>10, <1>11, <1>12, <1>13, <1>14, <1>15,
       <1>16, <1>17, <1>18, <1>19, <1>20, <1>21
    DEF Next, RequestStep, RequestFails, ResendStep, OwnerStep, Recover, Observe, ReleaseStep

\* What is intended of a transfer is a release.
LEMMA Intended ==
    ASSUME NEW t \in Transfers, NEW target \in {"released", "discarded", "cancelled"}, NEW from \in PRE_DISPATCH
    PROVE  Intending(t, target, from) \in Intents
BY DEF Intending, Intents, NEVER_SENT_STATES

\* Releases in hand are releases, to a state never sent from one before dispatch.
LEMMA BegunType ==
    ASSUME WalletTypeOK, NEW wanted, wanted \subseteq Intents
    PROVE  Begun(wanted) \subseteq Intents
BY DEF Begun, WalletTypeOK

\* The releases in hand.
LEMMA ReleaseStepType ==
    ASSUME WalletTypeOK, WalletInv, [Next]_vars
    PROVE  ReleasesTyped
<1>1. ASSUME UNCHANGED <<releasing>> PROVE ReleasesTyped
    BY <1>1 DEF ReleasesTyped, WalletTypeOK
<1>2. CASE UNCHANGED vars
    BY <1>1, <1>2 DEF vars, wallet
<1>3. CASE LedgerStep /\ UNCHANGED wallet
    BY <1>1, <1>3 DEF wallet
<1>4. ASSUME NEW c \in Collections, NEW p \in Payments, Bind(c, p) PROVE ReleasesTyped
    BY <1>1, <1>4 DEF Bind, wallet
<1>5. ASSUME NEW p \in Payments, Approve(p) \/ Claim(p) \/ ReserveEffect(p) \/ Sign(p) \/ MarkDispatched(p)
      PROVE  ReleasesTyped
    BY <1>1, <1>5 DEF Approve, Claim, ReserveEffect, Sign, MarkDispatched
<1>6. ASSUME NEW p \in Payments, SendGuard(p) \/ Transmit(p) \/ Deliver(p) \/ SendAnswered(p) \/ ClaimRefused(p)
      PROVE  ReleasesTyped
    BY <1>1, <1>6 DEF SendGuard, Transmit, Deliver, SendAnswered, ClaimRefused
<1>7. ASSUME NEW p \in Payments, CredentialRotated(p) \/ SendRefused(p) \/ DeliveryRefused(p)
             \/ RequestDies(p) \/ claim_resend(p)
      PROVE  ReleasesTyped
    BY <1>1, <1>7 DEF CredentialRotated, SendRefused, DeliveryRefused, RequestDies, claim_resend
<1>8. ASSUME NEW p \in Payments, ResendTransmit(p) \/ ResendAnswered(p) \/ ResendDies(p)
             \/ HeightPasses(p) \/ NonceUsed(p)
      PROVE  ReleasesTyped
    BY <1>1, <1>8 DEF ResendTransmit, ResendAnswered, ResendDies, HeightPasses, NonceUsed
<1>9. ASSUME NEW p \in Payments, SignLost(p) PROVE ReleasesTyped
    <2>1. Both(p) \subseteq Transfers
        BY DEF Both, Riders, WalletTypeOK, Requests, Transfers
    <2>2. {Intending(t, "released", "claimed") : t \in Both(p)} \subseteq Intents
        BY <2>1, Intended DEF PRE_DISPATCH
    <2>3. {Intending(p, "cancelled", "claimed")} \cup {Intending(c, "released", "claimed") : c \in Riders(p)}
            \subseteq Intents
        BY <2>1, Intended DEF PRE_DISPATCH, Both
    <2>4. \/ ReleaseBoth(p)
          \/ releasing' = Begun({Intending(p, "cancelled", "claimed")}
                                \cup {Intending(c, "released", "claimed") : c \in Riders(p)})
        BY <1>9 DEF SignLost
    <2> QED
        BY <2>2, <2>3, <2>4, BegunType DEF ReleaseBoth, ReleasesTyped
<1>10. ASSUME NEW p \in Payments, GuardRefused(p) PROVE ReleasesTyped
    <2>1. {Intending(job[p].sending, "cancelled", "signed")} \subseteq Intents
        BY Intended DEF PRE_DISPATCH, WalletTypeOK, Requests
    <2>2. releasing' = releasing \/ releasing' = Begun({Intending(job[p].sending, "cancelled", "signed")})
        BY <1>10 DEF GuardRefused
    <2> QED
        BY <2>1, <2>2, BegunType DEF ReleasesTyped, WalletTypeOK
<1>11. ASSUME NEW p \in Payments, CompanionNotSent(p) PROVE ReleasesTyped
    <2>1. job[p].comp \in Transfers
        BY <1>11 DEF CompanionNotSent, At, WalletInv, RequestsKnown, KnownRequest, WalletTypeOK, Requests, Transfers
    <2>2. Intending(job[p].comp, "released", "signed_revoked") \in Intents
        BY <2>1, Intended DEF PRE_DISPATCH
    <2> QED
        BY <1>11, <2>2 DEF CompanionNotSent, ReleasesTyped, WalletTypeOK
<1>12. ASSUME NEW p \in Payments, SigningFails(p) PROVE ReleasesTyped
    <2>1. Both(p) \subseteq Transfers
        BY DEF Both, Riders, WalletTypeOK, Requests, Transfers
    <2>2. {Intending(t, "released", "claimed") : t \in Both(p)} \subseteq Intents
        BY <2>1, Intended DEF PRE_DISPATCH
    <2> QED
        BY <1>12, <2>2, BegunType DEF SigningFails, ReleaseBoth, ReleasesTyped
<1>13. ASSUME NEW t \in Transfers, RejectUnclaimed(t) \/ owner_stop_waiting(t) \/ RecoverByMove(t)
              \/ ObserveNull(t) \/ ObserveUnplaced(t)
       PROVE  ReleasesTyped
    BY <1>1, <1>13 DEF RejectUnclaimed, owner_stop_waiting, RecoverByMove, ObserveNull, ObserveUnplaced
<1>14. ASSUME NEW t \in Transfers, ObserveUnsettled(t) \/ ObserveSettled(t) \/ ObserveUnproven(t)
              \/ ObserveExpiredUnused(t) \/ ResolveSettled(t)
       PROVE  ReleasesTyped
    BY <1>1, <1>14 DEF ObserveUnsettled, ObserveSettled, ObserveUnproven, ObserveExpiredUnused, ResolveSettled
<1>15. ASSUME NEW t \in Transfers, EffectLeaseExpires(t) \/ ChainStep(t) PROVE ReleasesTyped
    BY <1>1, <1>15 DEF EffectLeaseExpires, ChainStep
<1>16. ASSUME NEW t \in Transfers, FlagCancel(t) PROVE ReleasesTyped
    <2>1. {Intending(t, "cancelled", State(t))} \subseteq Intents
        BY <1>16, Intended DEF FlagCancel
    <2>2. releasing' = releasing \/ releasing' = Begun({Intending(t, "cancelled", State(t))})
        BY <1>16 DEF FlagCancel
    <2> QED
        BY <2>1, <2>2, BegunType DEF ReleasesTyped, WalletTypeOK
<1>17. ASSUME NEW t \in Transfers, owner_discard(t) PROVE ReleasesTyped
    BY <1>17, Intended DEF owner_discard, Begin, ReleasesTyped, WalletTypeOK, PRE_DISPATCH
<1>18. ASSUME NEW t \in Transfers, RecoverByRelease(t) PROVE ReleasesTyped
    <2>1. \E target \in {"released", "discarded", "cancelled"}, from \in PRE_DISPATCH : Begin(t, target, from)
        BY <1>18 DEF RecoverByRelease, PRE_DISPATCH
    <2> QED
        BY <2>1, Intended DEF Begin, ReleasesTyped, WalletTypeOK
<1>19. ASSUME NEW t \in Transfers, RecoverCrossed(t) PROVE ReleasesTyped
    BY <1>19, Intended DEF RecoverCrossed, Begin, ReleasesTyped, WalletTypeOK, PRE_DISPATCH
<1>20. ASSUME NEW i \in releasing, ResolveUnsent(i) PROVE ReleasesTyped
    <2>1. PICK r \in Intents : r = i
        BY DEF WalletTypeOK
    <2>2. [r EXCEPT !.resolved = TRUE] \in Intents
        BY DEF Intents
    <2>3. releasing' \subseteq releasing \cup {[r EXCEPT !.resolved = TRUE]}
        BY <1>20, <2>1 DEF ResolveUnsent
    <2> QED
        BY <2>2, <2>3 DEF ReleasesTyped, WalletTypeOK
<1>21. ASSUME NEW i \in releasing, FinishRelease(i) PROVE ReleasesTyped
    BY <1>21 DEF FinishRelease, ReleasesTyped, WalletTypeOK
<1>22. ASSUME NEW i \in releasing, DropRelease(i) PROVE ReleasesTyped
    BY <1>22 DEF DropRelease, ReleasesTyped, WalletTypeOK
<1> QED
    BY <1>2, <1>3, <1>4, <1>5, <1>6, <1>7, <1>8, <1>9, <1>10, <1>11, <1>12, <1>13, <1>14, <1>15,
       <1>16, <1>17, <1>18, <1>19, <1>20, <1>21, <1>22
    DEF Next, RequestStep, RequestFails, ResendStep, OwnerStep, Recover, Observe, ReleaseStep

-----------------------------------------------------------------------------
(* The approving requests, step by step.                                    *)

\* The requests keep their type, and send what they may.
JobsKept == job' \in [Payments -> Requests] /\ RequestsKnown'

\* A request as it is left, when the rows and the ledger move as they may.
LEMMA RequestKept ==
    ASSUME WalletTypeOK, WalletInv, RowsOK, NEW q \in Payments, job'[q] = job[q]
    PROVE  KnownRequest(q)'
<1>1. KnownRequest(q) /\ job[q] \in Requests
    BY DEF WalletInv, RequestsKnown, WalletTypeOK
<1>2. job[q].comp # NoTransfer => /\ job[q].comp \in Collections
                                  /\ collection'[job[q].comp].payment = q
    BY <1>1, RowFacts DEF KnownRequest, Requests, Transfers
<1>3. job[q].sending \in Transfers /\ q \in Transfers
    BY <1>1 DEF Requests, Transfers
<1>4. /\ State(job[q].sending) \in SENT_STATES => State(job[q].sending)' \in SENT_STATES
      /\ State(q) \in SENT_STATES => State(q)' \in SENT_STATES
    BY <1>3, RowFacts DEF State
<1> QED
    BY <1>1, <1>2, <1>4 DEF KnownRequest, Both, Riders, At

\* No request moves.
LEMMA JobRests == ASSUME WalletTypeOK, WalletInv, RowsOK, job' = job PROVE JobsKept
BY RequestKept DEF JobsKept, RequestsKnown, WalletTypeOK

\* One request moves to what it may be.
LEMMA JobMoves ==
    ASSUME WalletTypeOK, WalletInv, RowsOK, NEW p \in Payments, NEW new \in Requests,
           job' = [job EXCEPT ![p] = new], KnownRequest(p)'
    PROVE  JobsKept
<1>1. job' \in [Payments -> Requests] /\ \A q \in Payments : q # p => job'[q] = job[q]
    BY DEF WalletTypeOK
<1>2. ASSUME NEW q \in Payments PROVE KnownRequest(q)'
    BY <1>1, RequestKept
<1> QED
    BY <1>1, <1>2 DEF JobsKept, RequestsKnown

\* A request is over, or waits for another approval.
LEMMA JobAwaits ==
    ASSUME WalletTypeOK, WalletInv, RowsOK, NEW p \in Payments, NEW place \in {"idle", "done"},
           job' = [job EXCEPT ![p] = Awaiting(p, place)]
    PROVE  JobsKept
<1>1. Awaiting(p, place) \in Requests
    BY DEF Awaiting, Requests, Places, Transfers
<1>2. job'[p] = Awaiting(p, place)
    BY DEF WalletTypeOK
<1>3. KnownRequest(p)'
    BY <1>2 DEF KnownRequest, Awaiting, Both, Riders, At
<1> QED
    BY <1>1, <1>3, JobMoves

\* A request goes on, with its payment or its collection.
LEMMA JobGoesOn ==
    ASSUME WalletTypeOK, WalletInv, RowsOK, NEW p \in Payments, NEW place \in Places, NEW sending \in Both(p),
           job' = [job EXCEPT ![p] = [job[p] EXCEPT !.at = place, !.sending = sending]],
           place = "sign" => sending = p,
           place = "unsent" => job[p].comp # NoTransfer,
           place \in {"transmit", "answer"} => row'[sending].state \in SENT_STATES,
           place \in {"send", "guard", "transmit", "answer"} /\ sending # p => row'[p].state \in SENT_STATES
    PROVE  JobsKept
<1>1. PICK j \in Requests : j = job[p]
    BY DEF WalletTypeOK
<1>2. sending \in Transfers
    BY <1>1 DEF Both, Riders, Transfers, Requests
<1>3. PICK new \in Requests : /\ new = [j EXCEPT !.at = place, !.sending = sending]
                              /\ new.at = place /\ new.sending = sending /\ new.comp = j.comp
    <2>1. [j EXCEPT !.at = place, !.sending = sending] \in Requests
        BY <1>2 DEF Requests
    <2>2. /\ [j EXCEPT !.at = place, !.sending = sending].at = place
          /\ [j EXCEPT !.at = place, !.sending = sending].sending = sending
          /\ [j EXCEPT !.at = place, !.sending = sending].comp = j.comp
        BY DEF Requests
    <2> QED
        BY <2>1, <2>2, Zenon
<1>4. job' = [job EXCEPT ![p] = new] /\ job'[p] = new
    BY <1>1, <1>3 DEF WalletTypeOK
<1>5. new.comp # NoTransfer => collection'[new.comp].payment = p
    <2>1. SUFFICES ASSUME j.comp # NoTransfer PROVE collection'[j.comp].payment = p
        BY <1>3
    <2>2. j.comp \in Collections /\ collection[j.comp].payment = p
        BY <1>1, <2>1 DEF WalletInv, RequestsKnown, KnownRequest, Requests
    <2> QED
        BY <2>2, RowFacts DEF Transfers
<1>6. Both(p)' = Both(p)
    BY <1>1, <1>3, <1>4 DEF Both, Riders
<1>7. KnownRequest(p)'
    BY <1>1, <1>3, <1>4, <1>5, <1>6 DEF KnownRequest, At, State
<1> QED
    BY <1>4, <1>7, JobMoves

\* A request goes to its next place.
LEMMA JobGoes ==
    ASSUME WalletTypeOK, WalletInv, RowsOK, NEW p \in Payments, NEW place \in Places, Goto(p, place),
           place = "sign" => job[p].sending = p,
           place = "unsent" => job[p].comp # NoTransfer,
           place \in {"transmit", "answer"} => row'[job[p].sending].state \in SENT_STATES,
           place \in {"send", "guard", "transmit", "answer"} /\ job[p].sending # p => row'[p].state \in SENT_STATES
    PROVE  JobsKept
<1>1. PICK j \in Requests : j = job[p]
    BY DEF WalletTypeOK
<1>2. [j EXCEPT !.at = place] = [j EXCEPT !.at = place, !.sending = j.sending]
    BY DEF Requests
<1>3. job' = [job EXCEPT ![p] = [job[p] EXCEPT !.at = place, !.sending = job[p].sending]]
    BY <1>1, <1>2 DEF Goto
<1>4. job[p].sending \in Both(p)
    BY DEF WalletInv, RequestsKnown, KnownRequest
<1> QED
    BY <1>3, <1>4, JobGoesOn

\* A request that gives up what it was to send.
LEMMA JobGivesUp ==
    ASSUME WalletTypeOK, WalletInv, RowsOK, NEW p \in Payments, NotSent(p)
    PROVE  JobsKept
<1>1. CASE Riders(p) = {}
    BY <1>1, JobAwaits DEF NotSent, Ended
<1>2. CASE Riders(p) # {}
    <2>1. job[p].comp # NoTransfer /\ Goto(p, "unsent")
        BY <1>2 DEF NotSent, Riders
    <2> QED
        BY <2>1, JobGoes DEF Places
<1> QED
    BY <1>1, <1>2

\* What a request has sent, or carries, stays sent.
LEMMA StaysSent ==
    ASSUME WalletTypeOK, WalletInv, RowsOK, NEW p \in Payments
    PROVE  /\ job[p].at \in {"transmit", "answer"} => row'[job[p].sending].state \in SENT_STATES
           /\ job[p].at \in {"send", "guard", "transmit", "answer"} /\ job[p].sending # p =>
                row'[p].state \in SENT_STATES
<1>1. KnownRequest(p) /\ job[p].sending \in Transfers /\ p \in Transfers
    BY DEF WalletInv, RequestsKnown, WalletTypeOK, Requests, Transfers
<1> QED
    BY <1>1, RowFacts DEF KnownRequest

\* The owner approves: the quote names the collection planned with the payment, if any.
LEMMA JobApproves == ASSUME WalletTypeOK, WalletInv, RowsOK, NEW p \in Payments, Approve(p) PROVE JobsKept
<1>1. PICK comp \in {NoTransfer} \cup {c \in In({"offered"}) : collection[c].payment = p /\ ~collection[c].lapsed} :
        job' = [job EXCEPT ![p] = [at |-> "claim", comp |-> comp, sending |-> p]]
    BY DEF Approve
<1>2. comp # NoTransfer => comp \in Collections /\ collection[comp].payment = p
    BY <1>1 DEF In
<1>3. comp # NoTransfer => collection'[comp].payment = p
    BY <1>2, RowFacts DEF Transfers
<1>4. PICK new \in Requests : new = [at |-> "claim", comp |-> comp, sending |-> p]
    BY <1>2 DEF Requests, Places, Transfers
<1>5. job'[p] = new
    BY <1>1, <1>4 DEF WalletTypeOK
<1>6. KnownRequest(p)'
    BY <1>3, <1>4, <1>5 DEF KnownRequest, Both, Riders, At
<1> QED
    BY <1>1, <1>4, <1>6, JobMoves

\* Its effects are reserved, first the payment's.
LEMMA JobReserves == ASSUME WalletTypeOK, WalletInv, RowsOK, NEW p \in Payments, ReserveEffect(p) PROVE JobsKept
<1>1. CASE job[p].sending = p /\ Riders(p) # {}
    <2>1. PICK j \in Requests : j = job[p]
        BY DEF WalletTypeOK
    <2>2. j.at = "reserve" /\ j.comp \in Both(p)
        BY <1>1, <2>1 DEF ReserveEffect, At, Both, Riders
    <2>3. [j EXCEPT !.sending = j.comp] = [j EXCEPT !.at = "reserve", !.sending = j.comp]
        BY <2>2 DEF Requests
    <2>4. job' = [job EXCEPT ![p] = [job[p] EXCEPT !.at = "reserve", !.sending = job[p].comp]]
        BY <1>1, <2>1, <2>3 DEF ReserveEffect
    <2> QED
        BY <2>1, <2>2, <2>4, JobGoesOn DEF Places
<1>2. CASE ~(job[p].sending = p /\ Riders(p) # {})
    <2>1. job' = [job EXCEPT ![p] = [job[p] EXCEPT !.at = "sign", !.sending = p]]
        <3>1. PICK j \in Requests : j = job[p]
            BY DEF WalletTypeOK
        <3>2. [j EXCEPT !.sending = p, !.at = "sign"] = [j EXCEPT !.at = "sign", !.sending = p]
            BY DEF Requests
        <3> QED
            BY <1>2, <3>1, <3>2 DEF ReserveEffect
    <2>2. p \in Both(p)
        BY DEF Both
    <2> QED
        BY <2>1, <2>2, JobGoesOn DEF Places
<1> QED
    BY <1>1, <1>2

\* A claimed record is behind the guard; another gives the transfer up.
LEMMA JobMarks == ASSUME WalletTypeOK, WalletInv, RowsOK, NEW p \in Payments, MarkDispatched(p) PROVE JobsKept
<1>1. job[p].at = "send" /\ (Goto(p, "guard") \/ NotSent(p))
    BY DEF MarkDispatched, At
<1> QED
    BY <1>1, JobGoes, JobGivesUp, StaysSent DEF Places

\* What the guard has let through is dispatching.
LEMMA JobGuarded == ASSUME WalletTypeOK, WalletInv, RowsOK, NEW p \in Payments, SendGuard(p) PROVE JobsKept
<1>1. job[p].at = "guard" /\ Goto(p, "transmit") /\ Move(job[p].sending, "signed", "dispatching")
    BY DEF SendGuard, At
<1>2. PICK t \in Transfers : t = job[p].sending
    BY DEF WalletTypeOK, Requests
<1>3. row'[t] = MovedRow(t, "dispatching")
    BY <1>1, <1>2 DEF Move, MoveAll
<1>4. row'[t].state \in SENT_STATES
    BY <1>3, MovedRowType DEF WalletTypeOK, SENT_STATES, TransferStates
<1> QED
    BY <1>1, <1>2, <1>4, JobGoes, StaysSent DEF Places

\* An answer: the collection's turn, after the payment left.
LEMMA JobAnswered == ASSUME WalletTypeOK, WalletInv, RowsOK, NEW p \in Payments, SendAnswered(p) PROVE JobsKept
<1>1. job[p].at = "answer"
    BY DEF SendAnswered, At
<1>2. CASE Ended(p)
    BY <1>2, JobAwaits DEF Ended
<1>3. CASE /\ job[p].sending = p /\ Riders(p) # {}
           /\ job' = [job EXCEPT ![p].at = "send", ![p].sending = job[p].comp]
    <2>1. PICK j \in Requests, c \in Transfers : j = job[p] /\ c = j.comp /\ c \in Both(p)
        BY <1>3 DEF WalletTypeOK, Requests, Riders, Both, Transfers
    <2>2. job' = [job EXCEPT ![p] = [job[p] EXCEPT !.at = "send", !.sending = c]]
        BY <1>3, <2>1 DEF WalletTypeOK, Requests
    <2>3. row'[p].state \in SENT_STATES
        BY <1>1, <1>3, StaysSent
    <2> QED
        BY <2>1, <2>2, <2>3, JobGoesOn DEF Places
<1> QED
    BY <1>2, <1>3 DEF SendAnswered

\* The requests.
LEMMA JobStep == ASSUME WalletTypeOK, WalletInv, [Next]_vars PROVE JobsKept
<1>0. RowsOK
    BY RowStep
<1>1. CASE UNCHANGED job
    BY <1>0, <1>1, JobRests
<1>2. CASE UNCHANGED vars
    BY <1>1, <1>2 DEF vars, wallet
<1>3. CASE LedgerStep /\ UNCHANGED wallet
    BY <1>1, <1>3 DEF wallet
<1>4. ASSUME NEW c \in Collections, NEW p \in Payments, Bind(c, p) PROVE JobsKept
    BY <1>1, <1>4 DEF Bind, wallet
<1>5. ASSUME NEW p \in Payments, claim_resend(p) \/ ResendTransmit(p) \/ ResendAnswered(p)
             \/ ResendDies(p) \/ HeightPasses(p)
      PROVE  JobsKept
    BY <1>1, <1>5 DEF claim_resend, ResendTransmit, ResendAnswered, ResendDies, HeightPasses
<1>6. ASSUME NEW p \in Payments, NonceUsed(p) PROVE JobsKept
    BY <1>1, <1>6 DEF NonceUsed
<1>7. ASSUME NEW p \in Payments, Approve(p) PROVE JobsKept
    BY <1>0, <1>7, JobApproves
<1>8. ASSUME NEW p \in Payments, Claim(p) PROVE JobsKept
    BY <1>0, <1>8, JobGoes DEF Claim, Places
<1>9. ASSUME NEW p \in Payments, ReserveEffect(p) PROVE JobsKept
    BY <1>0, <1>9, JobReserves
<1>10. ASSUME NEW p \in Payments, Sign(p) PROVE JobsKept
    <2>1. job[p].sending = p
        BY <1>0, <1>10 DEF Sign, At, WalletInv, RequestsKnown, KnownRequest
    <2> QED
        BY <1>0, <1>10, <2>1, JobGoes DEF Sign, Places
<1>11. ASSUME NEW p \in Payments, SignLost(p) PROVE JobsKept
    BY <1>0, <1>11, JobAwaits DEF SignLost, Ended
<1>12. ASSUME NEW p \in Payments, MarkDispatched(p) PROVE JobsKept
    BY <1>0, <1>12, JobMarks
<1>13. ASSUME NEW p \in Payments, SendGuard(p) PROVE JobsKept
    BY <1>0, <1>13, JobGuarded
<1>14. ASSUME NEW p \in Payments, GuardRefused(p) PROVE JobsKept
    BY <1>0, <1>14, JobGivesUp DEF GuardRefused
<1>15. ASSUME NEW p \in Payments, Transmit(p) PROVE JobsKept
    BY <1>0, <1>15, JobGoes, StaysSent DEF Transmit, At, Places
<1>16. ASSUME NEW p \in Payments, Deliver(p) PROVE JobsKept
    BY <1>0, <1>16, JobGoes, StaysSent DEF Deliver, At, Places
<1>17. ASSUME NEW p \in Payments, SendAnswered(p) PROVE JobsKept
    BY <1>0, <1>17, JobAnswered
<1>18. ASSUME NEW p \in Payments, CompanionNotSent(p) PROVE JobsKept
    BY <1>0, <1>18, JobAwaits DEF CompanionNotSent, Ended
<1>19. ASSUME NEW p \in Payments, ClaimRefused(p) PROVE JobsKept
    BY <1>0, <1>19, JobAwaits DEF ClaimRefused
<1>20. ASSUME NEW p \in Payments, SigningFails(p) PROVE JobsKept
    BY <1>0, <1>20, JobAwaits DEF SigningFails, Ended
<1>21. ASSUME NEW p \in Payments, CredentialRotated(p) PROVE JobsKept
    BY <1>0, <1>21, JobAwaits DEF CredentialRotated, Ended
<1>22. ASSUME NEW p \in Payments, SendRefused(p) PROVE JobsKept
    BY <1>0, <1>22, JobGivesUp DEF SendRefused
<1>23. ASSUME NEW p \in Payments, DeliveryRefused(p) PROVE JobsKept
    BY <1>0, <1>23, JobAwaits DEF DeliveryRefused, Ended
<1>24. ASSUME NEW p \in Payments, RequestDies(p) PROVE JobsKept
    BY <1>0, <1>24, JobAwaits DEF RequestDies, Ended
<1>25. ASSUME NEW t \in Transfers, RejectUnclaimed(t) \/ FlagCancel(t) \/ owner_stop_waiting(t)
              \/ owner_discard(t) \/ RecoverByRelease(t)
       PROVE  JobsKept
    BY <1>1, <1>25 DEF RejectUnclaimed, FlagCancel, owner_stop_waiting, owner_discard, RecoverByRelease
<1>26. ASSUME NEW t \in Transfers, RecoverCrossed(t) \/ RecoverByMove(t) \/ ObserveNull(t)
              \/ ObserveUnplaced(t) \/ ObserveUnsettled(t)
       PROVE  JobsKept
    BY <1>1, <1>26 DEF RecoverCrossed, RecoverByMove, ObserveNull, ObserveUnplaced, ObserveUnsettled
<1>27. ASSUME NEW t \in Transfers, ObserveSettled(t) \/ ObserveUnproven(t) \/ ObserveExpiredUnused(t)
              \/ ResolveSettled(t) \/ EffectLeaseExpires(t)
       PROVE  JobsKept
    BY <1>1, <1>27 DEF ObserveSettled, ObserveUnproven, ObserveExpiredUnused, ResolveSettled, EffectLeaseExpires
<1>28. ASSUME NEW t \in Transfers, ChainStep(t) PROVE JobsKept
    BY <1>1, <1>28 DEF ChainStep
<1>29. ASSUME NEW i \in releasing, ResolveUnsent(i) \/ FinishRelease(i) \/ DropRelease(i) PROVE JobsKept
    BY <1>1, <1>29 DEF ResolveUnsent, FinishRelease, DropRelease
<1> QED
    BY <1>2, <1>3, <1>4, <1>5, <1>6, <1>7, <1>8, <1>9, <1>10, <1>11, <1>12, <1>13, <1>14, <1>15,
       <1>16, <1>17, <1>18, <1>19, <1>20, <1>21, <1>22, <1>23, <1>24, <1>25, <1>26, <1>27, <1>28, <1>29
    DEF Next, RequestStep, RequestFails, ResendStep, OwnerStep, Recover, Observe, ReleaseStep

-----------------------------------------------------------------------------
(* The invariant is inductive.                                              *)

\* At the start nothing is planned, approved, or sent.
LEMMA WalletStart == ASSUME Init PROVE WalletTypeOK /\ WalletInv
<1>1. WalletTypeOK
    <2>1. [accrued |-> FALSE, refunded |-> 0] \in DebtRows
        BY FeeAssumption DEF DebtRows
    <2>2. NoCollection \in CollectionRows
        BY DEF NoCollection, CollectionRows, CollectionStates, OPEN_COLLECTION_STATES
    <2>3. [state |-> "none", cancel |-> FALSE, nulls |-> 0, exit |-> "none"] \in TransferRows
        BY DEF TransferRows, TransferStates, Exits
    <2>4. \A p \in Payments : Awaiting(p, "idle") \in Requests
        BY DEF Awaiting, Requests, Places, Transfers
    <2> QED
        BY <2>1, <2>2, <2>3, <2>4 DEF Init, LedgerInit, WalletTypeOK, Resends, Effects, ChainStates
<1>2. \A t \in Transfers : State(t) = "none" /\ ~row[t].cancel /\ net[t] = "absent" /\ effect[t] = "none"
    BY DEF Init, State
<1>3. LedgerTied /\ AmountsOffered
    <2>1. ASSUME NEW c \in Collections PROVE State(c) = "none" /\ collection[c].state = "unused"
        BY <1>2 DEF Init, LedgerInit, NoCollection, Transfers
    <2> QED
        BY <2>1 DEF LedgerTied, AmountsOffered, PRE_DISPATCH, NEVER_SENT_STATES
<1>4. RequestsKnown
    BY DEF Init, RequestsKnown, KnownRequest, Awaiting, Both, Riders, At
<1>5. LeftIsSent /\ FlaggedUnsent /\ EndingsAreTrue
    BY <1>2 DEF Init, LeftIsSent, FlaggedUnsent, EndingsAreTrue
<1>6. CompanionFollows
    BY <1>2 DEF CompanionFollows, Transfers, SENT_STATES
<1> QED
    BY <1>1, <1>3, <1>4, <1>5, <1>6 DEF WalletInv

\* The types are kept.
LEMMA TypeStep == ASSUME WalletTypeOK, WalletInv, [Next]_vars PROVE WalletTypeOK'
<1>1. RowsOK /\ NetKept /\ RecordsKept /\ ReleasesTyped /\ JobsKept
    BY RowStep, NetStep, RecordStep, ReleaseStepType, JobStep
<1>2. Intents' = Intents
    BY DEF Intents
<1> QED
    BY <1>1, <1>2 DEF RowsOK, NetKept, RecordsKept, ReleasesTyped, JobsKept, WalletTypeOK

\* The collections stay tied to the rows of their transfers, and are for something.
LEMMA TiedStep == ASSUME WalletTypeOK, WalletInv, [Next]_vars PROVE LedgerTied' /\ AmountsOffered'
<1>1. ASSUME NEW c \in Collections
      PROVE  /\ Tied(row'[c].state, collection'[c])
             /\ collection'[c].state # "unused" => collection'[c].amount >= 1
    BY RowStep, RowFacts DEF Transfers
<1> QED
    BY <1>1 DEF LedgerTied, AmountsOffered, Tied, State

\* What is out, or being sent again, stays sent; what is flagged stays in.
LEMMA SentStep == ASSUME WalletTypeOK, WalletInv, [Next]_vars PROVE LeftIsSent' /\ FlaggedUnsent'
<1>1. NetKept /\ RecordsKept /\ RowsOK
    BY RowStep, NetStep, RecordStep
<1>2. ASSUME NEW t \in Transfers, net'[t] # "absent" PROVE row'[t].state \in SENT_STATES
    BY <1>1, <1>2, RowFacts DEF NetKept, WalletInv, LeftIsSent
<1>3. ASSUME NEW p \in Payments, resend'[p] # "none" PROVE row'[p].state \in SENT_STATES
    BY <1>1, <1>3, RowFacts DEF RecordsKept, WalletInv, LeftIsSent, Transfers, SENT_STATES
<1>4. ASSUME NEW t \in Transfers, row'[t].cancel PROVE row'[t].state \notin SENT_STATES
    BY <1>1, <1>4, RowFacts
<1> QED
    BY <1>2, <1>3, <1>4 DEF LeftIsSent, FlaggedUnsent, State

\* What has ended has ended as the chain has it, for good.
LEMMA EndingsStep == ASSUME WalletTypeOK, WalletInv, [Next]_vars PROVE EndingsAreTrue'
<1>1. NetKept /\ RecordsKept /\ RowsOK
    BY RowStep, NetStep, RecordStep
<1>2. ASSUME NEW t \in Transfers
      PROVE  /\ row'[t].state = "confirmed" => net'[t] = "ok"
             /\ row'[t].state = "failed_on_chain" => net'[t] = "failed" \/ ExpiredUnused(t)'
             /\ effect'[t] = "applied" => net'[t] = "ok"
    <2>1. /\ net[t] \in {"ok", "failed"} => net'[t] = net[t]
          /\ ExpiredUnused(t) => ExpiredUnused(t)'
          /\ effect'[t] = "applied" => effect[t] = "applied" \/ State(t) = "confirmed"
        BY <1>1 DEF NetKept, RecordsKept, Final
    <2>2. effect'[t] = "applied" => net[t] = "ok"
        BY <2>1 DEF WalletInv, EndingsAreTrue
    <2> QED
        BY <1>1, <2>1, <2>2, RowFacts
<1> QED
    BY <1>2 DEF EndingsAreTrue, State

\* A collection is sent once its payment is, and its payment stays what it was.
LEMMA CompanionStep == ASSUME WalletTypeOK, WalletInv, [Next]_vars PROVE CompanionFollows'
<1>1. RowsOK
    BY RowStep
<1>2. SUFFICES ASSUME NEW c \in Collections, row'[c].state \in SENT_STATES
               PROVE  row'[collection'[c].payment].state \in SENT_STATES
    BY FeeAssumption DEF CompanionFollows, State, PaymentOf
<1>3. c \in Transfers /\ PaymentOf(c) = collection[c].payment
    BY FeeAssumption DEF Transfers, PaymentOf
<1>4. State(c) # "none" /\ State(PaymentOf(c)) \in SENT_STATES
    <2>1. CASE State(c) \in SENT_STATES
        BY <2>1 DEF WalletInv, CompanionFollows, SENT_STATES
    <2>2. CASE State(c) \notin SENT_STATES
        BY <1>1, <1>2, <1>3, <2>2, RowFacts DEF MayEnd
    <2> QED
        BY <2>1, <2>2
<1>5. collection[c].payment \in Payments
    BY <1>4 DEF WalletInv, LedgerTied
<1>6. collection'[c].payment = collection[c].payment
    BY <1>1, <1>3, <1>5, RowFacts
<1> QED
    BY <1>1, <1>3, <1>4, <1>5, <1>6, RowFacts DEF Transfers

\* Every step keeps the invariant.
LEMMA WalletStep == ASSUME WalletTypeOK, WalletInv, [Next]_vars PROVE WalletTypeOK' /\ WalletInv'
<1>1. RequestsKnown'
    BY JobStep DEF JobsKept
<1> QED
    BY <1>1, TypeStep, TiedStep, SentStep, EndingsStep, CompanionStep DEF WalletInv

\* The types and the invariant hold throughout.
LEMMA WalletInductive == Spec => [](WalletTypeOK /\ WalletInv)
<1>1. Init => WalletTypeOK /\ WalletInv
    BY WalletStart
<1>2. (WalletTypeOK /\ WalletInv) /\ [Next]_vars => (WalletTypeOK /\ WalletInv)'
    BY WalletStep
<1> QED
    BY <1>1, <1>2, PTL DEF Spec

-----------------------------------------------------------------------------
(* What may move, and what is owed.                                         *)

\* What moved its amount, or still may, has left, and did not fail.
LEMMA MayMoveIsOut ==
    ASSUME WalletTypeOK, WalletInv, NEW t \in Transfers, MayMove(t)
    PROVE  State(t) \in SENT_STATES \ {"failed_on_chain"}
<1>1. State(t) \in SENT_STATES
    <2>1. CASE net[t] # "absent"
        BY <2>1 DEF WalletInv, LeftIsSent
    <2>2. CASE Leaving(t)
        BY <2>2 DEF Leaving, At, WalletInv, LeftIsSent, RequestsKnown, KnownRequest
    <2> QED
        BY <2>1, <2>2 DEF MayMove
<1>2. State(t) # "failed_on_chain"
    BY DEF WalletInv, EndingsAreTrue, ExpiredUnused, MayMove
<1> QED
    BY <1>1, <1>2

\* Whole units of a numerator are worth no more than it, whatever the scale.
LEMMA WholeUnits ==
    ASSUME NEW numerator \in Int, NEW units \in Nat, units >= 1, units <= whole_atomic(numerator)
    PROVE  units * Scale <= numerator
<1> DEFINE whole == numerator \div Scale
<1>1. numerator >= 0 /\ units <= whole
    BY FeeAssumption DEF whole_atomic
<1>2. whole \in Nat /\ Scale \in Nat /\ whole * Scale <= numerator
    BY <1>1, FeeAssumption
<1> HIDE DEF whole
<1>3. whole = units + (whole - units) /\ whole - units \in Nat
    BY <1>1, <1>2
<1>4. PICK more \in Nat : whole = units + more
    BY <1>3
<1>5. (units + more) * Scale = units * Scale + more * Scale
    BY <1>2
<1>6. more * Scale \in Nat /\ units * Scale \in Nat
    BY <1>2
<1> QED
    BY <1>2, <1>4, <1>5, <1>6

\* The position of the ledger is made of numbers.
LEMMA PositionType ==
    ASSUME WalletTypeOK
    PROVE  /\ \A c \in Collections : Amounts[c] \in Nat
           /\ Accrued \in Nat /\ Held \in Nat /\ Retired \in Nat
           /\ \A cs \in SUBSET Collections : IsFiniteSet(cs)
<1>1. \A c \in Collections : Amounts[c] \in Nat
    BY DEF Amounts, WalletTypeOK, CollectionRows
<1>2. \A d \in Debts : Entries[d] \in Int
    BY FeeAssumption DEF Entries, fee_numerator, WalletTypeOK, DebtRows
<1>3. \A cs \in SUBSET Collections : IsFiniteSet(cs)
    BY FeeAssumption, FS_Subset
<1>4. In(OPEN_COLLECTION_STATES) \in SUBSET Collections /\ In({"confirmed"}) \in SUBSET Collections
    BY DEF In
<1>5. Accrued \in Nat
    <2> HIDE DEF Entries
    <2> QED BY <1>2, FeeAssumption, SumType DEF Accrued
<1>6. Held \in Nat /\ Retired \in Nat
    BY <1>1, <1>3, <1>4, SumType DEF Held, Retired
<1> QED
    BY <1>1, <1>3, <1>5, <1>6

\* An offer that may be claimed is owed beyond all that the ledger holds and retired.
LEMMA ClaimLeavesDebt ==
    ASSUME WalletTypeOK, WalletInv, NEW c \in Collections, CanClaim(c)
    PROVE  (Held + Retired) * Scale <= Accrued
<1>1. /\ Amounts[c] \in Nat /\ Accrued \in Nat /\ Held \in Nat /\ Retired \in Nat /\ Scale \in Nat
      /\ \A d \in Collections : Amounts[d] \in Nat
      /\ \A cs \in SUBSET Collections : IsFiniteSet(cs)
    BY PositionType, FeeAssumption
<1>2. Amounts[c] >= 1
    BY DEF CanClaim, Amounts, WalletInv, AmountsOffered
<1>3. {c} \subseteq In(OPEN_COLLECTION_STATES) /\ In(OPEN_COLLECTION_STATES) \in SUBSET Collections
    BY DEF CanClaim, In, OPEN_COLLECTION_STATES
<1>4. Amounts[c] <= Held
    <2>1. Sum(Amounts, {c}) <= Sum(Amounts, In(OPEN_COLLECTION_STATES))
        BY <1>1, <1>3, SumMonotone
    <2> QED
        BY <1>1, <2>1, SumSingleton DEF Held
<1>5. Accrued - Retired * Scale \in Int /\ Retired * Scale \in Nat /\ Held * Scale \in Nat
    BY <1>1
<1>6. Owed \in Int
    BY <1>5, FeeAssumption DEF Owed, whole_atomic
<1>7. Held >= 1 /\ Held <= Owed
    BY <1>1, <1>2, <1>4, <1>6 DEF CanClaim, at_least_zero
<1>8. Held * Scale <= Accrued - Retired * Scale
    BY <1>1, <1>5, <1>7, WholeUnits DEF Owed
<1>9. (Held + Retired) * Scale = Held * Scale + Retired * Scale
    BY <1>1
<1> QED
    BY <1>1, <1>5, <1>8, <1>9

\* What may have been collected is held or retired.
LEMMA OutIsCounted ==
    ASSUME WalletTypeOK, WalletInv, NEW c \in Collections, collection[c].state = "offered"
    PROVE  Sum(Amounts, Out \cup {c}) <= Held + Retired
<1> DEFINE open == In(OPEN_COLLECTION_STATES)
           paid == In({"confirmed"})
<1>1. ASSUME NEW d \in Out PROVE d \in open \cup paid
    <2>1. CASE MayMove(d)
        <3>1. State(d) \in {"dispatching", "unknown", "pending", "stopped_waiting", "confirmed"}
            BY <2>1, MayMoveIsOut DEF Out, Transfers, SENT_STATES
        <3> QED
            BY <3>1 DEF Out, In, OPEN_COLLECTION_STATES, WalletInv, LedgerTied
    <2>2. CASE collection[d].state \in {"claimed", "submitted"}
        BY <2>2 DEF Out, In, OPEN_COLLECTION_STATES
    <2> QED
        BY <2>1, <2>2 DEF Out
<1>2. c \in open
    BY DEF In, OPEN_COLLECTION_STATES
<1>3. open \in SUBSET Collections /\ paid \in SUBSET Collections /\ open \cap paid = {}
    BY DEF In, OPEN_COLLECTION_STATES
<1>4. Held = Sum(Amounts, open) /\ Retired = Sum(Amounts, paid)
    BY DEF Held, Retired
<1> HIDE DEF open, paid
<1>5. /\ Out \cup {c} \subseteq open \cup paid
      /\ open \cup paid \in SUBSET Collections
    BY <1>1, <1>2, <1>3
<1>6. Sum(Amounts, Out \cup {c}) <= Sum(Amounts, open \cup paid)
    BY <1>3, <1>5, PositionType, SumMonotone
<1>7. Sum(Amounts, open \cup paid) = Sum(Amounts, open) + Sum(Amounts, paid)
    BY <1>3, PositionType, SumDisjoint
<1> QED
    BY <1>4, <1>6, <1>7

\* A claim, and all that may have been collected before it, is owed when it is made.
LEMMA ClaimStep == ASSUME WalletTypeOK, WalletInv, [Next]_vars, NEW c \in Collections PROVE ClaimIsOwed(c)
<1> SUFFICES ASSUME collection[c].state = "offered", collection'[c].state = "claimed"
             PROVE  Sum(Amounts, Out \cup {c}) * Scale <= Accrued
    BY DEF ClaimIsOwed
<1>1. CanClaim(c)
    BY RowStep, RowFacts DEF Transfers
<1>2. (Held + Retired) * Scale <= Accrued
    BY <1>1, ClaimLeavesDebt
<1>3. Sum(Amounts, Out \cup {c}) <= Held + Retired
    BY OutIsCounted
<1>4. /\ Held + Retired \in Nat /\ Accrued \in Nat /\ Scale \in Nat
      /\ Sum(Amounts, Out \cup {c}) \in Nat
    <2>1. Out \cup {c} \in SUBSET Collections
        BY DEF Out
    <2> QED
        BY <2>1, PositionType, SumType, FeeAssumption
<1>5. \A x, y, s \in Nat : x <= y => x * s <= y * s
    OBVIOUS
<1> QED
    BY <1>2, <1>3, <1>4, <1>5

-----------------------------------------------------------------------------
(* Theorems.                                                                *)

\* The rows, requests, effect records and the chain keep the types the schema and the
\* projections of core/wallet/transfers.py give them.
THEOREM WalletTyping == Spec => []WalletTypeOK
<1> QED
    BY WalletInductive, PTL

\* Every confirmed or failed row, and every applied effect record, is what the chain
\* made final, whatever forks, nodes that lag, and observers and owners that race did.
THEOREM EndingsHold == Spec => []EndingsAreTrue
<1>1. WalletInv => EndingsAreTrue
    BY DEF WalletInv
<1> QED
    BY <1>1, WalletInductive, PTL

\* A collection leaves only after the payment whose approval it rides.
THEOREM PaymentLeavesFirst == Spec => []CompanionFollows
<1>1. WalletInv => CompanionFollows
    BY DEF WalletInv
<1> QED
    BY <1>1, WalletInductive, PTL

\* Bytes that moved an amount, or may still, are counted against the wallet's limits:
\* they have left, a row whose bytes left is unsent no more, and one failed has bytes
\* that moved nothing and never will.
THEOREM MovedStaysCounted == Spec => []MovedIsCounted
<1>1. ASSUME WalletTypeOK, WalletInv PROVE MovedIsCounted
    <2>1. SUFFICES ASSUME NEW t \in Transfers, MayMove(t) PROVE HoldOf(State(t)) \in {"reserved", "settled"}
        BY DEF MovedIsCounted
    <2>2. State(t) \in SENT_STATES \ {"failed_on_chain"}
        BY <1>1, <2>1, MayMoveIsOut
    <2> QED
        BY <2>2 DEF HoldOf, SENT_STATES, LIVE_STATES
<1> QED
    BY <1>1, WalletInductive, PTL

\* What request_cancel has flagged never leaves: neither the guard of the send nor an
\* owner's resend lets a flagged row by, and no flag is put on what has left.
THEOREM CancelIsHonoured == Spec => []CancelHonoured
<1>1. ASSUME WalletInv PROVE CancelHonoured
    <2>1. SUFFICES ASSUME NEW t \in Transfers, row[t].cancel PROVE net[t] = "absent" /\ ~Leaving(t)
        BY DEF CancelHonoured
    <2>2. State(t) \notin SENT_STATES
        BY <1>1, <2>1 DEF WalletInv, FlaggedUnsent
    <2> QED
        BY <1>1, <2>2 DEF Leaving, At, WalletInv, LeftIsSent, RequestsKnown, KnownRequest
<1> QED
    BY <1>1, WalletInductive, PTL

\* The ledger holds, retires or gives back each collection exactly as its row stands.
THEOREM LedgerKeepsUp == Spec => []LedgerFollows
<1>1. ASSUME WalletTypeOK, WalletInv PROVE LedgerFollows
    <2>1. SUFFICES ASSUME NEW c \in Collections
                   PROVE  /\ State(c) \in PRE_DISPATCH <=> collection[c].state = "claimed"
                          /\ State(c) \in {"dispatching", "unknown", "pending", "stopped_waiting"}
                                <=> collection[c].state = "submitted"
                          /\ State(c) = "confirmed" <=> collection[c].state = "confirmed"
        BY DEF LedgerFollows
    <2>2. State(c) \in TransferStates
        BY <1>1 DEF WalletTypeOK, TransferRows, State, Transfers
    <2> QED
        BY <1>1, <2>2 DEF WalletInv, LedgerTied, TransferStates, LIVE_STATES, PRE_DISPATCH, SENT_STATES,
            NEVER_SENT_STATES
<1> QED
    BY <1>1, WalletInductive, PTL

\* When the fee is claimed, with everything that may have been collected by then it
\* comes to no more than what accrued and was not refunded: claim_collection reads the
\* position in its own transaction, and the ledger holds or retires whatever may move.
THEOREM ClaimsAreAlwaysOwed == Spec => ClaimsAreOwed
<1>1. WalletTypeOK /\ WalletInv /\ [Next]_vars => [\A c \in Collections : ClaimIsOwed(c)]_vars
    BY ClaimStep
<1> QED
    BY <1>1, WalletInductive, PTL DEF Spec, ClaimsAreOwed
=============================================================================

--------------------------- MODULE WalletTransfer ---------------------------
(***************************************************************************)
(* A Crypto Pilot transfer: approved, claimed, signed and sent by           *)
(* core/wallet/lifecycle.py, recovered, observed and settled by             *)
(* core/wallet/settlement.py, over the rows of core/wallet/transfers.py.    *)
(* Four lanes share them: "svm" and "evm", bytes sent to a node; "paykit",  *)
(* Solana bytes handed to the resource that is paid; "authorization", an    *)
(* EIP-3009 authorization of the x402 SDK, handed over likewise. A payment  *)
(* of the first may carry one fee collection (FeeLedger), claimed and       *)
(* signed in the same approval and sent after it; one of "evm" may be sent  *)
(* again by the owner.                                                      *)
(*                                                                          *)
(* The approving request, the observer, the owner and the chain interleave  *)
(* freely; the request may die anywhere. A database transaction is one      *)
(* action. A release is three: apply_transition reads the row, closes the   *)
(* effect record (another store), then moves the row by compare-and-set.    *)
(***************************************************************************)
EXTENDS FeeLedger

CONSTANT Lanes      \* the lanes payments may take

ASSUME LaneAssumption == Lanes \subseteq {"svm", "evm", "paykit", "authorization"}

VARIABLES
    lane,         \* the lane of each payment, by its proposal's origin
    row,          \* wallet_transfers, joined with the proposal and its hold
    job,          \* the approving request of each payment
    resend,       \* the owner's resend of each payment, one in hand at a time
    expired,      \* payments whose bytes can be included no more: past the last valid height
                  \* of the blockhash or the window of the authorization, or their nonce used
    effect,       \* the effect record of each transfer
    releasing,    \* releases under way, in whatever thread
    net           \* each transfer's transaction, as the chain has it

wallet == <<lane, row, job, resend, expired, effect, releasing, net>>
vars == <<ledger, wallet>>

Transfers == Payments \cup Collections

PRE_DISPATCH == {"claimed", "signed", "signed_revoked"}
LIVE_STATES == PRE_DISPATCH \cup {"dispatching", "unknown", "pending"}
NEVER_SENT_STATES == {"released", "discarded", "cancelled"}
SENT_STATES == {"dispatching", "unknown", "pending", "confirmed", "failed_on_chain", "stopped_waiting"}
\* "none": no row, the proposal awaits approval; "rejected": it was refused there.
TransferStates == LIVE_STATES \cup SENT_STATES \cup NEVER_SENT_STATES \cup {"none", "rejected"}

NoTransfer == "none"
Places == {"idle", "claim", "reserve", "sign", "send", "guard", "transmit", "answer", "unsent", "done"}
Resends == {"none", "transmit", "answer"}
Exits == {"none", "stop", "resend"}
Effects == {"none", "prepared", "dispatched", "unknown", "applied", "closed"}
\* "flight": handed to a node, no status. "erring": failed at confirmed commitment.
\* "ok", "unproven" and "failed" are final; an unproven token transfer succeeded, and no
\* answer about it ever shows the amount moving.
Final == {"ok", "unproven", "failed"}
ChainStates == {"absent", "flight", "processed", "erring"} \cup Final

Intents == [t : Transfers, target : NEVER_SENT_STATES, from : PRE_DISPATCH, resolved : BOOLEAN]

Awaiting(p, place) == [at |-> place, comp |-> NoTransfer, sending |-> p]

Init == /\ LedgerInit
        /\ lane \in [Payments -> Lanes]
        /\ row = [t \in Transfers |-> [state |-> "none", cancel |-> FALSE, nulls |-> 0, exit |-> "none"]]
        /\ job = [p \in Payments |-> Awaiting(p, "idle")]
        /\ resend = [p \in Payments |-> "none"]
        /\ expired = {}
        /\ effect = [t \in Transfers |-> "none"]
        /\ releasing = {}
        /\ net = [t \in Transfers |-> "absent"]

-----------------------------------------------------------------------------
(* Rows *)

State(t) == row[t].state
PaymentOf(t) == IF t \in Payments THEN t ELSE collection[t].payment
Expired(t) == PaymentOf(t) \in expired
Authorization(t) == t \in Payments /\ lane[t] = "authorization"
Evm(t) == t \in Payments /\ lane[t] = "evm"

\* What the hold of a transfer counts against the wallet's limits, by the state its
\* projection leaves it in.
\* A slip: an owner who stops waiting gets the amount back.
HoldOfStopped(state) ==
    CASE state \in LIVE_STATES -> "reserved"
      [] state = "confirmed" -> "settled"
      [] state = "failed_on_chain" -> "settled_fee_only"
      [] OTHER -> "none"
HoldOf(state) ==
    CASE state \in LIVE_STATES -> "reserved"
      [] state \in {"confirmed", "stopped_waiting"} -> "settled"
      [] state = "failed_on_chain" -> "settled_fee_only"
      [] OTHER -> "none"

\* The edges of PROJECTION.
AuthorizationOnly == {<<"unknown", "failed_on_chain">>}
Edges == AuthorizationOnly \cup
    {<<"claimed", "signed">>, <<"signed", "dispatching">>, <<"signed", "signed_revoked">>,
     <<"dispatching", "unknown">>, <<"dispatching", "pending">>, <<"unknown", "pending">>, <<"pending", "unknown">>,
     <<"pending", "failed_on_chain">>, <<"stopped_waiting", "failed_on_chain">>,
     <<"claimed", "released">>, <<"signed_revoked", "released">>, <<"signed_revoked", "discarded">>}
    \cup {"unknown", "pending", "stopped_waiting"} \X {"confirmed"}
    \cup {"unknown", "pending"} \X {"stopped_waiting"}
    \cup PRE_DISPATCH \X {"cancelled"}

\* A slip: the send does not ask for the flag.
NoCancelButSend == {<<"claimed", "signed">>, <<"claimed", "released">>,
                    <<"signed_revoked", "released">>, <<"signed_revoked", "discarded">>}
NoCancel == {<<"claimed", "signed">>, <<"signed", "dispatching">>, <<"claimed", "released">>,
             <<"signed_revoked", "released">>, <<"signed_revoked", "discarded">>}

\* transition(): the compare-and-set succeeds.
CanMove(t, from, to) ==
    /\ State(t) = from
    /\ <<from, to>> \in Edges
    /\ <<from, to>> \in NoCancel => ~row[t].cancel
    /\ <<from, to>> \in AuthorizationOnly => Authorization(t)
    /\ t \in Collections => MayFollow(t, to)

\* The row of t, moved, and the ledger with it. The last evidence is a null read no
\* more; an exit is withdrawn by a settlement, and on EVM by any receipt.
MovedRow(t, to) ==
    [row[t] EXCEPT !.state = to, !.nulls = 0,
                   !.exit = IF to \in {"confirmed", "failed_on_chain"} \/ (Evm(t) /\ to = "pending")
                            THEN "none" ELSE @]
Follow(ts, to) ==
    collection' = [c \in Collections |-> IF c \in ts THEN FollowedCollection(c, to) ELSE collection[c]]

MoveAll(ts, from, to) ==
    /\ \A t \in ts : CanMove(t, from, to)
    /\ row' = [t \in Transfers |-> IF t \in ts THEN MovedRow(t, to) ELSE row[t]]
    /\ Follow(ts, to)
    /\ UNCHANGED debt

Move(t, from, to) == MoveAll({t}, from, to)

\* revoke_signed, which does nothing to a row that is no longer signed.
revoke_signed(t) ==
    IF State(t) = "signed" THEN Move(t, "signed", "signed_revoked") ELSE UNCHANGED <<row, ledger>>

-----------------------------------------------------------------------------
(* Releases: apply_transition to a never-sent state *)

\* The row is read. One release of a transfer is in hand at a time.
Intending(t, target, from) == [t |-> t, target |-> target, from |-> from, resolved |-> FALSE]
InHand(t) == \E i \in releasing : i.t = t
\* The releases that wanted begins, of those that find the row in the state they name.
Begun(wanted) == releasing \cup {i \in wanted : State(i.t) = i.from /\ ~InHand(i.t)}
Begin(t, target, from) ==
    /\ State(t) = from /\ ~InHand(t)
    /\ releasing' = releasing \cup {Intending(t, target, from)}

\* resolve_a6 without a dispatch: whatever the record says but applied, the effect is
\* closed as one that never left.
ResolveUnsent(i) ==
    /\ i \in releasing /\ ~i.resolved
    /\ IF effect[i.t] = "applied"
       THEN releasing' = releasing \ {i} /\ UNCHANGED effect
       ELSE /\ releasing' = (releasing \ {i}) \cup {[i EXCEPT !.resolved = TRUE]}
            /\ effect' = [effect EXCEPT ![i.t] = IF @ = "none" THEN @ ELSE "closed"]
    /\ UNCHANGED <<lane, resend, ledger, row, job, expired, net>>

FinishRelease(i) ==
    /\ i \in releasing /\ i.resolved
    /\ IF CanMove(i.t, i.from, i.target) THEN Move(i.t, i.from, i.target) ELSE UNCHANGED <<row, ledger>>
    /\ releasing' = releasing \ {i}
    /\ UNCHANGED <<lane, resend, job, expired, effect, net>>

\* The thread that was releasing dies.
DropRelease(i) ==
    /\ i \in releasing
    /\ releasing' = releasing \ {i}
    /\ UNCHANGED <<lane, resend, ledger, row, job, expired, effect, net>>

ReleaseStep(i) == ResolveUnsent(i) \/ FinishRelease(i) \/ DropRelease(i)

-----------------------------------------------------------------------------
(* The approving request: _claim_sign_and_send and send_signed, and the same steps of the *)
(* lanes that deliver                                                                      *)

Delivers(p) == lane[p] \in {"paykit", "authorization"}

\* The plan of a collection is bound to a payment that will carry it.
Bind(c, p) == lane[p] = "svm" /\ bind_collection(c, p) /\ UNCHANGED wallet

Riders(p) == IF job[p].comp = NoTransfer THEN {} ELSE {job[p].comp}
Both(p) == {p} \cup Riders(p)
At(p, place) == job[p].at = place
Goto(p, place) == job' = [job EXCEPT ![p].at = place]
Ended(p) == job' = [job EXCEPT ![p] = Awaiting(p, "done")]

\* The quote names the collection planned with the payment, if one is; the gate finds
\* it offered, bound to this payment and unexpired.
Approve(p) ==
    /\ At(p, "idle") /\ State(p) = "none"
    /\ \E comp \in {NoTransfer} \cup {c \in In({"offered"}) : collection[c].payment = p /\ ~collection[c].lapsed} :
        job' = [job EXCEPT ![p] = [at |-> "claim", comp |-> comp, sending |-> p]]
    /\ UNCHANGED <<lane, resend, ledger, row, expired, effect, releasing, net>>

\* One transaction: the payment's row and hold, the collection and its row and hold. An
\* EVM account (there is one) sends one transfer at a time.
Claim(p) ==
    /\ At(p, "claim") /\ State(p) = "none"
    /\ Evm(p) => \A q \in Payments : Evm(q) => State(q) \notin LIVE_STATES
    /\ \A c \in Riders(p) : CanClaim(c)
    /\ row' = [t \in Transfers |-> IF t \in Both(p) THEN [row[t] EXCEPT !.state = "claimed"] ELSE row[t]]
    /\ collection' = [c \in Collections |->
            IF c \in Riders(p) THEN [collection[c] EXCEPT !.state = "claimed"] ELSE collection[c]]
    /\ Goto(p, "reserve")
    /\ UNCHANGED <<lane, resend, debt, expired, effect, releasing, net>>

\* The claim is refused, nothing consumed; the owner may approve again.
ClaimRefused(p) ==
    /\ At(p, "claim")
    /\ job' = [job EXCEPT ![p] = Awaiting(p, "idle")]
    /\ UNCHANGED <<lane, resend, ledger, row, expired, effect, releasing, net>>

\* reserve_payment_effect, for the payment and then for the collection.
ReserveEffect(p) ==
    /\ At(p, "reserve")
    /\ LET t == job[p].sending
       IN  /\ effect' = [effect EXCEPT ![t] = "prepared"]
           /\ job' = [job EXCEPT ![p] = IF t = p /\ Riders(p) # {}
                                        THEN [@ EXCEPT !.sending = job[p].comp]
                                        ELSE [@ EXCEPT !.sending = p, !.at = "sign"]]
    /\ UNCHANGED <<lane, resend, ledger, row, expired, releasing, net>>

ReleaseBoth(p) == releasing' = Begun({Intending(t, "released", "claimed") : t \in Both(p)})

\* The signer refuses, or an effect cannot be reserved.
SigningFails(p) ==
    /\ job[p].at \in {"reserve", "sign"}
    /\ ReleaseBoth(p)
    /\ Ended(p)
    /\ UNCHANGED <<lane, resend, ledger, row, expired, effect, net>>

\* Both rows in one transaction; their leases are renewed.
Sign(p) ==
    /\ At(p, "sign")
    /\ MoveAll(Both(p), "claimed", "signed")
    /\ Goto(p, "send")
    /\ UNCHANGED <<lane, resend, expired, effect, releasing, net>>

\* The transaction is refused: by a cancel, if that is the first refusal met, or by a
\* row that has moved on.
SignLost(p) ==
    /\ At(p, "sign")
    /\ ~\A t \in Both(p) : CanMove(t, "claimed", "signed")
    /\ LET byCancel == IF CanMove(p, "claimed", "signed")
                       THEN \E c \in Riders(p) : State(c) = "claimed"
                       ELSE State(p) = "claimed"
       IN  IF byCancel
           THEN releasing' = Begun({Intending(p, "cancelled", "claimed")}
                                   \cup {Intending(c, "released", "claimed") : c \in Riders(p)})
           ELSE ReleaseBoth(p)
    /\ Ended(p)
    /\ UNCHANGED <<lane, resend, ledger, row, expired, effect, net>>

\* The wallet's credential was rotated while the bytes were signed. The collection is
\* left to the observer.
CredentialRotated(p) ==
    /\ At(p, "send") /\ job[p].sending = p
    /\ revoke_signed(p)
    /\ Ended(p)
    /\ UNCHANGED <<lane, resend, expired, effect, releasing, net>>

\* A send that fails before its bytes left: when a collection is signed with it, or is
\* what was being sent, that is given up too.
\* A slip: the collection is sent all the same.
NotSentGoesOn(p) ==
    IF job[p].sending = p /\ Riders(p) # {}
    THEN job' = [job EXCEPT ![p].at = "send", ![p].sending = job[p].comp]
    ELSE Ended(p)
NotSent(p) == IF Riders(p) = {} THEN Ended(p) ELSE Goto(p, "unsent")

\* Before the mark: the endpoint cannot be read, or the row is signed no more; or the
\* blockhash has run down to its margin, the nonce is used or the provider's window has
\* closed, and the row is revoked.
SendRefused(p) ==
    /\ At(p, "send") /\ ~Delivers(p)
    /\ revoke_signed(job[p].sending) \/ UNCHANGED <<row, ledger>>
    /\ NotSent(p)
    /\ UNCHANGED <<lane, resend, expired, effect, releasing, net>>

\* In the other lanes any refusal before the mark revokes the row, a refused target too.
DeliveryRefused(p) ==
    /\ At(p, "send") /\ Delivers(p)
    /\ revoke_signed(p)
    /\ Ended(p)
    /\ UNCHANGED <<lane, resend, expired, effect, releasing, net>>

\* mark_effect_dispatched claims a prepared record; a record closed meanwhile refuses.
\* Only send_signed looks at the row again before it.
MarkDispatched(p) ==
    LET t == job[p].sending
    IN  /\ At(p, "send") /\ (Delivers(p) \/ State(t) = "signed") /\ p \notin expired
        /\ IF effect[t] = "prepared"
           THEN /\ effect' = [effect EXCEPT ![t] = "dispatched"]
                /\ Goto(p, "guard")
                /\ UNCHANGED <<row, ledger>>
           ELSE revoke_signed(t) /\ NotSent(p) /\ UNCHANGED effect
        /\ UNCHANGED <<lane, resend, expired, releasing, net>>

\* The guarded transaction that makes the row dispatching.
SendGuard(p) ==
    /\ At(p, "guard")
    /\ Move(job[p].sending, "signed", "dispatching")
    /\ Goto(p, "transmit")
    /\ UNCHANGED <<lane, resend, expired, effect, releasing, net>>

\* It finds the wallet frozen, its environment or controls changed or the deadline
\* passed, and the row is revoked; or the row is signed no more; or it is flagged, and
\* the cancel is finished here.
GuardRefused(p) ==
    LET t == job[p].sending
    IN  /\ At(p, "guard")
        /\ \/ revoke_signed(t) /\ UNCHANGED releasing
           \/ /\ ~CanMove(t, "signed", "dispatching")
              /\ releasing' = Begun({Intending(t, "cancelled", "signed")})
              /\ UNCHANGED <<row, ledger>>
        /\ NotSent(p)
        /\ UNCHANGED <<lane, resend, expired, effect, net>>

\* One sendTransaction, or eth_sendRawTransaction. A refusal, or no answer, does not say
\* that the node did not forward the bytes; bytes it has already change nothing.
Sent(t) == \E reached \in {net[t], IF net[t] = "absent" THEN "flight" ELSE net[t]} : net' = [net EXCEPT ![t] = reached]
Transmit(p) ==
    /\ At(p, "transmit") /\ ~Delivers(p)
    /\ Sent(job[p].sending)
    /\ Goto(p, "answer")
    /\ UNCHANGED <<lane, resend, ledger, row, expired, effect, releasing>>

\* The stored request goes once to the resource, with the payment. Whatever comes back,
\* a refusal before the socket included, the payment may be in the resource's hands.
Deliver(p) ==
    /\ At(p, "transmit") /\ Delivers(p)
    /\ Sent(p)
    /\ Goto(p, "answer")
    /\ UNCHANGED <<lane, resend, ledger, row, expired, effect, releasing>>

\* dispatching -> unknown with what was answered; then the collection's turn. When
\* the observer has moved the row already, the request ends there.
SendAnswered(p) ==
    LET t == job[p].sending
    IN  /\ At(p, "answer")
        /\ IF State(t) = "dispatching"
           THEN /\ Move(t, "dispatching", "unknown")
                /\ IF t = p /\ Riders(p) # {}
                   THEN job' = [job EXCEPT ![p].at = "send", ![p].sending = job[p].comp]
                   ELSE Ended(p)
           ELSE Ended(p) /\ UNCHANGED <<row, ledger>>
        /\ UNCHANGED <<lane, resend, expired, effect, releasing, net>>

\* _companion_not_sent: revoked, then released.
CompanionNotSent(p) ==
    LET c == job[p].comp
    IN  /\ At(p, "unsent")
        /\ revoke_signed(c)
        /\ releasing' = IF State(c) \in {"signed", "signed_revoked"} /\ ~InHand(c)
                        THEN releasing \cup {Intending(c, "released", "signed_revoked")} ELSE releasing
        /\ Ended(p)
        /\ UNCHANGED <<lane, resend, expired, effect, net>>

\* The process of the request ends, wherever it is.
RequestDies(p) ==
    /\ job[p].at \notin {"idle", "claim", "done"}
    /\ Ended(p)
    /\ UNCHANGED <<lane, resend, ledger, row, expired, effect, releasing, net>>

RequestStep(p) ==
    \/ Claim(p) \/ ReserveEffect(p) \/ Sign(p) \/ SignLost(p) \/ MarkDispatched(p) \/ SendGuard(p)
    \/ GuardRefused(p) \/ Transmit(p) \/ Deliver(p) \/ SendAnswered(p) \/ CompanionNotSent(p)
RequestFails(p) ==
    ClaimRefused(p) \/ SigningFails(p) \/ CredentialRotated(p) \/ SendRefused(p)
    \/ DeliveryRefused(p) \/ RequestDies(p)

-----------------------------------------------------------------------------
(* The owner *)

\* request_cancel: before the claim the proposal is rejected (a companion's offer is
\* given back with it, that of a payment's companion after the commit, _release_plan);
\* after it the row is flagged, and finished here if its lease is out.
RejectUnclaimed(t) ==
    /\ State(t) = "none"
    /\ IF t \in Payments
       THEN /\ row' = [row EXCEPT ![t].state = "rejected"]
            /\ UNCHANGED ledger
       ELSE /\ collection[t].state = "offered" /\ collection[t].payment # NoPayment
            /\ SetCollection(t, "released")
            /\ UNCHANGED row
    /\ UNCHANGED <<lane, resend, job, expired, effect, releasing, net>>

FlagCancel(t) ==
    /\ State(t) \in PRE_DISPATCH /\ ~row[t].cancel
    /\ row' = [row EXCEPT ![t].cancel = TRUE]
    /\ releasing' \in {releasing, Begun({Intending(t, "cancelled", State(t))})}
    /\ UNCHANGED <<lane, resend, ledger, job, expired, effect, net>>

\* The exit the last observation offers, observed once more before it is taken.
owner_stop_waiting(t) ==
    /\ row[t].exit = "stop"
    /\ \E from \in {"unknown", "pending"} : Move(t, from, "stopped_waiting")
    /\ UNCHANGED <<lane, resend, job, expired, effect, releasing, net>>

\* A revoked authorization stays usable until its window closes: it is left to the observer.
owner_discard(t) ==
    /\ ~Authorization(t)
    /\ Begin(t, "discarded", "signed_revoked")
    /\ UNCHANGED <<lane, resend, ledger, row, job, expired, effect, net>>

\* _owner_resend of the same bytes (EVM), observed once more: the effect record must be
\* open, and a compare-and-set on the unknown row claims the attempt.
claim_resend(p) ==
    /\ Evm(p) /\ resend[p] = "none"
    /\ State(p) = "unknown" /\ row[p].exit = "resend" /\ ~row[p].cancel
    /\ effect[p] \in {"dispatched", "unknown"}
    /\ resend' = [resend EXCEPT ![p] = "transmit"]
    /\ UNCHANGED <<lane, ledger, row, job, expired, effect, releasing, net>>

\* They go out whatever became of the row meanwhile, as the guard is behind them.
ResendTransmit(p) ==
    /\ resend[p] = "transmit"
    /\ Sent(p)
    /\ resend' = [resend EXCEPT ![p] = "answer"]
    /\ UNCHANGED <<lane, ledger, row, job, expired, effect, releasing>>

\* The answer is recorded over whatever exit is offered by then.
ResendAnswered(p) ==
    /\ resend[p] = "answer"
    /\ row' = [row EXCEPT ![p].exit = "none", ![p].nulls = 0]
    /\ resend' = [resend EXCEPT ![p] = "none"]
    /\ UNCHANGED <<lane, ledger, job, expired, effect, releasing, net>>

ResendDies(p) ==
    /\ resend[p] # "none"
    /\ resend' = [resend EXCEPT ![p] = "none"]
    /\ UNCHANGED <<lane, ledger, row, job, expired, effect, releasing, net>>

ResendStep(p) == claim_resend(p) \/ ResendTransmit(p) \/ ResendAnswered(p) \/ ResendDies(p)

OwnerStep(t) == RejectUnclaimed(t) \/ FlagCancel(t) \/ owner_stop_waiting(t) \/ owner_discard(t)

-----------------------------------------------------------------------------
(* The observer. A pass is one step: it writes by compare-and-set from the state it read, *)
(* and a status that has aged meanwhile is seen again by the next pass.                   *)

\* recover_once: the lease is out, the request is taken for dead and a cancel finished
\* or a claim released; or a revoked row's blockhash can no longer be used.
RecoverByRelease(t) ==
    /\ State(t) \in PRE_DISPATCH
    /\ \/ row[t].cancel /\ Begin(t, "cancelled", State(t))
       \/ ~row[t].cancel /\ Begin(t, "released", "claimed")
       \/ ~row[t].cancel /\ Expired(t) /\ Begin(t, "released", "signed_revoked")
    /\ UNCHANGED <<lane, resend, ledger, row, job, expired, effect, net>>

\* The nonce of a revoked EVM row is used in the latest block, which a fork may yet drop.
RecoverCrossed(t) ==
    /\ Evm(t) /\ ~row[t].cancel /\ Begin(t, "released", "signed_revoked")
    /\ UNCHANGED <<lane, resend, ledger, row, job, expired, effect, net>>

\* A slip: what is signed is left to its request.
RecoverDispatched(t) ==
    /\ Move(t, "dispatching", "unknown")
    /\ UNCHANGED <<lane, resend, job, expired, effect, releasing, net>>
\* The deadline has passed, or the controls have changed: a signed row is revoked. The
\* send timeout has passed too: the answer is lost.
RecoverByMove(t) ==
    /\ \/ ~row[t].cancel /\ Move(t, "signed", "signed_revoked")
       \/ Move(t, "dispatching", "unknown")
    /\ UNCHANGED <<lane, resend, job, expired, effect, releasing, net>>

\* A null status, which a node that lags answers of anything: a pending row is unknown at
\* the second one, an unknown row past the last valid height offers the exit (_observe_svm,
\* _discover_paykit_tx), but for an authorization (_observe_evm_authorization).
ObserveNull(t) ==
    /\ \/ State(t) = "pending" /\ row[t].nulls = 1 /\ Move(t, "pending", "unknown")
       \/ /\ State(t) = "pending" /\ row[t].nulls = 0
          /\ row' = [row EXCEPT ![t].nulls = 1]
          /\ UNCHANGED ledger
       \/ /\ State(t) = "unknown" /\ Expired(t) /\ row[t].exit = "none" /\ ~Authorization(t) /\ ~Evm(t)
          /\ row' = [row EXCEPT ![t].exit = "stop"]
          /\ UNCHANGED ledger
    /\ UNCHANGED <<lane, resend, job, expired, effect, releasing, net>>

\* _observe_evm_unknown: no receipt. A refused, priced out or superseded transaction may
\* be given up, one dropped from the pool sent again, and for one still there nothing is
\* offered; what the node answers may be old.
ObserveUnplaced(t) ==
    /\ Evm(t) /\ State(t) = "unknown"
    /\ \E exit \in Exits \ {row[t].exit} : row' = [row EXCEPT ![t].exit = exit]
    /\ UNCHANGED <<lane, resend, ledger, job, expired, effect, releasing, net>>

\* A slip: a processed status is taken for confirmed.
ConfirmProcessed(t) ==
    /\ net[t] \in {"processed", "erring"}
    /\ Move(t, "unknown", IF net[t] = "processed" THEN "confirmed" ELSE "pending")
    /\ UNCHANGED <<lane, resend, job, expired, effect, releasing, net>>
\* Processed, or failed at confirmed commitment: pending. (A processed status leaves a
\* pending Solana row's evidence as it is; an error, and any receipt on EVM, append to it.)
ObserveUnsettled(t) ==
    /\ net[t] \in {"processed", "erring"}
    /\ \/ State(t) = "unknown" /\ Move(t, "unknown", "pending")
       \/ /\ net[t] = "erring" \/ Evm(t) \/ Authorization(t)
          /\ State(t) = "pending" /\ row[t].nulls = 1
          /\ row' = [row EXCEPT ![t].nulls = 0]
          /\ UNCHANGED ledger
    /\ UNCHANGED <<lane, resend, job, expired, effect, releasing, net>>

\* Confirmed, or failed and final. The edge from unknown to failed_on_chain is refused.
ObserveSettled(t) ==
    /\ net[t] \in {"ok", "failed"}
    /\ \E from \in {"unknown", "pending", "stopped_waiting"} :
        Move(t, from, IF net[t] = "ok" THEN "confirmed" ELSE "failed_on_chain")
    /\ UNCHANGED <<lane, resend, job, expired, effect, releasing, net>>

\* A token transfer that succeeded, for good, in an answer that does not show the amount
\* moving. On EVM it is pending, and the owner may stop waiting for it. On Solana it stays
\* where it is, with the evidence and no exit (_observe_svm).
ObserveUnproven(t) ==
    /\ net[t] \in {"ok", "unproven"} /\ ~Authorization(t)
    /\ \/ /\ Evm(t) /\ State(t) \in {"unknown", "pending"}
          /\ row' = [row EXCEPT ![t].state = "pending", ![t].nulls = 0, ![t].exit = "stop"]
       \/ /\ ~Evm(t) /\ State(t) = "pending" /\ row[t].nulls = 1
          /\ row' = [row EXCEPT ![t].nulls = 0]
    /\ UNCHANGED <<lane, resend, ledger, job, expired, effect, releasing, net>>

\* _authorization_expiry: at a finalized block past its window the authorization is unused,
\* for good; it left, so it failed. Whether it was used is read from the token, not from
\* a search of the logs.
ExpiredUnused(t) == Authorization(t) /\ Expired(t) /\ net[t] \in {"absent", "flight"}
ObserveExpiredUnused(t) ==
    /\ ExpiredUnused(t)
    /\ Move(t, "unknown", "failed_on_chain")
    /\ UNCHANGED <<lane, resend, job, expired, effect, releasing, net>>

\* resolve_a6 after a settlement, by whoever settled it or by a later pass.
ResolveSettled(t) ==
    /\ \/ State(t) = "confirmed" /\ effect[t] \in {"dispatched", "unknown"}
          /\ effect' = [effect EXCEPT ![t] = "applied"]
       \/ State(t) = "failed_on_chain" /\ effect[t] \in {"dispatched", "unknown"}
          /\ effect' = [effect EXCEPT ![t] = "closed"]
       \/ State(t) = "stopped_waiting" /\ effect[t] = "dispatched"
          /\ effect' = [effect EXCEPT ![t] = "unknown"]
    /\ UNCHANGED <<lane, resend, ledger, row, job, expired, releasing, net>>

Recover(t) == RecoverByRelease(t) \/ RecoverCrossed(t) \/ RecoverByMove(t)
Observe(t) == \/ ObserveNull(t) \/ ObserveUnplaced(t) \/ ObserveUnsettled(t) \/ ObserveSettled(t)
              \/ ObserveUnproven(t) \/ ObserveExpiredUnused(t)

-----------------------------------------------------------------------------
(* Time, and the chain *)

\* A lease, a deadline or a timeout may be out, and a control changed, whenever it is
\* read: what follows a reading makes the next one moot. The height is remembered,
\* the chain goes by it too. The window of an authorization is read at a finalized block,
\* at which every use of it is decided.
HeightPasses(p) ==
    /\ p \notin expired /\ ~Evm(p)
    /\ \E t \in Transfers : State(t) \in LIVE_STATES /\ PaymentOf(t) = p
    /\ Authorization(p) => net[p] # "processed"
    /\ expired' = expired \cup {p}
    /\ UNCHANGED <<lane, resend, ledger, row, job, effect, releasing, net>>

\* Another transaction of the account has used the nonce, for good.
NonceUsed(p) ==
    /\ p \notin expired /\ Evm(p)
    /\ State(p) \in LIVE_STATES /\ net[p] \in {"absent", "flight"}
    /\ expired' = expired \cup {p}
    /\ UNCHANGED <<lane, resend, ledger, row, job, effect, releasing, net>>

\* reserve_logical_effect of some other effect finds this record's lease long expired.
EffectLeaseExpires(t) ==
    /\ effect[t] \in {"prepared", "dispatched"}
    /\ effect' = [effect EXCEPT ![t] = IF @ = "prepared" THEN "closed" ELSE "unknown"]
    /\ UNCHANGED <<lane, resend, ledger, row, job, expired, releasing, net>>

\* Bytes in flight may land until they expire; what is not final may be dropped by a
\* fork. A transaction that fails leaves the authorization it carried unused.
ChainNext(t) ==
    CASE net[t] = "flight" -> IF Expired(t) THEN {} ELSE {"processed", "erring"} \cup Final
      [] net[t] = "processed" -> {"flight", "erring"} \cup Final
      [] net[t] = "erring" -> {"flight", "failed"}
      [] OTHER -> {}
ChainStep(t) ==
    /\ \E next \in ChainNext(t) \ (IF Authorization(t) THEN {"erring", "unproven", "failed"} ELSE {}) :
        net' = [net EXCEPT ![t] = next]
    /\ UNCHANGED <<lane, resend, ledger, row, job, expired, effect, releasing>>

-----------------------------------------------------------------------------
(* The specification *)

Next ==
    \/ LedgerStep /\ UNCHANGED wallet
    \/ \E c \in Collections, p \in Payments : Bind(c, p)
    \/ \E p \in Payments : Approve(p) \/ RequestStep(p) \/ RequestFails(p)
                           \/ ResendStep(p) \/ HeightPasses(p) \/ NonceUsed(p)
    \/ \E t \in Transfers : OwnerStep(t) \/ Recover(t) \/ Observe(t) \/ ResolveSettled(t)
                            \/ EffectLeaseExpires(t) \/ ChainStep(t)
    \/ \E i \in releasing : ReleaseStep(i)

\* What a node answers that keeps up.
ObserveUpToDate(t) ==
    \/ net[t] \in {"absent", "flight"} /\ ObserveNull(t)
    \/ (net[t] = "absent" \/ Expired(t)) /\ ObserveUnplaced(t)
    \/ net[t] = "unproven" /\ ObserveUnproven(t)
    \/ ObserveUnsettled(t) \/ ObserveSettled(t) \/ ObserveExpiredUnused(t)

\* The observer passes over every live row again and again, nodes catch up, the clocks
\* run, and the chain decides what it holds. A release that its thread's death leaves half done is
\* begun again by the observer, and a thread does not die every time; nor does an owner
\* keep the row's lease from the observer for ever. Finality moves on, whatever the forks.
Pursued(t, step(_)) == \E i \in releasing : i.t = t /\ i.target # "discarded" /\ step(i)
Fairness ==
    /\ \A t \in Transfers :
        /\ WF_vars(RecoverByMove(t) \/ ObserveUpToDate(t)) /\ SF_vars(RecoverByRelease(t))
        /\ SF_vars(Pursued(t, ResolveUnsent)) /\ SF_vars(Pursued(t, FinishRelease))
        /\ WF_vars(\E i \in releasing : i.t = t /\ ReleaseStep(i))
        /\ WF_vars(ChainStep(t)) /\ SF_vars(Evm(t) /\ ChainStep(t) /\ net'[t] \in Final)
    /\ \A p \in Payments : SF_vars(HeightPasses(p))

Spec == Init /\ [][Next]_vars /\ Fairness

-----------------------------------------------------------------------------
(* Properties *)

TransferRows == [state : TransferStates, cancel : BOOLEAN, nulls : 0..1, exit : Exits]
Requests == [at : Places, comp : Collections \cup {NoTransfer}, sending : Transfers]

\* The variables have their types.
WalletTypeOK ==
    /\ debt \in [Debts -> DebtRows]
    /\ collection \in [Collections -> CollectionRows]
    /\ lane \in [Payments -> Lanes]
    /\ row \in [Transfers -> TransferRows]
    /\ job \in [Payments -> Requests]
    /\ resend \in [Payments -> Resends]
    /\ expired \subseteq Payments
    /\ effect \in [Transfers -> Effects]
    /\ releasing \subseteq Intents
    /\ net \in [Transfers -> ChainStates]

\* Bytes about to leave, and bytes that have moved the amount or may yet.
Leaving(t) ==
    \E p \in Payments : \/ At(p, "transmit") /\ job[p].sending = t
                        \/ resend[p] = "transmit" /\ p = t
MayMove(t) == \/ net[t] \in {"processed", "erring", "ok", "unproven"}
              \/ ~Expired(t) /\ (net[t] = "flight" \/ (net[t] = "absent" /\ Leaving(t)))

\* A transfer that moved its amount, or still can, counts against the wallet's limits,
\* whatever recovery, cancellation and the owner's exits made of its row meanwhile: the
\* hold is given back only for bytes that never left, or can be included no more.
MovedIsCounted == \A t \in Transfers : MayMove(t) => HoldOf(State(t)) \in {"reserved", "settled"}

\* A row says confirmed or failed, and an effect record applied, only of what the chain
\* has made final, though forks drop what a node has shown and nodes lag; or failed, of
\* an authorization that can be used no more.
EndingsAreTrue ==
    \A t \in Transfers : /\ State(t) = "confirmed" => net[t] = "ok"
                         /\ State(t) = "failed_on_chain" => net[t] = "failed" \/ ExpiredUnused(t)
                         /\ effect[t] = "applied" => net[t] = "ok"

\* Once request_cancel has flagged a row, and answered that the transfer is cancelled or
\* will be, its bytes never leave, at whatever step the request then is.
CancelHonoured == \A t \in Transfers : row[t].cancel => net[t] = "absent" /\ ~Leaving(t)

\* A collection leaves only after the payment whose approval it rides has left.
CompanionFollows ==
    \A c \in Collections : State(c) \in SENT_STATES => State(PaymentOf(c)) \in SENT_STATES

\* The ledger holds, retires or gives back an amount exactly as its transfer's row
\* stands: an expiry, a release of the plan or a rejection never takes a claimed one.
LedgerFollows ==
    \A c \in Collections :
        /\ State(c) \in PRE_DISPATCH <=> collection[c].state = "claimed"
        /\ State(c) \in {"dispatching", "unknown", "pending", "stopped_waiting"} <=> collection[c].state = "submitted"
        /\ State(c) = "confirmed" <=> collection[c].state = "confirmed"

\* When a collection is claimed, it and all that may have been collected by then come to
\* no more than the fees accrued and not refunded at that moment, a refund after the
\* offer included.
Out == {c \in Collections : MayMove(c) \/ collection[c].state \in {"claimed", "submitted"}}
ClaimIsOwed(c) == collection[c].state = "offered" /\ collection'[c].state = "claimed"
                      => Sum(Amounts, Out \cup {c}) * Scale <= Accrued
ClaimsAreOwed == [][\A c \in Collections : ClaimIsOwed(c)]_vars

\* Every live transfer ends, or the owner is offered an exit from it (or may discard it, on
\* EVM, where no height releases what was revoked), whichever thread died and wherever,
\* but for two rows the code leaves: a transaction that failed for good before any pass
\* saw it pending, as no edge of its lane leads from unknown to failed_on_chain; and a
\* Solana token transfer that succeeded unproven, as only a null status offers its exit.
Ends(t) == \/ State(t) \notin LIVE_STATES
           \/ row[t].exit # "none"
           \/ Evm(t) /\ State(t) = "signed_revoked"
Stuck(t) == \/ State(t) = "unknown" /\ net[t] = "failed"
            \/ State(t) \in {"unknown", "pending"} /\ net[t] = "unproven" /\ ~Evm(t)
TransfersEnd == \A t \in Transfers : State(t) \in LIVE_STATES ~> Ends(t) \/ Stuck(t)
=============================================================================

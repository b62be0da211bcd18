--------------------------- MODULE MoneyLiability ---------------------------
(***************************************************************************)
(* The monetary law of core/effect_budget_money.py: one liability per       *)
(* operation, reserved at its maximum, claimed by one executor before any   *)
(* byte leaves, and closed only by proof or evidence; with the adapter that *)
(* drives it (core/usepod/money_law.py, transport.py, usepod_adapter.py)    *)
(* and the provider or chain at the other end.                              *)
(*                                                                          *)
(* Every function of the law is one BEGIN IMMEDIATE transaction and one     *)
(* action here. An invocation strings several together; other processes     *)
(* act, and its own may die or be taken for dead, between any two of them.  *)
(***************************************************************************)
EXTENDS Integers, FiniteSets, Sums

CONSTANTS
    Operations,     \* operation ids
    Lanes,          \* the kinds of operation: prepaid account, x402 wallet payment
    Executors,      \* processes (instances), each with one invocation at a time
    Grants,         \* grants, each the grant of one operator consent
    Budgets,        \* the provider budgets among them; they cover Prepaid only
    Maximum,        \* of each operation: its reserved maximum
    Total,          \* of each grant: max_total_atomic
    RuleLimit,      \* limit of the money rule that covers every operation
    Amounts,        \* what evidence may state
    Funds,          \* the wallet's balance at the start
    MaxAttempts,    \* bound on the dispatch claims of one operation
    Interference    \* what the world may do besides, see below

\* "stall": a live process may miss its heartbeats and be judged dead.
\* "crash": a process may die. "ageing": settled costs leave the window.
Disturbances == {"stall", "crash", "ageing"}

ASSUME MoneyAssumption ==
    /\ IsFiniteSet(Operations)
    /\ Lanes \subseteq {"prepaid", "x402"}
    /\ Budgets \subseteq Grants
    /\ Maximum \in [Operations -> Nat]
    /\ Total \in [Grants -> Nat]
    /\ Amounts \subseteq Nat
    /\ RuleLimit \in Nat /\ Funds \in Nat /\ MaxAttempts \in Nat
    /\ Interference \subseteq Disturbances

VARIABLES
    lane,        \* operation_kind of each operation, part of its terms
    liability,   \* the row of each operation
    grant,       \* the row of each grant
    reading,     \* the wallet's liquidity observation
    job,         \* the invocation each process is in
    reconciled,  \* processes that reconciled already (once per process)
    silent,      \* processes a reconciliation finds dead: gone, or not heard of
    outcome      \* what became of each attempt, at the provider or on the chain

processes == <<job, reconciled, silent>>
vars == <<lane, liability, grant, reading, processes, outcome>>

Prepaid == {op \in Operations : lane[op] = "prepaid"}

NoOne == "nobody"
Unproven == -1      \* evidence that does not state the amount of the bound line

HELD_STATES == {"reserved", "dispatching", "pending", "unknown"}
CLOSED_STATES == {"unsent", "released"}
LiabilityStates == HELD_STATES \cup CLOSED_STATES \cup {"none", "settled"}
Attempts == 1..MaxAttempts
EvidenceKinds == {"receipt", "refusal", "chain", "attestation"}
\* The adapter states the operation id as the evidence id of a receipt and of a
\* refusal alike; a chain confirmation is known by its signature.
EvidenceId(kind) == IF kind \in {"receipt", "refusal"} THEN "operation" ELSE kind
Evidence == [kind : EvidenceKinds, amount : Amounts \cup {0, Unproven}]

Places == {"idle", "observe", "reconcile", "recover", "reserve", "claim", "send", "sent", "mark",
           "settle", "refused", "confirm", "retain", "dead"}

\* "none": no row. attempt counts the claims, token is the current claim's (0:
\* cleared); a token is its claim's attempt, fresh by construction.
NoLiability == [state |-> "none", grant |-> NoOne, reserver |-> NoOne, claimant |-> NoOne, attempt |-> 0,
                token |-> 0, line |-> "held", actual |-> 0, overCap |-> FALSE, evidence |-> {},
                refusal |-> FALSE, aged |-> FALSE]

Idle == [at |-> "idle", op |-> NoOne, token |-> 0, seen |-> 0]

Init == /\ lane \in [Operations -> Lanes]
        /\ liability = [op \in Operations |-> NoLiability]
        /\ grant = [g \in Grants |-> [state |-> "none", carried |-> {}]]
        /\ reading = [balance |-> Funds, reflects |-> {}]
        /\ job = [e \in Executors |-> Idle]
        /\ reconciled = {}
        /\ silent = {}
        /\ outcome = [op \in Operations |-> [a \in Attempts |-> "none"]]

-----------------------------------------------------------------------------
(* What counts against what *)

State(op) == liability[op].state
SetState(op, state) == liability' = [liability EXCEPT ![op].state = state]

\* A line holds its exact actual once proven, otherwise its maximum.
LineAmount(op) == IF liability[op].line = "exact" THEN liability[op].actual ELSE Maximum[op]
LineSum(ops) == Sum([op \in Operations |-> LineAmount(op)], ops)

Open(op) == State(op) \in HELD_STATES \cup {"settled"}
\* A settled cost leaves a rolling window and a budget's renewal period.
Recent(op) == Open(op) /\ ~(State(op) = "settled" /\ liability[op].aged)

\* A slip: what is settled no longer counts.
RuleUsageHeld == LineSum({op \in Operations : State(op) \in HELD_STATES})
RuleUsage == LineSum({op \in Operations : Recent(op)})

Charged(g) == {op \in Operations : liability[op].grant = g} \cup grant[g].carried
\* A slip: what the replaced budgets still hold is forgotten.
GrantUsageOwn(g, exclude) ==
    LineSum({op \in Operations \ {exclude} : liability[op].grant = g /\ Recent(op)})
GrantUsage(g, exclude) ==
    LineSum({op \in Charged(g) \ {exclude} : IF g \in Budgets THEN Recent(op) ELSE Open(op)})

\* Held debits, and those settled after the observation.
CommittedDebits == LineSum({op \in Operations \ Prepaid : Open(op) /\ op \notin reading.reflects})

Covers(g, op) == grant[g].state = "active" /\ (g \in Budgets <=> op \in Prepaid)

GrantAllows(g, op) == Covers(g, op) /\ GrantUsage(g, op) + Maximum[op] <= Total[g]
RuleAllows(op) == RuleUsage + Maximum[op] <= RuleLimit
\* A provider budget opts out of the credit check; a wallet debit never does.
LiquidityAllows(op) == op \in Prepaid \/ reading.balance - CommittedDebits >= Maximum[op]

\* All in the transaction that reserves.
Admits(g, op) == GrantAllows(g, op) /\ RuleAllows(op) /\ LiquidityAllows(op)

-----------------------------------------------------------------------------
(* The operator's grants *)

\* grant_money_authority. A provider budget replaces the one before it: it
\* carries what is still held, and the older ones are revoked with it.
Mint(g) ==
    /\ grant[g].state = "none"
    /\ LET held == {op \in Prepaid : State(op) \in HELD_STATES}
       IN grant' = [h \in Grants |->
            IF h = g THEN [state |-> "active", carried |-> IF g \in Budgets THEN held ELSE {}]
            ELSE IF g \in Budgets /\ h \in Budgets /\ grant[h].state = "active"
                 THEN [grant[h] EXCEPT !.state = "revoked"] ELSE grant[h]]
    /\ UNCHANGED <<lane, liability, reading, processes, outcome>>

\* revoke_money_authority, or the grant expires.
Revoke(g) ==
    /\ grant[g].state = "active"
    /\ grant' = [grant EXCEPT ![g].state = "revoked"]
    /\ UNCHANGED <<lane, liability, reading, processes, outcome>>

-----------------------------------------------------------------------------
(* An invocation: reserve, claim, send, and record what came of it *)

At(e, place) == job[e].at = place
Goto(e, place) == job' = [job EXCEPT ![e].at = place]
End(e) == job' = [job EXCEPT ![e] = Idle]

\* Reserving and claiming register the process again (_current_instance).
Heard(e) == silent' = silent \ {e}

FirstUse(e) == IF e \in reconciled THEN "reserve" ELSE "reconcile"

Paid(op) == {a \in Attempts : outcome[op][a] = "landed"}
\* An x402 payment pays its quoted cap exactly.
Balance == Funds - Sum([op \in Operations |-> Cardinality(Paid(op)) * Maximum[op]], Operations \ Prepaid)

\* A paid call of an operation, new or again. The x402 lane reads the wallet's
\* balance first.
Begin(e, op) ==
    /\ At(e, "idle")
    /\ job' = [job EXCEPT ![e] = [at |-> IF op \in Prepaid THEN FirstUse(e) ELSE "observe", op |-> op,
                                  token |-> 0, seen |-> IF op \in Prepaid THEN 0 ELSE Balance]]
    /\ UNCHANGED <<lane, liability, grant, reading, reconciled, silent, outcome>>

\* _record_wallet_liquidity: what was read is recorded as observed now, so a
\* debit settled since the read counts as reflected in it.
Observe(e) ==
    /\ At(e, "observe")
    /\ IF job[e].seen >= Maximum[job[e].op]
       THEN /\ reading' = [balance |-> job[e].seen, reflects |-> {op \in Operations : State(op) = "settled"}]
            /\ Goto(e, FirstUse(e))
       ELSE End(e) /\ UNCHANGED reading
    /\ UNCHANGED <<lane, liability, grant, reconciled, silent, outcome>>

\* reserve_liability of an operation without a row.
Reserve(e) ==
    /\ At(e, "reserve") /\ State(job[e].op) = "none"
    /\ \E g \in Grants :
         /\ Admits(g, job[e].op)
         /\ liability' = [liability EXCEPT ![job[e].op].state = "reserved", ![job[e].op].grant = g,
                                           ![job[e].op].reserver = e]
    /\ Goto(e, "claim") /\ Heard(e)
    /\ UNCHANGED <<lane, grant, reading, reconciled, outcome>>

\* _rereserve_locked, from a new reservation or retry_unsent: every check again,
\* the old claim's token cleared.
Rereserve(e) ==
    /\ At(e, "reserve") /\ State(job[e].op) \in CLOSED_STATES
    /\ Admits(liability[job[e].op].grant, job[e].op)
    /\ liability' = [liability EXCEPT ![job[e].op].state = "reserved", ![job[e].op].reserver = e,
                                      ![job[e].op].claimant = NoOne, ![job[e].op].token = 0]
    /\ Goto(e, "claim") /\ Heard(e)
    /\ UNCHANGED <<lane, grant, reading, reconciled, outcome>>

\* A replay returns the liability there is, under its own terms; the adapter
\* asks for it under grants that are active (money_law.candidate_grants).
ReserveAgain(e) ==
    /\ At(e, "reserve") /\ Open(job[e].op)
    /\ Covers(liability[job[e].op].grant, job[e].op)
    /\ Goto(e, "claim") /\ Heard(e)
    /\ UNCHANGED <<lane, liability, grant, reading, reconciled, outcome>>

ReserveRefused(e) ==
    /\ At(e, "reserve")
    /\ CASE State(job[e].op) = "none" -> \A g \in Grants : ~Admits(g, job[e].op)
         [] State(job[e].op) \in CLOSED_STATES -> ~Admits(liability[job[e].op].grant, job[e].op)
         [] OTHER -> ~Covers(liability[job[e].op].grant, job[e].op)
    /\ End(e)
    /\ UNCHANGED <<lane, liability, grant, reading, reconciled, silent, outcome>>

\* release_unclaimed, when the call is refused before its claim, and
\* release_unclaimed_for_owner, when its scope closes.
ReleaseUnclaimed(e) ==
    /\ At(e, "claim")
    /\ IF State(job[e].op) = "reserved" THEN SetState(job[e].op, "released") ELSE UNCHANGED liability
    /\ End(e)
    /\ UNCHANGED <<lane, grant, reading, reconciled, silent, outcome>>

\* A slip: what is unknown is claimed, and sent, again.
ClaimUnknown(e) ==
    LET op == job[e].op  attempt == liability[op].attempt + 1 IN
    /\ At(e, "claim") /\ State(op) \in {"reserved", "unknown"}
    /\ grant[liability[op].grant].state = "active"
    /\ attempt \in Attempts
    /\ liability' = [liability EXCEPT ![op].state = "dispatching", ![op].token = attempt,
                                      ![op].claimant = e, ![op].attempt = attempt]
    /\ job' = [job EXCEPT ![e].at = "send", ![e].token = attempt]
    /\ Heard(e)
    /\ UNCHANGED <<lane, grant, reading, reconciled, outcome>>

\* claim_dispatch: one winner, before anything is sent.
Claim(e) ==
    LET op == job[e].op  attempt == liability[op].attempt + 1 IN
    /\ At(e, "claim") /\ State(op) = "reserved"
    /\ grant[liability[op].grant].state = "active"
    /\ attempt \in Attempts
    /\ liability' = [liability EXCEPT ![op].state = "dispatching", ![op].token = attempt,
                                      ![op].claimant = e, ![op].attempt = attempt]
    /\ job' = [job EXCEPT ![e].at = "send", ![e].token = attempt]
    /\ Heard(e)
    /\ UNCHANGED <<lane, grant, reading, reconciled, outcome>>

\* A claim refused for a revoked grant, a passed quote window or the wallet
\* freeze (x402 only, both) releases the reservation in the same transaction.
ClaimReleased(e) ==
    /\ At(e, "claim") /\ State(job[e].op) = "reserved"
    /\ grant[liability[job[e].op].grant].state # "active" \/ job[e].op \notin Prepaid
    /\ SetState(job[e].op, "released")
    /\ End(e)
    /\ UNCHANGED <<lane, grant, reading, reconciled, silent, outcome>>

ClaimRefused(e) ==
    /\ At(e, "claim") /\ State(job[e].op) # "reserved"
    /\ End(e)
    /\ UNCHANGED <<lane, liability, grant, reading, reconciled, silent, outcome>>

\* The request is written, or the wallet signs and broadcasts. Nothing looks at
\* the claim again.
Send(e) ==
    /\ At(e, "send")
    /\ outcome' = [outcome EXCEPT ![job[e].op][job[e].token] = "flight"]
    /\ Goto(e, "sent")
    /\ UNCHANGED <<lane, liability, grant, reading, reconciled, silent>>

\* Nothing left, and the claimant knows: the connection was never made, or the
\* wallet refused. record_unsent takes its word only while the claim stands.
NotSent(e) ==
    /\ At(e, "send")
    /\ IF State(job[e].op) = "dispatching" /\ liability[job[e].op].token = job[e].token
       THEN SetState(job[e].op, "unsent") ELSE UNCHANGED liability
    /\ End(e)
    /\ UNCHANGED <<lane, grant, reading, reconciled, silent, outcome>>

\* The answer of the provider, or the wallet's proof of payment.
Answer(e) ==
    /\ At(e, "sent") /\ outcome[job[e].op][job[e].token] \in {"landed", "refused"}
    /\ Goto(e, "mark")
    /\ UNCHANGED <<lane, liability, grant, reading, reconciled, silent, outcome>>

\* No answer, a broken one, or one on a route nobody approved; or the dispatch
\* could not be recorded.
NoAnswer(e) ==
    /\ job[e].at \in {"sent", "mark", "settle"}
    /\ Goto(e, "retain")
    /\ UNCHANGED <<lane, liability, grant, reading, reconciled, silent, outcome>>

\* A slip: the token is compared, the state is not.
MarkDispatchedLate(e) ==
    LET op == job[e].op IN
    /\ At(e, "mark")
    /\ IF liability[op].token = job[e].token
       THEN /\ SetState(op, "pending")
            /\ Goto(e, IF outcome[op][job[e].token] = "refused" THEN "refused" ELSE "settle")
       ELSE UNCHANGED liability /\ Goto(e, "retain")
    /\ UNCHANGED <<lane, grant, reading, reconciled, silent, outcome>>

\* record_dispatched, with the claim's token.
MarkDispatched(e) ==
    LET op == job[e].op IN
    /\ At(e, "mark")
    /\ IF liability[op].token = job[e].token /\ State(op) \in {"dispatching", "pending", "unknown"}
       THEN /\ SetState(op, "pending")
            /\ Goto(e, IF outcome[op][job[e].token] = "refused" THEN "refused" ELSE "settle")
       ELSE UNCHANGED liability /\ Goto(e, "retain")
    /\ UNCHANGED <<lane, grant, reading, reconciled, silent, outcome>>

\* record_unknown: a claim's own token moves it to unknown; anything already
\* unknown or closed stays.
RetainAs(e, refusal) ==
    LET op == job[e].op IN
    /\ IF State(op) \in {"dispatching", "pending"} /\ liability[op].token = job[e].token
       THEN liability' = [liability EXCEPT ![op].state = "unknown", ![op].refusal = refusal]
       ELSE UNCHANGED liability
    /\ End(e)

Retain(e) ==
    /\ At(e, "retain")
    /\ RetainAs(e, FALSE)
    /\ UNCHANGED <<lane, grant, reading, reconciled, silent, outcome>>

-----------------------------------------------------------------------------
(* Settlement *)

\* Nobody but its claimant settles a claimed liability through the adapter.
Fenced(op, token) == /\ State(op) \in {"dispatching", "pending"}
                     /\ token # liability[op].token

\* A slip: later evidence is not compared with the exact line.
SettlesAnyway(op, ev) ==
    /\ State(op) \notin {"none", "reserved"}
    /\ \A old \in liability[op].evidence : EvidenceId(old.kind) # EvidenceId(ev.kind)
    /\ ev.kind = "refusal" => State(op) \in HELD_STATES /\ op \in Prepaid

\* The conditions of settle_liability on evidence new to the liability.
Settles(op, ev) ==
    /\ State(op) \notin {"none", "reserved"}
    /\ \A old \in liability[op].evidence : EvidenceId(old.kind) # EvidenceId(ev.kind)
    /\ ev.kind = "refusal" => State(op) \in HELD_STATES /\ op \in Prepaid
    /\ ev.amount # Unproven /\ liability[op].line = "exact" => ev.amount = liability[op].actual

\* A slip: evidence that does not state the amount is written as one.
SettledUnproven(row, ev, maximum) ==
    [row EXCEPT !.state = "settled", !.line = "exact", !.actual = ev.amount, !.evidence = @ \cup {ev},
                !.overCap = @ \/ ev.amount > maximum]

\* What settle_liability writes: the line it proves becomes exact, a line it does
\* not prove is bounded at its maximum, and the evidence is kept.
Settled(row, ev, maximum) ==
    LET proves == ev.amount # Unproven /\ row.line # "exact" IN
    [row EXCEPT !.state = "settled",
                !.line = IF proves THEN "exact" ELSE IF @ = "held" THEN "bounded" ELSE @,
                !.actual = IF proves THEN ev.amount ELSE @,
                !.overCap = @ \/ (proves /\ ev.amount > maximum),
                !.evidence = @ \cup {ev}]

Settle(op, ev) == IF Settles(op, ev) THEN liability' = [liability EXCEPT ![op] = Settled(@, ev, Maximum[op])]
                                     ELSE UNCHANGED liability

\* What evidence may state of the bound line: an x402 call pays its cap exactly.
Stated(op) == IF op \in Prepaid THEN Amounts ELSE {Maximum[op]}

\* The provider's receipt: the exact charge of a prepaid call when it states one;
\* the outflow of an x402 call is the chain's to state.
SettleReceipt(e) ==
    LET op == job[e].op IN
    /\ At(e, "settle")
    /\ \E amount \in (IF op \in Prepaid THEN Amounts ELSE {}) \cup {Unproven} :
         IF Fenced(op, job[e].token) THEN UNCHANGED liability
         ELSE Settle(op, [kind |-> "receipt", amount |-> amount])
    /\ IF op \in Prepaid THEN End(e) ELSE Goto(e, "confirm")
    /\ UNCHANGED <<lane, grant, reading, reconciled, silent, outcome>>

\* record_chain_confirmation, only once the receipt has settled it.
Confirm(e) ==
    /\ At(e, "confirm")
    /\ IF State(job[e].op) = "settled" THEN Settle(job[e].op, [kind |-> "chain", amount |-> Maximum[job[e].op]])
                                       ELSE UNCHANGED liability
    /\ End(e)
    /\ UNCHANGED <<lane, grant, reading, reconciled, silent, outcome>>

Refusal == [kind |-> "refusal", amount |-> 0]

\* settle_admission_refusal: a refused call cost nothing. When that cannot be
\* written, the hold is retained with the refusal as its reason.
SettleRefusal(e) ==
    /\ At(e, "refused")
    /\ \/ /\ ~Fenced(job[e].op, job[e].token) /\ Settles(job[e].op, Refusal)
          /\ Settle(job[e].op, Refusal) /\ End(e)
       \/ RetainAs(e, TRUE)
    /\ UNCHANGED <<lane, grant, reading, reconciled, silent, outcome>>

\* UsePodX402Client.resume: the paid bytes again under the same proof, while the
\* liability is unknown, by an invocation without a claim.
Resume(e, op) ==
    /\ At(e, "idle") /\ op \notin Prepaid
    /\ State(op) = "unknown" /\ Paid(op) # {}
    /\ job' = [job EXCEPT ![e] = [Idle EXCEPT !.at = "settle", !.op = op]]
    /\ UNCHANGED <<lane, liability, grant, reading, reconciled, silent, outcome>>

\* A statement of the provider or an attestation of the operator that it was
\* paid, whoever holds the claim: settle_liability without a token.
Attest(op) ==
    /\ Paid(op) # {}
    /\ \E amount \in Stated(op) :
         /\ Settles(op, [kind |-> "attestation", amount |-> amount])
         /\ Settle(op, [kind |-> "attestation", amount |-> amount])
    /\ UNCHANGED <<lane, grant, reading, processes, outcome>>

\* Nothing of the operation landed, and nothing of it can land any more.
NeverLanded(op) ==
    /\ \A a \in Attempts : outcome[op][a] \in {"none", "refused", "lost"}
    /\ \A e \in Executors : job[e].op = op => ~At(e, "send")

\* record_unsent on the proof of the provider or the chain, or an operator's word.
ProveUnsent(op) ==
    /\ State(op) \in {"dispatching", "pending", "unknown"}
    /\ NeverLanded(op)
    /\ SetState(op, "unsent")
    /\ UNCHANGED <<lane, grant, reading, processes, outcome>>

-----------------------------------------------------------------------------
(* Reconciliation, and what may happen to processes and payments *)

\* A slip: a dead process's claims are taken back like its reservations.
ReconcileClaims(e) ==
    /\ job[e].at \in {"idle", "reconcile"}
    /\ LET freed == {op \in Operations : (State(op) = "reserved" /\ liability[op].reserver \in silent)
                                        \/ (State(op) = "dispatching" /\ liability[op].claimant \in silent)}
       IN liability' = [op \in Operations |->
            IF op \in freed THEN [liability[op] EXCEPT !.state = "released"] ELSE liability[op]]
    /\ reconciled' = reconciled \cup {e}
    /\ Goto(e, "recover")
    /\ UNCHANGED <<lane, grant, reading, silent, outcome>>

\* reconcile_money_liabilities, on the first reservation of a process, or forced:
\* a dead process's reservations, and x402 ones past their quote, are released;
\* its claims may have gone out and become unknown.
Reconcile(e) ==
    /\ job[e].at \in {"idle", "reconcile"}
    /\ \E expired \in SUBSET {op \in Operations \ Prepaid : State(op) = "reserved"} :
         LET freed == {op \in Operations : State(op) = "reserved" /\ liability[op].reserver \in silent} \cup expired
             doubted == {op \in Operations : State(op) \in {"dispatching", "pending"} /\ liability[op].claimant \in silent}
         IN /\ liability' = [op \in Operations |->
                 IF op \in freed THEN [liability[op] EXCEPT !.state = "released"]
                 ELSE IF op \in doubted THEN [liability[op] EXCEPT !.state = "unknown", !.refusal = FALSE]
                 ELSE liability[op]]
            /\ silent' = IF freed \cup doubted = {} THEN silent ELSE silent \ {e}
    /\ reconciled' = reconciled \cup {e}
    /\ Goto(e, "recover")
    /\ UNCHANGED <<lane, grant, reading, outcome>>

\* recover_admission_refusal_holds: unknown prepaid holds whose own recorded
\* reason is an admission refusal settle at zero.
Recover(e) ==
    /\ At(e, "recover")
    /\ liability' = [op \in Operations |->
         IF State(op) = "unknown" /\ liability[op].refusal /\ Settles(op, Refusal)
         THEN Settled(liability[op], Refusal, Maximum[op]) ELSE liability[op]]
    /\ IF job[e].op = NoOne THEN End(e) ELSE Goto(e, "reserve")
    /\ UNCHANGED <<lane, grant, reading, reconciled, silent, outcome>>

\* A process dies, wherever it is.
Crash(e) ==
    /\ "crash" \in Interference /\ ~At(e, "dead")
    /\ job' = [job EXCEPT ![e] = [Idle EXCEPT !.at = "dead"]]
    /\ silent' = silent \cup {e}
    /\ UNCHANGED <<lane, liability, grant, reading, reconciled, outcome>>

\* Nothing but a reservation or a claim refreshes last_seen_epoch: a process busy
\* for longer than INSTANCE_STALE_SECONDS is judged dead.
Stall(e) ==
    /\ "stall" \in Interference /\ ~At(e, "dead") /\ e \notin silent
    /\ silent' = silent \cup {e}
    /\ UNCHANGED <<lane, liability, grant, reading, job, reconciled, outcome>>

\* A payment under way lands, is refused at admission, or is lost.
Arrive(op, a) ==
    /\ outcome[op][a] = "flight"
    /\ \E what \in {"landed", "lost"} \cup (IF op \in Prepaid THEN {"refused"} ELSE {}) :
         outcome' = [outcome EXCEPT ![op][a] = what]
    /\ UNCHANGED <<lane, liability, grant, reading, processes>>

\* The window of the rule and the period of the budget move past a settled cost.
Age(op) ==
    /\ "ageing" \in Interference
    /\ State(op) = "settled" /\ ~liability[op].aged
    /\ liability' = [liability EXCEPT ![op].aged = TRUE]
    /\ UNCHANGED <<lane, grant, reading, processes, outcome>>

InvocationStep(e) ==
    \/ Observe(e) \/ Reserve(e) \/ Rereserve(e) \/ ReserveAgain(e) \/ ReserveRefused(e)
    \/ ReleaseUnclaimed(e) \/ Claim(e) \/ ClaimReleased(e) \/ ClaimRefused(e)
    \/ Send(e) \/ NotSent(e) \/ Answer(e) \/ NoAnswer(e) \/ MarkDispatched(e) \/ Retain(e)
    \/ SettleReceipt(e) \/ Confirm(e) \/ SettleRefusal(e) \/ Reconcile(e) \/ Recover(e)

Next == \/ \E g \in Grants : Mint(g) \/ Revoke(g)
        \/ \E e \in Executors : InvocationStep(e) \/ Crash(e) \/ Stall(e)
        \/ \E e \in Executors, op \in Operations : Begin(e, op) \/ Resume(e, op)
        \/ \E op \in Operations : Attest(op) \/ ProveUnsent(op) \/ Age(op)
        \/ \E op \in Operations, a \in Attempts : Arrive(op, a)

Spec == Init /\ [][Next]_vars

-----------------------------------------------------------------------------
(* Properties *)

Rows == [state : LiabilityStates, grant : Grants \cup {NoOne},
         reserver : Executors \cup {NoOne}, claimant : Executors \cup {NoOne},
         attempt : 0..MaxAttempts, token : 0..MaxAttempts,
         line : {"held", "exact", "bounded"}, actual : Nat, overCap : BOOLEAN,
         evidence : SUBSET [kind : EvidenceKinds, amount : Int], refusal : BOOLEAN, aged : BOOLEAN]
GrantRows == [state : {"none", "active", "revoked"}, carried : SUBSET Operations]
Invocations == [at : Places, op : Operations \cup {NoOne}, token : 0..MaxAttempts, seen : Int]

\* The rows the schema and the adapter's places allow.
MoneyTypeOK ==
    /\ lane \in [Operations -> Lanes]
    /\ liability \in [Operations -> Rows]
    /\ grant \in [Grants -> GrantRows]
    /\ reading \in [balance : Int, reflects : SUBSET Operations]
    /\ job \in [Executors -> Invocations]
    /\ reconciled \subseteq Executors /\ silent \subseteq Executors
    /\ outcome \in [Operations -> [Attempts -> {"none", "flight", "landed", "refused", "lost"}]]

Out(op) == {a \in Attempts : outcome[op][a] \in {"flight", "landed"}}

(***************************************************************************)
(* A payment that may have gone out keeps its maximum held until evidence   *)
(* settles it: no crash, no reconciliation of a process judged dead while   *)
(* it still runs, no late answer and no retry frees it (law 6).             *)
(***************************************************************************)
PaidIsHeld == \A op \in Operations : Out(op) # {} => State(op) \in {"dispatching", "pending", "unknown", "settled"}

(***************************************************************************)
(* An operation has at most one payment under way or landed, however often  *)
(* it is reserved, claimed, abandoned, proven unsent and retried, and       *)
(* however many processes invoke it (claim_dispatch: "one winner").         *)
(***************************************************************************)
OnePayment == \A op \in Operations : Cardinality(Out(op)) <= 1

(***************************************************************************)
(* Evidence that states the amount of a settled line agrees with the line,  *)
(* in whatever order a receipt, a refusal, a confirmation and an attestation*)
(* come, and from however many invocations (settle_liability refuses        *)
(* conflicting evidence and never rewrites an exact line).                  *)
(***************************************************************************)
EvidenceAgrees == \A op \in Operations : \A ev \in liability[op].evidence :
                    ev.amount # Unproven => liability[op].line = "exact" /\ ev.amount = liability[op].actual

\* What was admitted of a line: evidence above the maximum is recorded in full.
Admitted(op) == IF liability[op].overCap THEN Maximum[op] ELSE LineAmount(op)
AdmittedSum(ops) == Sum([op \in Operations |-> Admitted(op)], ops)

(***************************************************************************)
(* A provider budget that something is held under covers, besides its own   *)
(* spending of the period, everything still held under the budgets it       *)
(* replaced: minting a new budget while calls are out gives no new room     *)
(* (grant_money_authority carries what is held, _grant_usage counts it).    *)
(***************************************************************************)
BudgetCoversCommitments ==
    \A g \in Budgets :
      (grant[g].state = "active" /\ \E op \in Operations : liability[op].grant = g /\ State(op) \in HELD_STATES)
        => AdmittedSum({op \in Prepaid : State(op) \in HELD_STATES \/ (op \in Charged(g) /\ Recent(op))})
             <= Total[g]

(***************************************************************************)
(* What the liabilities of the window were admitted for never exceeds the   *)
(* limit of the money rule, however reservations, releases, retries,        *)
(* settlements and ageing interleave (law 4; _check_rules runs in every     *)
(* transaction that holds money).                                           *)
(***************************************************************************)
RuleHeld == AdmittedSum({op \in Operations : Recent(op)}) <= RuleLimit

(***************************************************************************)
(* The law implements PaymentPromise: seen only as free, held or settled    *)
(* operations and the payments they have out, every step is one the promise *)
(* allows.                                                                  *)
(***************************************************************************)
Promise == INSTANCE PaymentPromise WITH
    status <- [op \in Operations |-> CASE State(op) \in HELD_STATES -> "held"
                                       [] State(op) = "settled" -> "settled"
                                       [] OTHER -> "free"],
    exposure <- [op \in Operations |-> Cardinality(Out(op))]
KeepsPromise == Promise!PSpec
=============================================================================

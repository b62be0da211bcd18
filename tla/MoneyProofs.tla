---------------------------- MODULE MoneyProofs ----------------------------
(***************************************************************************)
(* Proofs about MoneyLiability, for every set of operations, processes and  *)
(* grants, every maximum, limit and number of attempts, and every           *)
(* interference.                                                            *)
(***************************************************************************)
EXTENDS MoneyLiability, SumLemmas

-----------------------------------------------------------------------------
(* The inductive invariant.                                                 *)

ClaimedStates == {"dispatching", "pending", "unknown", "settled"}

\* Where an invocation stands, it has the operation, the token and the answer
\* the step that brought it there gave it.
JobsKnown ==
    \A e \in Executors :
      /\ job[e].at \notin {"idle", "dead", "recover"} => job[e].op \in Operations
      /\ job[e].at \in {"send", "sent", "mark"} => job[e].token \in Attempts
      /\ At(e, "mark") => outcome[job[e].op][job[e].token] \in {"landed", "refused"}
      /\ At(e, "settle") => Paid(job[e].op) # {}

\* Who is about to send has the latest claim of an operation that is still
\* claimed, or settled; its attempt is unused and nothing of the operation is out.
SendersClaimed ==
    \A e \in Executors : At(e, "send") =>
      /\ job[e].token = liability[job[e].op].attempt
      /\ State(job[e].op) \in ClaimedStates
      /\ outcome[job[e].op][job[e].token] = "none"
      /\ Out(job[e].op) = {}

\* One process at most is about to send an operation.
OneSender ==
    \A e, f \in Executors : At(e, "send") /\ At(f, "send") /\ job[e].op = job[f].op => e = f

\* What is out is the latest attempt, and later ones are unused.
LatestOut ==
    \A op \in Operations : \A a \in Attempts :
      /\ a \in Out(op) => a = liability[op].attempt
      /\ a > liability[op].attempt => outcome[op][a] = "none"

ClaimInv == JobsKnown /\ SendersClaimed /\ OneSender /\ LatestOut /\ PaidIsHeld

\* Only a settled line is proven, and it is flagged exactly when its actual is
\* above the maximum.
LinesSettled ==
    \A op \in Operations :
      /\ State(op) # "settled" => liability[op].line = "held"
      /\ liability[op].overCap <=> liability[op].line = "exact" /\ liability[op].actual > Maximum[op]

\* A liability is under a grant that was minted, a provider budget for a prepaid
\* call and only for one.
GrantsMinted ==
    \A op \in Operations : State(op) # "none" =>
      /\ liability[op].grant \in Grants
      /\ grant[liability[op].grant].state # "none"
      /\ liability[op].grant \in Budgets <=> op \in Prepaid

\* One provider budget at most is active, and every prepaid call still held is
\* under it or carried by it.
BudgetCarries ==
    /\ \A g, h \in Budgets : grant[g].state = "active" /\ grant[h].state = "active" => g = h
    /\ \A g \in Grants : grant[g].carried \subseteq Prepaid
    /\ \A g \in Budgets : grant[g].state = "active" =>
         {op \in Prepaid : State(op) \in HELD_STATES} \subseteq Charged(g)

LineInv == LinesSettled /\ GrantsMinted /\ BudgetCarries /\ EvidenceAgrees

-----------------------------------------------------------------------------
(* Types.                                                                   *)

\* There are finitely many operations in any sum.
LEMMA SomeOperations == ASSUME NEW S, S \subseteq Operations PROVE IsFiniteSet(S)
BY MoneyAssumption, FS_Subset

\* The balance of the wallet is an integer: its funds less what landed.
LEMMA BalanceType == ASSUME MoneyTypeOK PROVE Balance \in Int
<1> DEFINE spent == [op \in Operations |-> Cardinality(Paid(op)) * Maximum[op]]
<1>1. ASSUME NEW op \in Operations PROVE Cardinality(Paid(op)) \in Nat
    <2>1. IsFiniteSet(Attempts)
        BY MoneyAssumption, FS_Interval DEF Attempts
    <2>2. Paid(op) \in SUBSET Attempts
        BY DEF Paid
    <2> QED
        BY <2>1, <2>2, FS_Subset, FS_CardinalityType
<1>2. \A op \in Operations : spent[op] \in Nat
    BY <1>1, MoneyAssumption
<1>3. IsFiniteSet(Operations \ Prepaid)
    BY SomeOperations
<1>4. Sum(spent, Operations \ Prepaid) \in Nat
    <2> HIDE DEF spent
    <2> QED BY <1>2, <1>3, SumType
<1> QED
    BY <1>4, MoneyAssumption DEF Balance

\* Evidence as settle_liability accepts it.
Evidences == {ev \in [kind : EvidenceKinds, amount : Int] : ev.amount = Unproven \/ ev.amount \in Nat}

\* What settle_liability writes is a row again.
LEMMA SettledType ==
    ASSUME NEW row \in Rows, NEW ev \in Evidences, NEW maximum \in Nat
    PROVE  Settled(row, ev, maximum) \in Rows
<1> DEFINE proves == ev.amount # Unproven /\ row.line # "exact"
           line == IF proves THEN "exact" ELSE IF row.line = "held" THEN "bounded" ELSE row.line
           actual == IF proves THEN ev.amount ELSE row.actual
           overCap == row.overCap \/ (proves /\ ev.amount > maximum)
           evidence == row.evidence \cup {ev}
<1>1. line \in {"held", "exact", "bounded"} /\ actual \in Nat
    BY DEF Rows, Evidences
<1>2. overCap \in BOOLEAN
    BY DEF Rows
<1>3. evidence \in SUBSET [kind : EvidenceKinds, amount : Int]
    BY DEF Rows, Evidences
<1>4. "settled" \in LiabilityStates
    BY DEF LiabilityStates
<1>5. Settled(row, ev, maximum) = [row EXCEPT !.state = "settled", !.line = line, !.actual = actual,
                                              !.overCap = overCap, !.evidence = evidence]
    BY DEF Settled
<1> HIDE DEF line, actual, overCap, evidence
<1> QED
    BY <1>1, <1>2, <1>3, <1>4, <1>5 DEF Rows

\* Settling keeps every row a row.
LEMMA SettleType ==
    ASSUME MoneyTypeOK, NEW op \in Operations, NEW ev \in Evidences, Settle(op, ev)
    PROVE  liability' \in [Operations -> Rows]
<1>1. Settled(liability[op], ev, Maximum[op]) \in Rows
    BY SettledType, MoneyAssumption DEF MoneyTypeOK
<1> QED
    BY <1>1 DEF Settle, MoneyTypeOK

\* Evidence the code builds is evidence settle_liability accepts.
LEMMA EvidenceType ==
    ASSUME NEW kind \in EvidenceKinds, NEW amount, amount = Unproven \/ amount \in Nat
    PROVE  [kind |-> kind, amount |-> amount] \in Evidences
BY DEF Evidences, Unproven

\* No invocation is one.
LEMMA IdleType == Idle \in Invocations
BY MoneyAssumption DEF Idle, Invocations, Places

\* An invocation that goes to a place, or ends, is an invocation.
LEMMA JobType ==
    ASSUME MoneyTypeOK, NEW e \in Executors
    PROVE  /\ \A place \in Places : Goto(e, place) => job' \in [Executors -> Invocations]
           /\ End(e) => job' \in [Executors -> Invocations]
<1>1. Idle \in Invocations
    BY IdleType
<1>2. ASSUME NEW place \in Places PROVE [job[e] EXCEPT !.at = place] \in Invocations
    BY DEF MoneyTypeOK, Invocations
<1>3. ASSUME NEW place \in Places, Goto(e, place) PROVE job' \in [Executors -> Invocations]
    BY <1>2, <1>3 DEF MoneyTypeOK, Goto
<1>4. ASSUME End(e) PROVE job' \in [Executors -> Invocations]
    BY <1>1, <1>4 DEF MoneyTypeOK, End
<1> QED
    BY <1>3, <1>4

\* So is one that took a claim, or an operation.
LEMMA ClaimingType ==
    ASSUME NEW j \in Invocations, NEW place \in Places
    PROVE  /\ \A token \in 0..MaxAttempts : [j EXCEPT !.at = place, !.token = token] \in Invocations
           /\ \A op \in Operations : [j EXCEPT !.at = place, !.op = op] \in Invocations
BY DEF Invocations

\* What the law writes into a row leaves it a row.
LEMMA RowType ==
    ASSUME NEW row \in Rows
    PROVE  /\ \A state \in LiabilityStates : [row EXCEPT !.state = state] \in Rows
           /\ \A g \in Grants, e \in Executors :
                [row EXCEPT !.state = "reserved", !.grant = g, !.reserver = e] \in Rows
           /\ \A e \in Executors :
                [row EXCEPT !.state = "reserved", !.reserver = e, !.claimant = NoOne, !.token = 0] \in Rows
           /\ \A e \in Executors, a \in 0..MaxAttempts :
                [row EXCEPT !.state = "dispatching", !.token = a, !.claimant = e, !.attempt = a] \in Rows
           /\ [row EXCEPT !.state = "unknown", !.refusal = TRUE] \in Rows
           /\ [row EXCEPT !.state = "unknown", !.refusal = FALSE] \in Rows
           /\ [row EXCEPT !.aged = TRUE] \in Rows
<1>1. {"reserved", "dispatching", "unknown"} \subseteq LiabilityStates /\ 0 \in 0..MaxAttempts
    BY MoneyAssumption DEF LiabilityStates, HELD_STATES
<1> QED
    BY <1>1 DEF Rows

\* A row in another state is a row.
LEMMA StateType ==
    ASSUME MoneyTypeOK, NEW op \in Operations, NEW state \in LiabilityStates, SetState(op, state)
    PROVE  liability' \in [Operations -> Rows]
<1>1. [liability[op] EXCEPT !.state = state] \in Rows
    BY RowType DEF MoneyTypeOK
<1> QED
    BY <1>1 DEF MoneyTypeOK, SetState

\* Retaining keeps every row a row.
LEMMA RetainType ==
    ASSUME MoneyTypeOK, NEW e \in Executors, job[e].op \in Operations, NEW refusal \in BOOLEAN, RetainAs(e, refusal)
    PROVE  liability' \in [Operations -> Rows]
<1>1. [liability[job[e].op] EXCEPT !.state = "unknown", !.refusal = refusal] \in Rows
    BY RowType DEF MoneyTypeOK
<1>2. CASE UNCHANGED liability
    BY <1>2 DEF MoneyTypeOK
<1>3. CASE liability' = [liability EXCEPT ![job[e].op] =
                           [liability[job[e].op] EXCEPT !.state = "unknown", !.refusal = refusal]]
    BY <1>1, <1>3 DEF MoneyTypeOK
<1> QED
    BY <1>2, <1>3 DEF RetainAs, MoneyTypeOK

\* Every step keeps the types.
LEMMA TypeStep ==
    ASSUME MoneyTypeOK, JobsKnown, [Next]_vars
    PROVE  MoneyTypeOK'
<1> USE MoneyAssumption
<1>1. CASE UNCHANGED vars
    BY <1>1 DEF vars, processes, MoneyTypeOK
<1>2. ASSUME NEW g \in Grants, Mint(g) PROVE MoneyTypeOK'
    <2>1. grant' \in [Grants -> GrantRows]
        BY <1>2 DEF Mint, GrantRows, Prepaid, MoneyTypeOK
    <2> QED
        BY <1>2, <2>1 DEF Mint, processes, MoneyTypeOK
<1>3. ASSUME NEW g \in Grants, Revoke(g) PROVE MoneyTypeOK'
    BY <1>3 DEF Revoke, processes, GrantRows, MoneyTypeOK
<1>4. ASSUME NEW e \in Executors, Observe(e) PROVE MoneyTypeOK'
    <2>1. FirstUse(e) \in Places
        BY DEF FirstUse, Places
    <2>2. job' \in [Executors -> Invocations]
        BY <1>4, <2>1, JobType DEF Observe
    <2>3. reading' \in [balance : Int, reflects : SUBSET Operations]
        BY <1>4 DEF Observe, MoneyTypeOK, Invocations
    <2> QED
        BY <1>4, <2>2, <2>3 DEF Observe, MoneyTypeOK
<1>5. ASSUME NEW e \in Executors, Reserve(e) PROVE MoneyTypeOK'
    <2>1. job[e].op \in Operations
        BY <1>5 DEF Reserve, At, JobsKnown
    <2>2. job' \in [Executors -> Invocations]
        BY <1>5, JobType DEF Reserve, Places
    <2>3. liability' \in [Operations -> Rows]
        <3>1. PICK g \in Grants :
                 liability' = [liability EXCEPT ![job[e].op] =
                   [liability[job[e].op] EXCEPT !.state = "reserved", !.grant = g, !.reserver = e]]
            BY <1>5, <2>1 DEF Reserve, MoneyTypeOK
        <3>2. [liability[job[e].op] EXCEPT !.state = "reserved", !.grant = g, !.reserver = e] \in Rows
            BY <2>1, RowType DEF MoneyTypeOK
        <3> QED
            BY <3>1, <3>2 DEF MoneyTypeOK
    <2> QED
        BY <1>5, <2>2, <2>3 DEF Reserve, MoneyTypeOK, Heard
<1>6. ASSUME NEW e \in Executors, Rereserve(e) PROVE MoneyTypeOK'
    <2>1. job[e].op \in Operations
        BY <1>6 DEF Rereserve, At, JobsKnown
    <2>2. job' \in [Executors -> Invocations]
        BY <1>6, JobType DEF Rereserve, Places
    <2>3. liability' \in [Operations -> Rows]
        BY <1>6, <2>1, RowType DEF Rereserve, MoneyTypeOK
    <2> QED
        BY <1>6, <2>2, <2>3 DEF Rereserve, MoneyTypeOK, Heard
<1>7. ASSUME NEW e \in Executors, ReserveAgain(e) PROVE MoneyTypeOK'
    <2>1. job' \in [Executors -> Invocations]
        BY <1>7, JobType DEF ReserveAgain, Places
    <2> QED
        BY <1>7, <2>1 DEF ReserveAgain, MoneyTypeOK, Heard
<1>8. ASSUME NEW e \in Executors, ReserveRefused(e) PROVE MoneyTypeOK'
    <2>1. job' \in [Executors -> Invocations]
        BY <1>8, JobType DEF ReserveRefused, Places
    <2> QED
        BY <1>8, <2>1 DEF ReserveRefused, MoneyTypeOK
<1>9. ASSUME NEW e \in Executors, ReleaseUnclaimed(e) PROVE MoneyTypeOK'
    <2>1. job[e].op \in Operations
        BY <1>9 DEF ReleaseUnclaimed, At, JobsKnown
    <2>2. job' \in [Executors -> Invocations]
        BY <1>9, JobType DEF ReleaseUnclaimed, Places
    <2>3. liability' \in [Operations -> Rows]
        BY <1>9, <2>1, StateType DEF ReleaseUnclaimed, LiabilityStates, HELD_STATES, CLOSED_STATES, MoneyTypeOK
    <2> QED
        BY <1>9, <2>2, <2>3 DEF ReleaseUnclaimed, MoneyTypeOK
<1>10. ASSUME NEW e \in Executors, Claim(e) PROVE MoneyTypeOK'
    <2>1. job[e].op \in Operations /\ liability[job[e].op].attempt + 1 \in 0..MaxAttempts
        BY <1>10 DEF Claim, At, JobsKnown, Attempts
    <2>2. job' \in [Executors -> Invocations]
        <3>1. [job[e] EXCEPT !.at = "send", !.token = liability[job[e].op].attempt + 1] \in Invocations
            BY <2>1, ClaimingType DEF Places, MoneyTypeOK
        <3> QED
            BY <1>10, <3>1 DEF Claim, MoneyTypeOK
    <2>3. liability' \in [Operations -> Rows]
        BY <1>10, <2>1, RowType DEF Claim, MoneyTypeOK
    <2> QED
        BY <1>10, <2>2, <2>3 DEF Claim, MoneyTypeOK, Heard
<1>11. ASSUME NEW e \in Executors, ClaimReleased(e) PROVE MoneyTypeOK'
    <2>1. job[e].op \in Operations
        BY <1>11 DEF ClaimReleased, At, JobsKnown
    <2>2. job' \in [Executors -> Invocations]
        BY <1>11, JobType DEF ClaimReleased, Places
    <2>3. liability' \in [Operations -> Rows]
        BY <1>11, <2>1, StateType DEF ClaimReleased, LiabilityStates, HELD_STATES, CLOSED_STATES, MoneyTypeOK
    <2> QED
        BY <1>11, <2>2, <2>3 DEF ClaimReleased, MoneyTypeOK
<1>12. ASSUME NEW e \in Executors, ClaimRefused(e) PROVE MoneyTypeOK'
    <2>1. job' \in [Executors -> Invocations]
        BY <1>12, JobType DEF ClaimRefused, Places
    <2> QED
        BY <1>12, <2>1 DEF ClaimRefused, MoneyTypeOK
<1>13. ASSUME NEW e \in Executors, Send(e) PROVE MoneyTypeOK'
    <2>1. job[e].op \in Operations /\ job[e].token \in Attempts
        BY <1>13 DEF Send, At, JobsKnown
    <2>2. job' \in [Executors -> Invocations]
        BY <1>13, JobType DEF Send, Places
    <2> QED
        BY <1>13, <2>1, <2>2 DEF Send, MoneyTypeOK
<1>14. ASSUME NEW e \in Executors, NotSent(e) PROVE MoneyTypeOK'
    <2>1. job[e].op \in Operations
        BY <1>14 DEF NotSent, At, JobsKnown
    <2>2. job' \in [Executors -> Invocations]
        BY <1>14, JobType DEF NotSent, Places
    <2>3. liability' \in [Operations -> Rows]
        BY <1>14, <2>1, StateType DEF NotSent, LiabilityStates, HELD_STATES, CLOSED_STATES, MoneyTypeOK
    <2> QED
        BY <1>14, <2>2, <2>3 DEF NotSent, MoneyTypeOK
<1>15. ASSUME NEW e \in Executors, Answer(e) PROVE MoneyTypeOK'
    <2>1. job' \in [Executors -> Invocations]
        BY <1>15, JobType DEF Answer, Places
    <2> QED
        BY <1>15, <2>1 DEF Answer, MoneyTypeOK
<1>16. ASSUME NEW e \in Executors, NoAnswer(e) PROVE MoneyTypeOK'
    <2>1. job' \in [Executors -> Invocations]
        BY <1>16, JobType DEF NoAnswer, Places
    <2> QED
        BY <1>16, <2>1 DEF NoAnswer, MoneyTypeOK
<1>17. ASSUME NEW e \in Executors, MarkDispatched(e) PROVE MoneyTypeOK'
    <2>1. job[e].op \in Operations
        BY <1>17 DEF MarkDispatched, At, JobsKnown
    <2>2. job' \in [Executors -> Invocations]
        BY <1>17, JobType DEF MarkDispatched, Places
    <2>3. liability' \in [Operations -> Rows]
        BY <1>17, <2>1, StateType DEF MarkDispatched, LiabilityStates, HELD_STATES, CLOSED_STATES, MoneyTypeOK
    <2> QED
        BY <1>17, <2>2, <2>3 DEF MarkDispatched, MoneyTypeOK
<1>18. ASSUME NEW e \in Executors, Retain(e) PROVE MoneyTypeOK'
    <2>1. job[e].op \in Operations
        BY <1>18 DEF Retain, At, JobsKnown
    <2>2. job' \in [Executors -> Invocations]
        BY <1>18, JobType DEF Retain, RetainAs
    <2>3. liability' \in [Operations -> Rows]
        BY <1>18, <2>1, RetainType DEF Retain
    <2> QED
        BY <1>18, <2>2, <2>3 DEF Retain, MoneyTypeOK
<1>19. ASSUME NEW e \in Executors, SettleReceipt(e) PROVE MoneyTypeOK'
    <2>1. job[e].op \in Operations
        BY <1>19 DEF SettleReceipt, At, JobsKnown
    <2>2. job' \in [Executors -> Invocations]
        BY <1>19, JobType DEF SettleReceipt, Places
    <2>3. liability' \in [Operations -> Rows]
        <3>1. PICK amount \in (IF job[e].op \in Prepaid THEN Amounts ELSE {}) \cup {Unproven} :
                 IF Fenced(job[e].op, job[e].token) THEN UNCHANGED liability
                 ELSE Settle(job[e].op, [kind |-> "receipt", amount |-> amount])
            BY <1>19, <2>1 DEF SettleReceipt
        <3>2. [kind |-> "receipt", amount |-> amount] \in Evidences
            BY EvidenceType DEF EvidenceKinds
        <3> QED
            BY <2>1, <3>1, <3>2, SettleType DEF MoneyTypeOK
    <2> QED
        BY <1>19, <2>2, <2>3 DEF SettleReceipt, MoneyTypeOK
<1>20. ASSUME NEW e \in Executors, Confirm(e) PROVE MoneyTypeOK'
    <2>1. job[e].op \in Operations
        BY <1>20 DEF Confirm, At, JobsKnown
    <2>2. job' \in [Executors -> Invocations]
        BY <1>20, JobType DEF Confirm, Places
    <2>3. liability' \in [Operations -> Rows]
        <3>1. [kind |-> "chain", amount |-> Maximum[job[e].op]] \in Evidences
            BY <2>1, EvidenceType DEF EvidenceKinds
        <3> QED
            BY <1>20, <2>1, <3>1, SettleType DEF Confirm, MoneyTypeOK
    <2> QED
        BY <1>20, <2>2, <2>3 DEF Confirm, MoneyTypeOK
<1>21. ASSUME NEW e \in Executors, SettleRefusal(e) PROVE MoneyTypeOK'
    <2>1. job[e].op \in Operations
        BY <1>21 DEF SettleRefusal, At, JobsKnown
    <2>2. job' \in [Executors -> Invocations]
        BY <1>21, JobType DEF SettleRefusal, RetainAs
    <2>3. liability' \in [Operations -> Rows]
        <3>1. Refusal \in Evidences
            BY EvidenceType DEF EvidenceKinds, Refusal
        <3>2. CASE Settle(job[e].op, Refusal)
            BY <2>1, <3>1, <3>2, SettleType
        <3>3. CASE RetainAs(e, TRUE)
            BY <2>1, <3>3, RetainType
        <3> QED
            BY <1>21, <2>1, <3>2, <3>3 DEF SettleRefusal
    <2> QED
        BY <1>21, <2>2, <2>3 DEF SettleRefusal, MoneyTypeOK
<1>22. ASSUME NEW e \in Executors, Reconcile(e) PROVE MoneyTypeOK'
    <2>1. ASSUME NEW op \in Operations
          PROVE  /\ liability[op] \in Rows
                 /\ [liability[op] EXCEPT !.state = "released"] \in Rows
                 /\ [liability[op] EXCEPT !.state = "unknown", !.refusal = FALSE] \in Rows
        BY RowType DEF LiabilityStates, CLOSED_STATES, MoneyTypeOK
    <2>2. liability' \in [Operations -> Rows]
        <3>1. \A op \in Operations :
                liability'[op] \in {liability[op], [liability[op] EXCEPT !.state = "released"],
                                   [liability[op] EXCEPT !.state = "unknown", !.refusal = FALSE]}
            BY <1>22, Zenon DEF Reconcile
        <3>2. liability' = [op \in Operations |-> liability'[op]]
            BY <1>22 DEF Reconcile
        <3> QED
            <4>1. \A op \in Operations : liability'[op] \in Rows
                BY <2>1, <3>1, Zenon
            <4> QED
                BY <3>2, <4>1
    <2>3. silent' \subseteq Executors
        BY <1>22 DEF Reconcile, MoneyTypeOK
    <2>4. job' \in [Executors -> Invocations]
        BY <1>22, JobType DEF Reconcile, Places
    <2> QED
        BY <1>22, <2>2, <2>3, <2>4 DEF Reconcile, MoneyTypeOK
<1>23. ASSUME NEW e \in Executors, Recover(e) PROVE MoneyTypeOK'
    <2>1. Refusal \in Evidences
        BY EvidenceType DEF EvidenceKinds, Refusal
    <2>2. \A op \in Operations : Settled(liability[op], Refusal, Maximum[op]) \in Rows
        BY <2>1, SettledType DEF MoneyTypeOK
    <2>3. liability' \in [Operations -> Rows]
        BY <1>23, <2>2 DEF Recover, MoneyTypeOK
    <2>4. job' \in [Executors -> Invocations]
        BY <1>23, JobType DEF Recover, Places
    <2> QED
        BY <1>23, <2>3, <2>4 DEF Recover, MoneyTypeOK
<1>24. ASSUME NEW e \in Executors, Crash(e) PROVE MoneyTypeOK'
    BY <1>24 DEF Crash, Idle, Invocations, Places, MoneyTypeOK
<1>25. ASSUME NEW e \in Executors, Stall(e) PROVE MoneyTypeOK'
    BY <1>25 DEF Stall, MoneyTypeOK
<1>26. ASSUME NEW e \in Executors, NEW op \in Operations, Begin(e, op) PROVE MoneyTypeOK'
    <2>1. Balance \in Int
        BY BalanceType
    <2> QED
        BY <1>26, <2>1 DEF Begin, FirstUse, Invocations, Places, MoneyTypeOK
<1>27. ASSUME NEW e \in Executors, NEW op \in Operations, Resume(e, op) PROVE MoneyTypeOK'
    <2>1. [Idle EXCEPT !.at = "settle", !.op = op] \in Invocations
        BY IdleType, ClaimingType DEF Places
    <2> QED
        BY <1>27, <2>1 DEF Resume, MoneyTypeOK
<1>28. ASSUME NEW op \in Operations, Attest(op) PROVE MoneyTypeOK'
    <2>1. PICK amount \in Stated(op) : Settle(op, [kind |-> "attestation", amount |-> amount])
        BY <1>28 DEF Attest
    <2>2. [kind |-> "attestation", amount |-> amount] \in Evidences
        BY EvidenceType DEF EvidenceKinds, Stated
    <2>3. liability' \in [Operations -> Rows]
        BY <2>1, <2>2, SettleType
    <2> QED
        BY <1>28, <2>3 DEF Attest, processes, MoneyTypeOK
<1>29. ASSUME NEW op \in Operations, ProveUnsent(op) PROVE MoneyTypeOK'
    <2>1. liability' \in [Operations -> Rows]
        BY <1>29, StateType DEF ProveUnsent, LiabilityStates, CLOSED_STATES
    <2> QED
        BY <1>29, <2>1 DEF ProveUnsent, processes, MoneyTypeOK
<1>30. ASSUME NEW op \in Operations, Age(op) PROVE MoneyTypeOK'
    <2>1. liability' \in [Operations -> Rows]
        BY <1>30, RowType DEF Age, MoneyTypeOK
    <2> QED
        BY <1>30, <2>1 DEF Age, processes, MoneyTypeOK
<1>31. ASSUME NEW op \in Operations, NEW a \in Attempts, Arrive(op, a) PROVE MoneyTypeOK'
    BY <1>31 DEF Arrive, processes, MoneyTypeOK
<1> QED
    BY <1>1, <1>2, <1>3, <1>4, <1>5, <1>6, <1>7, <1>8, <1>9, <1>10, <1>11, <1>12, <1>13, <1>14, <1>15, <1>16,
       <1>17, <1>18, <1>19, <1>20, <1>21, <1>22, <1>23, <1>24, <1>25, <1>26, <1>27, <1>28, <1>29, <1>30, <1>31
    DEF Next, InvocationStep

-----------------------------------------------------------------------------
(* One payment per operation, held until it is settled.                     *)

\* A step that sends nothing and claims nothing keeps what is known of claims,
\* unless it frees an operation of which something is, or may get, out.
LEMMA QuietStep ==
    ASSUME MoneyTypeOK, ClaimInv, outcome' = outcome,
           \A op \in Operations : liability'[op].attempt = liability[op].attempt,
           \A e \in Executors : job'[e].at = "send" => job'[e] = job[e],
           \A op \in Operations :
             State(op) \in ClaimedStates /\ liability'[op].state \notin ClaimedStates =>
               Out(op) = {} /\ \A e \in Executors : job'[e].at = "send" => job'[e].op # op
    PROVE  (SendersClaimed /\ OneSender /\ LatestOut /\ PaidIsHeld)'
<1>1. \A op \in Operations : Out(op)' = Out(op)
    BY DEF Out
<1>2. ASSUME NEW e \in Executors, job'[e].at = "send"
      PROVE  /\ job'[e] = job[e] /\ job[e].at = "send"
             /\ job[e].op \in Operations
             /\ liability'[job[e].op].state \in ClaimedStates
    BY <1>2 DEF ClaimInv, JobsKnown, SendersClaimed, At, State
<1>3. SendersClaimed'
    BY <1>1, <1>2 DEF ClaimInv, SendersClaimed, At, State
<1>4. OneSender'
    BY <1>2 DEF ClaimInv, OneSender, At
<1>5. LatestOut'
    BY <1>1 DEF ClaimInv, LatestOut
<1>6. PaidIsHeld'
    BY <1>1 DEF ClaimInv, PaidIsHeld, State, ClaimedStates
<1> QED
    BY <1>3, <1>4, <1>5, <1>6

\* A step of one invocation that leaves what is out alone keeps the others known.
LEMMA JobsStep ==
    ASSUME JobsKnown, outcome' = outcome, NEW e \in Executors,
           \A x \in Executors : x # e => job'[x] = job[x],
           job'[e].at \notin {"idle", "dead", "recover"} => job'[e].op \in Operations,
           job'[e].at \in {"send", "sent", "mark"} => job'[e].token \in Attempts,
           job'[e].at = "mark" => outcome[job'[e].op][job'[e].token] \in {"landed", "refused"},
           job'[e].at = "settle" => Paid(job'[e].op) # {}
    PROVE  JobsKnown'
BY DEF JobsKnown, At, Paid

\* Going to a place leaves the other invocations alone.
LEMMA GotoMoves ==
    ASSUME MoneyTypeOK, NEW e \in Executors, NEW place \in Places, Goto(e, place)
    PROVE  /\ \A x \in Executors : x # e => job'[x] = job[x]
           /\ job'[e].at = place /\ job'[e].op = job[e].op /\ job'[e].token = job[e].token
BY DEF MoneyTypeOK, Invocations, Goto

\* So does ending.
LEMMA EndMoves ==
    ASSUME MoneyTypeOK, NEW e \in Executors, End(e)
    PROVE  /\ \A x \in Executors : x # e => job'[x] = job[x]
           /\ job'[e].at = "idle" /\ job'[e].op = NoOne
BY DEF MoneyTypeOK, End, Idle

\* Writing a state leaves the other operations, and the attempt, alone.
LEMMA StateMoves ==
    ASSUME MoneyTypeOK, NEW op \in Operations, NEW state \in LiabilityStates, SetState(op, state)
    PROVE  /\ \A o \in Operations : liability'[o].attempt = liability[o].attempt
           /\ \A o \in Operations : o # op => liability'[o].state = liability[o].state
           /\ liability'[op].state = state
BY DEF MoneyTypeOK, Rows, SetState

\* What a settlement writes, and what it leaves.
LEMMA SettledFields ==
    ASSUME NEW row \in Rows, NEW ev, NEW maximum
    PROVE  /\ Settled(row, ev, maximum).state = "settled"
           /\ Settled(row, ev, maximum).attempt = row.attempt
           /\ Settled(row, ev, maximum).grant = row.grant
BY DEF Rows, Settled

\* A settlement leaves the attempt alone.
LEMMA SettleMoves ==
    ASSUME MoneyTypeOK, NEW op \in Operations, NEW ev, Settle(op, ev)
    PROVE  /\ \A o \in Operations : liability'[o].attempt = liability[o].attempt
           /\ \A o \in Operations : liability'[o].state \in {liability[o].state, "settled"}
<1>1. CASE liability' = liability
    BY <1>1
<1>2. CASE liability' = [liability EXCEPT ![op] = Settled(liability[op], ev, Maximum[op])]
    <2>1. liability[op] \in Rows
        BY DEF MoneyTypeOK
    <2>2. \A o \in Operations : liability'[o] = IF o = op THEN Settled(liability[op], ev, Maximum[op])
                                                           ELSE liability[o]
        BY <1>2 DEF MoneyTypeOK
    <2> QED
        BY <2>1, <2>2, SettledFields
<1> QED
    BY <1>1, <1>2 DEF Settle

\* So does a retained hold.
LEMMA RetainMoves ==
    ASSUME MoneyTypeOK, NEW e \in Executors, job[e].op \in Operations, NEW refusal \in BOOLEAN, RetainAs(e, refusal)
    PROVE  /\ \A o \in Operations : liability'[o].attempt = liability[o].attempt
           /\ \A o \in Operations : liability'[o].state \in {liability[o].state, "unknown"}
<1>1. CASE liability' = liability
    BY <1>1
<1>2. CASE liability' = [liability EXCEPT ![job[e].op] =
                           [liability[job[e].op] EXCEPT !.state = "unknown", !.refusal = refusal]]
    BY <1>2 DEF MoneyTypeOK, Rows
<1> QED
    BY <1>1, <1>2 DEF RetainAs, MoneyTypeOK

\* Every step keeps what is known of claims and invocations.
LEMMA ClaimStep ==
    ASSUME MoneyTypeOK, MoneyTypeOK', ClaimInv, [Next]_vars
    PROVE  ClaimInv'
<1>1. CASE UNCHANGED vars
    BY <1>1 DEF vars, processes, ClaimInv, JobsKnown, SendersClaimed, OneSender, LatestOut, PaidIsHeld, At, State,
                Out, Paid
<1>2. ASSUME NEW g \in Grants, Mint(g) \/ Revoke(g) PROVE ClaimInv'
    <2>1. UNCHANGED <<liability, job, outcome>>
        BY <1>2 DEF Mint, Revoke, processes
    <2> QED
        BY <2>1 DEF ClaimInv, JobsKnown, SendersClaimed, OneSender, LatestOut, PaidIsHeld, At, State, Out, Paid
<1>3. ASSUME NEW e \in Executors, Observe(e) PROVE ClaimInv'
    <2>1. outcome' = outcome /\ liability' = liability
        BY <1>3 DEF Observe
    <2>2. End(e) \/ (job[e].at = "observe" /\ Goto(e, FirstUse(e)))
        BY <1>3 DEF Observe, At
    <2>3. /\ \A x \in Executors : x # e => job'[x] = job[x]
          /\ job'[e].at \in {"idle", "reserve", "reconcile"} /\ (job'[e].at # "idle" => job'[e].op = job[e].op /\ job[e].at = "observe")
        BY <2>2, EndMoves, GotoMoves DEF FirstUse, Places
    <2>4. JobsKnown'
        BY <2>1, <2>3, JobsStep DEF ClaimInv, JobsKnown, At
    <2>5. (SendersClaimed /\ OneSender /\ LatestOut /\ PaidIsHeld)'
        BY <2>1, <2>3, QuietStep DEF State
    <2> QED
        BY <2>4, <2>5 DEF ClaimInv
<1>4. ASSUME NEW e \in Executors, ReserveAgain(e) PROVE ClaimInv'
    <2>1. outcome' = outcome /\ liability' = liability
        BY <1>4 DEF ReserveAgain
    <2>2. At(e, "reserve") /\ Goto(e, "claim")
        BY <1>4 DEF ReserveAgain, At
    <2>3. /\ \A x \in Executors : x # e => job'[x] = job[x]
          /\ job'[e].at = "claim" /\ job'[e].op = job[e].op /\ job[e].at = "reserve"
        BY <2>2, GotoMoves DEF At, Places
    <2>4. JobsKnown'
        BY <2>1, <2>3, JobsStep DEF ClaimInv, JobsKnown, At
    <2>5. (SendersClaimed /\ OneSender /\ LatestOut /\ PaidIsHeld)'
        BY <2>1, <2>3, QuietStep DEF State
    <2> QED
        BY <2>4, <2>5 DEF ClaimInv
<1>5. ASSUME NEW e \in Executors, ReserveRefused(e) PROVE ClaimInv'
    <2>1. outcome' = outcome /\ liability' = liability
        BY <1>5 DEF ReserveRefused
    <2>2. End(e)
        BY <1>5 DEF ReserveRefused, At
    <2>3. /\ \A x \in Executors : x # e => job'[x] = job[x]
          /\ job'[e].at = "idle"
        BY <2>2, EndMoves
    <2>4. JobsKnown'
        BY <2>1, <2>3, JobsStep DEF ClaimInv, JobsKnown, At
    <2>5. (SendersClaimed /\ OneSender /\ LatestOut /\ PaidIsHeld)'
        BY <2>1, <2>3, QuietStep DEF State
    <2> QED
        BY <2>4, <2>5 DEF ClaimInv
<1>6. ASSUME NEW e \in Executors, ClaimRefused(e) PROVE ClaimInv'
    <2>1. outcome' = outcome /\ liability' = liability
        BY <1>6 DEF ClaimRefused
    <2>2. End(e)
        BY <1>6 DEF ClaimRefused, At
    <2>3. /\ \A x \in Executors : x # e => job'[x] = job[x]
          /\ job'[e].at = "idle"
        BY <2>2, EndMoves
    <2>4. JobsKnown'
        BY <2>1, <2>3, JobsStep DEF ClaimInv, JobsKnown, At
    <2>5. (SendersClaimed /\ OneSender /\ LatestOut /\ PaidIsHeld)'
        BY <2>1, <2>3, QuietStep DEF State
    <2> QED
        BY <2>4, <2>5 DEF ClaimInv
<1>7. ASSUME NEW e \in Executors, Answer(e) PROVE ClaimInv'
    <2>1. outcome' = outcome /\ liability' = liability
        BY <1>7 DEF Answer
    <2>2. /\ At(e, "sent") /\ Goto(e, "mark")
          /\ outcome[job[e].op][job[e].token] \in {"landed", "refused"}
        BY <1>7 DEF Answer, At
    <2>3. /\ \A x \in Executors : x # e => job'[x] = job[x]
          /\ job[e].at = "sent" /\ job'[e].at = "mark" /\ job'[e].op = job[e].op /\ job'[e].token = job[e].token
          /\ outcome[job[e].op][job[e].token] \in {"landed", "refused"}
        BY <2>2, GotoMoves DEF At, Places
    <2>4. JobsKnown'
        BY <2>1, <2>3, JobsStep DEF ClaimInv, JobsKnown, At
    <2>5. (SendersClaimed /\ OneSender /\ LatestOut /\ PaidIsHeld)'
        BY <2>1, <2>3, QuietStep DEF State
    <2> QED
        BY <2>4, <2>5 DEF ClaimInv
<1>8. ASSUME NEW e \in Executors, NoAnswer(e) PROVE ClaimInv'
    <2>1. outcome' = outcome /\ liability' = liability
        BY <1>8 DEF NoAnswer
    <2>2. job[e].at \in {"sent", "mark", "settle"} /\ Goto(e, "retain")
        BY <1>8 DEF NoAnswer, At
    <2>3. /\ \A x \in Executors : x # e => job'[x] = job[x]
          /\ job[e].at \in {"sent", "mark", "settle"} /\ job'[e].at = "retain" /\ job'[e].op = job[e].op
        BY <2>2, GotoMoves DEF Places
    <2>4. JobsKnown'
        BY <2>1, <2>3, JobsStep DEF ClaimInv, JobsKnown, At
    <2>5. (SendersClaimed /\ OneSender /\ LatestOut /\ PaidIsHeld)'
        BY <2>1, <2>3, QuietStep DEF State
    <2> QED
        BY <2>4, <2>5 DEF ClaimInv
<1>9. ASSUME NEW e \in Executors, Reserve(e) PROVE ClaimInv'
    <2>1. job[e].op \in Operations /\ outcome' = outcome
        BY <1>9 DEF Reserve, At, ClaimInv, JobsKnown
    <2>2. Goto(e, "claim")
        BY <1>9 DEF Reserve
    <2>3. /\ \A x \in Executors : x # e => job'[x] = job[x]
          /\ job'[e].at = "claim" /\ job'[e].op = job[e].op
        BY <2>2, GotoMoves DEF Places
    <2>4. JobsKnown'
        BY <2>1, <2>3, JobsStep DEF ClaimInv, JobsKnown, At
    <2>5. /\ \A op \in Operations : liability'[op].attempt = liability[op].attempt
          /\ \A op \in Operations : State(op) \in ClaimedStates => liability'[op].state \in ClaimedStates
        <3>1. State(job[e].op) = "none"
            BY <1>9 DEF Reserve
        <3>2. PICK g \in Grants :
                 liability' = [liability EXCEPT ![job[e].op] =
                   [liability[job[e].op] EXCEPT !.state = "reserved", !.grant = g, !.reserver = e]]
            BY <1>9, <2>1 DEF Reserve, MoneyTypeOK
        <3> QED
            BY <2>1, <3>1, <3>2 DEF State, ClaimedStates, MoneyTypeOK, Rows
    <2>6. (SendersClaimed /\ OneSender /\ LatestOut /\ PaidIsHeld)'
        BY <2>1, <2>3, <2>5, QuietStep
    <2> QED
        BY <2>4, <2>6 DEF ClaimInv
<1>10. ASSUME NEW e \in Executors, Rereserve(e) PROVE ClaimInv'
    <2>1. job[e].op \in Operations /\ outcome' = outcome
        BY <1>10 DEF Rereserve, At, ClaimInv, JobsKnown
    <2>2. Goto(e, "claim")
        BY <1>10 DEF Rereserve
    <2>3. /\ \A x \in Executors : x # e => job'[x] = job[x]
          /\ job'[e].at = "claim" /\ job'[e].op = job[e].op
        BY <2>2, GotoMoves DEF Places
    <2>4. JobsKnown'
        BY <2>1, <2>3, JobsStep DEF ClaimInv, JobsKnown, At
    <2>5. /\ \A op \in Operations : liability'[op].attempt = liability[op].attempt
          /\ \A op \in Operations : State(op) \in ClaimedStates => liability'[op].state \in ClaimedStates
        <3>1. State(job[e].op) \in CLOSED_STATES
            BY <1>10 DEF Rereserve
        <3>2. liability' = [liability EXCEPT ![job[e].op] =
                 [liability[job[e].op] EXCEPT !.state = "reserved", !.reserver = e, !.claimant = NoOne, !.token = 0]]
            BY <1>10, <2>1 DEF Rereserve, MoneyTypeOK
        <3> QED
            BY <2>1, <3>1, <3>2 DEF State, ClaimedStates, CLOSED_STATES, MoneyTypeOK, Rows
    <2>6. (SendersClaimed /\ OneSender /\ LatestOut /\ PaidIsHeld)'
        BY <2>1, <2>3, <2>5, QuietStep
    <2> QED
        BY <2>4, <2>6 DEF ClaimInv
<1>11. ASSUME NEW e \in Executors, ReleaseUnclaimed(e) PROVE ClaimInv'
    <2>1. job[e].op \in Operations /\ outcome' = outcome
        BY <1>11 DEF ReleaseUnclaimed, At, ClaimInv, JobsKnown
    <2>2. End(e)
        BY <1>11 DEF ReleaseUnclaimed
    <2>3. /\ \A x \in Executors : x # e => job'[x] = job[x]
          /\ job'[e].at = "idle"
        BY <2>2, EndMoves
    <2>4. JobsKnown'
        BY <2>1, <2>3, JobsStep DEF ClaimInv, JobsKnown, At
    <2>5. /\ \A op \in Operations : liability'[op].attempt = liability[op].attempt
          /\ \A op \in Operations : State(op) \in ClaimedStates => liability'[op].state \in ClaimedStates
        <3>1. \/ liability' = liability
              \/ State(job[e].op) = "reserved" /\ SetState(job[e].op, "released")
            BY <1>11 DEF ReleaseUnclaimed
        <3> QED
            BY <2>1, <3>1, StateMoves DEF State, ClaimedStates, LiabilityStates, CLOSED_STATES
    <2>6. (SendersClaimed /\ OneSender /\ LatestOut /\ PaidIsHeld)'
        BY <2>1, <2>3, <2>5, QuietStep
    <2> QED
        BY <2>4, <2>6 DEF ClaimInv
<1>12. ASSUME NEW e \in Executors, ClaimReleased(e) PROVE ClaimInv'
    <2>1. job[e].op \in Operations /\ outcome' = outcome
        BY <1>12 DEF ClaimReleased, At, ClaimInv, JobsKnown
    <2>2. End(e)
        BY <1>12 DEF ClaimReleased
    <2>3. /\ \A x \in Executors : x # e => job'[x] = job[x]
          /\ job'[e].at = "idle"
        BY <2>2, EndMoves
    <2>4. JobsKnown'
        BY <2>1, <2>3, JobsStep DEF ClaimInv, JobsKnown, At
    <2>5. /\ \A op \in Operations : liability'[op].attempt = liability[op].attempt
          /\ \A op \in Operations : State(op) \in ClaimedStates => liability'[op].state \in ClaimedStates
        <3>1. \/ liability' = liability
              \/ State(job[e].op) = "reserved" /\ SetState(job[e].op, "released")
            BY <1>12 DEF ClaimReleased
        <3> QED
            BY <2>1, <3>1, StateMoves DEF State, ClaimedStates, LiabilityStates, CLOSED_STATES
    <2>6. (SendersClaimed /\ OneSender /\ LatestOut /\ PaidIsHeld)'
        BY <2>1, <2>3, <2>5, QuietStep
    <2> QED
        BY <2>4, <2>6 DEF ClaimInv
<1>13. ASSUME NEW e \in Executors, MarkDispatched(e) PROVE ClaimInv'
    <2>1. job[e].op \in Operations /\ outcome' = outcome
        BY <1>13 DEF MarkDispatched, At, ClaimInv, JobsKnown
    <2>2. /\ Goto(e, "retain") \/ Goto(e, "refused")
             \/ (Goto(e, "settle") /\ outcome[job[e].op][job[e].token] # "refused")
          /\ At(e, "mark")
        BY <1>13 DEF MarkDispatched
    <2>3. /\ \A x \in Executors : x # e => job'[x] = job[x]
          /\ \/ job'[e].at \in {"retain", "refused"} /\ job'[e].op = job[e].op
             \/ job'[e].at = "settle" /\ job'[e].op = job[e].op /\ Paid(job[e].op) # {}
        BY <2>1, <2>2, GotoMoves DEF Places, At, Paid, ClaimInv, JobsKnown
    <2>4. JobsKnown'
        BY <2>1, <2>3, JobsStep DEF ClaimInv, JobsKnown, At
    <2>5. /\ \A op \in Operations : liability'[op].attempt = liability[op].attempt
          /\ \A op \in Operations : State(op) \in ClaimedStates => liability'[op].state \in ClaimedStates
        <3>1. \/ liability' = liability
              \/ SetState(job[e].op, "pending")
            BY <1>13 DEF MarkDispatched
        <3> QED
            BY <2>1, <3>1, StateMoves DEF State, ClaimedStates, LiabilityStates, HELD_STATES
    <2>6. (SendersClaimed /\ OneSender /\ LatestOut /\ PaidIsHeld)'
        BY <2>1, <2>3, <2>5, QuietStep
    <2> QED
        BY <2>4, <2>6 DEF ClaimInv
<1>14. ASSUME NEW e \in Executors, Retain(e) PROVE ClaimInv'
    <2>1. job[e].op \in Operations /\ outcome' = outcome
        BY <1>14 DEF Retain, At, ClaimInv, JobsKnown
    <2>2. End(e)
        BY <1>14 DEF Retain, RetainAs
    <2>3. /\ \A x \in Executors : x # e => job'[x] = job[x]
          /\ job'[e].at = "idle"
        BY <2>2, EndMoves
    <2>4. JobsKnown'
        BY <2>1, <2>3, JobsStep DEF ClaimInv, JobsKnown, At
    <2>5. /\ \A op \in Operations : liability'[op].attempt = liability[op].attempt
          /\ \A op \in Operations : State(op) \in ClaimedStates => liability'[op].state \in ClaimedStates
        BY <1>14, <2>1, RetainMoves DEF Retain, State, ClaimedStates
    <2>6. (SendersClaimed /\ OneSender /\ LatestOut /\ PaidIsHeld)'
        BY <2>1, <2>3, <2>5, QuietStep
    <2> QED
        BY <2>4, <2>6 DEF ClaimInv
<1>15. ASSUME NEW e \in Executors, SettleReceipt(e) PROVE ClaimInv'
    <2>1. job[e].op \in Operations /\ outcome' = outcome
        BY <1>15 DEF SettleReceipt, At, ClaimInv, JobsKnown
    <2>2. End(e) \/ Goto(e, "confirm")
        BY <1>15 DEF SettleReceipt
    <2>3. /\ \A x \in Executors : x # e => job'[x] = job[x]
          /\ job'[e].at \in {"idle", "confirm"} /\ (job'[e].at = "confirm" => job'[e].op = job[e].op)
        BY <2>2, EndMoves, GotoMoves DEF Places
    <2>4. JobsKnown'
        BY <2>1, <2>3, JobsStep DEF ClaimInv, JobsKnown, At
    <2>5. /\ \A op \in Operations : liability'[op].attempt = liability[op].attempt
          /\ \A op \in Operations : State(op) \in ClaimedStates => liability'[op].state \in ClaimedStates
        <3>1. liability' = liability \/ \E ev : Settle(job[e].op, ev)
            BY <1>15 DEF SettleReceipt
        <3> QED
            BY <2>1, <3>1, SettleMoves DEF State, ClaimedStates
    <2>6. (SendersClaimed /\ OneSender /\ LatestOut /\ PaidIsHeld)'
        BY <2>1, <2>3, <2>5, QuietStep
    <2> QED
        BY <2>4, <2>6 DEF ClaimInv
<1>16. ASSUME NEW e \in Executors, Confirm(e) PROVE ClaimInv'
    <2>1. job[e].op \in Operations /\ outcome' = outcome
        BY <1>16 DEF Confirm, At, ClaimInv, JobsKnown
    <2>2. End(e)
        BY <1>16 DEF Confirm
    <2>3. /\ \A x \in Executors : x # e => job'[x] = job[x]
          /\ job'[e].at = "idle"
        BY <2>2, EndMoves
    <2>4. JobsKnown'
        BY <2>1, <2>3, JobsStep DEF ClaimInv, JobsKnown, At
    <2>5. /\ \A op \in Operations : liability'[op].attempt = liability[op].attempt
          /\ \A op \in Operations : State(op) \in ClaimedStates => liability'[op].state \in ClaimedStates
        <3>1. liability' = liability \/ \E ev : Settle(job[e].op, ev)
            BY <1>16 DEF Confirm
        <3> QED
            BY <2>1, <3>1, SettleMoves DEF State, ClaimedStates
    <2>6. (SendersClaimed /\ OneSender /\ LatestOut /\ PaidIsHeld)'
        BY <2>1, <2>3, <2>5, QuietStep
    <2> QED
        BY <2>4, <2>6 DEF ClaimInv
<1>17. ASSUME NEW e \in Executors, SettleRefusal(e) PROVE ClaimInv'
    <2>1. job[e].op \in Operations /\ outcome' = outcome
        BY <1>17 DEF SettleRefusal, At, ClaimInv, JobsKnown
    <2>2. End(e)
        BY <1>17 DEF SettleRefusal, RetainAs
    <2>3. /\ \A x \in Executors : x # e => job'[x] = job[x]
          /\ job'[e].at = "idle"
        BY <2>2, EndMoves
    <2>4. JobsKnown'
        BY <2>1, <2>3, JobsStep DEF ClaimInv, JobsKnown, At
    <2>5. /\ \A op \in Operations : liability'[op].attempt = liability[op].attempt
          /\ \A op \in Operations : State(op) \in ClaimedStates => liability'[op].state \in ClaimedStates
        <3>1. Settle(job[e].op, Refusal) \/ RetainAs(e, TRUE)
            BY <1>17 DEF SettleRefusal
        <3> QED
            BY <2>1, <3>1, SettleMoves, RetainMoves DEF State, ClaimedStates
    <2>6. (SendersClaimed /\ OneSender /\ LatestOut /\ PaidIsHeld)'
        BY <2>1, <2>3, <2>5, QuietStep
    <2> QED
        BY <2>4, <2>6 DEF ClaimInv
<1>18. ASSUME NEW e \in Executors, Claim(e) PROVE ClaimInv'
    <2> DEFINE op == job[e].op
               a == liability[op].attempt + 1
    <2>1. op \in Operations /\ a \in Attempts /\ State(op) = "reserved"
        BY <1>18 DEF Claim, At, ClaimInv, JobsKnown
    <2>2. Out(op) = {} /\ outcome[op][a] = "none"
        <3>1. Out(op) = {}
            BY <2>1 DEF ClaimInv, PaidIsHeld
        <3>2. a > liability[op].attempt
            BY <2>1 DEF MoneyTypeOK, Rows, Attempts
        <3> QED
            BY <2>1, <3>1, <3>2 DEF ClaimInv, LatestOut
    <2>3. \A x \in Executors : job[x].at = "send" => job[x].op # op
        BY <2>1 DEF ClaimInv, SendersClaimed, At, ClaimedStates
    <2>4. /\ outcome' = outcome
          /\ \A x \in Executors : x # e => job'[x] = job[x]
          /\ job'[e].at = "send" /\ job'[e].op = op /\ job'[e].token = a
        BY <1>18 DEF Claim, MoneyTypeOK, Invocations
    <2>5. /\ \A o \in Operations : o # op => liability'[o] = liability[o]
          /\ liability'[op].attempt = a /\ liability'[op].state = "dispatching"
        BY <1>18, <2>1 DEF Claim, MoneyTypeOK, Rows
    <2>6. \A o \in Operations : Out(o)' = Out(o)
        BY <2>4 DEF Out
    <2> HIDE DEF op, a
    <2>7. JobsKnown'
        BY <2>1, <2>4, JobsStep DEF ClaimInv
    <2>8. SendersClaimed'
        BY <2>1, <2>2, <2>3, <2>4, <2>5, <2>6 DEF ClaimInv, JobsKnown, SendersClaimed, At, State, ClaimedStates
    <2>9. OneSender'
        BY <2>3, <2>4 DEF ClaimInv, OneSender, At
    <2>10. LatestOut'
        <3>1. \A b \in Attempts : b > a => b > liability[op].attempt
            BY <2>1 DEF a, op, MoneyTypeOK, Rows, Attempts
        <3> QED
            BY <2>1, <2>2, <2>4, <2>5, <2>6, <3>1 DEF ClaimInv, LatestOut
    <2>11. PaidIsHeld'
        BY <2>2, <2>5, <2>6 DEF ClaimInv, PaidIsHeld, State
    <2> QED
        BY <2>7, <2>8, <2>9, <2>10, <2>11 DEF ClaimInv
<1>19. ASSUME NEW e \in Executors, Send(e) PROVE ClaimInv'
    <2>1. PICK op \in Operations, a \in Attempts : job[e].op = op /\ job[e].token = a /\ At(e, "send")
        BY <1>19 DEF Send, At, ClaimInv, JobsKnown
    <2>2. /\ a = liability[op].attempt /\ State(op) \in ClaimedStates
          /\ outcome[op][a] = "none" /\ Out(op) = {}
        BY <2>1 DEF ClaimInv, SendersClaimed
    <2>3. \A x \in Executors : x # e /\ job[x].at = "send" => job[x].op # op
        BY <2>1 DEF ClaimInv, OneSender, At
    <2>4. /\ liability' = liability
          /\ \A x \in Executors : x # e => job'[x] = job[x]
          /\ job'[e].at = "sent" /\ job'[e].op = op /\ job'[e].token = a
        BY <1>19, <2>1, GotoMoves DEF Send, Places
    <2>5. /\ outcome'[op][a] = "flight"
          /\ \A o \in Operations, b \in Attempts : o # op \/ b # a => outcome'[o][b] = outcome[o][b]
        BY <1>19, <2>1 DEF Send, MoneyTypeOK
    <2>6. /\ Out(op)' = {a}
          /\ \A o \in Operations : o # op => Out(o)' = Out(o)
          /\ \A o \in Operations : Paid(o)' = Paid(o)
        <3>1. Out(op)' = {a}
            BY <2>1, <2>2, <2>5 DEF Out
        <3>2. \A o \in Operations : o # op => Out(o)' = Out(o)
            BY <2>5 DEF Out
        <3>3. \A o \in Operations, b \in Attempts : outcome'[o][b] = "landed" <=> outcome[o][b] = "landed"
            BY <2>1, <2>2, <2>5
        <3> QED
            BY <3>1, <3>2, <3>3 DEF Paid
    <2>7. JobsKnown'
        <3>1. ASSUME NEW x \in Executors, x # e, At(x, "mark")
              PROVE  outcome'[job[x].op][job[x].token] \in {"landed", "refused"}
            <4>1. job[x].op \in Operations /\ job[x].token \in Attempts
                  /\ outcome[job[x].op][job[x].token] \in {"landed", "refused"}
                BY <3>1 DEF ClaimInv, JobsKnown, At
            <4> QED
                BY <2>2, <2>5, <4>1
        <3> QED
            BY <2>1, <2>4, <2>6, <3>1 DEF ClaimInv, JobsKnown, At
    <2>8. SendersClaimed'
        BY <2>3, <2>4, <2>5, <2>6 DEF ClaimInv, JobsKnown, SendersClaimed, At, State
    <2>9. OneSender'
        BY <2>4 DEF ClaimInv, OneSender, At
    <2>10. LatestOut'
        <3>1. ASSUME NEW o \in Operations, NEW b \in Attempts
              PROVE  /\ b \in Out(o)' => b = liability[o].attempt
                     /\ b > liability[o].attempt => outcome'[o][b] = "none"
            <4>1. CASE o = op
                <5>1. b > liability[o].attempt => b # a
                    BY <2>2, <4>1 DEF Attempts
                <5> QED
                    BY <2>1, <2>2, <2>5, <2>6, <4>1, <5>1 DEF ClaimInv, LatestOut
            <4>2. CASE o # op
                BY <2>5, <2>6, <4>2 DEF ClaimInv, LatestOut
            <4> QED
                BY <4>1, <4>2
        <3> QED
            BY <2>4, <3>1 DEF LatestOut
    <2>11. PaidIsHeld'
        BY <2>2, <2>4, <2>6 DEF ClaimInv, PaidIsHeld, State, ClaimedStates
    <2> QED
        BY <2>7, <2>8, <2>9, <2>10, <2>11 DEF ClaimInv
<1>20. ASSUME NEW e \in Executors, NotSent(e) PROVE ClaimInv'
    <2>1. job[e].op \in Operations /\ At(e, "send")
        BY <1>20 DEF NotSent, At, ClaimInv, JobsKnown
    <2>2. /\ outcome' = outcome
          /\ \A x \in Executors : x # e => job'[x] = job[x]
          /\ job'[e].at = "idle"
        BY <1>20, EndMoves DEF NotSent
    <2>3. JobsKnown'
        BY <2>2, JobsStep DEF ClaimInv
    <2>4. Out(job[e].op) = {} /\ \A x \in Executors : x # e /\ job[x].at = "send" => job[x].op # job[e].op
        BY <2>1 DEF ClaimInv, SendersClaimed, OneSender, At
    <2>5. /\ \A op \in Operations : liability'[op].attempt = liability[op].attempt
          /\ \A op \in Operations : op # job[e].op => liability'[op].state = liability[op].state
        BY <1>20, <2>1, StateMoves DEF NotSent, LiabilityStates, CLOSED_STATES
    <2>6. (SendersClaimed /\ OneSender /\ LatestOut /\ PaidIsHeld)'
        BY <2>2, <2>4, <2>5, QuietStep DEF State
    <2> QED
        BY <2>3, <2>6 DEF ClaimInv
<1>21. ASSUME NEW e \in Executors, Reconcile(e) PROVE ClaimInv'
    <2>1. /\ outcome' = outcome
          /\ \A x \in Executors : x # e => job'[x] = job[x]
          /\ job'[e].at = "recover"
        BY <1>21, GotoMoves DEF Reconcile, Places
    <2>2. JobsKnown'
        BY <2>1, JobsStep DEF ClaimInv
    <2>3. \A op \in Operations :
            \/ liability'[op] = liability[op]
            \/ State(op) = "reserved" /\ liability'[op] = [liability[op] EXCEPT !.state = "released"]
            \/ liability'[op] = [liability[op] EXCEPT !.state = "unknown", !.refusal = FALSE]
        BY <1>21 DEF Reconcile
    <2>4. /\ \A op \in Operations : liability'[op].attempt = liability[op].attempt
          /\ \A op \in Operations : State(op) \in ClaimedStates => liability'[op].state \in ClaimedStates
        <3>1. ASSUME NEW op \in Operations PROVE liability[op] \in Rows
            BY DEF MoneyTypeOK
        <3> QED
            BY <2>3, <3>1 DEF State, ClaimedStates, Rows
    <2>5. (SendersClaimed /\ OneSender /\ LatestOut /\ PaidIsHeld)'
        BY <2>1, <2>4, QuietStep
    <2> QED
        BY <2>2, <2>5 DEF ClaimInv
<1>22. ASSUME NEW e \in Executors, Recover(e) PROVE ClaimInv'
    <2>1. /\ outcome' = outcome
          /\ \A x \in Executors : x # e => job'[x] = job[x]
          /\ job'[e].at \in {"idle", "reserve"}
          /\ job'[e].at = "reserve" => job'[e].op \in Operations
        <3>1. End(e) \/ (Goto(e, "reserve") /\ job[e].op # NoOne)
            BY <1>22 DEF Recover
        <3>2. outcome' = outcome
            BY <1>22 DEF Recover
        <3> QED
            BY <3>1, <3>2, EndMoves, GotoMoves DEF Places, MoneyTypeOK, Invocations
    <2>2. JobsKnown'
        BY <2>1, JobsStep DEF ClaimInv
    <2>3. \A op \in Operations :
            liability'[op] = liability[op] \/ liability'[op] = Settled(liability[op], Refusal, Maximum[op])
        BY <1>22 DEF Recover
    <2>4. /\ \A op \in Operations : liability'[op].attempt = liability[op].attempt
          /\ \A op \in Operations : State(op) \in ClaimedStates => liability'[op].state \in ClaimedStates
        <3>1. ASSUME NEW op \in Operations PROVE liability[op] \in Rows
            BY DEF MoneyTypeOK
        <3> QED
            BY <2>3, <3>1, SettledFields DEF State, ClaimedStates
    <2>5. (SendersClaimed /\ OneSender /\ LatestOut /\ PaidIsHeld)'
        BY <2>1, <2>4, QuietStep
    <2> QED
        BY <2>2, <2>5 DEF ClaimInv
<1>23. ASSUME NEW e \in Executors, Crash(e) PROVE ClaimInv'
    <2>1. /\ outcome' = outcome /\ liability' = liability
          /\ \A x \in Executors : x # e => job'[x] = job[x]
          /\ job'[e].at = "dead"
        BY <1>23 DEF Crash, Idle, MoneyTypeOK
    <2>2. JobsKnown'
        BY <2>1, JobsStep DEF ClaimInv
    <2>3. (SendersClaimed /\ OneSender /\ LatestOut /\ PaidIsHeld)'
        BY <2>1, QuietStep DEF State
    <2> QED
        BY <2>2, <2>3 DEF ClaimInv
<1>24. ASSUME NEW e \in Executors, Stall(e) PROVE ClaimInv'
    <2>1. UNCHANGED <<liability, job, outcome>>
        BY <1>24 DEF Stall
    <2> QED
        BY <2>1 DEF ClaimInv, JobsKnown, SendersClaimed, OneSender, LatestOut, PaidIsHeld, At, State, Out, Paid
<1>25. ASSUME NEW e \in Executors, NEW op \in Operations, Begin(e, op) PROVE ClaimInv'
    <2>1. /\ outcome' = outcome /\ liability' = liability
          /\ \A x \in Executors : x # e => job'[x] = job[x]
          /\ job'[e].at \in {"observe", "reserve", "reconcile"} /\ job'[e].op = op
        BY <1>25 DEF Begin, FirstUse, MoneyTypeOK
    <2>2. JobsKnown'
        BY <2>1, JobsStep DEF ClaimInv
    <2>3. (SendersClaimed /\ OneSender /\ LatestOut /\ PaidIsHeld)'
        BY <2>1, QuietStep DEF State
    <2> QED
        BY <2>2, <2>3 DEF ClaimInv
<1>26. ASSUME NEW e \in Executors, NEW op \in Operations, Resume(e, op) PROVE ClaimInv'
    <2>1. /\ outcome' = outcome /\ liability' = liability /\ Paid(op) # {}
          /\ \A x \in Executors : x # e => job'[x] = job[x]
          /\ job'[e].at = "settle" /\ job'[e].op = op
        BY <1>26 DEF Resume, Idle, MoneyTypeOK
    <2>2. JobsKnown'
        BY <2>1, JobsStep DEF ClaimInv
    <2>3. (SendersClaimed /\ OneSender /\ LatestOut /\ PaidIsHeld)'
        BY <2>1, QuietStep DEF State
    <2> QED
        BY <2>2, <2>3 DEF ClaimInv
<1>27. ASSUME NEW op \in Operations, Attest(op) PROVE ClaimInv'
    <2>1. UNCHANGED <<job, outcome>>
        BY <1>27 DEF Attest, processes
    <2>2. JobsKnown'
        BY <2>1 DEF ClaimInv, JobsKnown, At, Paid
    <2>3. /\ \A o \in Operations : liability'[o].attempt = liability[o].attempt
          /\ \A o \in Operations : State(o) \in ClaimedStates => liability'[o].state \in ClaimedStates
        BY <1>27, SettleMoves DEF Attest, State, ClaimedStates
    <2>4. (SendersClaimed /\ OneSender /\ LatestOut /\ PaidIsHeld)'
        BY <2>1, <2>3, QuietStep
    <2> QED
        BY <2>2, <2>4 DEF ClaimInv
<1>28. ASSUME NEW op \in Operations, ProveUnsent(op) PROVE ClaimInv'
    <2>1. UNCHANGED <<job, outcome>>
        BY <1>28 DEF ProveUnsent, processes
    <2>2. JobsKnown'
        BY <2>1 DEF ClaimInv, JobsKnown, At, Paid
    <2>3. /\ \A o \in Operations : liability'[o].attempt = liability[o].attempt
          /\ \A o \in Operations : o # op => liability'[o].state = liability[o].state
          /\ Out(op) = {} /\ \A e \in Executors : job[e].at = "send" => job[e].op # op
        BY <1>28, StateMoves DEF ProveUnsent, NeverLanded, Out, At, LiabilityStates, CLOSED_STATES
    <2>4. (SendersClaimed /\ OneSender /\ LatestOut /\ PaidIsHeld)'
        BY <2>1, <2>3, QuietStep DEF State
    <2> QED
        BY <2>2, <2>4 DEF ClaimInv
<1>29. ASSUME NEW op \in Operations, Age(op) PROVE ClaimInv'
    <2>1. UNCHANGED <<job, outcome>>
        BY <1>29 DEF Age, processes
    <2>2. JobsKnown'
        BY <2>1 DEF ClaimInv, JobsKnown, At, Paid
    <2>3. /\ \A o \in Operations : liability'[o].attempt = liability[o].attempt
          /\ \A o \in Operations : State(o) \in ClaimedStates => liability'[o].state \in ClaimedStates
        BY <1>29 DEF Age, State, MoneyTypeOK, Rows
    <2>4. (SendersClaimed /\ OneSender /\ LatestOut /\ PaidIsHeld)'
        BY <2>1, <2>3, QuietStep
    <2> QED
        BY <2>2, <2>4 DEF ClaimInv
<1>30. ASSUME NEW op \in Operations, NEW a \in Attempts, Arrive(op, a) PROVE ClaimInv'
    <2>1. UNCHANGED <<job, liability>>
        BY <1>30 DEF Arrive, processes
    <2>2. /\ outcome[op][a] = "flight" /\ outcome'[op][a] \in {"landed", "lost", "refused"}
          /\ \A o \in Operations, b \in Attempts : o # op \/ b # a => outcome'[o][b] = outcome[o][b]
        BY <1>30 DEF Arrive, MoneyTypeOK
    <2>3. /\ \A o \in Operations : Out(o)' \subseteq Out(o) /\ Paid(o) \subseteq Paid(o)'
          /\ Out(op) # {}
        BY <2>2 DEF Out, Paid
    <2>4. JobsKnown'
        <3>1. ASSUME NEW x \in Executors, At(x, "mark")
              PROVE  outcome'[job[x].op][job[x].token] \in {"landed", "refused"}
            <4>1. job[x].op \in Operations /\ job[x].token \in Attempts
                  /\ outcome[job[x].op][job[x].token] \in {"landed", "refused"}
                BY <3>1 DEF ClaimInv, JobsKnown, At
            <4> QED
                BY <2>2, <4>1
        <3>2. ASSUME NEW x \in Executors, At(x, "settle") PROVE Paid(job[x].op)' # {}
            <4>1. job[x].op \in Operations /\ Paid(job[x].op) # {}
                BY <3>2 DEF ClaimInv, JobsKnown, At
            <4> QED
                BY <2>1, <2>3, <4>1 DEF Paid
        <3> QED
            BY <2>1, <3>1, <3>2 DEF ClaimInv, JobsKnown, At, Paid
    <2>5. SendersClaimed'
        BY <2>1, <2>2, <2>3 DEF ClaimInv, JobsKnown, SendersClaimed, At, State, Out
    <2>6. OneSender'
        BY <2>1 DEF ClaimInv, OneSender, At
    <2>7. LatestOut'
        <3>1. ASSUME NEW o \in Operations, NEW b \in Attempts, b > liability[o].attempt
              PROVE  outcome'[o][b] = "none"
            BY <2>2, <3>1 DEF ClaimInv, LatestOut
        <3> QED
            BY <2>1, <2>3, <3>1 DEF ClaimInv, LatestOut
    <2>8. PaidIsHeld'
        BY <2>1, <2>3 DEF ClaimInv, PaidIsHeld, State
    <2> QED
        BY <2>4, <2>5, <2>6, <2>7, <2>8 DEF ClaimInv
<1> QED
    BY <1>1, <1>2, <1>3, <1>4, <1>5, <1>6, <1>7, <1>8, <1>9, <1>10, <1>11, <1>12, <1>13, <1>14, <1>15, <1>16,
       <1>17, <1>18, <1>19, <1>20, <1>21, <1>22, <1>23, <1>24, <1>25, <1>26, <1>27, <1>28, <1>29, <1>30
    DEF Next, InvocationStep

-----------------------------------------------------------------------------
(* The type and claim invariants, for every behaviour.                      *)

\* The type and claim invariants hold at first.
LEMMA ClaimInit == Init => MoneyTypeOK /\ ClaimInv
<1> SUFFICES ASSUME Init PROVE MoneyTypeOK /\ ClaimInv
    OBVIOUS
<1>1. NoLiability \in Rows
    BY MoneyAssumption DEF NoLiability, Rows, LiabilityStates, HELD_STATES, CLOSED_STATES, EvidenceKinds
<1>2. MoneyTypeOK
    BY <1>1, IdleType, MoneyAssumption DEF Init, MoneyTypeOK, GrantRows
<1>3. \A e \in Executors : job[e].at = "idle"
    BY DEF Init, Idle
<1>4. \A op \in Operations, a \in Attempts : outcome[op][a] = "none"
    BY DEF Init
<1>5. \A op \in Operations : Out(op) = {}
    BY <1>4 DEF Out
<1>6. JobsKnown /\ SendersClaimed /\ OneSender
    BY <1>3 DEF JobsKnown, SendersClaimed, OneSender, At
<1>7. LatestOut /\ PaidIsHeld
    BY <1>4, <1>5 DEF LatestOut, PaidIsHeld
<1> QED
    BY <1>2, <1>6, <1>7 DEF ClaimInv

\* Types, and what is known of claims and invocations, hold throughout.
LEMMA ClaimsKept == Spec => [](MoneyTypeOK /\ ClaimInv)
<1>1. MoneyTypeOK /\ ClaimInv /\ [Next]_vars => (MoneyTypeOK /\ ClaimInv)'
    BY TypeStep, ClaimStep DEF ClaimInv
<1> QED
    BY <1>1, ClaimInit, PTL DEF Spec

\* The rows of liabilities, grants and readings, and the places of invocations,
\* keep their types under every operation of the law and its adapter.
THEOREM MoneyTyping == Spec => []MoneyTypeOK
BY ClaimsKept, PTL

\* Whatever reconciliation, late answers, retries and evidence do, what may have
\* been paid stays held until evidence settles it (law 6).
THEOREM PaidStaysHeld == Spec => []PaidIsHeld
<1>1. MoneyTypeOK /\ ClaimInv => PaidIsHeld
    BY DEF ClaimInv
<1> QED
    BY <1>1, ClaimsKept, PTL

\* At most one payment of an operation is under way or landed, for any number of
\* processes and attempts (claim_dispatch has one winner, and frees no claim that
\* may have been used).
THEOREM OnePaymentOnly == Spec => []OnePayment
<1>1. ASSUME MoneyTypeOK, ClaimInv PROVE OnePayment
    <2>1. ASSUME NEW op \in Operations PROVE Cardinality(Out(op)) <= 1
        <3>1. Out(op) = {} \/ Out(op) = {liability[op].attempt}
            BY <1>1 DEF ClaimInv, LatestOut, Out
        <3>2. Cardinality({}) = 0 /\ Cardinality({liability[op].attempt}) = 1
            BY FS_EmptySet, FS_Singleton
        <3> QED
            BY <3>1, <3>2
    <2> QED
        BY <2>1 DEF OnePayment
<1> QED
    BY <1>1, ClaimsKept, PTL

-----------------------------------------------------------------------------
(* Rows, line by line.                                                      *)

\* What a settlement writes of the money.
LEMMA SettledMoney ==
    ASSUME NEW row \in Rows, NEW ev \in Evidences, NEW maximum \in Nat
    PROVE  LET s == Settled(row, ev, maximum)
               proves == ev.amount # Unproven /\ row.line # "exact"
           IN  /\ s.state = "settled" /\ s.grant = row.grant /\ s.aged = row.aged
               /\ s.evidence = row.evidence \cup {ev}
               /\ proves => /\ s.line = "exact" /\ s.actual = ev.amount
                            /\ s.overCap <=> row.overCap \/ ev.amount > maximum
               /\ ~proves => /\ s.line = IF row.line = "held" THEN "bounded" ELSE row.line
                             /\ s.actual = row.actual
                             /\ s.overCap <=> row.overCap
BY DEF Rows, Settled, Evidences

\* The money of an operation's row is as it was.
SameMoney(op) ==
    /\ liability'[op].grant = liability[op].grant /\ liability'[op].line = liability[op].line
    /\ liability'[op].actual = liability[op].actual /\ liability'[op].overCap = liability[op].overCap
    /\ liability'[op].evidence = liability[op].evidence /\ liability'[op].aged = liability[op].aged

\* What may happen to a row, an admission apart: nothing, a claim's life up to its
\* release or retention, a settlement, and age.
Carried(op) ==
    /\ SameMoney(op) /\ State(op) \in HELD_STATES
    /\ liability'[op].state \in HELD_STATES \cup CLOSED_STATES
SettledBy(op) ==
    /\ State(op) \in HELD_STATES \cup {"settled"}
    /\ \E ev \in Evidences : Settles(op, ev) /\ liability'[op] = Settled(liability[op], ev, Maximum[op])
Aged(op) == State(op) = "settled" /\ liability'[op] = [liability[op] EXCEPT !.aged = TRUE]
RowMove(op) == liability'[op] = liability[op] \/ Carried(op) \/ SettledBy(op) \/ Aged(op)

\* An operation that holds nothing is admitted under a grant.
Admission(op, g) ==
    /\ grant' = grant /\ g \in Grants /\ Admits(g, op)
    /\ \A o \in Operations : o # op => liability'[o] = liability[o]
    /\ State(op) \in CLOSED_STATES \cup {"none"}
    /\ liability'[op].state = "reserved" /\ liability'[op].grant = g
    /\ liability'[op].line = liability[op].line /\ liability'[op].actual = liability[op].actual
    /\ liability'[op].overCap = liability[op].overCap /\ liability'[op].evidence = liability[op].evidence

\* Writing a state into a held row.
LEMMA StateCarried ==
    ASSUME MoneyTypeOK, NEW op \in Operations, NEW state \in HELD_STATES \cup CLOSED_STATES,
           SetState(op, state), State(op) \in HELD_STATES
    PROVE  \A o \in Operations : RowMove(o)
<1>1. ASSUME NEW o \in Operations, o # op PROVE liability'[o] = liability[o]
    BY <1>1 DEF SetState, MoneyTypeOK
<1>2. liability[op] \in Rows /\ liability'[op] = [liability[op] EXCEPT !.state = state]
    BY DEF SetState, MoneyTypeOK
<1>3. Carried(op)
    BY <1>2 DEF Carried, SameMoney, Rows
<1> QED
    BY <1>1, <1>3 DEF RowMove

\* The money in a row that is retained.
LEMMA RetainedRow ==
    ASSUME NEW row \in Rows, NEW refusal \in BOOLEAN
    PROVE  LET r == [row EXCEPT !.state = "unknown", !.refusal = refusal]
           IN  /\ r.state = "unknown" /\ r.grant = row.grant /\ r.line = row.line /\ r.actual = row.actual
               /\ r.overCap = row.overCap /\ r.evidence = row.evidence /\ r.aged = row.aged
BY DEF Rows

\* The money in a row that is reserved.
LEMMA ReservedRow ==
    ASSUME NEW row \in Rows, NEW g \in Grants, NEW e \in Executors
    PROVE  LET r == [row EXCEPT !.state = "reserved", !.grant = g, !.reserver = e]
           IN  /\ r.state = "reserved" /\ r.grant = g /\ r.line = row.line /\ r.actual = row.actual
               /\ r.overCap = row.overCap /\ r.evidence = row.evidence
BY DEF Rows

\* Retaining a hold.
LEMMA RetainCarried ==
    ASSUME MoneyTypeOK, NEW e \in Executors, job[e].op \in Operations, NEW refusal \in BOOLEAN, RetainAs(e, refusal)
    PROVE  \A o \in Operations : RowMove(o)
<1>1. CASE UNCHANGED liability
    BY <1>1 DEF RowMove
<1>2. CASE /\ State(job[e].op) \in {"dispatching", "pending"}
           /\ liability' = [liability EXCEPT ![job[e].op] =
                              [liability[job[e].op] EXCEPT !.state = "unknown", !.refusal = refusal]]
    <2>1. ASSUME NEW o \in Operations, o # job[e].op PROVE liability'[o] = liability[o]
        BY <1>2, <2>1 DEF MoneyTypeOK
    <2>2. /\ liability[job[e].op] \in Rows
          /\ liability'[job[e].op] = [liability[job[e].op] EXCEPT !.state = "unknown", !.refusal = refusal]
        BY <1>2 DEF MoneyTypeOK
    <2>3. SameMoney(job[e].op) /\ liability'[job[e].op].state = "unknown"
        BY <2>2, RetainedRow DEF SameMoney
    <2>4. Carried(job[e].op)
        BY <1>2, <2>3 DEF Carried, HELD_STATES
    <2> QED
        BY <2>1, <2>4 DEF RowMove
<1> QED
    BY <1>1, <1>2 DEF RetainAs, MoneyTypeOK

\* Settling an operation that is held or settled.
LEMMA SettleSettles ==
    ASSUME MoneyTypeOK, NEW op \in Operations, NEW ev \in Evidences, Settle(op, ev),
           State(op) \in HELD_STATES \cup {"settled"}
    PROVE  \A o \in Operations : RowMove(o)
<1>1. CASE UNCHANGED liability
    BY <1>1 DEF RowMove
<1>2. CASE Settles(op, ev) /\ liability' = [liability EXCEPT ![op] = Settled(@, ev, Maximum[op])]
    <2>1. ASSUME NEW o \in Operations, o # op PROVE liability'[o] = liability[o]
        BY <1>2, <2>1 DEF MoneyTypeOK
    <2>2. liability'[op] = Settled(liability[op], ev, Maximum[op])
        BY <1>2 DEF MoneyTypeOK
    <2> QED
        BY <1>2, <2>1, <2>2 DEF RowMove, SettledBy
<1> QED
    BY <1>1, <1>2 DEF Settle

\* An operation of which something landed is held or settled.
LEMMA PaidOpen ==
    ASSUME MoneyTypeOK, ClaimInv, NEW op \in Operations, Paid(op) # {}
    PROVE  State(op) \in HELD_STATES \cup {"settled"}
<1>1. Out(op) # {}
    BY DEF Out, Paid
<1> QED
    BY <1>1 DEF ClaimInv, PaidIsHeld, HELD_STATES

\* Every step admits one operation, moves rows, or mints or revokes a grant.
LEMMA RowStep ==
    ASSUME MoneyTypeOK, ClaimInv, GrantsMinted, [Next]_vars
    PROVE  /\ lane' = lane
           /\ \/ \E op \in Operations, g \in Grants : Admission(op, g)
              \/ grant' = grant /\ \A op \in Operations : RowMove(op)
              \/ liability' = liability /\ \E g \in Grants : Mint(g) \/ Revoke(g)
<1> DEFINE Moves == grant' = grant /\ \A op \in Operations : RowMove(op)
           Goal == /\ lane' = lane
                   /\ \/ \E op \in Operations, g \in Grants : Admission(op, g)
                      \/ Moves
                      \/ liability' = liability /\ \E g \in Grants : Mint(g) \/ Revoke(g)
<1>0. ASSUME UNCHANGED <<lane, liability, grant>> PROVE Goal
    BY <1>0 DEF RowMove
<1>1. CASE UNCHANGED vars
    BY <1>0, <1>1 DEF vars
<1>2. ASSUME NEW g \in Grants, Mint(g) \/ Revoke(g) PROVE Goal
    BY <1>2 DEF Mint, Revoke
<1>3. ASSUME NEW e \in Executors, Observe(e) PROVE Goal
    BY <1>0, <1>3 DEF Observe
<1>4. ASSUME NEW e \in Executors, ReserveAgain(e) PROVE Goal
    BY <1>0, <1>4 DEF ReserveAgain
<1>5. ASSUME NEW e \in Executors, ReserveRefused(e) PROVE Goal
    BY <1>0, <1>5 DEF ReserveRefused
<1>6. ASSUME NEW e \in Executors, ClaimRefused(e) PROVE Goal
    BY <1>0, <1>6 DEF ClaimRefused
<1>7. ASSUME NEW e \in Executors, Send(e) PROVE Goal
    BY <1>0, <1>7 DEF Send
<1>8. ASSUME NEW e \in Executors, Answer(e) PROVE Goal
    BY <1>0, <1>8 DEF Answer
<1>9. ASSUME NEW e \in Executors, NoAnswer(e) PROVE Goal
    BY <1>0, <1>9 DEF NoAnswer
<1>10. ASSUME NEW e \in Executors, Crash(e) PROVE Goal
    BY <1>0, <1>10 DEF Crash
<1>11. ASSUME NEW e \in Executors, Stall(e) PROVE Goal
    BY <1>0, <1>11 DEF Stall
<1>12. ASSUME NEW e \in Executors, NEW op \in Operations, Begin(e, op) \/ Resume(e, op) PROVE Goal
    BY <1>0, <1>12 DEF Begin, Resume
<1>13. ASSUME NEW op \in Operations, NEW a \in Attempts, Arrive(op, a) PROVE Goal
    BY <1>0, <1>13 DEF Arrive
<1>14. ASSUME NEW e \in Executors, Reserve(e) PROVE Goal
    <2>1. job[e].op \in Operations
        BY <1>14 DEF Reserve, At, ClaimInv, JobsKnown
    <2>2. PICK op \in Operations : op = job[e].op
        BY <2>1
    <2>3. PICK g \in Grants :
             /\ Admits(g, op)
             /\ liability' = [liability EXCEPT ![op] =
                  [liability[op] EXCEPT !.state = "reserved", !.grant = g, !.reserver = e]]
        BY <1>14, <2>2 DEF Reserve, MoneyTypeOK
    <2>4. lane' = lane /\ grant' = grant /\ State(op) = "none"
        BY <1>14, <2>2 DEF Reserve
    <2>5. \A o \in Operations : o # op => liability'[o] = liability[o]
        BY <2>3 DEF MoneyTypeOK
    <2>6. liability[op] \in Rows
          /\ liability'[op] = [liability[op] EXCEPT !.state = "reserved", !.grant = g, !.reserver = e]
        BY <2>3 DEF MoneyTypeOK
    <2>7. /\ liability'[op].state = "reserved" /\ liability'[op].grant = g
          /\ liability'[op].line = liability[op].line /\ liability'[op].actual = liability[op].actual
          /\ liability'[op].overCap = liability[op].overCap /\ liability'[op].evidence = liability[op].evidence
        BY <2>6, ReservedRow
    <2>8. Admission(op, g)
        BY <2>3, <2>4, <2>5, <2>7 DEF Admission
    <2> QED
        BY <2>4, <2>8
<1>15. ASSUME NEW e \in Executors, Rereserve(e) PROVE Goal
    <2>1. job[e].op \in Operations
        BY <1>15 DEF Rereserve, At, ClaimInv, JobsKnown
    <2>2. PICK op \in Operations : op = job[e].op
        BY <2>1
    <2>3. PICK g \in Grants : g = liability[op].grant
        BY <1>15, <2>2 DEF Rereserve, GrantsMinted, CLOSED_STATES
    <2>4. liability' = [liability EXCEPT ![op] =
             [liability[op] EXCEPT !.state = "reserved", !.reserver = e, !.claimant = NoOne, !.token = 0]]
        BY <1>15, <2>2 DEF Rereserve, MoneyTypeOK
    <2>5. lane' = lane /\ grant' = grant /\ State(op) \in CLOSED_STATES /\ Admits(g, op)
        BY <1>15, <2>2, <2>3 DEF Rereserve
    <2>6. \A o \in Operations : o # op => liability'[o] = liability[o]
        BY <2>4 DEF MoneyTypeOK
    <2>7. liability[op] \in Rows
          /\ liability'[op] = [liability[op] EXCEPT !.state = "reserved", !.reserver = e, !.claimant = NoOne, !.token = 0]
        BY <2>4 DEF MoneyTypeOK
    <2>8. Admission(op, g)
        BY <2>3, <2>5, <2>6, <2>7 DEF Admission, Rows
    <2> QED
        BY <2>5, <2>8
<1>16. ASSUME NEW e \in Executors, ReleaseUnclaimed(e) PROVE Goal
    <2>1. job[e].op \in Operations
        BY <1>16 DEF ReleaseUnclaimed, At, ClaimInv, JobsKnown
    <2>2. /\ UNCHANGED <<lane, grant>>
          /\ \/ UNCHANGED liability
             \/ State(job[e].op) \in HELD_STATES /\ SetState(job[e].op, "released")
        BY <1>16 DEF ReleaseUnclaimed, HELD_STATES
    <2> QED
        BY <2>1, <2>2, StateCarried DEF HELD_STATES, CLOSED_STATES, RowMove
<1>17. ASSUME NEW e \in Executors, ClaimReleased(e) PROVE Goal
    <2>1. job[e].op \in Operations
        BY <1>17 DEF ClaimReleased, At, ClaimInv, JobsKnown
    <2>2. /\ UNCHANGED <<lane, grant>>
          /\ \/ UNCHANGED liability
             \/ State(job[e].op) \in HELD_STATES /\ SetState(job[e].op, "released")
        BY <1>17 DEF ClaimReleased, HELD_STATES
    <2> QED
        BY <2>1, <2>2, StateCarried DEF HELD_STATES, CLOSED_STATES, RowMove
<1>18. ASSUME NEW e \in Executors, NotSent(e) PROVE Goal
    <2>1. job[e].op \in Operations
        BY <1>18 DEF NotSent, At, ClaimInv, JobsKnown
    <2>2. /\ UNCHANGED <<lane, grant>>
          /\ \/ UNCHANGED liability
             \/ State(job[e].op) \in HELD_STATES /\ SetState(job[e].op, "unsent")
        BY <1>18 DEF NotSent, HELD_STATES
    <2> QED
        BY <2>1, <2>2, StateCarried DEF HELD_STATES, CLOSED_STATES, RowMove
<1>19. ASSUME NEW e \in Executors, MarkDispatched(e) PROVE Goal
    <2>1. job[e].op \in Operations
        BY <1>19 DEF MarkDispatched, At, ClaimInv, JobsKnown
    <2>2. /\ UNCHANGED <<lane, grant>>
          /\ \/ UNCHANGED liability
             \/ State(job[e].op) \in HELD_STATES /\ SetState(job[e].op, "pending")
        BY <1>19 DEF MarkDispatched, HELD_STATES
    <2> QED
        BY <2>1, <2>2, StateCarried DEF HELD_STATES, CLOSED_STATES, RowMove
<1>20. ASSUME NEW e \in Executors, Claim(e) PROVE Goal
    <2>1. job[e].op \in Operations
        BY <1>20 DEF Claim, At, ClaimInv, JobsKnown
    <2>2. PICK op \in Operations : op = job[e].op
        BY <2>1
    <2>3. PICK a : a = liability[op].attempt + 1
        OBVIOUS
    <2>4. liability' = [liability EXCEPT ![op] =
             [liability[op] EXCEPT !.state = "dispatching", !.token = a, !.claimant = e, !.attempt = a]]
        BY <1>20, <2>2, <2>3 DEF Claim, MoneyTypeOK
    <2>5. UNCHANGED <<lane, grant>> /\ State(op) = "reserved"
        BY <1>20, <2>2 DEF Claim
    <2>6. \A o \in Operations : o # op => liability'[o] = liability[o]
        BY <2>4 DEF MoneyTypeOK
    <2>7. liability[op] \in Rows
          /\ liability'[op] = [liability[op] EXCEPT !.state = "dispatching", !.token = a, !.claimant = e, !.attempt = a]
        BY <2>4 DEF MoneyTypeOK
    <2>8. Carried(op)
        BY <2>5, <2>7 DEF Carried, SameMoney, Rows, HELD_STATES
    <2> QED
        BY <2>5, <2>6, <2>8 DEF RowMove
<1>21. ASSUME NEW e \in Executors, Retain(e) PROVE Goal
    <2>1. job[e].op \in Operations
        BY <1>21 DEF Retain, At, ClaimInv, JobsKnown
    <2> QED
        BY <1>21, <2>1, RetainCarried DEF Retain
<1>22. ASSUME NEW e \in Executors, SettleReceipt(e) PROVE Goal
    <2>1. job[e].op \in Operations /\ Paid(job[e].op) # {} /\ UNCHANGED <<lane, grant>>
        BY <1>22 DEF SettleReceipt, At, ClaimInv, JobsKnown
    <2>2. State(job[e].op) \in HELD_STATES \cup {"settled"}
        BY <2>1, PaidOpen
    <2>3. PICK amount \in (IF job[e].op \in Prepaid THEN Amounts ELSE {}) \cup {Unproven} :
             UNCHANGED liability \/ Settle(job[e].op, [kind |-> "receipt", amount |-> amount])
        BY <1>22 DEF SettleReceipt
    <2>4. [kind |-> "receipt", amount |-> amount] \in Evidences
        BY EvidenceType, MoneyAssumption DEF EvidenceKinds
    <2>5. Moves
        BY <2>1, <2>2, <2>3, <2>4, SettleSettles DEF RowMove
    <2> QED
        BY <2>1, <2>5
<1>23. ASSUME NEW e \in Executors, Confirm(e) PROVE Goal
    <2>1. job[e].op \in Operations /\ UNCHANGED <<lane, grant>>
        BY <1>23 DEF Confirm, At, ClaimInv, JobsKnown
    <2>2. [kind |-> "chain", amount |-> Maximum[job[e].op]] \in Evidences
        BY <2>1, EvidenceType, MoneyAssumption DEF EvidenceKinds
    <2>3. UNCHANGED liability
          \/ (State(job[e].op) = "settled" /\ Settle(job[e].op, [kind |-> "chain", amount |-> Maximum[job[e].op]]))
        BY <1>23 DEF Confirm
    <2>4. Moves
        BY <2>1, <2>2, <2>3, SettleSettles DEF RowMove
    <2> QED
        BY <2>1, <2>4
<1>24. ASSUME NEW e \in Executors, SettleRefusal(e) PROVE Goal
    <2>1. job[e].op \in Operations /\ UNCHANGED <<lane, grant>>
        BY <1>24 DEF SettleRefusal, At, ClaimInv, JobsKnown
    <2>2. Refusal \in Evidences
        BY EvidenceType DEF EvidenceKinds, Refusal
    <2>3. CASE Settles(job[e].op, Refusal) /\ Settle(job[e].op, Refusal)
        <3>1. State(job[e].op) \in HELD_STATES
            BY <2>3 DEF Settles, Refusal
        <3>2. Moves
            BY <2>1, <2>2, <2>3, <3>1, SettleSettles
        <3> QED
            BY <2>1, <3>2
    <2>4. CASE RetainAs(e, TRUE)
        BY <2>1, <2>4, RetainCarried
    <2> QED
        BY <1>24, <2>3, <2>4 DEF SettleRefusal
<1>25. ASSUME NEW op \in Operations, Attest(op) PROVE Goal
    <2>1. UNCHANGED <<lane, grant>> /\ State(op) \in HELD_STATES \cup {"settled"}
        BY <1>25, PaidOpen DEF Attest
    <2>2. PICK amount \in Stated(op) : Settle(op, [kind |-> "attestation", amount |-> amount])
        BY <1>25 DEF Attest
    <2>3. [kind |-> "attestation", amount |-> amount] \in Evidences
        BY EvidenceType, MoneyAssumption DEF EvidenceKinds, Stated
    <2>4. Moves
        BY <2>1, <2>2, <2>3, SettleSettles
    <2> QED
        BY <2>1, <2>4
<1>26. ASSUME NEW op \in Operations, ProveUnsent(op) PROVE Goal
    BY <1>26, StateCarried DEF ProveUnsent, HELD_STATES, CLOSED_STATES
<1>27. ASSUME NEW op \in Operations, Age(op) PROVE Goal
    <2>1. \A o \in Operations : o # op => liability'[o] = liability[o]
        BY <1>27 DEF Age, MoneyTypeOK
    <2>2. Aged(op)
        BY <1>27 DEF Age, Aged, MoneyTypeOK
    <2> QED
        BY <1>27, <2>1, <2>2 DEF Age, RowMove
<1>28. ASSUME NEW e \in Executors, Reconcile(e) PROVE Goal
    <2>1. ASSUME NEW op \in Operations PROVE RowMove(op)
        <3>1. \/ liability'[op] = liability[op]
              \/ State(op) = "reserved" /\ liability'[op] = [liability[op] EXCEPT !.state = "released"]
              \/ /\ State(op) \in {"dispatching", "pending"}
                 /\ liability'[op] = [liability[op] EXCEPT !.state = "unknown", !.refusal = FALSE]
            BY <1>28 DEF Reconcile
        <3>2. liability[op] \in Rows
            BY DEF MoneyTypeOK
        <3> QED
            BY <3>1, <3>2 DEF RowMove, Carried, SameMoney, Rows, HELD_STATES, CLOSED_STATES
    <2> QED
        BY <1>28, <2>1 DEF Reconcile
<1>29. ASSUME NEW e \in Executors, Recover(e) PROVE Goal
    <2>1. Refusal \in Evidences
        BY EvidenceType DEF EvidenceKinds, Refusal
    <2>2. ASSUME NEW op \in Operations PROVE RowMove(op)
        <3>1. \/ liability'[op] = liability[op]
              \/ /\ State(op) = "unknown" /\ Settles(op, Refusal)
                 /\ liability'[op] = Settled(liability[op], Refusal, Maximum[op])
            BY <1>29 DEF Recover
        <3> QED
            BY <2>1, <3>1 DEF RowMove, SettledBy, HELD_STATES
    <2> QED
        BY <1>29, <2>2 DEF Recover
<1> QED
    BY <1>1, <1>2, <1>3, <1>4, <1>5, <1>6, <1>7, <1>8, <1>9, <1>10, <1>11, <1>12, <1>13, <1>14, <1>15, <1>16,
       <1>17, <1>18, <1>19, <1>20, <1>21, <1>22, <1>23, <1>24, <1>25, <1>26, <1>27, <1>28, <1>29
    DEF Next, InvocationStep

-----------------------------------------------------------------------------
(* What the money counts for, row by row.                                   *)

\* What a row counts for is natural, and what was admitted of it is part of that.
LEMMA AmountType ==
    ASSUME MoneyTypeOK, LinesSettled, NEW op \in Operations
    PROVE  LineAmount(op) \in Nat /\ Admitted(op) \in Nat /\ Admitted(op) <= LineAmount(op)
<1>1. liability[op] \in Rows /\ Maximum[op] \in Nat
    BY MoneyAssumption DEF MoneyTypeOK
<1>2. liability[op].actual \in Nat
    BY <1>1 DEF Rows
<1> QED
    BY <1>1, <1>2 DEF LineAmount, Admitted, LinesSettled

\* A row that moves keeps its grant, holds and counts for no more than it did, and
\* its line agrees with its evidence.
LEMMA RowKept ==
    ASSUME MoneyTypeOK, LinesSettled, EvidenceAgrees, NEW op \in Operations, RowMove(op)
    PROVE  /\ liability'[op].grant = liability[op].grant
           /\ liability'[op].state \in HELD_STATES => State(op) \in HELD_STATES
           /\ liability'[op].state # "none" => State(op) # "none"
           /\ Recent(op)' => Recent(op)
           /\ Admitted(op)' \in Nat /\ Admitted(op)' <= Admitted(op)
           /\ liability'[op].state # "settled" => liability'[op].line = "held"
           /\ liability'[op].overCap <=> liability'[op].line = "exact" /\ liability'[op].actual > Maximum[op]
           /\ \A ev \in liability'[op].evidence :
                ev.amount # Unproven => liability'[op].line = "exact" /\ ev.amount = liability'[op].actual
<1> DEFINE row == liability[op]
           new == liability'[op]
<1>1. row \in Rows /\ Maximum[op] \in Nat
    BY MoneyAssumption DEF MoneyTypeOK
<1>2. /\ row.state # "settled" => row.line = "held"
      /\ row.overCap <=> row.line = "exact" /\ row.actual > Maximum[op]
      /\ \A ev \in row.evidence : ev.amount # Unproven => row.line = "exact" /\ ev.amount = row.actual
    BY DEF LinesSettled, EvidenceAgrees, State
<1>3. CASE SameMoney(op) /\ (new.state = row.state \/ (State(op) \in HELD_STATES /\ new.state # "settled"))
                          /\ (State(op) \in HELD_STATES => new.state # "none")
                          /\ (new.aged <=> row.aged)
    <2>1. Admitted(op)' = Admitted(op)
        BY <1>3 DEF SameMoney, Admitted, LineAmount
    <2>2. Recent(op)' => Recent(op)
        BY <1>3 DEF Recent, Open, State, HELD_STATES
    <2> QED
        BY <1>2, <1>3, <2>1, <2>2, AmountType DEF SameMoney, State, HELD_STATES
<1>4. CASE SettledBy(op)
    <2>1. PICK ev \in Evidences : Settles(op, ev) /\ new = Settled(row, ev, Maximum[op])
        BY <1>4 DEF SettledBy
    <2> DEFINE proves == ev.amount # Unproven /\ row.line # "exact"
    <2>2. /\ new.state = "settled" /\ new.grant = row.grant /\ (new.aged <=> row.aged)
          /\ new.evidence = row.evidence \cup {ev}
          /\ proves => /\ new.line = "exact" /\ new.actual = ev.amount
                       /\ new.overCap <=> row.overCap \/ ev.amount > Maximum[op]
          /\ ~proves => /\ new.line = IF row.line = "held" THEN "bounded" ELSE row.line
                        /\ new.actual = row.actual
                        /\ new.overCap <=> row.overCap
        BY <1>1, <2>1, SettledMoney
    <2> HIDE DEF row, new
    <2>3. Recent(op)' => Recent(op)
        BY <1>4, <2>2 DEF Recent, Open, State, SettledBy, row, new
    <2>4. ev.amount \in Int /\ row.actual \in Nat /\ row.line \in {"held", "exact", "bounded"}
        BY <1>1 DEF Rows, Evidences
    <2>5. ev.amount # Unproven /\ row.line = "exact" => ev.amount = row.actual
        BY <2>1 DEF Settles, row
    <2>6. ev.amount # Unproven => ev.amount \in Nat
        BY DEF Evidences, Unproven
    <2>7. Admitted(op) = (IF row.overCap THEN Maximum[op] ELSE IF row.line = "exact" THEN row.actual ELSE Maximum[op])
        BY DEF Admitted, LineAmount, row
    <2>8. Admitted(op)' = (IF new.overCap THEN Maximum[op] ELSE IF new.line = "exact" THEN new.actual ELSE Maximum[op])
        BY DEF Admitted, LineAmount, new
    <2>9. Admitted(op)' \in Nat /\ Admitted(op)' <= Admitted(op)
        BY <1>1, <1>2, <2>2, <2>4, <2>6, <2>7, <2>8
    <2>10. new.overCap <=> new.line = "exact" /\ new.actual > Maximum[op]
        BY <1>2, <2>2, <2>4
    <2>11. ASSUME NEW old \in new.evidence, old.amount # Unproven
           PROVE  new.line = "exact" /\ old.amount = new.actual
        BY <1>2, <2>2, <2>5, <2>11
    <2>12. State(op) # "none" /\ State(op) = row.state
        BY <1>4 DEF SettledBy, HELD_STATES, State, row
    <2> QED
        BY <2>2, <2>3, <2>9, <2>10, <2>11, <2>12 DEF row, new, HELD_STATES
<1>5. CASE Aged(op)
    <2>1. new = [row EXCEPT !.aged = TRUE] /\ row.state = "settled"
        BY <1>5 DEF Aged, State
    <2>2. /\ new.state = row.state /\ new.grant = row.grant /\ new.line = row.line /\ new.actual = row.actual
          /\ new.overCap = row.overCap /\ new.evidence = row.evidence /\ new.aged
        BY <1>1, <2>1 DEF Rows
    <2>3. Admitted(op)' = Admitted(op)
        BY <2>2 DEF Admitted, LineAmount
    <2>4. ~Recent(op)'
        BY <2>1, <2>2 DEF Recent, State
    <2> QED
        BY <1>2, <2>1, <2>2, <2>3, <2>4, AmountType DEF State
<1>6. liability'[op] = liability[op] => SameMoney(op)
    BY DEF SameMoney
<1>7. Carried(op) => new.state # "settled" /\ new.state # "none" /\ SameMoney(op) /\ State(op) \in HELD_STATES
    BY DEF Carried, HELD_STATES, CLOSED_STATES
<1> QED
    BY <1>3, <1>4, <1>5, <1>6, <1>7 DEF RowMove, State, SameMoney, HELD_STATES

-----------------------------------------------------------------------------
(* Lines, grants and budgets, step by step.                                 *)

\* An admission leaves the other rows alone, and its own counts for the maximum.
LEMMA AdmissionCounts ==
    ASSUME MoneyTypeOK, LinesSettled, lane' = lane, NEW op \in Operations, NEW g, Admission(op, g)
    PROVE  /\ Admitted(op)' = Maximum[op] /\ LineAmount(op) = Maximum[op] /\ Recent(op)'
           /\ Maximum[op] \in Nat /\ ~Recent(op)
           /\ \A o \in Operations : o # op =>
                /\ Admitted(o)' = Admitted(o) /\ Recent(o)' = Recent(o)
                /\ liability'[o] = liability[o]
<1>1. liability[op].line = "held" /\ State(op) # "settled" /\ State(op) \notin HELD_STATES
    BY DEF LinesSettled, Admission, CLOSED_STATES, HELD_STATES
<1>2. LineAmount(op) = Maximum[op] /\ Admitted(op)' = Maximum[op]
    BY <1>1 DEF LineAmount, Admitted, Admission
<1>3. Recent(op)' /\ ~Recent(op)
    BY <1>1 DEF Recent, Open, State, HELD_STATES, Admission
<1>4. ASSUME NEW o \in Operations, o # op
      PROVE  Admitted(o)' = Admitted(o) /\ Recent(o)' = Recent(o) /\ liability'[o] = liability[o]
    <2>1. liability'[o] = liability[o]
        BY <1>4 DEF Admission
    <2> QED
        BY <2>1 DEF Admitted, LineAmount, Recent, Open, State
<1> QED
    BY <1>2, <1>3, <1>4, MoneyAssumption

\* Lines, grants and budgets: the invariant is kept.
LEMMA LineStep ==
    ASSUME MoneyTypeOK, ClaimInv, LineInv, [Next]_vars
    PROVE  LineInv'
<1>1. LinesSettled /\ GrantsMinted /\ BudgetCarries /\ EvidenceAgrees
    BY DEF LineInv
<1>2. /\ lane' = lane
      /\ \/ \E op \in Operations, g \in Grants : Admission(op, g)
         \/ grant' = grant /\ \A op \in Operations : RowMove(op)
         \/ liability' = liability /\ \E g \in Grants : Mint(g) \/ Revoke(g)
    BY <1>1, RowStep
<1>3. Prepaid' = Prepaid
    BY <1>2 DEF Prepaid
<1>4. ASSUME NEW op \in Operations, NEW g \in Grants, Admission(op, g) PROVE LineInv'
    <2>1. /\ grant' = grant /\ Covers(g, op)
          /\ \A o \in Operations : o # op => liability'[o] = liability[o]
          /\ State(op) \in CLOSED_STATES \cup {"none"}
          /\ liability'[op].state = "reserved" /\ liability'[op].grant = g
          /\ liability'[op].line = liability[op].line /\ liability'[op].actual = liability[op].actual
          /\ liability'[op].overCap = liability[op].overCap /\ liability'[op].evidence = liability[op].evidence
        BY <1>4 DEF Admission, Admits, GrantAllows
    <2>2. LinesSettled'
        <3>1. liability[op].line = "held"
            BY <1>1, <2>1 DEF LinesSettled, CLOSED_STATES
        <3> QED
            BY <1>1, <2>1, <3>1 DEF LinesSettled, State
    <2>3. EvidenceAgrees'
        BY <1>1, <2>1 DEF EvidenceAgrees
    <2>4. GrantsMinted'
        BY <1>1, <1>3, <2>1 DEF GrantsMinted, State, Covers
    <2>5. ASSUME NEW h \in Budgets, grant[h].state = "active", NEW o \in Prepaid, liability'[o].state \in HELD_STATES
          PROVE  o \in Charged(h)'
        <3>1. o \in Operations /\ h \in Grants
            BY MoneyAssumption DEF Prepaid
        <3>2. CASE o = op
            <4>1. g = h
                BY <1>1, <2>1, <2>5, <3>2 DEF Covers, BudgetCarries
            <4> QED
                BY <2>1, <3>1, <3>2, <4>1 DEF Charged
        <3>3. CASE o # op
            <4>1. liability'[o] = liability[o] /\ State(o) \in HELD_STATES
                BY <2>1, <2>5, <3>1, <3>3 DEF State
            <4>2. o \in Charged(h)
                BY <1>1, <2>5, <4>1 DEF BudgetCarries
            <4> QED
                BY <2>1, <3>1, <4>1, <4>2 DEF Charged
        <3> QED
            BY <3>2, <3>3
    <2>6. BudgetCarries'
        BY <1>1, <1>3, <2>1, <2>5 DEF BudgetCarries, State
    <2> QED
        BY <2>2, <2>3, <2>4, <2>6 DEF LineInv
<1>5. ASSUME grant' = grant, \A op \in Operations : RowMove(op) PROVE LineInv'
    <2>1. ASSUME NEW op \in Operations
          PROVE  /\ liability'[op].grant = liability[op].grant
                 /\ liability'[op].state \in HELD_STATES => State(op) \in HELD_STATES
                 /\ liability'[op].state # "none" => State(op) # "none"
                 /\ liability'[op].state # "settled" => liability'[op].line = "held"
                 /\ liability'[op].overCap <=> liability'[op].line = "exact" /\ liability'[op].actual > Maximum[op]
                 /\ \A ev \in liability'[op].evidence :
                      ev.amount # Unproven => liability'[op].line = "exact" /\ ev.amount = liability'[op].actual
        BY <1>1, <1>5, RowKept
    <2>2. LinesSettled' /\ EvidenceAgrees'
        BY <2>1 DEF LinesSettled, EvidenceAgrees, State
    <2>3. GrantsMinted'
        BY <1>1, <1>3, <1>5, <2>1 DEF GrantsMinted, State
    <2>4. ASSUME NEW g \in Grants PROVE Charged(g)' = Charged(g)
        BY <1>5, <2>1 DEF Charged
    <2>5. \A op \in Prepaid : liability'[op].state \in HELD_STATES => State(op) \in HELD_STATES
        BY <2>1 DEF Prepaid
    <2>6. BudgetCarries'
        BY <1>1, <1>3, <1>5, <2>4, <2>5, MoneyAssumption DEF BudgetCarries, State
    <2> QED
        BY <2>2, <2>3, <2>6 DEF LineInv
<1>6. ASSUME liability' = liability, NEW g \in Grants, Mint(g) PROVE LineInv'
    <2>1. LinesSettled' /\ EvidenceAgrees'
        BY <1>1, <1>6 DEF LinesSettled, EvidenceAgrees, State
    <2>2. /\ grant[g].state = "none" /\ grant'[g].state = "active"
          /\ grant'[g].carried = IF g \in Budgets THEN {op \in Prepaid : State(op) \in HELD_STATES} ELSE {}
        BY <1>6 DEF Mint
    <2>3. ASSUME NEW h \in Grants, h # g
          PROVE  /\ grant'[h] = grant[h] \/ (grant'[h].state = "revoked" /\ grant[h].state = "active")
                 /\ grant'[h].carried = grant[h].carried
                 /\ g \in Budgets /\ h \in Budgets => grant'[h].state # "active"
        <3>1. grant[h] \in GrantRows
            BY DEF MoneyTypeOK
        <3>2. grant'[h] = IF g \in Budgets /\ h \in Budgets /\ grant[h].state = "active"
                          THEN [grant[h] EXCEPT !.state = "revoked"] ELSE grant[h]
            BY <1>6, <2>3 DEF Mint
        <3> QED
            BY <3>1, <3>2 DEF GrantRows
    <2>4. GrantsMinted'
        BY <1>1, <1>3, <1>6, <2>2, <2>3 DEF GrantsMinted, State
    <2>5. ASSUME NEW h \in Budgets, NEW k \in Budgets, grant'[h].state = "active", grant'[k].state = "active"
          PROVE  h = k
        BY <1>1, <2>2, <2>3, <2>5, MoneyAssumption DEF BudgetCarries
    <2>6. ASSUME NEW h \in Grants PROVE grant'[h].carried \subseteq Prepaid
        BY <1>1, <2>2, <2>3 DEF BudgetCarries
    <2>7. ASSUME NEW h \in Budgets, grant'[h].state = "active", NEW o \in Prepaid, State(o) \in HELD_STATES
          PROVE  o \in Charged(h)'
        <3>1. CASE h = g
            BY <2>2, <2>7, <3>1 DEF Charged
        <3>2. CASE h # g
            <4>1. h \in Grants /\ grant'[h] = grant[h]
                BY <2>3, <2>7, <3>2, MoneyAssumption
            <4> QED
                BY <1>1, <1>6, <2>7, <4>1 DEF BudgetCarries, Charged
        <3> QED
            BY <3>1, <3>2
    <2>8. BudgetCarries'
        BY <1>3, <1>6, <2>5, <2>6, <2>7 DEF BudgetCarries, State
    <2> QED
        BY <2>1, <2>4, <2>8 DEF LineInv
<1>7. ASSUME liability' = liability, NEW g \in Grants, Revoke(g) PROVE LineInv'
    <2>1. LinesSettled' /\ EvidenceAgrees'
        BY <1>1, <1>7 DEF LinesSettled, EvidenceAgrees, State
    <2>2. ASSUME NEW h \in Grants
          PROVE  /\ grant'[h].state # "none" <=> grant[h].state # "none"
                 /\ grant'[h].carried = grant[h].carried
                 /\ grant'[h].state = "active" => grant[h].state = "active"
        <3>1. grant[h] \in GrantRows /\ grant[g].state = "active"
            BY <1>7 DEF MoneyTypeOK, Revoke
        <3>2. grant'[h] = IF h = g THEN [grant[h] EXCEPT !.state = "revoked"] ELSE grant[h]
            BY <1>7 DEF Revoke, MoneyTypeOK
        <3> QED
            BY <3>1, <3>2 DEF GrantRows
    <2>3. GrantsMinted'
        BY <1>1, <1>3, <1>7, <2>2 DEF GrantsMinted, State
    <2>4. ASSUME NEW h \in Grants PROVE Charged(h)' = Charged(h)
        BY <1>7, <2>2 DEF Charged
    <2>5. BudgetCarries'
        BY <1>1, <1>3, <1>7, <2>2, <2>4, MoneyAssumption DEF BudgetCarries, State
    <2> QED
        BY <2>1, <2>3, <2>5 DEF LineInv
<1> QED
    BY <1>2, <1>4, <1>5, <1>6, <1>7

-----------------------------------------------------------------------------
(* Limits.                                                                  *)

\* What the rows of some operations count for, and what was admitted of it, are
\* natural numbers, the second no more than the first.
LEMMA CountType ==
    ASSUME MoneyTypeOK, LinesSettled, NEW S, S \subseteq Operations
    PROVE  LineSum(S) \in Nat /\ AdmittedSum(S) \in Nat
<1>0. IsFiniteSet(S)
    BY SomeOperations
<1>1. \A op \in Operations : LineAmount(op) \in Nat /\ Admitted(op) \in Nat
    BY AmountType
<1>2. Sum([op \in Operations |-> LineAmount(op)], S) \in Nat
    BY <1>0, <1>1, SumType
<1>3. Sum([op \in Operations |-> Admitted(op)], S) \in Nat
    BY <1>0, <1>1, SumType
<1> QED
    BY <1>2, <1>3 DEF LineSum, AdmittedSum

\* When no row of a set counts for more than it did, nor does the set.
LEMMA CountsLess ==
    ASSUME MoneyTypeOK, LinesSettled, NEW S, NEW T, S \subseteq T, T \subseteq Operations,
           \A op \in S : Admitted(op)' \in Nat /\ Admitted(op)' <= Admitted(op)
    PROVE  AdmittedSum(S)' \in Nat /\ AdmittedSum(S)' <= AdmittedSum(T)
<1> DEFINE now == [op \in Operations |-> Admitted(op)]
           next == [op \in Operations |-> Admitted(op)']
<1>0. IsFiniteSet(S) /\ IsFiniteSet(T)
    BY SomeOperations
<1>1. \A op \in T : now[op] \in Nat
    BY AmountType
<1>2. \A op \in S : next[op] \in Nat /\ next[op] <= now[op]
    OBVIOUS
<1>3. Sum(next, S) <= Sum(now, T)
    <2> HIDE DEF now, next
    <2> QED BY <1>0, <1>1, <1>2, SumMonotone
<1>4. Sum(next, S) \in Nat
    <2> HIDE DEF now, next
    <2> QED BY <1>0, <1>2, SumType
<1> QED
    BY <1>3, <1>4 DEF AdmittedSum, Sum, Units

\* An admission adds its maximum to what the other rows count for.
LEMMA CountsAdmission ==
    ASSUME MoneyTypeOK, LinesSettled, lane' = lane, NEW op \in Operations, NEW g, Admission(op, g),
           NEW S, NEW T, S \subseteq T \cup {op}, T \subseteq Operations, op \notin T
    PROVE  AdmittedSum(S)' \in Nat /\ AdmittedSum(S)' <= LineSum(T) + Maximum[op]
<1> DEFINE line == [o \in Operations |-> LineAmount(o)]
           next == [o \in Operations |-> Admitted(o)']
<1>0. IsFiniteSet(S) /\ IsFiniteSet(T) /\ IsFiniteSet({op}) /\ IsFiniteSet(T \cup {op})
    BY SomeOperations
<1>1. /\ Admitted(op)' = Maximum[op] /\ LineAmount(op) = Maximum[op] /\ Maximum[op] \in Nat
      /\ \A o \in Operations : o # op => Admitted(o)' = Admitted(o)
    BY AdmissionCounts
<1>2. \A o \in Operations : line[o] \in Nat /\ next[o] \in Nat /\ next[o] <= line[o]
    BY <1>1, AmountType
<1>3. line[op] = Maximum[op]
    BY <1>1
<1>4. Sum(next, S) <= Sum(line, T \cup {op})
    <2> HIDE DEF line, next
    <2> QED BY <1>0, <1>2, SumMonotone
<1>5. Sum(line, T \cup {op}) = Sum(line, T) + Sum(line, {op})
    <2> HIDE DEF line, next
    <2> QED BY <1>0, <1>2, SumDisjoint
<1>6. Sum(line, {op}) = line[op]
    <2> HIDE DEF line, next
    <2> QED BY <1>2, SumSingleton
<1>7. AdmittedSum(S)' = Sum(next, S) /\ LineSum(T) = Sum(line, T)
    BY DEF AdmittedSum, LineSum, Sum, Units
<1>8. Sum(next, S) \in Nat
    <2> HIDE DEF line, next
    <2> QED BY <1>0, <1>2, SumType
<1> HIDE DEF line, next
<1> QED
    BY <1>3, <1>4, <1>5, <1>6, <1>7, <1>8

\* Lines, grants and budgets hold at first.
LEMMA LineInit == Init => LineInv /\ RuleHeld /\ BudgetCoversCommitments
<1> SUFFICES ASSUME Init PROVE LineInv /\ RuleHeld /\ BudgetCoversCommitments
    OBVIOUS
<1>1. \A op \in Operations : /\ State(op) = "none" /\ liability[op].line = "held" /\ ~liability[op].overCap
                             /\ liability[op].evidence = {}
    BY DEF Init, NoLiability, State
<1>2. \A g \in Grants : grant[g].state = "none" /\ grant[g].carried = {}
    BY DEF Init
<1>3. LinesSettled /\ GrantsMinted /\ EvidenceAgrees
    BY <1>1 DEF LinesSettled, GrantsMinted, EvidenceAgrees
<1>4. BudgetCarries
    BY <1>2, MoneyAssumption DEF BudgetCarries
<1>5. BudgetCoversCommitments
    BY <1>2, MoneyAssumption DEF BudgetCoversCommitments
<1>6. {op \in Operations : Recent(op)} = {}
    BY <1>1 DEF Recent, Open, HELD_STATES
<1>7. AdmittedSum({}) = 0
    BY SumEmpty DEF AdmittedSum
<1>8. RuleHeld
    BY <1>6, <1>7, MoneyAssumption DEF RuleHeld
<1> QED
    BY <1>3, <1>4, <1>5, <1>8 DEF LineInv

\* No step exceeds the limit of the rule.
LEMMA RuleStep ==
    ASSUME MoneyTypeOK, ClaimInv, LineInv, RuleHeld, [Next]_vars
    PROVE  RuleHeld'
<1>0. PICK S, N : S = {op \in Operations : Recent(op)} /\ N = {op \in Operations : Recent(op)'}
    OBVIOUS
<1>1. LinesSettled /\ GrantsMinted /\ EvidenceAgrees /\ AdmittedSum(S) <= RuleLimit
    BY <1>0 DEF LineInv, RuleHeld
<1>2. /\ lane' = lane
      /\ \/ \E op \in Operations, g \in Grants : Admission(op, g)
         \/ grant' = grant /\ \A op \in Operations : RowMove(op)
         \/ liability' = liability /\ \E g \in Grants : Mint(g) \/ Revoke(g)
    BY <1>1, RowStep
<1>3. SUFFICES AdmittedSum(N)' <= RuleLimit
    BY <1>0 DEF RuleHeld
<1>4. ASSUME NEW op \in Operations, NEW g \in Grants, Admission(op, g) PROVE AdmittedSum(N)' <= RuleLimit
    <2>1. ~Recent(op) /\ \A o \in Operations : o # op => (Recent(o)' = Recent(o))
        BY <1>1, <1>2, <1>4, AdmissionCounts
    <2>2. N \subseteq S \cup {op} /\ op \notin S /\ S \subseteq Operations
        BY <1>0, <2>1
    <2>3. LineSum(S) + Maximum[op] <= RuleLimit
        BY <1>0, <1>4 DEF Admission, Admits, RuleAllows, RuleUsage
    <2>4. AdmittedSum(N)' \in Nat /\ AdmittedSum(N)' <= LineSum(S) + Maximum[op]
        BY <1>1, <1>2, <1>4, <2>2, CountsAdmission
    <2>5. LineSum(S) \in Nat /\ Maximum[op] \in Nat /\ RuleLimit \in Nat
        BY <1>1, <2>2, CountType, MoneyAssumption
    <2> QED
        BY <2>3, <2>4, <2>5
<1>5. ASSUME \A op \in Operations : RowMove(op) PROVE AdmittedSum(N)' <= RuleLimit
    <2>1. \A op \in Operations : /\ Recent(op)' => Recent(op)
                                 /\ Admitted(op)' \in Nat /\ Admitted(op)' <= Admitted(op)
        BY <1>1, <1>5, RowKept
    <2>2. N \subseteq S /\ S \subseteq Operations /\ N \subseteq Operations
        BY <1>0, <2>1
    <2>3. AdmittedSum(N)' \in Nat /\ AdmittedSum(N)' <= AdmittedSum(S)
        BY <1>1, <2>1, <2>2, CountsLess
    <2>4. AdmittedSum(S) \in Nat /\ RuleLimit \in Nat
        BY <1>1, <2>2, CountType, MoneyAssumption
    <2> QED
        BY <1>1, <2>3, <2>4
<1>6. CASE liability' = liability
    BY <1>5, <1>6 DEF RowMove
<1> QED
    BY <1>2, <1>4, <1>5, <1>6

\* A provider budget that something is held under covers, in every step, all that
\* is held and its own spending.
LEMMA BudgetStep ==
    ASSUME MoneyTypeOK, ClaimInv, LineInv, BudgetCoversCommitments, [Next]_vars
    PROVE  BudgetCoversCommitments'
<1> SUFFICES ASSUME NEW b \in Budgets, grant'[b].state = "active",
                    NEW o \in Operations, liability'[o].grant = b, liability'[o].state \in HELD_STATES
             PROVE  AdmittedSum({op \in Prepaid : State(op) \in HELD_STATES \/ (op \in Charged(b) /\ Recent(op))})'
                      <= Total[b]
    BY DEF BudgetCoversCommitments, State
<1>0. PICK S, N : /\ S = {op \in Prepaid : State(op) \in HELD_STATES \/ (op \in Charged(b) /\ Recent(op))}
                  /\ N = {op \in Prepaid : liability'[op].state \in HELD_STATES \/ (op \in Charged(b)' /\ Recent(op)')}
    OBVIOUS
<1>1. LinesSettled /\ GrantsMinted /\ BudgetCarries /\ EvidenceAgrees /\ b \in Grants /\ Total[b] \in Nat
    BY MoneyAssumption DEF LineInv
<1>2. /\ lane' = lane
      /\ \/ \E op \in Operations, g \in Grants : Admission(op, g)
         \/ grant' = grant /\ \A op \in Operations : RowMove(op)
         \/ liability' = liability /\ \E g \in Grants : Mint(g) \/ Revoke(g)
    BY <1>1, RowStep
<1>3. Prepaid' = Prepaid /\ Prepaid \subseteq Operations
    BY <1>2 DEF Prepaid
<1>4. SUFFICES AdmittedSum(N)' <= Total[b]
    BY <1>0, <1>3 DEF State
<1>5. S \subseteq Operations /\ N \subseteq Operations /\ AdmittedSum(S) \in Nat
    BY <1>0, <1>1, <1>3, CountType
<1>6. ASSUME grant[b].state = "active",
             \E op \in Operations : liability[op].grant = b /\ State(op) \in HELD_STATES,
             N \subseteq S, \A op \in N : Admitted(op)' \in Nat /\ Admitted(op)' <= Admitted(op)
      PROVE  AdmittedSum(N)' <= Total[b]
    <2>1. AdmittedSum(S) <= Total[b]
        BY <1>0, <1>6 DEF BudgetCoversCommitments
    <2>2. AdmittedSum(N)' \in Nat /\ AdmittedSum(N)' <= AdmittedSum(S)
        BY <1>1, <1>5, <1>6, CountsLess
    <2> QED
        BY <1>1, <1>5, <2>1, <2>2
<1>7. ASSUME NEW op \in Operations, NEW g \in Grants, Admission(op, g) PROVE AdmittedSum(N)' <= Total[b]
    <2>1. /\ ~Recent(op) /\ Maximum[op] \in Nat
          /\ \A p \in Operations : p # op =>
               /\ Admitted(p)' = Admitted(p) /\ Recent(p)' = Recent(p)
               /\ liability'[p] = liability[p]
        BY <1>1, <1>2, <1>7, AdmissionCounts
    <2>2. /\ grant' = grant /\ Covers(g, op) /\ GrantUsage(g, op) + Maximum[op] <= Total[g]
          /\ liability'[op].grant = g
        BY <1>7 DEF Admission, Admits, GrantAllows
    <2>3. ASSUME NEW p \in Operations, p # op PROVE p \in Charged(b)' => p \in Charged(b)
        BY <2>1, <2>2, <2>3 DEF Charged
    <2>4. CASE g = b
        <3>1. PICK T : T = {p \in Charged(b) \ {op} : Recent(p)}
            OBVIOUS
        <3>2. T \subseteq Operations /\ op \notin T
            BY <1>1, <1>3, <3>1 DEF Charged, BudgetCarries
        <3>3. ASSUME NEW p \in N, p # op PROVE p \in T
            <4>1. p \in Prepaid /\ p \in Operations /\ liability'[p] = liability[p] /\ Recent(p)' = Recent(p)
                BY <1>0, <1>3, <2>1, <3>3
            <4>2. CASE State(p) \in HELD_STATES
                <5>1. p \in Charged(b)
                    BY <1>1, <2>2, <4>1, <4>2 DEF BudgetCarries
                <5>2. Recent(p)
                    BY <4>2 DEF Recent, Open, HELD_STATES
                <5> QED
                    BY <3>1, <3>3, <5>1, <5>2
            <4>3. CASE p \in Charged(b)' /\ Recent(p)'
                BY <2>3, <3>1, <3>3, <4>1, <4>3
            <4> QED
                BY <1>0, <4>1, <4>2, <4>3 DEF State
        <3>4. N \subseteq T \cup {op}
            BY <3>3
        <3>5. AdmittedSum(N)' \in Nat /\ AdmittedSum(N)' <= LineSum(T) + Maximum[op]
            BY <1>1, <1>2, <1>7, <3>2, <3>4, CountsAdmission
        <3>6. GrantUsage(g, op) = LineSum(T)
            BY <2>4, <3>1 DEF GrantUsage
        <3>7. LineSum(T) \in Nat
            BY <1>1, <3>2, CountType
        <3> QED
            BY <1>1, <2>1, <2>2, <2>4, <3>5, <3>6, <3>7
    <2>5. CASE g # b
        <3>1. g \notin Budgets /\ op \notin Prepaid
            BY <1>1, <2>2, <2>5 DEF Covers, BudgetCarries
        <3>2. o # op
            BY <2>2, <2>5
        <3>3. liability[o].grant = b /\ State(o) \in HELD_STATES /\ grant[b].state = "active"
            BY <2>1, <2>2, <3>2 DEF State
        <3>4. ASSUME NEW p \in N
              PROVE  p \in S /\ Admitted(p)' \in Nat /\ Admitted(p)' <= Admitted(p)
            <4>1. p \in Prepaid /\ p \in Operations /\ p # op
                BY <1>0, <1>3, <3>1
            <4>2. Admitted(p)' = Admitted(p) /\ Recent(p)' = Recent(p) /\ liability'[p] = liability[p]
                BY <2>1, <4>1
            <4> QED
                BY <1>0, <1>1, <2>3, <4>1, <4>2, AmountType DEF State
        <3> QED
            BY <1>6, <3>3, <3>4
    <2> QED
        BY <2>4, <2>5
<1>8. ASSUME grant' = grant, \A op \in Operations : RowMove(op) PROVE AdmittedSum(N)' <= Total[b]
    <2>1. ASSUME NEW op \in Operations
          PROVE  /\ liability'[op].grant = liability[op].grant
                 /\ liability'[op].state \in HELD_STATES => State(op) \in HELD_STATES
                 /\ Recent(op)' => Recent(op)
                 /\ Admitted(op)' \in Nat /\ Admitted(op)' <= Admitted(op)
        BY <1>1, <1>8, RowKept
    <2>2. Charged(b)' = Charged(b)
        BY <1>8, <2>1 DEF Charged
    <2>3. N \subseteq S
        BY <1>0, <1>3, <2>1, <2>2
    <2> QED
        BY <1>5, <1>6, <1>8, <2>1, <2>3
<1>9. ASSUME liability' = liability, NEW g \in Grants, Mint(g) \/ Revoke(g) PROVE AdmittedSum(N)' <= Total[b]
    <2>1. liability[o].grant = b /\ State(o) \in HELD_STATES /\ State(o) # "none"
        BY <1>9 DEF State, HELD_STATES
    <2>2. grant[b].state # "none"
        BY <1>1, <2>1 DEF GrantsMinted
    <2>3. grant'[b] = grant[b]
        <3>1. ASSUME Mint(g) PROVE grant'[b] = grant[b]
            <4>1. b # g
                BY <2>2, <3>1 DEF Mint
            <4>2. grant'[b] = grant[b] \/ grant'[b] = [grant[b] EXCEPT !.state = "revoked"]
                BY <1>1, <3>1, <4>1 DEF Mint
            <4>3. grant[b] \in GrantRows
                BY <1>1 DEF MoneyTypeOK
            <4> QED
                BY <4>2, <4>3 DEF GrantRows
        <3>2. ASSUME Revoke(g) PROVE grant'[b] = grant[b]
            BY <1>1, <3>2 DEF Revoke, MoneyTypeOK, GrantRows
        <3> QED
            BY <1>9, <3>1, <3>2
    <2>4. \A op \in Operations : /\ liability'[op] = liability[op] /\ Recent(op)' = Recent(op)
                                 /\ Admitted(op)' = Admitted(op)
        BY <1>9 DEF Recent, Open, State, Admitted, LineAmount
    <2>5. Charged(b)' = Charged(b)
        BY <1>9, <2>3 DEF Charged
    <2>6. N \subseteq S
        BY <1>0, <1>3, <2>4, <2>5 DEF State
    <2>7. \A op \in N : Admitted(op)' \in Nat /\ Admitted(op)' <= Admitted(op)
        BY <1>1, <1>5, <2>4, AmountType
    <2> QED
        BY <1>6, <2>1, <2>3, <2>6, <2>7
<1> QED
    BY <1>2, <1>7, <1>8, <1>9

\* All that is proved of the law holds throughout.
LEMMA MoneyKept == Spec => [](MoneyTypeOK /\ ClaimInv /\ LineInv /\ RuleHeld /\ BudgetCoversCommitments)
<1> DEFINE Inv == MoneyTypeOK /\ ClaimInv /\ LineInv /\ RuleHeld /\ BudgetCoversCommitments
<1>1. Init => Inv
    BY ClaimInit, LineInit
<1>2. Inv /\ [Next]_vars => Inv'
    <2> SUFFICES ASSUME Inv, [Next]_vars PROVE Inv'
        OBVIOUS
    <2>1. MoneyTypeOK'
        BY TypeStep DEF ClaimInv
    <2>2. ClaimInv'
        BY <2>1, ClaimStep
    <2>3. LineInv' /\ RuleHeld' /\ BudgetCoversCommitments'
        BY LineStep, RuleStep, BudgetStep
    <2> QED
        BY <2>1, <2>2, <2>3
<1> QED
    BY <1>1, <1>2, PTL DEF Spec

\* Evidence that states an amount agrees with the line it settled, in whatever
\* order it comes (settle_liability refuses what conflicts).
THEOREM EvidenceAlwaysAgrees == Spec => []EvidenceAgrees
<1>1. LineInv => EvidenceAgrees
    BY DEF LineInv
<1> QED
    BY <1>1, MoneyKept, PTL

\* What the window was admitted for stays within the limit of the money rule, for
\* any number of operations and processes (_check_rules).
THEOREM RuleNeverExceeded == Spec => []RuleHeld
BY MoneyKept, PTL

\* A provider budget in use covers its spending and all that is held, its own and
\* what it carries from the budgets it replaced (_grant_usage).
THEOREM BudgetAlwaysCovers == Spec => []BudgetCoversCommitments
BY MoneyKept, PTL

-----------------------------------------------------------------------------
(* The promise.                                                             *)

\* What the promise sees of an operation.
Seen(op) == CASE State(op) \in HELD_STATES -> "held"
              [] State(op) = "settled" -> "settled"
              [] OTHER -> "free"

\* What is out of an operation is nothing, or its latest attempt.
LEMMA Exposed ==
    ASSUME ClaimInv, NEW op \in Operations
    PROVE  /\ Out(op) = {} \/ Out(op) = {liability[op].attempt}
           /\ Out(op) = {} => Cardinality(Out(op)) = 0
           /\ Out(op) # {} => Cardinality(Out(op)) = 1
<1>1. Out(op) = {} \/ Out(op) = {liability[op].attempt}
    BY DEF ClaimInv, LatestOut, Out
<1>2. Cardinality({}) = 0 /\ Cardinality({liability[op].attempt}) = 1
    BY FS_EmptySet, FS_Singleton
<1> QED
    BY <1>1, <1>2

\* Only a payment that leaves or arrives changes what is out, and it writes no row.
LEMMA OutcomeStep ==
    ASSUME [Next]_vars
    PROVE  \/ outcome' = outcome
           \/ liability' = liability /\ \E e \in Executors : Send(e)
           \/ liability' = liability /\ \E op \in Operations, a \in Attempts : Arrive(op, a)
<1>1. CASE UNCHANGED vars
    BY <1>1 DEF vars
<1>2. ASSUME NEW g \in Grants, Mint(g) \/ Revoke(g) PROVE outcome' = outcome
    BY <1>2 DEF Mint, Revoke
<1>3. ASSUME NEW e \in Executors, InvocationStep(e) PROVE outcome' = outcome \/ (Send(e) /\ liability' = liability)
    <2>1. CASE Observe(e) \/ Reserve(e) \/ Rereserve(e) \/ ReserveAgain(e) \/ ReserveRefused(e) \/ ReleaseUnclaimed(e)
        BY <2>1 DEF Observe, Reserve, Rereserve, ReserveAgain, ReserveRefused, ReleaseUnclaimed
    <2>2. CASE Claim(e) \/ ClaimReleased(e) \/ ClaimRefused(e) \/ Send(e) \/ NotSent(e) \/ Answer(e) \/ NoAnswer(e)
        BY <2>2 DEF Claim, ClaimReleased, ClaimRefused, Send, NotSent, Answer, NoAnswer
    <2>3. CASE MarkDispatched(e) \/ Retain(e) \/ SettleReceipt(e) \/ Confirm(e) \/ SettleRefusal(e)
        BY <2>3 DEF MarkDispatched, Retain, SettleReceipt, Confirm, SettleRefusal
    <2>4. CASE Reconcile(e) \/ Recover(e)
        BY <2>4 DEF Reconcile, Recover
    <2> QED
        BY <1>3, <2>1, <2>2, <2>3, <2>4 DEF InvocationStep
<1>4. ASSUME NEW e \in Executors, Crash(e) \/ Stall(e) PROVE outcome' = outcome
    BY <1>4 DEF Crash, Stall
<1>5. ASSUME NEW e \in Executors, NEW op \in Operations, Begin(e, op) \/ Resume(e, op) PROVE outcome' = outcome
    BY <1>5 DEF Begin, Resume
<1>6. ASSUME NEW op \in Operations, Attest(op) \/ ProveUnsent(op) \/ Age(op) PROVE outcome' = outcome
    BY <1>6 DEF Attest, ProveUnsent, Age
<1>7. ASSUME NEW op \in Operations, NEW a \in Attempts, Arrive(op, a) PROVE liability' = liability
    BY <1>7 DEF Arrive
<1> QED
    BY <1>1, <1>2, <1>3, <1>4, <1>5, <1>6, <1>7 DEF Next

\* A step that moves rows and nothing that is out gives back or closes what is held.
LEMMA MovesResolve ==
    ASSUME MoneyTypeOK, ClaimInv, ClaimInv', outcome' = outcome, \A op \in Operations : RowMove(op)
    PROVE  \E freed, closed \in SUBSET Operations : Promise!Resolve(freed, closed)
<1> DEFINE freed == {op \in Operations : State(op) \in HELD_STATES /\ liability'[op].state \in CLOSED_STATES}
           closed == {op \in Operations : State(op) \in HELD_STATES /\ liability'[op].state = "settled"}
<1>1. ASSUME NEW op \in Operations
      PROVE  Seen(op)' = IF op \in freed THEN "free" ELSE IF op \in closed THEN "settled" ELSE Seen(op)
    <2>1. CASE liability'[op] = liability[op]
        BY <2>1 DEF Seen, State, HELD_STATES, CLOSED_STATES
    <2>2. CASE Carried(op)
        BY <2>2 DEF Carried, Seen, State, HELD_STATES, CLOSED_STATES
    <2>3. CASE SettledBy(op) \/ Aged(op)
        <3>1. State(op) \in HELD_STATES \cup {"settled"}
            BY <2>3 DEF SettledBy, Aged
        <3>2. liability[op] \in Rows /\ Maximum[op] \in Nat
            BY MoneyAssumption DEF MoneyTypeOK
        <3>3. liability'[op].state = "settled"
            BY <2>3, <3>2, SettledMoney DEF SettledBy, Aged, State, Rows
        <3> QED
            BY <3>1, <3>3 DEF Seen, State, HELD_STATES, CLOSED_STATES
    <2> QED
        BY <2>1, <2>2, <2>3 DEF RowMove
<1>2. ASSUME NEW op \in freed PROVE Cardinality(Out(op)) = 0
    <2>1. Out(op)' = {} /\ op \in Operations
        BY DEF ClaimInv, PaidIsHeld, State, CLOSED_STATES
    <2>2. Out(op)' = Out(op)
        BY DEF Out
    <2> QED
        BY <2>1, <2>2, Exposed
<1>3. ASSUME NEW op \in freed \cup closed PROVE op \in Operations /\ Seen(op) = "held"
    <2>1. op \in Operations /\ State(op) \in HELD_STATES
        OBVIOUS
    <2> QED
        BY <2>1 DEF Seen, HELD_STATES
<1>4. freed \cap closed = {} /\ freed \in SUBSET Operations /\ closed \in SUBSET Operations
    BY DEF CLOSED_STATES
<1>5. \A op \in Operations : Cardinality(Out(op))' = Cardinality(Out(op))
    BY DEF Out
<1>6. [op \in Operations |-> Seen(op)]' = [op \in Operations |->
          IF op \in freed THEN "free" ELSE IF op \in closed THEN "settled" ELSE [p \in Operations |-> Seen(p)][op]]
    BY <1>1
<1>7. Promise!Resolve(freed, closed)
    <2> HIDE DEF freed, closed
    <2> QED
        BY <1>2, <1>3, <1>4, <1>5, <1>6 DEF Promise!Resolve, Seen
<1> QED
    BY <1>4, <1>7

\* An admission holds a free operation of which nothing is out.
LEMMA AdmissionHolds ==
    ASSUME ClaimInv, outcome' = outcome, NEW op \in Operations, NEW g, Admission(op, g)
    PROVE  Promise!Hold(op)
<1>1. State(op) \in CLOSED_STATES \cup {"none"} /\ liability'[op].state = "reserved"
    BY DEF Admission
<1>2. Out(op) = {}
    BY <1>1 DEF ClaimInv, PaidIsHeld, CLOSED_STATES
<1>3. Seen(op) = "free" /\ Seen(op)' = "held"
    BY <1>1 DEF Seen, State, HELD_STATES, CLOSED_STATES
<1>4. ASSUME NEW o \in Operations, o # op PROVE Seen(o)' = Seen(o)
    <2>1. liability'[o] = liability[o]
        BY <1>4 DEF Admission
    <2> QED
        BY <2>1 DEF Seen, State
<1>5. \A o \in Operations : Cardinality(Out(o))' = Cardinality(Out(o))
    BY DEF Out
<1>6. Cardinality(Out(op)) = 0
    BY <1>2, Exposed
<1>7. [o \in Operations |-> Seen(o)]' = [[o \in Operations |-> Seen(o)] EXCEPT ![op] = "held"]
    BY <1>3, <1>4
<1> QED
    BY <1>3, <1>5, <1>6, <1>7 DEF Promise!Hold, Seen

\* A payment leaves when its operation is not free and nothing else of it is out.
LEMMA SendPays ==
    ASSUME MoneyTypeOK, ClaimInv, ClaimInv', liability' = liability, NEW e \in Executors, Send(e)
    PROVE  \E op \in Operations : Promise!Pay(op)
<1>1. PICK op \in Operations, a \in Attempts : op = job[e].op /\ a = job[e].token
    BY DEF Send, ClaimInv, JobsKnown, At
<1>2. State(op) \in ClaimedStates /\ Out(op) = {}
    BY <1>1 DEF Send, ClaimInv, SendersClaimed
<1>3. outcome' = [outcome EXCEPT ![op] = [outcome[op] EXCEPT ![a] = "flight"]]
    BY <1>1 DEF Send, MoneyTypeOK
<1>4. \A o \in Operations : o # op => outcome'[o] = outcome[o]
    BY <1>3 DEF MoneyTypeOK
<1>7. Cardinality(Out(op)) = 0
    BY <1>2, Exposed
<1>8. Cardinality(Out(op))' = 1
    <2>1. Out(op)' = {a}
        BY <1>2, <1>3 DEF MoneyTypeOK, Out
    <2> QED
        BY <2>1, FS_Singleton
<1>9. ASSUME NEW o \in Operations, o # op PROVE Cardinality(Out(o))' = Cardinality(Out(o))
    BY <1>4, <1>9 DEF Out
<1>10. Seen(op) # "free" /\ \A o \in Operations : Seen(o)' = Seen(o)
    BY <1>2 DEF Seen, State, HELD_STATES, ClaimedStates
<1>11. [o \in Operations |-> Cardinality(Out(o))]' = [[o \in Operations |-> Cardinality(Out(o))] EXCEPT ![op] = 1]
    BY <1>8, <1>9
<1>12. Promise!Pay(op)
    BY <1>7, <1>10, <1>11 DEF Promise!Pay, Seen
<1> QED
    BY <1>12

\* A payment that arrives stays out, or comes to nothing.
LEMMA ArriveMisses ==
    ASSUME MoneyTypeOK, ClaimInv, ClaimInv', liability' = liability, NEW op \in Operations, NEW a \in Attempts,
           Arrive(op, a)
    PROVE  \/ Promise!Miss(op)
           \/ /\ \A o \in Operations : Cardinality(Out(o))' = Cardinality(Out(o))
              /\ \A o \in Operations : Seen(o)' = Seen(o)
<1>1. outcome[op][a] = "flight" /\ a \in Out(op)
    BY DEF Arrive, Out
<1>2. PICK what : /\ what \in {"landed", "lost", "refused"}
                  /\ outcome' = [outcome EXCEPT ![op] = [outcome[op] EXCEPT ![a] = what]]
    BY DEF Arrive, MoneyTypeOK
<1>3. \A o \in Operations : o # op => outcome'[o] = outcome[o]
    BY <1>2 DEF MoneyTypeOK
<1>4. /\ outcome'[op] = [outcome[op] EXCEPT ![a] = what]
      /\ outcome[op] \in [Attempts -> {"none", "flight", "landed", "refused", "lost"}]
    BY <1>2 DEF MoneyTypeOK
<1>5. \A o \in Operations : o # op => Out(o)' = Out(o)
    BY <1>3 DEF Out
<1>6. \A o \in Operations : Seen(o)' = Seen(o)
    BY DEF Seen, State
<1>7. CASE what = "landed"
    <2>1. Out(op)' = Out(op)
        BY <1>1, <1>4, <1>7 DEF Out
    <2> QED
        BY <1>5, <1>6, <2>1
<1>8. CASE what # "landed"
    <2>1. Out(op) = {a}
        BY <1>1, Exposed
    <2>2. Out(op)' = {}
        BY <1>2, <1>4, <1>8, <2>1 DEF Out
    <2>3. Cardinality(Out(op)) = 1
        BY <1>1, Exposed
    <2>4. Cardinality(Out(op))' = 0
        BY <2>2, FS_EmptySet
    <2>5. [o \in Operations |-> Cardinality(Out(o))]' = [[o \in Operations |-> Cardinality(Out(o))] EXCEPT ![op] = 0]
        BY <1>5, <2>4
    <2>6. Promise!Miss(op)
        BY <1>6, <2>3, <2>5 DEF Promise!Miss, Seen
    <2> QED
        BY <2>6
<1> QED
    BY <1>7, <1>8

\* The law implements the promise: money leaves only once it is held, one payment
\* of an operation at a time, and what may have left is never set free.
THEOREM PromiseKept == Spec => KeepsPromise
<1> DEFINE Inv == MoneyTypeOK /\ ClaimInv /\ GrantsMinted
           seen == [op \in Operations |-> CASE State(op) \in HELD_STATES -> "held"
                                            [] State(op) = "settled" -> "settled"
                                            [] OTHER -> "free"]
           exposed == [op \in Operations |-> Cardinality(Out(op))]
<1>1. Init => Promise!PInit
    <2> SUFFICES ASSUME Init PROVE Promise!PInit
        OBVIOUS
    <2>1. \A op \in Operations : State(op) = "none" /\ \A a \in Attempts : outcome[op][a] = "none"
        BY DEF Init, NoLiability, State
    <2>2. \A op \in Operations : Cardinality(Out(op)) = 0
        <3>1. \A op \in Operations : Out(op) = {}
            BY <2>1 DEF Out
        <3> QED
            BY <3>1, FS_EmptySet
    <2>3. \A op \in Operations : Seen(op) = "free"
        BY <2>1 DEF Seen, HELD_STATES
    <2> QED
        BY <2>2, <2>3 DEF Promise!PInit, Seen
<1>2. Inv /\ Inv' /\ [Next]_vars => [Promise!PNext]_<<seen, exposed>>
    <2> SUFFICES ASSUME Inv, Inv', [Next]_vars PROVE [Promise!PNext]_<<seen, exposed>>
        OBVIOUS
    <2>1. ASSUME \A op \in Operations : Cardinality(Out(op))' = Cardinality(Out(op)) /\ Seen(op)' = Seen(op)
          PROVE  UNCHANGED <<seen, exposed>>
        BY <2>1 DEF Seen
    <2>2. CASE outcome' = outcome
        <3>1. ASSUME NEW op \in Operations, NEW g \in Grants, Admission(op, g) PROVE Promise!PNext
            <4>1. Promise!Hold(op)
                BY <2>2, <3>1, AdmissionHolds
            <4> QED
                BY <4>1 DEF Promise!PNext
        <3>2. ASSUME \A op \in Operations : RowMove(op) PROVE Promise!PNext
            <4>1. \E freed, closed \in SUBSET Operations : Promise!Resolve(freed, closed)
                BY <2>2, <3>2, MovesResolve
            <4> QED
                BY <4>1 DEF Promise!PNext
        <3>3. CASE liability' = liability
            <4>1. \A op \in Operations : Cardinality(Out(op))' = Cardinality(Out(op)) /\ Seen(op)' = Seen(op)
                BY <2>2, <3>3 DEF Out, Seen, State
            <4> QED
                BY <2>1, <4>1
        <3>4. \/ \E op \in Operations, g \in Grants : Admission(op, g)
              \/ \A op \in Operations : RowMove(op)
              \/ liability' = liability
            BY RowStep
        <3> QED
            BY <3>1, <3>2, <3>3, <3>4
    <2>3. ASSUME liability' = liability, NEW e \in Executors, Send(e) PROVE Promise!PNext
        <3>1. \E op \in Operations : Promise!Pay(op)
            BY <2>3, SendPays
        <3> QED
            BY <3>1 DEF Promise!PNext
    <2>4. ASSUME liability' = liability, NEW op \in Operations, NEW a \in Attempts, Arrive(op, a)
          PROVE  [Promise!PNext]_<<seen, exposed>>
        <3>1. CASE Promise!Miss(op)
            BY <3>1 DEF Promise!PNext
        <3>2. CASE /\ \A o \in Operations : Cardinality(Out(o))' = Cardinality(Out(o))
                   /\ \A o \in Operations : Seen(o)' = Seen(o)
            BY <2>1, <3>2
        <3> QED
            BY <2>4, <3>1, <3>2, ArriveMisses
    <2> QED
        BY <2>2, <2>3, <2>4, OutcomeStep
<1>3. MoneyTypeOK /\ ClaimInv /\ LineInv /\ RuleHeld /\ BudgetCoversCommitments => Inv
    BY DEF LineInv
<1> QED
    BY <1>1, <1>2, <1>3, MoneyKept, PTL DEF Spec, KeepsPromise, Promise!PSpec
=============================================================================

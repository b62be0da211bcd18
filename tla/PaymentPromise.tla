--------------------------- MODULE PaymentPromise ---------------------------
(***************************************************************************)
(* What the monetary law promises about its operations, whatever processes, *)
(* crashes and evidence do: money leaves only once its maximum was set      *)
(* aside, one payment at a time, and what may have left is never set free.  *)
(* These are the laws 6 and 7 of core/effect_budget_money.py; MoneyLiability*)
(* implements them.                                                         *)
(***************************************************************************)
EXTENDS Naturals

CONSTANT Operations

VARIABLES
    status,    \* of each operation: free, held or settled
    exposure   \* of each operation: its payments that left and were not lost

PInit == /\ status = [op \in Operations |-> "free"]
         /\ exposure = [op \in Operations |-> 0]

\* The maximum of a free operation is set aside.
Hold(op) == /\ status[op] = "free" /\ exposure[op] = 0
            /\ status' = [status EXCEPT ![op] = "held"]
            /\ UNCHANGED exposure

\* Its payment leaves: never of a free operation, and never beside another one.
\* (Evidence may settle an operation while its claimant is about to send.)
Pay(op) == /\ status[op] # "free" /\ exposure[op] = 0
           /\ exposure' = [exposure EXCEPT ![op] = 1]
           /\ UNCHANGED status

\* A payment that left comes to nothing: refused, or never received.
Miss(op) == /\ exposure[op] = 1
            /\ exposure' = [exposure EXCEPT ![op] = 0]
            /\ UNCHANGED status

\* What is held is given back when nothing is out, or closed for good by
\* evidence: one operation at a time, or many when a dead process is judged.
Resolve(freed, closed) ==
    /\ freed \cap closed = {}
    /\ \A op \in freed \cup closed : status[op] = "held"
    /\ \A op \in freed : exposure[op] = 0
    /\ status' = [op \in Operations |-> IF op \in freed THEN "free"
                                        ELSE IF op \in closed THEN "settled" ELSE status[op]]
    /\ UNCHANGED exposure

PNext == \/ \E op \in Operations : Hold(op) \/ Pay(op) \/ Miss(op)
         \/ \E freed, closed \in SUBSET Operations : Resolve(freed, closed)

PSpec == PInit /\ [][PNext]_<<status, exposure>>
=============================================================================

--------------------------- MODULE MCEffectGateway ---------------------------
(***************************************************************************)
(* Instances of EffectGateway for TLC: one class under one global rule, one *)
(* ledger, a process and the one that restarts after it.                   *)
(***************************************************************************)
EXTENDS EffectGateway, TLC

CONSTANTS r1, r2, r3, p1, p2, w1, w2, e1, e2, t1

Symmetry == Permutations(ReservationIds) \cup Permutations(Threads) \cup Permutations(Effects)

NoWindowSeconds == [w \in {} |-> 1]
OnlyGlobal == {[s \in {} |-> NoKey]}
OneUnit == {[c \in {"command"} |-> [s \in {"global"} |-> 1]]}
TwoUnits == {[c \in {"command"} |-> [s \in {"global"} |-> 2]]}
OneUnitOrUnbudgeted == OneUnit \cup {[c \in {"command"} |-> [s \in {"global"} |-> NoRule]]}

\* The operator puts the class under a rule.
Impose == {(<<"command", "global">> :> 1)}
=============================================================================

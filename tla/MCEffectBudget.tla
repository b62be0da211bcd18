--------------------------- MODULE MCEffectBudget ---------------------------
(***************************************************************************)
(* Instances of EffectBudget for TLC. Time is counted in steps: StaleTTL,  *)
(* Retention and the window sizes keep the order they have in the code.    *)
(***************************************************************************)
EXTENDS EffectBudget, TLC

CONSTANTS turn, window, r1, r2, r3, p1, p2, t1, k1

Symmetry == Permutations(ReservationIds) \cup Permutations(Processes)

NoWindowSeconds == [w \in {} |-> 1]
WindowOf1 == [w \in {window} |-> 1]

NoAdjustments == {}

\* One command class with a turn rule of 2 and a global rule of 3.
TurnAndGlobal == {[c \in {"command"} |-> (turn :> 2) @@ ("global" :> 3)]}

\* The operator tightens the turn rule and removes the global one, together.
Tighten == {(<<"command", turn>> :> 1) @@ (<<"command", "global">> :> NoRule)}

TurnIdentities == {(turn :> k1), (turn :> NoKey)}

\* One provider_call class with a turn rule of 1 and a rolling window of 2.
TurnAndWindow == {[c \in {"provider_call"} |->
                      (turn :> 1) @@ ("global" :> NoRule) @@ (window :> 2)]}
=============================================================================

------------------------- MODULE EffectBudgetProofs -------------------------
(***************************************************************************)
(* Proofs about EffectBudget, for every set of reservations, processes,    *)
(* classes, rules and adjustments.                                         *)
(***************************************************************************)
EXTENDS EffectBudget, FiniteSetTheorems, TLAPS

-----------------------------------------------------------------------------
(* Counting units.                                                         *)

\* The cardinality of a disjoint union.
LEMMA CardinalityDisjoint ==
    ASSUME NEW A, NEW B, IsFiniteSet(A), IsFiniteSet(B), A \cap B = {}
    PROVE  Cardinality(A \cup B) = Cardinality(A) + Cardinality(B)
<1>1. Cardinality(A \cup B) = Cardinality(A) + Cardinality(B) - Cardinality(A \cap B)
    BY FS_Union
<1>2. Cardinality(A \cap B) = 0
    BY FS_EmptySet
<1>3. Cardinality(A) \in Nat /\ Cardinality(B) \in Nat
    BY FS_CardinalityType
<1> QED
    BY <1>1, <1>2, <1>3

\* The units of any set of reservations are a natural number: what
\* COALESCE(SUM(units), 0) returns.
LEMMA UnitsType ==
    ASSUME NEW f, NEW S, S \subseteq ReservationIds
    PROVE  IsFiniteSet(UnitTokens(f, S)) /\ UnitsOf(f, S) \in Nat
<1>1. IsFiniteSet(S)
    BY BoundAssumption, FS_Subset
<1>2. IsFiniteSet(1..MaxUnits)
    BY BoundAssumption, FS_Interval
<1>3. IsFiniteSet(S \X (1..MaxUnits))
    BY <1>1, <1>2, FS_Product
<1>4. UnitTokens(f, S) \in SUBSET (S \X (1..MaxUnits))
    BY DEF UnitTokens
<1>5. IsFiniteSet(UnitTokens(f, S))
    BY <1>3, <1>4, FS_Subset
<1> QED
    BY <1>5, FS_CardinalityType DEF UnitsOf

\* The units of two disjoint sets of reservations add up.
LEMMA UnitsDisjoint ==
    ASSUME NEW f, NEW S, NEW T, S \subseteq ReservationIds, T \subseteq ReservationIds,
           S \cap T = {}
    PROVE  UnitsOf(f, S \cup T) = UnitsOf(f, S) + UnitsOf(f, T)
<1>1. UnitTokens(f, S \cup T) = UnitTokens(f, S) \cup UnitTokens(f, T)
    BY DEF UnitTokens
<1>2. UnitTokens(f, S) \cap UnitTokens(f, T) = {}
    BY DEF UnitTokens
<1>3. IsFiniteSet(UnitTokens(f, S)) /\ IsFiniteSet(UnitTokens(f, T))
    BY UnitsType
<1>4. Cardinality(UnitTokens(f, S) \cup UnitTokens(f, T)) =
        Cardinality(UnitTokens(f, S)) + Cardinality(UnitTokens(f, T))
    BY <1>2, <1>3, CardinalityDisjoint
<1> QED
    BY <1>1, <1>4, Zenon DEF UnitsOf

\* One reservation counts for its units.
LEMMA UnitsSingleton ==
    ASSUME NEW f, NEW r \in ReservationIds, f[r].units \in 1..MaxUnits
    PROVE  UnitsOf(f, {r}) = f[r].units
<1> DEFINE n == f[r].units
<1>1. n \in Nat /\ n >= 1 /\ n <= MaxUnits
    BY BoundAssumption
<1> HIDE DEF n
<1>2. IsFiniteSet(1..n) /\ Cardinality(1..n) = n
    BY <1>1, FS_Interval
<1>3. IsFiniteSet({r}) /\ Cardinality({r}) = 1
    BY FS_Singleton
<1>4. Cardinality({r} \X (1..n)) = Cardinality({r}) * Cardinality(1..n)
    BY <1>2, <1>3, FS_Product, Zenon
<1>5. UnitTokens(f, {r}) = {r} \X (1..n)
    BY <1>1, BoundAssumption DEF UnitTokens, n
<1>6. UnitsOf(f, {r}) = 1 * n
    BY <1>2, <1>3, <1>4, <1>5, Zenon DEF UnitsOf
<1> QED
    BY <1>1, <1>6 DEF n

\* Only the units column matters.
LEMMA UnitsSame ==
    ASSUME NEW f, NEW g, NEW S, S \subseteq ReservationIds, \A r \in S : f[r].units = g[r].units
    PROVE  UnitsOf(f, S) = UnitsOf(g, S)
<1>1. UnitTokens(f, S) = UnitTokens(g, S)
    BY DEF UnitTokens
<1> QED
    BY <1>1 DEF UnitsOf

\* More reservations are at least as many units.
LEMMA UnitsMonotone ==
    ASSUME NEW f, NEW S, NEW T, S \subseteq T, T \subseteq ReservationIds
    PROVE  UnitsOf(f, S) <= UnitsOf(f, T)
<1>1. UnitTokens(f, S) \in SUBSET UnitTokens(f, T)
    BY DEF UnitTokens
<1> QED
    BY <1>1, UnitsType, FS_Subset DEF UnitsOf

\* Taking a reservation out of a set takes its units out.
LEMMA UnitsRemove ==
    ASSUME NEW f, NEW S, S \subseteq ReservationIds, NEW r \in S, f[r].units \in 1..MaxUnits
    PROVE  UnitsOf(f, S) = UnitsOf(f, S \ {r}) + f[r].units
<1>1. UnitsOf(f, (S \ {r}) \cup {r}) = UnitsOf(f, S \ {r}) + UnitsOf(f, {r})
    BY UnitsDisjoint
<1>2. (S \ {r}) \cup {r} = S
    OBVIOUS
<1>3. UnitsOf(f, {r}) = f[r].units
    BY UnitsSingleton
<1> QED
    BY <1>1, <1>2, <1>3, Zenon

\* Putting a reservation into a set puts its units in.
LEMMA UnitsAdd ==
    ASSUME NEW f, NEW S, S \subseteq ReservationIds, NEW r \in ReservationIds, r \notin S,
           f[r].units \in 1..MaxUnits
    PROVE  UnitsOf(f, S \cup {r}) = UnitsOf(f, S) + f[r].units
<1>1. UnitsOf(f, S \cup {r}) = UnitsOf(f, S) + UnitsOf(f, {r})
    BY UnitsDisjoint
<1>2. UnitsOf(f, {r}) = f[r].units
    BY UnitsSingleton
<1> QED
    BY <1>1, <1>2, Zenon

-----------------------------------------------------------------------------
(* The shape of the state.                                                 *)

\* The column updates of the settle operations give rows again.
LEMMA RowEdits ==
    ASSUME NEW rec \in ReservationRow, NEW n \in Nat, NEW u \in 1..MaxUnits
    PROVE  /\ [rec EXCEPT !.active = n] \in ReservationRow
           /\ [rec EXCEPT !.units = u, !.active = n] \in ReservationRow
BY DEF ReservationRow

\* The state the store starts in has the shape.
LEMMA ShapeInit == Init => ShapeOK
BY RuleAssumption DEF Init, ShapeOK, Absent

\* Every operation keeps the shape of the store.
LEMMA ShapeStep == ShapeOK /\ [Next]_vars => ShapeOK'
<1> SUFFICES ASSUME ShapeOK, [Next]_vars PROVE ShapeOK'
    OBVIOUS
<1>1. CASE Tick
    BY <1>1 DEF Tick, ShapeOK, store
<1>2. ASSUME NEW p \in Processes, Boot(p) \/ Crash(p) \/ ShutdownInstance(p) PROVE ShapeOK'
    BY <1>2 DEF Boot, Crash, ShutdownInstance, ShapeOK, store
<1>3. ASSUME NEW p \in Processes, NEW gone \in SUBSET Processes, ReconcileStale(p, gone)
      PROVE ShapeOK'
  <2>1. ASSUME NEW r \in ReservationIds, state[r] = "reserved"
        PROVE  [row[r] EXCEPT !.active = now] \in ReservationRow
    <3>1. row[r] \in ReservationRow /\ now \in Nat
      BY <2>1 DEF ShapeOK
    <3> QED
      BY <3>1 DEF ReservationRow
  <2>2. row' \in [ReservationIds -> ReservationRow \cup {NoRow}]
    BY <1>3, <2>1 DEF ReconcileStale, ShapeOK
  <2>3. state' \in [ReservationIds -> {"none", "reserved", "consumed", "released"}]
    BY <1>3 DEF ReconcileStale, ShapeOK
  <2>4. ASSUME NEW r \in ReservationIds, state'[r] # "none" PROVE row'[r] \in ReservationRow
    BY <1>3, <2>1, <2>4 DEF ReconcileStale, ShapeOK
  <2> QED
    BY <1>3, <2>2, <2>3, <2>4 DEF ReconcileStale, ShapeOK
<1>4. ASSUME NEW t \in Tokens, GrantAuthority(t) PROVE ShapeOK'
    BY <1>4 DEF GrantAuthority, ShapeOK
<1>5. ASSUME NEW t \in Tokens, NEW a \in Adjustments, ApplyAdjustment(t, a) PROVE ShapeOK'
    BY <1>5, RuleAssumption DEF ApplyAdjustment, ShapeOK, Rules
<1>6. ASSUME NEW p \in Processes, NEW r \in ReservationIds, NEW c \in Classes,
             NEW i \in Identities, NEW u \in 1..MaxUnits, NEW o \in Owners,
             NEW e \in Effects \cup {NoEffect}, Reserve(p, r, c, i, u, o, e)
      PROVE ShapeOK'
    BY <1>6 DEF Reserve, Kept, Heartbeat, ShapeOK, ReservationRow
<1>7. ASSUME NEW p \in Processes, NEW c \in Classes, NEW i \in Identities,
             NEW u \in 1..MaxUnits, RefuseReserve(p, c, i, u)
      PROVE ShapeOK'
    BY <1>7 DEF RefuseReserve, Heartbeat, ShapeOK, store
<1>8. ASSUME NEW r \in ReservationIds, NEW e \in Effects, BindEffect(r, e) PROVE ShapeOK'
    BY <1>8 DEF BindEffect, ShapeOK, ReservationRow
<1>9. ASSUME NEW r \in ReservationIds, Consume(r) PROVE ShapeOK'
  <2>0. row[r] \in ReservationRow /\ now \in Nat
    BY <1>9 DEF Consume, ShapeOK
  <2>1. [row[r] EXCEPT !.active = now] \in ReservationRow
    BY <2>0 DEF ReservationRow
  <2>2. row' = [row EXCEPT ![r] = [row[r] EXCEPT !.active = now]]
    BY <1>9 DEF Consume, ShapeOK
  <2> QED
    BY <1>9, <2>1, <2>2 DEF Consume, ShapeOK
<1>10. ASSUME NEW r \in ReservationIds, Release(r) PROVE ShapeOK'
  <2>0. row[r] \in ReservationRow /\ now \in Nat
    BY <1>10 DEF Release, ShapeOK
  <2>1. [row[r] EXCEPT !.active = now] \in ReservationRow
    BY <2>0 DEF ReservationRow
  <2>2. row' = [row EXCEPT ![r] = [row[r] EXCEPT !.active = now]]
    BY <1>10 DEF Release, ShapeOK
  <2> QED
    BY <1>10, <2>1, <2>2 DEF Release, ShapeOK
<1>11. ASSUME NEW r \in ReservationIds, NEW u \in 1..MaxUnits, ReconcileCost(r, u) PROVE ShapeOK'
  <2>1. [row[r] EXCEPT !.units = u, !.active = now] \in ReservationRow
    BY <1>11, RowEdits DEF ReconcileCost, ShapeOK
  <2>2. row' = [row EXCEPT ![r] = [row[r] EXCEPT !.units = u, !.active = now]]
    BY <1>11 DEF ReconcileCost, ShapeOK
  <2> QED
    BY <1>11, <2>1, <2>2 DEF ReconcileCost, ShapeOK
<1>12. CASE UNCHANGED vars
    BY <1>12 DEF vars, store, ShapeOK
<1> QED
    BY <1>1, <1>2, <1>3, <1>4, <1>5, <1>6, <1>7, <1>8, <1>9, <1>10, <1>11, <1>12 DEF Next

-----------------------------------------------------------------------------
(* The counters equal the rows they sum.                                   *)

\* Which counters a row moves depends on its class, identity and rules only.
LEMMA ChargesSame ==
    ASSUME NEW a, NEW b, NEW k, a.class = b.class, a.identity = b.identity, a.rules = b.rules
    PROVE  Charges(a, k) <=> Charges(b, k)
BY DEF Charges, ScopeKey

\* Issued rows carry units within the bound.
LEMMA IssuedUnits ==
    ASSUME ShapeOK, NEW r \in ReservationIds, state[r] # "none"
    PROVE  row[r].units \in 1..MaxUnits
BY DEF ShapeOK, ReservationRow

\* Steps that touch neither rows nor counters.
LEMMA CountersFrame ==
    ASSUME CountersExact, UNCHANGED <<state, row, reservedUnits, consumedUnits>>
    PROVE  CountersExact'
BY DEF CountersExact, Holders

\* A new reservation joins the holders of the counters its rules bind.
LEMMA CountersReserve ==
    ASSUME ShapeOK, CountersExact, NEW p \in Processes, NEW r \in ReservationIds,
           NEW c \in Classes, NEW i \in Identities, NEW u \in 1..MaxUnits, NEW o \in Owners,
           NEW e \in Effects \cup {NoEffect}, Reserve(p, r, c, i, u, o, e)
    PROVE  CountersExact'
<1> DEFINE rec == [class |-> c, units |-> u, identity |-> i,
                   rules |-> limit[c], instance |-> p, owner |-> o,
                   effect |-> e, created |-> now, active |-> now]
<1>1. /\ state[r] = "none" /\ state' = [state EXCEPT ![r] = "reserved"]
      /\ row' = [row EXCEPT ![r] = rec]
      /\ reservedUnits' = CounterAdjust(reservedUnits, rec, u)
      /\ consumedUnits' = consumedUnits
    BY DEF Reserve
<1>2. rec.units = u
    OBVIOUS
<1> HIDE DEF rec
<1>3. row'[r] = rec /\ \A q \in ReservationIds \ {r} : row'[q] = row[q] /\ state'[q] = state[q]
    BY <1>1 DEF ShapeOK
<1>4. state'[r] = "reserved"
    BY <1>1 DEF ShapeOK
<1> SUFFICES ASSUME NEW k \in Counters
             PROVE  /\ reservedUnits'[k] = UnitsOf(row', Holders({"reserved"}, k)')
                    /\ consumedUnits'[k] = UnitsOf(row', Holders({"consumed"}, k)')
    BY DEF CountersExact
<1>5. Holders({"consumed"}, k)' = Holders({"consumed"}, k)
    BY <1>1, <1>3, <1>4 DEF Holders
<1>6. r \notin Holders({"reserved"}, k) /\ r \notin Holders({"consumed"}, k)
    BY <1>1 DEF Holders
<1>7. /\ UnitsOf(row', Holders({"consumed"}, k)) = UnitsOf(row, Holders({"consumed"}, k))
      /\ UnitsOf(row', Holders({"reserved"}, k)) = UnitsOf(row, Holders({"reserved"}, k))
  <2>1. \A q \in Holders({"consumed"}, k) \cup Holders({"reserved"}, k) : row'[q].units = row[q].units
    BY <1>3, <1>6 DEF Holders
  <2> QED
    BY <2>1, UnitsSame DEF Holders
<1>8. consumedUnits'[k] = UnitsOf(row', Holders({"consumed"}, k)')
    BY <1>1, <1>5, <1>7 DEF CountersExact
<1>9. reservedUnits'[k] = UnitsOf(row', Holders({"reserved"}, k)')
  <2>1. CASE Charges(rec, k)
    <3>1. Holders({"reserved"}, k)' = Holders({"reserved"}, k) \cup {r}
      BY <1>3, <1>4, <2>1 DEF Holders
    <3>2. UnitsOf(row', Holders({"reserved"}, k) \cup {r}) =
            UnitsOf(row', Holders({"reserved"}, k)) + row'[r].units
      BY <1>2, <1>3, <1>6, UnitsAdd DEF Holders
    <3>3. reservedUnits'[k] = reservedUnits[k] + u
      BY <1>1, <2>1 DEF CounterAdjust
    <3> QED
      BY <1>2, <1>3, <1>7, <3>1, <3>2, <3>3 DEF CountersExact
  <2>2. CASE ~Charges(rec, k)
    <3>1. Holders({"reserved"}, k)' = Holders({"reserved"}, k)
      BY <1>1, <1>3, <1>4, <2>2 DEF Holders
    <3>2. reservedUnits'[k] = reservedUnits[k]
      BY <1>1, <2>2 DEF CounterAdjust
    <3> QED
      BY <1>7, <3>1, <3>2 DEF CountersExact
  <2> QED
    BY <2>1, <2>2
<1> QED
    BY <1>8, <1>9

\* A settled reservation leaves the holders of the counters it charged. (The
\* common part of consume_reservation and release_reservation.)
LEMMA ReservedSettle ==
    ASSUME ShapeOK, CountersExact, NEW r \in ReservationIds, state[r] = "reserved",
           state'[r] \in {"consumed", "released"},
           \A q \in ReservationIds \ {r} : row'[q] = row[q] /\ state'[q] = state[q],
           reservedUnits' = CounterAdjust(reservedUnits, row[r], -row[r].units),
           NEW k \in Counters
    PROVE  reservedUnits'[k] = UnitsOf(row', Holders({"reserved"}, k)')
<1>1. row[r].units \in 1..MaxUnits
    BY IssuedUnits
<1> DEFINE H == Holders({"reserved"}, k)
<1>2. H' = H \ {r} /\ H \subseteq ReservationIds /\ (r \in H <=> Charges(row[r], k))
    BY DEF Holders
<1>3. UnitsOf(row', H \ {r}) = UnitsOf(row, H \ {r})
  <2> DEFINE S == H \ {r}
  <2>1. S \subseteq ReservationIds /\ \A q \in S : row'[q].units = row[q].units
    BY <1>2
  <2> HIDE DEF S
  <2>2. UnitsOf(row', S) = UnitsOf(row, S)
    BY <2>1, UnitsSame
  <2> QED
    BY <2>2 DEF S
<1>4. reservedUnits[k] = UnitsOf(row, H)
    BY DEF CountersExact
<1> HIDE DEF H
<1>5. UnitsOf(row, H \ {r}) \in Nat
    BY <1>2, UnitsType
<1>6. CASE Charges(row[r], k)
  <2>1. UnitsOf(row, H) = UnitsOf(row, H \ {r}) + row[r].units
    BY <1>1, <1>2, <1>6, UnitsRemove
  <2>2. reservedUnits'[k] = reservedUnits[k] + (-row[r].units)
    BY <1>6 DEF CounterAdjust
  <2>3. reservedUnits'[k] = UnitsOf(row, H \ {r})
    BY <1>1, <1>4, <1>5, <2>1, <2>2
  <2> QED
    BY <1>2, <1>3, <2>3, Zenon DEF H
<1>7. CASE ~Charges(row[r], k)
  <2>1. H \ {r} = H
    BY <1>2, <1>7
  <2>2. reservedUnits'[k] = reservedUnits[k]
    BY <1>7 DEF CounterAdjust
  <2> QED
    BY <1>2, <1>3, <1>4, <2>1, <2>2, Zenon DEF H
<1> QED
    BY <1>6, <1>7

\* consume_reservation moves the units from one counter to the other.
LEMMA CountersConsume ==
    ASSUME ShapeOK, CountersExact, NEW r \in ReservationIds, Consume(r)
    PROVE  CountersExact'
<1>1. /\ state[r] = "reserved" /\ state' = [state EXCEPT ![r] = "consumed"]
      /\ row' = [row EXCEPT ![r].active = now]
      /\ reservedUnits' = CounterAdjust(reservedUnits, row[r], -row[r].units)
      /\ consumedUnits' = CounterAdjust(consumedUnits, row[r], row[r].units)
    BY DEF Consume
<1>2. /\ state'[r] = "consumed"
      /\ \A q \in ReservationIds \ {r} : row'[q] = row[q] /\ state'[q] = state[q]
    BY <1>1 DEF ShapeOK
<1>3. row[r] \in ReservationRow /\ row[r].units \in 1..MaxUnits
    BY <1>1, IssuedUnits DEF ShapeOK
<1>4. row'[r] = [row[r] EXCEPT !.active = now]
    BY <1>1 DEF ShapeOK
<1>5. /\ row'[r].class = row[r].class /\ row'[r].identity = row[r].identity
      /\ row'[r].rules = row[r].rules /\ row'[r].units = row[r].units
    BY <1>3, <1>4 DEF ReservationRow
<1> SUFFICES ASSUME NEW k \in Counters
             PROVE  /\ reservedUnits'[k] = UnitsOf(row', Holders({"reserved"}, k)')
                    /\ consumedUnits'[k] = UnitsOf(row', Holders({"consumed"}, k)')
    BY DEF CountersExact
<1>6. Charges(row'[r], k) <=> Charges(row[r], k)
    BY <1>5, ChargesSame
<1>7. r \notin Holders({"consumed"}, k)
    BY <1>1 DEF Holders
<1>8. UnitsOf(row', Holders({"consumed"}, k)) = UnitsOf(row, Holders({"consumed"}, k))
  <2>1. \A q \in Holders({"consumed"}, k) : row'[q].units = row[q].units
    BY <1>2, <1>7 DEF Holders
  <2> QED
    BY <2>1, UnitsSame DEF Holders
<1>9. consumedUnits'[k] = UnitsOf(row', Holders({"consumed"}, k)')
  <2>1. CASE Charges(row[r], k)
    <3>1. Holders({"consumed"}, k)' = Holders({"consumed"}, k) \cup {r}
      BY <1>2, <1>6, <2>1 DEF Holders
    <3>2. UnitsOf(row', Holders({"consumed"}, k) \cup {r}) =
            UnitsOf(row', Holders({"consumed"}, k)) + row'[r].units
      BY <1>3, <1>5, <1>7, UnitsAdd DEF Holders
    <3>3. consumedUnits'[k] = consumedUnits[k] + row[r].units
      BY <1>1, <2>1 DEF CounterAdjust
    <3> QED
      BY <1>5, <1>8, <3>1, <3>2, <3>3 DEF CountersExact
  <2>2. CASE ~Charges(row[r], k)
    <3>1. Holders({"consumed"}, k)' = Holders({"consumed"}, k)
      BY <1>1, <1>2, <1>6, <2>2 DEF Holders
    <3>2. consumedUnits'[k] = consumedUnits[k]
      BY <1>1, <2>2 DEF CounterAdjust
    <3> QED
      BY <1>8, <3>1, <3>2 DEF CountersExact
  <2> QED
    BY <2>1, <2>2
<1> QED
    BY <1>1, <1>2, <1>9, ReservedSettle

\* release_reservation only returns what was reserved.
LEMMA CountersRelease ==
    ASSUME ShapeOK, CountersExact, NEW r \in ReservationIds, Release(r)
    PROVE  CountersExact'
<1>1. /\ state[r] = "reserved" /\ state' = [state EXCEPT ![r] = "released"]
      /\ row' = [row EXCEPT ![r].active = now]
      /\ reservedUnits' = CounterAdjust(reservedUnits, row[r], -row[r].units)
      /\ consumedUnits' = consumedUnits
    BY DEF Release
<1>2. /\ state'[r] = "released"
      /\ \A q \in ReservationIds \ {r} : row'[q] = row[q] /\ state'[q] = state[q]
    BY <1>1 DEF ShapeOK
<1> SUFFICES ASSUME NEW k \in Counters
             PROVE  /\ reservedUnits'[k] = UnitsOf(row', Holders({"reserved"}, k)')
                    /\ consumedUnits'[k] = UnitsOf(row', Holders({"consumed"}, k)')
    BY DEF CountersExact
<1>3. Holders({"consumed"}, k)' = Holders({"consumed"}, k)
    BY <1>1, <1>2 DEF Holders
<1>4. UnitsOf(row', Holders({"consumed"}, k)) = UnitsOf(row, Holders({"consumed"}, k))
  <2>1. \A q \in Holders({"consumed"}, k) : row'[q].units = row[q].units
    BY <1>1, <1>2 DEF Holders
  <2> QED
    BY <2>1, UnitsSame DEF Holders
<1> QED
    BY <1>1, <1>2, <1>3, <1>4, ReservedSettle DEF CountersExact

\* bind_reservation_effect fills a column no counter depends on.
LEMMA CountersBind ==
    ASSUME ShapeOK, CountersExact, NEW r \in ReservationIds, NEW e \in Effects, BindEffect(r, e)
    PROVE  CountersExact'
<1>1. /\ state[r] = "reserved" /\ row' = [row EXCEPT ![r].effect = e]
      /\ state' = state /\ reservedUnits' = reservedUnits /\ consumedUnits' = consumedUnits
    BY DEF BindEffect
<1>2. row'[r] = [row[r] EXCEPT !.effect = e] /\ row[r] \in ReservationRow
    BY <1>1 DEF ShapeOK
<1>3. /\ row'[r].class = row[r].class /\ row'[r].identity = row[r].identity
      /\ row'[r].rules = row[r].rules /\ row'[r].units = row[r].units
    BY <1>2 DEF ReservationRow
<1>4. \A q \in ReservationIds \ {r} : row'[q] = row[q]
    BY <1>1 DEF ShapeOK
<1>5. \A q \in ReservationIds : row'[q].units = row[q].units
    BY <1>3, <1>4
<1> SUFFICES ASSUME NEW k \in Counters
             PROVE  /\ reservedUnits'[k] = UnitsOf(row', Holders({"reserved"}, k)')
                    /\ consumedUnits'[k] = UnitsOf(row', Holders({"consumed"}, k)')
    BY DEF CountersExact
<1>6. \A q \in ReservationIds : Charges(row'[q], k) <=> Charges(row[q], k)
    BY <1>3, <1>4, ChargesSame
<1>7. ASSUME NEW S PROVE Holders(S, k)' = Holders(S, k) /\ Holders(S, k) \subseteq ReservationIds
    BY <1>1, <1>6 DEF Holders
<1>8. ASSUME NEW S PROVE UnitsOf(row', Holders(S, k)) = UnitsOf(row, Holders(S, k))
  <2>1. \A q \in Holders(S, k) : row'[q].units = row[q].units
    BY <1>5, <1>7
  <2> QED
    BY <1>7, <2>1, UnitsSame
<1> QED
    BY <1>1, <1>7, <1>8, Zenon DEF CountersExact

\* reconcile_effect_cost charges the difference to every counter of the row.
LEMMA CountersCost ==
    ASSUME ShapeOK, CountersExact, NEW r \in ReservationIds, NEW u \in 1..MaxUnits,
           ReconcileCost(r, u)
    PROVE  CountersExact'
<1>1. /\ state[r] = "consumed" /\ row' = [row EXCEPT ![r].units = u, ![r].active = now]
      /\ state' = state /\ reservedUnits' = reservedUnits
      /\ consumedUnits' = CounterAdjust(consumedUnits, row[r], u - row[r].units)
    BY DEF ReconcileCost
<1>2. row'[r] = [row[r] EXCEPT !.units = u, !.active = now] /\ row[r] \in ReservationRow
    BY <1>1 DEF ShapeOK
<1>3. /\ row'[r].class = row[r].class /\ row'[r].identity = row[r].identity
      /\ row'[r].rules = row[r].rules /\ row'[r].units = u /\ row[r].units \in 1..MaxUnits
    BY <1>2 DEF ReservationRow
<1>4. \A q \in ReservationIds \ {r} : row'[q] = row[q]
    BY <1>1 DEF ShapeOK
<1> SUFFICES ASSUME NEW k \in Counters
             PROVE  /\ reservedUnits'[k] = UnitsOf(row', Holders({"reserved"}, k)')
                    /\ consumedUnits'[k] = UnitsOf(row', Holders({"consumed"}, k)')
    BY DEF CountersExact
<1>5. \A q \in ReservationIds : Charges(row'[q], k) <=> Charges(row[q], k)
    BY <1>3, <1>4, ChargesSame
<1> DEFINE R == Holders({"reserved"}, k)
           C == Holders({"consumed"}, k)
<1>6. R' = R /\ C' = C /\ R \subseteq ReservationIds /\ C \subseteq ReservationIds
    BY <1>1, <1>5 DEF Holders
<1>7. r \notin R /\ (r \in C <=> Charges(row[r], k))
    BY <1>1 DEF Holders
<1>8. reservedUnits[k] = UnitsOf(row, R) /\ consumedUnits[k] = UnitsOf(row, C)
    BY DEF CountersExact
<1> HIDE DEF R, C
<1>9. UnitsOf(row', R) = UnitsOf(row, R)
  <2>1. \A q \in R : row'[q].units = row[q].units
    BY <1>4, <1>6, <1>7
  <2> QED
    BY <1>6, <2>1, UnitsSame
<1>10. UnitsOf(row', C \ {r}) = UnitsOf(row, C \ {r}) /\ UnitsOf(row, C \ {r}) \in Nat
  <2> DEFINE S == C \ {r}
  <2>1. S \subseteq ReservationIds /\ \A q \in S : row'[q].units = row[q].units
    BY <1>4, <1>6
  <2> HIDE DEF S
  <2>2. UnitsOf(row', S) = UnitsOf(row, S) /\ UnitsOf(row, S) \in Nat
    BY <2>1, UnitsSame, UnitsType
  <2> QED
    BY <2>2 DEF S
<1>11. consumedUnits'[k] = UnitsOf(row', C)
  <2>1. CASE Charges(row[r], k)
    <3>1. UnitsOf(row, C) = UnitsOf(row, C \ {r}) + row[r].units
      BY <1>3, <1>6, <1>7, <2>1, UnitsRemove
    <3>2. UnitsOf(row', C) = UnitsOf(row', C \ {r}) + u
      <4>1. row'[r].units \in 1..MaxUnits /\ r \in C
        BY <1>3, <1>7, <2>1
      <4>2. UnitsOf(row', C) = UnitsOf(row', C \ {r}) + row'[r].units
        BY <1>6, <4>1, UnitsRemove
      <4> QED
        BY <1>3, <4>2, Zenon
    <3>3. consumedUnits'[k] = consumedUnits[k] + (u - row[r].units)
      BY <1>1, <2>1 DEF CounterAdjust
    <3> QED
      BY <1>3, <1>8, <1>10, <3>1, <3>2, <3>3
  <2>2. CASE ~Charges(row[r], k)
    <3>1. C \ {r} = C
      BY <1>7, <2>2
    <3>2. consumedUnits'[k] = consumedUnits[k]
      BY <1>1, <2>2 DEF CounterAdjust
    <3> QED
      BY <1>8, <1>10, <3>1, <3>2, Zenon
  <2> QED
    BY <2>1, <2>2
<1>12. reservedUnits'[k] = UnitsOf(row', R)
    BY <1>1, <1>8, <1>9, Zenon
<1> QED
    BY <1>6, <1>11, <1>12, Zenon DEF R, C

\* reconcile_stale_reservations returns the units of the rows it releases, and
\* of no other row.
LEMMA CountersReconcile ==
    ASSUME ShapeOK, CountersExact, NEW p \in Processes, NEW gone \in SUBSET Processes,
           ReconcileStale(p, gone)
    PROVE  CountersExact'
<1> DEFINE stale == {r \in ReservationIds : /\ state[r] = "reserved"
                                            /\ InstanceDead(row[r].instance, gone)}
<1>1. /\ state' = [r \in ReservationIds |-> IF r \in stale THEN "released" ELSE state[r]]
      /\ row' = [r \in ReservationIds |->
                    IF r \in stale THEN [row[r] EXCEPT !.active = now] ELSE row[r]]
      /\ reservedUnits' = [k \in Counters |->
            reservedUnits[k] - UnitsOf(row, {r \in stale : Charges(row[r], k)})]
      /\ consumedUnits' = consumedUnits
    BY DEF ReconcileStale
<1>2. stale \subseteq {r \in ReservationIds : state[r] = "reserved"}
    OBVIOUS
<1> HIDE DEF stale
<1>3. ASSUME NEW q \in ReservationIds
      PROVE  /\ row'[q].class = row[q].class /\ row'[q].identity = row[q].identity
             /\ row'[q].rules = row[q].rules /\ row'[q].units = row[q].units
  <2>1. CASE q \in stale
    <3>1. row[q] \in ReservationRow
      BY <1>2, <2>1 DEF ShapeOK
    <3>2. row'[q] = [row[q] EXCEPT !.active = now]
      BY <1>1, <2>1
    <3> QED
      BY <3>1, <3>2 DEF ReservationRow
  <2>2. CASE q \notin stale
    BY <1>1, <2>2
  <2> QED
    BY <2>1, <2>2
<1> SUFFICES ASSUME NEW k \in Counters
             PROVE  /\ reservedUnits'[k] = UnitsOf(row', Holders({"reserved"}, k)')
                    /\ consumedUnits'[k] = UnitsOf(row', Holders({"consumed"}, k)')
    BY DEF CountersExact
<1>4. \A q \in ReservationIds : Charges(row'[q], k) <=> Charges(row[q], k)
    BY <1>3, ChargesSame
<1> DEFINE R == Holders({"reserved"}, k)
           C == Holders({"consumed"}, k)
           D == {r \in stale : Charges(row[r], k)}
<1>5. R' = R \ D /\ C' = C /\ D \subseteq R
    BY <1>1, <1>2, <1>4 DEF Holders
<1>6. R \subseteq ReservationIds /\ C \subseteq ReservationIds
    BY DEF Holders
<1>7. /\ reservedUnits[k] = UnitsOf(row, R) /\ consumedUnits[k] = UnitsOf(row, C)
      /\ reservedUnits'[k] = reservedUnits[k] - UnitsOf(row, D) /\ consumedUnits'[k] = consumedUnits[k]
    BY <1>1 DEF CountersExact
<1> HIDE DEF R, C, D
<1>8. UnitsOf(row', C) = UnitsOf(row, C)
    BY <1>3, <1>6, UnitsSame
<1> DEFINE S == R \ D
<1>9. S \subseteq ReservationIds /\ D \subseteq ReservationIds /\ S \cap D = {} /\ S \cup D = R
    BY <1>5, <1>6
<1>10. R' = S
    BY <1>5
<1> HIDE DEF S
<1>11. UnitsOf(row', S) = UnitsOf(row, S)
    BY <1>3, <1>9, UnitsSame
<1>12. UnitsOf(row, S \cup D) = UnitsOf(row, S) + UnitsOf(row, D)
    BY <1>9, UnitsDisjoint
<1>13. UnitsOf(row, S) \in Nat /\ UnitsOf(row, D) \in Nat
    BY <1>9, UnitsType
<1>14. UnitsOf(row, R) = UnitsOf(row, S) + UnitsOf(row, D)
    BY <1>9, <1>12, Zenon
<1>15. reservedUnits'[k] = UnitsOf(row, S)
    BY <1>7, <1>13, <1>14
<1> QED
    BY <1>5, <1>7, <1>8, <1>10, <1>11, <1>15, Zenon DEF R, C

\* No row is issued at the start, and every counter is 0.
LEMMA CountersInit == Init => CountersExact
<1> SUFFICES ASSUME Init, NEW k \in Counters, NEW S \in {{"reserved"}, {"consumed"}}
             PROVE  UnitsOf(row, Holders(S, k)) = 0
    BY DEF Init, CountersExact
<1>1. Holders(S, k) = {}
    BY DEF Init, Holders
<1>2. UnitTokens(row, {}) = {}
    BY DEF UnitTokens
<1> QED
    BY <1>1, <1>2, FS_EmptySet, Zenon DEF UnitsOf

\* Every operation of the store keeps the counters exact.
LEMMA CountersStep == ShapeOK /\ CountersExact /\ [Next]_vars => CountersExact'
<1> SUFFICES ASSUME ShapeOK, CountersExact, [Next]_vars PROVE CountersExact'
    OBVIOUS
<1>1. CASE Tick
    BY <1>1, CountersFrame DEF Tick, store
<1>2. ASSUME NEW p \in Processes, Boot(p) \/ Crash(p) \/ ShutdownInstance(p)
      PROVE  CountersExact'
    BY <1>2, CountersFrame DEF Boot, Crash, ShutdownInstance, store
<1>3. ASSUME NEW p \in Processes, NEW gone \in SUBSET Processes, ReconcileStale(p, gone)
      PROVE  CountersExact'
    BY <1>3, CountersReconcile
<1>4. ASSUME NEW t \in Tokens, GrantAuthority(t) PROVE CountersExact'
    BY <1>4, CountersFrame DEF GrantAuthority
<1>5. ASSUME NEW t \in Tokens, NEW a \in Adjustments, ApplyAdjustment(t, a) PROVE CountersExact'
    BY <1>5, CountersFrame DEF ApplyAdjustment
<1>6. ASSUME NEW p \in Processes, NEW r \in ReservationIds, NEW c \in Classes,
             NEW i \in Identities, NEW u \in 1..MaxUnits, NEW o \in Owners,
             NEW e \in Effects \cup {NoEffect}, Reserve(p, r, c, i, u, o, e)
      PROVE  CountersExact'
    BY <1>6, CountersReserve
<1>7. ASSUME NEW p \in Processes, NEW c \in Classes, NEW i \in Identities,
             NEW u \in 1..MaxUnits, RefuseReserve(p, c, i, u)
      PROVE  CountersExact'
    BY <1>7, CountersFrame DEF RefuseReserve, store
<1>8. ASSUME NEW r \in ReservationIds, NEW e \in Effects, BindEffect(r, e) PROVE CountersExact'
    BY <1>8, CountersBind
<1>9. ASSUME NEW r \in ReservationIds, Consume(r) \/ Release(r) PROVE CountersExact'
    BY <1>9, CountersConsume, CountersRelease
<1>10. ASSUME NEW r \in ReservationIds, NEW u \in 1..MaxUnits, ReconcileCost(r, u)
       PROVE  CountersExact'
    BY <1>10, CountersCost
<1>11. CASE UNCHANGED vars
    BY <1>11, CountersFrame DEF vars, store
<1> QED
    BY <1>1, <1>2, <1>3, <1>4, <1>5, <1>6, <1>7, <1>8, <1>9, <1>10, <1>11 DEF Next

-----------------------------------------------------------------------------
(* Type correctness: no counter goes negative.                             *)

\* The counters are tables over Counters after every step.
LEMMA CounterTables ==
    TypeOK /\ [Next]_vars =>
        /\ reservedUnits' = [k \in Counters |-> reservedUnits'[k]]
        /\ consumedUnits' = [k \in Counters |-> consumedUnits'[k]]
<1> SUFFICES ASSUME TypeOK, [Next]_vars
             PROVE  /\ reservedUnits' = [k \in Counters |-> reservedUnits'[k]]
                    /\ consumedUnits' = [k \in Counters |-> consumedUnits'[k]]
    OBVIOUS
<1>0. /\ reservedUnits = [k \in Counters |-> reservedUnits[k]]
      /\ consumedUnits = [k \in Counters |-> consumedUnits[k]]
    BY DEF TypeOK
<1>1. CASE UNCHANGED <<reservedUnits, consumedUnits>>
    BY <1>0, <1>1
<1>2. ASSUME NEW p \in Processes, NEW gone \in SUBSET Processes, ReconcileStale(p, gone)
      PROVE  /\ reservedUnits' = [k \in Counters |-> reservedUnits'[k]]
             /\ consumedUnits' = consumedUnits
    BY <1>2 DEF ReconcileStale
<1>3. ASSUME NEW p \in Processes, NEW r \in ReservationIds, NEW c \in Classes,
             NEW i \in Identities, NEW u \in 1..MaxUnits, NEW o \in Owners,
             NEW e \in Effects \cup {NoEffect}, Reserve(p, r, c, i, u, o, e)
      PROVE  /\ reservedUnits' = [k \in Counters |-> reservedUnits'[k]]
             /\ consumedUnits' = consumedUnits
    BY <1>3 DEF Reserve, CounterAdjust
<1>4. ASSUME NEW r \in ReservationIds, Consume(r)
      PROVE  /\ reservedUnits' = [k \in Counters |-> reservedUnits'[k]]
             /\ consumedUnits' = [k \in Counters |-> consumedUnits'[k]]
    BY <1>4 DEF Consume, CounterAdjust
<1>5. ASSUME NEW r \in ReservationIds, Release(r)
      PROVE  /\ reservedUnits' = [k \in Counters |-> reservedUnits'[k]]
             /\ consumedUnits' = consumedUnits
    BY <1>5 DEF Release, CounterAdjust
<1>6. ASSUME NEW r \in ReservationIds, NEW u \in 1..MaxUnits, ReconcileCost(r, u)
      PROVE  /\ reservedUnits' = reservedUnits
             /\ consumedUnits' = [k \in Counters |-> consumedUnits'[k]]
    BY <1>6 DEF ReconcileCost, CounterAdjust
<1>7. CASE Tick \/ UNCHANGED vars
    BY <1>1, <1>7 DEF Tick, vars, store
<1>8. ASSUME NEW p \in Processes, Boot(p) \/ Crash(p) \/ ShutdownInstance(p)
      PROVE  UNCHANGED <<reservedUnits, consumedUnits>>
    BY <1>8 DEF Boot, Crash, ShutdownInstance, store
<1>9. ASSUME NEW t \in Tokens, NEW a \in Adjustments, ApplyAdjustment(t, a)
      PROVE  UNCHANGED <<reservedUnits, consumedUnits>>
    BY <1>9 DEF ApplyAdjustment
<1>10. ASSUME NEW t \in Tokens, GrantAuthority(t)
       PROVE  UNCHANGED <<reservedUnits, consumedUnits>>
    BY <1>10 DEF GrantAuthority
<1>11. ASSUME NEW p \in Processes, NEW c \in Classes, NEW i \in Identities,
              NEW u \in 1..MaxUnits, RefuseReserve(p, c, i, u)
       PROVE  UNCHANGED <<reservedUnits, consumedUnits>>
    BY <1>11 DEF RefuseReserve, store
<1>12. ASSUME NEW r \in ReservationIds, NEW e \in Effects, BindEffect(r, e)
       PROVE  UNCHANGED <<reservedUnits, consumedUnits>>
    BY <1>12 DEF BindEffect
<1> QED
    BY <1>0, <1>1, <1>2, <1>3, <1>4, <1>5, <1>6, <1>7, <1>8, <1>9, <1>10, <1>11, <1>12
       DEF Next

\* The inductive invariant of the two theorems below.
CountedOK == TypeOK /\ CountersExact

\* The counted invariant holds at the start.
LEMMA CountedInit == Init => CountedOK
<1> SUFFICES ASSUME Init PROVE CountedOK
    OBVIOUS
<1>1. ShapeOK /\ CountersExact
    BY ShapeInit, CountersInit
<1>2. reservedUnits \in [Counters -> Nat] /\ consumedUnits \in [Counters -> Nat]
    BY DEF Init
<1> QED
    BY <1>1, <1>2 DEF CountedOK, TypeOK

\* The counted invariant is preserved by every step.
LEMMA CountedStep == CountedOK /\ [Next]_vars => CountedOK'
<1> SUFFICES ASSUME CountedOK, [Next]_vars PROVE CountedOK'
    OBVIOUS
<1>1. ShapeOK' /\ CountersExact'
    BY ShapeStep, CountersStep DEF CountedOK, TypeOK
<1>2. /\ reservedUnits' = [k \in Counters |-> reservedUnits'[k]]
      /\ consumedUnits' = [k \in Counters |-> consumedUnits'[k]]
    BY CounterTables DEF CountedOK
<1>3. ASSUME NEW k \in Counters, NEW S PROVE UnitsOf(row', Holders(S, k)') \in Nat
  <2>1. Holders(S, k)' \subseteq ReservationIds
    BY DEF Holders
  <2> QED
    BY <2>1, UnitsType
<1>4. \A k \in Counters : reservedUnits'[k] \in Nat /\ consumedUnits'[k] \in Nat
    BY <1>1, <1>3, Zenon DEF CountersExact
<1>5. reservedUnits' \in [Counters -> Nat] /\ consumedUnits' \in [Counters -> Nat]
    BY <1>2, <1>4
<1> QED
    BY <1>1, <1>5 DEF CountedOK, TypeOK

\* The store keeps its shape and no counter goes below zero: no sequence of
\* settles, reconciliations and crashes returns a unit twice.
THEOREM TypeCorrect == Spec => []TypeOK
<1>1. CountedOK => TypeOK
    BY DEF CountedOK
<1> QED
    BY <1>1, CountedInit, CountedStep, PTL DEF Spec

\* The counters of effect_budget_counters equal the sum of the rows they
\* stand for, in every reachable state: _counter_adjust never drifts, whatever
\* the operator reconfigures, whichever process dies and whatever is pruned.
THEOREM CountersAlwaysExact == Spec => []CountersExact
<1>1. CountedOK => CountersExact
    BY DEF CountedOK
<1> QED
    BY <1>1, CountedInit, CountedStep, PTL DEF Spec

-----------------------------------------------------------------------------
(* The ceiling.                                                            *)

\* A row's rules were configured once, so the peaks dominate them, and an
\* overage belongs to an issued row.
PeakOK ==
    /\ \A c \in Classes, s \in Scopes : limit[c][s] <= peak[c][s]
    /\ \A r \in ReservationIds : state[r] # "none" =>
          \A s \in Scopes : row[r].rules[s] <= peak[row[r].class][s]
    /\ \A r \in ReservationIds : overran[r] # -1 => state[r] # "none"

\* The reservations that went over a limit, with their events accounted for.
Accounted == {r \in ReservationIds : OverageAccounted(r)}

\* The columns counters depend on are fixed once a row is issued; over_limit
\* events go only by age and the peaks never fall.
IssuedKept ==
    /\ \A q \in ReservationIds : state[q] # "none" =>
          /\ state'[q] # "none"
          /\ row'[q].class = row[q].class
          /\ row'[q].identity = row[q].identity
          /\ row'[q].rules = row[q].rules
    /\ Accounted \subseteq Accounted'
    /\ \A c \in Classes, s \in Scopes : peak'[c][s] >= peak[c][s]

\* An overage stays accounted for: _prune_stores deletes its event only when it
\* is older than the event retention, and a later overage has an event of its own.
LEMMA AccountedStep == ShapeOK /\ [Next]_vars => Accounted \subseteq Accounted'
<1> SUFFICES ASSUME ShapeOK, [Next]_vars, NEW q \in ReservationIds, OverageAccounted(q)
             PROVE  OverageAccounted(q)'
    BY DEF Accounted
<1>0. /\ now \in Nat /\ EventRetention \in Nat /\ overran[q] \in Nat
      /\ overages[q] \in Nat \cup {-1}
      /\ overages[q] = overran[q] \/ overran[q] < now - EventRetention
    BY BoundAssumption DEF OverageAccounted, ShapeOK
<1>1. CASE now' \in Nat /\ now' >= now /\ UNCHANGED <<overages, overran>>
    BY <1>0, <1>1 DEF OverageAccounted
<1>2. ASSUME NEW p \in Processes, NEW r \in ReservationIds, NEW c \in Classes,
             NEW i \in Identities, NEW u \in 1..MaxUnits, NEW o \in Owners,
             NEW e \in Effects \cup {NoEffect}, Reserve(p, r, c, i, u, o, e)
      PROVE  OverageAccounted(q)'
  <2>1. now' = now /\ overran' = overran /\ overages'[q] = Kept(overages[q])
    BY <1>2 DEF Reserve
  <2> QED
    BY <1>0, <2>1 DEF OverageAccounted, Kept
<1>3. ASSUME NEW r \in ReservationIds, NEW u \in 1..MaxUnits, ReconcileCost(r, u)
      PROVE  OverageAccounted(q)'
  <2>1. /\ now' = now /\ overages \in [ReservationIds -> Nat \cup {-1}]
        /\ overran \in [ReservationIds -> Nat \cup {-1}]
        /\ \/ UNCHANGED <<overages, overran>>
           \/ /\ overages' = [overages EXCEPT ![r] = now]
              /\ overran' = [overran EXCEPT ![r] = now]
    BY <1>3 DEF ReconcileCost, ShapeOK
  <2> QED
    BY <1>0, <2>1 DEF OverageAccounted
<1>4. CASE Tick \/ UNCHANGED vars
    BY <1>0, <1>1, <1>4 DEF Tick, vars, store
<1>5. ASSUME NEW p \in Processes, Boot(p) \/ Crash(p) \/ ShutdownInstance(p)
      PROVE  OverageAccounted(q)'
    BY <1>0, <1>1, <1>5 DEF Boot, Crash, ShutdownInstance, store
<1>6. ASSUME NEW p \in Processes, NEW gone \in SUBSET Processes, ReconcileStale(p, gone)
      PROVE  OverageAccounted(q)'
    BY <1>0, <1>1, <1>6 DEF ReconcileStale
<1>7. ASSUME NEW t \in Tokens, GrantAuthority(t) \/ \E a \in Adjustments : ApplyAdjustment(t, a)
      PROVE  OverageAccounted(q)'
    BY <1>0, <1>1, <1>7 DEF GrantAuthority, ApplyAdjustment
<1>8. ASSUME NEW p \in Processes, NEW c \in Classes, NEW i \in Identities,
             NEW u \in 1..MaxUnits, RefuseReserve(p, c, i, u)
      PROVE  OverageAccounted(q)'
    BY <1>0, <1>1, <1>8 DEF RefuseReserve, store
<1>9. ASSUME NEW r \in ReservationIds,
             Consume(r) \/ Release(r) \/ \E e \in Effects : BindEffect(r, e)
      PROVE  OverageAccounted(q)'
    BY <1>0, <1>1, <1>9 DEF Consume, Release, BindEffect
<1> QED
    BY <1>2, <1>3, <1>4, <1>5, <1>6, <1>7, <1>8, <1>9 DEF Next

\* No step rewrites the rules, the class or the identity of an issued row.
LEMMA IssuedStep == ShapeOK /\ [Next]_vars => IssuedKept
<1> SUFFICES ASSUME ShapeOK, [Next]_vars PROVE IssuedKept
    OBVIOUS
<1>0. /\ \A c \in Classes, s \in Scopes : peak[c][s] \in Int
      /\ Accounted \subseteq Accounted'
    BY AccountedStep DEF ShapeOK, Rules, NoRule
<1>1. CASE UNCHANGED <<state, row, peak>>
    BY <1>0, <1>1 DEF IssuedKept
<1>2. ASSUME NEW p \in Processes, NEW gone \in SUBSET Processes, ReconcileStale(p, gone)
      PROVE  IssuedKept
  <2> DEFINE stale == {r \in ReservationIds : /\ state[r] = "reserved"
                                              /\ InstanceDead(row[r].instance, gone)}
  <2>1. /\ state' = [r \in ReservationIds |-> IF r \in stale THEN "released" ELSE state[r]]
        /\ row' = [r \in ReservationIds |->
                      IF r \in stale THEN [row[r] EXCEPT !.active = now] ELSE row[r]]
        /\ peak' = peak
    BY <1>2 DEF ReconcileStale
  <2> HIDE DEF stale
  <2>2. ASSUME NEW q \in ReservationIds, state[q] # "none"
        PROVE  /\ row'[q].class = row[q].class /\ row'[q].identity = row[q].identity
               /\ row'[q].rules = row[q].rules
    <3>1. row[q] \in ReservationRow
      BY <2>2 DEF ShapeOK
    <3>2. row'[q] = row[q] \/ row'[q] = [row[q] EXCEPT !.active = now]
      BY <2>1
    <3> QED
      BY <3>1, <3>2 DEF ReservationRow
  <2>3. \A q \in ReservationIds : state[q] # "none" => state'[q] # "none"
    BY <2>1
  <2> QED
    BY <1>0, <2>1, <2>2, <2>3 DEF IssuedKept
<1>3. ASSUME NEW t \in Tokens, NEW a \in Adjustments, ApplyAdjustment(t, a) PROVE IssuedKept
  <2>1. \A c \in Classes, s \in Scopes : limit'[c][s] \in Int
    BY ShapeStep DEF ShapeOK, Rules, NoRule
  <2>2. ASSUME NEW c \in Classes, NEW s \in Scopes PROVE peak'[c][s] >= peak[c][s]
    <3>1. peak'[c][s] = IF limit'[c][s] > peak[c][s] THEN limit'[c][s] ELSE peak[c][s]
      BY <1>3, Zenon DEF ApplyAdjustment
    <3> QED
      BY <1>0, <2>1, <3>1
  <2> QED
    BY <1>0, <1>3, <2>2 DEF ApplyAdjustment, IssuedKept
<1>4. ASSUME NEW p \in Processes, NEW r \in ReservationIds, NEW c \in Classes,
             NEW i \in Identities, NEW u \in 1..MaxUnits, NEW o \in Owners,
             NEW e \in Effects \cup {NoEffect}, Reserve(p, r, c, i, u, o, e)
      PROVE  IssuedKept
  <2>1. /\ state[r] = "none" /\ peak' = peak
        /\ \A q \in ReservationIds \ {r} : row'[q] = row[q] /\ state'[q] = state[q]
    BY <1>4 DEF Reserve, ShapeOK
  <2> QED
    BY <1>0, <2>1 DEF IssuedKept
<1>5. ASSUME NEW r \in ReservationIds, NEW e \in Effects, BindEffect(r, e) PROVE IssuedKept
  <2>1. row[r] \in ReservationRow /\ row'[r] = [row[r] EXCEPT !.effect = e]
    BY <1>5 DEF BindEffect, ShapeOK
  <2>2. /\ \A q \in ReservationIds \ {r} : row'[q] = row[q]
        /\ state' = state /\ peak' = peak
    BY <1>5 DEF BindEffect, ShapeOK
  <2>3. /\ row'[r].class = row[r].class /\ row'[r].identity = row[r].identity
        /\ row'[r].rules = row[r].rules
    BY <2>1 DEF ReservationRow
  <2> QED
    BY <1>0, <2>2, <2>3 DEF IssuedKept
<1>6. ASSUME NEW r \in ReservationIds, Consume(r) \/ Release(r) PROVE IssuedKept
  <2>1. row[r] \in ReservationRow /\ row'[r] = [row[r] EXCEPT !.active = now]
    BY <1>6 DEF Consume, Release, ShapeOK
  <2>2. /\ \A q \in ReservationIds \ {r} : row'[q] = row[q] /\ state'[q] = state[q]
        /\ state'[r] # "none" /\ peak' = peak
    BY <1>6 DEF Consume, Release, ShapeOK
  <2>3. /\ row'[r].class = row[r].class /\ row'[r].identity = row[r].identity
        /\ row'[r].rules = row[r].rules
    BY <2>1 DEF ReservationRow
  <2> QED
    BY <1>0, <2>2, <2>3 DEF IssuedKept
<1>7. ASSUME NEW r \in ReservationIds, NEW u \in 1..MaxUnits, ReconcileCost(r, u)
      PROVE  IssuedKept
  <2>1. row[r] \in ReservationRow /\ row'[r] = [row[r] EXCEPT !.units = u, !.active = now]
    BY <1>7 DEF ReconcileCost, ShapeOK
  <2>2. /\ \A q \in ReservationIds \ {r} : row'[q] = row[q]
        /\ state' = state /\ peak' = peak
    BY <1>7 DEF ReconcileCost, ShapeOK
  <2>3. /\ row'[r].class = row[r].class /\ row'[r].identity = row[r].identity
        /\ row'[r].rules = row[r].rules
    BY <2>1 DEF ReservationRow
  <2> QED
    BY <1>0, <2>2, <2>3 DEF IssuedKept
<1>8. CASE Tick \/ UNCHANGED vars
    BY <1>1, <1>8 DEF Tick, vars, store
<1>9. ASSUME NEW p \in Processes, Boot(p) \/ Crash(p) \/ ShutdownInstance(p) PROVE IssuedKept
    BY <1>1, <1>9 DEF Boot, Crash, ShutdownInstance, store
<1>10. ASSUME NEW t \in Tokens, GrantAuthority(t) PROVE IssuedKept
    BY <1>1, <1>10 DEF GrantAuthority
<1>11. ASSUME NEW p \in Processes, NEW c \in Classes, NEW i \in Identities,
              NEW u \in 1..MaxUnits, RefuseReserve(p, c, i, u)
       PROVE  IssuedKept
    BY <1>1, <1>11 DEF RefuseReserve, store
<1> QED
    BY <1>2, <1>3, <1>4, <1>5, <1>6, <1>7, <1>8, <1>9, <1>10, <1>11 DEF Next

\* Limits, peaks and rules are integers.
LEMMA LimitsInt ==
    ASSUME ShapeOK
    PROVE  /\ \A c \in Classes, s \in Scopes : limit[c][s] \in Int /\ peak[c][s] \in Int
           /\ \A r \in ReservationIds : state[r] # "none" =>
                 row[r].class \in Classes /\ \A s \in Scopes : row[r].rules[s] \in Int
<1>1. \A f \in Rules, s \in Scopes : f[s] \in Int
    BY DEF Rules, NoRule
<1>2. \A r \in ReservationIds : state[r] # "none" => row[r].class \in Classes /\ row[r].rules \in Rules
    BY DEF ShapeOK, ReservationRow
<1> QED
    BY <1>1, <1>2 DEF ShapeOK

\* Steps that configure no limit and issue no row keep the peaks above.
LEMMA PeakFrame ==
    ASSUME ShapeOK, PeakOK, IssuedKept, limit' = limit, peak' = peak,
           \A q \in ReservationIds : state[q] = "none" => state'[q] = "none",
           \A q \in ReservationIds : overran'[q] # -1 => overran[q] # -1 \/ state[q] # "none"
    PROVE  PeakOK'
<1>1. \A q \in ReservationIds : state'[q] # "none" =>
         \A s \in Scopes : row'[q].rules[s] <= peak'[row'[q].class][s]
    BY DEF PeakOK, IssuedKept
<1>2. \A q \in ReservationIds : overran'[q] # -1 => state'[q] # "none"
    BY DEF PeakOK, IssuedKept
<1>3. \A c \in Classes, s \in Scopes : limit'[c][s] <= peak'[c][s]
    BY DEF PeakOK
<1> QED
    BY <1>1, <1>2, <1>3 DEF PeakOK

\* Every step keeps the peaks above what is configured and what was promised.
LEMMA PeakStep == ShapeOK /\ PeakOK /\ [Next]_vars => PeakOK'
<1> SUFFICES ASSUME ShapeOK, PeakOK, [Next]_vars PROVE PeakOK'
    OBVIOUS
<1>0. IssuedKept /\ ShapeOK'
    BY IssuedStep, ShapeStep
<1> DEFINE Quiet == /\ limit' = limit /\ peak' = peak
                    /\ \A q \in ReservationIds : state[q] = "none" => state'[q] = "none"
                    /\ \A q \in ReservationIds :
                          overran'[q] # -1 => overran[q] # -1 \/ state[q] # "none"
<1>1. CASE Quiet
    BY <1>0, <1>1, PeakFrame
<1>2. ASSUME NEW p \in Processes, NEW gone \in SUBSET Processes, ReconcileStale(p, gone)
      PROVE  Quiet
    BY <1>2 DEF ReconcileStale
<1>3. ASSUME NEW t \in Tokens, NEW a \in Adjustments, ApplyAdjustment(t, a) PROVE PeakOK'
  <2>1. ASSUME NEW c \in Classes, NEW s \in Scopes PROVE limit'[c][s] <= peak'[c][s]
    <3>1. peak'[c][s] = IF limit'[c][s] > peak[c][s] THEN limit'[c][s] ELSE peak[c][s]
      BY <1>3, Zenon DEF ApplyAdjustment
    <3>2. limit'[c][s] \in Int /\ peak[c][s] \in Int
      BY <1>0 DEF ShapeOK, Rules, NoRule
    <3> QED
      BY <3>1, <3>2
  <2>2. state' = state /\ row' = row /\ overran' = overran
    BY <1>3 DEF ApplyAdjustment
  <2>3. ASSUME NEW q \in ReservationIds, state[q] # "none", NEW s \in Scopes
        PROVE  row[q].rules[s] <= peak'[row[q].class][s]
    <3>1. row[q].class \in Classes /\ row[q].rules[s] \in Int
      BY <2>3, LimitsInt
    <3>2. peak'[row[q].class][s] >= peak[row[q].class][s]
      BY <1>0, <3>1 DEF IssuedKept
    <3>3. row[q].rules[s] <= peak[row[q].class][s]
      BY <2>3 DEF PeakOK
    <3>4. peak'[row[q].class][s] \in Int /\ peak[row[q].class][s] \in Int
      BY <1>0, <3>1 DEF ShapeOK, Rules, NoRule
    <3> QED
      BY <3>1, <3>2, <3>3, <3>4
  <2> QED
    BY <2>1, <2>2, <2>3 DEF PeakOK
<1>4. ASSUME NEW p \in Processes, NEW r \in ReservationIds, NEW c \in Classes,
             NEW i \in Identities, NEW u \in 1..MaxUnits, NEW o \in Owners,
             NEW e \in Effects \cup {NoEffect}, Reserve(p, r, c, i, u, o, e)
      PROVE  PeakOK'
  <2>1. /\ limit' = limit /\ peak' = peak /\ overran' = overran /\ state[r] = "none"
        /\ row'[r].class = c /\ row'[r].rules = limit[c]
    BY <1>4 DEF Reserve, ShapeOK
  <2>2. \A q \in ReservationIds \ {r} : row'[q] = row[q] /\ state'[q] = state[q]
    BY <1>4 DEF Reserve, ShapeOK
  <2>3. \A q \in ReservationIds : state'[q] # "none" =>
           \A s \in Scopes : row'[q].rules[s] <= peak'[row'[q].class][s]
    BY <2>1, <2>2 DEF PeakOK
  <2>4. \A q \in ReservationIds : overran'[q] # -1 => state'[q] # "none"
    BY <2>1, <2>2 DEF PeakOK, ShapeOK
  <2>5. \A d \in Classes, s \in Scopes : limit'[d][s] <= peak'[d][s]
    BY <2>1 DEF PeakOK
  <2> QED
    BY <2>3, <2>4, <2>5 DEF PeakOK
<1>5. ASSUME NEW r \in ReservationIds, NEW e \in Effects, BindEffect(r, e) PROVE Quiet
    BY <1>5 DEF BindEffect
<1>6. ASSUME NEW r \in ReservationIds, Consume(r) \/ Release(r) PROVE Quiet
    BY <1>6 DEF Consume, Release, ShapeOK
<1>7. ASSUME NEW r \in ReservationIds, NEW u \in 1..MaxUnits, ReconcileCost(r, u) PROVE Quiet
    BY <1>7 DEF ReconcileCost, ShapeOK
<1>8. CASE Tick \/ UNCHANGED vars
  <2>1. Quiet
    BY <1>8 DEF Tick, vars, store
  <2> QED
    BY <1>1, <2>1
<1>9. ASSUME NEW p \in Processes, Boot(p) \/ Crash(p) \/ ShutdownInstance(p) PROVE Quiet
    BY <1>9 DEF Boot, Crash, ShutdownInstance, store
<1>10. ASSUME NEW t \in Tokens, GrantAuthority(t) PROVE Quiet
    BY <1>10 DEF GrantAuthority
<1>11. ASSUME NEW p \in Processes, NEW c \in Classes, NEW i \in Identities,
              NEW u \in 1..MaxUnits, RefuseReserve(p, c, i, u)
       PROVE  Quiet
    BY <1>11 DEF RefuseReserve, store
<1> HIDE DEF Quiet
<1> QED
    BY <1>1, <1>2, <1>3, <1>4, <1>5, <1>6, <1>7, <1>8, <1>9, <1>10, <1>11 DEF Next

\* A row that charges a counter is bound by that counter's rule, and the usage
\* of the rule is that counter.
LEMMA CounterRule ==
    ASSUME NEW k \in Counters, NEW rules, NEW identity, rules[k.scope] # NoRule,
           ScopeKey(k.scope, identity) = k.key
    PROVE  /\ k.scope \in Binding(rules, identity)
           /\ k.scope \in Scopes /\ k.scope \notin Windows /\ k.class \in Classes
           /\ CounterOf(k.class, k.scope, identity) = k
<1>1. /\ k.scope \in IdentityScopes \cup {Global} /\ k.key \in Keys \cup {Global}
      /\ k.class \in Classes
    BY DEF Counters, CounterScopes
<1>2. k.scope \notin Windows /\ k.key # NoKey
    BY <1>1, WindowAssumption, IdentityAssumption
<1>3. k = [class |-> k.class, scope |-> k.scope, key |-> k.key]
    BY DEF Counters
<1>4. CounterOf(k.class, k.scope, identity) = k
    BY <1>3, Zenon DEF CounterOf
<1> QED
    BY <1>1, <1>2, <1>4 DEF Binding, Scopes

\* What is used under counter k.
Used(k) == reservedUnits[k] + consumedUnits[k]

\* The ceiling of one counter.
CeilingAt(k) ==
    \/ Used(k) = 0
    \/ Used(k) <= peak[k.class][k.scope]
    \/ \E r \in Accounted : Charges(row[r], k)

\* A step that does not raise the usage of a counter keeps its ceiling.
LEMMA CeilingFrame ==
    ASSUME TypeOK, TypeOK', PeakOK, IssuedKept, NEW k \in Counters, CeilingAt(k),
           Used(k)' <= Used(k)
    PROVE  CeilingAt(k)'
<1>1. k.class \in Classes /\ k.scope \in Scopes
    BY DEF Counters, CounterScopes, Scopes
<1>2. /\ peak[k.class][k.scope] \in Int /\ peak'[k.class][k.scope] \in Int
      /\ peak'[k.class][k.scope] >= peak[k.class][k.scope]
    BY <1>1 DEF IssuedKept, TypeOK, ShapeOK, Rules, NoRule
<1>3. Used(k) \in Nat /\ Used(k)' \in Nat
    BY DEF Used, TypeOK
<1>4. CASE \E r \in Accounted : Charges(row[r], k)
  <2>1. PICK r \in Accounted : Charges(row[r], k)
    BY <1>4
  <2>2. r \in Accounted' /\ r \in ReservationIds /\ state[r] # "none"
    BY DEF IssuedKept, PeakOK, Accounted, OverageAccounted
  <2>3. Charges(row'[r], k)
    BY <2>1, <2>2, ChargesSame DEF IssuedKept
  <2> QED
    BY <2>2, <2>3 DEF CeilingAt
<1>5. CASE Used(k) = 0
  <2>1. Used(k)' = 0
    BY <1>3, <1>5
  <2> QED
    BY <2>1 DEF CeilingAt
<1>6. CASE Used(k) <= peak[k.class][k.scope]
  <2>1. Used(k)' <= peak'[k.class][k.scope]
    BY <1>2, <1>3, <1>6
  <2> QED
    BY <2>1 DEF CeilingAt
<1> QED
    BY <1>4, <1>5, <1>6 DEF CeilingAt

\* reserve_effect_units admits within the limit of every counter it charges.
LEMMA CeilingReserve ==
    ASSUME TypeOK, TypeOK', PeakOK, IssuedKept, NEW k \in Counters, CeilingAt(k),
           NEW p \in Processes, NEW r \in ReservationIds, NEW c \in Classes,
           NEW i \in Identities, NEW u \in 1..MaxUnits, NEW o \in Owners,
           NEW e \in Effects \cup {NoEffect}, Reserve(p, r, c, i, u, o, e)
    PROVE  CeilingAt(k)'
<1> DEFINE rec == [class |-> c, units |-> u, identity |-> i,
                   rules |-> limit[c], instance |-> p, owner |-> o,
                   effect |-> e, created |-> now, active |-> now]
<1>1. /\ reservedUnits' = CounterAdjust(reservedUnits, rec, u) /\ consumedUnits' = consumedUnits
      /\ WithinLimits(c, i, u) /\ peak' = peak
    BY DEF Reserve
<1>2. rec.class = c /\ rec.identity = i /\ rec.rules = limit[c]
    OBVIOUS
<1> HIDE DEF rec
<1>3. CASE ~Charges(rec, k)
  <2>1. reservedUnits'[k] = reservedUnits[k]
    BY <1>1, <1>3 DEF CounterAdjust
  <2>2. Used(k)' <= Used(k)
    BY <1>1, <2>1 DEF Used, TypeOK
  <2> QED
    BY <2>2, CeilingFrame
<1>4. CASE Charges(rec, k)
  <2>1. c = k.class /\ limit[c][k.scope] # NoRule /\ ScopeKey(k.scope, i) = k.key
    BY <1>2, <1>4 DEF Charges
  <2>2. /\ k.scope \in Binding(limit[c], i) /\ k.scope \in Scopes /\ k.scope \notin Windows
        /\ CounterOf(c, k.scope, i) = k
    BY <2>1, CounterRule
  <2>3. RuleUsage(row, consumedUnits, c, k.scope, i) + u <= limit[c][k.scope]
    BY <1>1, <2>2 DEF WithinLimits
  <2>4. RuleUsage(row, consumedUnits, c, k.scope, i) = reservedUnits[k] + consumedUnits[k]
    BY <2>2, Zenon DEF RuleUsage
  <2>5. reservedUnits'[k] = reservedUnits[k] + u
    BY <1>1, <1>4 DEF CounterAdjust
  <2>6. /\ limit[c][k.scope] <= peak[c][k.scope]
        /\ limit[c][k.scope] \in Int /\ peak[c][k.scope] \in Int
    BY <2>2, LimitsInt DEF PeakOK, TypeOK
  <2>7. reservedUnits[k] \in Nat /\ consumedUnits[k] \in Nat /\ u \in Nat
    BY DEF TypeOK
  <2>8. reservedUnits'[k] + consumedUnits'[k] <= peak[c][k.scope]
    BY <1>1, <2>3, <2>4, <2>5, <2>6, <2>7
  <2> QED
    BY <1>1, <2>1, <2>8 DEF CeilingAt, Used
<1> QED
    BY <1>3, <1>4

\* reconcile_effect_cost leaves an event of the overage it sees.
LEMMA OverageRecorded ==
    ASSUME ShapeOK, NEW r \in ReservationIds, NEW u \in 1..MaxUnits, ReconcileCost(r, u)
    PROVE  OverLimit(r, row', consumedUnits') => r \in Accounted'
<1> SUFFICES ASSUME OverLimit(r, row', consumedUnits') PROVE r \in Accounted'
    OBVIOUS
<1>1. overages' = [overages EXCEPT ![r] = now] /\ overran' = [overran EXCEPT ![r] = now]
    BY DEF ReconcileCost
<1>2. overages'[r] = now /\ overran'[r] = now /\ now # -1
    BY <1>1 DEF ShapeOK
<1> QED
    BY <1>2 DEF Accounted, OverageAccounted

\* reconcile_effect_cost either stays within the limits the row was made
\* under, or records the overage.
LEMMA CeilingCost ==
    ASSUME TypeOK, TypeOK', PeakOK, IssuedKept, NEW k \in Counters, CeilingAt(k),
           NEW r \in ReservationIds, NEW u \in 1..MaxUnits, ReconcileCost(r, u)
    PROVE  CeilingAt(k)'
<1>1. /\ consumedUnits' = CounterAdjust(consumedUnits, row[r], u - row[r].units)
      /\ reservedUnits' = reservedUnits /\ peak' = peak /\ state[r] # "none"
      /\ OverLimit(r, row', consumedUnits') => r \in Accounted'
    BY OverageRecorded DEF ReconcileCost, TypeOK
<1>2. CASE ~Charges(row[r], k)
  <2>1. consumedUnits'[k] = consumedUnits[k]
    BY <1>1, <1>2 DEF CounterAdjust
  <2>2. Used(k)' <= Used(k)
    BY <1>1, <2>1 DEF Used, TypeOK
  <2> QED
    BY <2>2, CeilingFrame
<1>3. CASE Charges(row[r], k)
  <2> DEFINE R == row[r].rules
             i == row[r].identity
  <2>1. row[r].class = k.class /\ R[k.scope] # NoRule /\ ScopeKey(k.scope, i) = k.key
    BY <1>3 DEF Charges
  <2>2. /\ k.scope \in Binding(R, i) /\ k.scope \in Scopes /\ k.scope \notin Windows
        /\ CounterOf(k.class, k.scope, i) = k
    BY <2>1, CounterRule
  <2>3. CASE OverLimit(r, row', consumedUnits')
    <3>1. r \in Accounted' /\ Charges(row'[r], k)
      BY <1>1, <1>3, <2>3, ChargesSame DEF IssuedKept
    <3> QED
      BY <3>1 DEF CeilingAt
  <2>4. CASE ~OverLimit(r, row', consumedUnits')
    <3>1. ~(RuleUsage(row', consumedUnits', k.class, k.scope, i) > R[k.scope])
      BY <2>1, <2>2, <2>4, Zenon DEF OverLimit
    <3>2. RuleUsage(row', consumedUnits', k.class, k.scope, i) = reservedUnits[k] + consumedUnits'[k]
      BY <2>2, Zenon DEF RuleUsage
    <3>3. /\ R[k.scope] <= peak[k.class][k.scope] /\ R[k.scope] \in Int
          /\ peak[k.class][k.scope] \in Int
      <4>1. k.class \in Classes
        BY <1>1, <2>1, LimitsInt DEF TypeOK
      <4> QED
        BY <1>1, <2>1, <2>2, <4>1, LimitsInt DEF PeakOK, TypeOK
    <3>4. reservedUnits[k] \in Nat /\ consumedUnits'[k] \in Nat
      BY DEF TypeOK
    <3>5. reservedUnits[k] + consumedUnits'[k] <= peak[k.class][k.scope]
      BY <3>1, <3>2, <3>3, <3>4
    <3> QED
      BY <1>1, <3>5 DEF CeilingAt, Used
  <2> QED
    BY <2>3, <2>4
<1> QED
    BY <1>2, <1>3

\* Settling and reconciling move units between counters or give them back.
LEMMA UsedFalls ==
    ASSUME TypeOK, TypeOK', NEW k \in Counters,
           \/ \E r \in ReservationIds : Consume(r) \/ Release(r)
           \/ \E p \in Processes, gone \in SUBSET Processes : ReconcileStale(p, gone)
    PROVE  Used(k)' <= Used(k)
<1>0. reservedUnits[k] \in Nat /\ consumedUnits[k] \in Nat
    BY DEF TypeOK
<1>1. ASSUME NEW r \in ReservationIds, Consume(r) \/ Release(r) PROVE Used(k)' <= Used(k)
  <2> DEFINE n == row[r].units
  <2>1. n \in Nat
    BY <1>1, IssuedUnits DEF TypeOK, Consume, Release
  <2>2. /\ reservedUnits' = CounterAdjust(reservedUnits, row[r], -n)
        /\ \/ consumedUnits' = CounterAdjust(consumedUnits, row[r], n)
           \/ consumedUnits' = consumedUnits
    BY <1>1 DEF Consume, Release
  <2> HIDE DEF n
  <2>3. \/ reservedUnits'[k] = reservedUnits[k] + (-n) /\ consumedUnits'[k] = consumedUnits[k] + n
        \/ reservedUnits'[k] = reservedUnits[k] + (-n) /\ consumedUnits'[k] = consumedUnits[k]
        \/ reservedUnits'[k] = reservedUnits[k] /\ consumedUnits'[k] = consumedUnits[k]
    BY <2>2 DEF CounterAdjust
  <2> QED
    BY <1>0, <2>1, <2>3 DEF Used
<1>2. ASSUME NEW p \in Processes, NEW gone \in SUBSET Processes, ReconcileStale(p, gone)
      PROVE  Used(k)' <= Used(k)
  <2> DEFINE D == {r \in {q \in ReservationIds : /\ state[q] = "reserved"
                                                 /\ InstanceDead(row[q].instance, gone)} :
                      Charges(row[r], k)}
  <2>1. reservedUnits'[k] = reservedUnits[k] - UnitsOf(row, D) /\ consumedUnits' = consumedUnits
    BY <1>2 DEF ReconcileStale
  <2>2. D \subseteq ReservationIds
    OBVIOUS
  <2> HIDE DEF D
  <2>3. UnitsOf(row, D) \in Nat
    BY <2>2, UnitsType
  <2> QED
    BY <1>0, <2>1, <2>3 DEF Used
<1> QED
    BY <1>1, <1>2

\* The inductive invariant behind the ceiling.
CeilingOK == CountedOK /\ PeakOK /\ CeilingHeld

\* The ceiling, counter by counter.
LEMMA CeilingByCounter == CeilingHeld <=> \A k \in Counters : CeilingAt(k)
BY DEF CeilingHeld, CeilingAt, Used, Accounted

\* Nothing is used at the start.
LEMMA CeilingInit == Init => CeilingOK
<1> SUFFICES ASSUME Init PROVE CeilingOK
    OBVIOUS
<1>1. CountedOK
    BY CountedInit
<1>2. PeakOK
  <2>1. \A c \in Classes, s \in Scopes : limit[c][s] \in Int
    BY <1>1, LimitsInt DEF CountedOK, TypeOK
  <2> QED
    BY <2>1 DEF Init, PeakOK
<1>3. CeilingHeld
    BY DEF Init, CeilingHeld
<1> QED
    BY <1>1, <1>2, <1>3 DEF CeilingOK

\* Every step keeps every counter under its ceiling.
LEMMA CeilingStep == CeilingOK /\ [Next]_vars => CeilingOK'
<1> SUFFICES ASSUME CeilingOK, [Next]_vars PROVE CeilingOK'
    OBVIOUS
<1>1. /\ CountedOK /\ CountedOK' /\ PeakOK /\ PeakOK' /\ IssuedKept /\ TypeOK /\ TypeOK'
      /\ \A k \in Counters : CeilingAt(k)
    BY CountedStep, PeakStep, IssuedStep, CeilingByCounter DEF CeilingOK, CountedOK, TypeOK
<1>2. ASSUME NEW k \in Counters PROVE CeilingAt(k)'
  <2>1. CASE Used(k)' <= Used(k)
    BY <1>1, <2>1, CeilingFrame
  <2>2. CASE UNCHANGED <<reservedUnits, consumedUnits>>
    <3>1. Used(k)' <= Used(k)
      BY <1>1, <2>2 DEF Used, TypeOK
    <3> QED
      BY <2>1, <3>1
  <2>3. ASSUME NEW p \in Processes, NEW r \in ReservationIds, NEW c \in Classes,
               NEW i \in Identities, NEW u \in 1..MaxUnits, NEW o \in Owners,
               NEW e \in Effects \cup {NoEffect}, Reserve(p, r, c, i, u, o, e)
        PROVE  CeilingAt(k)'
    BY <1>1, <2>3, CeilingReserve
  <2>4. ASSUME NEW r \in ReservationIds, NEW u \in 1..MaxUnits, ReconcileCost(r, u)
        PROVE  CeilingAt(k)'
    BY <1>1, <2>4, CeilingCost
  <2>5. CASE \/ \E r \in ReservationIds : Consume(r) \/ Release(r)
             \/ \E p \in Processes, gone \in SUBSET Processes : ReconcileStale(p, gone)
    BY <1>1, <2>1, <2>5, UsedFalls
  <2>6. CASE Tick \/ UNCHANGED vars
    BY <2>2, <2>6 DEF Tick, vars, store
  <2>7. ASSUME NEW p \in Processes, Boot(p) \/ Crash(p) \/ ShutdownInstance(p)
        PROVE  UNCHANGED <<reservedUnits, consumedUnits>>
    BY <2>7 DEF Boot, Crash, ShutdownInstance, store
  <2>8. ASSUME NEW t \in Tokens, NEW a \in Adjustments, ApplyAdjustment(t, a)
        PROVE  UNCHANGED <<reservedUnits, consumedUnits>>
    BY <2>8 DEF ApplyAdjustment
  <2>9. ASSUME NEW t \in Tokens, GrantAuthority(t) PROVE UNCHANGED <<reservedUnits, consumedUnits>>
    BY <2>9 DEF GrantAuthority
  <2>10. ASSUME NEW p \in Processes, NEW c \in Classes, NEW i \in Identities,
                NEW u \in 1..MaxUnits, RefuseReserve(p, c, i, u)
         PROVE  UNCHANGED <<reservedUnits, consumedUnits>>
    BY <2>10 DEF RefuseReserve, store
  <2>11. ASSUME NEW r \in ReservationIds, NEW e \in Effects, BindEffect(r, e)
         PROVE  UNCHANGED <<reservedUnits, consumedUnits>>
    BY <2>11 DEF BindEffect
  <2> QED
    BY <2>2, <2>3, <2>4, <2>5, <2>6, <2>7, <2>8, <2>9, <2>10, <2>11 DEF Next
<1>3. CeilingHeld'
    BY <1>2 DEF CeilingHeld, CeilingAt, Used, Accounted
<1> QED
    BY <1>1, <1>3 DEF CeilingOK

\* Laws 3 and 5 of the effect budget, for any number of processes, rules and
\* reservations: what is reserved and consumed under a counted rule stays
\* within the highest limit ever configured for it, unless a measured cost
\* went over and its over_limit event is on record.
THEOREM CeilingAlwaysHeld == Spec => []CeilingHeld
<1>1. CeilingOK => CeilingHeld
    BY DEF CeilingOK
<1> QED
    BY <1>1, CeilingInit, CeilingStep, PTL DEF Spec

-----------------------------------------------------------------------------
(* Spent units.                                                            *)

\* consume_reservation and reconcile_effect_cost only add to a consumed
\* counter, and nothing else touches one.
LEMMA SpentStep ==
    ASSUME TypeOK, [Next]_vars, NEW k \in Counters
    PROVE  consumedUnits'[k] >= consumedUnits[k]
<1>0. consumedUnits[k] \in Nat
    BY DEF TypeOK
<1>1. CASE consumedUnits' = consumedUnits
    BY <1>0, <1>1
<1>2. ASSUME NEW r \in ReservationIds, Consume(r) PROVE consumedUnits'[k] >= consumedUnits[k]
  <2>1. row[r].units \in Nat
    BY <1>2, IssuedUnits DEF TypeOK, Consume
  <2>2. \/ consumedUnits'[k] = consumedUnits[k] + row[r].units
        \/ consumedUnits'[k] = consumedUnits[k]
    BY <1>2 DEF Consume, CounterAdjust
  <2> QED
    BY <1>0, <2>1, <2>2
<1>3. ASSUME NEW r \in ReservationIds, NEW u \in 1..MaxUnits, ReconcileCost(r, u)
      PROVE  consumedUnits'[k] >= consumedUnits[k]
  <2>1. row[r].units \in Nat /\ u > row[r].units
    BY <1>3, IssuedUnits DEF TypeOK, ReconcileCost
  <2>2. \/ consumedUnits'[k] = consumedUnits[k] + (u - row[r].units)
        \/ consumedUnits'[k] = consumedUnits[k]
    BY <1>3 DEF ReconcileCost, CounterAdjust
  <2> QED
    BY <1>0, <2>1, <2>2
<1>4. CASE Tick \/ UNCHANGED vars
    BY <1>1, <1>4 DEF Tick, vars, store
<1>5. ASSUME NEW p \in Processes, Boot(p) \/ Crash(p) \/ ShutdownInstance(p)
      PROVE  consumedUnits' = consumedUnits
    BY <1>5 DEF Boot, Crash, ShutdownInstance, store
<1>6. ASSUME NEW p \in Processes, NEW gone \in SUBSET Processes, ReconcileStale(p, gone)
      PROVE  consumedUnits' = consumedUnits
    BY <1>6 DEF ReconcileStale
<1>7. ASSUME NEW t \in Tokens, GrantAuthority(t) PROVE consumedUnits' = consumedUnits
    BY <1>7 DEF GrantAuthority
<1>8. ASSUME NEW t \in Tokens, NEW a \in Adjustments, ApplyAdjustment(t, a)
      PROVE  consumedUnits' = consumedUnits
    BY <1>8 DEF ApplyAdjustment
<1>9. ASSUME NEW p \in Processes, NEW r \in ReservationIds, NEW c \in Classes,
             NEW i \in Identities, NEW u \in 1..MaxUnits, NEW o \in Owners,
             NEW e \in Effects \cup {NoEffect}, Reserve(p, r, c, i, u, o, e)
      PROVE  consumedUnits' = consumedUnits
    BY <1>9 DEF Reserve
<1>10. ASSUME NEW p \in Processes, NEW c \in Classes, NEW i \in Identities,
              NEW u \in 1..MaxUnits, RefuseReserve(p, c, i, u)
       PROVE  consumedUnits' = consumedUnits
    BY <1>10 DEF RefuseReserve, store
<1>11. ASSUME NEW r \in ReservationIds, NEW e \in Effects, BindEffect(r, e)
       PROVE  consumedUnits' = consumedUnits
    BY <1>11 DEF BindEffect
<1>12. ASSUME NEW r \in ReservationIds, Release(r) PROVE consumedUnits' = consumedUnits
    BY <1>12 DEF Release
<1> QED
    BY <1>1, <1>2, <1>3, <1>4, <1>5, <1>6, <1>7, <1>8, <1>9, <1>10, <1>11, <1>12 DEF Next

\* "CONSUMED units are spent and never refunded": no step of any process
\* lowers what is consumed under any rule.
THEOREM SpentAlwaysStaysSpent == Spec => SpentStaysSpent
<1>1. TypeOK /\ [Next]_vars =>
         [\A k \in Counters : consumedUnits'[k] >= consumedUnits[k]]_vars
    BY SpentStep
<1> QED
    BY <1>1, TypeCorrect, PTL DEF Spec, SpentStaysSpent

-----------------------------------------------------------------------------
(* The rolling windows.                                                    *)

\* Rows are created once and age; the clock does not run backwards, and only rows
\* past the retention are pruned.
AgesKept ==
    /\ now' >= now
    /\ \A q \in ReservationIds : state[q] # "none" =>
          /\ row'[q].created = row[q].created
          /\ row'[q].active = row[q].active \/ row'[q].active = now
    /\ \A q \in ReservationIds : state[q] = "none" /\ state'[q] # "none" =>
          row'[q].created = now /\ row'[q].active = now
    /\ \A q \in pruned' : q \in pruned \/ Prunable(q)

\* No step makes a row younger than it is.
LEMMA AgesStep == ShapeOK /\ [Next]_vars => AgesKept
<1> SUFFICES ASSUME ShapeOK, [Next]_vars PROVE AgesKept
    OBVIOUS
<1>0. now \in Nat /\ \A q \in ReservationIds : state[q] # "none" => row[q] \in ReservationRow
    BY DEF ShapeOK
<1>1. CASE UNCHANGED <<state, row, pruned>> /\ now' \in {now, now + 1}
    BY <1>0, <1>1 DEF AgesKept
<1>2. ASSUME NEW p \in Processes, NEW gone \in SUBSET Processes, ReconcileStale(p, gone)
      PROVE  AgesKept
  <2> DEFINE stale == {r \in ReservationIds : /\ state[r] = "reserved"
                                              /\ InstanceDead(row[r].instance, gone)}
  <2>1. /\ state' = [r \in ReservationIds |-> IF r \in stale THEN "released" ELSE state[r]]
        /\ row' = [r \in ReservationIds |->
                      IF r \in stale THEN [row[r] EXCEPT !.active = now] ELSE row[r]]
        /\ UNCHANGED <<now, pruned>> /\ \A r \in stale : state[r] # "none"
    BY <1>2 DEF ReconcileStale
  <2> HIDE DEF stale
  <2>2. ASSUME NEW q \in ReservationIds, state[q] # "none"
        PROVE  /\ row'[q].created = row[q].created
               /\ row'[q].active = row[q].active \/ row'[q].active = now
    <3>1. row'[q] = row[q] \/ row'[q] = [row[q] EXCEPT !.active = now]
      BY <2>1
    <3> QED
      BY <1>0, <2>2, <3>1 DEF ReservationRow
  <2>3. \A q \in ReservationIds : state[q] = "none" => state'[q] = "none"
    BY <2>1
  <2> QED
    BY <1>0, <2>1, <2>2, <2>3 DEF AgesKept
<1>3. ASSUME NEW p \in Processes, NEW r \in ReservationIds, NEW c \in Classes,
             NEW i \in Identities, NEW u \in 1..MaxUnits, NEW o \in Owners,
             NEW e \in Effects \cup {NoEffect}, Reserve(p, r, c, i, u, o, e)
      PROVE  AgesKept
  <2>1. /\ state[r] = "none" /\ row'[r].created = now /\ row'[r].active = now /\ now' = now
        /\ \A q \in ReservationIds \ {r} : row'[q] = row[q] /\ state'[q] = state[q]
        /\ \A q \in pruned' : q \in pruned \/ Prunable(q)
    BY <1>3 DEF Reserve, ShapeOK
  <2> QED
    BY <1>0, <2>1 DEF AgesKept
<1>4. ASSUME NEW r \in ReservationIds, NEW e \in Effects, BindEffect(r, e) PROVE AgesKept
  <2>1. /\ row' = [row EXCEPT ![r].effect = e] /\ UNCHANGED <<state, pruned, now>>
        /\ row[r] \in ReservationRow /\ row \in [ReservationIds -> ReservationRow \cup {NoRow}]
    BY <1>4 DEF BindEffect, ShapeOK
  <2>2. row'[r].created = row[r].created /\ row'[r].active = row[r].active
    BY <2>1 DEF ReservationRow
  <2> QED
    BY <1>0, <2>1, <2>2 DEF AgesKept
<1>5. ASSUME NEW r \in ReservationIds, Consume(r) \/ Release(r) PROVE AgesKept
  <2>1. /\ row' = [row EXCEPT ![r].active = now] /\ UNCHANGED <<pruned, now>>
        /\ row[r] \in ReservationRow /\ row \in [ReservationIds -> ReservationRow \cup {NoRow}]
        /\ \A q \in ReservationIds : state[q] = "none" => state'[q] = "none"
    BY <1>5 DEF Consume, Release, ShapeOK
  <2>2. row'[r].created = row[r].created /\ row'[r].active = now
    BY <2>1 DEF ReservationRow
  <2> QED
    BY <1>0, <2>1, <2>2 DEF AgesKept
<1>6. ASSUME NEW r \in ReservationIds, NEW u \in 1..MaxUnits, ReconcileCost(r, u) PROVE AgesKept
  <2>1. /\ row' = [row EXCEPT ![r].units = u, ![r].active = now] /\ UNCHANGED <<state, pruned, now>>
        /\ row[r] \in ReservationRow /\ row \in [ReservationIds -> ReservationRow \cup {NoRow}]
    BY <1>6 DEF ReconcileCost, ShapeOK
  <2>2. row'[r].created = row[r].created /\ row'[r].active = now
    BY <2>1 DEF ReservationRow
  <2> QED
    BY <1>0, <2>1, <2>2 DEF AgesKept
<1>7. CASE Tick \/ UNCHANGED vars
    BY <1>1, <1>7 DEF Tick, vars, store
<1>8. ASSUME NEW p \in Processes, Boot(p) \/ Crash(p) \/ ShutdownInstance(p) PROVE AgesKept
    BY <1>1, <1>8 DEF Boot, Crash, ShutdownInstance, store
<1>9. ASSUME NEW t \in Tokens, GrantAuthority(t) \/ \E a \in Adjustments : ApplyAdjustment(t, a)
      PROVE  AgesKept
    BY <1>1, <1>9 DEF GrantAuthority, ApplyAdjustment
<1>10. ASSUME NEW p \in Processes, NEW c \in Classes, NEW i \in Identities,
              NEW u \in 1..MaxUnits, RefuseReserve(p, c, i, u)
       PROVE  AgesKept
    BY <1>1, <1>10 DEF RefuseReserve, store
<1> QED
    BY <1>2, <1>3, <1>4, <1>5, <1>6, <1>7, <1>8, <1>9, <1>10 DEF Next

\* A row is active no earlier than it was created; what was pruned was created before
\* the retention.
AgeOK ==
    /\ \A r \in ReservationIds : state[r] # "none" =>
          row[r].created <= row[r].active /\ row[r].active <= now
    /\ \A r \in pruned : state[r] # "none" /\ row[r].created < now - Retention

\* Rows keep their ages in order.
LEMMA AgeStep == ShapeOK /\ AgeOK /\ AgesKept /\ IssuedKept /\ ShapeOK' => AgeOK'
<1> SUFFICES ASSUME ShapeOK, AgeOK, AgesKept, IssuedKept, ShapeOK' PROVE AgeOK'
    OBVIOUS
<1>0. now \in Nat /\ now' \in Nat /\ now' >= now /\ Retention \in Nat
    BY BoundAssumption DEF ShapeOK, AgesKept
<1>1. \A r \in ReservationIds : state[r] # "none" => row[r].created \in Nat /\ row[r].active \in Nat
    BY DEF ShapeOK, ReservationRow
<1>2. ASSUME NEW r \in ReservationIds, state'[r] # "none" 
      PROVE  row'[r].created <= row'[r].active /\ row'[r].active <= now'
  <2>1. CASE state[r] = "none"
    BY <1>0, <1>2, <2>1 DEF AgesKept
  <2>2. CASE state[r] # "none"
    <3>1. /\ row'[r].created = row[r].created
          /\ row'[r].active = row[r].active \/ row'[r].active = now
      BY <2>2 DEF AgesKept
    <3>2. row[r].created <= row[r].active /\ row[r].active <= now
      BY <2>2 DEF AgeOK
    <3> QED
      BY <1>0, <1>1, <2>2, <3>1, <3>2
  <2> QED
    BY <2>1, <2>2
<1>3. ASSUME NEW r \in pruned' PROVE state'[r] # "none" /\ row'[r].created < now' - Retention
  <2>1. r \in ReservationIds /\ (r \in pruned \/ Prunable(r))
    BY <1>3 DEF AgesKept, ShapeOK
  <2>2. state[r] # "none" /\ row[r].created < now - Retention
    BY <2>1 DEF AgeOK, Prunable
  <2>3. row'[r].created = row[r].created /\ state'[r] # "none"
    BY <2>1, <2>2 DEF AgesKept, IssuedKept
  <2> QED
    BY <1>0, <1>1, <2>1, <2>2, <2>3
<1> QED
    BY <1>2, <1>3 DEF AgeOK

-----------------------------------------------------------------------------
(* ... and what they hold.                                                 *)

\* The reservations authorised in the window w of class c, pruned or not.
Authorised(c, w) ==
    {r \in ReservationIds : /\ state[r] \in {"reserved", "consumed"} /\ row[r].class = c
                            /\ row[r].rules[w] # NoRule
                            /\ row[r].created >= now - WindowSeconds[w]}

\* What WindowHeld says of one window.
WindowAt(c, w) ==
    \/ AuthorisedInWindow(c, w) = 0
    \/ AuthorisedInWindow(c, w) <= peak[c][w]
    \/ \E r \in Accounted : row[r].class = c /\ row[r].rules[w] # NoRule

\* The units authorised in a window are the units of its reservations.
LEMMA AuthorisedUnits ==
    ASSUME NEW c, NEW w
    PROVE  /\ AuthorisedInWindow(c, w) = UnitsOf(row, Authorised(c, w))
           /\ AuthorisedInWindow(c, w) \in Nat /\ Authorised(c, w) \subseteq ReservationIds
<1>1. AuthorisedInWindow(c, w) = UnitsOf(row, Authorised(c, w))
    BY DEF AuthorisedInWindow, Authorised
<1>2. Authorised(c, w) \subseteq ReservationIds
    BY DEF Authorised
<1> QED
    BY <1>1, <1>2, UnitsType

\* ... after a step as before it.
LEMMA AuthorisedUnitsPrime ==
    ASSUME NEW c \in Classes, NEW w \in Windows
    PROVE  /\ AuthorisedInWindow(c, w)' = UnitsOf(row', Authorised(c, w)')
           /\ AuthorisedInWindow(c, w)' \in Nat /\ Authorised(c, w)' \subseteq ReservationIds
<1>1. AuthorisedInWindow(c, w)' = UnitsOf(row', Authorised(c, w)')
    BY DEF AuthorisedInWindow, Authorised, UnitsOf, UnitTokens
<1>2. Authorised(c, w)' \subseteq ReservationIds
    BY DEF Authorised
<1> QED
    BY <1>1, <1>2, UnitsType

\* Peaks of a window rule are integers and do not fall; an over_limit event stays.
LEMMA WindowPeak ==
    ASSUME ShapeOK, ShapeOK', PeakOK, IssuedKept, NEW c \in Classes, NEW w \in Windows
    PROVE  /\ w \in Scopes /\ peak[c][w] \in Int /\ peak'[c][w] \in Int /\ peak'[c][w] >= peak[c][w]
           /\ (\E r \in Accounted : row[r].class = c /\ row[r].rules[w] # NoRule) =>
                 \E r \in Accounted' : row'[r].class = c /\ row'[r].rules[w] # NoRule
<1>1. w \in Scopes
    BY DEF Scopes
<1>2. peak[c][w] \in Int /\ peak'[c][w] \in Int /\ peak'[c][w] >= peak[c][w]
    BY <1>1 DEF IssuedKept, ShapeOK, Rules, NoRule
<1>3. ASSUME NEW r \in Accounted, row[r].class = c, row[r].rules[w] # NoRule
      PROVE  r \in Accounted' /\ row'[r].class = c /\ row'[r].rules[w] # NoRule
    BY <1>3 DEF IssuedKept, PeakOK, Accounted, OverageAccounted
<1> QED
    BY <1>1, <1>2, <1>3

\* A step that authorises nothing more in a window keeps it.
LEMMA WindowFrame ==
    ASSUME ShapeOK, ShapeOK', PeakOK, IssuedKept, NEW c \in Classes, NEW w \in Windows,
           WindowAt(c, w), Authorised(c, w)' \subseteq Authorised(c, w),
           \A r \in Authorised(c, w)' : row'[r].units = row[r].units
    PROVE  WindowAt(c, w)'
<1>1. UnitsOf(row', Authorised(c, w)') = UnitsOf(row, Authorised(c, w)')
    BY AuthorisedUnitsPrime, UnitsSame
<1>2. UnitsOf(row, Authorised(c, w)') <= UnitsOf(row, Authorised(c, w))
    BY AuthorisedUnits, UnitsMonotone
<1>3. AuthorisedInWindow(c, w)' <= AuthorisedInWindow(c, w)
      /\ AuthorisedInWindow(c, w) \in Nat /\ AuthorisedInWindow(c, w)' \in Nat
    BY <1>1, <1>2, AuthorisedUnits, AuthorisedUnitsPrime
<1> QED
    BY <1>3, WindowPeak DEF WindowAt

\* What is authorised in a window no longer than the retention is not pruned yet, so
\* the scan of _rule_usage sees it.
LEMMA ScanSeesWindow ==
    ASSUME ShapeOK, AgeOK, NEW c \in Classes, NEW w \in Windows, WindowSeconds[w] <= Retention,
           NEW r \in Authorised(c, w)
    PROVE  InWindow(row, r, c, w)
<1>1. /\ r \in ReservationIds /\ state[r] \in {"reserved", "consumed"} /\ row[r].class = c
      /\ row[r].rules[w] # NoRule /\ row[r].created >= now - WindowSeconds[w]
    BY DEF Authorised
<1>2. /\ row[r].created \in Nat /\ row[r].active \in Nat /\ now \in Nat
      /\ WindowSeconds[w] \in Nat /\ Retention \in Nat
    BY <1>1, WindowAssumption, BoundAssumption DEF ShapeOK, ReservationRow
<1>3. row[r].created <= row[r].active
    BY <1>1 DEF AgeOK
<1>4. r \notin pruned
    BY <1>1, <1>2 DEF AgeOK
<1> QED
    BY <1>1, <1>2, <1>3, <1>4 DEF InWindow

\* reserve_effect_units admits within the limit of every window.
LEMMA WindowReserve ==
    ASSUME ShapeOK, ShapeOK', PeakOK, AgeOK, IssuedKept, NEW c \in Classes, NEW w \in Windows,
           WindowSeconds[w] <= Retention, WindowAt(c, w),
           NEW p \in Processes, NEW r \in ReservationIds, NEW d \in Classes,
           NEW i \in Identities, NEW u \in 1..MaxUnits, NEW o \in Owners,
           NEW e \in Effects \cup {NoEffect}, Reserve(p, r, d, i, u, o, e)
    PROVE  WindowAt(c, w)'
<1>1. /\ state[r] = "none" /\ WithinLimits(d, i, u)
      /\ state' = [state EXCEPT ![r] = "reserved"] /\ UNCHANGED <<now, peak, limit>>
      /\ row'[r].class = d /\ row'[r].units = u /\ row'[r].rules = limit[d]
      /\ \A q \in ReservationIds \ {r} : row'[q] = row[q] /\ state'[q] = state[q]
    BY DEF Reserve, ShapeOK
<1>2. r \notin Authorised(c, w)
    BY <1>1 DEF Authorised
<1>3. Authorised(c, w)' \subseteq Authorised(c, w) \cup {r}
    BY <1>1 DEF Authorised
<1>4. CASE r \notin Authorised(c, w)'
  <2>1. Authorised(c, w)' \subseteq Authorised(c, w)
    BY <1>3, <1>4
  <2>2. \A q \in Authorised(c, w)' : row'[q].units = row[q].units
    BY <1>1, <1>4, <2>1, AuthorisedUnits
  <2> QED
    BY <2>1, <2>2, WindowFrame
<1>5. CASE r \in Authorised(c, w)'
  <2>1. d = c /\ limit[c][w] # NoRule
    BY <1>1, <1>5 DEF Authorised
  <2>2. w \in Scopes /\ w \notin CounterScopes /\ peak[c][w] \in Int
    BY WindowPeak, WindowAssumption DEF CounterScopes
  <2>3. WindowUsage(row, c, w) + u <= limit[c][w]
    BY <1>1, <2>1, <2>2 DEF WithinLimits, Binding, RuleUsage
  <2>4. limit[c][w] <= peak[c][w] /\ limit[c][w] \in Int
    BY <2>2, LimitsInt DEF PeakOK
  <2> DEFINE S == {q \in ReservationIds : InWindow(row, q, c, w)}
  <2>5. Authorised(c, w) \subseteq S
    BY AuthorisedUnits, ScanSeesWindow
  <2>6. WindowUsage(row, c, w) = UnitsOf(row, S)
    BY DEF WindowUsage
  <2>7. S \subseteq ReservationIds
    OBVIOUS
  <2> HIDE DEF S
  <2>8. UnitsOf(row, Authorised(c, w)) <= UnitsOf(row, S)
    BY <2>5, <2>7, UnitsMonotone
  <2>9. UnitsOf(row, S) \in Nat /\ UnitsOf(row, Authorised(c, w)) \in Nat
    BY <2>7, UnitsType, AuthorisedUnits
  <2>10. AuthorisedInWindow(c, w)' <= UnitsOf(row, Authorised(c, w)) + u
    <3> DEFINE A == Authorised(c, w)
    <3>1. A \subseteq ReservationIds /\ r \notin A
      BY <1>2, AuthorisedUnits
    <3>2. UnitsOf(row', Authorised(c, w)') <= UnitsOf(row', A \cup {r})
      BY <1>3, <3>1, UnitsMonotone
    <3>3. UnitsOf(row', A \cup {r}) = UnitsOf(row', A) + u
      BY <1>1, <3>1, UnitsAdd
    <3>4. UnitsOf(row', A) = UnitsOf(row, A)
      BY <1>1, <3>1, UnitsSame
    <3> QED
      BY <3>2, <3>3, <3>4, AuthorisedUnitsPrime
  <2>11. AuthorisedInWindow(c, w)' \in Nat /\ u \in Nat
    BY AuthorisedUnitsPrime
  <2>12. AuthorisedInWindow(c, w)' <= peak[c][w]
    BY <2>2, <2>3, <2>4, <2>6, <2>8, <2>9, <2>10, <2>11
  <2> QED
    BY <1>1, <2>12 DEF WindowAt
<1> QED
    BY <1>4, <1>5

\* reconcile_effect_cost either stays within the window's limit of the row's own
\* rules, or records the overage.
LEMMA WindowCost ==
    ASSUME ShapeOK, ShapeOK', PeakOK, AgeOK, AgeOK', IssuedKept, AgesKept,
           NEW c \in Classes, NEW w \in Windows, WindowSeconds[w] <= Retention, WindowAt(c, w),
           NEW r \in ReservationIds, NEW u \in 1..MaxUnits, ReconcileCost(r, u)
    PROVE  WindowAt(c, w)'
<1>1. /\ state[r] = "consumed" /\ UNCHANGED <<state, pruned, now, peak, limit>>
      /\ \A q \in ReservationIds \ {r} : row'[q] = row[q]
      /\ OverLimit(r, row', consumedUnits') => r \in Accounted'
    BY OverageRecorded DEF ReconcileCost, ShapeOK
<1>2. Authorised(c, w)' = Authorised(c, w)
  <2>1. \A q \in ReservationIds : state[q] # "none" =>
           row'[q].class = row[q].class /\ row'[q].rules = row[q].rules
           /\ row'[q].created = row[q].created
    BY DEF IssuedKept, AgesKept
  <2> QED
    BY <1>1, <2>1 DEF Authorised
<1>3. CASE r \notin Authorised(c, w)
  <2>1. \A q \in Authorised(c, w)' : row'[q].units = row[q].units
    BY <1>1, <1>2, <1>3, AuthorisedUnits
  <2> QED
    BY <1>2, <2>1, WindowFrame
<1>4. CASE r \in Authorised(c, w)
  <2>1. row[r].class = c /\ row[r].rules[w] # NoRule /\ row'[r].class = c /\ row'[r].rules[w] # NoRule
    BY <1>1, <1>2, <1>4 DEF Authorised, IssuedKept
  <2>2. CASE OverLimit(r, row', consumedUnits')
    BY <1>1, <2>1, <2>2 DEF WindowAt
  <2>3. CASE ~OverLimit(r, row', consumedUnits')
    <3>1. w \in Scopes /\ w \notin CounterScopes /\ peak[c][w] \in Int
      BY WindowPeak, WindowAssumption DEF CounterScopes
    <3>2. ~(WindowUsage(row', c, w) > row[r].rules[w])
      BY <2>1, <2>3, <3>1 DEF OverLimit, Binding, RuleUsage
    <3>3. row[r].rules[w] <= peak[c][w] /\ row[r].rules[w] \in Int
      BY <1>1, <2>1, <3>1, LimitsInt DEF PeakOK
    <3> DEFINE S == {q \in ReservationIds : InWindow(row', q, c, w)}
    <3>4. WindowUsage(row', c, w) = UnitsOf(row', S)
      BY DEF WindowUsage
    <3>5. ASSUME NEW q \in Authorised(c, w)' PROVE q \in S
      <4>1. /\ q \in ReservationIds /\ state[q] \in {"reserved", "consumed"}
            /\ row'[q].class = c /\ row'[q].rules[w] # NoRule
            /\ row'[q].created >= now - WindowSeconds[w]
        BY <1>1, <3>5 DEF Authorised
      <4>2. row'[q] \in ReservationRow /\ now \in Nat
        BY <1>1, <4>1 DEF ShapeOK
      <4>3. /\ row'[q].created \in Nat /\ row'[q].active \in Nat
            /\ WindowSeconds[w] \in Nat /\ Retention \in Nat
        BY <4>2, WindowAssumption, BoundAssumption DEF ReservationRow
      <4>4. row'[q].created <= row'[q].active /\ q \notin pruned
        BY <1>1, <4>1, <4>2, <4>3 DEF AgeOK
      <4> QED
        BY <4>1, <4>2, <4>3, <4>4 DEF InWindow
    <3>6. S \subseteq ReservationIds
      OBVIOUS
    <3> HIDE DEF S
    <3>7. UnitsOf(row', Authorised(c, w)') <= UnitsOf(row', S) /\ UnitsOf(row', S) \in Nat
      BY <3>5, <3>6, UnitsMonotone, UnitsType
    <3>8. AuthorisedInWindow(c, w)' <= peak[c][w]
      BY <3>1, <3>2, <3>3, <3>4, <3>7, AuthorisedUnitsPrime
    <3> QED
      BY <1>1, <3>8 DEF WindowAt
  <2> QED
    BY <2>2, <2>3
<1> QED
    BY <1>3, <1>4

-----------------------------------------------------------------------------
(* The windows are held.                                                   *)

\* The steps that issue no row and charge no cost authorise nothing more in a window.
Lesser ==
    /\ now' >= now
    /\ \A r \in ReservationIds : state'[r] \in {"reserved", "consumed"} =>
          state[r] \in {"reserved", "consumed"} /\ row'[r].units = row[r].units

\* ... and keep it.
LEMMA WindowLesser ==
    ASSUME ShapeOK, ShapeOK', PeakOK, IssuedKept, AgesKept, Lesser,
           NEW c \in Classes, NEW w \in Windows, WindowAt(c, w)
    PROVE  WindowAt(c, w)'
<1>1. WindowSeconds[w] \in Nat /\ now \in Nat /\ now' \in Nat
    BY WindowAssumption DEF ShapeOK
<1>2. ASSUME NEW r \in Authorised(c, w)'
      PROVE  r \in Authorised(c, w) /\ row'[r].units = row[r].units
  <2>1. /\ r \in ReservationIds /\ state'[r] \in {"reserved", "consumed"}
        /\ row'[r].class = c /\ row'[r].rules[w] # NoRule
        /\ row'[r].created >= now' - WindowSeconds[w]
    BY <1>2 DEF Authorised
  <2>2. state[r] \in {"reserved", "consumed"} /\ row'[r].units = row[r].units
    BY <2>1 DEF Lesser
  <2>3. /\ row'[r].class = row[r].class /\ row'[r].rules = row[r].rules
        /\ row'[r].created = row[r].created
    BY <2>1, <2>2 DEF IssuedKept, AgesKept
  <2>4. row[r].created \in Nat
    BY <2>1, <2>2 DEF ShapeOK, ReservationRow
  <2> QED
    BY <1>1, <2>1, <2>2, <2>3, <2>4 DEF Authorised, Lesser
<1> QED
    BY <1>2, WindowFrame

\* The inductive invariant behind the windows: the peaks dominate what was promised and
\* the ages of the rows are in order, so that the scan of a window misses nothing.
WindowOK == ShapeOK /\ PeakOK /\ AgeOK /\ WindowHeld

\* Nothing is authorised at the start.
LEMMA WindowInit == Init => WindowOK
<1> SUFFICES ASSUME Init PROVE WindowOK
    OBVIOUS
<1>1. ShapeOK /\ PeakOK
    BY CeilingInit, ShapeInit DEF CeilingOK
<1>2. AgeOK
    BY DEF Init, AgeOK
<1>3. ASSUME NEW c \in Classes, NEW w \in Windows PROVE AuthorisedInWindow(c, w) = 0
  <2>1. Authorised(c, w) = {}
    BY DEF Init, Authorised
  <2>2. UnitTokens(row, {}) = {}
    BY DEF UnitTokens
  <2> QED
    BY <2>1, <2>2, AuthorisedUnits, FS_EmptySet DEF UnitsOf
<1> QED
    BY <1>1, <1>2, <1>3 DEF WindowOK, WindowHeld

\* Every step keeps every window that the retention covers.
LEMMA WindowStep == WindowOK /\ [Next]_vars => WindowOK'
<1> SUFFICES ASSUME WindowOK, [Next]_vars PROVE WindowOK'
    OBVIOUS
<1>0. /\ ShapeOK /\ PeakOK /\ AgeOK /\ ShapeOK' /\ PeakOK' /\ AgeOK' /\ IssuedKept /\ AgesKept
      /\ now \in Nat /\ Retention \in Nat
    BY ShapeStep, PeakStep, IssuedStep, AgesStep, AgeStep, BoundAssumption DEF WindowOK, ShapeOK
<1> SUFFICES ASSUME NEW c \in Classes, NEW w \in Windows, WindowSeconds[w] <= Retention
             PROVE  WindowAt(c, w)'
    BY <1>0 DEF WindowOK, WindowHeld, WindowAt, Accounted
<1>1. WindowAt(c, w)
    BY DEF WindowOK, WindowHeld, WindowAt, Accounted
<1>2. Lesser => WindowAt(c, w)'
    BY <1>0, <1>1, WindowLesser
<1>3. UNCHANGED <<state, row>> /\ now' >= now => Lesser
    BY DEF Lesser
<1>4. ASSUME NEW p \in Processes, NEW r \in ReservationIds, NEW d \in Classes,
             NEW i \in Identities, NEW u \in 1..MaxUnits, NEW o \in Owners,
             NEW e \in Effects \cup {NoEffect}, Reserve(p, r, d, i, u, o, e)
      PROVE  WindowAt(c, w)'
    BY <1>0, <1>1, <1>4, WindowReserve
<1>5. ASSUME NEW r \in ReservationIds, NEW u \in 1..MaxUnits, ReconcileCost(r, u)
      PROVE  WindowAt(c, w)'
    BY <1>0, <1>1, <1>5, WindowCost
<1>6. ASSUME NEW p \in Processes, NEW gone \in SUBSET Processes, ReconcileStale(p, gone)
      PROVE  Lesser
  <2> DEFINE stale == {r \in ReservationIds : /\ state[r] = "reserved"
                                              /\ InstanceDead(row[r].instance, gone)}
  <2>1. /\ state' = [r \in ReservationIds |-> IF r \in stale THEN "released" ELSE state[r]]
        /\ row' = [r \in ReservationIds |->
                      IF r \in stale THEN [row[r] EXCEPT !.active = now] ELSE row[r]]
        /\ now' = now
    BY <1>6 DEF ReconcileStale
  <2> HIDE DEF stale
  <2> QED
    BY <1>0, <2>1 DEF Lesser
<1>7. ASSUME NEW r \in ReservationIds, NEW e \in Effects, BindEffect(r, e) PROVE Lesser
  <2>1. /\ row' = [row EXCEPT ![r].effect = e] /\ UNCHANGED <<state, now>>
        /\ row[r] \in ReservationRow /\ row \in [ReservationIds -> ReservationRow \cup {NoRow}]
    BY <1>0, <1>7 DEF BindEffect, ShapeOK
  <2>2. row'[r].units = row[r].units
    BY <2>1 DEF ReservationRow
  <2> QED
    BY <1>0, <2>1, <2>2 DEF Lesser
<1>8. ASSUME NEW r \in ReservationIds, Consume(r) \/ Release(r) PROVE Lesser
  <2>1. /\ row' = [row EXCEPT ![r].active = now] /\ now' = now /\ state[r] = "reserved"
        /\ row[r] \in ReservationRow /\ row \in [ReservationIds -> ReservationRow \cup {NoRow}]
        /\ \A q \in ReservationIds \ {r} : state'[q] = state[q]
    BY <1>0, <1>8 DEF Consume, Release, ShapeOK
  <2>2. row'[r].units = row[r].units
    BY <2>1 DEF ReservationRow
  <2> QED
    BY <1>0, <2>1, <2>2 DEF Lesser
<1>9. Tick \/ UNCHANGED vars => Lesser
    BY <1>0, <1>3 DEF Tick, vars, store
<1>10. ASSUME NEW p \in Processes, Boot(p) \/ Crash(p) \/ ShutdownInstance(p) PROVE Lesser
    BY <1>0, <1>3, <1>10 DEF Boot, Crash, ShutdownInstance, store
<1>11. ASSUME NEW t \in Tokens, GrantAuthority(t) \/ \E a \in Adjustments : ApplyAdjustment(t, a)
       PROVE  Lesser
    BY <1>0, <1>3, <1>11 DEF GrantAuthority, ApplyAdjustment
<1>12. ASSUME NEW p \in Processes, NEW d \in Classes, NEW i \in Identities,
              NEW u \in 1..MaxUnits, RefuseReserve(p, d, i, u)
       PROVE  Lesser
    BY <1>0, <1>3, <1>12 DEF RefuseReserve, store
<1> QED
    BY <1>2, <1>4, <1>5, <1>6, <1>7, <1>8, <1>9, <1>10, <1>11, <1>12 DEF Next

\* A rolling-window rule is enforced by a scan of rows that reserve itself prunes. For
\* every window no longer than the retention, any number of processes and any
\* adjustments, what was authorised within the window stays within the highest limit
\* ever configured, unless a measured cost went over and its event is on record.
THEOREM WindowAlwaysHeld == Spec => []WindowHeld
<1>1. WindowOK => WindowHeld
    BY DEF WindowOK
<1> QED
    BY <1>1, WindowInit, WindowStep, PTL DEF Spec

-----------------------------------------------------------------------------
(* What reconciliation may take.                                           *)

\* The heartbeat of the process that holds a reservation is no older than the row.
SeenOK ==
    \A r \in ReservationIds : state[r] = "reserved" =>
        row[r].created <= instance[row[r].instance].seen

\* Steps that reserve nothing and leave the heartbeats alone, or bring one to date.
LEMMA SeenFrame ==
    ASSUME ShapeOK, ShapeOK', AgeOK, AgesKept, SeenOK,
           \A r \in ReservationIds : state'[r] = "reserved" =>
              state[r] = "reserved" /\ row'[r].instance = row[r].instance,
           \A p \in Processes : instance'[p].seen = instance[p].seen \/ instance'[p].seen = now
    PROVE  SeenOK'
<1> SUFFICES ASSUME NEW r \in ReservationIds, state'[r] = "reserved"
             PROVE  row'[r].created <= instance'[row'[r].instance].seen
    BY DEF SeenOK
<1>1. state[r] = "reserved" /\ row'[r].instance = row[r].instance /\ row'[r].created = row[r].created
    BY DEF AgesKept
<1>2. row[r].instance \in Processes /\ row[r].created <= now
  <2>1. row[r] \in ReservationRow /\ now \in Nat
    BY <1>1 DEF ShapeOK
  <2>2. row[r].created <= row[r].active /\ row[r].active <= now
    BY <1>1 DEF AgeOK
  <2> QED
    BY <2>1, <2>2 DEF ReservationRow
<1>3. row[r].created <= instance[row[r].instance].seen
    BY <1>1 DEF SeenOK
<1> QED
    BY <1>1, <1>2, <1>3

\* Every reservation starts from a heartbeat, and heartbeats only move forward.
LEMMA SeenStep ==
    ASSUME ShapeOK, ShapeOK', AgeOK, AgesKept, SeenOK, [Next]_vars
    PROVE  SeenOK'
<1>0. /\ now \in Nat /\ \A q \in ReservationIds : state[q] # "none" => row[q] \in ReservationRow
      /\ row \in [ReservationIds -> ReservationRow \cup {NoRow}]
      /\ instance \in [Processes -> [state : {"absent", "live", "closed"}, seen : Nat]]
    BY DEF ShapeOK
<1>1. CASE UNCHANGED <<state, row>> /\ \A p \in Processes : instance'[p].seen = instance[p].seen
                                                          \/ instance'[p].seen = now
    BY <1>1, SeenFrame
<1>2. ASSUME NEW p \in Processes, NEW gone \in SUBSET Processes, ReconcileStale(p, gone)
      PROVE  SeenOK'
  <2> DEFINE stale == {r \in ReservationIds : /\ state[r] = "reserved"
                                              /\ InstanceDead(row[r].instance, gone)}
  <2>1. /\ state' = [r \in ReservationIds |-> IF r \in stale THEN "released" ELSE state[r]]
        /\ row' = [r \in ReservationIds |->
                      IF r \in stale THEN [row[r] EXCEPT !.active = now] ELSE row[r]]
        /\ instance' = instance
    BY <1>2 DEF ReconcileStale
  <2> HIDE DEF stale
  <2> QED
    BY <2>1, SeenFrame
<1>3. ASSUME NEW p \in Processes, NEW r \in ReservationIds, NEW c \in Classes,
             NEW i \in Identities, NEW u \in 1..MaxUnits, NEW o \in Owners,
             NEW e \in Effects \cup {NoEffect}, Reserve(p, r, c, i, u, o, e)
      PROVE  SeenOK'
  <2>1. /\ row'[r].created = now /\ row'[r].instance = p
        /\ \A q \in ReservationIds \ {r} : row'[q] = row[q] /\ state'[q] = state[q]
        /\ instance'[p].seen = now
        /\ \A q \in Processes \ {p} : instance'[q] = instance[q]
    BY <1>0, <1>3 DEF Reserve, Heartbeat, ShapeOK
  <2> SUFFICES ASSUME NEW q \in ReservationIds, state'[q] = "reserved"
               PROVE  row'[q].created <= instance'[row'[q].instance].seen
      BY DEF SeenOK
  <2>2. CASE q = r
    BY <1>0, <2>1, <2>2
  <2>3. CASE q # r
    <3>1. row'[q] = row[q] /\ state[q] = "reserved"
      BY <2>1, <2>3
    <3>2. row[q].created <= instance[row[q].instance].seen /\ row[q].instance \in Processes
      BY <1>0, <3>1 DEF SeenOK, ReservationRow
    <3>3. row[q].created <= now
      BY <1>0, <3>1 DEF AgeOK, ReservationRow
    <3> QED
      BY <2>1, <3>1, <3>2, <3>3
  <2> QED
    BY <2>2, <2>3
<1>4. ASSUME NEW r \in ReservationIds, NEW e \in Effects, BindEffect(r, e) PROVE SeenOK'
  <2>1. row' = [row EXCEPT ![r].effect = e] /\ UNCHANGED <<state, instance>>
        /\ row[r] \in ReservationRow
    BY <1>0, <1>4 DEF BindEffect
  <2>2. row'[r].instance = row[r].instance
    BY <1>0, <2>1 DEF ReservationRow
  <2>3. \A q \in ReservationIds : row'[q].instance = row[q].instance
    BY <1>0, <2>1, <2>2
  <2> QED
    BY <2>1, <2>3, SeenFrame
<1>5. ASSUME NEW r \in ReservationIds, Consume(r) \/ Release(r) PROVE SeenOK'
  <2>1. /\ row' = [row EXCEPT ![r].active = now] /\ instance' = instance /\ state'[r] # "reserved"
        /\ \A q \in ReservationIds \ {r} : state'[q] = state[q]
    BY <1>5 DEF Consume, Release, ShapeOK
  <2>2. \A q \in ReservationIds \ {r} : row'[q] = row[q]
    BY <1>0, <2>1
  <2> QED
    BY <2>1, <2>2, SeenFrame
<1>6. ASSUME NEW r \in ReservationIds, NEW u \in 1..MaxUnits, ReconcileCost(r, u) PROVE SeenOK'
  <2>1. /\ state[r] = "consumed" /\ UNCHANGED <<state, instance>>
        /\ \A q \in ReservationIds \ {r} : row'[q] = row[q]
    BY <1>0, <1>6 DEF ReconcileCost
  <2> QED
    BY <2>1, SeenFrame
<1>7. CASE Tick \/ UNCHANGED vars
    BY <1>1, <1>7 DEF Tick, vars, store
<1>8. ASSUME NEW p \in Processes, Boot(p) \/ Crash(p) PROVE SeenOK'
    BY <1>1, <1>8 DEF Boot, Crash, store
<1>9. ASSUME NEW p \in Processes, ShutdownInstance(p) PROVE SeenOK'
  <2>1. instance' = [instance EXCEPT ![p].state = "closed"] /\ UNCHANGED <<state, row>>
    BY <1>9 DEF ShutdownInstance, store
  <2>2. \A q \in Processes : instance'[q].seen = instance[q].seen
    BY <1>0, <2>1
  <2> QED
    BY <1>1, <2>1, <2>2
<1>10. ASSUME NEW t \in Tokens, GrantAuthority(t) \/ \E a \in Adjustments : ApplyAdjustment(t, a)
       PROVE  SeenOK'
    BY <1>1, <1>10 DEF GrantAuthority, ApplyAdjustment
<1>11. ASSUME NEW p \in Processes, NEW c \in Classes, NEW i \in Identities,
              NEW u \in 1..MaxUnits, RefuseReserve(p, c, i, u)
       PROVE  SeenOK'
  <2>1. instance' = [instance EXCEPT ![p] = [state |-> "live", seen |-> now]]
        /\ UNCHANGED <<state, row>>
    BY <1>11 DEF RefuseReserve, Heartbeat, store
  <2>2. \A q \in Processes : instance'[q].seen = instance[q].seen \/ instance'[q].seen = now
    BY <1>0, <2>1
  <2> QED
    BY <1>1, <2>1, <2>2
<1> QED
    BY <1>2, <1>3, <1>4, <1>5, <1>6, <1>7, <1>8, <1>9, <1>10, <1>11 DEF Next

\* The inductive invariant behind the live holder.
HolderOK == ShapeOK /\ AgeOK /\ SeenOK

\* A reconciliation that takes a row saw its holder's instance dead.
LEMMA HolderStep ==
    ASSUME HolderOK, NEW r \in ReservationIds, state[r] = "reserved", HolderLive(r),
           state'[r] # "reserved", NEW p \in Processes, NEW gone \in SUBSET Processes
    PROVE  ~ReconcileStale(p, gone)
<1> SUFFICES ASSUME ReconcileStale(p, gone) PROVE FALSE
    OBVIOUS
<1> DEFINE q == row[r].instance
<1>1. InstanceDead(q, gone)
    BY DEF ReconcileStale
<1>2. process[q] = "up" /\ instance[q].state = "live" /\ now - row[r].created < StaleTTL
    BY DEF HolderLive
<1>3. q \notin gone
    BY <1>2 DEF ReconcileStale
<1>4. /\ row[r].created \in Nat /\ instance[q].seen \in Nat /\ now \in Nat /\ StaleTTL \in Nat
      /\ row[r].created <= instance[q].seen
  <2>1. row[r] \in ReservationRow
    BY DEF HolderOK, ShapeOK
  <2> QED
    BY <2>1, BoundAssumption DEF HolderOK, ShapeOK, SeenOK, ReservationRow
<1> HIDE DEF q
<1>5. now - instance[q].seen >= StaleTTL
    BY <1>1, <1>2, <1>3 DEF InstanceDead
<1> QED
    BY <1>2, <1>4, <1>5

\* Law 8 for any number of processes that start, die, reconcile and shut down: a
\* process that is up, was not shut down and took its unit within the staleness TTL
\* keeps it, whichever pids the kernel reports gone.
THEOREM LiveHolderAlwaysKept == Spec => LiveHolderKept
<1>1. Init => HolderOK
    BY ShapeInit DEF HolderOK, Init, AgeOK, SeenOK
<1>2. HolderOK /\ [Next]_vars => HolderOK'
    BY ShapeStep, IssuedStep, AgesStep, AgeStep, SeenStep DEF HolderOK
<1>3. HolderOK /\ [Next]_vars =>
         [\A r \in ReservationIds :
             state[r] = "reserved" /\ HolderLive(r) /\ state'[r] # "reserved"
             => ~\E p \in Processes, gone \in SUBSET Processes : ReconcileStale(p, gone)]_vars
    BY HolderStep
<1> QED
    BY <1>1, <1>2, <1>3, PTL DEF Spec, LiveHolderKept
=============================================================================

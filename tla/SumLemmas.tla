------------------------------ MODULE SumLemmas ------------------------------
(***************************************************************************)
(* Lemmas about sums over finite sets, for the proofs of the ledgers.       *)
(***************************************************************************)
EXTENDS Sums, FiniteSetTheorems, TLAPS

\* The units of finitely many amounts are finitely many, so a sum is a natural number.
LEMMA SumType ==
    ASSUME NEW f, NEW S, IsFiniteSet(S), \A id \in S : f[id] \in Int
    PROVE  IsFiniteSet(Units(f, S)) /\ Sum(f, S) \in Nat
<1> DEFINE parts == {{id} \X (1..f[id]) : id \in S}
           part == [id \in S |-> {id} \X (1..f[id])]
<1>1. part \in Surjection(S, parts)
    BY DEF Surjection
<1>2. IsFiniteSet(parts)
    <2> HIDE DEF part, parts
    <2> QED BY <1>1, FS_Surjection
<1>3. ASSUME NEW id \in S PROVE IsFiniteSet({id} \X (1..f[id]))
    <2>1. IsFiniteSet({id})
        BY FS_Singleton
    <2>2. IsFiniteSet(1..f[id])
        BY FS_Interval
    <2> QED
        BY <2>1, <2>2, FS_Product
<1>4. \A units \in parts : IsFiniteSet(units)
    BY <1>3
<1>5. IsFiniteSet(UNION parts)
    <2> HIDE DEF parts
    <2> QED BY <1>2, <1>4, FS_UNION
<1> QED
    BY <1>5, FS_CardinalityType DEF Units, Sum

\* The sum over two disjoint sets is the sum of the sums.
LEMMA SumDisjoint ==
    ASSUME NEW f, NEW S, NEW T, IsFiniteSet(S), IsFiniteSet(T), S \cap T = {},
           \A id \in S \cup T : f[id] \in Int
    PROVE  Sum(f, S \cup T) = Sum(f, S) + Sum(f, T)
<1>1. Units(f, S \cup T) = Units(f, S) \cup Units(f, T)
    BY DEF Units
<1>2. Units(f, S) \cap Units(f, T) = {}
    BY DEF Units
<1>3. IsFiniteSet(Units(f, S)) /\ IsFiniteSet(Units(f, T))
    BY SumType
<1>4. Cardinality(Units(f, S) \cup Units(f, T))
        = Cardinality(Units(f, S)) + Cardinality(Units(f, T)) - Cardinality(Units(f, S) \cap Units(f, T))
    BY <1>3, FS_Union
<1>5. Cardinality(Units(f, S) \cap Units(f, T)) = 0
    BY <1>2, FS_EmptySet
<1>6. Cardinality(Units(f, S)) \in Nat /\ Cardinality(Units(f, T)) \in Nat
    BY <1>3, FS_CardinalityType
<1>7. Cardinality(Units(f, S) \cup Units(f, T)) = Cardinality(Units(f, S)) + Cardinality(Units(f, T))
    BY <1>4, <1>5, <1>6
<1> QED
    BY <1>1, <1>7, Zenon DEF Sum

\* One id adds its amount.
LEMMA SumSingleton ==
    ASSUME NEW f, NEW id, f[id] \in Nat
    PROVE  Sum(f, {id}) = f[id]
<1> DEFINE n == f[id]
<1>1. n \in Nat
    OBVIOUS
<1> HIDE DEF n
<1>2. IsFiniteSet(1..n) /\ Cardinality(1..n) = n
    BY <1>1, FS_Interval
<1>3. IsFiniteSet({id}) /\ Cardinality({id}) = 1
    BY FS_Singleton
<1>4. Cardinality({id} \X (1..n)) = Cardinality({id}) * Cardinality(1..n)
    BY <1>2, <1>3, FS_Product, Zenon
<1>5. Units(f, {id}) = {id} \X (1..n)
    BY DEF n, Units
<1>6. Sum(f, {id}) = 1 * n
    BY <1>2, <1>3, <1>4, <1>5, Zenon DEF Sum
<1> QED
    BY <1>1, <1>6 DEF n

\* More ids, at amounts that are no smaller, sum up to no less.
LEMMA SumMonotone ==
    ASSUME NEW f, NEW g, NEW S, NEW T, S \subseteq T, IsFiniteSet(T),
           \A id \in T : g[id] \in Int,
           \A id \in S : f[id] \in Int /\ f[id] <= g[id]
    PROVE  Sum(f, S) <= Sum(g, T)
<1>1. ASSUME NEW id \in S PROVE {id} \X (1..f[id]) \subseteq {id} \X (1..g[id])
    OBVIOUS
<1>2. Units(f, S) \in SUBSET Units(g, T)
    BY <1>1 DEF Units
<1>3. IsFiniteSet(Units(g, T))
    BY SumType
<1>4. Cardinality(Units(f, S)) <= Cardinality(Units(g, T))
    BY <1>2, <1>3, FS_Subset
<1> QED
    BY <1>4 DEF Sum

\* Nothing sums up to nothing.
LEMMA SumEmpty == ASSUME NEW f PROVE Sum(f, {}) = 0
<1>1. Units(f, {}) = {}
    BY DEF Units
<1> QED
    BY <1>1, FS_EmptySet DEF Sum
=============================================================================

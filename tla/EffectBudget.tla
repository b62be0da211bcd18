---------------------------- MODULE EffectBudget ----------------------------
(***************************************************************************)
(* The unit-budget store of core/effect_budget.py: the rules an operator   *)
(* configures, the reservations effects hold against them, the counters    *)
(* that sum those reservations, and the process instances that own them.   *)
(*                                                                         *)
(* The store is one SQLite file that every process of the runtime opens.   *)
(* Each operation below is one BEGIN IMMEDIATE transaction, so it is one    *)
(* action; the processes interleave between transactions, and a process    *)
(* can die between any two of them.                                        *)
(***************************************************************************)
EXTENDS Integers, FiniteSets

CONSTANTS
    Classes,          \* BUDGET_CLASSES: the catalog of budget classes
    IdentityScopes,   \* turn, session, project, request, task, agent, provider
    Global,           \* SCOPE_GLOBAL
    Windows,          \* one SCOPE_WINDOW rule per window size
    WindowSeconds,    \* the size of each window
    Keys,             \* the identities a caller may present
    NoKey,            \* an identity the caller did not present ("")
    Identities,       \* what callers present: a key or NoKey per scope
    ReservationIds,   \* "ebr:..." ids, minted at random
    Processes,        \* process incarnations; a restart is another process
    Owners,           \* owner_ref: the scope a reservation belongs to
    Effects,          \* gateway effect ids
    NoEffect,         \* a reservation not bound to an effect yet
    NoRow,            \* the row of a reservation id not minted yet
    Tokens,           \* operator token ids
    InitialRules,     \* rule stores a run may start from
    Adjustments,      \* adjustment lists the operator may apply
    MaxUnits,         \* bound: units of one reservation
    MaxTime,          \* bound: the clock
    StaleTTL,         \* INSTANCE_STALE_SECONDS
    Retention,        \* RESERVATION_RETENTION_SECONDS
    EventRetention,   \* EVENT_RETENTION_SECONDS
    ReconcileMayFail  \* whether the first-use reconciliation may fail

NoRule == -1

Scopes == IdentityScopes \cup {Global} \cup Windows
Rules == [Scopes -> Nat \cup {NoRule}]

ASSUME WindowAssumption ==
    /\ IdentityScopes \cap Windows = {} /\ Global \notin Windows
    /\ WindowSeconds \in [Windows -> Nat \ {0}]

ASSUME IdentityAssumption ==
    /\ Global \notin IdentityScopes
    /\ Identities \subseteq [IdentityScopes -> Keys \cup {NoKey}]
    /\ NoKey \notin Keys \cup {Global}

ASSUME RuleAssumption ==
    /\ InitialRules \subseteq [Classes -> Rules]
    /\ \A a \in Adjustments :
          /\ DOMAIN a \subseteq Classes \X Scopes
          /\ \A x \in DOMAIN a : a[x] \in Nat \cup {NoRule}

ASSUME BoundAssumption ==
    /\ IsFiniteSet(ReservationIds)
    /\ MaxUnits \in Nat \ {0} /\ MaxTime \in Nat /\ StaleTTL \in Nat \ {0}
    /\ Retention \in Nat /\ EventRetention \in Nat /\ ReconcileMayFail \in BOOLEAN

ASSUME SentinelAssumption == NoEffect \notin Effects

VARIABLES
    limit,          \* effect_budget_rules: the limit of each class and scope
    state,          \* the state column of effect_budget_reservations
    row,            \* the other columns; kept as history once pruned
    pruned,         \* reservations whose row _prune_stores deleted
    reservedUnits,  \* effect_budget_counters.reserved_units
    consumedUnits,  \* effect_budget_counters.consumed_units
    instance,       \* effect_budget_instances: state and last_seen_epoch
    grants,         \* authority_grant events: token -> epoch, -1 when absent
    overages,       \* epoch of the last over_limit cost_reconciled event on record
                    \* for a reservation, -1 when there is none
    process,        \* unborn, up or dead
    reconciled,     \* processes with _RECONCILED_THIS_PROCESS["done"]
    now,            \* _utcnow_epoch(), assumed not to run backwards
    peak,           \* history: the highest limit each rule ever had
    overran,        \* history: when a reservation last went over, -1 if never
    lapsed          \* history: the classes that were ever without a rule

store == <<limit, state, row, pruned, reservedUnits, consumedUnits, grants, overages>>
vars == <<store, instance, process, reconciled, now, peak, overran, lapsed>>

Absent == [state |-> "absent", seen |-> 0]

ReservationRow ==
    [class : Classes, units : 1..MaxUnits, identity : Identities, rules : Rules,
     instance : Processes, owner : Owners, effect : Effects \cup {NoEffect},
     created : Nat, active : Nat]

-----------------------------------------------------------------------------
(* Rules, scopes and usage.                                                *)

\* _scope_key and _scope_key_for_reservation for the scopes with a counter.
ScopeKey(s, identity) == IF s = Global THEN Global ELSE identity[s]

CounterScopes == IdentityScopes \cup {Global}

\* The primary key of effect_budget_counters. A deleted counter reads as 0,
\* and only counters at 0 are deleted, so every counter is always present.
Counters == [class : Classes, scope : CounterScopes, key : Keys \cup {Global}]

\* The reservation row rec moves counter k: _rules_of(rec) has a rule of that
\* scope and the row carries that identity.
Charges(rec, k) ==
    /\ rec.class = k.class
    /\ rec.rules[k.scope] # NoRule
    /\ ScopeKey(k.scope, rec.identity) = k.key

\* SUM(units) over a set S of reservations, by counting their units.
UnitTokens(rows, S) == {x \in S \X (1..MaxUnits) : x[2] <= rows[x[1]].units}
UnitsOf(rows, S) == Cardinality(UnitTokens(rows, S))

\* _counter_adjust for one row.
CounterAdjust(counter, rec, units) ==
    [k \in Counters |-> IF Charges(rec, k) THEN counter[k] + units ELSE counter[k]]

\* Mutant of InWindow: a row as old as the window is already out of it.
InWindowOpen(rows, r, c, w) ==
    /\ state[r] \in {"reserved", "consumed"} /\ r \notin pruned
    /\ rows[r].class = c /\ rows[r].rules[w] # NoRule
    /\ rows[r].active > now - WindowSeconds[w]

\* The rows _rule_usage scans for window w of class c.
InWindow(rows, r, c, w) ==
    /\ state[r] \in {"reserved", "consumed"}
    /\ r \notin pruned
    /\ rows[r].class = c
    /\ rows[r].rules[w] # NoRule
    /\ rows[r].active >= now - WindowSeconds[w]

WindowUsage(rows, c, w) ==
    UnitsOf(rows, {r \in ReservationIds : InWindow(rows, r, c, w)})

CounterOf(c, s, identity) == [class |-> c, scope |-> s, key |-> ScopeKey(s, identity)]

\* _rule_usage: what is consumed and reserved under one rule, given the rows
\* and the consumed counters of the transaction that asks.
RuleUsage(rows, consumed, c, s, identity) ==
    IF s \in Windows
    THEN WindowUsage(rows, c, s)
    ELSE reservedUnits[CounterOf(c, s, identity)] + consumed[CounterOf(c, s, identity)]

\* The rules that bind an identity; a rule whose identity is absent does not.
Binding(rules, identity) ==
    {s \in Scopes : /\ rules[s] # NoRule
                    /\ s \in CounterScopes => ScopeKey(s, identity) # NoKey}

\* Mutant of WithinLimits: admits while there is any room left.
WithinLimitsBefore(c, identity, units) ==
    \A s \in Binding(limit[c], identity) :
        RuleUsage(row, consumedUnits, c, s, identity) + 1 <= limit[c][s]

WithinLimits(c, identity, units) ==
    \A s \in Binding(limit[c], identity) :
        RuleUsage(row, consumedUnits, c, s, identity) + units <= limit[c][s]

Budgeted(c) == \E s \in Scopes : limit[c][s] # NoRule

-----------------------------------------------------------------------------
(* Processes and their instance rows.                                      *)

Boot(p) ==
    /\ process[p] = "unborn"
    /\ process' = [process EXCEPT ![p] = "up"]
    /\ UNCHANGED <<store, instance, reconciled, now, peak, overran, lapsed>>

\* The callers of the operations below are threads of processes that are up.
Running == \E p \in Processes : process[p] = "up"

\* The process ends, whatever it holds.
Crash(p) ==
    /\ process[p] = "up"
    /\ process' = [process EXCEPT ![p] = "dead"]
    /\ UNCHANGED <<store, instance, reconciled, now, peak, overran, lapsed>>

\* shutdown_effect_budget_instance; the process may still run afterwards.
ShutdownInstance(p) ==
    /\ process[p] = "up"
    /\ instance[p].state = "live"
    /\ instance' = [instance EXCEPT ![p].state = "closed"]
    /\ UNCHANGED <<store, process, reconciled, now, peak, overran, lapsed>>

\* Mutant of Heartbeat: registers once and never refreshes last_seen_epoch.
HeartbeatOnce(p) ==
    instance' = [instance EXCEPT ![p] =
        [state |-> "live", seen |-> IF @.state = "absent" THEN now ELSE @.seen]]

\* _current_instance: register this process, or refresh its heartbeat.
Heartbeat(p) ==
    instance' = [instance EXCEPT ![p] = [state |-> "live", seen |-> now]]

Tick ==
    /\ now < MaxTime
    /\ now' = now + 1
    /\ UNCHANGED <<store, instance, process, reconciled, peak, overran, lapsed>>

\* _instance_is_live, negated. gone is the set of processes whose pid the
\* kernel reports absent: some of the dead ones (a pid may be reused, or the
\* process may have run on another host), never one that is up.
InstanceDead(q, gone) ==
    \/ instance[q].state \in {"absent", "closed"}
    \/ now - instance[q].seen >= StaleTTL
    \/ q \in gone

\* reconcile_stale_reservations: on the first use of a process, or forced.
ReconcileStale(p, gone) ==
    LET stale == {r \in ReservationIds : /\ state[r] = "reserved"
                                         /\ InstanceDead(row[r].instance, gone)}
    IN  /\ process[p] = "up"
        /\ gone \subseteq {q \in Processes : process[q] = "dead"}
        /\ reconciled' = reconciled \cup {p}
        /\ state' = [r \in ReservationIds |-> IF r \in stale THEN "released" ELSE state[r]]
        /\ row' = [r \in ReservationIds |->
                      IF r \in stale THEN [row[r] EXCEPT !.active = now] ELSE row[r]]
        /\ reservedUnits' = [k \in Counters |->
              reservedUnits[k] - UnitsOf(row, {r \in stale : Charges(row[r], k)})]
        /\ UNCHANGED <<limit, pruned, consumedUnits, grants, overages,
                       instance, process, now, peak, overran, lapsed>>

-----------------------------------------------------------------------------
(* The operator.                                                           *)

\* grant_operator_budget_authority, outside every effect scope.
GrantAuthority(t) ==
    /\ grants[t] = -1
    /\ grants' = [grants EXCEPT ![t] = now]
    /\ UNCHANGED <<limit, state, row, pruned, reservedUnits, consumedUnits,
                   overages, instance, process, reconciled, now, peak, overran, lapsed>>

\* apply_operator_adjustment: a granted token, and one transaction for the
\* whole list of adjustments (NoRule removes a rule).
ApplyAdjustment(t, a) ==
    /\ grants[t] # -1
    /\ limit' = [c \in Classes |-> [s \in Scopes |->
                    IF <<c, s>> \in DOMAIN a THEN a[<<c, s>>] ELSE limit[c][s]]]
    /\ peak' = [c \in Classes |-> [s \in Scopes |->
                    IF limit'[c][s] > peak[c][s] THEN limit'[c][s] ELSE peak[c][s]]]
    /\ lapsed' = lapsed \cup {c \in Classes : ~Budgeted(c)'}
    /\ UNCHANGED <<state, row, pruned, reservedUnits, consumedUnits, grants,
                   overages, instance, process, reconciled, now, overran>>

-----------------------------------------------------------------------------
(* Reserve, bind, consume, release, reconcile the cost.                    *)

\* The first-use reconciliation precedes the reserve; its failure is passed over.
MayReserve(p) == process[p] = "up" /\ (p \in reconciled \/ ReconcileMayFail)

\* The rows _prune_stores deletes: settled, and created before the retention.
Prunable(r) ==
    /\ state[r] \in {"consumed", "released"}
    /\ row[r].created < now - Retention

\* Mutant of Kept: events are pruned at the cutoff of the reservations.
KeptAsRows(epoch) == IF epoch < now - Retention THEN -1 ELSE epoch

\* An event of the given epoch after _prune_stores, which deletes every event
\* older than the event retention but the money receipts: grants and over_limit
\* cost_reconciled events alike.
Kept(epoch) == IF epoch < now - EventRetention THEN -1 ELSE epoch

\* reserve_effect_units when every binding rule has room. The row keeps all
\* the rules of its class, limits included, as rules_json.
Reserve(p, r, c, identity, units, owner, effect) ==
    LET rec == [class |-> c, units |-> units, identity |-> identity,
                rules |-> limit[c], instance |-> p, owner |-> owner,
                effect |-> effect, created |-> now, active |-> now]
    IN  /\ MayReserve(p)
        /\ state[r] = "none"
        /\ Budgeted(c)
        /\ WithinLimits(c, identity, units)
        /\ Heartbeat(p)
        /\ state' = [state EXCEPT ![r] = "reserved"]
        /\ row' = [row EXCEPT ![r] = rec]
        /\ reservedUnits' = CounterAdjust(reservedUnits, rec, units)
        /\ pruned' = pruned \cup {q \in ReservationIds : Prunable(q)}
        /\ grants' = [t \in Tokens |-> Kept(grants[t])]
        /\ overages' = [q \in ReservationIds |-> Kept(overages[q])]
        /\ UNCHANGED <<limit, consumedUnits, process, reconciled, now, peak, overran, lapsed>>

\* reserve_effect_units when a binding rule is over: the refusal commits, and
\* with it the heartbeat. (An unbudgeted class rolls back and changes nothing.)
RefuseReserve(p, c, identity, units) ==
    /\ MayReserve(p)
    /\ Budgeted(c)
    /\ ~WithinLimits(c, identity, units)
    /\ Heartbeat(p)
    /\ UNCHANGED <<store, process, reconciled, now, peak, overran, lapsed>>

\* bind_reservation_effect: only a row still reserved is bound.
BindEffect(r, e) ==
    /\ Running
    /\ state[r] = "reserved"
    /\ row' = [row EXCEPT ![r].effect = e]
    /\ UNCHANGED <<limit, state, pruned, reservedUnits, consumedUnits, grants,
                   overages, instance, process, reconciled, now, peak, overran, lapsed>>

\* Mutant of Consume: the reserved counter is not given back.
ConsumeKeepingReserved(r) ==
    /\ Running /\ state[r] = "reserved"
    /\ state' = [state EXCEPT ![r] = "consumed"]
    /\ row' = [row EXCEPT ![r].active = now]
    /\ consumedUnits' = CounterAdjust(consumedUnits, row[r], row[r].units)
    /\ UNCHANGED <<limit, pruned, reservedUnits, grants, overages, instance,
                   process, reconciled, now, peak, overran, lapsed>>

\* consume_reservation of a reserved row (any other row changes nothing).
Consume(r) ==
    /\ Running
    /\ state[r] = "reserved"
    /\ state' = [state EXCEPT ![r] = "consumed"]
    /\ row' = [row EXCEPT ![r].active = now]
    /\ reservedUnits' = CounterAdjust(reservedUnits, row[r], -row[r].units)
    /\ consumedUnits' = CounterAdjust(consumedUnits, row[r], row[r].units)
    /\ UNCHANGED <<limit, pruned, grants, overages, instance, process,
                   reconciled, now, peak, overran, lapsed>>

\* Mutant of Release: a settled reservation is released again.
ReleaseAgain(r) ==
    /\ Running /\ state[r] # "none"
    /\ state' = [state EXCEPT ![r] = "released"]
    /\ row' = [row EXCEPT ![r].active = now]
    /\ reservedUnits' = CounterAdjust(reservedUnits, row[r], -row[r].units)
    /\ UNCHANGED <<limit, pruned, consumedUnits, grants, overages, instance,
                   process, reconciled, now, peak, overran, lapsed>>

\* release_reservation of a reserved row (any other row changes nothing).
Release(r) ==
    /\ Running
    /\ state[r] = "reserved"
    /\ state' = [state EXCEPT ![r] = "released"]
    /\ row' = [row EXCEPT ![r].active = now]
    /\ reservedUnits' = CounterAdjust(reservedUnits, row[r], -row[r].units)
    /\ UNCHANGED <<limit, pruned, consumedUnits, grants, overages, instance,
                   process, reconciled, now, peak, overran, lapsed>>

\* over_limit of reconcile_effect_cost: the usage read back after charging,
\* against the limits kept in the row's own rules.
OverLimit(r, rows, consumed) ==
    \E s \in Binding(row[r].rules, row[r].identity) :
        RuleUsage(rows, consumed, row[r].class, s, row[r].identity) > row[r].rules[s]

\* Mutant of ReconcileCost: a measured cost below the estimate is refunded.
ReconcileCostRefunding(r, actual) ==
    /\ Running /\ state[r] = "consumed" /\ r \notin pruned
    /\ consumedUnits' = CounterAdjust(consumedUnits, row[r], actual - row[r].units)
    /\ row' = [row EXCEPT ![r].units = actual, ![r].active = now]
    /\ LET over == OverLimit(r, row', consumedUnits')
       IN  /\ overages' = IF over THEN [overages EXCEPT ![r] = now] ELSE overages
           /\ overran' = IF over THEN [overran EXCEPT ![r] = now] ELSE overran
    /\ UNCHANGED <<limit, state, pruned, reservedUnits, grants, instance,
                   process, reconciled, now, peak, lapsed>>

\* reconcile_effect_cost for a measured cost above the units consumed. (A cost
\* at or below them is recorded and nothing is refunded.)
ReconcileCost(r, actual) ==
    /\ Running
    /\ state[r] = "consumed" /\ r \notin pruned
    /\ actual > row[r].units
    /\ consumedUnits' = CounterAdjust(consumedUnits, row[r], actual - row[r].units)
    /\ row' = [row EXCEPT ![r].units = actual, ![r].active = now]
    /\ LET over == OverLimit(r, row', consumedUnits')
       IN  /\ overages' = IF over THEN [overages EXCEPT ![r] = now] ELSE overages
           /\ overran' = IF over THEN [overran EXCEPT ![r] = now] ELSE overran
    /\ UNCHANGED <<limit, state, pruned, reservedUnits, grants, instance,
                   process, reconciled, now, peak, lapsed>>

-----------------------------------------------------------------------------
Init ==
    /\ limit \in InitialRules
    /\ state = [r \in ReservationIds |-> "none"]
    /\ row = [r \in ReservationIds |-> NoRow]
    /\ pruned = {}
    /\ reservedUnits = [k \in Counters |-> 0]
    /\ consumedUnits = [k \in Counters |-> 0]
    /\ instance = [p \in Processes |-> Absent]
    /\ grants = [t \in Tokens |-> -1]
    /\ overages = [r \in ReservationIds |-> -1]
    /\ process = [p \in Processes |-> "unborn"]
    /\ reconciled = {}
    /\ now = 0
    /\ peak = limit
    /\ overran = [r \in ReservationIds |-> -1]
    /\ lapsed = {c \in Classes : ~Budgeted(c)}

Next ==
    \/ Tick
    \/ \E p \in Processes : Boot(p) \/ Crash(p) \/ ShutdownInstance(p)
    \/ \E p \in Processes, gone \in SUBSET Processes : ReconcileStale(p, gone)
    \/ \E t \in Tokens : GrantAuthority(t)
    \/ \E t \in Tokens, a \in Adjustments : ApplyAdjustment(t, a)
    \/ \E p \in Processes, r \in ReservationIds, c \in Classes, i \in Identities,
          u \in 1..MaxUnits, o \in Owners, e \in Effects \cup {NoEffect} :
          Reserve(p, r, c, i, u, o, e)
    \/ \E p \in Processes, c \in Classes, i \in Identities, u \in 1..MaxUnits :
          RefuseReserve(p, c, i, u)
    \/ \E r \in ReservationIds, e \in Effects : BindEffect(r, e)
    \/ \E r \in ReservationIds : Consume(r) \/ Release(r)
    \/ \E r \in ReservationIds, u \in 1..MaxUnits : ReconcileCost(r, u)

Spec == Init /\ [][Next]_vars
-----------------------------------------------------------------------------
(* Properties.                                                             *)

ShapeOK ==
    /\ limit \in [Classes -> Rules]
    /\ peak \in [Classes -> Rules]
    /\ state \in [ReservationIds -> {"none", "reserved", "consumed", "released"}]
    /\ row \in [ReservationIds -> ReservationRow \cup {NoRow}]
    /\ \A r \in ReservationIds : state[r] # "none" => row[r] \in ReservationRow
    /\ pruned \subseteq ReservationIds
    /\ instance \in [Processes -> [state : {"absent", "live", "closed"}, seen : Nat]]
    /\ grants \in [Tokens -> Nat \cup {-1}]
    /\ overages \in [ReservationIds -> Nat \cup {-1}]
    /\ overran \in [ReservationIds -> Nat \cup {-1}]
    /\ lapsed \subseteq Classes
    /\ process \in [Processes -> {"unborn", "up", "dead"}]
    /\ reconciled \subseteq Processes
    /\ now \in Nat

\* The shape of the store and of the process state; no counter goes negative,
\* so no unit is returned that was not taken.
TypeOK ==
    /\ ShapeOK
    /\ reservedUnits \in [Counters -> Nat]
    /\ consumedUnits \in [Counters -> Nat]

\* The reservations in one of the given states that move counter k.
Holders(states, k) ==
    {r \in ReservationIds : state[r] \in states /\ Charges(row[r], k)}

\* The counters are maintained incrementally by every operation, each from the
\* row's own rules (_counter_adjust); reserve trusts them instead of summing.
\* They always equal that sum: a reserve after any sequence of adjustments,
\* releases, reconciliations and cost charges sees neither a leaked unit nor a
\* unit counted twice, and pruning a consumed row gives no unit back.
CountersExact ==
    \A k \in Counters :
        /\ reservedUnits[k] = UnitsOf(row, Holders({"reserved"}, k))
        /\ consumedUnits[k] = UnitsOf(row, Holders({"consumed"}, k))

\* r went over a limit, and the over_limit event is on record for as long as
\* events are kept.
OverageAccounted(r) ==
    /\ overran[r] # -1
    /\ overages[r] = overran[r] \/ overran[r] < now - EventRetention

\* Laws 3 and 5: under every counted rule, whatever the processes do
\* concurrently, the units reserved and consumed stay within the highest limit
\* the operator ever set, unless a measured cost went over it - and then a
\* reservation under that rule carries the over_limit event, until the event is
\* as old as events get.
CeilingHeld ==
    \A k \in Counters :
        \/ reservedUnits[k] + consumedUnits[k] = 0
        \/ reservedUnits[k] + consumedUnits[k] <= peak[k.class][k.scope]
        \/ \E r \in ReservationIds : OverageAccounted(r) /\ Charges(row[r], k)

\* The units authorised under window w in its last WindowSeconds, pruned or not.
AuthorisedInWindow(c, w) ==
    UnitsOf(row, {r \in ReservationIds : /\ state[r] \in {"reserved", "consumed"}
                                         /\ row[r].class = c
                                         /\ row[r].rules[w] # NoRule
                                         /\ row[r].created >= now - WindowSeconds[w]})

\* The rolling-window rules, whose usage is a scan of rows that reserve itself
\* prunes: for a window no longer than the retention, the units authorised
\* within any one window stay within the highest limit set, unless a measured
\* cost under that rule went over it and left its over_limit event.
WindowHeld ==
    \A c \in Classes, w \in Windows :
        WindowSeconds[w] <= Retention =>
            \/ AuthorisedInWindow(c, w) = 0
            \/ AuthorisedInWindow(c, w) <= peak[c][w]
            \/ \E r \in ReservationIds :
                  OverageAccounted(r) /\ row[r].class = c /\ row[r].rules[w] # NoRule

\* The holder of r is up, was not shut down, and took r within the staleness TTL.
HolderLive(r) ==
    /\ process[row[r].instance] = "up"
    /\ instance[row[r].instance].state = "live"
    /\ now - row[r].created < StaleTTL

\* Law 8 and its limit (_instance_death_reason): reconciliation takes nothing
\* from a process that is up, was not shut down and reserved the unit within
\* the staleness TTL, whichever other processes died, restarted or reconciled.
LiveHolderKept ==
    [][\A r \in ReservationIds :
          state[r] = "reserved" /\ HolderLive(r) /\ state'[r] # "reserved"
          => ~\E p \in Processes, gone \in SUBSET Processes : ReconcileStale(p, gone)]_vars

\* A unit that was spent stays spent: no later release, reconciliation, prune
\* or cost correction lowers what is consumed under a rule (law 4, and "CONSUMED
\* units are spent and never refunded").
SpentStaysSpent ==
    [][\A k \in Counters : consumedUnits'[k] >= consumedUnits[k]]_vars
=============================================================================

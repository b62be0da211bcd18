---------------------------- MODULE EffectGateway ----------------------------
(***************************************************************************)
(* The effect gateway of core/effect_gateway.py on top of the budget store *)
(* (EffectBudget): ledgers that own effects, the threads that open, begin  *)
(* and end them through a door, and the scope close that returns what was  *)
(* never run. One handler makes several store transactions; the other      *)
(* threads, the scope close and a crash come in between.                   *)
(*                                                                         *)
(* Two kinds of door call the gateway. A transport door (the fetch door of *)
(* core/remote_fetch_policy.py) begins the attempt and then runs the       *)
(* transport. A coverage door (with_mutation_coverage, the registered-tool *)
(* door) runs the handler and then begins the attempt to settle it.        *)
(***************************************************************************)
EXTENDS EffectBudget, Sequences

CONSTANTS
    Threads,      \* worker threads; a thread serves one call at a time
    Doors,        \* the kinds of door in use: "transport", "coverage"
    RegistryCap,  \* MAX_RECEIPTS_PER_TURN
    MaxAttempts,  \* bound: attempts of one effect
    Retries       \* whether callers retry effects (retry_of)

ASSUME GatewayAssumption ==
    /\ Doors \subseteq {"transport", "coverage"}
    /\ RegistryCap \in Nat \ {0} /\ MaxAttempts \in Nat \ {0} /\ Retries \in BOOLEAN
    /\ IsFiniteSet(Threads) /\ NoRow \notin Owners

VARIABLES
    ledger,    \* per owner: state, the process it lives in, its identity, its class
    closing,   \* per owner: reservations the scope close still has to release
    registry,  \* per owner: _effects, the registered effects in order
    effect,    \* per effect: its registry record
    thread,    \* per thread: where it is in a call, and the call's locals
    ran,       \* history: effects whose transport or handler ran
    reported   \* history: the first terminal each attempt reported

gateway == <<ledger, closing, registry, effect, thread, ran, reported>>
allvars == <<vars, gateway>>

Terminals == {"succeeded", "failed", "cancelled"}

Unregistered == [owner |-> NoRow, attempts |-> 0, terminalAttempt |-> -1, terminal |-> "none"]

Idle == [pc |-> "idle", owner |-> NoRow, effect |-> NoEffect, door |-> "none",
         res |-> {}, todo |-> {}, attempt |-> 0]

\* The calling process is up and thread w is at the given place of its call.
At(w, pc) == thread[w].pc = pc

Step(w, pc) == thread' = [thread EXCEPT ![w].pc = pc]
Return(w) == thread' = [thread EXCEPT ![w] = Idle]

Registered(e) == effect[e].owner # NoRow /\ e \in {registry[effect[e].owner][i] :
                                            i \in 1..Len(registry[effect[e].owner])}

\* Effect ids are minted from the ledger's sequence and never reused.
Fresh(e) == effect[e] = Unregistered /\ \A w \in Threads : thread[w].effect # e

-----------------------------------------------------------------------------
(* Scopes and processes.                                                   *)

\* open_effect_receipt_scope and named_background_effect_scope.
OpenScope(p, o, i, c) ==
    /\ process[p] = "up"
    /\ ledger[o].state = "unopened"
    /\ ledger' = [ledger EXCEPT ![o] =
                     [state |-> "open", home |-> p, identity |-> i, class |-> c]]
    /\ UNCHANGED <<vars, closing, registry, effect, thread, ran, reported>>

\* The ledger exists in a process that is up; a closed one still serves threads.
Alive(o) == ledger[o].state # "unopened" /\ process[ledger[o].home] = "up"

\* close_effect_receipt_scope: unbind the ledger, then the scan of
\* release_unconsumed_for_owner. The threads keep the ledger they hold.
CloseScope(o) ==
    /\ ledger[o].state = "open" /\ Alive(o)
    /\ ledger' = [ledger EXCEPT ![o].state = "closing"]
    /\ closing' = [closing EXCEPT ![o] =
                      {r \in ReservationIds : state[r] = "reserved" /\ row[r].owner = o}]
    /\ UNCHANGED <<vars, registry, effect, thread, ran, reported>>

\* Mutant of CloseRelease: a unit that got bound to an effect is left to its caller.
CloseReleaseUnbound(o) ==
    \E r \in closing[o] :
        /\ ledger[o].state = "closing" /\ Alive(o)
        /\ closing' = [closing EXCEPT ![o] = @ \ {r}]
        /\ IF state[r] = "reserved" /\ row[r].effect = NoEffect
           THEN Release(r) ELSE UNCHANGED vars
        /\ UNCHANGED <<ledger, registry, effect, thread, ran, reported>>

\* Each scanned row is released in a transaction of its own, if still reserved.
CloseRelease(o) ==
    \E r \in closing[o] :
        /\ ledger[o].state = "closing" /\ Alive(o)
        /\ closing' = [closing EXCEPT ![o] = @ \ {r}]
        /\ IF state[r] = "reserved" THEN Release(r) ELSE UNCHANGED vars
        /\ UNCHANGED <<ledger, registry, effect, thread, ran, reported>>

CloseDone(o) ==
    /\ ledger[o].state = "closing" /\ closing[o] = {} /\ Alive(o)
    /\ ledger' = [ledger EXCEPT ![o].state = "closed"]
    /\ UNCHANGED <<vars, closing, registry, effect, thread, ran, reported>>

\* A process dies with its ledgers and the calls of its threads; what is in
\* the store stays.
ProcessDies(p) ==
    /\ Crash(p)
    /\ thread' = [w \in Threads |->
          IF thread[w].pc # "idle" /\ ledger[thread[w].owner].home = p
          THEN Idle ELSE thread[w]]
    /\ UNCHANGED <<ledger, closing, registry, effect, ran, reported>>

-----------------------------------------------------------------------------
(* open_effect.                                                            *)

\* _reserve_budget_units: the transaction of reserve_effect_units decides.
\* e is the effect a retry continues, NoEffect when a new one will be minted.
ReserveFor(w, o, d, e) ==
    LET l == ledger[o]
        call == [Idle EXCEPT !.pc = "opening", !.owner = o, !.effect = e, !.door = d]
    IN  \/ \E r \in ReservationIds :
              /\ Reserve(l.home, r, l.class, l.identity, 1, o, NoEffect)
              /\ thread' = [thread EXCEPT ![w] = [call EXCEPT !.res = {r}]]
        \/ /\ RefuseReserve(l.home, l.class, l.identity, 1)
           /\ Return(w)
        \/ /\ ~Budgeted(l.class) /\ UNCHANGED vars
           /\ thread' = [thread EXCEPT ![w] = call]

\* Bounds: effect ids are left for every thread that will mint one, and an
\* effect gets at most MaxAttempts attempts.
IdsLeft == Cardinality({e \in Effects : Fresh(e)}) >
              Cardinality({w \in Threads : At(w, "opening") /\ thread[w].effect = NoEffect})
AttemptsLeft(e) == effect[e].attempts + Cardinality({w \in Threads : thread[w].effect = e
                       /\ thread[w].pc \notin {"running", "ended", "releasing"}}) < MaxAttempts

OpenEffect(w, o, d) ==
    /\ At(w, "idle") /\ Alive(o) /\ IdsLeft
    /\ ReserveFor(w, o, d, NoEffect)
    /\ UNCHANGED <<ledger, closing, registry, effect, ran, reported>>

\* A retry reads effect_reservation_states of the effect it continues. One that
\* holds a unit does not reserve again.
RetryEffect(w, e, d) ==
    LET o == effect[e].owner
        held == \E r \in ReservationIds \ pruned :
                   state[r] \in {"reserved", "consumed"} /\ row[r].effect = e
    IN  /\ Retries /\ At(w, "idle") /\ Registered(e) /\ Alive(o) /\ AttemptsLeft(e)
        /\ thread' = [thread EXCEPT ![w] =
              [Idle EXCEPT !.pc = IF held THEN "opening" ELSE "retrying",
                           !.owner = o, !.effect = e, !.door = d]]
        /\ UNCHANGED <<vars, ledger, closing, registry, effect, ran, reported>>

\* ... and one that holds none reserves, in a later transaction.
RetryReserve(w) ==
    /\ At(w, "retrying")
    /\ ReserveFor(w, thread[w].owner, thread[w].door, thread[w].effect)
    /\ UNCHANGED <<ledger, closing, registry, effect, ran, reported>>

\* Mutant of BindIfReserved: binds without looking at the state.
BindAlways(S, e) ==
    IF S # {} THEN /\ row' = [r \in ReservationIds |->
                                 IF r \in S THEN [row[r] EXCEPT !.effect = e] ELSE row[r]]
                   /\ UNCHANGED <<limit, state, pruned, reservedUnits, consumedUnits, grants,
                                  overages, instance, process, reconciled, now, peak, overran, lapsed>>
    ELSE UNCHANGED vars

\* bind_reservation_effect: a no-op on a row that is no longer reserved.
BindIfReserved(S, e) ==
    IF \E r \in S : state[r] = "reserved" THEN \E r \in S : BindEffect(r, e) ELSE UNCHANGED vars

\* Mutant of RegisterIn: the ceiling is noticed one effect too late.
RegisterOver(o, e) ==
    LET kept == IF Len(registry[o]) > RegistryCap THEN Tail(registry[o]) ELSE registry[o]
    IN  registry' = [registry EXCEPT ![o] = Append(kept, e)]

\* _register_effect: first in, first out at the ceiling.
RegisterIn(o, e) ==
    LET kept == IF Len(registry[o]) >= RegistryCap THEN Tail(registry[o]) ELSE registry[o]
    IN  registry' = [registry EXCEPT ![o] = Append(kept, e)]

\* The id is minted (or continued), the reservation bound, the effect registered.
Authorize(w, e) ==
    /\ At(w, "opening")
    /\ IF thread[w].effect = NoEffect THEN Fresh(e) ELSE e = thread[w].effect
    /\ BindIfReserved(thread[w].res, e)
    /\ IF Registered(e)
       THEN UNCHANGED <<registry, effect>>
       ELSE /\ RegisterIn(thread[w].owner, e)
            /\ effect' = [effect EXCEPT ![e] = [Unregistered EXCEPT !.owner = thread[w].owner]]
    /\ thread' = [thread EXCEPT ![w].pc = "authorized", ![w].effect = e]
    /\ UNCHANGED <<ledger, closing, ran, reported>>

-----------------------------------------------------------------------------
(* begin_attempt, the transport or handler, and the terminals.             *)

Bound(e) == {r \in ReservationIds \ pruned : state[r] # "none" /\ row[r].effect = e}

\* Mutant of ScanRefuses: an effect without rows always passes.
ScanRefusesReleased(e, c) ==
    Bound(e) # {} /\ \A r \in Bound(e) : state[r] = "released"

\* The scan of consume_effect_reservations: no row of a budgeted class, or only
\* released rows, refuses the attempt.
ScanRefuses(e, c) ==
    IF Bound(e) = {} THEN Budgeted(c)
    ELSE \A r \in Bound(e) : state[r] = "released"

\* The transport door begins at once, the coverage door when the handler ended.
BeginScan(w) ==
    LET e == thread[w].effect
    IN  /\ \/ At(w, "authorized") /\ thread[w].door = "transport"
           \/ At(w, "handled")
        /\ IF ScanRefuses(e, ledger[thread[w].owner].class)
           THEN Return(w)
           ELSE thread' = [thread EXCEPT ![w].pc = "consuming",
                              ![w].todo = {r \in Bound(e) : state[r] = "reserved"}]
        /\ UNCHANGED <<vars, ledger, closing, registry, effect, ran, reported>>

\* Mutant of ConsumeNext: a row released since the scan is skipped.
ConsumeNextSkipping(w) ==
    \E r \in thread[w].todo :
        /\ At(w, "consuming")
        /\ IF state[r] = "reserved" THEN Consume(r) ELSE UNCHANGED vars
        /\ thread' = [thread EXCEPT ![w].todo = @ \ {r}]
        /\ UNCHANGED <<ledger, closing, registry, effect, ran, reported>>

\* Each open row is consumed in a transaction of its own; a row released or
\* pruned since the scan refuses the attempt.
ConsumeNext(w) ==
    \E r \in thread[w].todo :
        /\ At(w, "consuming")
        /\ \/ /\ Consume(r)
              /\ thread' = [thread EXCEPT ![w].todo = @ \ {r}]
           \/ /\ state[r] = "consumed" /\ r \notin pruned /\ UNCHANGED vars
              /\ thread' = [thread EXCEPT ![w].todo = @ \ {r}]
           \/ /\ state[r] = "released" \/ r \in pruned
              /\ UNCHANGED vars
              /\ Return(w)
        /\ UNCHANGED <<ledger, closing, registry, effect, ran, reported>>

\* _begin_attempt: an effect evicted from the registry raises.
BeginAttempt(w) ==
    LET e == thread[w].effect
    IN  /\ At(w, "consuming") /\ thread[w].todo = {}
        /\ IF Registered(e)
           THEN /\ effect' = [effect EXCEPT ![e].attempts = @ + 1]
                /\ thread' = [thread EXCEPT ![w].pc = "running",
                                            ![w].attempt = effect[e].attempts + 1]
           ELSE Return(w) /\ UNCHANGED effect
        /\ ran' = IF Registered(e) THEN ran \cup {e} ELSE ran
        /\ UNCHANGED <<vars, ledger, closing, registry, reported>>

\* The coverage door runs the handler on the authorisation alone.
RunHandler(w) ==
    /\ At(w, "authorized") /\ thread[w].door = "coverage"
    /\ ran' = ran \cup {thread[w].effect}
    /\ Step(w, "handled")
    /\ UNCHANGED <<vars, ledger, closing, registry, effect, reported>>

\* Mutant of TerminalTransition: a second terminal of an attempt overwrites it.
TerminalOverwrites(e, attempt, lifecycle) ==
    effect' = IF attempt < effect[e].terminalAttempt
              THEN effect
              ELSE [effect EXCEPT ![e].terminalAttempt = attempt, ![e].terminal = lifecycle]

\* _terminal_transition: the first terminal of an attempt stays, and an older
\* attempt's terminal is dropped.
TerminalTransition(e, attempt, lifecycle) ==
    effect' = IF attempt <= effect[e].terminalAttempt
              THEN effect
              ELSE [effect EXCEPT ![e].terminalAttempt = attempt, ![e].terminal = lifecycle]

\* succeed and fail, and a second terminal of the same attempt from the
\* unwinding of the door.
RecordTerminal(w, lifecycle) ==
    LET e == thread[w].effect
        n == thread[w].attempt
    IN  /\ At(w, "running") \/ At(w, "ended")
        /\ IF Registered(e) THEN TerminalTransition(e, n, lifecycle) ELSE UNCHANGED effect
        /\ reported' = IF At(w, "running") THEN [reported EXCEPT ![e][n] = lifecycle] ELSE reported
        /\ Step(w, "ended")
        /\ UNCHANGED <<vars, ledger, closing, registry, ran>>

EndCall(w) ==
    /\ At(w, "ended")
    /\ Return(w)
    /\ UNCHANGED <<vars, ledger, closing, registry, effect, ran, reported>>

\* cancel: the terminal, then release_effect_reservations. An evicted effect
\* raises before anything is released.
Cancel(w) ==
    LET e == thread[w].effect
    IN  /\ At(w, "authorized") \/ At(w, "running")
        /\ IF Registered(e)
           THEN /\ TerminalTransition(e, thread[w].attempt, "cancelled")
                /\ thread' = [thread EXCEPT ![w].pc = "releasing", ![w].todo =
                                 {r \in Bound(e) : state[r] = "reserved"}]
           ELSE Return(w) /\ UNCHANGED effect
        /\ reported' = IF At(w, "running")
                       THEN [reported EXCEPT ![e][thread[w].attempt] = "cancelled"] ELSE reported
        /\ UNCHANGED <<vars, ledger, closing, registry, ran>>

\* Mutant of CancelRelease: the unit is not returned.
CancelKeepsUnit(w) ==
    \E r \in thread[w].todo :
        /\ At(w, "releasing") /\ UNCHANGED vars
        /\ thread' = [thread EXCEPT ![w].todo = @ \ {r}]
        /\ UNCHANGED <<ledger, closing, registry, effect, ran, reported>>

CancelRelease(w) ==
    \E r \in thread[w].todo :
        /\ At(w, "releasing")
        /\ IF state[r] = "reserved" THEN Release(r) ELSE UNCHANGED vars
        /\ thread' = [thread EXCEPT ![w].todo = @ \ {r}]
        /\ UNCHANGED <<ledger, closing, registry, effect, ran, reported>>

CancelDone(w) ==
    /\ At(w, "releasing") /\ thread[w].todo = {}
    /\ Return(w)
    /\ UNCHANGED <<vars, ledger, closing, registry, effect, ran, reported>>

-----------------------------------------------------------------------------
GatewayInit ==
    /\ Init
    /\ ledger = [o \in Owners |-> [state |-> "unopened"]]
    /\ closing = [o \in Owners |-> {}]
    /\ registry = [o \in Owners |-> <<>>]
    /\ effect = [e \in Effects |-> Unregistered]
    /\ thread = [w \in Threads |-> Idle]
    /\ ran = {}
    /\ reported = [e \in Effects |-> [n \in 1..MaxAttempts |-> "none"]]

\* What a thread inside a call does next.
Continue(w) ==
    \/ \E e \in Effects : Authorize(w, e)
    \/ RetryReserve(w) \/ RunHandler(w) \/ BeginScan(w) \/ ConsumeNext(w) \/ BeginAttempt(w)
    \/ \E lifecycle \in {"succeeded", "failed"} : RecordTerminal(w, lifecycle)
    \/ EndCall(w) \/ Cancel(w) \/ CancelRelease(w) \/ CancelDone(w)

Call(w) ==
    \/ \E o \in Owners, d \in Doors : OpenEffect(w, o, d)
    \/ \E e \in Effects, d \in Doors : RetryEffect(w, e, d)

CloseStep(o) == CloseScope(o) \/ CloseRelease(o) \/ CloseDone(o)

ProcessStep(p) ==
    \/ ProcessDies(p)
    \/ /\ Boot(p) \/ \E gone \in SUBSET Processes : ReconcileStale(p, gone)
       /\ UNCHANGED gateway
    \/ \E o \in Owners, i \in Identities, c \in Classes : OpenScope(p, o, i, c)

\* What the rest of the runtime does with the store meanwhile: time passes, the
\* operator adjusts rules, a measured cost arrives, an instance shuts down.
StoreStep ==
    /\ \/ Tick
       \/ \E t \in Tokens : GrantAuthority(t)
       \/ \E t \in Tokens, a \in Adjustments : ApplyAdjustment(t, a)
       \/ \E r \in ReservationIds, u \in 1..MaxUnits : ReconcileCost(r, u)
       \/ \E p \in Processes : ShutdownInstance(p)
    /\ UNCHANGED gateway

GatewayNext ==
    \/ StoreStep
    \/ \E w \in Threads : Call(w) \/ Continue(w)
    \/ \E o \in Owners : CloseStep(o)
    \/ \E p \in Processes : ProcessStep(p)

GatewaySpec == GatewayInit /\ [][GatewayNext]_allvars

\* The steps the gateway's own code makes once a call has entered them.
Proceed(w) ==
    \/ \E e \in Effects : Authorize(w, e)
    \/ RetryReserve(w) \/ ConsumeNext(w) \/ BeginAttempt(w)
    \/ CancelRelease(w) \/ CancelDone(w)
    \/ At(w, "handled") /\ BeginScan(w)

\* Gateway code that is running goes on. Nothing obliges a caller to call, to
\* begin or cancel what was authorized, or to end its attempt; nor a scope to
\* close, a process to start or die, or the operator to act.
FairGatewaySpec ==
    /\ GatewaySpec
    /\ \A w \in Threads : WF_allvars(Proceed(w))
    /\ \A o \in Owners : WF_allvars(CloseRelease(o) \/ CloseDone(o))
-----------------------------------------------------------------------------
(* Properties.                                                             *)

\* The shape of the gateway's state; no registry is above its ceiling.
GatewayTypeOK ==
    /\ \A o \in Owners :
          /\ ledger[o].state \in {"unopened", "open", "closing", "closed"}
          /\ closing[o] \subseteq ReservationIds
          /\ registry[o] \in Seq(Effects) /\ Len(registry[o]) <= RegistryCap
    /\ \A e \in Effects :
          /\ effect[e].attempts \in 0..MaxAttempts
          /\ effect[e].terminalAttempt \in -1..MaxAttempts
          /\ effect[e].terminal \in Terminals \cup {"none"}
    /\ \A w \in Threads :
          thread[w].todo \subseteq ReservationIds /\ thread[w].attempt \in 0..MaxAttempts

\* Every transaction of the gateway is an operation of the budget store, so what
\* EffectBudget proves of the store holds under the gateway's interleavings.
ImplementsBudget == Spec

\* The class of e has been under some rule all along. (An attempt of a class
\* without rules needs no unit, and owes none when the operator adds a rule.)
AlwaysBudgeted(e) == ledger[effect[e].owner].class \notin lapsed

\* begin_attempt fails closed: an effect of a budgeted class with an attempt on
\* record has a consumed unit, whatever scope close, cancellation, crash,
\* reconciliation, adjustment or prune came between its scan and its consumption.
AttemptPaid ==
    \A e \in Effects :
        effect[e].attempts > 0 /\ AlwaysBudgeted(e) =>
            \E r \in ReservationIds : state[r] = "consumed" /\ row[r].effect = e

\* What the ledger answers for e: effect_outcomes.
Outcome(e) ==
    IF effect[e].terminalAttempt = effect[e].attempts THEN effect[e].terminal
    ELSE IF effect[e].attempts > 0 THEN "started" ELSE "authorized"

\* Below its ceiling a ledger has evicted nothing.
Unevicted(e) == Len(registry[effect[e].owner]) < RegistryCap

\* Once an attempt has begun, the ledger's answer is about the latest attempt:
\* its first terminal if it ended, "started" if not. A late terminal of an
\* older attempt, a second terminal of the same one and a cancelled retry that
\* never began change nothing. (A retry of an evicted effect is registered anew
\* and counts its attempts from 0, so that an older thread can answer for it.)
OutcomeIsLatest ==
    \A e \in Effects :
        LET n == effect[e].attempts
        IN  n > 0 /\ Unevicted(e) =>
                Outcome(e) = IF reported[e][n] = "none" THEN "started" ELSE reported[e][n]

\* r is reserved under a scope that closes or has closed, in a living process.
LeftOver(r) ==
    /\ state[r] = "reserved"
    /\ ledger[row[r].owner].state \in {"closing", "closed"}
    /\ process[row[r].instance] = "up"

\* The call that took r has given it up: its caller never begins or cancels the
\* effect, the effect was evicted before its cancellation (cancel raises in
\* record_terminal), or a retry was refused over another unit of the effect.
Forsaken(r) ==
    /\ state[r] = "reserved"
    /\ \/ \E w \in Threads : At(w, "authorized") /\ r \in thread[w].res
       \/ /\ row[r].effect # NoEffect
          /\ \/ ~Registered(row[r].effect)
             \/ \E q \in ReservationIds :
                   state[q] = "released" /\ row[q].effect = row[r].effect

\* Whatever the callers do, or leave undone, with what they opened: the scope
\* close settles every unit its scan found, racing their attempts and
\* cancellations; and a unit taken later, by a thread that still holds the
\* ledger, stays reserved in a living process only if its call gave it up.
ReservationsSettle ==
    \A r \in ReservationIds :
        /\ \A o \in Owners : r \in closing[o] ~>
              (state[r] # "reserved" \/ process[row[r].instance] # "up")
        /\ <>[]LeftOver(r) => <>[]Forsaken(r)

\* The budget holds a unit for e, reserved or consumed.
Charged(e) ==
    \E r \in ReservationIds : state[r] \in {"reserved", "consumed"} /\ row[r].effect = e

\* Law 4: no unit is returned for an effect that ran. True of transport doors,
\* under concurrent retries, cancellations and scope close.
RanIsCharged ==
    \A e \in ran : AlwaysBudgeted(e) => Charged(e)
=============================================================================

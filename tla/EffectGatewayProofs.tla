------------------------- MODULE EffectGatewayProofs -------------------------
(***************************************************************************)
(* Proofs about EffectGateway, for every set of threads, owners, effects,  *)
(* reservations, processes, rules and both kinds of door.                  *)
(***************************************************************************)
EXTENDS EffectGateway, EffectBudgetProofs, SequenceTheorems

-----------------------------------------------------------------------------
(* The shape of the gateway's state.                                       *)

Places == {"idle", "retrying", "opening", "authorized", "handled", "consuming",
           "running", "ended", "releasing"}

CallRecord ==
    [pc : Places, owner : Owners \cup {NoRow}, effect : Effects \cup {NoEffect},
     door : Doors \cup {"none"}, res : SUBSET ReservationIds, todo : SUBSET ReservationIds,
     attempt : Nat]

EffectRecord ==
    [owner : Owners \cup {NoRow}, attempts : Nat, terminalAttempt : Nat \cup {-1},
     terminal : Terminals \cup {"none"}]

OpenedLedger ==
    [state : {"open", "closing", "closed"}, home : Processes, identity : Identities,
     class : Classes]

Reports == Terminals \cup {"none"}

Opened(o) == o \in Owners /\ ledger[o].state # "unopened"

\* A call knows what its step needs: its ledger once it has begun, its effect once
\* one is minted or continued.
CallOK(w) ==
    /\ At(w, "idle") => thread[w].effect = NoEffect
    /\ ~At(w, "idle") => Opened(thread[w].owner) /\ thread[w].door \in Doors
    /\ thread[w].pc \notin {"idle", "opening"} => thread[w].effect \in Effects

CallsOK ==
    /\ ShapeOK
    /\ ledger \in [Owners -> [state : {"unopened"}] \cup OpenedLedger]
    /\ closing \in [Owners -> SUBSET ReservationIds]
    /\ registry \in [Owners -> Seq(Effects)]
    /\ effect \in [Effects -> EffectRecord]
    /\ thread \in [Threads -> CallRecord]
    /\ \A w \in Threads : CallOK(w)
    /\ ran \subseteq Effects
    /\ reported \in [Effects -> [1..MaxAttempts -> Reports]]

\* A ledger that was opened has its process, identity and class.
LEMMA OpenedRecord ==
    ASSUME CallsOK, NEW o, Opened(o)
    PROVE  o \in Owners /\ ledger[o] \in OpenedLedger
BY DEF CallsOK, Opened, OpenedLedger

\* The gateway starts with nothing open and every thread idle.
LEMMA CallsInit == GatewayInit => CallsOK
<1> SUFFICES ASSUME GatewayInit PROVE CallsOK
    OBVIOUS
<1>1. ShapeOK
    BY ShapeInit DEF GatewayInit
<1>2. Idle \in CallRecord
    BY DEF Idle, CallRecord, Places
<1>3. Unregistered \in EffectRecord
    BY DEF Unregistered, EffectRecord
<1>4. registry \in [Owners -> Seq(Effects)]
    BY DEF GatewayInit
<1>5. \A w \in Threads : CallOK(w)
    BY DEF GatewayInit, CallOK, At, Idle
<1> QED
    BY <1>1, <1>2, <1>3, <1>4, <1>5 DEF GatewayInit, CallsOK, Reports

-----------------------------------------------------------------------------
(* The steps of the gateway are operations of the store.                   *)

\* A reservation by the gateway is one by the store, for one unit and no effect.
LEMMA ReserveForIsNext ==
    ASSUME CallsOK, NEW w \in Threads, NEW o, Opened(o), NEW d, NEW e, ReserveFor(w, o, d, e)
    PROVE  [Next]_vars
<1>1. ledger[o] \in OpenedLedger /\ o \in Owners
    BY OpenedRecord
<1>2. ledger[o].home \in Processes /\ ledger[o].class \in Classes /\ ledger[o].identity \in Identities
    BY <1>1 DEF OpenedLedger
<1>3. 1 \in 1..MaxUnits
    BY BoundAssumption
<1>4. ASSUME NEW r \in ReservationIds, Reserve(ledger[o].home, r, ledger[o].class,
                                              ledger[o].identity, 1, o, NoEffect)
      PROVE  Next
    BY <1>1, <1>2, <1>3, <1>4 DEF Next
<1>5. ASSUME RefuseReserve(ledger[o].home, ledger[o].class, ledger[o].identity, 1) PROVE Next
    BY <1>2, <1>3, <1>5 DEF Next
<1> QED
    BY <1>4, <1>5, Zenon DEF ReserveFor

\* Every step of the gateway is an operation of the store or leaves it alone.
LEMMA StepIsNext == CallsOK /\ [GatewayNext]_allvars => [Next]_vars
<1> SUFFICES ASSUME CallsOK, [GatewayNext]_allvars PROVE [Next]_vars
    OBVIOUS
<1>1. ASSUME NEW w \in Threads, Call(w) PROVE [Next]_vars
  <2>1. ASSUME NEW o \in Owners, NEW d \in Doors, OpenEffect(w, o, d) PROVE [Next]_vars
    BY <2>1, ReserveForIsNext DEF OpenEffect, Alive, Opened
  <2>2. ASSUME NEW e \in Effects, NEW d \in Doors, RetryEffect(w, e, d) PROVE UNCHANGED vars
    BY <2>2 DEF RetryEffect
  <2> QED
    BY <1>1, <2>1, <2>2 DEF Call
<1>2. ASSUME NEW w \in Threads, Continue(w) PROVE [Next]_vars
  <2>1. ASSUME NEW e \in Effects, Authorize(w, e) PROVE [Next]_vars
    <3>1. thread[w].res \subseteq ReservationIds
      BY DEF CallsOK, CallRecord
    <3>2. BindIfReserved(thread[w].res, e)
      BY <2>1 DEF Authorize
    <3> QED
      BY <3>1, <3>2 DEF BindIfReserved, Next
  <2>2. ASSUME RetryReserve(w) PROVE [Next]_vars
    <3>1. Opened(thread[w].owner)
      BY <2>2 DEF RetryReserve, CallsOK, CallOK, At
    <3> QED
      BY <2>2, <3>1, ReserveForIsNext DEF RetryReserve
  <2>3. ASSUME ConsumeNext(w) \/ CancelRelease(w) PROVE [Next]_vars
    <3>1. thread[w].todo \subseteq ReservationIds
      BY DEF CallsOK, CallRecord
    <3> QED
      BY <2>3, <3>1 DEF ConsumeNext, CancelRelease, Next
  <2>4. ASSUME RunHandler(w) \/ BeginScan(w) \/ BeginAttempt(w) \/ EndCall(w) \/ Cancel(w)
               \/ CancelDone(w)
        PROVE  UNCHANGED vars
    BY <2>4 DEF RunHandler, BeginScan, BeginAttempt, EndCall, Cancel, CancelDone
  <2>5. ASSUME NEW l \in {"succeeded", "failed"}, RecordTerminal(w, l) PROVE UNCHANGED vars
    BY <2>5 DEF RecordTerminal
  <2> QED
    BY <1>2, <2>1, <2>2, <2>3, <2>4, <2>5 DEF Continue
<1>3. ASSUME NEW o \in Owners, CloseStep(o) PROVE [Next]_vars
  <2>1. closing[o] \subseteq ReservationIds
    BY DEF CallsOK
  <2> QED
    BY <1>3, <2>1 DEF CloseStep, CloseScope, CloseRelease, CloseDone, Next
<1>4. ASSUME NEW p \in Processes, ProcessStep(p) PROVE [Next]_vars
    BY <1>4 DEF ProcessStep, ProcessDies, OpenScope, Next
<1>5. StoreStep => Next
    BY DEF StoreStep, Next
<1> QED
    BY <1>1, <1>2, <1>3, <1>4, <1>5 DEF GatewayNext, allvars

-----------------------------------------------------------------------------
(* Every step keeps the shape.                                             *)

\* A call at x knows what its step needs.
KnowsEnough(x) ==
    /\ x \in CallRecord
    /\ x.pc = "idle" => x.effect = NoEffect
    /\ x.pc # "idle" => Opened(x.owner) /\ x.door \in Doors
    /\ x.pc \notin {"idle", "opening"} => x.effect \in Effects

\* What a call knows, put together and taken apart.
LEMMA CallsKnow ==
    CallsOK => \A w \in Threads : KnowsEnough(thread[w])
BY DEF CallsOK, CallOK, KnowsEnough, At

\* An idle thread needs nothing.
LEMMA IdleKnows == KnowsEnough(Idle)
BY DEF KnowsEnough, Idle, CallRecord, Places

\* The threads after a step that moves one call.
LEMMA CallMoves ==
    ASSUME CallsOK, NEW w \in Threads, NEW x, KnowsEnough(x),
           thread' = [thread EXCEPT ![w] = x], UNCHANGED ledger
    PROVE  thread' \in [Threads -> CallRecord] /\ \A v \in Threads : CallOK(v)'
<1>1. \A v \in Threads : thread'[v] = IF v = w THEN x ELSE thread[v]
    BY DEF CallsOK
<1>2. \A v \in Threads : KnowsEnough(thread'[v])
    BY <1>1, CallsKnow
<1>3. thread' \in [Threads -> CallRecord]
    BY DEF CallsOK, KnowsEnough
<1>4. \A o : Opened(o) => Opened(o)'
    BY DEF Opened
<1> QED
    BY <1>2, <1>3, <1>4 DEF KnowsEnough, CallOK, At

\* A reservation takes the call to its opening, or back to idle.
LEMMA ReserveForMoves ==
    ASSUME CallsOK, NEW w \in Threads, NEW o, Opened(o), NEW d \in Doors,
           NEW e \in Effects \cup {NoEffect}, ReserveFor(w, o, d, e)
    PROVE  \E x : KnowsEnough(x) /\ thread' = [thread EXCEPT ![w] = x]
<1>1. PICK i \in CallRecord : i = Idle
    BY IdleKnows DEF KnowsEnough
<1>2. KnowsEnough([i EXCEPT !.pc = "opening", !.owner = o, !.effect = e, !.door = d])
    BY DEF KnowsEnough, CallRecord, Places, Opened
<1>3. ASSUME NEW r \in ReservationIds
      PROVE  KnowsEnough([[i EXCEPT !.pc = "opening", !.owner = o, !.effect = e, !.door = d]
                             EXCEPT !.res = {r}])
    BY <1>2 DEF KnowsEnough, CallRecord
<1>4. ASSUME NEW r \in ReservationIds,
             thread' = [thread EXCEPT ![w] =
                [[Idle EXCEPT !.pc = "opening", !.owner = o, !.effect = e, !.door = d]
                    EXCEPT !.res = {r}]]
      PROVE  \E x : KnowsEnough(x) /\ thread' = [thread EXCEPT ![w] = x]
    BY <1>1, <1>3, <1>4
<1>5. ASSUME thread' = [thread EXCEPT ![w] =
                [Idle EXCEPT !.pc = "opening", !.owner = o, !.effect = e, !.door = d]]
      PROVE  \E x : KnowsEnough(x) /\ thread' = [thread EXCEPT ![w] = x]
    BY <1>1, <1>2, <1>5
<1>6. ASSUME Return(w) PROVE \E x : KnowsEnough(x) /\ thread' = [thread EXCEPT ![w] = x]
    BY <1>6, IdleKnows DEF Return
<1> QED
    BY <1>4, <1>5, <1>6 DEF ReserveFor

\* What a step of a call under way makes of it; e is the effect it authorizes.
LEMMA ContinueMoves ==
    ASSUME CallsOK, NEW w \in Threads, Continue(w)
    PROVE  \E x : KnowsEnough(x) /\ thread' = [thread EXCEPT ![w] = x]
<1> DEFINE Moves == \E x : KnowsEnough(x) /\ thread' = [thread EXCEPT ![w] = x]
<1>0. PICK c : c = thread[w]
    OBVIOUS
<1>1. KnowsEnough(c) /\ c \in CallRecord
    BY <1>0, CallsKnow DEF KnowsEnough
<1>2. Return(w) => Moves
    BY IdleKnows DEF Return
<1>3. ASSUME NEW e \in Effects, Authorize(w, e) PROVE Moves
  <2>1. KnowsEnough([c EXCEPT !.pc = "authorized", !.effect = e])
    BY <1>0, <1>1, <1>3 DEF Authorize, At, KnowsEnough, CallRecord, Places
  <2>2. thread' = [thread EXCEPT ![w] = [c EXCEPT !.pc = "authorized", !.effect = e]]
    BY <1>0, <1>3 DEF Authorize, CallsOK
  <2> QED
    BY <2>1, <2>2
<1>4. ASSUME RetryReserve(w) PROVE Moves
  <2>1. c.pc = "retrying"
    BY <1>0, <1>4 DEF RetryReserve, At
  <2>2. Opened(c.owner) /\ c.door \in Doors /\ c.effect \in Effects
    BY <1>1, <2>1 DEF KnowsEnough
  <2>3. ReserveFor(w, c.owner, c.door, c.effect)
    BY <1>0, <1>4 DEF RetryReserve
  <2> QED
    BY <2>2, <2>3, ReserveForMoves
<1>5. ASSUME RunHandler(w) PROVE Moves
  <2>1. KnowsEnough([c EXCEPT !.pc = "handled"])
    BY <1>0, <1>1, <1>5 DEF RunHandler, At, KnowsEnough, CallRecord, Places
  <2>2. thread' = [thread EXCEPT ![w] = [c EXCEPT !.pc = "handled"]]
    BY <1>0, <1>5 DEF RunHandler, Step, CallsOK
  <2> QED
    BY <2>1, <2>2
<1>6. ASSUME BeginScan(w) PROVE Moves
  <2>1. PICK S \in SUBSET ReservationIds : S = {r \in Bound(c.effect) : state[r] = "reserved"}
    BY DEF Bound
  <2>2. KnowsEnough([c EXCEPT !.pc = "consuming", !.todo = S])
    BY <1>0, <1>1, <1>6 DEF BeginScan, At, KnowsEnough, CallRecord, Places
  <2>3. CASE thread' = [thread EXCEPT ![w].pc = "consuming",
                          ![w].todo = {r \in Bound(thread[w].effect) : state[r] = "reserved"}]
    <3>1. thread' = [thread EXCEPT ![w] = [c EXCEPT !.pc = "consuming", !.todo = S]]
      BY <1>0, <2>1, <2>3 DEF CallsOK
    <3> QED
      BY <2>2, <3>1
  <2> QED
    BY <1>2, <1>6, <2>3 DEF BeginScan
<1>7. ASSUME ConsumeNext(w) \/ CancelRelease(w) PROVE Moves
  <2>1. ASSUME NEW r \in c.todo, thread' = [thread EXCEPT ![w].todo = @ \ {r}] PROVE Moves
    <3>1. PICK S \in SUBSET ReservationIds : S = c.todo \ {r}
      BY <1>1 DEF CallRecord
    <3>2. KnowsEnough([c EXCEPT !.todo = S])
      BY <1>1 DEF KnowsEnough, CallRecord
    <3>3. thread' = [thread EXCEPT ![w] = [c EXCEPT !.todo = S]]
      BY <1>0, <2>1, <3>1 DEF CallsOK
    <3> QED
      BY <3>2, <3>3
  <2> QED
    BY <1>0, <1>2, <1>7, <2>1 DEF ConsumeNext, CancelRelease
<1>8. ASSUME BeginAttempt(w) PROVE Moves
  <2>1. PICK n \in Nat : n = effect[c.effect].attempts + 1
    <3>1. c.effect \in Effects
      BY <1>0, <1>1, <1>8 DEF BeginAttempt, At, KnowsEnough
    <3> QED
      BY <3>1 DEF CallsOK, EffectRecord
  <2>2. KnowsEnough([c EXCEPT !.pc = "running", !.attempt = n])
    BY <1>0, <1>1, <1>8 DEF BeginAttempt, At, KnowsEnough, CallRecord, Places
  <2>3. CASE thread' = [thread EXCEPT ![w].pc = "running",
                          ![w].attempt = effect[thread[w].effect].attempts + 1]
    <3>1. thread' = [thread EXCEPT ![w] = [c EXCEPT !.pc = "running", !.attempt = n]]
      BY <1>0, <2>1, <2>3 DEF CallsOK
    <3> QED
      BY <2>2, <3>1
  <2> QED
    BY <1>2, <1>8, <2>3 DEF BeginAttempt
<1>9. ASSUME NEW l \in {"succeeded", "failed"}, RecordTerminal(w, l) PROVE Moves
  <2>1. KnowsEnough([c EXCEPT !.pc = "ended"])
    BY <1>0, <1>1, <1>9 DEF RecordTerminal, At, KnowsEnough, CallRecord, Places
  <2>2. thread' = [thread EXCEPT ![w] = [c EXCEPT !.pc = "ended"]]
    BY <1>0, <1>9 DEF RecordTerminal, Step, CallsOK
  <2> QED
    BY <2>1, <2>2
<1>10. ASSUME EndCall(w) \/ CancelDone(w) PROVE Moves
    BY <1>2, <1>10 DEF EndCall, CancelDone
<1>11. ASSUME Cancel(w) PROVE Moves
  <2>1. PICK S \in SUBSET ReservationIds : S = {r \in Bound(c.effect) : state[r] = "reserved"}
    BY DEF Bound
  <2>2. KnowsEnough([c EXCEPT !.pc = "releasing", !.todo = S])
    BY <1>0, <1>1, <1>11 DEF Cancel, At, KnowsEnough, CallRecord, Places
  <2>3. CASE thread' = [thread EXCEPT ![w].pc = "releasing",
                          ![w].todo = {r \in Bound(thread[w].effect) : state[r] = "reserved"}]
    <3>1. thread' = [thread EXCEPT ![w] = [c EXCEPT !.pc = "releasing", !.todo = S]]
      BY <1>0, <2>1, <2>3 DEF CallsOK
    <3> QED
      BY <2>2, <3>1
  <2> QED
    BY <1>2, <1>11, <2>3 DEF Cancel
<1> QED
    BY <1>3, <1>4, <1>5, <1>6, <1>7, <1>8, <1>9, <1>10, <1>11 DEF Continue

-----------------------------------------------------------------------------
(* The records of ledgers and effects.                                     *)

\* An opened ledger keeps its process, its identity and its class.
LedgersKept ==
    \A o \in Owners : Opened(o) =>
        Opened(o)' /\ ledger'[o].home = ledger[o].home /\ ledger'[o].class = ledger[o].class

\* An effect that was registered keeps its owner.
OwnersKept ==
    \A e \in Effects : effect[e].owner # NoRow => effect'[e].owner = effect[e].owner

\* Registration keeps a sequence of effects, which grows by one or stays at the ceiling.
LEMMA Registration ==
    ASSUME CallsOK, NEW o \in Owners, NEW e \in Effects, RegisterIn(o, e)
    PROVE  /\ registry' \in [Owners -> Seq(Effects)]
           /\ \A q \in Owners : q # o => registry'[q] = registry[q]
           /\ Len(registry[o]) < RegistryCap => registry'[o] = Append(registry[o], e)
           /\ Len(registry[o]) >= RegistryCap => Len(registry'[o]) = Len(registry[o])
           /\ Len(registry'[o]) \in Nat /\ registry'[o][Len(registry'[o])] = e
<1> DEFINE kept == IF Len(registry[o]) >= RegistryCap THEN Tail(registry[o]) ELSE registry[o]
<1>1. registry[o] \in Seq(Effects) /\ Len(registry[o]) \in Nat
    BY LenProperties DEF CallsOK
<1>2. RegistryCap \in Nat /\ RegistryCap > 0
    BY GatewayAssumption
<1>3. CASE Len(registry[o]) >= RegistryCap
  <2>1. registry[o] # <<>>
    BY <1>1, <1>2, <1>3, EmptySeq
  <2>2. Tail(registry[o]) \in Seq(Effects) /\ Len(Tail(registry[o])) = Len(registry[o]) - 1
    BY <1>1, <2>1, HeadTailProperties
  <2>3. kept \in Seq(Effects) /\ Len(kept) = Len(registry[o]) - 1
    BY <1>3, <2>2
  <2>4. Append(kept, e) \in Seq(Effects) /\ Len(Append(kept, e)) = Len(registry[o])
        /\ Append(kept, e)[Len(Append(kept, e))] = e
    BY <1>1, <2>3, AppendProperties
  <2>5. registry' = [registry EXCEPT ![o] = Append(kept, e)]
    BY DEF RegisterIn
  <2> HIDE DEF kept
  <2> QED
    BY <1>1, <1>2, <1>3, <2>4, <2>5 DEF CallsOK
<1>4. CASE ~(Len(registry[o]) >= RegistryCap)
    BY <1>1, <1>2, <1>4, AppendProperties DEF RegisterIn, CallsOK
<1> QED
    BY <1>3, <1>4

\* A terminal keeps the record of an effect a record, and its owner and attempts.
LEMMA TerminalKeeps ==
    ASSUME CallsOK, NEW e \in Effects, NEW n \in Nat, NEW l \in Terminals,
           TerminalTransition(e, n, l)
    PROVE  /\ effect' \in [Effects -> EffectRecord]
           /\ \A f \in Effects : effect'[f].owner = effect[f].owner
                              /\ effect'[f].attempts = effect[f].attempts
<1>1. PICK x \in EffectRecord : x = effect[e]
    BY DEF CallsOK
<1>2. [x EXCEPT !.terminalAttempt = n, !.terminal = l] \in EffectRecord
    BY DEF EffectRecord
<1>3. CASE UNCHANGED effect
    BY <1>3 DEF CallsOK
<1>4. CASE effect' = [effect EXCEPT ![e].terminalAttempt = n, ![e].terminal = l]
  <2>1. effect' = [effect EXCEPT ![e] = [x EXCEPT !.terminalAttempt = n, !.terminal = l]]
    BY <1>1, <1>4 DEF CallsOK
  <2>2. /\ [x EXCEPT !.terminalAttempt = n, !.terminal = l].owner = x.owner
        /\ [x EXCEPT !.terminalAttempt = n, !.terminal = l].attempts = x.attempts
    BY DEF EffectRecord
  <2> QED
    BY <1>1, <1>2, <2>1, <2>2 DEF CallsOK
<1> QED
    BY <1>3, <1>4 DEF TerminalTransition

\* The effect that w authorizes has the owner of its call, or gets it.
LEMMA AuthorizeKeeps ==
    ASSUME CallsOK, NEW w \in Threads, NEW e \in Effects, Authorize(w, e),
           thread[w].effect # NoEffect => effect[thread[w].effect].owner = thread[w].owner
    PROVE  /\ effect' \in [Effects -> EffectRecord]
           /\ registry' \in [Owners -> Seq(Effects)]
           /\ OwnersKept /\ effect'[e].owner = thread[w].owner
           /\ thread[w].owner \in Owners
           /\ \A f \in Effects : f # e => effect'[f] = effect[f]
<1>1. thread[w].owner \in Owners /\ thread[w].owner # NoRow
    BY GatewayAssumption DEF Authorize, CallsOK, CallOK, At, Opened
<1>2. CASE UNCHANGED <<registry, effect>> /\ Registered(e)
  <2>1. effect[e].owner = thread[w].owner
    BY <1>2, SentinelAssumption DEF Authorize, Fresh, Registered, Unregistered
  <2> QED
    BY <1>1, <1>2, <2>1 DEF CallsOK, OwnersKept
<1>3. CASE /\ RegisterIn(thread[w].owner, e)
           /\ effect' = [effect EXCEPT ![e] = [Unregistered EXCEPT !.owner = thread[w].owner]]
  <2>1. PICK x \in EffectRecord : x = Unregistered
    BY DEF EffectRecord, Unregistered
  <2>2. [x EXCEPT !.owner = thread[w].owner] \in EffectRecord
        /\ [x EXCEPT !.owner = thread[w].owner].owner = thread[w].owner
    BY <1>1 DEF EffectRecord
  <2>3. effect[e].owner # NoRow => effect[e].owner = thread[w].owner
    BY SentinelAssumption DEF Authorize, Fresh, Unregistered
  <2>4. effect' = [effect EXCEPT ![e] = [x EXCEPT !.owner = thread[w].owner]]
    BY <1>3, <2>1
  <2> QED
    BY <1>1, <1>3, <2>2, <2>3, <2>4, Registration DEF CallsOK, OwnersKept
<1> QED
    BY <1>2, <1>3 DEF Authorize

-----------------------------------------------------------------------------
(* Calls own their effects.                                                *)

\* The effect of a call belongs to the ledger of the call.
OwnsEffect(w) ==
    thread[w].effect # NoEffect => effect[thread[w].effect].owner = thread[w].owner

CallsOwn == CallsOK /\ \A w \in Threads : OwnsEffect(w)

\* A call under way keeps its ledger, and its effect but for the one it authorizes.
SameCall(w) ==
    /\ \A v \in Threads \ {w} : thread'[v] = thread[v]
    /\ \/ thread'[w] = Idle
       \/ /\ thread'[w].owner = thread[w].owner
          /\ \/ thread'[w].effect = thread[w].effect
             \/ \E e \in Effects : Authorize(w, e) /\ thread'[w].effect = e

\* A step of Continue changes the record of its own thread only.
LEMMA ContinueSame ==
    ASSUME CallsOK, NEW w \in Threads, Continue(w)
    PROVE  SameCall(w)
<1>0. PICK c \in CallRecord : c = thread[w]
    BY DEF CallsOK
<1>1. ASSUME Return(w) PROVE SameCall(w)
    BY <1>1 DEF Return, SameCall, CallsOK
<1>2. ASSUME NEW e \in Effects, Authorize(w, e) PROVE SameCall(w)
  <2>1. thread' = [thread EXCEPT ![w] = [c EXCEPT !.pc = "authorized", !.effect = e]]
    BY <1>0, <1>2 DEF Authorize, CallsOK
  <2>2. [c EXCEPT !.pc = "authorized", !.effect = e].owner = c.owner
        /\ [c EXCEPT !.pc = "authorized", !.effect = e].effect = e
    BY DEF CallRecord
  <2> QED
    BY <1>0, <1>2, <2>1, <2>2 DEF SameCall, CallsOK
<1>3. ASSUME NEW x, x.owner = c.owner, x.effect = c.effect, thread' = [thread EXCEPT ![w] = x]
      PROVE  SameCall(w)
    BY <1>0, <1>3 DEF SameCall, CallsOK
<1>4. ASSUME RetryReserve(w) PROVE SameCall(w)
  <2>1. ASSUME NEW S, thread' = [thread EXCEPT ![w] =
                [[Idle EXCEPT !.pc = "opening", !.owner = c.owner, !.effect = c.effect,
                              !.door = c.door] EXCEPT !.res = S]]
        PROVE  SameCall(w)
    BY <1>3, <2>1 DEF Idle
  <2>2. ASSUME thread' = [thread EXCEPT ![w] =
                [Idle EXCEPT !.pc = "opening", !.owner = c.owner, !.effect = c.effect,
                             !.door = c.door]]
        PROVE  SameCall(w)
    BY <1>3, <2>2 DEF Idle
  <2> QED
    BY <1>0, <1>1, <1>4, <2>1, <2>2 DEF RetryReserve, ReserveFor
<1>5. ASSUME NEW p, Step(w, p) PROVE SameCall(w)
  <2>1. thread' = [thread EXCEPT ![w] = [c EXCEPT !.pc = p]]
    BY <1>0, <1>5 DEF Step, CallsOK
  <2> QED
    BY <1>3, <2>1 DEF CallRecord
<1>6. ASSUME NEW p, NEW S, thread' = [thread EXCEPT ![w].pc = p, ![w].todo = S]
      PROVE  SameCall(w)
  <2>1. thread' = [thread EXCEPT ![w] = [c EXCEPT !.pc = p, !.todo = S]]
    BY <1>0, <1>6 DEF CallsOK
  <2> QED
    BY <1>3, <2>1 DEF CallRecord
<1>7. ASSUME NEW r, thread' = [thread EXCEPT ![w].todo = @ \ {r}] PROVE SameCall(w)
  <2>1. thread' = [thread EXCEPT ![w] = [c EXCEPT !.todo = c.todo \ {r}]]
    BY <1>0, <1>7 DEF CallsOK
  <2> QED
    BY <1>3, <2>1 DEF CallRecord
<1>8. ASSUME NEW n, thread' = [thread EXCEPT ![w].pc = "running", ![w].attempt = n]
      PROVE  SameCall(w)
  <2>1. thread' = [thread EXCEPT ![w] = [c EXCEPT !.pc = "running", !.attempt = n]]
    BY <1>0, <1>8 DEF CallsOK
  <2> QED
    BY <1>3, <2>1 DEF CallRecord
<1>9. CASE RunHandler(w) \/ (\E l \in {"succeeded", "failed"} : RecordTerminal(w, l))
    BY <1>5, <1>9 DEF RunHandler, RecordTerminal
<1>10. CASE BeginScan(w) \/ Cancel(w)
    BY <1>1, <1>6, <1>10 DEF BeginScan, Cancel
<1>11. CASE ConsumeNext(w) \/ CancelRelease(w)
    BY <1>1, <1>7, <1>11 DEF ConsumeNext, CancelRelease
<1>12. CASE BeginAttempt(w)
    BY <1>1, <1>8, <1>12 DEF BeginAttempt
<1>13. CASE EndCall(w) \/ CancelDone(w)
    BY <1>1, <1>13 DEF EndCall, CancelDone
<1> QED
    BY <1>2, <1>4, <1>9, <1>10, <1>11, <1>12, <1>13 DEF Continue

\* A call that begins owns the effect it continues, if any.
LEMMA CallBegins ==
    ASSUME CallsOwn, NEW w \in Threads, Call(w)
    PROVE  /\ thread' \in [Threads -> CallRecord] /\ \A v \in Threads : CallOK(v)'
           /\ \A v \in Threads : OwnsEffect(v)'
           /\ UNCHANGED <<ledger, closing, registry, effect, ran, reported>>
<1>0. CallsOK
    BY DEF CallsOwn
<1>1. ASSUME NEW o \in Owners, NEW d \in Doors, OpenEffect(w, o, d)
      PROVE  /\ thread' \in [Threads -> CallRecord] /\ \A v \in Threads : CallOK(v)'
             /\ \A v \in Threads : OwnsEffect(v)'
  <2>1. Opened(o)
    BY <1>1 DEF OpenEffect, Alive, Opened
  <2>2. PICK x : KnowsEnough(x) /\ thread' = [thread EXCEPT ![w] = x]
    BY <1>0, <1>1, <2>1, ReserveForMoves DEF OpenEffect
  <2>3. thread'[w].effect = NoEffect
    <3>1. ReserveFor(w, o, d, NoEffect)
      BY <1>1 DEF OpenEffect
    <3>2. PICK i \in CallRecord : i = Idle /\ i.effect = NoEffect
      BY IdleKnows DEF KnowsEnough, Idle
    <3>3. ASSUME NEW S
          PROVE  /\ [i EXCEPT !.pc = "opening", !.owner = o, !.effect = NoEffect, !.door = d].effect
                      = NoEffect
                 /\ [[i EXCEPT !.pc = "opening", !.owner = o, !.effect = NoEffect, !.door = d]
                        EXCEPT !.res = S].effect = NoEffect
      BY DEF CallRecord
    <3>4. ASSUME NEW y, y.effect = NoEffect, thread' = [thread EXCEPT ![w] = y]
          PROVE  thread'[w].effect = NoEffect
      BY <1>0, <3>4 DEF CallsOK
    <3>5. ASSUME NEW r \in ReservationIds, thread' = [thread EXCEPT ![w] =
                [[Idle EXCEPT !.pc = "opening", !.owner = o, !.effect = NoEffect, !.door = d]
                    EXCEPT !.res = {r}]]
          PROVE  thread'[w].effect = NoEffect
      BY <3>2, <3>3, <3>4, <3>5
    <3>6. ASSUME thread' = [thread EXCEPT ![w] =
                [Idle EXCEPT !.pc = "opening", !.owner = o, !.effect = NoEffect, !.door = d]]
          PROVE  thread'[w].effect = NoEffect
      BY <3>2, <3>3, <3>4, <3>6
    <3>7. ASSUME Return(w) PROVE thread'[w].effect = NoEffect
      BY <3>2, <3>4, <3>7 DEF Return
    <3> QED
      BY <3>1, <3>5, <3>6, <3>7 DEF ReserveFor
  <2> QED
    BY <1>0, <1>1, <2>2, <2>3, CallMoves DEF OpenEffect, CallsOwn, OwnsEffect, CallsOK
<1>2. ASSUME NEW e \in Effects, NEW d \in Doors, RetryEffect(w, e, d)
      PROVE  /\ thread' \in [Threads -> CallRecord] /\ \A v \in Threads : CallOK(v)'
             /\ \A v \in Threads : OwnsEffect(v)'
  <2>1. Opened(effect[e].owner)
    BY <1>0, <1>2 DEF RetryEffect, Registered, Alive, Opened, CallsOK, EffectRecord
  <2>2. PICK i \in CallRecord : i = Idle
    BY IdleKnows DEF KnowsEnough
  <2>3. PICK place \in {"opening", "retrying"} : thread' = [thread EXCEPT ![w] =
            [i EXCEPT !.pc = place, !.owner = effect[e].owner, !.effect = e, !.door = d]]
    BY <1>2, <2>2 DEF RetryEffect
  <2>4. KnowsEnough([i EXCEPT !.pc = place, !.owner = effect[e].owner, !.effect = e, !.door = d])
    BY <2>1 DEF KnowsEnough, CallRecord, Places, Opened
  <2>5. /\ [i EXCEPT !.pc = place, !.owner = effect[e].owner, !.effect = e, !.door = d].effect = e
        /\ [i EXCEPT !.pc = place, !.owner = effect[e].owner, !.effect = e, !.door = d].owner
             = effect[e].owner
    BY DEF CallRecord
  <2> QED
    BY <1>0, <1>2, <2>3, <2>4, <2>5, CallMoves DEF RetryEffect, CallsOwn, OwnsEffect, CallsOK
<1> QED
    BY <1>1, <1>2 DEF Call, OpenEffect, RetryEffect

-----------------------------------------------------------------------------
(* Every step keeps the calls.                                             *)

CallsKept == CallsOwn' /\ LedgersKept /\ OwnersKept

\* The parts of the shape that are not about calls, put together.
LEMMA KeptParts ==
    ASSUME CallsOwn, [Next]_vars,
           thread' \in [Threads -> CallRecord] /\ (\A v \in Threads : CallOK(v)'),
           \A v \in Threads : OwnsEffect(v)',
           ledger' \in [Owners -> [state : {"unopened"}] \cup OpenedLedger] /\ LedgersKept,
           closing' \in [Owners -> SUBSET ReservationIds],
           registry' \in [Owners -> Seq(Effects)],
           effect' \in [Effects -> EffectRecord] /\ OwnersKept,
           ran' \subseteq Effects, reported' \in [Effects -> [1..MaxAttempts -> Reports]]
    PROVE  CallsKept
<1>1. ShapeOK'
    BY ShapeStep DEF CallsOwn, CallsOK
<1> QED
    BY <1>1, Zenon DEF CallsKept, CallsOwn, CallsOK

\* Nothing but the store changes.
LEMMA KeptSame ==
    ASSUME CallsOwn, UNCHANGED <<ledger, registry, effect, ran, reported, thread>>
    PROVE  /\ LedgersKept /\ OwnersKept /\ \A v \in Threads : CallOK(v)' /\ OwnsEffect(v)'
           /\ thread' \in [Threads -> CallRecord]
           /\ ledger' \in [Owners -> [state : {"unopened"}] \cup OpenedLedger]
           /\ registry' \in [Owners -> Seq(Effects)] /\ effect' \in [Effects -> EffectRecord]
           /\ ran' \subseteq Effects /\ reported' \in [Effects -> [1..MaxAttempts -> Reports]]
BY DEF CallsOwn, CallsOK, CallOK, At, OwnsEffect, LedgersKept, OwnersKept, Opened

\* The calls stay known and owned when ledgers open or close and processes die.
LEMMA CallsSettled ==
    ASSUME CallsOwn, LedgersKept, UNCHANGED effect,
           \A v \in Threads : thread'[v] \in {thread[v], Idle}, DOMAIN thread' = Threads,
           thread' = [v \in Threads |-> thread'[v]]
    PROVE  /\ thread' \in [Threads -> CallRecord]
           /\ \A v \in Threads : CallOK(v)' /\ OwnsEffect(v)'
<1>1. \A v \in Threads : KnowsEnough(thread'[v])
    BY CallsKnow, IdleKnows DEF CallsOwn
<1>2. \A o : Opened(o) => Opened(o)'
    BY DEF LedgersKept, Opened
<1>3. \A v \in Threads : CallOK(v)'
    BY <1>1, <1>2 DEF KnowsEnough, CallOK, At
<1>4. \A v \in Threads : OwnsEffect(v)'
    BY DEF OwnsEffect, CallsOwn, Idle
<1> QED
    BY <1>1, <1>3, <1>4 DEF KnowsEnough

\* A step of a call under way.
LEMMA ContinueKept ==
    ASSUME CallsOwn, NEW w \in Threads, Continue(w), [Next]_vars
    PROVE  CallsKept
<1>0. CallsOK /\ SameCall(w)
    BY ContinueSame DEF CallsOwn
<1>1. PICK c \in CallRecord : c = thread[w]
    BY <1>0 DEF CallsOK
<1>2. c.attempt \in Nat
    BY DEF CallRecord
<1>3. UNCHANGED <<ledger, closing>>
    BY DEF Continue, Authorize, RetryReserve, RunHandler, BeginScan, ConsumeNext, BeginAttempt,
           RecordTerminal, EndCall, Cancel, CancelRelease, CancelDone
<1>4. thread' \in [Threads -> CallRecord] /\ \A v \in Threads : CallOK(v)'
    BY <1>0, <1>3, ContinueMoves, CallMoves
<1>5. c.effect \in Effects \/ ~(c.pc \notin {"idle", "opening"})
    BY <1>0, <1>1 DEF CallsOK, CallOK
<1>6. /\ effect' \in [Effects -> EffectRecord] /\ OwnersKept
      /\ registry' \in [Owners -> Seq(Effects)]
  <2>1. ASSUME NEW e \in Effects, Authorize(w, e)
        PROVE  /\ effect' \in [Effects -> EffectRecord] /\ OwnersKept
               /\ registry' \in [Owners -> Seq(Effects)]
    BY <1>0, <2>1, AuthorizeKeeps DEF CallsOwn, OwnsEffect
  <2>2. ASSUME BeginAttempt(w)
        PROVE  effect' \in [Effects -> EffectRecord] /\ OwnersKept
    <3>1. c.effect \in Effects
      BY <1>1, <1>5, <2>2 DEF BeginAttempt, At
    <3>2. PICK x \in EffectRecord : x = effect[c.effect]
      BY <1>0, <3>1 DEF CallsOK
    <3>3. x.attempts \in Nat
      BY DEF EffectRecord
    <3>4. [x EXCEPT !.attempts = x.attempts + 1] \in EffectRecord
          /\ [x EXCEPT !.attempts = x.attempts + 1].owner = x.owner
      BY <3>3 DEF EffectRecord
    <3>5. \/ UNCHANGED effect
          \/ effect' = [effect EXCEPT ![c.effect] = [x EXCEPT !.attempts = x.attempts + 1]]
      BY <1>0, <1>1, <2>2, <3>1, <3>2 DEF BeginAttempt, CallsOK
    <3> QED
      BY <1>0, <3>1, <3>2, <3>4, <3>5 DEF CallsOK, OwnersKept
  <2>3. ASSUME NEW l \in {"succeeded", "failed"}, RecordTerminal(w, l)
        PROVE  effect' \in [Effects -> EffectRecord] /\ OwnersKept
    <3>1. c.effect \in Effects /\ l \in Terminals
      BY <1>1, <1>5, <2>3 DEF RecordTerminal, At, Terminals
    <3> QED
      BY <1>0, <1>1, <1>2, <2>3, <3>1, TerminalKeeps DEF RecordTerminal, OwnersKept, CallsOK
  <2>4. ASSUME Cancel(w)
        PROVE  effect' \in [Effects -> EffectRecord] /\ OwnersKept
    <3>1. c.effect \in Effects /\ "cancelled" \in Terminals
      BY <1>1, <1>5, <2>4 DEF Cancel, At, Terminals
    <3> QED
      BY <1>0, <1>1, <1>2, <2>4, <3>1, TerminalKeeps DEF Cancel, OwnersKept, CallsOK
  <2>5. BeginAttempt(w) \/ Cancel(w) \/ (\E l \in {"succeeded", "failed"} : RecordTerminal(w, l))
        => UNCHANGED registry
    BY DEF BeginAttempt, RecordTerminal, Cancel
  <2>6. RetryReserve(w) \/ RunHandler(w) \/ BeginScan(w) \/ ConsumeNext(w) \/ EndCall(w)
        \/ CancelRelease(w) \/ CancelDone(w)
        => UNCHANGED <<registry, effect>>
    BY DEF RetryReserve, RunHandler, BeginScan, ConsumeNext, EndCall, CancelRelease, CancelDone
  <2> QED
    BY <1>0, <2>1, <2>2, <2>3, <2>4, <2>5, <2>6 DEF Continue, CallsOK, OwnersKept
<1>7. \A v \in Threads : OwnsEffect(v)'
  <2>1. ASSUME NEW v \in Threads, thread'[v].owner = thread[v].owner,
               thread'[v].effect = thread[v].effect
        PROVE  OwnsEffect(v)'
    <3>1. thread[v].effect # NoEffect => thread[v].effect \in Effects /\ thread[v].owner \in Owners
      BY <1>0 DEF CallsOK, CallOK, CallRecord, At, Opened
    <3>2. thread[v].effect # NoEffect => effect[thread[v].effect].owner # NoRow
      BY <3>1, GatewayAssumption DEF CallsOwn, OwnsEffect
    <3> QED
      BY <1>6, <2>1, <3>1, <3>2 DEF CallsOwn, OwnsEffect, OwnersKept
  <2>2. ASSUME NEW e \in Effects, Authorize(w, e), thread'[w].effect = e,
               thread'[w].owner = thread[w].owner
        PROVE  OwnsEffect(w)'
    BY <1>0, <2>2, AuthorizeKeeps DEF CallsOwn, OwnsEffect
  <2>3. thread'[w] = Idle => OwnsEffect(w)'
    BY DEF Idle, OwnsEffect
  <2> QED
    BY <1>0, <2>1, <2>2, <2>3 DEF SameCall
<1>8. ran' \subseteq Effects
    BY <1>0, <1>1, <1>5 DEF Continue, Authorize, RetryReserve, RunHandler, BeginScan, ConsumeNext,
           BeginAttempt, RecordTerminal, EndCall, Cancel, CancelRelease, CancelDone, CallsOK, At
<1>9. reported' \in [Effects -> [1..MaxAttempts -> Reports]]
  <2>1. ASSUME NEW e, NEW n, NEW l \in Reports, reported' = [reported EXCEPT ![e][n] = l]
        PROVE  reported' \in [Effects -> [1..MaxAttempts -> Reports]]
    <3>1. reported \in [Effects -> [1..MaxAttempts -> Reports]]
      BY <1>0 DEF CallsOK
    <3>2. ASSUME NEW f \in Effects
          PROVE [reported[f] EXCEPT ![n] = l] \in [1..MaxAttempts -> Reports]
      BY <3>1
    <3> QED
      BY <2>1, <3>1, <3>2
  <2>2. {"succeeded", "failed", "cancelled"} \subseteq Reports
    BY DEF Reports, Terminals
  <2>3. ASSUME NEW l \in {"succeeded", "failed"}, RecordTerminal(w, l)
        PROVE  reported' \in [Effects -> [1..MaxAttempts -> Reports]]
    BY <1>0, <2>1, <2>2, <2>3 DEF RecordTerminal, CallsOK
  <2>4. ASSUME Cancel(w) PROVE reported' \in [Effects -> [1..MaxAttempts -> Reports]]
    BY <1>0, <2>1, <2>2, <2>4 DEF Cancel, CallsOK
  <2>5. Continue(w) => \/ UNCHANGED reported \/ Cancel(w)
                       \/ \E l \in {"succeeded", "failed"} : RecordTerminal(w, l)
    BY DEF Continue, Authorize, RetryReserve, RunHandler, BeginScan, ConsumeNext, BeginAttempt,
           EndCall, CancelRelease, CancelDone
  <2> QED
    BY <1>0, <2>3, <2>4, <2>5 DEF CallsOK
<1> QED
    BY <1>0, <1>3, <1>4, <1>6, <1>7, <1>8, <1>9, KeptParts, KeptSame DEF LedgersKept, Opened, CallsOK

-----------------------------------------------------------------------------
(* The refinement of the store, and its invariants.                         *)

\* A scope opens or closes.
LEMMA ScopeKept ==
    ASSUME CallsOwn, NEW o \in Owners, NEW x \in OpenedLedger, [Next]_vars,
           ledger' = [ledger EXCEPT ![o] = x],
           Opened(o) => x.home = ledger[o].home /\ x.class = ledger[o].class,
           closing' \in [Owners -> SUBSET ReservationIds],
           UNCHANGED <<registry, effect, thread, ran, reported>>
    PROVE  CallsKept
<1>1. ledger' \in [Owners -> [state : {"unopened"}] \cup OpenedLedger]
    BY DEF CallsOwn, CallsOK
<1>2. x.state # "unopened"
    BY DEF OpenedLedger
<1>3. LedgersKept
    BY <1>2 DEF CallsOwn, CallsOK, LedgersKept, Opened
<1>4. /\ thread' \in [Threads -> CallRecord]
      /\ \A v \in Threads : CallOK(v)' /\ OwnsEffect(v)'
  <2>1. \A v \in Threads : thread'[v] \in {thread[v], Idle}
    OBVIOUS
  <2>2. thread' \in [Threads -> CallRecord]
    BY DEF CallsOwn, CallsOK
  <2> QED
    BY <1>3, <2>1, <2>2, CallsSettled
<1>5. OwnersKept
    BY DEF OwnersKept
<1> QED
    BY <1>1, <1>3, <1>4, <1>5, KeptParts DEF CallsOwn, CallsOK

\* Every step keeps the calls, the ledgers and the owners.
LEMMA CallsStep == CallsOwn /\ [GatewayNext]_allvars => CallsKept
<1> SUFFICES ASSUME CallsOwn, [GatewayNext]_allvars PROVE CallsKept
    OBVIOUS
<1>0. CallsOK /\ [Next]_vars
    BY StepIsNext DEF CallsOwn
<1>1. ASSUME NEW w \in Threads, Call(w) PROVE CallsKept
    BY <1>0, <1>1, CallBegins, KeptParts DEF CallsOK, LedgersKept, OwnersKept, Opened
<1>2. ASSUME NEW w \in Threads, Continue(w) PROVE CallsKept
    BY <1>0, <1>2, ContinueKept
<1>3. ASSUME NEW o \in Owners, CloseStep(o) PROVE CallsKept
  <2>1. ASSUME NEW s \in {"closing", "closed"}, Opened(o), ledger' = [ledger EXCEPT ![o].state = s],
               closing' \in [Owners -> SUBSET ReservationIds],
               UNCHANGED <<registry, effect, thread, ran, reported>>
        PROVE  CallsKept
    <3>1. PICK x \in OpenedLedger : x = ledger[o]
      BY <1>0, <2>1, OpenedRecord
    <3>2. /\ [x EXCEPT !.state = s] \in OpenedLedger
          /\ [x EXCEPT !.state = s].home = x.home
          /\ [x EXCEPT !.state = s].class = x.class
      BY DEF OpenedLedger
    <3>3. ledger' = [ledger EXCEPT ![o] = [x EXCEPT !.state = s]]
      BY <1>0, <2>1, <3>1 DEF CallsOK
    <3> QED
      BY <1>0, <2>1, <3>1, <3>2, <3>3, ScopeKept
  <2>2. CASE CloseScope(o)
    <3>1. closing' \in [Owners -> SUBSET ReservationIds]
      BY <1>0, <2>2 DEF CloseScope, CallsOK
    <3> QED
      BY <2>1, <2>2, <3>1 DEF CloseScope, Opened
  <2>3. CASE CloseDone(o)
    BY <1>0, <2>1, <2>3 DEF CloseDone, Opened, CallsOK
  <2>4. CASE CloseRelease(o)
    <3>1. closing' \in [Owners -> SUBSET ReservationIds]
      BY <1>0, <2>4 DEF CloseRelease, CallsOK
    <3> QED
      BY <1>0, <2>4, <3>1, KeptSame, KeptParts DEF CloseRelease
  <2> QED
    BY <1>3, <2>2, <2>3, <2>4 DEF CloseStep
<1>4. ASSUME NEW p \in Processes, ProcessStep(p) PROVE CallsKept
  <2>1. CASE ProcessDies(p)
    <3>1. LedgersKept /\ OwnersKept
      BY <2>1 DEF ProcessDies, LedgersKept, OwnersKept, Opened
    <3>2. /\ thread' \in [Threads -> CallRecord]
          /\ \A v \in Threads : CallOK(v)' /\ OwnsEffect(v)'
      BY <1>0, <2>1, <3>1, CallsSettled DEF ProcessDies
    <3> QED
      BY <1>0, <2>1, <3>1, <3>2, KeptParts DEF ProcessDies, CallsOK
  <2>2. CASE UNCHANGED gateway
    BY <1>0, <2>2, KeptSame, KeptParts DEF gateway, CallsOK
  <2>3. ASSUME NEW o \in Owners, NEW i \in Identities, NEW c \in Classes, OpenScope(p, o, i, c)
        PROVE  CallsKept
    <3>1. PICK x \in OpenedLedger :
              x = [state |-> "open", home |-> p, identity |-> i, class |-> c]
      BY DEF OpenedLedger
    <3> QED
      BY <1>0, <2>3, <3>1, ScopeKept DEF OpenScope, Opened, CallsOK
  <2> QED
    BY <1>4, <2>1, <2>2, <2>3 DEF ProcessStep
<1>5. CASE UNCHANGED gateway
    BY <1>0, <1>5, KeptSame, KeptParts DEF gateway, CallsOK
<1> QED
    BY <1>1, <1>2, <1>3, <1>4, <1>5 DEF GatewayNext, StoreStep, allvars

\* Nothing is owned at the start.
LEMMA CallsOwnInit == GatewayInit => CallsOwn
BY CallsInit DEF CallsOwn, OwnsEffect, GatewayInit, Idle

\* Every behaviour of the gateway is one of the budget store: whatever calls, retries,
\* cancellations, scope closes and deaths come between the transactions of a handler,
\* each of them is an operation the store offers, with arguments it allows.
THEOREM GatewayImplementsBudget == GatewaySpec => ImplementsBudget
<1>1. CallsOwn /\ [GatewayNext]_allvars => CallsOwn'
    BY CallsStep DEF CallsKept
<1>2. CallsOwn /\ [GatewayNext]_allvars => [Next]_vars
    BY StepIsNext DEF CallsOwn
<1>3. GatewayInit => Init
    BY DEF GatewayInit
<1> QED
    BY <1>1, <1>2, <1>3, CallsOwnInit, PTL DEF GatewaySpec, ImplementsBudget, Spec

\* What is proved of the store holds under the gateway, while time passes, rules are
\* adjusted, measured costs arrive and instances shut down: the counters equal the rows,
\* the ceilings and the windows hold, and reconciliation takes nothing from a live holder.
THEOREM GatewayKeepsBudget ==
    GatewaySpec => /\ [](TypeOK /\ CountersExact /\ CeilingHeld /\ WindowHeld)
                   /\ LiveHolderKept
<1>1. ImplementsBudget => Spec
    BY DEF ImplementsBudget
<1> QED
    BY <1>1, GatewayImplementsBudget, TypeCorrect, CountersAlwaysExact, CeilingAlwaysHeld,
       WindowAlwaysHeld, LiveHolderAlwaysKept, PTL

-----------------------------------------------------------------------------
(* Attempts are paid for.                                                  *)

\* The units of a call that is opening are not bound yet.
OpeningOK(w) ==
    At(w, "opening") =>
        \A r \in thread[w].res : state[r] # "none" /\ row[r].effect = NoEffect

ResDisjoint ==
    \A v, w \in Threads :
        v # w /\ At(v, "opening") /\ At(w, "opening") => thread[v].res \cap thread[w].res = {}

\* A call that passed the scan has a unit of its effect consumed, or still to consume.
ConsumingOK(w) ==
    At(w, "consuming") /\ ledger[thread[w].owner].class \notin lapsed =>
        \E r \in ReservationIds :
            /\ row[r].effect = thread[w].effect
            /\ state[r] = "consumed" \/ (state[r] # "none" /\ r \in thread[w].todo)

Paid(e) ==
    AlwaysBudgeted(e) =>
        \E r \in ReservationIds : state[r] = "consumed" /\ row[r].effect = e

\* A class that was never without a rule has one.
Ruled == \A c \in Classes : c \notin lapsed => Budgeted(c)

\* What ran or has an attempt is registered and paid for; a coverage door runs first.
EffectPaid(e) ==
    /\ effect[e].attempts > 0 \/ e \in ran => effect[e].owner # NoRow
    /\ effect[e].owner # NoRow => Opened(effect[e].owner)
    /\ effect[e].attempts > 0 => Paid(e)
    /\ e \in ran /\ "coverage" \notin Doors => Paid(e)

PaidInv ==
    /\ CallsOwn
    /\ Ruled
    /\ \A w \in Threads : OpeningOK(w) /\ ConsumingOK(w)
    /\ ResDisjoint
    /\ \A e \in Effects : EffectPaid(e)

\* A row stays, with the effect it is bound to, and a spent one stays spent.
Held(r) ==
    state[r] # "none" =>
        /\ state'[r] # "none" /\ row'[r].effect = row[r].effect
        /\ state[r] = "consumed" => state'[r] = "consumed"

AllHeld == lapsed \subseteq lapsed' /\ \A r \in ReservationIds : Held(r)

\* Every operation of the store, binding apart, holds every row.
LEMMA StoreHolds ==
    ASSUME CallsOK,
           \/ UNCHANGED vars
           \/ \E p \in Processes, r \in ReservationIds : \E c, i, u, o, e :
                 Reserve(p, r, c, i, u, o, e)
           \/ \E p \in Processes : \E c, i, u : RefuseReserve(p, c, i, u)
           \/ \E r \in ReservationIds : Consume(r) \/ Release(r)
           \/ \E p \in Processes : Boot(p) \/ Crash(p)
           \/ \E p \in Processes, gone \in SUBSET Processes : ReconcileStale(p, gone)
           \/ StoreStep
    PROVE  AllHeld
<1>0. /\ row \in [ReservationIds -> ReservationRow \cup {NoRow}]
      /\ state \in [ReservationIds -> {"none", "reserved", "consumed", "released"}]
      /\ \A r \in ReservationIds : state[r] # "none" => row[r] \in ReservationRow
    BY DEF CallsOK, ShapeOK
<1>1. CASE UNCHANGED vars
    BY <1>1 DEF vars, store, AllHeld, Held
<1>2. ASSUME NEW p \in Processes, NEW r \in ReservationIds, NEW c, NEW i, NEW u, NEW o, NEW e,
             Reserve(p, r, c, i, u, o, e)
      PROVE  AllHeld
    BY <1>0, <1>2 DEF Reserve, AllHeld, Held
<1>3. ASSUME NEW p \in Processes, NEW c, NEW i, NEW u, RefuseReserve(p, c, i, u) PROVE AllHeld
    BY <1>3 DEF RefuseReserve, store, AllHeld, Held
<1>4. ASSUME NEW r \in ReservationIds, Consume(r) \/ Release(r) PROVE AllHeld
  <2>1. PICK x \in ReservationRow : x = row[r]
    BY <1>0, <1>4 DEF Consume, Release
  <2>2. /\ row' = [row EXCEPT ![r] = [x EXCEPT !.active = now]] /\ UNCHANGED lapsed
        /\ \A q \in ReservationIds : q # r => state'[q] = state[q]
        /\ state[r] = "reserved" /\ state'[r] # "none"
    BY <1>0, <1>4, <2>1 DEF Consume, Release
  <2>3. [x EXCEPT !.active = now].effect = x.effect
    BY DEF ReservationRow
  <2>4. \A q \in ReservationIds : row'[q].effect = row[q].effect
    BY <1>0, <2>1, <2>2, <2>3
  <2>5. ASSUME NEW q \in ReservationIds PROVE Held(q)
    BY <2>2, <2>4, Zenon DEF Held
  <2> QED
    BY <2>2, <2>5, Zenon DEF AllHeld
<1>5. ASSUME NEW p \in Processes, Boot(p) \/ Crash(p) PROVE AllHeld
    BY <1>5 DEF Boot, Crash, store, AllHeld, Held
<1>6. ASSUME NEW p \in Processes, NEW gone \in SUBSET Processes, ReconcileStale(p, gone)
      PROVE  AllHeld
  <2>1. ASSUME NEW r \in ReservationIds, state[r] # "none" PROVE Held(r)
    <3>1. PICK x \in ReservationRow : x = row[r]
      BY <1>0, <2>1
    <3>2. [x EXCEPT !.active = now].effect = x.effect
      BY DEF ReservationRow
    <3>3. row'[r] = x \/ row'[r] = [x EXCEPT !.active = now]
      BY <1>6, <3>1 DEF ReconcileStale
    <3>4. state'[r] = state[r] \/ (state[r] = "reserved" /\ state'[r] = "released")
      BY <1>6 DEF ReconcileStale
    <3> QED
      BY <2>1, <3>1, <3>2, <3>3, <3>4 DEF Held
  <2> QED
    BY <1>6, <2>1 DEF AllHeld, Held, ReconcileStale
<1>7. CASE StoreStep
  <2>1. ASSUME NEW r \in ReservationIds, NEW u \in 1..MaxUnits, ReconcileCost(r, u) PROVE AllHeld
    <3>1. PICK x \in ReservationRow : x = row[r]
      BY <1>0, <2>1 DEF ReconcileCost
    <3>2. [x EXCEPT !.units = u, !.active = now].effect = x.effect
      BY DEF ReservationRow
    <3>3. /\ row' = [row EXCEPT ![r] = [x EXCEPT !.units = u, !.active = now]]
          /\ UNCHANGED <<lapsed, state>>
      BY <1>0, <2>1, <3>1 DEF ReconcileCost
    <3>4. \A q \in ReservationIds : row'[q].effect = row[q].effect
      BY <1>0, <3>1, <3>2, <3>3
    <3> QED
      BY <3>3, <3>4, Zenon DEF AllHeld, Held
  <2>2. ASSUME NEW t \in Tokens, NEW a \in Adjustments, ApplyAdjustment(t, a) PROVE AllHeld
    <3>1. UNCHANGED <<state, row>> /\ lapsed \subseteq lapsed'
      BY <2>2 DEF ApplyAdjustment
    <3> QED
      BY <3>1, Zenon DEF AllHeld, Held
  <2>3. ASSUME UNCHANGED <<state, row, lapsed>> PROVE AllHeld
    BY <2>3, Zenon DEF AllHeld, Held
  <2> QED
    BY <1>7, <2>1, <2>2, <2>3 DEF StoreStep, Tick, GrantAuthority, ShutdownInstance, store
<1> QED
    BY <1>1, <1>2, <1>3, <1>4, <1>5, <1>6, <1>7, Zenon

\* Every other step but an authorization holds every row.
LEMMA StepHolds ==
    ASSUME CallsOK, [GatewayNext]_allvars,
           ~\E w \in Threads, e \in Effects : Authorize(w, e)
    PROVE  AllHeld
<1>0. ASSUME NEW w \in Threads, NEW o, Opened(o), NEW d, NEW e, ReserveFor(w, o, d, e) PROVE AllHeld
  <2>1. ledger[o].home \in Processes
    BY <1>0, OpenedRecord DEF OpenedLedger
  <2> QED
    BY <1>0, <2>1, StoreHolds DEF ReserveFor
<1>1. ASSUME NEW w \in Threads, Call(w) PROVE AllHeld
  <2>1. ASSUME NEW o \in Owners, NEW d \in Doors, OpenEffect(w, o, d) PROVE AllHeld
    BY <1>0, <2>1 DEF OpenEffect, Alive, Opened
  <2> QED
    BY <1>1, <2>1, StoreHolds DEF Call, RetryEffect
<1>2. ASSUME NEW w \in Threads, Continue(w) PROVE AllHeld
  <2>1. CASE RetryReserve(w)
    <3>1. Opened(thread[w].owner)
      BY <2>1 DEF RetryReserve, CallsOK, CallOK, At
    <3> QED
      BY <1>0, <2>1, <3>1 DEF RetryReserve
  <2>2. CASE ConsumeNext(w) \/ CancelRelease(w)
    <3>1. thread[w].todo \subseteq ReservationIds
      BY DEF CallsOK, CallRecord
    <3> QED
      BY <2>2, <3>1, StoreHolds DEF ConsumeNext, CancelRelease
  <2>3. CASE \/ RunHandler(w) \/ BeginScan(w) \/ BeginAttempt(w) \/ EndCall(w) \/ Cancel(w)
             \/ CancelDone(w) \/ \E l \in {"succeeded", "failed"} : RecordTerminal(w, l)
    <3>1. UNCHANGED vars
      BY <2>3 DEF RunHandler, BeginScan, BeginAttempt, EndCall, Cancel, CancelDone, RecordTerminal
    <3> QED
      BY <3>1, StoreHolds
  <2> QED
    BY <1>2, <2>1, <2>2, <2>3 DEF Continue
<1>3. ASSUME NEW o \in Owners, CloseStep(o) PROVE AllHeld
  <2>1. closing[o] \subseteq ReservationIds
    BY DEF CallsOK
  <2> QED
    BY <1>3, <2>1, StoreHolds DEF CloseStep, CloseScope, CloseRelease, CloseDone
<1>4. ASSUME NEW p \in Processes, ProcessStep(p) PROVE AllHeld
    BY <1>4, StoreHolds DEF ProcessStep, ProcessDies, OpenScope
<1> QED
    BY <1>1, <1>2, <1>3, <1>4, StoreHolds DEF GatewayNext, allvars

\* An authorization binds at most the unit of its own call, and only one still reserved.
LEMMA AuthorizeHolds ==
    ASSUME CallsOK, NEW w \in Threads, NEW e \in Effects, Authorize(w, e)
    PROVE  /\ UNCHANGED <<lapsed, state>>
           /\ \A r \in ReservationIds : \/ row'[r].effect = row[r].effect
                                        \/ r \in thread[w].res /\ state[r] = "reserved"
<1>1. BindIfReserved(thread[w].res, e) /\ thread[w].res \subseteq ReservationIds
    BY DEF Authorize, CallsOK, CallRecord
<1>2. CASE UNCHANGED vars
    BY <1>2 DEF vars, store
<1>3. ASSUME NEW r \in thread[w].res, BindEffect(r, e)
      PROVE  /\ UNCHANGED <<lapsed, state>> /\ state[r] = "reserved"
             /\ \A q \in ReservationIds : q # r => row'[q] = row[q]
    BY <1>1, <1>3 DEF BindEffect, CallsOK, ShapeOK
<1> QED
    BY <1>1, <1>2, <1>3 DEF BindIfReserved

-----------------------------------------------------------------------------
(* Every step keeps what is paid for.                                      *)

\* A bound row stays bound to its effect.
BoundHeld ==
    /\ lapsed \subseteq lapsed'
    /\ \A r \in ReservationIds :
          state[r] # "none" /\ row[r].effect # NoEffect =>
              /\ state'[r] # "none" /\ row'[r].effect = row[r].effect
              /\ state[r] = "consumed" => state'[r] = "consumed"

\* A bound row stays bound, whatever step is taken.
LEMMA StepBinds ==
    ASSUME PaidInv, [GatewayNext]_allvars
    PROVE  BoundHeld
<1>0. CallsOK
    BY DEF PaidInv, CallsOwn
<1>1. AllHeld => BoundHeld
    BY DEF AllHeld, Held, BoundHeld
<1>2. ASSUME NEW w \in Threads, NEW e \in Effects, Authorize(w, e) PROVE BoundHeld
  <2>1. \A r \in thread[w].res : row[r].effect = NoEffect
    BY <1>2 DEF PaidInv, OpeningOK, Authorize
  <2> QED
    BY <1>0, <1>2, <2>1, AuthorizeHolds DEF BoundHeld
<1> QED
    BY <1>0, <1>1, <1>2, StepHolds

\* What is paid for stays paid for.
LEMMA PaidStays ==
    ASSUME BoundHeld, LedgersKept, NEW e \in Effects, Opened(effect[e].owner), Paid(e),
           effect'[e].owner = effect[e].owner
    PROVE  Paid(e)'
<1>1. effect[e].owner \in Owners /\ lapsed \subseteq lapsed'
    BY DEF Opened, BoundHeld
<1>2. ledger'[effect'[e].owner].class = ledger[effect[e].owner].class
    BY <1>1 DEF LedgersKept
<1>3. AlwaysBudgeted(e)' => AlwaysBudgeted(e)
    BY <1>1, <1>2 DEF AlwaysBudgeted
<1>4. e # NoEffect
    BY SentinelAssumption
<1> QED
    BY <1>3, <1>4 DEF Paid, BoundHeld

\* An effect whose record keeps its owner and attempts, and that does not run, stays paid.
LEMMA EffectFrame ==
    ASSUME PaidInv, BoundHeld, LedgersKept, NEW e \in Effects,
           effect'[e].owner = effect[e].owner, effect'[e].attempts = effect[e].attempts,
           e \in ran' => e \in ran
    PROVE  EffectPaid(e)'
<1>1. EffectPaid(e)
    BY DEF PaidInv
<1>2. effect[e].owner # NoRow => Opened(effect[e].owner) /\ Opened(effect[e].owner)'
    BY <1>1 DEF EffectPaid, LedgersKept, Opened
<1>3. effect[e].owner # NoRow /\ Paid(e) => Paid(e)'
    BY <1>2, PaidStays
<1> QED
    BY <1>1, <1>2, <1>3 DEF EffectPaid

\* A call that passed the scan keeps its unit while it rests.
LEMMA ConsumingFrame ==
    ASSUME PaidInv, BoundHeld, LedgersKept, NEW w \in Threads, thread'[w] = thread[w]
    PROVE  ConsumingOK(w)'
<1> SUFFICES ASSUME At(w, "consuming"), (ledger[thread[w].owner].class \notin lapsed)'
             PROVE  \E r \in ReservationIds :
                       /\ row'[r].effect = thread[w].effect
                       /\ state'[r] = "consumed" \/ (state'[r] # "none" /\ r \in thread[w].todo)
    BY DEF ConsumingOK, At
<1>1. Opened(thread[w].owner) /\ thread[w].effect \in Effects
    BY DEF PaidInv, CallsOwn, CallsOK, CallOK, At
<1>2. ledger[thread[w].owner].class \notin lapsed
    BY <1>1 DEF BoundHeld, LedgersKept, Opened
<1>3. PICK r \in ReservationIds :
            /\ row[r].effect = thread[w].effect
            /\ state[r] = "consumed" \/ (state[r] # "none" /\ r \in thread[w].todo)
    BY <1>2 DEF PaidInv, ConsumingOK
<1> QED
    BY <1>1, <1>3, SentinelAssumption DEF BoundHeld

\* The threads after a step of one of them that holds every row.
LEMMA ThreadsFrame ==
    ASSUME PaidInv, AllHeld, LedgersKept, NEW w \in Threads,
           \A v \in Threads : v # w => thread'[v] = thread[v],
           OpeningOK(w)', ConsumingOK(w)',
           At(w, "opening")' => \A v \in Threads : v # w /\ At(v, "opening") =>
                                    thread[v].res \cap thread'[w].res = {}
    PROVE  (\A v \in Threads : OpeningOK(v)' /\ ConsumingOK(v)') /\ ResDisjoint'
<1>1. BoundHeld
    BY DEF AllHeld, Held, BoundHeld
<1>2. ASSUME NEW v \in Threads, thread'[v] = thread[v] PROVE OpeningOK(v)'
  <2>1. At(v, "opening") => thread[v].res \subseteq ReservationIds
    BY DEF PaidInv, CallsOwn, CallsOK, CallRecord
  <2> QED
    BY <1>2, <2>1 DEF PaidInv, OpeningOK, At, AllHeld, Held
<1>3. ResDisjoint'
    BY DEF PaidInv, ResDisjoint, At
<1> QED
    BY <1>1, <1>2, <1>3, ConsumingFrame

-----------------------------------------------------------------------------
(* The attempt that begins is paid for.                                    *)

CallsPaid == (\A v \in Threads : OpeningOK(v) /\ ConsumingOK(v)) /\ ResDisjoint

\* A reservation gives the call a row nobody holds.
LEMMA ReservePaid ==
    ASSUME PaidInv, AllHeld, LedgersKept, NEW w \in Threads, NEW o, NEW d, NEW e,
           ReserveFor(w, o, d, e)
    PROVE  CallsPaid'
<1>0. thread \in [Threads -> CallRecord] /\ CallsOK
    BY DEF PaidInv, CallsOwn, CallsOK
<1>1. PICK i \in CallRecord : i = Idle /\ i.res = {} /\ i.pc = "idle"
    BY IdleKnows DEF KnowsEnough, Idle
<1>2. PICK x : x = [i EXCEPT !.pc = "opening", !.owner = o, !.effect = e, !.door = d]
               /\ x.pc = "opening" /\ x.res = {} /\ DOMAIN x = DOMAIN i
  <2>1. /\ [i EXCEPT !.pc = "opening", !.owner = o, !.effect = e, !.door = d].pc = "opening"
        /\ [i EXCEPT !.pc = "opening", !.owner = o, !.effect = e, !.door = d].res = i.res
        /\ DOMAIN [i EXCEPT !.pc = "opening", !.owner = o, !.effect = e, !.door = d] = DOMAIN i
    BY DEF CallRecord
  <2> QED
    BY <1>1, <2>1, Zenon
<1>3. ASSUME NEW r \in ReservationIds,
             Reserve(ledger[o].home, r, ledger[o].class, ledger[o].identity, 1, o, NoEffect),
             thread' = [thread EXCEPT ![w] = [x EXCEPT !.res = {r}]]
      PROVE  CallsPaid'
  <2>1. state[r] = "none" /\ state'[r] # "none" /\ row'[r].effect = NoEffect
    BY <1>0, <1>3 DEF Reserve, CallsOK, ShapeOK
  <2>2. [x EXCEPT !.res = {r}].pc = "opening" /\ [x EXCEPT !.res = {r}].res = {r}
    BY <1>1, <1>2 DEF CallRecord
  <2>3. thread'[w].pc = "opening" /\ thread'[w].res = {r}
        /\ \A v \in Threads : v # w => thread'[v] = thread[v]
    BY <1>0, <1>3, <2>2
  <2>4. \A v \in Threads : At(v, "opening") => r \notin thread[v].res
    BY <2>1 DEF PaidInv, OpeningOK
  <2> QED
    BY <2>1, <2>3, <2>4, ThreadsFrame DEF OpeningOK, ConsumingOK, At, CallsPaid
<1>4. ASSUME NEW y, thread' = [thread EXCEPT ![w] = y],
             y.pc \notin {"opening", "consuming"} \/ (y.pc = "opening" /\ y.res = {})
      PROVE  CallsPaid'
  <2>1. thread'[w] = y /\ \A v \in Threads : v # w => thread'[v] = thread[v]
    BY <1>0, <1>4
  <2> QED
    BY <1>4, <2>1, ThreadsFrame DEF OpeningOK, ConsumingOK, At, CallsPaid
<1>5. Return(w) => CallsPaid'
    BY <1>1, <1>4 DEF Return
<1>6. ASSUME NEW r \in ReservationIds,
             Reserve(ledger[o].home, r, ledger[o].class, ledger[o].identity, 1, o, NoEffect),
             thread' = [thread EXCEPT ![w] =
                [[Idle EXCEPT !.pc = "opening", !.owner = o, !.effect = e, !.door = d]
                    EXCEPT !.res = {r}]]
      PROVE  CallsPaid'
    BY <1>1, <1>2, <1>3, <1>6
<1>7. ASSUME thread' = [thread EXCEPT ![w] =
                [Idle EXCEPT !.pc = "opening", !.owner = o, !.effect = e, !.door = d]]
      PROVE  CallsPaid'
    BY <1>1, <1>2, <1>4, <1>7
<1> QED
    BY <1>5, <1>6, <1>7 DEF ReserveFor

\* Calls under way, but for authorizations.
LEMMA ContinuePaid ==
    ASSUME PaidInv, AllHeld, LedgersKept, NEW w \in Threads, Continue(w),
           ~\E e \in Effects : Authorize(w, e)
    PROVE  CallsPaid'
<1>0. CallsOK
    BY DEF PaidInv, CallsOwn
<1>1. PICK c \in CallRecord : c = thread[w]
    BY <1>0 DEF CallsOK
<1>2. ASSUME NEW y, thread' = [thread EXCEPT ![w] = y], y.pc \notin {"opening", "consuming"}
      PROVE  CallsPaid'
  <2>1. thread'[w] = y /\ \A v \in Threads : v # w => thread'[v] = thread[v]
    BY <1>0, <1>2 DEF CallsOK
  <2> QED
    BY <1>2, <2>1, ThreadsFrame DEF OpeningOK, ConsumingOK, At, CallsPaid
<1>3. Return(w) => CallsPaid'
    BY <1>2 DEF Return, Idle
<1>4. ASSUME NEW p \in {"handled", "ended"}, Step(w, p) PROVE CallsPaid'
  <2>1. thread' = [thread EXCEPT ![w] = [c EXCEPT !.pc = p]]
    BY <1>0, <1>1, <1>4 DEF Step, CallsOK
  <2>2. [c EXCEPT !.pc = p].pc = p
    BY DEF CallRecord
  <2> QED
    BY <1>2, <2>1, <2>2
<1>5. CASE RetryReserve(w)
    BY <1>5, ReservePaid DEF RetryReserve
<1>6. CASE RunHandler(w) \/ \E l \in {"succeeded", "failed"} : RecordTerminal(w, l)
    BY <1>4, <1>6 DEF RunHandler, RecordTerminal
<1>7. CASE EndCall(w) \/ CancelDone(w)
    BY <1>3, <1>7 DEF EndCall, CancelDone
<1>8. CASE BeginAttempt(w)
  <2>1. ASSUME NEW n, thread' = [thread EXCEPT ![w].pc = "running", ![w].attempt = n]
        PROVE  CallsPaid'
    <3>1. thread' = [thread EXCEPT ![w] = [c EXCEPT !.pc = "running", !.attempt = n]]
      BY <1>0, <1>1, <2>1 DEF CallsOK
    <3>2. [c EXCEPT !.pc = "running", !.attempt = n].pc = "running"
      BY DEF CallRecord
    <3> QED
      BY <1>2, <3>1, <3>2
  <2> QED
    BY <1>3, <1>8, <2>1 DEF BeginAttempt
<1>9. CASE Cancel(w)
  <2>1. ASSUME NEW S, thread' = [thread EXCEPT ![w].pc = "releasing", ![w].todo = S]
        PROVE  CallsPaid'
    <3>1. thread' = [thread EXCEPT ![w] = [c EXCEPT !.pc = "releasing", !.todo = S]]
      BY <1>0, <1>1, <2>1 DEF CallsOK
    <3>2. [c EXCEPT !.pc = "releasing", !.todo = S].pc = "releasing"
      BY DEF CallRecord
    <3> QED
      BY <1>2, <3>1, <3>2
  <2> QED
    BY <1>3, <1>9, <2>1 DEF Cancel
<1>10. CASE CancelRelease(w)
  <2>1. PICK r : thread' = [thread EXCEPT ![w].todo = @ \ {r}] /\ c.pc = "releasing"
    BY <1>1, <1>10 DEF CancelRelease, At
  <2>2. thread' = [thread EXCEPT ![w] = [c EXCEPT !.todo = c.todo \ {r}]]
    BY <1>0, <1>1, <2>1 DEF CallsOK
  <2>3. [c EXCEPT !.todo = c.todo \ {r}].pc = "releasing"
    BY <2>1 DEF CallRecord
  <2> QED
    BY <1>2, <2>2, <2>3
<1>11. CASE BeginScan(w)
  <2>1. PICK S : S = {r \in Bound(c.effect) : state[r] = "reserved"}
    OBVIOUS
  <2>2. ASSUME ~ScanRefuses(c.effect, ledger[c.owner].class),
               thread' = [thread EXCEPT ![w].pc = "consuming", ![w].todo = S],
               UNCHANGED <<vars, ledger>>
        PROVE  CallsPaid'
    <3>1. thread' = [thread EXCEPT ![w] = [c EXCEPT !.pc = "consuming", !.todo = S]]
      BY <1>0, <1>1, <2>2 DEF CallsOK
    <3>2. /\ [c EXCEPT !.pc = "consuming", !.todo = S].pc = "consuming"
          /\ [c EXCEPT !.pc = "consuming", !.todo = S].todo = S
          /\ [c EXCEPT !.pc = "consuming", !.todo = S].owner = c.owner
          /\ [c EXCEPT !.pc = "consuming", !.todo = S].effect = c.effect
      BY DEF CallRecord
    <3>3. /\ thread'[w].pc = "consuming" /\ thread'[w].todo = S /\ thread'[w].owner = c.owner
          /\ thread'[w].effect = c.effect
          /\ \A v \in Threads : v # w => thread'[v] = thread[v]
      BY <1>0, <3>1, <3>2 DEF CallsOK
    <3>4. UNCHANGED <<lapsed, state, row>>
      BY <2>2 DEF vars, store
    <3>5. ledger[c.owner].class \notin lapsed =>
             \E r \in ReservationIds : row[r].effect = c.effect /\ state[r] # "none"
                                       /\ (state[r] = "consumed" \/ r \in S)
      <4>1. ASSUME NEW r \in Bound(c.effect), state[r] # "released"
            PROVE  \E q \in ReservationIds : row[q].effect = c.effect /\ state[q] # "none"
                                       /\ (state[q] = "consumed" \/ q \in S)
        BY <1>0, <2>1, <4>1 DEF Bound, CallsOK, ShapeOK
      <4>2. Opened(c.owner)
        BY <1>0, <1>1, <1>11 DEF BeginScan, At, CallsOK, CallOK
      <4>3. ledger[c.owner].class \in Classes
        BY <1>0, <4>2, OpenedRecord DEF OpenedLedger
      <4> QED
        BY <2>2, <4>1, <4>3 DEF ScanRefuses, PaidInv, Ruled
    <3>6. OpeningOK(w)' /\ ConsumingOK(w)'
      <4>1. ledger' = ledger
        BY <2>2
      <4>2. OpeningOK(w)'
        BY <3>3 DEF OpeningOK, At
      <4>3. ConsumingOK(w)'
        BY <3>3, <3>4, <3>5, <4>1 DEF ConsumingOK, At
      <4> QED
        BY <4>2, <4>3
    <3> QED
      BY <3>3, <3>6, ThreadsFrame DEF At, CallsPaid
  <2> QED
    BY <1>1, <1>3, <1>11, <2>1, <2>2 DEF BeginScan
<1>12. CASE ConsumeNext(w)
  <2>1. ASSUME NEW r \in c.todo, c.pc = "consuming", Consume(r) \/ (state[r] = "consumed" /\ UNCHANGED vars),
               thread' = [thread EXCEPT ![w].todo = @ \ {r}], UNCHANGED ledger
        PROVE  CallsPaid'
    <3>0. r \in ReservationIds
      BY DEF CallRecord
    <3>1. thread' = [thread EXCEPT ![w] = [c EXCEPT !.todo = c.todo \ {r}]]
      BY <1>0, <1>1, <2>1 DEF CallsOK
    <3>2. /\ [c EXCEPT !.todo = c.todo \ {r}].pc = c.pc
          /\ [c EXCEPT !.todo = c.todo \ {r}].todo = c.todo \ {r}
          /\ [c EXCEPT !.todo = c.todo \ {r}].owner = c.owner
          /\ [c EXCEPT !.todo = c.todo \ {r}].effect = c.effect
      BY DEF CallRecord
    <3>3. /\ thread'[w].pc = "consuming" /\ thread'[w].todo = c.todo \ {r}
          /\ thread'[w].owner = c.owner /\ thread'[w].effect = c.effect
          /\ \A v \in Threads : v # w => thread'[v] = thread[v]
      BY <1>0, <2>1, <3>1, <3>2 DEF CallsOK
    <3>4. state'[r] = "consumed" /\ UNCHANGED lapsed
      BY <1>0, <2>1, <3>0 DEF Consume, vars, store, CallsOK, ShapeOK
    <3>5. ASSUME ledger[c.owner].class \notin lapsed
          PROVE  \E q \in ReservationIds : row'[q].effect = c.effect
                     /\ (state'[q] = "consumed" \/ (state'[q] # "none" /\ q \in c.todo \ {r}))
      <4>1. PICK q \in ReservationIds :
              /\ row[q].effect = c.effect
              /\ state[q] = "consumed" \/ (state[q] # "none" /\ q \in c.todo)
        BY <1>1, <2>1, <3>5 DEF PaidInv, ConsumingOK, At
      <4>2. Held(q) /\ state[q] # "none"
        BY <4>1 DEF AllHeld
      <4> QED
        BY <3>4, <4>1, <4>2 DEF Held
    <3>6. OpeningOK(w)' /\ ConsumingOK(w)'
      BY <2>1, <3>3, <3>4, <3>5 DEF OpeningOK, ConsumingOK, At
    <3> QED
      BY <3>3, <3>6, ThreadsFrame DEF At, CallsPaid
  <2> QED
    BY <1>1, <1>3, <1>12, <2>1 DEF ConsumeNext, At
<1> QED
    BY <1>5, <1>6, <1>7, <1>8, <1>9, <1>10, <1>11, <1>12 DEF Continue

-----------------------------------------------------------------------------
(* No attempt without a consumed unit.                                     *)

\* An authorization: the unit of the call is bound, and no call waits to open with it.
LEMMA AuthorizePaid ==
    ASSUME PaidInv, BoundHeld, CallsKept, NEW w \in Threads, NEW e \in Effects, Authorize(w, e)
    PROVE  CallsPaid' /\ \A f \in Effects : EffectPaid(f)'
<1>0. CallsOK /\ CallsOwn /\ LedgersKept /\ OwnersKept
    BY DEF PaidInv, CallsOwn, CallsKept
<1>1. PICK c \in CallRecord : c = thread[w]
    BY <1>0 DEF CallsOK
<1>2. /\ thread'[w] = [c EXCEPT !.pc = "authorized", !.effect = e]
      /\ \A v \in Threads : v # w => thread'[v] = thread[v]
    BY <1>0, <1>1 DEF Authorize, CallsOK
<1>3. thread'[w].pc = "authorized"
    BY <1>2 DEF CallRecord
<1>4. ASSUME NEW v \in Threads PROVE OpeningOK(v)'
  <2>1. ASSUME v # w, At(v, "opening"), NEW r \in thread[v].res
        PROVE  state'[r] # "none" /\ row'[r].effect = NoEffect
    <3>1. r \notin thread[w].res /\ r \in ReservationIds
      BY <1>0, <2>1 DEF PaidInv, ResDisjoint, Authorize, CallsOK, CallRecord
    <3>2. state[r] # "none" /\ row[r].effect = NoEffect
      BY <2>1 DEF PaidInv, OpeningOK
    <3> QED
      BY <1>0, <3>1, <3>2, AuthorizeHolds
  <2> QED
    BY <1>2, <1>3, <2>1 DEF OpeningOK, At
<1>5. ASSUME NEW v \in Threads PROVE ConsumingOK(v)'
    BY <1>0, <1>2, <1>3, ConsumingFrame DEF ConsumingOK, At
<1>6. ResDisjoint'
    BY <1>2, <1>3 DEF PaidInv, ResDisjoint, At
<1>7. thread[w].effect # NoEffect => effect[thread[w].effect].owner = thread[w].owner
    BY DEF PaidInv, CallsOwn, OwnsEffect
<1>8. /\ OwnersKept /\ effect'[e].owner = thread[w].owner /\ thread[w].owner \in Owners
      /\ \A f \in Effects : f # e => effect'[f] = effect[f]
    BY <1>0, <1>7, AuthorizeKeeps
<1>9. ASSUME NEW f \in Effects, f # e PROVE EffectPaid(f)'
    BY <1>0, <1>8, <1>9, EffectFrame DEF Authorize
<1>10. EffectPaid(e)'
  <2>1. Opened(effect[e].owner)'
    BY <1>0, <1>8 DEF Authorize, CallsOK, CallOK, At, Opened
  <2>2. effect'[e].attempts = effect[e].attempts \/ effect'[e].attempts = 0
    <3>1. Unregistered.attempts = 0 /\ Unregistered \in EffectRecord
      BY DEF EffectRecord, Unregistered
    <3>2. [Unregistered EXCEPT !.owner = thread[w].owner].attempts = 0
      BY <3>1 DEF EffectRecord
    <3> QED
      BY <1>0, <3>1, <3>2 DEF Authorize, CallsOK
  <2>3. EffectPaid(e) /\ ran' = ran
    BY DEF PaidInv, Authorize
  <2>4. effect[e].owner # NoRow /\ Paid(e) => Paid(e)'
    BY <1>0, <1>8, <2>3, PaidStays DEF OwnersKept, EffectPaid
  <2> QED
    BY <1>8, <2>1, <2>2, <2>3, <2>4, GatewayAssumption DEF EffectPaid
<1> QED
    BY <1>4, <1>5, <1>6, <1>9, <1>10 DEF CallsPaid

\* An attempt begins only behind the consumption of a unit of its effect.
LEMMA EffectsPaid ==
    ASSUME PaidInv, BoundHeld, CallsKept, NEW w \in Threads, Continue(w),
           ~\E e \in Effects : Authorize(w, e)
    PROVE  \A f \in Effects : EffectPaid(f)'
<1>0. CallsOK /\ CallsOwn /\ LedgersKept /\ OwnersKept
    BY DEF PaidInv, CallsOwn, CallsKept
<1>1. PICK c \in CallRecord : c = thread[w]
    BY <1>0 DEF CallsOK
<1>2. c.pc \notin {"idle", "opening"} =>
         /\ c.effect \in Effects /\ Opened(c.owner) /\ effect[c.effect].owner = c.owner
         /\ c.owner \in Owners /\ c.owner # NoRow
    BY <1>0, <1>1, SentinelAssumption, GatewayAssumption
        DEF CallsOwn, CallsOK, CallOK, OwnsEffect, At, Opened
<1>3. ASSUME UNCHANGED <<effect, ran>> PROVE \A f \in Effects : EffectPaid(f)'
    BY <1>0, <1>3, EffectFrame
<1>4. ASSUME NEW l \in Terminals, TerminalTransition(c.effect, c.attempt, l), UNCHANGED ran,
             c.effect \in Effects
      PROVE  \A f \in Effects : EffectPaid(f)'
  <2>1. c.attempt \in Nat
    BY DEF CallRecord
  <2> QED
    BY <1>0, <1>4, <2>1, TerminalKeeps, EffectFrame
<1>5. CASE Cancel(w)
    BY <1>1, <1>2, <1>3, <1>4, <1>5 DEF Cancel, At, Terminals
<1>6. ASSUME NEW l \in {"succeeded", "failed"}, RecordTerminal(w, l)
      PROVE  \A f \in Effects : EffectPaid(f)'
    BY <1>1, <1>2, <1>3, <1>4, <1>6 DEF RecordTerminal, At, Terminals
<1>7. CASE RunHandler(w)
  <2>1. "coverage" \in Doors /\ UNCHANGED effect /\ ran' = ran \cup {c.effect}
        /\ c.pc = "authorized"
    BY <1>0, <1>1, <1>7 DEF RunHandler, At, CallsOK, CallOK
  <2>2. ASSUME NEW f \in Effects PROVE EffectPaid(f)'
    <3>1. CASE f # c.effect
      BY <1>0, <2>1, <3>1, EffectFrame
    <3>2. CASE f = c.effect
      <4>1. EffectPaid(f) /\ effect[f].owner = c.owner /\ Opened(c.owner)'
        BY <1>0, <1>2, <2>1, <3>2 DEF PaidInv, LedgersKept, Opened
      <4>2. Paid(f) => Paid(f)'
        BY <1>0, <1>2, <2>1, <3>2, PaidStays
      <4> QED
        BY <1>2, <2>1, <4>1, <4>2 DEF EffectPaid
    <3> QED
      BY <3>1, <3>2
  <2> QED
    BY <2>2
<1>8. CASE BeginAttempt(w)
  <2>1. c.pc = "consuming" /\ c.todo = {} /\ c.effect \in Effects
    BY <1>1, <1>2, <1>8 DEF BeginAttempt, At
  <2>2. Paid(c.effect)
    BY <1>1, <1>2, <2>1 DEF PaidInv, ConsumingOK, At, Paid, AlwaysBudgeted
  <2>3. PICK x \in EffectRecord : x = effect[c.effect]
    BY <1>0, <2>1 DEF CallsOK
  <2>4. [x EXCEPT !.attempts = x.attempts + 1].owner = x.owner
    BY DEF EffectRecord
  <2>5. /\ UNCHANGED effect \/ effect' = [effect EXCEPT ![c.effect] = [x EXCEPT !.attempts = x.attempts + 1]]
        /\ ran' \subseteq ran \cup {c.effect}
    BY <1>0, <1>1, <1>8, <2>1, <2>3 DEF BeginAttempt, CallsOK
  <2>6. ASSUME NEW f \in Effects PROVE EffectPaid(f)'
    <3>1. CASE f # c.effect
      BY <1>0, <2>1, <2>5, <3>1, EffectFrame DEF CallsOK
    <3>2. CASE f = c.effect
      <4>1. effect'[f].owner = c.owner /\ effect[f].owner = c.owner /\ Opened(c.owner)'
        BY <1>0, <1>2, <2>1, <2>3, <2>4, <2>5, <3>2 DEF CallsOK, LedgersKept, Opened
      <4>2. Paid(f)'
        BY <1>0, <1>2, <2>1, <2>2, <3>2, <4>1, PaidStays
      <4> QED
        BY <1>2, <2>1, <4>1, <4>2 DEF EffectPaid
    <3> QED
      BY <3>1, <3>2
  <2> QED
    BY <2>6
<1>9. CASE RetryReserve(w) \/ BeginScan(w) \/ ConsumeNext(w) \/ EndCall(w) \/ CancelRelease(w)
           \/ CancelDone(w)
    BY <1>3, <1>9 DEF RetryReserve, BeginScan, ConsumeNext, EndCall, CancelRelease, CancelDone
<1> QED
    BY <1>5, <1>6, <1>7, <1>8, <1>9 DEF Continue

\* Only an adjustment changes the rules, and it notes the classes it leaves without one.
LEMMA RuledStep == Ruled /\ [Next]_vars => Ruled'
<1> SUFFICES ASSUME Ruled, [Next]_vars PROVE Ruled'
    OBVIOUS
<1>1. ASSUME UNCHANGED <<limit, lapsed>> PROVE Ruled'
    BY <1>1 DEF Ruled, Budgeted
<1>2. ASSUME NEW t \in Tokens, NEW a \in Adjustments, ApplyAdjustment(t, a) PROVE Ruled'
    BY <1>2 DEF ApplyAdjustment, Ruled
<1>3. ASSUME NEW p \in Processes, NEW r \in ReservationIds, NEW c, NEW i, NEW u, NEW o, NEW e,
             Reserve(p, r, c, i, u, o, e)
      PROVE  UNCHANGED <<limit, lapsed>>
    BY <1>3 DEF Reserve
<1>4. ASSUME NEW p \in Processes, NEW c, NEW i, NEW u, RefuseReserve(p, c, i, u)
      PROVE  UNCHANGED <<limit, lapsed>>
    BY <1>4 DEF RefuseReserve, store
<1>5. ASSUME NEW p \in Processes, NEW gone, ReconcileStale(p, gone)
      PROVE  UNCHANGED <<limit, lapsed>>
    BY <1>5 DEF ReconcileStale
<1>6. ASSUME NEW r \in ReservationIds, NEW u,
             Consume(r) \/ Release(r) \/ BindEffect(r, u) \/ ReconcileCost(r, u)
      PROVE  UNCHANGED <<limit, lapsed>>
    BY <1>6 DEF Consume, Release, BindEffect, ReconcileCost
<1>7. ASSUME NEW p, Tick \/ Boot(p) \/ Crash(p) \/ ShutdownInstance(p) \/ GrantAuthority(p)
                    \/ UNCHANGED vars
      PROVE  UNCHANGED <<limit, lapsed>>
    BY <1>7 DEF Tick, Boot, Crash, ShutdownInstance, GrantAuthority, vars, store
<1> QED
    BY <1>1, <1>2, <1>3, <1>4, <1>5, <1>6, <1>7, Zenon DEF Next

\* Every step keeps what is paid for.
LEMMA PaidStep == PaidInv /\ [GatewayNext]_allvars => PaidInv'
<1> SUFFICES ASSUME PaidInv, [GatewayNext]_allvars PROVE PaidInv'
    OBVIOUS
<1>0a. Ruled'
    BY StepIsNext, RuledStep DEF PaidInv, CallsOwn
<1>0. CallsOK /\ CallsKept /\ BoundHeld
    BY CallsStep, StepBinds DEF PaidInv, CallsOwn
<1>1. CallsOwn' /\ LedgersKept
    BY <1>0 DEF CallsKept
<1>2. ASSUME CallsPaid', \A f \in Effects : EffectPaid(f)' PROVE PaidInv'
    BY <1>0a, <1>1, <1>2 DEF PaidInv, CallsPaid
<1>3. ASSUME NEW w \in Threads, NEW e \in Effects, Authorize(w, e) PROVE PaidInv'
    BY <1>0, <1>2, <1>3, AuthorizePaid
<1>4. ASSUME ~\E w \in Threads, e \in Effects : Authorize(w, e) PROVE PaidInv'
  <2>0. AllHeld
    BY <1>0, <1>4, StepHolds
  <2>1. ASSUME NEW w \in Threads, Continue(w) PROVE PaidInv'
    BY <1>0, <1>1, <1>2, <1>4, <2>0, <2>1, ContinuePaid, EffectsPaid
  <2>2. ASSUME UNCHANGED <<effect, ran>> PROVE \A f \in Effects : EffectPaid(f)'
    BY <1>0, <1>1, <2>2, EffectFrame
  <2>3. ASSUME NEW w \in Threads, Call(w) PROVE PaidInv'
    <3>1. ASSUME NEW o \in Owners, NEW d \in Doors, OpenEffect(w, o, d) PROVE CallsPaid'
      BY <1>1, <2>0, <3>1, ReservePaid DEF OpenEffect
    <3>2. ASSUME NEW e \in Effects, NEW d \in Doors, RetryEffect(w, e, d) PROVE CallsPaid'
      <4>1. PICK i \in CallRecord : i = Idle /\ i.res = {}
        BY IdleKnows DEF KnowsEnough, Idle
      <4>2. PICK place \in {"opening", "retrying"} : thread' = [thread EXCEPT ![w] =
                [i EXCEPT !.pc = place, !.owner = effect[e].owner, !.effect = e, !.door = d]]
        BY <3>2, <4>1 DEF RetryEffect
      <4>3. /\ [i EXCEPT !.pc = place, !.owner = effect[e].owner, !.effect = e, !.door = d].pc = place
            /\ [i EXCEPT !.pc = place, !.owner = effect[e].owner, !.effect = e, !.door = d].res = {}
        BY <4>1 DEF CallRecord
      <4>4. /\ thread'[w].pc = place /\ thread'[w].res = {}
            /\ \A v \in Threads : v # w => thread'[v] = thread[v]
        BY <1>0, <4>2, <4>3 DEF CallsOK
      <4> QED
        BY <1>1, <2>0, <4>4, ThreadsFrame DEF OpeningOK, ConsumingOK, At, CallsPaid
    <3>3. UNCHANGED <<effect, ran>>
      BY <2>3 DEF Call, OpenEffect, RetryEffect
    <3> QED
      BY <1>2, <2>2, <2>3, <3>1, <3>2, <3>3 DEF Call
  <2>4. ASSUME \A v \in Threads : thread'[v] \in {thread[v], Idle}, UNCHANGED <<effect, ran>>
        PROVE  PaidInv'
    <3>1. ASSUME NEW v \in Threads PROVE OpeningOK(v)' /\ ConsumingOK(v)'
      <4>1. CASE thread'[v] = Idle
        BY <4>1 DEF OpeningOK, ConsumingOK, At, Idle
      <4>2. CASE thread'[v] = thread[v]
        BY <1>0, <1>1, <2>0, <4>2, ConsumingFrame DEF OpeningOK, At, PaidInv, AllHeld, Held,
            CallsOK, CallRecord
      <4> QED
        BY <2>4, <4>1, <4>2
    <3>2. ResDisjoint'
      BY <2>4 DEF PaidInv, ResDisjoint, At, Idle
    <3> QED
      BY <1>2, <2>2, <2>4, <3>1, <3>2 DEF CallsPaid
  <2>5. ASSUME NEW o \in Owners, CloseStep(o) PROVE PaidInv'
    BY <2>4, <2>5 DEF CloseStep, CloseScope, CloseRelease, CloseDone
  <2>6. ASSUME NEW p \in Processes, ProcessStep(p) PROVE PaidInv'
    BY <2>4, <2>6 DEF ProcessStep, ProcessDies, OpenScope, gateway
  <2>7. UNCHANGED gateway => PaidInv'
    BY <2>4 DEF gateway
  <2> QED
    BY <2>1, <2>3, <2>5, <2>6, <2>7 DEF GatewayNext, StoreStep, allvars
<1> QED
    BY <1>3, <1>4

\* Nothing runs at the start.
LEMMA PaidInit == GatewayInit => PaidInv
<1> SUFFICES ASSUME GatewayInit PROVE PaidInv
    OBVIOUS
<1>1. \A w \in Threads : thread[w].pc = "idle"
    BY DEF GatewayInit, Idle
<1>2. \A e \in Effects : effect[e].owner = NoRow /\ effect[e].attempts = 0 /\ ran = {}
    BY DEF GatewayInit, Unregistered
<1> QED
    BY <1>1, <1>2, CallsOwnInit
       DEF PaidInv, Ruled, OpeningOK, ConsumingOK, ResDisjoint, EffectPaid, At, GatewayInit, Init

\* begin_attempt fails closed, for any number of threads, effects, retries and
\* processes: an attempt under a class that always had a rule has a consumed unit
\* of its effect, whatever scope close, cancellation, death, reconciliation,
\* adjustment or prune came in between.
THEOREM AttemptsArePaid == GatewaySpec => []AttemptPaid
<1>1. PaidInv => AttemptPaid
    BY DEF PaidInv, EffectPaid, Paid, AttemptPaid
<1> QED
    BY <1>1, PaidInit, PaidStep, PTL DEF GatewaySpec

\* Where every door begins its attempt before it runs, what ran keeps its unit: no
\* retry, cancellation or scope close returns it. (A coverage door runs first.)
THEOREM TransportsAreCharged ==
    ASSUME "coverage" \notin Doors
    PROVE  GatewaySpec => []RanIsCharged
<1>1. PaidInv => RanIsCharged
    BY DEF PaidInv, EffectPaid, Paid, RanIsCharged, Charged, CallsOwn, CallsOK
<1> QED
    BY <1>1, PaidInit, PaidStep, PTL DEF GatewaySpec

-----------------------------------------------------------------------------
(* Attempts are counted.                                                   *)

\* A call whose attempt has begun, or never will.
Late == {"running", "ended", "releasing"}

Pending(e) == {w \in Threads : thread[w].effect = e /\ thread[w].pc \notin Late}

\* An effect has room for the attempts of the calls that still hope to begin one.
Counted(e) ==
    /\ effect[e].attempts + Cardinality(Pending(e)) <= MaxAttempts
    /\ effect[e].terminalAttempt <= MaxAttempts

AttemptOK(w) ==
    /\ thread[w].attempt <= MaxAttempts
    /\ thread[w].pc \notin Late => thread[w].attempt = 0
    /\ thread[w].pc \in {"running", "ended"} => thread[w].attempt > 0

CountInv ==
    /\ CallsOwn
    /\ \A e \in Effects : Counted(e)
    /\ \A w \in Threads : AttemptOK(w)
    /\ \A o \in Owners : Len(registry[o]) <= RegistryCap

\* What an effect's record says of its attempts, as long as nothing is evicted: each
\* reported one has its first terminal, and the latest terminal is that of the newest.
Untouched(e) ==
    /\ effect[e].attempts = 0 /\ effect[e].terminalAttempt = -1
    /\ \A n \in 1..MaxAttempts : reported[e][n] = "none"

Recorded(e) ==
    LET n == effect[e].attempts
    IN  /\ Registered(e)
        /\ effect[e].terminalAttempt <= n
        /\ \A k \in 1..MaxAttempts : k > n => reported[e][k] = "none"
        /\ n > 0 => IF effect[e].terminalAttempt = n
                    THEN effect[e].terminal = reported[e][n] /\ reported[e][n] # "none"
                    ELSE reported[e][n] = "none"

\* The attempts of the calls on e are e's own, each with one call, reported once it ends.
RunsOK(w, e) ==
    /\ At(w, "running") \/ At(w, "ended") => thread[w].attempt <= effect[e].attempts
    /\ At(w, "running") => reported[e][thread[w].attempt] = "none"
    /\ At(w, "ended") => reported[e][thread[w].attempt] # "none"
    /\ \A v \in Threads : v # w /\ thread[v].effect = e /\ At(v, "running") /\ At(w, "running")
                             => thread[v].attempt # thread[w].attempt

LatestOK(e) ==
    /\ effect[e].owner = NoRow => Untouched(e)
    /\ effect[e].owner # NoRow /\ Unevicted(e) =>
          Recorded(e) /\ \A w \in Threads : thread[w].effect = e => RunsOK(w, e)

LatestInv == CountInv /\ \A e \in Effects : LatestOK(e)

\* A call goes on but for the beginning of an attempt: it ends, or stays with its
\* effect and its attempt.
GoesOn(w) ==
    \/ thread'[w] = Idle
    \/ /\ thread'[w].effect = thread[w].effect
       /\ \/ thread'[w].attempt = thread[w].attempt
          \/ thread'[w].attempt = 0 /\ thread'[w].pc = "opening"
       /\ thread[w].pc \in Late => thread'[w].pc \in Late
       /\ thread'[w].pc # "running"
       /\ thread'[w].pc = "ended" => thread[w].pc \in {"running", "ended"}
       /\ thread'[w].pc = "releasing" => thread[w].pc \in {"authorized", "running", "releasing"}

\* Every step of a call but Authorize and BeginAttempt goes on in this sense.
LEMMA ContinueGoesOn ==
    ASSUME CallsOK, NEW w \in Threads, Continue(w), ~BeginAttempt(w),
           ~\E e \in Effects : Authorize(w, e)
    PROVE  GoesOn(w)
<1>1. PICK c \in CallRecord : c = thread[w]
    BY DEF CallsOK
<1>2. ASSUME Return(w) PROVE GoesOn(w)
    BY <1>2 DEF Return, GoesOn, CallsOK
<1>3. CASE RetryReserve(w)
  <2>1. PICK i \in CallRecord : i = Idle /\ i.attempt = 0
    BY IdleKnows DEF KnowsEnough, Idle
  <2>2. PICK x : x = [i EXCEPT !.pc = "opening", !.owner = c.owner, !.effect = c.effect, !.door = c.door]
                 /\ x.pc = "opening" /\ x.attempt = 0 /\ x.effect = c.effect /\ DOMAIN x = DOMAIN i
    <3>1. [i EXCEPT !.pc = "opening", !.owner = c.owner, !.effect = c.effect, !.door = c.door].pc = "opening"
          /\ [i EXCEPT !.pc = "opening", !.owner = c.owner, !.effect = c.effect, !.door = c.door].attempt = i.attempt
          /\ [i EXCEPT !.pc = "opening", !.owner = c.owner, !.effect = c.effect, !.door = c.door].effect = c.effect
          /\ DOMAIN [i EXCEPT !.pc = "opening", !.owner = c.owner, !.effect = c.effect, !.door = c.door] = DOMAIN i
      BY DEF CallRecord
    <3> QED
      BY <2>1, <3>1, Zenon
  <2>3. ASSUME NEW y, y.pc = "opening", y.attempt = 0, y.effect = c.effect,
               thread' = [thread EXCEPT ![w] = y]
        PROVE  GoesOn(w)
    BY <1>1, <1>3, <2>3 DEF GoesOn, CallsOK, RetryReserve, At, Late
  <2>4. ASSUME NEW S, thread' = [thread EXCEPT ![w] = [x EXCEPT !.res = S]]
        PROVE  GoesOn(w)
    <3>1. [x EXCEPT !.res = S].pc = "opening" /\ [x EXCEPT !.res = S].attempt = 0
          /\ [x EXCEPT !.res = S].effect = c.effect
      BY <2>1, <2>2 DEF CallRecord
    <3> QED
      BY <2>3, <2>4, <3>1
  <2>5. ASSUME NEW r, thread' = [thread EXCEPT ![w] =
                [[Idle EXCEPT !.pc = "opening", !.owner = c.owner, !.effect = c.effect,
                              !.door = c.door] EXCEPT !.res = {r}]]
        PROVE  GoesOn(w)
    BY <2>1, <2>2, <2>4, <2>5
  <2>6. ASSUME thread' = [thread EXCEPT ![w] =
                [Idle EXCEPT !.pc = "opening", !.owner = c.owner, !.effect = c.effect,
                             !.door = c.door]]
        PROVE  GoesOn(w)
    BY <2>1, <2>2, <2>3, <2>6
  <2> QED
    BY <1>1, <1>2, <1>3, <2>5, <2>6 DEF RetryReserve, ReserveFor
<1>4. ASSUME NEW y, thread' = [thread EXCEPT ![w] = y], y.effect = c.effect, y.attempt = c.attempt,
             c.pc \in Late => y.pc \in Late, y.pc # "running",
             y.pc = "ended" => c.pc \in {"running", "ended"},
             y.pc = "releasing" => c.pc \in {"authorized", "running", "releasing"}
      PROVE  GoesOn(w)
    BY <1>1, <1>4 DEF GoesOn, CallsOK
<1>5. ASSUME NEW p, Step(w, p), c.pc \in Late => p \in Late, p \in {"handled", "ended"},
             p = "ended" => c.pc \in {"running", "ended"}
      PROVE  GoesOn(w)
  <2>1. thread' = [thread EXCEPT ![w] = [c EXCEPT !.pc = p]]
    BY <1>1, <1>5 DEF Step, CallsOK
  <2>2. [c EXCEPT !.pc = p].pc = p /\ [c EXCEPT !.pc = p].attempt = c.attempt
        /\ [c EXCEPT !.pc = p].effect = c.effect
    BY DEF CallRecord
  <2> QED
    BY <1>4, <1>5, <2>1, <2>2
<1>6. CASE RunHandler(w)
    BY <1>1, <1>5, <1>6 DEF RunHandler, At, Late
<1>7. CASE \E l \in {"succeeded", "failed"} : RecordTerminal(w, l)
    BY <1>1, <1>5, <1>7 DEF RecordTerminal, At, Late
<1>8. CASE EndCall(w) \/ CancelDone(w)
    BY <1>2, <1>8 DEF EndCall, CancelDone
<1>9. ASSUME NEW p, NEW S, thread' = [thread EXCEPT ![w].pc = p, ![w].todo = S],
             c.pc \in Late => p \in Late, p \in {"consuming", "releasing"},
             p = "releasing" => c.pc \in {"authorized", "running", "releasing"}
      PROVE  GoesOn(w)
  <2>1. thread' = [thread EXCEPT ![w] = [c EXCEPT !.pc = p, !.todo = S]]
    BY <1>1, <1>9 DEF CallsOK
  <2>2. [c EXCEPT !.pc = p, !.todo = S].pc = p /\ [c EXCEPT !.pc = p, !.todo = S].attempt = c.attempt
        /\ [c EXCEPT !.pc = p, !.todo = S].effect = c.effect
    BY DEF CallRecord
  <2> QED
    BY <1>4, <1>9, <2>1, <2>2
<1>10. CASE BeginScan(w)
    BY <1>1, <1>2, <1>9, <1>10 DEF BeginScan, At, Late
<1>11. CASE Cancel(w)
    BY <1>1, <1>2, <1>9, <1>11 DEF Cancel, At, Late
<1>12. CASE ConsumeNext(w) \/ CancelRelease(w)
  <2>1. ASSUME NEW r, thread' = [thread EXCEPT ![w].todo = @ \ {r}], c.pc \in {"consuming", "releasing"}
        PROVE  GoesOn(w)
    <3>1. thread' = [thread EXCEPT ![w] = [c EXCEPT !.todo = c.todo \ {r}]]
      BY <1>1, <2>1 DEF CallsOK
    <3>2. [c EXCEPT !.todo = c.todo \ {r}].pc = c.pc /\ [c EXCEPT !.todo = c.todo \ {r}].attempt = c.attempt
          /\ [c EXCEPT !.todo = c.todo \ {r}].effect = c.effect
      BY DEF CallRecord
    <3> QED
      BY <1>4, <2>1, <3>1, <3>2
  <2> QED
    BY <1>1, <1>2, <1>12, <2>1 DEF ConsumeNext, CancelRelease, At
<1> QED
    BY <1>3, <1>6, <1>7, <1>8, <1>10, <1>11, <1>12 DEF Continue

-----------------------------------------------------------------------------
(* Every step keeps the count.                                             *)

CountsOK ==
    /\ \A e \in Effects : Counted(e)
    /\ \A w \in Threads : AttemptOK(w)
    /\ \A o \in Owners : Len(registry[o]) <= RegistryCap

\* The pending threads of an effect are finitely many, as Threads is.
LEMMA PendingFinite ==
    ASSUME NEW e PROVE IsFiniteSet(Pending(e)) /\ Cardinality(Pending(e)) \in Nat
<1>1. Pending(e) \in SUBSET Threads
    BY DEF Pending
<1> QED
    BY <1>1, GatewayAssumption, FS_Subset, FS_CardinalityType

\* ... and so they are after a step.
LEMMA PendingFinitePrime ==
    ASSUME NEW e \in Effects PROVE IsFiniteSet(Pending(e)') /\ Cardinality(Pending(e)') \in Nat
<1>1. Pending(e)' \in SUBSET Threads
    BY DEF Pending
<1> QED
    BY <1>1, GatewayAssumption, FS_Subset, FS_CardinalityType

\* An effect whose attempts and pending calls do not grow stays counted.
LEMMA CountFrame ==
    ASSUME CountInv, NEW e \in Effects, Pending(e)' \subseteq Pending(e),
           effect' \in [Effects -> EffectRecord],
           effect'[e].attempts <= effect[e].attempts, effect'[e].terminalAttempt <= MaxAttempts
    PROVE  Counted(e)'
<1>1. Cardinality(Pending(e)') <= Cardinality(Pending(e))
    BY PendingFinite, FS_Subset
<1>2. effect[e].attempts \in Nat /\ effect'[e].attempts \in Nat /\ MaxAttempts \in Nat
    BY GatewayAssumption DEF CountInv, CallsOwn, CallsOK, EffectRecord
<1>3. Cardinality(Pending(e)) \in Nat /\ Cardinality(Pending(e)') \in Nat
    BY PendingFinite, PendingFinitePrime
<1>4. effect[e].attempts + Cardinality(Pending(e)) <= MaxAttempts
    BY DEF CountInv, Counted
<1> QED
    BY <1>1, <1>2, <1>3, <1>4 DEF Counted

\* The step of a call that leaves the effects alone.
LEMMA CountRests ==
    ASSUME CountInv, CallsKept, UNCHANGED effect,
           \A v \in Threads : thread'[v] = thread[v] \/ GoesOn(v)
    PROVE  (\A e \in Effects : Counted(e)') /\ \A v \in Threads : AttemptOK(v)'
<1>0. CallsOwn' /\ CallsOK /\ CallsOK'
    BY DEF CallsKept, CountInv, CallsOwn
<1>1. ASSUME NEW e \in Effects PROVE Pending(e)' \subseteq Pending(e)
  <2>1. e # NoEffect
    BY SentinelAssumption
  <2> QED
    BY <2>1 DEF Pending, GoesOn, Idle
<1>2. ASSUME NEW e \in Effects PROVE Counted(e)'
  <2>1. effect'[e].attempts <= effect[e].attempts /\ effect'[e].terminalAttempt <= MaxAttempts
    BY <1>0 DEF CountInv, Counted, CallsOK, EffectRecord
  <2> QED
    BY <1>0, <1>1, <2>1, CountFrame DEF CallsOK
<1>3. ASSUME NEW v \in Threads PROVE AttemptOK(v)'
  <2>1. AttemptOK(v) /\ MaxAttempts \in Nat /\ thread[v].attempt \in Nat /\ thread[v] \in CallRecord
    BY <1>0, GatewayAssumption DEF CountInv, CallsOK, CallRecord
  <2>2. CASE thread'[v] = thread[v]
    BY <2>1, <2>2 DEF AttemptOK
  <2>3. CASE GoesOn(v)
    BY <2>1, <2>3 DEF AttemptOK, GoesOn, Idle, Late
  <2> QED
    BY <2>2, <2>3
<1> QED
    BY <1>2, <1>3

\* A call that opens, or hopes to begin one attempt more.
LEMMA CountCall ==
    ASSUME CountInv, CallsKept, NEW w \in Threads, Call(w)
    PROVE  CountsOK'
<1>0. CallsOwn' /\ CallsOwn /\ CallsOK /\ CallsOK' /\ UNCHANGED <<registry, effect>>
    BY CallBegins DEF CallsKept, CountInv, CallsOwn
<1>1. PICK i \in CallRecord : i = Idle /\ i.attempt = 0 /\ i.pc = "idle" /\ i.effect = NoEffect
    BY IdleKnows DEF KnowsEnough, Idle
<1>2. \A o \in Owners : Len(registry'[o]) <= RegistryCap
    BY <1>0 DEF CountInv
<1>3. ASSUME NEW y, thread' = [thread EXCEPT ![w] = y], y.attempt = 0, y.pc \notin Late,
             NEW e \in Effects \cup {NoEffect}, y.effect = e,
             e # NoEffect => AttemptsLeft(e), thread[w].effect = NoEffect
      PROVE  CountsOK'
  <2>1. thread'[w] = y /\ \A v \in Threads : v # w => thread'[v] = thread[v]
    BY <1>0, <1>3 DEF CallsOK
  <2>2. ASSUME NEW v \in Threads PROVE AttemptOK(v)'
    <3>1. AttemptOK(v) /\ 0 <= MaxAttempts
      BY GatewayAssumption DEF CountInv
    <3> QED
      BY <1>3, <2>1, <3>1 DEF AttemptOK, Late
  <2>3. ASSUME NEW f \in Effects PROVE Counted(f)'
    <3>0. effect'[f].attempts <= effect[f].attempts /\ effect'[f].terminalAttempt <= MaxAttempts
      BY <1>0 DEF CountInv, Counted, CallsOK, EffectRecord
    <3>1. CASE f # e
      <4>1. Pending(f)' \subseteq Pending(f)
        BY <1>3, <2>1, <3>1 DEF Pending
      <4> QED
        BY <1>0, <3>0, <4>1, CountFrame DEF CallsOK
    <3>2. CASE f = e
      <4>1. Pending(f)' = Pending(f) \cup {w} /\ w \notin Pending(f)
        BY <1>3, <2>1, <3>2, SentinelAssumption DEF Pending, Late
      <4>2. Cardinality(Pending(f)') = Cardinality(Pending(f)) + 1
        BY <4>1, PendingFinite, FS_AddElement
      <4>3. AttemptsLeft(f)
        BY <1>3, <3>2, SentinelAssumption
      <4>4. effect[f].attempts + Cardinality(Pending(f)) < MaxAttempts
        BY <4>3 DEF AttemptsLeft, Pending, Late
      <4>5. effect[f].attempts \in Nat /\ Cardinality(Pending(f)) \in Nat /\ MaxAttempts \in Nat
        BY <1>0, PendingFinite, GatewayAssumption DEF CallsOK, EffectRecord
      <4> QED
        BY <1>0, <3>0, <4>2, <4>4, <4>5 DEF Counted
    <3> QED
      BY <3>1, <3>2
  <2> QED
    BY <1>2, <2>2, <2>3 DEF CountsOK
<1>4. ASSUME NEW o \in Owners, NEW d \in Doors, OpenEffect(w, o, d) PROVE CountsOK'
  <2>0. thread[w].effect = NoEffect
    BY <1>0, <1>4 DEF OpenEffect, CallsOK, CallOK
  <2>1. /\ [i EXCEPT !.pc = "opening", !.owner = o, !.effect = NoEffect, !.door = d].pc = "opening"
        /\ [i EXCEPT !.pc = "opening", !.owner = o, !.effect = NoEffect, !.door = d].attempt = 0
        /\ [i EXCEPT !.pc = "opening", !.owner = o, !.effect = NoEffect, !.door = d].effect = NoEffect
    BY <1>1 DEF CallRecord
  <2>2. ASSUME NEW S
        PROVE
        /\ [[i EXCEPT !.pc = "opening", !.owner = o, !.effect = NoEffect, !.door = d] EXCEPT !.res = S].pc
             = "opening"
        /\ [[i EXCEPT !.pc = "opening", !.owner = o, !.effect = NoEffect, !.door = d] EXCEPT !.res = S].attempt
             = 0
        /\ [[i EXCEPT !.pc = "opening", !.owner = o, !.effect = NoEffect, !.door = d] EXCEPT !.res = S].effect
             = NoEffect
    BY <1>1 DEF CallRecord
  <2>3. ASSUME thread' = [thread EXCEPT ![w] =
                [Idle EXCEPT !.pc = "opening", !.owner = o, !.effect = NoEffect, !.door = d]]
        PROVE  CountsOK'
    BY <1>1, <1>3, <2>0, <2>1, <2>3 DEF Late
  <2>4. ASSUME NEW r, thread' = [thread EXCEPT ![w] =
                [[Idle EXCEPT !.pc = "opening", !.owner = o, !.effect = NoEffect, !.door = d]
                    EXCEPT !.res = {r}]]
        PROVE  CountsOK'
    BY <1>1, <1>3, <2>0, <2>2, <2>4 DEF Late
  <2>5. Return(w) => CountsOK'
    BY <1>1, <1>3, <2>0 DEF Return, Late
  <2> QED
    BY <1>4, <2>3, <2>4, <2>5 DEF OpenEffect, ReserveFor
<1>5. ASSUME NEW e \in Effects, NEW d \in Doors, RetryEffect(w, e, d) PROVE CountsOK'
  <2>0. thread[w].effect = NoEffect /\ AttemptsLeft(e)
    BY <1>0, <1>5 DEF RetryEffect, CallsOK, CallOK
  <2>1. PICK place \in {"opening", "retrying"} : thread' = [thread EXCEPT ![w] =
            [i EXCEPT !.pc = place, !.owner = effect[e].owner, !.effect = e, !.door = d]]
    BY <1>1, <1>5 DEF RetryEffect
  <2>2. /\ [i EXCEPT !.pc = place, !.owner = effect[e].owner, !.effect = e, !.door = d].pc = place
        /\ [i EXCEPT !.pc = place, !.owner = effect[e].owner, !.effect = e, !.door = d].attempt = 0
        /\ [i EXCEPT !.pc = place, !.owner = effect[e].owner, !.effect = e, !.door = d].effect = e
    BY <1>1 DEF CallRecord
  <2> QED
    BY <1>3, <2>0, <2>1, <2>2 DEF Late
<1> QED
    BY <1>4, <1>5 DEF Call

-----------------------------------------------------------------------------
(* The gateway keeps its types.                                            *)

\* A retry registered anew starts from no attempt; a new effect has one call.
LEMMA CountAuthorize ==
    ASSUME CountInv, CallsKept, NEW w \in Threads, NEW e \in Effects, Authorize(w, e)
    PROVE  CountsOK'
<1>0. CallsOwn' /\ CallsOwn /\ CallsOK /\ CallsOK'
    BY DEF CallsKept, CountInv, CallsOwn
<1>1. PICK c \in CallRecord : c = thread[w]
    BY <1>0 DEF CallsOK
<1>2. /\ thread'[w] = [c EXCEPT !.pc = "authorized", !.effect = e]
      /\ \A v \in Threads : v # w => thread'[v] = thread[v]
      /\ c.pc = "opening"
    BY <1>0, <1>1 DEF Authorize, CallsOK, At
<1>3. thread'[w].pc = "authorized" /\ thread'[w].effect = e /\ thread'[w].attempt = c.attempt
    BY <1>2 DEF CallRecord
<1>4. /\ \A f \in Effects : f # e => effect'[f] = effect[f]
      /\ c.owner \in Owners
    BY <1>0, <1>1, AuthorizeKeeps DEF CallsOwn, OwnsEffect
<1>5. ASSUME NEW v \in Threads PROVE AttemptOK(v)'
  <2>1. AttemptOK(v)
    BY DEF CountInv
  <2> QED
    BY <1>1, <1>2, <1>3, <2>1 DEF AttemptOK, Late
<1>6. ASSUME NEW f \in Effects, f # e PROVE Counted(f)'
  <2>1. Pending(f)' \subseteq Pending(f)
    BY <1>2, <1>3, <1>6 DEF Pending
  <2>2. effect'[f].attempts <= effect[f].attempts /\ effect'[f].terminalAttempt <= MaxAttempts
    BY <1>0, <1>4, <1>6 DEF CountInv, Counted, CallsOK, EffectRecord
  <2> QED
    BY <1>0, <2>1, <2>2, CountFrame DEF CallsOK
<1>7. Counted(e)'
  <2>1. \/ UNCHANGED effect
        \/ effect'[e].attempts = 0 /\ effect'[e].terminalAttempt = -1
    <3>1. Unregistered \in EffectRecord /\ Unregistered.attempts = 0
          /\ Unregistered.terminalAttempt = -1
      BY DEF EffectRecord, Unregistered
    <3>2. [Unregistered EXCEPT !.owner = thread[w].owner].attempts = 0
          /\ [Unregistered EXCEPT !.owner = thread[w].owner].terminalAttempt = -1
      BY <3>1 DEF EffectRecord
    <3> QED
      BY <1>0, <3>1, <3>2 DEF Authorize, CallsOK
  <2>2. effect'[e].attempts <= effect[e].attempts /\ effect'[e].terminalAttempt <= MaxAttempts
    <3>1. effect[e].attempts \in Nat /\ effect[e].terminalAttempt <= MaxAttempts
          /\ MaxAttempts \in Nat
      BY <1>0, GatewayAssumption DEF CountInv, Counted, CallsOK, EffectRecord
    <3> QED
      BY <2>1, <3>1
  <2>3. CASE c.effect # NoEffect
    <3>1. c.effect = e
      BY <1>1, <2>3 DEF Authorize
    <3>2. Pending(e)' \subseteq Pending(e)
      BY <1>1, <1>2, <1>3, <3>1 DEF Pending, Late
    <3> QED
      BY <1>0, <2>2, <3>2, CountFrame DEF CallsOK
  <2>4. CASE c.effect = NoEffect
    <3>1. Fresh(e)
      BY <1>1, <2>4 DEF Authorize
    <3>2. Pending(e)' = {w}
      BY <1>2, <1>3, <3>1 DEF Pending, Late, Fresh
    <3>3. Cardinality(Pending(e)') = 1
      BY <3>2, FS_Singleton
    <3>4. effect'[e].attempts = 0
      BY <2>1, <3>1 DEF Fresh, Unregistered
    <3> QED
      BY <2>2, <3>3, <3>4, GatewayAssumption DEF Counted
  <2> QED
    BY <2>3, <2>4
<1>8. ASSUME NEW o \in Owners PROVE Len(registry'[o]) <= RegistryCap
  <2>1. Len(registry[o]) <= RegistryCap /\ Len(registry[o]) \in Nat /\ RegistryCap \in Nat
    BY <1>0, GatewayAssumption, LenProperties DEF CountInv, CallsOK
  <2>2. CASE UNCHANGED registry
    BY <2>1, <2>2
  <2>3. CASE RegisterIn(c.owner, e)
    <3>1. CASE o # c.owner
      BY <1>0, <1>4, <2>1, <2>3, <3>1, Registration
    <3>2. CASE o = c.owner /\ Len(registry[o]) < RegistryCap
      <4>1. registry'[o] = Append(registry[o], e)
        BY <1>0, <1>4, <2>3, <3>2, Registration
      <4>2. Len(registry'[o]) = Len(registry[o]) + 1
        BY <1>0, <4>1, AppendProperties DEF CallsOK
      <4> QED
        BY <2>1, <3>2, <4>2
    <3>3. CASE o = c.owner /\ Len(registry[o]) >= RegistryCap
      BY <1>0, <1>4, <2>1, <2>3, <3>3, Registration
    <3> QED
      BY <2>1, <3>1, <3>2, <3>3
  <2> QED
    BY <1>1, <2>2, <2>3 DEF Authorize
<1> QED
    BY <1>5, <1>6, <1>7, <1>8 DEF CountsOK

\* The step that begins an attempt, for the effect and the call.
LEMMA AttemptBegins ==
    ASSUME CallsOK, NEW w \in Threads, BeginAttempt(w), Registered(thread[w].effect)
    PROVE  /\ thread[w].effect \in Effects /\ thread[w].pc = "consuming"
           /\ effect' = [effect EXCEPT ![thread[w].effect].attempts =
                            effect[thread[w].effect].attempts + 1]
           /\ effect'[thread[w].effect].attempts = effect[thread[w].effect].attempts + 1
           /\ effect'[thread[w].effect].terminalAttempt = effect[thread[w].effect].terminalAttempt
           /\ effect'[thread[w].effect].terminal = effect[thread[w].effect].terminal
           /\ effect'[thread[w].effect].owner = effect[thread[w].effect].owner
           /\ \A f \in Effects : f # thread[w].effect => effect'[f] = effect[f]
           /\ \A v \in Threads : v # w => thread'[v] = thread[v]
           /\ thread'[w].pc = "running" /\ thread'[w].effect = thread[w].effect
           /\ thread'[w].attempt = effect[thread[w].effect].attempts + 1
           /\ UNCHANGED <<registry, reported>>
<1>1. PICK c \in CallRecord : c = thread[w]
    BY DEF CallsOK
<1>2. c.effect \in Effects /\ c.pc = "consuming"
    BY <1>1 DEF BeginAttempt, CallsOK, CallOK, At
<1>3. PICK x \in EffectRecord : x = effect[c.effect]
    BY <1>2 DEF CallsOK
<1>4. effect' = [effect EXCEPT ![c.effect] = [x EXCEPT !.attempts = x.attempts + 1]]
    BY <1>1, <1>2, <1>3 DEF BeginAttempt, CallsOK
<1>5. /\ [x EXCEPT !.attempts = x.attempts + 1].attempts = x.attempts + 1
      /\ [x EXCEPT !.attempts = x.attempts + 1].terminalAttempt = x.terminalAttempt
      /\ [x EXCEPT !.attempts = x.attempts + 1].terminal = x.terminal
      /\ [x EXCEPT !.attempts = x.attempts + 1].owner = x.owner
    BY DEF EffectRecord
<1>6. thread' = [thread EXCEPT ![w] = [c EXCEPT !.pc = "running", !.attempt = x.attempts + 1]]
    BY <1>1, <1>3 DEF BeginAttempt, CallsOK
<1>7. /\ [c EXCEPT !.pc = "running", !.attempt = x.attempts + 1].pc = "running"
      /\ [c EXCEPT !.pc = "running", !.attempt = x.attempts + 1].attempt = x.attempts + 1
      /\ [c EXCEPT !.pc = "running", !.attempt = x.attempts + 1].effect = c.effect
    BY DEF CallRecord
<1>8. /\ thread'[w] = [c EXCEPT !.pc = "running", !.attempt = x.attempts + 1]
      /\ \A v \in Threads : v # w => thread'[v] = thread[v]
    BY <1>6 DEF CallsOK
<1>9. /\ effect'[c.effect] = [x EXCEPT !.attempts = x.attempts + 1]
      /\ \A f \in Effects : f # c.effect => effect'[f] = effect[f]
    BY <1>2, <1>4 DEF CallsOK
<1>10. UNCHANGED <<registry, reported>>
    BY DEF BeginAttempt
<1>11. effect' = [effect EXCEPT ![thread[w].effect].attempts =
                            effect[thread[w].effect].attempts + 1]
    BY DEF BeginAttempt, CallsOK
<1> QED
    BY <1>1, <1>2, <1>3, <1>5, <1>7, <1>8, <1>9, <1>10, <1>11

-----------------------------------------------------------------------------
(* The count, step by step.                                                *)

\* What a terminal does to the attempt it ends.
LEMMA TerminalRecords ==
    ASSUME CallsOK, NEW e \in Effects, NEW n \in Nat, NEW l \in Terminals,
           TerminalTransition(e, n, l)
    PROVE  /\ \A f \in Effects : f # e => effect'[f] = effect[f]
           /\ \/ n <= effect[e].terminalAttempt /\ UNCHANGED effect
              \/ /\ ~(n <= effect[e].terminalAttempt)
                 /\ effect'[e].terminalAttempt = n /\ effect'[e].terminal = l
<1>1. PICK x \in EffectRecord : x = effect[e]
    BY DEF CallsOK
<1>2. [x EXCEPT !.terminalAttempt = n, !.terminal = l].terminalAttempt = n
      /\ [x EXCEPT !.terminalAttempt = n, !.terminal = l].terminal = l
    BY DEF EffectRecord
<1>3. CASE n <= effect[e].terminalAttempt
    BY <1>3 DEF TerminalTransition
<1>4. CASE ~(n <= effect[e].terminalAttempt)
  <2>1. effect' = [effect EXCEPT ![e] = [x EXCEPT !.terminalAttempt = n, !.terminal = l]]
    BY <1>1, <1>4 DEF TerminalTransition, CallsOK
  <2> QED
    BY <1>2, <1>4, <2>1 DEF CallsOK
<1> QED
    BY <1>3, <1>4

\* A terminal is that of an attempt that began.
LEMMA CountTerminal ==
    ASSUME CountInv, CallsKept, NEW w \in Threads, GoesOn(w), SameCall(w),
           NEW l \in Terminals, UNCHANGED registry,
           \/ UNCHANGED effect
           \/ /\ thread[w].effect \in Effects
              /\ TerminalTransition(thread[w].effect, thread[w].attempt, l)
    PROVE  CountsOK'
<1>0. CallsOwn' /\ CallsOwn /\ CallsOK /\ CallsOK'
    BY DEF CallsKept, CountInv, CallsOwn
<1>1. PICK c \in CallRecord : c = thread[w] /\ c.attempt \in Nat /\ c.attempt <= MaxAttempts
    BY <1>0 DEF CallsOK, CallRecord, CountInv, AttemptOK
<1>2. \A v \in Threads : thread'[v] = thread[v] \/ GoesOn(v)
    BY DEF SameCall
<1>3. ASSUME NEW e \in Effects PROVE Pending(e)' \subseteq Pending(e)
    BY <1>2, SentinelAssumption DEF Pending, GoesOn, Idle
<1>4. ASSUME NEW e \in Effects
      PROVE  effect'[e].attempts <= effect[e].attempts /\ effect'[e].terminalAttempt <= MaxAttempts
  <2>1. effect[e].attempts \in Nat /\ effect[e].terminalAttempt <= MaxAttempts
    BY <1>0 DEF CountInv, Counted, CallsOK, EffectRecord
  <2>2. CASE UNCHANGED effect
    BY <2>1, <2>2
  <2>3. CASE c.effect \in Effects /\ TerminalTransition(c.effect, c.attempt, l)
    <3>1. /\ effect'[e].attempts = effect[e].attempts
          /\ effect'[e].terminalAttempt \in {effect[e].terminalAttempt, c.attempt}
      BY <1>0, <1>1, <2>3, TerminalKeeps, TerminalRecords
    <3> QED
      BY <1>1, <2>1, <3>1
  <2> QED
    BY <1>1, <2>2, <2>3
<1>5. \A e \in Effects : Counted(e)'
    BY <1>0, <1>3, <1>4, CountFrame DEF CallsOK
<1>6. ASSUME NEW v \in Threads PROVE AttemptOK(v)'
  <2>1. AttemptOK(v) /\ MaxAttempts \in Nat /\ thread[v].attempt \in Nat /\ thread[v] \in CallRecord
    BY <1>0, GatewayAssumption DEF CountInv, CallsOK, CallRecord
  <2>2. CASE thread'[v] = thread[v]
    BY <2>1, <2>2 DEF AttemptOK
  <2>3. CASE GoesOn(v)
    BY <2>1, <2>3 DEF AttemptOK, GoesOn, Idle, Late
  <2> QED
    BY <1>2, <2>2, <2>3
<1>7. \A o \in Owners : Len(registry'[o]) <= RegistryCap
    BY DEF CountInv
<1> QED
    BY <1>5, <1>6, <1>7 DEF CountsOK

\* A pending call makes the attempt it had room for.
LEMMA CountAttempt ==
    ASSUME CountInv, CallsKept, NEW w \in Threads, BeginAttempt(w), Registered(thread[w].effect)
    PROVE  CountsOK'
<1>0. CallsOwn' /\ CallsOwn /\ CallsOK /\ CallsOK'
    BY DEF CallsKept, CountInv, CallsOwn
<1>1. PICK e \in Effects : e = thread[w].effect
    BY <1>0, AttemptBegins
<1>2. /\ effect'[e].attempts = effect[e].attempts + 1
      /\ effect'[e].terminalAttempt = effect[e].terminalAttempt
      /\ \A f \in Effects : f # e => effect'[f] = effect[f]
      /\ \A v \in Threads : v # w => thread'[v] = thread[v]
      /\ thread[w].pc = "consuming"
      /\ thread'[w].pc = "running" /\ thread'[w].effect = e
      /\ thread'[w].attempt = effect[e].attempts + 1
      /\ UNCHANGED registry
    BY <1>0, <1>1, AttemptBegins
<1>3. w \in Pending(e) /\ Pending(e)' = Pending(e) \ {w}
    BY <1>1, <1>2 DEF Pending, Late
<1>4. Cardinality(Pending(e)') = Cardinality(Pending(e)) - 1
    BY <1>3, PendingFinite, FS_RemoveElement
<1>5. /\ effect[e].attempts \in Nat /\ Cardinality(Pending(e)) \in Nat /\ MaxAttempts \in Nat
      /\ Cardinality(Pending(e)') \in Nat
    BY <1>0, PendingFinite, PendingFinitePrime, GatewayAssumption DEF CallsOK, EffectRecord
<1>6. Counted(e)
    BY DEF CountInv
<1>7. Counted(e)' /\ effect[e].attempts + 1 <= MaxAttempts
    BY <1>2, <1>4, <1>5, <1>6 DEF Counted
<1>8. ASSUME NEW f \in Effects, f # e PROVE Counted(f)'
  <2>1. Pending(f)' \subseteq Pending(f)
    BY <1>2, <1>8 DEF Pending
  <2>2. effect'[f].attempts <= effect[f].attempts /\ effect'[f].terminalAttempt <= MaxAttempts
    BY <1>0, <1>2, <1>8 DEF CountInv, Counted, CallsOK, EffectRecord
  <2> QED
    BY <1>0, <2>1, <2>2, CountFrame DEF CallsOK
<1>9. ASSUME NEW v \in Threads PROVE AttemptOK(v)'
  <2>1. AttemptOK(v)
    BY DEF CountInv
  <2> QED
    BY <1>2, <1>5, <1>7, <2>1 DEF AttemptOK, Late
<1>10. \A o \in Owners : Len(registry'[o]) <= RegistryCap
    BY <1>2 DEF CountInv
<1> QED
    BY <1>7, <1>8, <1>9, <1>10 DEF CountsOK

\* Every step keeps the count of attempts.
LEMMA CountStep == CountInv /\ [GatewayNext]_allvars => CountInv'
<1> SUFFICES ASSUME CountInv, [GatewayNext]_allvars PROVE CountInv'
    OBVIOUS
<1>0. CallsOwn' /\ CallsOwn /\ CallsOK /\ CallsKept
    BY CallsStep DEF CallsKept, CountInv, CallsOwn
<1>1. ASSUME CountsOK' PROVE CountInv'
    BY <1>0, <1>1 DEF CountInv, CountsOK
<1>2. ASSUME NEW w \in Threads, Call(w) PROVE CountInv'
    BY <1>0, <1>1, <1>2, CountCall
<1>3. ASSUME UNCHANGED <<registry, effect>>, \A v \in Threads : thread'[v] = thread[v] \/ GoesOn(v)
      PROVE  CountInv'
    BY <1>0, <1>1, <1>3, CountRests DEF CountsOK, CountInv
<1>4. ASSUME NEW w \in Threads, Continue(w) PROVE CountInv'
  <2>0. SameCall(w)
    BY <1>0, <1>4, ContinueSame
  <2>1. CASE \E e \in Effects : Authorize(w, e)
    BY <1>0, <1>1, <2>1, CountAuthorize
  <2>2. CASE BeginAttempt(w) /\ Registered(thread[w].effect)
    BY <1>0, <1>1, <2>2, CountAttempt
  <2>3. CASE BeginAttempt(w) /\ ~Registered(thread[w].effect)
    <3>1. thread' = [thread EXCEPT ![w] = Idle] /\ UNCHANGED <<registry, effect>>
      BY <2>3 DEF BeginAttempt, Return
    <3> QED
      BY <1>0, <1>3, <3>1 DEF GoesOn, CallsOK
  <2>4. CASE ~BeginAttempt(w) /\ ~\E e \in Effects : Authorize(w, e)
    <3>0. GoesOn(w)
      BY <1>0, <1>4, <2>4, ContinueGoesOn
    <3>1. PICK c \in CallRecord : c = thread[w]
      BY <1>0 DEF CallsOK
    <3>2. c.pc \notin {"idle", "opening"} => c.effect \in Effects
      BY <1>0, <3>1 DEF CallsOK, CallOK
    <3>3. CASE Cancel(w)
      <4>1. /\ UNCHANGED registry /\ "cancelled" \in Terminals
            /\ \/ UNCHANGED effect
               \/ thread[w].effect \in Effects /\ TerminalTransition(thread[w].effect, thread[w].attempt, "cancelled")
        BY <3>1, <3>2, <3>3 DEF Cancel, At, Terminals
      <4> QED
        BY <1>0, <1>1, <2>0, <3>0, <4>1, CountTerminal
    <3>4. ASSUME NEW l \in {"succeeded", "failed"}, RecordTerminal(w, l) PROVE CountInv'
      <4>1. /\ UNCHANGED registry /\ l \in Terminals
            /\ \/ UNCHANGED effect
               \/ thread[w].effect \in Effects /\ TerminalTransition(thread[w].effect, thread[w].attempt, l)
        BY <3>1, <3>2, <3>4 DEF RecordTerminal, At, Terminals
      <4> QED
        BY <1>0, <1>1, <2>0, <3>0, <4>1, CountTerminal
    <3>5. ASSUME UNCHANGED <<registry, effect>> PROVE CountInv'
      BY <1>3, <2>0, <3>0, <3>5 DEF SameCall
    <3>6. RetryReserve(w) \/ RunHandler(w) \/ BeginScan(w) \/ ConsumeNext(w) \/ EndCall(w)
          \/ CancelRelease(w) \/ CancelDone(w) => UNCHANGED <<registry, effect>>
      BY DEF RetryReserve, RunHandler, BeginScan, ConsumeNext, EndCall, CancelRelease, CancelDone
    <3> QED
      BY <1>4, <2>4, <3>3, <3>4, <3>5, <3>6 DEF Continue
  <2> QED
    BY <2>1, <2>2, <2>3, <2>4
<1>5. ASSUME NEW o \in Owners, CloseStep(o) PROVE CountInv'
    BY <1>3, <1>5 DEF CloseStep, CloseScope, CloseRelease, CloseDone
<1>6. ASSUME NEW p \in Processes, ProcessStep(p) PROVE CountInv'
    BY <1>3, <1>6 DEF ProcessStep, ProcessDies, OpenScope, gateway, GoesOn
<1>7. UNCHANGED gateway => CountInv'
    BY <1>3 DEF gateway
<1> QED
    BY <1>2, <1>4, <1>5, <1>6, <1>7 DEF GatewayNext, StoreStep, allvars

\* Nothing is attempted at the start.
LEMMA CountInit == GatewayInit => CountInv
<1> SUFFICES ASSUME GatewayInit PROVE CountInv
    OBVIOUS
<1>1. MaxAttempts \in Nat /\ RegistryCap \in Nat
    BY GatewayAssumption
<1>2. ASSUME NEW e \in Effects PROVE Counted(e)
  <2>1. Pending(e) = {}
    BY SentinelAssumption DEF GatewayInit, Pending, Idle
  <2>2. Cardinality(Pending(e)) = 0
    BY <2>1, FS_EmptySet
  <2>3. effect[e].attempts = 0 /\ effect[e].terminalAttempt = -1
    BY DEF GatewayInit, Unregistered
  <2> QED
    BY <1>1, <2>2, <2>3 DEF Counted
<1>3. \A w \in Threads : AttemptOK(w)
    BY <1>1 DEF GatewayInit, AttemptOK, Idle, Late
<1>4. \A o \in Owners : Len(registry[o]) <= RegistryCap
    BY <1>1 DEF GatewayInit
<1> QED
    BY <1>2, <1>3, <1>4, CallsOwnInit DEF CountInv

\* The gateway's state keeps its shape: no registry above its ceiling (RegistryCap), no
\* attempt beyond those that callers may make, whatever is evicted and retried.
THEOREM GatewayTyping == GatewaySpec => []GatewayTypeOK
<1>1. CountInv => GatewayTypeOK
  <2> SUFFICES ASSUME CountInv PROVE GatewayTypeOK
      OBVIOUS
  <2>0. CallsOK /\ MaxAttempts \in Nat
    BY GatewayAssumption DEF CountInv, CallsOwn
  <2>1. ASSUME NEW o \in Owners
        PROVE  /\ ledger[o].state \in {"unopened", "open", "closing", "closed"}
               /\ closing[o] \subseteq ReservationIds
               /\ registry[o] \in Seq(Effects) /\ Len(registry[o]) <= RegistryCap
    BY <2>0 DEF CountInv, CallsOK, OpenedLedger
  <2>2. ASSUME NEW e \in Effects
        PROVE  /\ effect[e].attempts \in 0..MaxAttempts
               /\ effect[e].terminalAttempt \in -1..MaxAttempts
               /\ effect[e].terminal \in Terminals \cup {"none"}
    <3>1. effect[e] \in EffectRecord /\ Cardinality(Pending(e)) \in Nat /\ Counted(e)
      BY <2>0, PendingFinite DEF CallsOK, CountInv
    <3>2. effect[e].attempts \in Nat /\ effect[e].terminalAttempt \in Nat \cup {-1}
          /\ effect[e].terminal \in Terminals \cup {"none"}
      BY <3>1 DEF EffectRecord
    <3> QED
      BY <2>0, <3>1, <3>2 DEF Counted
  <2>3. ASSUME NEW w \in Threads
        PROVE  thread[w].todo \subseteq ReservationIds /\ thread[w].attempt \in 0..MaxAttempts
    BY <2>0 DEF CountInv, AttemptOK, CallsOK, CallRecord
  <2> QED
    BY <2>1, <2>2, <2>3 DEF GatewayTypeOK
<1> QED
    BY <1>1, CountInit, CountStep, PTL DEF GatewaySpec

-----------------------------------------------------------------------------
(* The answer is about the latest attempt.                                 *)

\* An effect nobody touches, and no new attempt of it, keeps its account.
LEMMA LatestFrame ==
    ASSUME LatestInv, CallsKept, NEW e \in Effects, effect'[e] = effect[e], reported'[e] = reported[e],
           effect[e].owner # NoRow => registry'[effect[e].owner] = registry[effect[e].owner],
           \A v \in Threads : \/ thread'[v] = thread[v] \/ thread'[v].effect # e
                              \/ thread'[v].pc \notin {"running", "ended"}
    PROVE  LatestOK(e)'
<1>1. LatestOK(e)
    BY DEF LatestInv
<1>2. ASSUME effect[e].owner = NoRow PROVE LatestOK(e)'
    BY <1>1, <1>2 DEF LatestOK, Untouched
<1>3. ASSUME effect[e].owner # NoRow, ~Unevicted(e) PROVE LatestOK(e)'
    BY <1>3 DEF LatestOK, Unevicted
<1>4. ASSUME effect[e].owner # NoRow, Unevicted(e) PROVE LatestOK(e)'
  <2>1. Recorded(e) /\ \A w \in Threads : thread[w].effect = e => RunsOK(w, e)
    BY <1>1, <1>4 DEF LatestOK
  <2>2. Recorded(e)'
    BY <1>4, <2>1 DEF Recorded, Registered
  <2>3. ASSUME NEW w \in Threads, thread'[w].effect = e PROVE RunsOK(w, e)'
    BY <2>1, <2>3 DEF RunsOK, At
  <2> QED
    BY <1>4, <2>2, <2>3 DEF LatestOK
<1> QED
    BY <1>2, <1>3, <1>4

\* A terminal, of the latest attempt or of an older one, the first or the second of it.
LEMMA LatestTerminal ==
    ASSUME LatestInv, CallsKept, NEW w \in Threads, NEW e \in Effects, thread[w].effect = e,
           NEW n \in Nat, n = thread[w].attempt, NEW l \in Terminals, UNCHANGED registry,
           Registered(e) => TerminalTransition(e, n, l), ~Registered(e) => UNCHANGED effect,
           reported' = IF At(w, "running") THEN [reported EXCEPT ![e][n] = l] ELSE reported,
           thread[w].pc \in {"authorized", "running", "ended"},
           \A v \in Threads : v # w => thread'[v] = thread[v],
           \/ thread'[w].pc \notin {"running", "ended"}
           \/ /\ thread'[w].pc = "ended" /\ thread'[w].attempt = n
              /\ thread[w].pc \in {"running", "ended"}
    PROVE  LatestOK(e)'
<1>0. CallsOK /\ CallsOwn
    BY DEF LatestInv, CountInv, CallsOwn
<1>1. effect[e].owner # NoRow /\ effect'[e].owner = effect[e].owner
  <2>1. effect[e].owner = thread[w].owner /\ thread[w].owner \in Owners
    BY <1>0, SentinelAssumption DEF CallsOwn, OwnsEffect, CallsOK, CallOK, At, Opened
  <2> QED
    BY <2>1, GatewayAssumption DEF CallsKept, OwnersKept
<1>2. Unevicted(e)' <=> Unevicted(e)
    BY <1>1 DEF Unevicted
<1> SUFFICES ASSUME Unevicted(e)
             PROVE  Recorded(e)' /\ \A v \in Threads : thread'[v].effect = e => RunsOK(v, e)'
    BY <1>1, <1>2 DEF LatestOK
<1>3. Recorded(e) /\ \A v \in Threads : thread[v].effect = e => RunsOK(v, e)
    BY <1>1 DEF LatestInv, LatestOK
<1>4. TerminalTransition(e, n, l) /\ Registered(e)
    BY <1>3 DEF Recorded
<1>5. PICK N \in Nat : N = effect[e].attempts
    BY <1>0 DEF CallsOK, EffectRecord
<1>6. PICK last \in Nat \cup {-1} : last = effect[e].terminalAttempt
    BY <1>0 DEF CallsOK, EffectRecord
<1>7. PICK rep \in [1..MaxAttempts -> Reports] : rep = reported[e]
    BY <1>0 DEF CallsOK
<1>8. /\ last <= N /\ N <= MaxAttempts /\ MaxAttempts \in Nat
      /\ \A k \in 1..MaxAttempts : k > N => rep[k] = "none"
      /\ N > 0 => IF last = N THEN effect[e].terminal = rep[N] /\ rep[N] # "none"
                  ELSE rep[N] = "none"
  <2>1. N <= MaxAttempts
    BY <1>5, PendingFinite, GatewayAssumption DEF LatestInv, CountInv, Counted
  <2> QED
    BY <1>3, <1>5, <1>6, <1>7, <2>1, GatewayAssumption DEF Recorded
<1>9. /\ effect'[e].attempts = N
      /\ \/ n <= last /\ effect'[e].terminalAttempt = last /\ effect'[e].terminal = effect[e].terminal
         \/ n > last /\ effect'[e].terminalAttempt = n /\ effect'[e].terminal = l
    BY <1>0, <1>4, <1>5, <1>6, TerminalKeeps, TerminalRecords
<1>10. l # "none" /\ l \in Reports
    BY DEF Terminals, Reports
<1>11. /\ thread[w].pc = "authorized" => n = 0
       /\ thread[w].pc \in {"running", "ended"} => n \in 1..MaxAttempts /\ n <= N
       /\ thread[w].pc = "running" => rep[n] = "none"
       /\ thread[w].pc = "ended" => rep[n] # "none"
    BY <1>3, <1>5, <1>7, <1>8, GatewayAssumption
        DEF LatestInv, CountInv, AttemptOK, Late, RunsOK, At
<1>12. PICK new \in [1..MaxAttempts -> Reports] :
            /\ new = reported'[e]
            /\ \A k \in 1..MaxAttempts :
                  new[k] = IF thread[w].pc = "running" /\ k = n THEN l ELSE rep[k]
  <2>1. CASE At(w, "running")
    <3>1. reported'[e] = [rep EXCEPT ![n] = l]
      BY <1>0, <1>7, <2>1 DEF CallsOK
    <3> QED
      BY <1>10, <2>1, <3>1 DEF At
  <2>2. CASE ~At(w, "running")
    BY <1>7, <2>2 DEF At
  <2> QED
    BY <2>1, <2>2
<1>13. Recorded(e)'
  <2>1. Registered(e)'
    BY <1>1, <1>4 DEF Registered
  <2>2. effect'[e].terminalAttempt <= N
    BY <1>8, <1>9, <1>11
  <2>3. \A k \in 1..MaxAttempts : k > N => new[k] = "none"
    BY <1>8, <1>11, <1>12
  <2>4. ASSUME N > 0
        PROVE  IF effect'[e].terminalAttempt = N
               THEN effect'[e].terminal = new[N] /\ new[N] # "none" ELSE new[N] = "none"
    <3>1. N \in 1..MaxAttempts
      BY <1>8, <2>4
    <3>2. CASE n = N
      <4>1. thread[w].pc # "authorized"
        BY <1>11, <2>4, <3>2
      <4>2. CASE thread[w].pc = "running"
        <5>1. last # N
          BY <1>8, <1>11, <2>4, <3>2, <4>2
        <5> QED
          BY <1>8, <1>9, <1>10, <1>12, <3>1, <3>2, <4>2, <5>1
      <4>3. CASE thread[w].pc = "ended"
        <5>1. last = N
          BY <1>8, <1>11, <2>4, <3>2, <4>3
        <5> QED
          BY <1>8, <1>9, <1>12, <2>4, <3>1, <3>2, <4>3, <5>1
      <4> QED
        BY <4>1, <4>2, <4>3
    <3>3. CASE n # N
      <4>1. new[N] = rep[N]
        BY <1>12, <3>1, <3>3
      <4>2. n < N
        BY <1>11, <2>4, <3>3
      <4> QED
        BY <1>8, <1>9, <2>4, <4>1, <4>2
    <3> QED
      BY <3>2, <3>3
  <2> QED
    BY <1>9, <1>12, <2>1, <2>2, <2>3, <2>4 DEF Recorded
<1>14. ASSUME NEW v \in Threads, thread'[v].effect = e PROVE RunsOK(v, e)'
  <2>1. CASE v = w
    BY <1>9, <1>10, <1>11, <1>12, <2>1 DEF RunsOK, At
  <2>2. CASE v # w
    <3>1. thread'[v] = thread[v] /\ RunsOK(v, e)
      BY <1>3, <1>14, <2>2
    <3>2. At(v, "running") \/ At(v, "ended") => thread[v].attempt \in 1..MaxAttempts
      BY <1>0, GatewayAssumption DEF LatestInv, CountInv, AttemptOK, At, CallsOK, CallRecord
    <3>3. At(v, "running") /\ At(w, "running") => thread[v].attempt # n
      BY <1>3, <2>2, <3>1 DEF RunsOK
    <3>4. At(v, "running") => new[thread[v].attempt] = "none"
      BY <1>7, <1>12, <3>1, <3>2, <3>3 DEF RunsOK, At
    <3>5. At(v, "ended") => new[thread[v].attempt] # "none"
      BY <1>7, <1>10, <1>12, <3>1, <3>2 DEF RunsOK, At
    <3>6. \A u \in Threads : u # v /\ thread'[u].effect = e /\ thread'[u].pc = "running"
                                /\ thread[v].pc = "running" => thread'[u].attempt # thread[v].attempt
      BY <2>2, <3>1 DEF RunsOK, At
    <3> QED
      BY <1>5, <1>9, <1>12, <3>1, <3>4, <3>5, <3>6 DEF RunsOK, At
  <2> QED
    BY <2>1, <2>2
<1> QED
    BY <1>13, <1>14

-----------------------------------------------------------------------------
(* The latest attempt, step by step.                                       *)

\* A registration below the ceiling keeps every effect of the ledger registered.
LEMMA StaysRegistered ==
    ASSUME CallsOK, NEW o \in Owners, NEW e \in Effects, RegisterIn(o, e),
           Len(registry'[o]) < RegistryCap
    PROVE  /\ Len(registry[o]) < RegistryCap
           /\ \A f \in Effects : effect[f].owner = o /\ effect'[f].owner = o /\ Registered(f)
                                 => Registered(f)'
<1>1. registry[o] \in Seq(Effects) /\ Len(registry[o]) \in Nat /\ RegistryCap \in Nat
    BY LenProperties, GatewayAssumption DEF CallsOK
<1>2. Len(registry[o]) < RegistryCap
    BY <1>1, Registration
<1>3. registry'[o] = Append(registry[o], e)
    BY <1>2, Registration
<1>4. Len(registry'[o]) = Len(registry[o]) + 1
      /\ \A i \in 1..Len(registry[o]) : registry'[o][i] = registry[o][i]
    BY <1>1, <1>3, AppendProperties
<1>5. ASSUME NEW f \in Effects, effect[f].owner = o, effect'[f].owner = o, Registered(f)
      PROVE  Registered(f)'
  <2>1. PICK i \in 1..Len(registry[o]) : registry[o][i] = f
    BY <1>5 DEF Registered
  <2>2. i \in 1..Len(registry'[o]) /\ registry'[o][i] = f
    BY <1>1, <1>4, <2>1
  <2> QED
    BY <1>5, <2>2 DEF Registered
<1> QED
    BY <1>2, <1>5

\* A new effect starts with nothing on record; one registered anew was evicted.
LEMMA LatestAuthorize ==
    ASSUME LatestInv, CallsKept, NEW w \in Threads, NEW e \in Effects, Authorize(w, e),
           NEW f \in Effects
    PROVE  LatestOK(f)'
<1>0. CallsOK /\ CallsOwn
    BY DEF LatestInv, CountInv, CallsOwn
<1>1. PICK c \in CallRecord : c = thread[w]
    BY <1>0 DEF CallsOK
<1>2. /\ thread'[w] = [c EXCEPT !.pc = "authorized", !.effect = e]
      /\ \A v \in Threads : v # w => thread'[v] = thread[v]
    BY <1>0, <1>1 DEF Authorize, CallsOK
<1>3. thread'[w].pc = "authorized"
    BY <1>2 DEF CallRecord
<1>4. /\ OwnersKept /\ effect'[e].owner = c.owner /\ c.owner \in Owners /\ c.owner # NoRow
      /\ \A g \in Effects : g # e => effect'[g] = effect[g]
      /\ registry' \in [Owners -> Seq(Effects)]
    BY <1>0, <1>1, AuthorizeKeeps, GatewayAssumption DEF CallsOwn, OwnsEffect
<1>5. UNCHANGED reported
    BY DEF Authorize
<1>6. CASE Registered(e)
    BY <1>2, <1>3, <1>5, <1>6, LatestFrame DEF Authorize
<1>7. CASE ~Registered(e)
  <2>1. RegisterIn(c.owner, e)
        /\ effect' = [effect EXCEPT ![e] = [Unregistered EXCEPT !.owner = thread[w].owner]]
    BY <1>1, <1>7 DEF Authorize
  <2>2. \A q \in Owners : q # c.owner => registry'[q] = registry[q]
    BY <1>0, <1>4, <2>1, Registration
  <2>3. CASE f # e /\ effect[f].owner # c.owner
    <3>1. effect[f] \in EffectRecord
      BY <1>0 DEF CallsOK
    <3> QED
      BY <1>2, <1>3, <1>4, <1>5, <2>2, <2>3, <3>1, LatestFrame DEF EffectRecord
  <2>4. CASE f # e /\ effect[f].owner = c.owner
    <3>1. effect'[f] = effect[f] /\ effect[f].owner # NoRow /\ LatestOK(f)
      BY <1>4, <2>4 DEF LatestInv
    <3> SUFFICES ASSUME Len(registry'[c.owner]) < RegistryCap
                 PROVE Recorded(f)' /\ \A v \in Threads : thread'[v].effect = f => RunsOK(v, f)'
      BY <2>4, <3>1 DEF LatestOK, Unevicted
    <3>2. Len(registry[c.owner]) < RegistryCap
      BY <1>0, <1>4, <2>1, StaysRegistered
    <3>3. Recorded(f) /\ \A v \in Threads : thread[v].effect = f => RunsOK(v, f)
      BY <2>4, <3>1, <3>2 DEF LatestOK, Unevicted
    <3>4. Registered(f)'
      BY <1>0, <1>4, <2>1, <2>4, <3>1, <3>3, StaysRegistered DEF Recorded
    <3>5. Recorded(f)'
      BY <1>5, <3>1, <3>3, <3>4 DEF Recorded
    <3>6. ASSUME NEW v \in Threads, thread'[v].effect = f PROVE RunsOK(v, f)'
      <4>1. CASE v = w
        BY <1>3, <4>1 DEF RunsOK, At
      <4>2. CASE v # w
        <5>1. thread'[v] = thread[v] /\ RunsOK(v, f)
          BY <1>2, <3>3, <3>6, <4>2
        <5> QED
          BY <1>2, <1>3, <1>5, <3>1, <5>1 DEF RunsOK, At
      <4> QED
        BY <4>1, <4>2
    <3> QED
      BY <3>5, <3>6
  <2>5. CASE f = e /\ effect[e].owner # NoRow
    <3>1. effect[e].owner = c.owner
      BY <1>4, <2>5 DEF OwnersKept
    <3>2. ~(Len(registry[c.owner]) < RegistryCap)
      BY <1>7, <2>5, <3>1 DEF LatestInv, LatestOK, Unevicted, Recorded
    <3>3. ~(Len(registry'[c.owner]) < RegistryCap)
      BY <1>0, <1>4, <2>1, <3>2, StaysRegistered
    <3> QED
      BY <1>4, <2>5, <3>3 DEF LatestOK, Unevicted
  <2>6. CASE f = e /\ effect[e].owner = NoRow
    <3>1. Untouched(e)
      BY <2>6 DEF LatestInv, LatestOK
    <3>2. effect'[e].attempts = 0 /\ effect'[e].terminalAttempt = -1
      <4>1. Unregistered \in EffectRecord /\ Unregistered.attempts = 0
            /\ Unregistered.terminalAttempt = -1
        BY DEF EffectRecord, Unregistered
      <4>2. [Unregistered EXCEPT !.owner = thread[w].owner].attempts = 0
            /\ [Unregistered EXCEPT !.owner = thread[w].owner].terminalAttempt = -1
        BY <4>1 DEF EffectRecord
      <4> QED
        BY <1>0, <2>1, <4>2 DEF CallsOK
    <3>3. Registered(e)'
      <4>1. Len(registry'[c.owner]) \in Nat /\ registry'[c.owner][Len(registry'[c.owner])] = e
        BY <1>0, <1>4, <2>1, Registration
      <4>2. Len(registry'[c.owner]) # 0
        <5>1. Len(registry[c.owner]) \in Nat /\ RegistryCap \in Nat /\ RegistryCap > 0
          BY <1>0, <1>4, LenProperties, GatewayAssumption DEF CallsOK
        <5>2. CASE Len(registry[c.owner]) < RegistryCap
          BY <1>0, <1>4, <2>1, <5>1, <5>2, Registration, AppendProperties DEF CallsOK
        <5>3. CASE Len(registry[c.owner]) >= RegistryCap
          BY <1>0, <1>4, <2>1, <5>1, <5>3, Registration
        <5> QED
          BY <5>1, <5>2, <5>3
      <4>3. Len(registry'[c.owner]) \in 1..Len(registry'[c.owner])
        BY <4>1, <4>2
      <4> QED
        BY <1>4, <4>1, <4>3 DEF Registered
    <3>4. Recorded(e)'
      BY <1>5, <3>1, <3>2, <3>3 DEF Recorded, Untouched
    <3>5. ASSUME NEW v \in Threads, thread'[v].effect = e PROVE RunsOK(v, e)'
      <4>1. CASE v = w
        BY <1>3, <4>1 DEF RunsOK, At
      <4>2. CASE v # w
        <5>1. thread[v].effect = e
          BY <1>2, <3>5, <4>2
        <5>2. effect[e].owner = thread[v].owner /\ thread[v].owner \in Owners
          BY <1>0, <5>1, SentinelAssumption DEF CallsOwn, OwnsEffect, CallsOK, CallOK, At, Opened
        <5> QED
          BY <2>6, <5>2, GatewayAssumption
      <4> QED
        BY <4>1, <4>2
    <3> QED
      BY <1>4, <2>6, <3>4, <3>5 DEF LatestOK
  <2> QED
    BY <2>3, <2>4, <2>5, <2>6
<1> QED
    BY <1>6, <1>7

\* A new attempt has no terminal yet, and no other call has its number.
LEMMA LatestAttempt ==
    ASSUME LatestInv, CallsKept, NEW w \in Threads, BeginAttempt(w), Registered(thread[w].effect),
           NEW f \in Effects
    PROVE  LatestOK(f)'
<1>0. CallsOK /\ CallsOwn
    BY DEF LatestInv, CountInv, CallsOwn
<1>1. PICK e \in Effects : e = thread[w].effect
    BY <1>0, AttemptBegins
<1>2. PICK n \in Nat : n = effect[e].attempts
    BY <1>0 DEF CallsOK, EffectRecord
<1>3. /\ effect'[e].attempts = n + 1
      /\ effect'[e].terminalAttempt = effect[e].terminalAttempt
      /\ effect'[e].owner = effect[e].owner
      /\ \A g \in Effects : g # e => effect'[g] = effect[g]
      /\ \A v \in Threads : v # w => thread'[v] = thread[v]
      /\ thread'[w].pc = "running" /\ thread'[w].effect = e /\ thread'[w].attempt = n + 1
      /\ thread[w].pc = "consuming" /\ UNCHANGED <<registry, reported>>
    BY <1>0, <1>1, <1>2, AttemptBegins
<1>4. CASE f # e
    BY <1>3, <1>4, LatestFrame
<1>5. CASE f = e
  <2>1. effect[e].owner # NoRow
    BY <1>1 DEF BeginAttempt, Registered
  <2> SUFFICES ASSUME Unevicted(e)
               PROVE  Recorded(e)' /\ \A v \in Threads : thread'[v].effect = e => RunsOK(v, e)'
    BY <1>3, <1>5, <2>1 DEF LatestOK, Unevicted
  <2>2. Recorded(e) /\ \A v \in Threads : thread[v].effect = e => RunsOK(v, e)
    BY <2>1 DEF LatestInv, LatestOK
  <2>3. n + 1 <= MaxAttempts /\ MaxAttempts \in Nat
    <3>1. w \in Pending(e)
      BY <1>1, <1>3 DEF Pending, Late
    <3>2. Cardinality(Pending(e)) # 0 /\ Cardinality(Pending(e)) \in Nat
      BY <3>1, PendingFinite, FS_EmptySet
    <3>3. n + Cardinality(Pending(e)) <= MaxAttempts
      BY <1>2 DEF LatestInv, CountInv, Counted
    <3> QED
      BY <3>2, <3>3, GatewayAssumption
  <2>4. PICK last \in Nat \cup {-1} : last = effect[e].terminalAttempt /\ last <= n
    BY <1>0, <1>2, <2>2 DEF CallsOK, EffectRecord, Recorded
  <2>5. n + 1 \in 1..MaxAttempts /\ reported[e][n + 1] = "none"
    BY <1>2, <2>2, <2>3 DEF Recorded
  <2>6. Recorded(e)'
    <3>1. Registered(e)'
      BY <1>3, <2>2 DEF Recorded, Registered
    <3>2. \A k \in 1..MaxAttempts : k > n + 1 => reported[e][k] = "none"
      BY <1>2, <2>2 DEF Recorded
    <3> QED
      BY <1>2, <1>3, <2>4, <2>5, <3>1, <3>2 DEF Recorded
  <2>7. ASSUME NEW v \in Threads, thread'[v].effect = e PROVE RunsOK(v, e)'
    <3>1. \A u \in Threads : u # w /\ thread[u].effect = e /\ thread[u].pc \in {"running", "ended"}
                             => thread[u].attempt \in Nat /\ thread[u].attempt <= n
      BY <1>0, <1>2, <2>2 DEF RunsOK, At, CallsOK, CallRecord
    <3>2. CASE v = w
      BY <1>3, <2>3, <2>5, <3>1, <3>2 DEF RunsOK, At
    <3>3. CASE v # w
      BY <1>2, <1>3, <2>2, <2>7, <3>1, <3>3 DEF RunsOK, At
    <3> QED
      BY <3>2, <3>3
  <2> QED
    BY <2>6, <2>7
<1> QED
    BY <1>4, <1>5

-----------------------------------------------------------------------------
(* The outcome is that of the latest attempt.                              *)

\* Every step keeps the account of every effect.
LEMMA LatestStep == LatestInv /\ [GatewayNext]_allvars => LatestInv'
<1> SUFFICES ASSUME LatestInv, [GatewayNext]_allvars, NEW f \in Effects PROVE LatestOK(f)'
    BY CountStep DEF LatestInv
<1>0. CallsOwn /\ CallsOK /\ CallsKept
    BY CallsStep DEF LatestInv, CountInv, CallsOwn
<1>1. ASSUME UNCHANGED <<registry, effect, reported>>,
             \A v \in Threads : thread'[v] = thread[v] \/ thread'[v].pc \notin {"running", "ended"}
      PROVE  LatestOK(f)'
    BY <1>0, <1>1, LatestFrame
<1>2. ASSUME NEW w \in Threads, Call(w) PROVE LatestOK(f)'
  <2>1. UNCHANGED <<registry, effect, reported>> /\ thread' \in [Threads -> CallRecord]
    BY <1>0, <1>2, CallBegins
  <2>2. PICK i \in CallRecord : i = Idle /\ i.pc = "idle"
    BY IdleKnows DEF KnowsEnough, Idle
  <2>3. ASSUME NEW y, thread' = [thread EXCEPT ![w] = y], y.pc \notin {"running", "ended"}
        PROVE  LatestOK(f)'
    BY <1>0, <1>1, <2>1, <2>3 DEF CallsOK
  <2>4. ASSUME NEW o \in Owners, NEW d \in Doors, OpenEffect(w, o, d) PROVE LatestOK(f)'
    <3>1. [i EXCEPT !.pc = "opening", !.owner = o, !.effect = NoEffect, !.door = d].pc = "opening"
      BY DEF CallRecord
    <3>2. ASSUME NEW S
          PROVE  [[i EXCEPT !.pc = "opening", !.owner = o, !.effect = NoEffect, !.door = d]
                    EXCEPT !.res = S].pc = "opening"
      BY DEF CallRecord
    <3>3. ASSUME NEW r, thread' = [thread EXCEPT ![w] =
                [[Idle EXCEPT !.pc = "opening", !.owner = o, !.effect = NoEffect, !.door = d]
                    EXCEPT !.res = {r}]]
          PROVE  LatestOK(f)'
      BY <2>2, <2>3, <3>2, <3>3
    <3>4. ASSUME thread' = [thread EXCEPT ![w] =
                [Idle EXCEPT !.pc = "opening", !.owner = o, !.effect = NoEffect, !.door = d]]
          PROVE  LatestOK(f)'
      BY <2>2, <2>3, <3>1, <3>4
    <3>5. Return(w) => LatestOK(f)'
      BY <2>2, <2>3 DEF Return
    <3> QED
      BY <2>4, <3>3, <3>4, <3>5 DEF OpenEffect, ReserveFor
  <2>5. ASSUME NEW e \in Effects, NEW d \in Doors, RetryEffect(w, e, d) PROVE LatestOK(f)'
    <3>1. PICK place \in {"opening", "retrying"} : thread' = [thread EXCEPT ![w] =
              [i EXCEPT !.pc = place, !.owner = effect[e].owner, !.effect = e, !.door = d]]
      BY <2>2, <2>5 DEF RetryEffect
    <3>2. [i EXCEPT !.pc = place, !.owner = effect[e].owner, !.effect = e, !.door = d].pc = place
      BY DEF CallRecord
    <3> QED
      BY <2>3, <3>1, <3>2
  <2> QED
    BY <1>2, <2>4, <2>5 DEF Call
<1>3. ASSUME NEW w \in Threads, Continue(w) PROVE LatestOK(f)'
  <2>0. SameCall(w)
    BY <1>0, <1>3, ContinueSame
  <2>1. CASE \E e \in Effects : Authorize(w, e)
    BY <1>0, <2>1, LatestAuthorize
  <2>2. CASE BeginAttempt(w) /\ Registered(thread[w].effect)
    BY <1>0, <2>2, LatestAttempt
  <2>3. CASE BeginAttempt(w) /\ ~Registered(thread[w].effect)
    <3>1. thread' = [thread EXCEPT ![w] = Idle] /\ UNCHANGED <<registry, effect, reported>>
      BY <2>3 DEF BeginAttempt, Return
    <3> QED
      BY <1>0, <1>1, <3>1 DEF CallsOK, Idle
  <2>4. CASE ~BeginAttempt(w) /\ ~\E e \in Effects : Authorize(w, e)
    <3>0. GoesOn(w)
      BY <1>0, <1>3, <2>4, ContinueGoesOn
    <3>1. PICK c \in CallRecord : c = thread[w] /\ c.attempt \in Nat
      BY <1>0 DEF CallsOK, CallRecord
    <3>2. c.pc \notin {"idle", "opening"} => c.effect \in Effects
      BY <1>0, <3>1 DEF CallsOK, CallOK
    <3>3. ASSUME c.pc \in {"authorized", "running", "ended"}, NEW l \in Terminals,
                 UNCHANGED registry,
                 Registered(c.effect) => TerminalTransition(c.effect, c.attempt, l),
                 ~Registered(c.effect) => UNCHANGED effect,
                 reported' = IF At(w, "running") THEN [reported EXCEPT ![c.effect][c.attempt] = l]
                                                 ELSE reported,
                 thread'[w].pc # "ended" \/ thread'[w].attempt = c.attempt
          PROVE  LatestOK(f)'
      <4>1. c.effect \in Effects
        BY <3>2, <3>3
      <4>2. /\ \/ thread'[w].pc \notin {"running", "ended"}
               \/ /\ thread'[w].pc = "ended" /\ thread'[w].attempt = c.attempt
                  /\ thread[w].pc \in {"running", "ended"}
            /\ \/ thread'[w].effect = c.effect
               \/ thread'[w].pc \notin {"running", "ended"}
        <5>1. CASE thread'[w] = Idle
          BY <5>1 DEF Idle
        <5>2. CASE thread'[w] # Idle
          <6>1. /\ thread'[w].effect = c.effect /\ thread'[w].pc # "running"
                /\ thread'[w].pc = "ended" => thread[w].pc \in {"running", "ended"}
            BY <3>0, <3>1, <5>2 DEF GoesOn
          <6> QED
            BY <3>3, <6>1
        <5> QED
          BY <5>1, <5>2
      <4>3. \A v \in Threads : v # w => thread'[v] = thread[v]
        BY <2>0 DEF SameCall
      <4>4. CASE f = c.effect
        BY <1>0, <3>1, <3>3, <4>1, <4>2, <4>3, <4>4, LatestTerminal
      <4>5. CASE f # c.effect
        <5>1. effect'[f] = effect[f]
          BY <1>0, <3>1, <3>3, <4>1, <4>5, TerminalRecords
        <5>2. reported'[f] = reported[f]
          BY <1>0, <3>3, <4>1, <4>5 DEF CallsOK
        <5> QED
          BY <1>0, <3>3, <4>2, <4>3, <4>5, <5>1, <5>2, LatestFrame
      <4> QED
        BY <4>4, <4>5
    <3>4. CASE Cancel(w)
      <4>1. "cancelled" \in Terminals
        BY DEF Terminals
      <4>2. thread'[w].pc # "ended"
        <5>1. PICK S : \/ thread' = [thread EXCEPT ![w] = Idle]
                       \/ thread' = [thread EXCEPT ![w] = [c EXCEPT !.pc = "releasing", !.todo = S]]
          BY <1>0, <3>1, <3>4 DEF Cancel, Return, CallsOK
        <5>2. [c EXCEPT !.pc = "releasing", !.todo = S].pc = "releasing" /\ Idle.pc = "idle"
          BY DEF CallRecord, Idle
        <5>3. \/ thread'[w] = Idle
              \/ thread'[w] = [c EXCEPT !.pc = "releasing", !.todo = S]
          BY <1>0, <5>1 DEF CallsOK
        <5> QED
          BY <5>2, <5>3
      <4>3. /\ UNCHANGED registry /\ c.pc \in {"authorized", "running", "ended"}
            /\ Registered(c.effect) => TerminalTransition(c.effect, c.attempt, "cancelled")
            /\ ~Registered(c.effect) => UNCHANGED effect
            /\ reported' = IF At(w, "running")
                           THEN [reported EXCEPT ![c.effect][c.attempt] = "cancelled"] ELSE reported
        BY <3>1, <3>4 DEF Cancel, At
      <4> QED
        BY <3>3, <4>1, <4>2, <4>3
    <3>5. ASSUME NEW l \in {"succeeded", "failed"}, RecordTerminal(w, l) PROVE LatestOK(f)'
      <4>1. l \in Terminals
        BY DEF Terminals
      <4>2. thread'[w].attempt = c.attempt
        <5>1. thread' = [thread EXCEPT ![w] = [c EXCEPT !.pc = "ended"]]
          BY <1>0, <3>1, <3>5 DEF RecordTerminal, Step, CallsOK
        <5>2. [c EXCEPT !.pc = "ended"].attempt = c.attempt
          BY DEF CallRecord
        <5> QED
          BY <1>0, <5>1, <5>2 DEF CallsOK
      <4>3. /\ UNCHANGED registry /\ c.pc \in {"authorized", "running", "ended"}
            /\ Registered(c.effect) => TerminalTransition(c.effect, c.attempt, l)
            /\ ~Registered(c.effect) => UNCHANGED effect
            /\ reported' = IF At(w, "running")
                           THEN [reported EXCEPT ![c.effect][c.attempt] = l] ELSE reported
        BY <3>1, <3>5 DEF RecordTerminal, At
      <4> QED
        BY <3>3, <4>1, <4>2, <4>3
    <3>6. CASE RetryReserve(w) \/ RunHandler(w) \/ BeginScan(w) \/ ConsumeNext(w) \/ EndCall(w)
               \/ CancelRelease(w) \/ CancelDone(w)
      <4>1. UNCHANGED <<registry, effect, reported>>
        BY <3>6 DEF RetryReserve, RunHandler, BeginScan, ConsumeNext, EndCall, CancelRelease, CancelDone
      <4>2. c.pc \in {"retrying", "authorized", "handled", "consuming", "releasing"}
            \/ thread' = [thread EXCEPT ![w] = Idle]
        BY <3>1, <3>6 DEF RetryReserve, RunHandler, BeginScan, ConsumeNext, EndCall, CancelRelease,
               CancelDone, At, Return
      <4>3. thread'[w].pc \notin {"running", "ended"}
        BY <1>0, <3>0, <3>1, <4>2 DEF GoesOn, Idle, CallsOK
      <4> QED
        BY <1>1, <2>0, <4>1, <4>3 DEF SameCall
    <3> QED
      BY <1>3, <2>4, <3>4, <3>5, <3>6 DEF Continue
  <2> QED
    BY <2>1, <2>2, <2>3, <2>4
<1>4. ASSUME NEW o \in Owners, CloseStep(o) PROVE LatestOK(f)'
    BY <1>1, <1>4 DEF CloseStep, CloseScope, CloseRelease, CloseDone
<1>5. ASSUME NEW p \in Processes, ProcessStep(p) PROVE LatestOK(f)'
    BY <1>1, <1>5 DEF ProcessStep, ProcessDies, OpenScope, gateway, Idle
<1>6. UNCHANGED gateway => LatestOK(f)'
    BY <1>1 DEF gateway
<1> QED
    BY <1>2, <1>3, <1>4, <1>5, <1>6 DEF GatewayNext, StoreStep, allvars

\* Nothing is reported at the start.
LEMMA LatestInit == GatewayInit => LatestInv
<1> SUFFICES ASSUME GatewayInit, NEW e \in Effects PROVE LatestOK(e)
    BY CountInit DEF LatestInv
<1>1. effect[e].owner = NoRow /\ effect[e].attempts = 0 /\ effect[e].terminalAttempt = -1
    BY DEF GatewayInit, Unregistered
<1>2. \A n \in 1..MaxAttempts : reported[e][n] = "none"
    BY DEF GatewayInit
<1> QED
    BY <1>1, <1>2 DEF LatestOK, Untouched

\* effect_outcomes answers for the latest attempt, for any number of threads that retry
\* and cancel one effect: its first terminal once it has one, "started" before; no late
\* or second terminal changes the answer, as long as the ledger has evicted nothing.
THEOREM OutcomesAreLatest == GatewaySpec => []OutcomeIsLatest
<1>1. LatestInv => OutcomeIsLatest
  <2> SUFFICES ASSUME LatestInv, NEW e \in Effects, effect[e].attempts > 0, Unevicted(e)
               PROVE  Outcome(e) = IF reported[e][effect[e].attempts] = "none" THEN "started"
                                   ELSE reported[e][effect[e].attempts]
      BY DEF OutcomeIsLatest
  <2>1. effect[e].owner # NoRow
    BY DEF LatestInv, LatestOK, Untouched
  <2>2. Recorded(e)
    BY <2>1 DEF LatestInv, LatestOK
  <2> QED
    BY <2>2 DEF Recorded, Outcome
<1> QED
    BY <1>1, LatestInit, LatestStep, PTL DEF GatewaySpec
=============================================================================

---------------------------- MODULE MsgQueueProofs ----------------------------
(***************************************************************************)
(* Proofs about the message queue, for any number of queues, channels,     *)
(* producers and messages.                                                 *)
(***************************************************************************)
EXTENDS MsgQueue, SequenceTheorems, WellFoundedInduction, TLAPS

\* A non-empty set of naturals has a least element: the index that a loop of send is at is
\* one of the indexes left to visit.
LEMMA MinInSet ==
  ASSUME NEW S \in SUBSET Nat, S # {}
  PROVE  Min(S) \in S
<1>1. PICK x \in S : \A y \in S : ~(<<y, x>> \in OpToRel(<, Nat))
  BY NatLessThanWellFounded, WFMin, Zenon
<1>2. \A y \in S : ~(y < x)
  BY <1>1, Zenon DEF OpToRel
<1>3. \A y \in S : x =< y
  BY <1>2
<1> QED
  BY <1>3, Zenon DEF Min

-----------------------------------------------------------------------------
(* Types.                                                                  *)

\* The subscriber that a loop of send is at is one that it has still to visit, at a position
\* of its snapshot.
LEMMA CurrentOK ==
  ASSUME TypeOK, NEW p \in Producers, Looping(p)
  PROVE  /\ Current(p) \in proc[p].todo
         /\ Current(p) \in DOMAIN proc[p].dsts
         /\ CurrentChan(p) \in Chans
<1>1. proc[p].todo \in SUBSET Nat /\ proc[p].todo # {}
  BY DEF TypeOK, ProcRec, Looping
<1>2. Current(p) \in proc[p].todo
  BY <1>1, MinInSet DEF Current
<1>3. proc[p].dsts \in Seq(Chans)
  BY DEF TypeOK, ProcRec
<1> QED
  BY <1>2, <1>3 DEF TypeOK, LocalsFit, CurrentChan

\* The fields of one queue, sink, channel and producer are well typed.
LEMMA Fields ==
  ASSUME TypeOK
  PROVE  /\ \A q \in Queues : queue[q] \in QueueRec /\ queue[q].sink \in Queues
         /\ \A s \in Queues : sink[s] \in SinkRec /\ sink[s].dsts \in Seq(Chans)
         /\ \A c \in Chans : chan[c] \in ChanRec
         /\ \A p \in Producers : /\ proc[p] \in ProcRec
                                 /\ LocalsFit(proc[p])
                                 /\ proc[p].sink \in Queues
                                 /\ proc[p].dsts \in Seq(Chans)
                                 /\ proc[p].sent \in 0 .. MaxMsgs
         /\ \A p \in Producers : Src[p] \in Queues
BY QueueAssumption DEF TypeOK, QueueRec, SinkRec, ProcRec

\* A step that replaces the record of one producer preserves the types of all of them.
LEMMA ProcUpdate ==
  ASSUME TypeOK, NEW p \in Producers, NEW r \in ProcRec, LocalsFit(r),
         proc' = [proc EXCEPT ![p] = r]
  PROVE  /\ proc' \in [Producers -> ProcRec]
         /\ \A m \in Producers : LocalsFit(proc'[m])
<1>1. proc' \in [Producers -> ProcRec]
  BY DEF TypeOK
<1>2. ASSUME NEW m \in Producers PROVE LocalsFit(proc'[m])
  <2>1. CASE m = p
    BY <2>1 DEF TypeOK
  <2>2. CASE m # p
    <3>1. proc'[m] = proc[m]
      BY <2>2 DEF TypeOK
    <3> QED
      BY <3>1 DEF TypeOK
  <2> QED
    BY <2>1, <2>2
<1> QED
  BY <1>1, <1>2

\* Updates of the fields of one sink keep its type.
LEMMA SinkFields ==
  ASSUME NEW r \in SinkRec
  PROVE  /\ \A t \in TimerStates : [r EXCEPT !.timer = t] \in SinkRec
         /\ \A d \in Seq(Chans) : [r EXCEPT !.dsts = d] \in SinkRec
         /\ \A m \in SUBSET Queues, d \in Seq(Chans) :
               [r EXCEPT !.members = m, !.dsts = d] \in SinkRec
         /\ \A m \in SUBSET Queues, d \in Seq(Chans), t \in TimerStates :
               [r EXCEPT !.members = m, !.dsts = d, !.timer = t] \in SinkRec
         /\ \A d \in Seq(Chans), t \in TimerStates :
               [r EXCEPT !.closed = TRUE, !.dsts = d, !.timer = t] \in SinkRec
BY Zenon DEF SinkRec

\* A step that replaces the record of one sink preserves the types of all of them.
LEMMA SinkUpdate ==
  ASSUME TypeOK, NEW s \in Queues, NEW r \in SinkRec, sink' = [sink EXCEPT ![s] = r]
  PROVE  sink' \in [Queues -> SinkRec]
BY DEF TypeOK

\* Bypass preserves the types of the sinks and of the queues.
LEMMA BypassTypes ==
  ASSUME TypeOK, NEW q \in Queues, NEW to \in Queues
  PROVE  LET src == queue[q].sink
             dst == queue[to].sink
             marked == [queue EXCEPT ![q].bypassed = TRUE]
         IN  /\ marked \in [Queues -> QueueRec]
             /\ MergedQueues(marked, src, dst, to) \in [Queues -> QueueRec]
             /\ MergedSinks(src, dst) \in [Queues -> SinkRec]
<1> DEFINE src == queue[q].sink
           dst == queue[to].sink
           marked == [queue EXCEPT ![q].bypassed = TRUE]
<1>1. src \in Queues /\ dst \in Queues
  BY Fields
<1>2. marked \in [Queues -> QueueRec]
  <2>1. [queue[q] EXCEPT !.bypassed = TRUE] \in QueueRec
    <3>1. queue[q] \in QueueRec
      BY Fields
    <3> QED
      BY <3>1, Zenon DEF QueueRec
  <2> QED
    BY <2>1 DEF TypeOK
<1> HIDE DEF src, dst, marked
<1>3. MergedQueues(marked, src, dst, to) \in [Queues -> QueueRec]
  <2>1. ASSUME NEW m \in Queues
        PROVE  [marked[m] EXCEPT !.sink = dst, !.route = @ \o marked[to].route] \in QueueRec
    <3>1. marked[m] \in QueueRec /\ marked[to] \in QueueRec
      BY <1>2
    <3>2. marked[m].route \o marked[to].route \in Seq(Queues)
      BY <3>1 DEF QueueRec
    <3> QED
      BY <3>1, <3>2, <1>1, Zenon DEF QueueRec
  <2> QED
    BY <2>1, <1>2, Zenon DEF MergedQueues
<1>4. MergedSinks(src, dst) \in [Queues -> SinkRec]
  <2>1. [sink[src] EXCEPT !.members = {}, !.dsts = <<>>, !.timer = "nil"] \in SinkRec
    <3>1. sink[src] \in SinkRec /\ {} \in SUBSET Queues /\ <<>> \in Seq(Chans)
      BY <1>1, Fields
    <3> QED
      BY <3>1, SinkFields, Zenon DEF TimerStates
  <2>2. sink[dst].dsts \o sink[src].dsts \in Seq(Chans)
    BY <1>1, Fields
  <2>3. sink[dst].members \cup sink[src].members \in SUBSET Queues
    BY <1>1, Fields DEF SinkRec
  <2>4. [sink[dst] EXCEPT !.members = @ \cup sink[src].members,
                          !.dsts = @ \o sink[src].dsts] \in SinkRec
    <3>1. sink[dst] \in SinkRec
      BY <1>1, Fields
    <3> QED
      BY <3>1, <2>2, <2>3, SinkFields, Zenon DEF TimerStates
  <2> QED
    BY <2>1, <2>4, <1>1, Fields, ZenonT(30) DEF MergedSinks
<1> QED
  BY <1>2, <1>3, <1>4, Zenon DEF src, dst, marked

\* A panic changes nothing but the panic.
LEMMA ThrowTypes ==
  ASSUME TypeOK,
         \E why \in {"closed", "misuse", "nilTimer", "sendOnClosed", "blocked"} : Throw(why)
  PROVE  TypeOK'
BY DEF Throw, TypeOK, LocalsFit

\* Every step of the wiring preserves the types.
LEMMA WiringTypes ==
  ASSUME TypeOK, Wiring
  PROVE  TypeOK'
<1>1. ASSUME NEW q \in Queues, NEW c \in Chans, Subscribe(q, c)
      PROVE  TypeOK'
  <2>1. CASE sink[queue[q].sink].closed
    BY <2>1, <1>1, ThrowTypes DEF Subscribe
  <2>2. CASE ~sink[queue[q].sink].closed
    <3>1. subscribing' \in SUBSET (Queues \X Chans)
      BY <2>2, <1>1 DEF Subscribe
    <3> QED
      BY <3>1, <2>2, <1>1 DEF Subscribe, TypeOK, LocalsFit
  <2> QED
    BY <2>1, <2>2
<1>2. ASSUME NEW q \in Queues, NEW c \in Chans, SubscribeAppend(q, c)
      PROVE  TypeOK'
  <2>1. chan' \in [Chans -> ChanRec]
    <3>1. [chan[c] EXCEPT !.state = "open"] \in ChanRec
      BY Fields DEF ChanRec
    <3> QED
      BY <3>1, <1>2 DEF SubscribeAppend, TypeOK
  <2>2. sink' \in [Queues -> SinkRec]
    <3>1. Append(sink[queue[q].sink].dsts, c) \in Seq(Chans)
      BY Fields
    <3>2. [sink[queue[q].sink] EXCEPT !.dsts = Append(@, c)] \in SinkRec
      <4>1. sink[queue[q].sink] \in SinkRec
        BY Fields
      <4> QED
        BY <4>1, <3>1, SinkFields, Zenon DEF TimerStates
    <3> QED
      BY <3>2, <1>2, Fields, SinkUpdate, Zenon DEF SubscribeAppend
  <2>3. subscribing' \in SUBSET (Queues \X Chans)
    BY <1>2 DEF SubscribeAppend
  <2> QED
    BY <2>1, <2>2, <2>3, <1>2 DEF SubscribeAppend, TypeOK, LocalsFit
<1>3. ASSUME NEW q \in Queues, NEW to \in Queues, Bypass(q, to)
      PROVE  TypeOK'
  <2> DEFINE src == queue[q].sink
             dst == queue[to].sink
             marked == [queue EXCEPT ![q].bypassed = TRUE]
  <2>1. CASE q # to /\ sink[src].closed
    BY <2>1, <1>3, ThrowTypes DEF Bypass
  <2>2. CASE ~(q # to /\ sink[src].closed) /\ (q = to \/ queue[q].bypassed)
    BY <2>2, <1>3, ThrowTypes DEF Bypass
  <2>3. CASE ~(q # to /\ sink[src].closed) /\ ~(q = to \/ queue[q].bypassed)
    <3>1. /\ queue' = IF src = dst THEN marked ELSE MergedQueues(marked, src, dst, to)
          /\ sink' = IF src = dst THEN sink ELSE MergedSinks(src, dst)
          /\ UNCHANGED <<chan, proc, subscribing, started, ctxDone, panic>>
      BY <2>3, <1>3 DEF Bypass
    <3>2. queue' \in [Queues -> QueueRec] /\ sink' \in [Queues -> SinkRec]
      BY <3>1, BypassTypes, Zenon DEF TypeOK
    <3> QED
      BY <3>1, <3>2, Zenon DEF TypeOK, LocalsFit
  <2> QED
    BY <2>1, <2>2, <2>3
<1>4. CASE Start
  BY <1>4 DEF Start, TypeOK, LocalsFit
<1> QED
  BY <1>1, <1>2, <1>3, <1>4 DEF Wiring

\* Every step of a send preserves the types.
LEMMA SendTypes ==
  ASSUME TypeOK, NEW p \in Producers, SendCtx(p) \/ SendStep(p)
  PROVE  TypeOK'
<1> USE QueueAssumption
<1>1. CASE SendCtx(p)
  <2>1. CASE sink[queue[Src[p]].sink].closed
    BY <2>1, <1>1, ThrowTypes DEF SendCtx
  <2>2. CASE ~sink[queue[Src[p]].sink].closed
    <3> DEFINE r == [proc[p] EXCEPT !.pc = "snapshot", !.sink = queue[Src[p]].sink,
                                    !.sent = @ + 1]
    <3>1. r \in ProcRec /\ LocalsFit(r)
      <4>1. proc[p] \in ProcRec /\ LocalsFit(proc[p]) /\ queue[Src[p]].sink \in Queues
        BY Fields
      <4>2. proc[p].sent + 1 \in 0 .. MaxMsgs
        BY <1>1, Fields DEF SendCtx
      <4> QED
        BY <4>1, <4>2, Zenon DEF ProcRec, LocalsFit
    <3>2. proc' = [proc EXCEPT ![p] = r]
      BY <2>2, <1>1, Zenon DEF SendCtx
    <3> HIDE DEF r
    <3> QED
      BY <3>1, <3>2, <2>2, <1>1, ProcUpdate DEF SendCtx, TypeOK
  <2> QED
    BY <2>1, <2>2
<1>2. CASE Snapshot(p)
  <2> DEFINE s == proc[p].sink
  <2>1. CASE sink[s].dsts = <<>>
    <3> DEFINE r == [proc[p] EXCEPT !.pc = "idle"]
    <3>1. r \in ProcRec /\ LocalsFit(r)
      BY Fields, Zenon DEF ProcRec, LocalsFit
    <3>2. proc' = [proc EXCEPT ![p] = r]
      BY <2>1, <1>2 DEF Snapshot
    <3> HIDE DEF r
    <3> QED
      BY <3>1, <3>2, <2>1, <1>2, ProcUpdate DEF Snapshot, TypeOK
  <2>2. CASE sink[s].dsts # <<>> /\ sink[s].timer = "nil"
    BY <2>2, <1>2, ThrowTypes DEF Snapshot
  <2>3. CASE sink[s].dsts # <<>> /\ sink[s].timer # "nil"
    <3> DEFINE r == [proc[p] EXCEPT !.pc = "offer", !.dsts = sink[s].dsts,
                                    !.todo = DOMAIN sink[s].dsts, !.blocked = {}]
               t == [sink[s] EXCEPT !.timer = "armed"]
    <3>1. s \in Queues /\ sink[s].dsts \in Seq(Chans) /\ DOMAIN sink[s].dsts \in SUBSET Nat
      BY Fields
    <3>2. r \in ProcRec /\ LocalsFit(r)
      BY <3>1, Fields, Zenon DEF ProcRec, LocalsFit
    <3>3. t \in SinkRec
      <4>1. sink[s] \in SinkRec
        BY <3>1, Fields
      <4> QED
        BY <4>1, SinkFields, Zenon DEF TimerStates
    <3>4. proc' = [proc EXCEPT ![p] = r] /\ sink' = [sink EXCEPT ![s] = t]
      BY <2>3, <1>2, Zenon DEF Snapshot
    <3> HIDE DEF r, t, s
    <3>5. sink' \in [Queues -> SinkRec]
      BY <3>1, <3>3, <3>4, SinkUpdate, Zenon
    <3>6. UNCHANGED <<queue, chan, subscribing, started, ctxDone, panic>>
      BY <2>3, <1>2 DEF Snapshot, s
    <3> QED
      BY <3>2, <3>4, <3>5, <3>6, ProcUpdate DEF TypeOK
  <2> QED
    BY <2>1, <2>2, <2>3
<1>3. CASE Deliver(p)
  <2> DEFINE c == CurrentChan(p)
             r == [proc[p] EXCEPT !.todo = @ \ {Current(p)}]
             d == [chan[c] EXCEPT !.log = Append(@, <<p, proc[p].sent>>)]
  <2>1. c \in Chans
    BY <1>3, CurrentOK DEF Deliver
  <2>2. r \in ProcRec /\ LocalsFit(r)
    BY Fields, Zenon DEF ProcRec, LocalsFit
  <2>3. d \in ChanRec
    <3>1. <<p, proc[p].sent>> \in Msgs
      BY Fields DEF Msgs
    <3>2. chan[c].log \in Seq(Msgs)
      BY <2>1, Fields DEF ChanRec
    <3>3. Append(chan[c].log, <<p, proc[p].sent>>) \in Seq(Msgs)
      BY <3>1, <3>2
    <3> QED
      BY <3>3, <2>1, Fields, Zenon DEF ChanRec
  <2>4. proc' = [proc EXCEPT ![p] = r] /\ chan' = [chan EXCEPT ![c] = d]
    BY <1>3 DEF Deliver
  <2> HIDE DEF r, d, c
  <2>5. chan' \in [Chans -> ChanRec]
    BY <2>1, <2>3, <2>4 DEF TypeOK
  <2> QED
    BY <2>2, <2>4, <2>5, <1>3, ProcUpdate DEF Deliver, TypeOK
<1>4. CASE DeliverClosed(p)
  BY <1>4, ThrowTypes DEF DeliverClosed
<1>5. CASE Cancelled(p) \/ Return(p)
  <2> DEFINE r == [proc[p] EXCEPT !.pc = "idle"]
  <2>1. r \in ProcRec /\ LocalsFit(r)
    BY Fields, ZenonT(30) DEF ProcRec, LocalsFit
  <2>2. proc' = [proc EXCEPT ![p] = r]
    BY <1>5 DEF Cancelled, Return
  <2> HIDE DEF r
  <2> QED
    BY <2>1, <2>2, <1>5, ProcUpdate DEF Cancelled, Return, TypeOK
<1>6. CASE OfferTimeout(p)
  <2> DEFINE r == [proc[p] EXCEPT !.todo = @ \ {Current(p)},
                                  !.blocked = @ \cup {Current(p)}]
             t == [sink[proc[p].sink] EXCEPT !.timer = "stopped"]
  <2>1. Current(p) \in DOMAIN proc[p].dsts /\ Current(p) \in Nat
    BY <1>6, CurrentOK, Fields DEF OfferTimeout
  <2>2. r \in ProcRec /\ LocalsFit(r)
    BY <2>1, Fields, Zenon DEF ProcRec, LocalsFit
  <2>3. t \in SinkRec
    <3>1. sink[proc[p].sink] \in SinkRec
      BY Fields
    <3> QED
      BY <3>1, SinkFields, Zenon DEF TimerStates
  <2>4. proc' = [proc EXCEPT ![p] = r] /\ sink' = [sink EXCEPT ![proc[p].sink] = t]
    BY <1>6, Zenon DEF OfferTimeout
  <2> HIDE DEF r, t
  <2>5. sink' \in [Queues -> SinkRec]
    BY <2>3, <2>4, Fields, SinkUpdate, Zenon
  <2> QED
    BY <2>2, <2>4, <2>5, <1>6, ProcUpdate DEF OfferTimeout, TypeOK
<1>7. CASE EndOffer(p)
  <2> DEFINE r == [proc[p] EXCEPT !.pc = "retry", !.todo = proc[p].blocked]
             t == [sink[proc[p].sink] EXCEPT !.timer = "armed"]
  <2>1. r \in ProcRec /\ LocalsFit(r)
    BY Fields, Zenon DEF ProcRec, LocalsFit
  <2>2. t \in SinkRec
    <3>1. sink[proc[p].sink] \in SinkRec
      BY Fields
    <3> QED
      BY <3>1, SinkFields, Zenon DEF TimerStates
  <2>3. proc' = [proc EXCEPT ![p] = r]
    BY <1>7, Zenon DEF EndOffer
  <2>4. sink' = sink \/ sink' = [sink EXCEPT ![proc[p].sink] = t]
    BY <1>7 DEF EndOffer
  <2> HIDE DEF r, t
  <2>5. sink' \in [Queues -> SinkRec]
    BY <2>2, <2>4, Fields, SinkUpdate DEF TypeOK
  <2> QED
    BY <2>1, <2>3, <2>5, <1>7, ProcUpdate DEF EndOffer, TypeOK
<1>8. CASE RetryTimeout(p)
  BY <1>8, ThrowTypes DEF RetryTimeout
<1> QED
  BY <1>1, <1>2, <1>3, <1>4, <1>5, <1>6, <1>7, <1>8 DEF SendStep

\* Closing a queue preserves the types.
LEMMA CloseTypes ==
  ASSUME TypeOK, NEW p \in Producers, Close(p) \/ MarkCloseable(p) \/ CloseSink(p)
  PROVE  TypeOK'
<1>1. ASSUME NEW next \in {"close", "done"}, Capture(p, next), queue' \in [Queues -> QueueRec]
      PROVE  TypeOK'
  <2> DEFINE r == [proc[p] EXCEPT !.pc = next, !.sink = queue[Src[p]].sink]
  <2>1. r \in ProcRec /\ LocalsFit(r)
    BY Fields, Zenon DEF ProcRec, LocalsFit
  <2>2. proc' = [proc EXCEPT ![p] = r]
    BY <1>1, Zenon DEF Capture
  <2> HIDE DEF r
  <2> QED
    BY <2>1, <2>2, <1>1, ProcUpdate DEF Capture, TypeOK
<1>2. CASE Close(p)
  BY <1>1, <1>2 DEF Close, TypeOK
<1>3. CASE MarkCloseable(p)
  <2>1. [queue[Src[p]] EXCEPT !.closers = queue[Src[p]].closers - 1] \in QueueRec
    BY Fields, SMTT(30) DEF QueueRec
  <2>2. queue' \in [Queues -> QueueRec]
    BY <2>1, <1>3, Fields DEF MarkCloseable, TypeOK
  <2> QED
    BY <2>2, <1>1, <1>3 DEF MarkCloseable
<1>4. CASE CloseSink(p)
  <2> DEFINE s == proc[p].sink
             r == [proc[p] EXCEPT !.pc = "done"]
             t == [sink[s] EXCEPT !.closed = TRUE, !.dsts = <<>>,
                                  !.timer = IF @ = "nil" THEN @ ELSE "stopped"]
  <2>1. r \in ProcRec /\ LocalsFit(r)
    BY Fields, SMTT(30) DEF ProcRec, LocalsFit
  <2>2. proc' = [proc EXCEPT ![p] = r]
    BY <1>4 DEF CloseSink
  <2>3. sink' \in [Queues -> SinkRec]
    <3>1. t \in SinkRec
      <4>1. sink[s] \in SinkRec
        BY Fields
      <4>2. sink[s].timer \in TimerStates
        BY <4>1 DEF SinkRec
      <4>3. <<>> \in Seq(Chans)
        OBVIOUS
      <4>4. (IF sink[s].timer = "nil" THEN sink[s].timer ELSE "stopped") \in TimerStates
        BY <4>2 DEF TimerStates
      <4> QED
        BY <4>1, <4>3, <4>4, SinkFields, Zenon
    <3>2. sink' = sink \/ sink' = [sink EXCEPT ![s] = t]
      BY <1>4, Zenon DEF CloseSink
    <3> HIDE DEF t
    <3> QED
      BY <3>1, <3>2, Fields, SinkUpdate DEF TypeOK
  <2>4. chan' \in [Chans -> ChanRec]
    <3>1. \A c \in Chans : [chan[c] EXCEPT !.state = "closed"] \in ChanRec
      BY Fields DEF ChanRec
    <3> QED
      BY <3>1, <1>4, Fields, SMTT(30) DEF CloseSink, TypeOK
  <2> HIDE DEF r
  <2> QED
    BY <2>1, <2>2, <2>3, <2>4, <1>4, ProcUpdate DEF CloseSink, TypeOK
<1> QED
  BY <1>2, <1>3, <1>4

\* Every step preserves the types.
LEMMA TypeNext ==
  ASSUME TypeOK, [Next]_vars
  PROVE  TypeOK'
<1>1. CASE UNCHANGED vars
  BY <1>1 DEF vars, TypeOK, LocalsFit
<1>2. ASSUME NEW c \in Chans, Receive(c)
      PROVE  TypeOK'
  <2>1. [chan[c] EXCEPT !.read = @ + 1] \in ChanRec
    BY Fields DEF ChanRec
  <2>2. chan' \in [Chans -> ChanRec]
    BY <2>1, <1>2 DEF Receive, TypeOK
  <2> QED
    BY <2>2, <1>2 DEF Receive, TypeOK, LocalsFit
<1>3. ASSUME NEW s \in Queues, Tick(s)
      PROVE  TypeOK'
  <2>1. [sink[s] EXCEPT !.timer = "tick"] \in SinkRec
    BY Fields DEF SinkRec, TimerStates
  <2>2. sink' \in [Queues -> SinkRec]
    BY <2>1, <1>3, SinkUpdate, Zenon DEF Tick
  <2> QED
    BY <2>2, <1>3 DEF Tick, TypeOK, LocalsFit
<1>4. CASE CancelCtx
  BY <1>4 DEF CancelCtx, TypeOK, LocalsFit
<1> QED
  BY <1>1, <1>2, <1>3, <1>4, WiringTypes, SendTypes, CloseTypes DEF Next, Running

LEMMA TypeInit ==
  ASSUME Init
  PROVE  TypeOK
<1>1. queue \in [Queues -> QueueRec]
  BY QueueAssumption DEF Init, QueueRec
<1>2. sink \in [Queues -> SinkRec]
  BY DEF Init, SinkRec, TimerStates
<1>3. chan \in [Chans -> ChanRec]
  BY DEF Init, ChanRec
<1>4. proc \in [Producers -> ProcRec]
  BY QueueAssumption DEF Init, ProcRec
<1> QED
  BY <1>1, <1>2, <1>3, <1>4, Zenon DEF Init, TypeOK, LocalsFit

\* The structs and locals of the queue always have their types, and neither loop of send ever
\* indexes its snapshot out of range (LocalsFit).
THEOREM TypeCorrect == Spec => []TypeOK
BY TypeInit, TypeNext, PTL DEF Spec

-----------------------------------------------------------------------------
(* Routing.                                                                *)

\* RoutingCoherent speaks of the ends of a route: the inductive invariant adds that there is
\* always a route.
RoutingInv == RoutingCoherent /\ \A q \in Queues : queue[q].route # <<>>

\* A step that leaves the routing fields alone, and drops no timer, preserves the invariant.
RoutingKept ==
    /\ \A q \in Queues : /\ queue'[q].sink = queue[q].sink
                         /\ queue'[q].bypassed = queue[q].bypassed
                         /\ queue'[q].route = queue[q].route
    /\ \A s \in Queues : /\ sink'[s].members = sink[s].members
                         /\ sink'[s].timer = "nil" => sink[s].timer = "nil"

LEMMA RoutingFrame ==
  ASSUME TypeOK, RoutingInv, RoutingKept
  PROVE  RoutingInv'
<1>1. ASSUME NEW q \in Queues
      PROVE  /\ sink'[q].members = {m \in Queues : queue'[m].sink = q}
             /\ ~queue'[q].bypassed => queue'[q].sink = q
             /\ sink'[queue'[q].sink].timer # "nil"
             /\ Head(queue'[q].route) = q
             /\ queue'[q].route[Len(queue'[q].route)] = queue'[q].sink
             /\ queue'[q].route # <<>>
  <2>1. queue[q].sink \in Queues
    BY Fields
  <2> QED
    BY <2>1 DEF RoutingInv, RoutingCoherent, RoutingKept
<1> QED
  BY <1>1 DEF RoutingInv, RoutingCoherent

\* The route of a member of the source group, extended by the route of the destination,
\* leads from the member to the destination sink.
LEMMA RouteConcat ==
  ASSUME NEW r \in Seq(Queues), NEW t \in Seq(Queues), r # <<>>, t # <<>>
  PROVE  /\ Head(r \o t) = Head(r)
         /\ (r \o t)[Len(r \o t)] = t[Len(t)]
         /\ r \o t # <<>>
OBVIOUS

\* A merge of two different groups preserves the invariant.
LEMMA RoutingMerge ==
  ASSUME TypeOK, RoutingInv, NEW q \in Queues, NEW to \in Queues, ~queue[q].bypassed,
         queue[q].sink # queue[to].sink,
         queue' = MergedQueues([queue EXCEPT ![q].bypassed = TRUE], queue[q].sink,
                               queue[to].sink, to),
         sink' = MergedSinks(queue[q].sink, queue[to].sink)
  PROVE  RoutingInv'
<1> DEFINE src == queue[q].sink
           dst == queue[to].sink
           marked == [queue EXCEPT ![q].bypassed = TRUE]
<1>1. src \in Queues /\ dst \in Queues /\ src # dst /\ src = q
  BY Fields DEF RoutingInv, RoutingCoherent
<1>2. \A m \in Queues : m \in sink[src].members <=> queue[m].sink = src
  BY <1>1 DEF RoutingInv, RoutingCoherent
<1>3. \A m \in Queues : /\ marked[m].route = queue[m].route
                        /\ marked[m].sink = queue[m].sink
                        /\ m # q => marked[m].bypassed = queue[m].bypassed
                        /\ marked[q].bypassed
                        /\ marked[m] \in QueueRec
  <2>1. queue \in [Queues -> QueueRec]
    BY DEF TypeOK
  <2>2. marked \in [Queues -> QueueRec]
    BY BypassTypes
  <2>3. marked[q] = [queue[q] EXCEPT !.bypassed = TRUE]
    BY <2>1
  <2>4. \A m \in Queues : m # q => marked[m] = queue[m]
    BY <2>1
  <2>5. \A m \in Queues : marked[m] \in QueueRec /\ queue[m] \in QueueRec
    BY <2>1, <2>2
  <2>6. /\ marked[q].route = queue[q].route
        /\ marked[q].sink = queue[q].sink
        /\ marked[q].bypassed
    <3>1. queue[q] \in QueueRec
      BY <2>5
    <3> QED
      BY <2>3, <3>1 DEF QueueRec
  <2> HIDE DEF marked
  <2> QED
    BY <2>4, <2>5, <2>6
<1>4. \A m \in Queues : queue[m].sink = src =>
         /\ queue'[m].sink = dst
         /\ queue'[m].bypassed = marked[m].bypassed
         /\ queue'[m].route = queue[m].route \o queue[to].route
  BY <1>2, <1>3, ZenonT(30) DEF MergedQueues, QueueRec
<1>5. \A m \in Queues : queue[m].sink # src =>
         /\ queue'[m].sink = queue[m].sink
         /\ queue'[m].bypassed = queue[m].bypassed
         /\ queue'[m].route = queue[m].route
  BY <1>1, <1>2, <1>3, Zenon DEF MergedQueues
<1>6. /\ sink'[src].members = {}
      /\ sink'[dst].members = sink[dst].members \cup sink[src].members
      /\ sink'[dst].timer = sink[dst].timer
      /\ \A s \in Queues \ {src, dst} : sink'[s] = sink[s]
  <2>1. sink'[src] = [sink[src] EXCEPT !.members = {}, !.dsts = <<>>, !.timer = "nil"]
    BY <1>1, ZenonT(30) DEF MergedSinks
  <2>2. sink'[dst] = [sink[dst] EXCEPT !.members = @ \cup sink[src].members,
                                       !.dsts = @ \o sink[src].dsts]
    BY <1>1, ZenonT(30) DEF MergedSinks
  <2>3. \A s \in Queues \ {src, dst} : sink'[s] = sink[s]
    BY <1>1, Zenon DEF MergedSinks
  <2>4. sink[src] \in SinkRec /\ sink[dst] \in SinkRec
    BY <1>1, Fields
  <2> HIDE DEF src, dst
  <2> QED
    BY <2>1, <2>2, <2>3, <2>4 DEF SinkRec
<1> HIDE DEF src, dst, marked
<1>7. ASSUME NEW m \in Queues
      PROVE  sink'[m].members = {k \in Queues : queue'[k].sink = m}
  <2>1. sink[m].members = {k \in Queues : queue[k].sink = m}
    BY DEF RoutingInv, RoutingCoherent
  <2>2. CASE m = src
    <3>1. \A k \in Queues : queue'[k].sink # src
      BY <1>1, <1>4, <1>5, ZenonT(30)
    <3> QED
      BY <2>2, <3>1, <1>6, Zenon
  <2>3. CASE m = dst
    <3>1. \A k \in Queues : queue'[k].sink = dst <=> (queue[k].sink = dst \/ queue[k].sink = src)
      BY <1>4, <1>5, Zenon
    <3>2. sink[src].members = {k \in Queues : queue[k].sink = src}
      BY <1>1 DEF RoutingInv, RoutingCoherent
    <3> QED
      BY <2>1, <2>3, <3>1, <3>2, <1>6, Zenon
  <2>4. CASE m \in Queues \ {src, dst}
    <3>1. \A k \in Queues : queue'[k].sink = m <=> queue[k].sink = m
      BY <2>4, <1>4, <1>5, Zenon
    <3> QED
      BY <2>1, <2>4, <3>1, <1>6, Zenon
  <2> QED
    BY <2>2, <2>3, <2>4, Zenon
<1>8. ASSUME NEW m \in Queues
      PROVE  /\ ~queue'[m].bypassed => queue'[m].sink = m
             /\ sink'[queue'[m].sink].timer # "nil"
  <2>1. ~queue[m].bypassed => queue[m].sink = m
    BY DEF RoutingInv, RoutingCoherent
  <2>2. sink[queue[m].sink].timer # "nil" /\ sink[dst].timer # "nil"
    BY DEF RoutingInv, RoutingCoherent, dst
  <2>3. CASE queue[m].sink = src
    <3>1. m # q => queue[m].bypassed
      BY <2>1, <2>3, <1>1
    <3>2. queue'[m].bypassed
      BY <3>1, <2>3, <1>3, <1>4, Zenon
    <3> QED
      BY <3>2, <2>2, <2>3, <1>4, <1>6, ZenonT(30)
  <2>4. CASE queue[m].sink # src
    <3>1. queue'[m].sink = dst \/ queue'[m].sink \in Queues \ {src, dst}
      BY <2>4, <1>5, Fields, Zenon
    <3> QED
      BY <3>1, <2>1, <2>2, <2>4, <1>5, <1>6, ZenonT(30)
  <2> QED
    BY <2>3, <2>4, Zenon
<1>9. ASSUME NEW m \in Queues
      PROVE  /\ Head(queue'[m].route) = m
             /\ queue'[m].route[Len(queue'[m].route)] = queue'[m].sink
             /\ queue'[m].route # <<>>
  <2>1. \A k \in Queues : /\ queue[k].route \in Seq(Queues)
                          /\ queue[k].route # <<>>
                          /\ Head(queue[k].route) = k
                          /\ queue[k].route[Len(queue[k].route)] = queue[k].sink
    BY Fields DEF QueueRec, RoutingInv, RoutingCoherent
  <2>2. CASE queue[m].sink = src
    <3>1. queue[to].route[Len(queue[to].route)] = dst
      BY <2>1 DEF dst
    <3>2. LET r == queue[m].route \o queue[to].route
          IN  Head(r) = m /\ r[Len(r)] = dst /\ r # <<>>
      BY <2>1, <3>1, RouteConcat, Zenon
    <3> QED
      BY <3>2, <2>2, <1>4, Zenon
  <2>3. CASE queue[m].sink # src
    BY <2>1, <2>3, <1>5, Zenon
  <2> QED
    BY <2>2, <2>3, Zenon
<1> QED
  BY <1>7, <1>8, <1>9, Zenon DEF RoutingInv, RoutingCoherent

\* Every step preserves the routing invariant.
LEMMA RoutingNext ==
  ASSUME TypeOK, RoutingInv, [Next]_vars
  PROVE  RoutingInv'
<1>1. ASSUME queue' = queue, sink' = sink
      PROVE  RoutingInv'
  BY <1>1, RoutingFrame DEF RoutingKept
<1>2. ASSUME NEW s \in Queues, queue' = queue, NEW r \in SinkRec,
             r.members = sink[s].members, r.timer # "nil" \/ r.timer = sink[s].timer,
             sink' = [sink EXCEPT ![s] = r]
      PROVE  RoutingInv'
  <2>1. sink \in [Queues -> SinkRec]
    BY DEF TypeOK
  <2>2. \A t \in Queues : sink'[t] = IF t = s THEN r ELSE sink[t]
    BY <1>2, <2>1
  <2> QED
    BY <1>2, <2>2, RoutingFrame DEF RoutingKept
<1>3. ASSUME NEW s \in Queues, NEW t \in TimerStates \ {"nil"}, queue' = queue,
             sink' = [sink EXCEPT ![s] = [sink[s] EXCEPT !.timer = t]]
      PROVE  RoutingInv'
  <2> DEFINE r == [sink[s] EXCEPT !.timer = t]
  <2>1. sink[s] \in SinkRec
    BY Fields
  <2>2. r \in SinkRec /\ r.members = sink[s].members /\ r.timer # "nil"
    BY <2>1 DEF SinkRec
  <2> HIDE DEF r
  <2> QED
    BY <1>2, <1>3, <2>2, Zenon DEF r
<1>4. ASSUME NEW q \in Queues, NEW to \in Queues, Bypass(q, to)
      PROVE  RoutingInv'
  <2>1. CASE queue' = queue /\ sink' = sink
    BY <2>1, <1>1
  <2>2. CASE /\ ~queue[q].bypassed
             /\ queue[q].sink # queue[to].sink
             /\ queue' = MergedQueues([queue EXCEPT ![q].bypassed = TRUE], queue[q].sink,
                                      queue[to].sink, to)
             /\ sink' = MergedSinks(queue[q].sink, queue[to].sink)
    BY <2>2, RoutingMerge
  <2>3. CASE queue' = [queue EXCEPT ![q].bypassed = TRUE] /\ sink' = sink
    <3>1. queue \in [Queues -> QueueRec]
      BY DEF TypeOK
    <3>2. \A m \in Queues : queue'[m] = IF m = q THEN [queue[q] EXCEPT !.bypassed = TRUE]
                                                 ELSE queue[m]
      BY <2>3, <3>1
    <3>3. \A m \in Queues : /\ queue'[m].sink = queue[m].sink
                            /\ queue'[m].route = queue[m].route
                            /\ ~queue'[m].bypassed => ~queue[m].bypassed
      BY <3>1, <3>2 DEF QueueRec
    <3>4. ASSUME NEW m \in Queues
          PROVE  /\ sink'[m].members = {k \in Queues : queue'[k].sink = m}
                 /\ ~queue'[m].bypassed => queue'[m].sink = m
                 /\ sink'[queue'[m].sink].timer # "nil"
                 /\ Head(queue'[m].route) = m
                 /\ queue'[m].route[Len(queue'[m].route)] = queue'[m].sink
                 /\ queue'[m].route # <<>>
      BY <2>3, <3>3 DEF RoutingInv, RoutingCoherent
    <3> QED
      BY <3>4 DEF RoutingInv, RoutingCoherent
  <2> QED
    BY <1>4, <2>1, <2>2, <2>3 DEF Bypass, Throw
<1>5. ASSUME NEW q \in Queues, NEW c \in Chans, SubscribeAppend(q, c)
      PROVE  RoutingInv'
  <2> DEFINE s == queue[q].sink
             r == [sink[s] EXCEPT !.dsts = Append(@, c)]
  <2>1. s \in Queues /\ sink[s] \in SinkRec /\ sink[s].dsts \in Seq(Chans)
    BY Fields
  <2>2. Append(sink[s].dsts, c) \in Seq(Chans)
    BY <2>1
  <2>3. r \in SinkRec /\ r.members = sink[s].members /\ r.timer = sink[s].timer
    BY <2>1, <2>2, Zenon DEF SinkRec
  <2>4. queue' = queue /\ sink' = [sink EXCEPT ![s] = r]
    BY <1>5 DEF SubscribeAppend
  <2> HIDE DEF r, s
  <2> QED
    BY <1>2, <2>1, <2>3, <2>4, Zenon
<1>6. ASSUME NEW p \in Producers, SendCtx(p) \/ SendStep(p)
      PROVE  RoutingInv'
  <2>1. \/ queue' = queue /\ sink' = sink
        \/ \E t \in {"armed", "stopped"} :
              queue' = queue /\ sink' = [sink EXCEPT ![proc[p].sink].timer = t]
    BY <1>6, Zenon DEF SendCtx, SendStep, Snapshot, Deliver, DeliverClosed, Cancelled, OfferTimeout,
                EndOffer, RetryTimeout, Return, Throw
  <2> QED
    BY <2>1, <1>1, <1>3, Fields, Zenon DEF TimerStates
<1>7. ASSUME NEW p \in Producers, Close(p)
      PROVE  RoutingInv'
  BY <1>1, <1>7 DEF Close, Capture
<1>8. ASSUME NEW p \in Producers, MarkCloseable(p)
      PROVE  RoutingInv'
  <2>1. queue \in [Queues -> QueueRec] /\ Src[p] \in Queues
    BY Fields DEF TypeOK
  <2>2. \A q \in Queues : queue'[q] = IF q = Src[p]
                                      THEN [queue[q] EXCEPT !.closers = @ - 1] ELSE queue[q]
    BY <1>8, <2>1 DEF MarkCloseable
  <2>3. \A q \in Queues : /\ queue'[q].sink = queue[q].sink
                          /\ queue'[q].bypassed = queue[q].bypassed
                          /\ queue'[q].route = queue[q].route
    BY <2>1, <2>2, ZenonT(30) DEF QueueRec
  <2> QED
    BY <2>3, <1>8, RoutingFrame DEF RoutingKept, MarkCloseable, Capture
<1>9. ASSUME NEW p \in Producers, CloseSink(p)
      PROVE  RoutingInv'
  <2> DEFINE s == proc[p].sink
             r == [sink[s] EXCEPT !.closed = TRUE, !.dsts = <<>>,
                                  !.timer = IF @ = "nil" THEN @ ELSE "stopped"]
  <2>1. s \in Queues /\ sink[s] \in SinkRec
    BY Fields
  <2>2. r \in SinkRec /\ r.members = sink[s].members
    <3>1. (IF sink[s].timer = "nil" THEN sink[s].timer ELSE "stopped") \in TimerStates
      BY <2>1 DEF SinkRec, TimerStates
    <3>2. <<>> \in Seq(Chans)
      OBVIOUS
    <3>3. r \in SinkRec
      BY <2>1, <3>1, <3>2, SinkFields, Zenon
    <3> QED
      BY <2>1, <3>3 DEF SinkRec
  <2>3. r.timer # "nil" \/ r.timer = sink[s].timer
    BY <2>1 DEF SinkRec
  <2>4. queue' = queue /\ (sink' = sink \/ sink' = [sink EXCEPT ![s] = r])
    BY <1>9, Zenon DEF CloseSink
  <2> HIDE DEF r, s
  <2> QED
    BY <1>1, <1>2, <2>1, <2>2, <2>3, <2>4
<1>10. ASSUME NEW s \in Queues, Tick(s)
       PROVE  RoutingInv'
  BY <1>3, <1>10, Zenon DEF Tick, TimerStates
<1> QED
  BY <1>1, <1>4, <1>5, <1>6, <1>7, <1>8, <1>9, <1>10
     DEF Next, Wiring, Running, Subscribe, Start, Receive, CancelCtx, Throw, vars

LEMMA RoutingInit ==
  ASSUME Init
  PROVE  RoutingInv
<1>1. \A q \in Queues : /\ queue[q].sink = q
                        /\ queue[q].route = <<q>>
                        /\ sink[q].members = {q}
                        /\ sink[q].timer = "armed"
  BY DEF Init
<1>2. ASSUME NEW q \in Queues
      PROVE  /\ sink[q].members = {m \in Queues : queue[m].sink = q}
             /\ Head(queue[q].route) = q
             /\ queue[q].route[Len(queue[q].route)] = q
             /\ queue[q].route # <<>>
  <2>1. {m \in Queues : queue[m].sink = q} = {q}
    BY <1>1
  <2>2. <<q>> # <<>> /\ Head(<<q>>) = q /\ Len(<<q>>) = 1 /\ <<q>>[1] = q
    OBVIOUS
  <2> QED
    BY <2>1, <2>2, <1>1
<1> QED
  BY <1>1, <1>2 DEF RoutingInv, RoutingCoherent

LEMMA RoutingInvariant == Spec => []RoutingInv
BY TypeCorrect, RoutingInit, RoutingNext, PTL DEF Spec

\* Any sequence of Bypass calls, chains, diamonds and cycles included, leaves every queue
\* pointing at the one sink that lists it as a member and still has its timer.
THEOREM Routing == Spec => []RoutingCoherent
<1>1. RoutingInv => RoutingCoherent
  BY DEF RoutingInv
<1> QED
  BY <1>1, RoutingInvariant, PTL

=============================================================================

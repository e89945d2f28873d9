------------------------------- MODULE MsgQueue -------------------------------
(***************************************************************************)
(* The message queue that connects the nodes of every OBI pipeline         *)
(* (pkg/pipe/msg/queue.go).  A queue forwards each message to all the      *)
(* subscriber channels of its sink; Bypass merges the sinks of two queues, *)
(* so that a disabled node costs nothing; ClosingAttempts lets several     *)
(* producers share one queue and close it together.                        *)
(*                                                                         *)
(* A sink is named by the queue that created it.  A pipeline is first      *)
(* wired (Subscribe, Bypass) and then started: from then on producers send *)
(* and, when they finish, close.  Subscribe may also come late.            *)
(***************************************************************************)
EXTENDS Integers, Sequences, FiniteSets, Functions, FiniteSetsExt

CONSTANTS
    Queues,           \* the queues of a pipeline
    Chans,            \* subscriber channels that may be created
    Producers,        \* goroutines that send
    Src,              \* Src[p]: the queue that producer p sends to
    ClosingAttempts,  \* ClosingAttempts[q]: option of queue q
    PanicOnTimeout,   \* queues built with PanicOnSendTimeout()
    BufLen,           \* channelBufferLen
    MaxMsgs,          \* bound: messages that each producer sends
    LateSubscribe     \* whether Subscribe may run after the pipeline started

ASSUME QueueAssumption ==
    /\ Src \in [Producers -> Queues]
    /\ ClosingAttempts \in [Queues -> Nat \ {0}]
    /\ PanicOnTimeout \subseteq Queues
    /\ BufLen \in Nat \ {0}
    /\ MaxMsgs \in Nat
    /\ LateSubscribe \in BOOLEAN

VARIABLES
    queue,        \* queue[q]: its sink, bypassed, routeNames and remainingClosers
    sink,         \* sink[s]: its members, dsts (in order), closed flag and timer
    chan,         \* chan[c]: state, every message ever put in (log), how many were read
    proc,         \* proc[p]: a producer's place in the code and the locals of send
    subscribing,  \* the <<queue, channel>> of the Subscribe that holds bypassMu, if any
    started,      \* the swarm runs: wiring is over
    ctxDone,      \* the context given to SendCtx is cancelled
    panic         \* why the process panicked, or "none"

vars == <<queue, sink, chan, proc, subscribing, started, ctxDone, panic>>

Msgs == Producers \X (0 .. MaxMsgs)
TimerStates == {"armed", "tick", "stopped", "nil"}

\* NewQueue: a queue owns a sink of its own and is its only member.
Init ==
    /\ queue = [q \in Queues |-> [sink |-> q, bypassed |-> FALSE, route |-> <<q>>,
                                  closers |-> ClosingAttempts[q]]]
    /\ sink = [q \in Queues |-> [members |-> {q}, dsts |-> <<>>, closed |-> FALSE,
                                 timer |-> "armed"]]
    /\ chan = [c \in Chans |-> [state |-> "unused", log |-> <<>>, read |-> 0]]
    /\ proc = [p \in Producers |-> [pc |-> "idle", sink |-> Src[p], dsts |-> <<>>,
                                    todo |-> {}, blocked |-> {}, sent |-> 0]]
    /\ subscribing = {}
    /\ started = FALSE
    /\ ctxDone = FALSE
    /\ panic = "none"

-----------------------------------------------------------------------------
(* Wiring.  bypassMu serialises Subscribe, Bypass and the first half of    *)
(* Close and MarkCloseable.                                                *)

bypassMuFree == subscribing = {}

Throw(why) ==
    /\ panic' = why
    /\ UNCHANGED <<queue, sink, chan, proc, subscribing, started, ctxDone>>

\* Subscribe up to assertNotClosed, with bypassMu held from here on.
Subscribe(q, c) ==
    /\ bypassMuFree
    /\ started => LateSubscribe
    /\ chan[c].state = "unused"
    /\ IF sink[queue[q].sink].closed
       THEN Throw("closed")
       ELSE /\ subscribing' = {<<q, c>>}
            /\ UNCHANGED <<queue, sink, chan, proc, started, ctxDone, panic>>

\* The rest of Subscribe: under the sink's own mutex, create and register the channel.
\* A close of the sink may have come in between: it does not hold bypassMu.
SubscribeAppend(q, c) ==
    /\ <<q, c>> \in subscribing
    /\ chan' = [chan EXCEPT ![c].state = "open"]
    /\ sink' = [sink EXCEPT ![queue[q].sink].dsts = Append(@, c)]
    /\ subscribing' = {}
    /\ UNCHANGED <<queue, proc, started, ctxDone, panic>>

\* Variant: only the queue that owns the source sink is re-pointed, not its other members.
MergedQueuesOwnerOnly(qs, src, dst, to) ==
    [m \in Queues |-> IF m = src THEN [qs[m] EXCEPT !.sink = dst, !.route = @ \o qs[to].route]
                      ELSE qs[m]]

\* Variant: the members of the source are not added to the destination.
MergedSinksNoMembers(src, dst) ==
    [s \in Queues |->
        CASE s = src -> [sink[s] EXCEPT !.members = {}, !.dsts = <<>>, !.timer = "nil"]
          [] s = dst -> [sink[s] EXCEPT !.dsts = @ \o sink[src].dsts]
          [] OTHER   -> sink[s]]

\* Variant: the source keeps its subscribers.
MergedSinksKeepDsts(src, dst) ==
    [s \in Queues |->
        CASE s = src -> [sink[s] EXCEPT !.members = {}, !.timer = "nil"]
          [] s = dst -> [sink[s] EXCEPT !.members = @ \cup sink[src].members,
                                        !.dsts = @ \o sink[src].dsts]
          [] OTHER   -> sink[s]]

\* The groups of src and dst merge: every member of src now routes into dst, and src keeps
\* neither subscribers nor a timer.
MergedQueues(qs, src, dst, to) ==
    [m \in Queues |-> IF m \in sink[src].members
                      THEN [qs[m] EXCEPT !.sink = dst, !.route = @ \o qs[to].route]
                      ELSE qs[m]]

MergedSinks(src, dst) ==
    [s \in Queues |->
        CASE s = src -> [sink[s] EXCEPT !.members = {}, !.dsts = <<>>, !.timer = "nil"]
          [] s = dst -> [sink[s] EXCEPT !.members = @ \cup sink[src].members,
                                        !.dsts = @ \o sink[src].dsts]
          [] OTHER   -> sink[s]]

Bypass(q, to) ==
    LET src == queue[q].sink
        dst == queue[to].sink
        marked == [queue EXCEPT ![q].bypassed = TRUE]
    IN
    /\ ~started
    /\ bypassMuFree
    /\ IF q # to /\ sink[src].closed THEN Throw("closed")
       ELSE IF q = to \/ queue[q].bypassed THEN Throw("misuse")
       ELSE /\ queue' = IF src = dst THEN marked ELSE MergedQueues(marked, src, dst, to)
            /\ sink' = IF src = dst THEN sink ELSE MergedSinks(src, dst)
            /\ UNCHANGED <<chan, proc, subscribing, started, ctxDone, panic>>

\* The Instancer has built every node: the runner starts them.
Start ==
    /\ ~started
    /\ bypassMuFree
    /\ started' = TRUE
    /\ UNCHANGED <<queue, sink, chan, proc, subscribing, ctxDone, panic>>

-----------------------------------------------------------------------------
(* Send.  The sink's mutex is held only while dsts is copied, and the only *)
(* timer of a sink is shared by all the sends that go through it.          *)

\* SendCtx: assertNotClosed, then the call of sink.send.
SendCtx(p) ==
    /\ started
    /\ proc[p].pc = "idle"
    /\ proc[p].sent < MaxMsgs
    /\ IF sink[queue[Src[p]].sink].closed
       THEN Throw("closed")
       ELSE /\ proc' = [proc EXCEPT ![p].pc = "snapshot", ![p].sink = queue[Src[p]].sink,
                                    ![p].sent = @ + 1]
            /\ UNCHANGED <<queue, sink, chan, subscribing, started, ctxDone, panic>>

\* Variant: the loop over the copy goes one position too far.
SnapshotOneMore(p) ==
    LET s == proc[p].sink IN
    /\ proc[p].pc = "snapshot"
    /\ IF sink[s].dsts = <<>>
       THEN /\ proc' = [proc EXCEPT ![p].pc = "idle"]
            /\ UNCHANGED <<queue, sink, chan, subscribing, started, ctxDone, panic>>
       ELSE IF sink[s].timer = "nil" THEN Throw("nilTimer")
       ELSE /\ proc' = [proc EXCEPT ![p].pc = "offer", ![p].dsts = sink[s].dsts,
                                    ![p].todo = 1 .. Len(sink[s].dsts) + 1, ![p].blocked = {}]
            /\ sink' = [sink EXCEPT ![s].timer = "armed"]
            /\ UNCHANGED <<queue, chan, subscribing, started, ctxDone, panic>>

\* Copy the subscribers (none: the message is dropped) and arm the timer.
Snapshot(p) ==
    LET s == proc[p].sink IN
    /\ proc[p].pc = "snapshot"
    /\ IF sink[s].dsts = <<>>
       THEN /\ proc' = [proc EXCEPT ![p].pc = "idle"]
            /\ UNCHANGED <<queue, sink, chan, subscribing, started, ctxDone, panic>>
       ELSE IF sink[s].timer = "nil" THEN Throw("nilTimer")
       ELSE /\ proc' = [proc EXCEPT ![p].pc = "offer", ![p].dsts = sink[s].dsts,
                                    ![p].todo = DOMAIN sink[s].dsts, ![p].blocked = {}]
            /\ sink' = [sink EXCEPT ![s].timer = "armed"]
            /\ UNCHANGED <<queue, chan, subscribing, started, ctxDone, panic>>

\* The subscriber that the running loop is at.
Looping(p) == proc[p].pc \in {"offer", "retry"} /\ proc[p].todo # {}
Current(p) == Min(proc[p].todo)
CurrentChan(p) == proc[p].dsts[Current(p)]
HasRoom(c) == Len(chan[c].log) - chan[c].read < BufLen

\* case d.ch <- o, in either loop.
Deliver(p) ==
    LET c == CurrentChan(p) IN
    /\ Looping(p)
    /\ chan[c].state = "open"
    /\ HasRoom(c)
    /\ chan' = [chan EXCEPT ![c].log = Append(@, <<p, proc[p].sent>>)]
    /\ proc' = [proc EXCEPT ![p].todo = @ \ {Current(p)}]
    /\ UNCHANGED <<queue, sink, subscribing, started, ctxDone, panic>>

\* case d.ch <- o on a channel that was closed meanwhile.
DeliverClosed(p) ==
    /\ Looping(p)
    /\ chan[CurrentChan(p)].state = "closed"
    /\ Throw("sendOnClosed")

\* case <-ctx.Done(), in either loop: the send gives up.
Cancelled(p) ==
    /\ Looping(p)
    /\ ctxDone
    /\ proc' = [proc EXCEPT ![p].pc = "idle"]
    /\ UNCHANGED <<queue, sink, chan, subscribing, started, ctxDone, panic>>

\* Variant: the blocked subscriber is not put aside.
OfferTimeoutForgets(p) ==
    /\ Looping(p)
    /\ proc[p].pc = "offer"
    /\ sink[proc[p].sink].timer = "tick"
    /\ sink' = [sink EXCEPT ![proc[p].sink].timer = "stopped"]
    /\ proc' = [proc EXCEPT ![p].todo = @ \ {Current(p)}]
    /\ UNCHANGED <<queue, chan, subscribing, started, ctxDone, panic>>

\* case <-s.sendTimeout.C in the first loop: the tick is consumed and d put aside.
OfferTimeout(p) ==
    /\ Looping(p)
    /\ proc[p].pc = "offer"
    /\ sink[proc[p].sink].timer = "tick"
    /\ sink' = [sink EXCEPT ![proc[p].sink].timer = "stopped"]
    /\ proc' = [proc EXCEPT ![p].todo = @ \ {Current(p)},
                            ![p].blocked = @ \cup {Current(p)}]
    /\ UNCHANGED <<queue, chan, subscribing, started, ctxDone, panic>>

\* Variants: the second loop visits all the subscribers; its timer is not set.
EndOfferWith(p, todo, rearm) ==
    LET s == proc[p].sink IN
    /\ proc[p].pc = "offer"
    /\ proc[p].todo = {}
    /\ proc' = [proc EXCEPT ![p].pc = "retry", ![p].todo = todo]
    /\ sink' = IF rearm /\ s \in PanicOnTimeout THEN [sink EXCEPT ![s].timer = "armed"] ELSE sink
    /\ UNCHANGED <<queue, chan, subscribing, started, ctxDone, panic>>

EndOfferAll(p) == EndOfferWith(p, DOMAIN proc[p].dsts, TRUE)
EndOfferNoReset(p) == EndOfferWith(p, proc[p].blocked, FALSE)

\* End of the first loop: visit the blocked ones again, with a new tick if panicking is on.
EndOffer(p) ==
    LET s == proc[p].sink IN
    /\ proc[p].pc = "offer"
    /\ proc[p].todo = {}
    /\ proc' = [proc EXCEPT ![p].pc = "retry", ![p].todo = proc[p].blocked]
    /\ sink' = IF s \in PanicOnTimeout THEN [sink EXCEPT ![s].timer = "armed"] ELSE sink
    /\ UNCHANGED <<queue, chan, subscribing, started, ctxDone, panic>>

\* case <-s.sendTimeout.C in the second loop.
RetryTimeout(p) ==
    /\ Looping(p)
    /\ proc[p].pc = "retry"
    /\ proc[p].sink \in PanicOnTimeout
    /\ sink[proc[p].sink].timer = "tick"
    /\ Throw("blocked")

Return(p) ==
    /\ proc[p].pc = "retry"
    /\ proc[p].todo = {}
    /\ proc' = [proc EXCEPT ![p].pc = "idle"]
    /\ UNCHANGED <<queue, sink, chan, subscribing, started, ctxDone, panic>>

SendStep(p) ==
    \/ Snapshot(p) \/ Deliver(p) \/ DeliverClosed(p) \/ Cancelled(p)
    \/ OfferTimeout(p) \/ EndOffer(p) \/ RetryTimeout(p) \/ Return(p)

-----------------------------------------------------------------------------
(* Closing.                                                                *)

\* Close and MarkCloseable first read the sink under bypassMu.
Capture(p, next) ==
    /\ started
    /\ proc[p].pc = "idle"
    /\ bypassMuFree
    /\ proc' = [proc EXCEPT ![p].pc = next, ![p].sink = queue[Src[p]].sink]
    /\ UNCHANGED <<sink, chan, subscribing, started, ctxDone, panic>>

\* Close, called by a node that is the only producer of its output queue.
Close(p) ==
    /\ \A r \in Producers : Src[r] = Src[p] => r = p
    /\ Capture(p, "close")
    /\ UNCHANGED queue

\* Variants: the queue is closed one attempt too early, or too late.
MarkCloseableEarly(p) ==
    LET left == queue[Src[p]].closers - 1 IN
    /\ Capture(p, IF left <= 1 THEN "close" ELSE "done")
    /\ queue' = [queue EXCEPT ![Src[p]].closers = left]

MarkCloseableLate(p) ==
    LET left == queue[Src[p]].closers - 1 IN
    /\ Capture(p, IF left < 0 THEN "close" ELSE "done")
    /\ queue' = [queue EXCEPT ![Src[p]].closers = left]

\* MarkCloseable: count down, and close only when nobody is left.
MarkCloseable(p) ==
    LET left == queue[Src[p]].closers - 1 IN
    /\ Capture(p, IF left <= 0 THEN "close" ELSE "done")
    /\ queue' = [queue EXCEPT ![Src[p]].closers = left]

\* sink.close, under the sink's mutex; closing again is a no-op.
CloseSink(p) ==
    LET s == proc[p].sink IN
    /\ proc[p].pc = "close"
    /\ proc' = [proc EXCEPT ![p].pc = "done"]
    /\ IF sink[s].closed
       THEN UNCHANGED <<sink, chan>>
       ELSE /\ sink' = [sink EXCEPT ![s].closed = TRUE, ![s].dsts = <<>>,
                                    ![s].timer = IF @ = "nil" THEN @ ELSE "stopped"]
            /\ chan' = [c \in Chans |-> IF c \in Range(sink[s].dsts)
                                        THEN [chan[c] EXCEPT !.state = "closed"]
                                        ELSE chan[c]]
    /\ UNCHANGED <<queue, subscribing, started, ctxDone, panic>>

-----------------------------------------------------------------------------
(* Subscribers, the clock and the context.                                 *)

\* A subscriber takes the next message of its channel, also after the channel is closed.
Receive(c) ==
    /\ chan[c].read < Len(chan[c].log)
    /\ chan' = [chan EXCEPT ![c].read = @ + 1]
    /\ UNCHANGED <<queue, sink, proc, subscribing, started, ctxDone, panic>>

\* The armed timer of a sink expires while a send waits on it: one tick per Reset.  (A tick
\* that nobody waits for is discarded by the next Reset, so it is left out.)
Tick(s) ==
    /\ \E p \in Producers : Looping(p) /\ proc[p].sink = s
    /\ sink[s].timer = "armed"
    /\ sink' = [sink EXCEPT ![s].timer = "tick"]
    /\ UNCHANGED <<queue, chan, proc, subscribing, started, ctxDone, panic>>

CancelCtx ==
    /\ started
    /\ ~ctxDone
    /\ ctxDone' = TRUE
    /\ UNCHANGED <<queue, sink, chan, proc, subscribing, started, panic>>

Wiring ==
    \/ \E q \in Queues, c \in Chans : Subscribe(q, c) \/ SubscribeAppend(q, c)
    \/ \E q, to \in Queues : Bypass(q, to)
    \/ Start

Running ==
    \/ \E p \in Producers : SendCtx(p) \/ SendStep(p)
    \/ \E p \in Producers : Close(p) \/ MarkCloseable(p) \/ CloseSink(p)
    \/ \E c \in Chans : Receive(c)
    \/ \E s \in Queues : Tick(s)
    \/ CancelCtx

\* A panic ends the process.
Next == panic = "none" /\ (Wiring \/ Running)

Spec == Init /\ [][Next]_vars

-----------------------------------------------------------------------------
(* Properties.                                                             *)

QueueRec == [sink: Queues, bypassed: BOOLEAN, route: Seq(Queues), closers: Int]
SinkRec == [members: SUBSET Queues, dsts: Seq(Chans), closed: BOOLEAN, timer: TimerStates]
ChanRec == [state: {"unused", "open", "closed"}, log: Seq(Msgs), read: Nat]
ProcRec == [pc: {"idle", "snapshot", "offer", "retry", "close", "done"}, sink: Queues,
            dsts: Seq(Chans), todo: SUBSET Nat, blocked: SUBSET Nat, sent: 0 .. MaxMsgs]

\* What send relies on between its steps: its indexes are positions of its own snapshot.
LocalsFit(r) ==
    /\ r.todo \subseteq DOMAIN r.dsts
    /\ r.blocked \subseteq DOMAIN r.dsts

\* The fields of the Go structs, and the locals of send, have the types the code gives them;
\* neither loop of send has a position left that its snapshot does not have.
TypeOK ==
    /\ queue \in [Queues -> QueueRec]
    /\ sink \in [Queues -> SinkRec]
    /\ chan \in [Chans -> ChanRec]
    /\ proc \in [Producers -> ProcRec]
    /\ \A p \in Producers : LocalsFit(proc[p])
    /\ subscribing \in SUBSET (Queues \X Chans)
    /\ started \in BOOLEAN
    /\ ctxDone \in BOOLEAN
    /\ panic \in {"none", "closed", "misuse", "nilTimer", "sendOnClosed", "blocked"}

\* The bookkeeping of Bypass is coherent: the members of a sink are exactly the queues that
\* point to it, a queue that never bypassed still owns its sink, the sink a queue points to
\* never lost its timer, and the diagnostic route of a queue leads from it to its sink.
RoutingCoherent ==
    \A q \in Queues :
        /\ sink[q].members = {m \in Queues : queue[m].sink = q}
        /\ ~queue[q].bypassed => queue[q].sink = q
        /\ sink[queue[q].sink].timer # "nil"
        /\ Head(queue[q].route) = q
        /\ queue[q].route[Len(queue[q].route)] = queue[q].sink

\* A subscriber channel is registered once, in one sink: Subscribe, Bypass and close may
\* move or drop it but no message can reach it twice.
SubscribedOnce ==
    \A s, t \in Queues : \A i \in DOMAIN sink[s].dsts, j \in DOMAIN sink[t].dsts :
        sink[s].dsts[i] = sink[t].dsts[j] => s = t /\ i = j

\* Each subscriber sees the messages of one producer in the order they were sent and never
\* twice, although a message for a blocked subscriber is set aside and offered again, the
\* timer is shared with the other senders and subscribers come and go.
OrderedOnce ==
    \A c \in Chans : \A i, j \in DOMAIN chan[c].log :
        (i < j /\ chan[c].log[i][1] = chan[c].log[j][1])
            => chan[c].log[i][2] < chan[c].log[j][2]

Delivered(p, i) == <<p, proc[p].sent>> \in Range(chan[proc[p].dsts[i]].log)

\* No subscriber of the snapshot is forgotten: at any point of send, a subscriber is still
\* to be visited, or was put aside, or has the message.  So a send that returns without
\* being cancelled has delivered to all of them.
DeliversToAll ==
    \A p \in Producers : proc[p].pc \in {"offer", "retry"} =>
        \A i \in DOMAIN proc[p].dsts :
            \/ i \in proc[p].todo
            \/ proc[p].pc = "offer" /\ i \in proc[p].blocked
            \/ Delivered(p, i)

\* When every producer of a queue counts as one of its closers, no producer ever finds the
\* queue, or a channel of its snapshot, closed (assertNotClosed, send on closed channel),
\* nor a sink without its timer.
NoSendAfterClose == panic \notin {"closed", "sendOnClosed", "nilTimer"}

\* A pending select of a send completes when one of its cases is ready, and time passes.
SendFairness ==
    /\ \A p \in Producers : WF_vars(panic = "none" /\ SendStep(p))
    /\ \A s \in Queues : WF_vars(panic = "none" /\ Tick(s))

\* Producers finish by closing, and subscribers keep reading their channels.
NodeFairness ==
    /\ \A p \in Producers :
          WF_vars(panic = "none" /\ (Close(p) \/ MarkCloseable(p) \/ CloseSink(p)))
    /\ \A c \in Chans : WF_vars(panic = "none" /\ Receive(c))
    /\ WF_vars(panic = "none" /\ \E q \in Queues, c \in Chans : SubscribeAppend(q, c))
    /\ WF_vars(panic = "none" /\ Start)

SendSpec == Spec /\ SendFairness

\* With PanicOnSendTimeout, a send never hangs on a subscriber that stopped reading: it
\* returns or panics ("It panics if after a send operation, the channel is blocked for more
\* than this timeout").
BlockedSendEnds ==
    \A p \in Producers : (proc[p].pc = "snapshot") ~> (proc[p].pc = "idle" \/ panic # "none")

\* If the producers finish and the subscribers keep reading, every subscriber of a queue's
\* bypass group drains its channel and sees it closed, unless the process panicked for a
\* blocked send or a Bypass of a queue that is bypassed already.
CloseReachesSubscribers ==
    NodeFairness =>
        \A c \in Chans, p \in Producers :
            (c \in Range(sink[queue[Src[p]].sink].dsts))
                ~> \/ chan[c].state = "closed" /\ chan[c].read = Len(chan[c].log)
                   \/ panic \in {"blocked", "misuse"}

=============================================================================

--------------------------- MODULE RingbufForwarder ---------------------------
(***************************************************************************)
(* The forwarder between a BPF ring buffer and a message queue             *)
(* (pkg/ebpf/common/ringbuf.go).  Six goroutines share it: the reader      *)
(* fills slots of a record pool, the parser empties them into a batch, the *)
(* batch timer sends a batch that stays incomplete, the flusher wakes a    *)
(* reader that sleeps on unread records, the canceller closes the reader   *)
(* when the context is cancelled, and the caller waits for the end.        *)
(***************************************************************************)
EXTENDS Integers, Sequences, SequencesExt

CONSTANTS
    NRecords,       \* bound: records that the BPF programs commit
    Ignored,        \* records that the parser rejects or ignores, or the filter drops
    BatchLength,    \* EBPFTracer.BatchLength
    BatchTimeout,   \* whether EBPFTracer.BatchTimeout > 0
    Shared,         \* sharedReadAndForward (TRUE) or readAndForward (FALSE)
    Closes,         \* whether the caller calls out.MarkCloseable when the function returns
    OutCap,         \* buffer length of the channel of out's subscriber
    Cancels         \* whether the context may be cancelled

\* EBPFTracer.BatchLength is validated as gt=0 (pkg/config/ebpf_tracer.go).
ASSUME ForwarderAssumption ==
    /\ NRecords \in Nat
    /\ BatchLength \in Nat \ {0}
    /\ OutCap \in Nat \ {0}
    /\ {BatchTimeout, Shared, Closes, Cancels} \subseteq BOOLEAN

Records == 1 .. NRecords
Kept == Records \ Ignored
Slots == 1 .. 2 * BatchLength   \* indices of the record pool: poolSize is twice a batch
NoSlot == 0
Dead == 0   \* content of a slot that nobody reads before ReadInto overwrites it

VARIABLES
    committed,  \* records 1 .. committed were committed by the BPF programs
    ring,       \* committed records that the reader has not consumed
    rb,         \* the cilium ringbuf.Reader
    ctxDone,    \* ctx is cancelled
    caller,     \* readAndForward or sharedReadAndForward, and its caller
    reader,     \* readerLoop
    records,    \* the record pool
    freeIdx,    \* the slots in the channel of free ones, whose order does not matter
    workIdx,    \* channel of filled slots, closed when readerLoop returns
    parser,     \* parserLoop
    items,      \* rbf.items[:rbf.itemsLen]
    access,     \* holder of rbf.access
    timer,      \* bgFlushOnTimeout
    tick,       \* a tick is waiting in rbf.ticker.C
    flusher,    \* flushOnAvailableBytes
    idle,       \* the last read is more than readerStalledAfter old
    readerLock, \* holder of rbf.readerLock
    canceller,  \* bgListenContextCancelation or bgListenSharedContextCancelation
    resources,  \* the eBPF resources (closers): "open" or "closed"
    out,        \* the output queue: batches its subscriber has yet to receive, and whether it is closed
    sent,       \* history: every batch that reached out
    panic       \* why the process panicked, or "none"

ringVars == <<committed, ring, rb>>
poolVars == <<reader, records, freeIdx, workIdx>>
batchVars == <<items, access, tick, out, sent>>
flushVars == <<flusher, idle, readerLock>>
endVars == <<caller, canceller, resources>>
vars == <<committed, ring, rb, ctxDone, caller, reader, records, freeIdx, workIdx, parser, items, access,
          timer, tick, flusher, idle, readerLock, canceller, resources, out, sent, panic>>

\* The output queue of a shared forwarder belongs to all the tracers: others may have filled it.
Init ==
    /\ committed = 0
    /\ ring = << >>
    /\ rb = [haveData |-> FALSE, pendingErr |-> FALSE, woken |-> FALSE, flushed |-> FALSE, closed |-> FALSE]
    /\ ctxDone = FALSE
    /\ caller = "start"
    /\ reader = [pc |-> "none", slot |-> NoSlot]
    /\ records = [i \in Slots |-> Dead]
    /\ freeIdx = Slots
    /\ workIdx = [slots |-> << >>, closed |-> FALSE]
    /\ parser = [pc |-> "none", pending |-> << >>, parsed |-> << >>]
    /\ items = << >>
    /\ access = "none"
    /\ timer = "none"
    /\ tick = FALSE
    /\ flusher = "none"
    /\ idle = TRUE
    /\ readerLock = "none"
    /\ canceller = "none"
    /\ resources = "open"
    /\ \E n \in 0 .. OutCap : out = [buffered |-> IF Shared THEN n ELSE 0, closed |-> FALSE]
    /\ sent = << >>
    /\ panic = "none"

-----------------------------------------------------------------------------
(* The environment: BPF programs, the context, the clock, out's subscriber *)

\* A BPF program commits a record.  wakeup_flags may ask for no wakeup, so a sleeping reader is
\* woken or not.
BpfSubmit ==
    /\ committed < NRecords
    /\ committed' = committed + 1
    /\ ring' = Append(ring, committed + 1)
    /\ \E w \in BOOLEAN : rb' = [rb EXCEPT !.woken = @ \/ (w /\ reader.pc = "asleep")]
    /\ UNCHANGED <<ctxDone, poolVars, parser, batchVars, timer, flushVars, endVars, panic>>

CancelCtx ==
    /\ Cancels
    /\ ~ctxDone
    /\ ctxDone' = TRUE
    /\ UNCHANGED <<ringVars, poolVars, parser, batchVars, timer, flushVars, endVars, panic>>

\* A tick of the batch timer, while somebody is left to receive it.
BatchTick ==
    /\ timer \notin {"none", "end"}
    /\ ~tick
    /\ tick' = TRUE
    /\ UNCHANGED <<ringVars, ctxDone, poolVars, parser, items, access, out, sent, timer, flushVars, endVars, panic>>

\* More than readerStalledAfter passes without a read, while the flusher looks at it.
IdlePasses ==
    /\ ~idle
    /\ flusher # "end"
    /\ idle' = TRUE
    /\ UNCHANGED <<ringVars, ctxDone, poolVars, parser, batchVars, timer, flusher, readerLock, endVars, panic>>

SubscriberReceives ==
    /\ out.buffered > 0
    /\ out' = [out EXCEPT !.buffered = @ - 1]
    /\ UNCHANGED <<ringVars, ctxDone, poolVars, parser, items, access, tick, sent, timer, flushVars, endVars, panic>>

-----------------------------------------------------------------------------
(* readAndForward, sharedReadAndForward and readAndForwardInner            *)

StartFails ==
    /\ caller = "start"
    /\ caller' = "failed"
    /\ UNCHANGED <<ringVars, ctxDone, poolVars, parser, batchVars, timer, flushVars, canceller, resources, panic>>

Start ==
    /\ caller = "start"
    /\ caller' = "inner"
    /\ reader' = [reader EXCEPT !.pc = "take"]
    /\ parser' = [parser EXCEPT !.pc = "wait"]
    /\ timer' = IF BatchTimeout THEN "wait" ELSE "none"
    /\ flusher' = "wait"
    /\ canceller' = "wait"
    /\ UNCHANGED <<ringVars, ctxDone, records, freeIdx, workIdx, batchVars, idle, readerLock, resources, panic>>

\* Variant: sharedReadAndForward does not wait for the canceller.
ForwardReturnsAtOnce ==
    /\ caller = "inner"
    /\ reader.pc = "end"
    /\ caller' = "returned"
    /\ UNCHANGED <<ringVars, ctxDone, poolVars, parser, batchVars, timer, flushVars, canceller, resources, panic>>

\* sharedReadAndForward waits for the canceller; readAndForward closes the reader and the closers
\* in its deferred closeAllResources, without readerLock.
ForwardReturns ==
    /\ caller = "inner"
    /\ reader.pc = "end"
    /\ \/ /\ Shared
          /\ canceller = "end"
          /\ UNCHANGED <<rb, resources>>
       \/ /\ ~Shared
          /\ rb' = [rb EXCEPT !.closed = TRUE]
          /\ resources' = "closed"
    /\ caller' = "returned"
    /\ UNCHANGED <<committed, ring, ctxDone, poolVars, parser, batchVars, timer, flushVars, canceller, panic>>

\* The caller's deferred out.MarkCloseable (pkg/internal/statsolly/stats/tracer_ringbuf.go), also when
\* the reader could not be created.
MarkCloseable ==
    /\ Closes
    /\ caller \in {"returned", "failed"}
    /\ ~out.closed
    /\ out' = [out EXCEPT !.closed = TRUE]
    /\ UNCHANGED <<ringVars, ctxDone, poolVars, parser, items, access, tick, sent, timer, flushVars,
                   endVars, panic>>

CancellerCloses ==
    /\ canceller = "wait"
    /\ ctxDone
    /\ readerLock = "none"
    /\ rb' = [rb EXCEPT !.closed = TRUE]
    /\ canceller' = IF Shared THEN "closeAll" ELSE "end"
    /\ UNCHANGED <<committed, ring, ctxDone, poolVars, parser, batchVars, timer, flushVars, caller, resources, panic>>

CancellerClosesAll ==
    /\ canceller = "closeAll"
    /\ canceller' = "end"
    /\ resources' = "closed"
    /\ UNCHANGED <<ringVars, ctxDone, poolVars, parser, batchVars, timer, flushVars, caller, panic>>

-----------------------------------------------------------------------------
(* readerLoop and fillAndDispatch.  ReadInto is cilium's: it returns the   *)
(* records one by one while there are any, reports a flush once they are   *)
(* consumed, and otherwise sleeps until the kernel, Flush or Close wakes   *)
(* it.                                                                     *)

\* Free slots are interchangeable, as ReadInto overwrites the one it gets: the least one stands for
\* the head of the channel.
TakeSlot ==
    /\ reader.pc = "take"
    /\ freeIdx # {}
    /\ reader' = [pc |-> "read", slot |-> Min(freeIdx)]
    /\ freeIdx' = freeIdx \ {Min(freeIdx)}
    /\ UNCHANGED <<ringVars, ctxDone, records, workIdx, parser, batchVars, timer, flushVars, endVars, panic>>

\* readerLoop returns: deferred close(workIdx).
EndReader ==
    /\ reader' = [pc |-> "end", slot |-> NoSlot]
    /\ workIdx' = [workIdx EXCEPT !.closed = TRUE]

ReaderQuits ==
    /\ reader.pc = "take"
    /\ ctxDone
    /\ EndReader
    /\ UNCHANGED <<ringVars, ctxDone, records, freeIdx, parser, batchVars, timer, flushVars, endVars, panic>>

\* Variant: the slot is forgotten before it is given back.
GiveSlotBackForgotten == freeIdx' = freeIdx \cup {NoSlot}

GiveSlotBack == freeIdx' = freeIdx \cup {reader.slot}

ReadRecord ==
    /\ reader.pc = "read"
    /\ ~rb.closed
    /\ rb.haveData
    /\ ring # << >>
    /\ records' = [records EXCEPT ![reader.slot] = Head(ring)]
    /\ ring' = Tail(ring)
    /\ idle' = FALSE
    /\ reader' = [reader EXCEPT !.pc = "dispatch"]
    /\ UNCHANGED <<committed, rb, ctxDone, freeIdx, workIdx, parser, batchVars, timer, flusher, readerLock,
                   endVars, panic>>

\* The ring is empty, or poll says whether it is: no record yet.
ReadWaits ==
    /\ ~rb.closed
    /\ \/ /\ reader.pc = "read"
          /\ rb.haveData
          /\ ring = << >>
          /\ rb' = [rb EXCEPT !.haveData = FALSE]
          /\ UNCHANGED reader
       \/ /\ reader.pc = "read"
          /\ ~rb.haveData /\ ~rb.pendingErr /\ ~rb.flushed
          /\ ring = << >>
          /\ reader' = [reader EXCEPT !.pc = "asleep"]
          /\ UNCHANGED rb
       \/ /\ \/ reader.pc = "read" /\ ~rb.haveData /\ ~rb.pendingErr /\ (rb.flushed \/ ring # << >>)
             \/ reader.pc = "asleep" /\ (rb.flushed \/ rb.woken)
          /\ reader' = [reader EXCEPT !.pc = "read"]
          /\ rb' = [rb EXCEPT !.haveData = TRUE, !.pendingErr = rb.flushed, !.flushed = FALSE, !.woken = FALSE]
    /\ UNCHANGED <<committed, ring, ctxDone, records, freeIdx, workIdx, parser, batchVars, timer, flushVars,
                   endVars, panic>>

\* Variant: the slot is not returned when the read reports a flush.
ReadFlushedKeepsSlot ==
    /\ reader.pc = "read"
    /\ ~rb.closed
    /\ ~rb.haveData
    /\ rb.pendingErr
    /\ rb' = [rb EXCEPT !.pendingErr = FALSE]
    /\ reader' = [pc |-> "take", slot |-> NoSlot]
    /\ UNCHANGED <<committed, ring, ctxDone, records, freeIdx, workIdx, parser, batchVars, timer, flushVars,
                   endVars, panic>>

ReadFlushed ==
    /\ reader.pc = "read"
    /\ ~rb.closed
    /\ ~rb.haveData
    /\ rb.pendingErr
    /\ rb' = [rb EXCEPT !.pendingErr = FALSE]
    /\ GiveSlotBack
    /\ reader' = [pc |-> "take", slot |-> NoSlot]
    /\ UNCHANGED <<committed, ring, ctxDone, records, workIdx, parser, batchVars, timer, flushVars, endVars, panic>>

\* Any other error of poll is logged and the loop goes on.
ReadFails ==
    /\ reader.pc \in {"read", "asleep"}
    /\ ~rb.closed
    /\ ~rb.haveData
    /\ ~rb.pendingErr
    /\ rb' = [rb EXCEPT !.woken = FALSE]
    /\ GiveSlotBack
    /\ reader' = [pc |-> "take", slot |-> NoSlot]
    /\ UNCHANGED <<committed, ring, ctxDone, records, workIdx, parser, batchVars, timer, flushVars, endVars, panic>>

ReadClosed ==
    /\ reader.pc \in {"read", "asleep"}
    /\ rb.closed
    /\ GiveSlotBack
    /\ EndReader
    /\ UNCHANGED <<ringVars, ctxDone, records, parser, batchVars, timer, flushVars, endVars, panic>>

\* After a record is read: the slot goes to the parser, or the cancelled loop drops it.
Dispatch ==
    /\ reader.pc = "dispatch"
    /\ \/ /\ workIdx' = [workIdx EXCEPT !.slots = Append(@, reader.slot)]
          /\ reader' = [pc |-> "take", slot |-> NoSlot]
       \/ ctxDone /\ EndReader
    /\ UNCHANGED <<ringVars, ctxDone, records, freeIdx, parser, batchVars, timer, flushVars, endVars, panic>>

-----------------------------------------------------------------------------
(* parserLoop                                                              *)

ParserReceives ==
    /\ parser.pc \in {"wait", "drain"}
    /\ workIdx.slots # << >>
    /\ parser' = [parser EXCEPT !.pc = "drain", !.pending = Append(@, Head(workIdx.slots))]
    /\ workIdx' = [workIdx EXCEPT !.slots = Tail(@)]
    /\ UNCHANGED <<ringVars, ctxDone, reader, records, freeIdx, batchVars, timer, flushVars, endVars, panic>>

ParserQuits ==
    /\ parser.pc = "wait"
    /\ ctxDone \/ (workIdx.closed /\ workIdx.slots = << >>)
    /\ parser' = [parser EXCEPT !.pc = "end"]
    /\ UNCHANGED <<ringVars, ctxDone, poolVars, batchVars, timer, flushVars, endVars, panic>>

ParserDrained ==
    /\ parser.pc = "drain"
    /\ workIdx.slots = << >>
    /\ parser' = [parser EXCEPT !.pc = "parse"]
    /\ UNCHANGED <<ringVars, ctxDone, poolVars, batchVars, timer, flushVars, endVars, panic>>

\* Variant: what is parsed is not kept when the slot that follows it is ignored.
ParserParsesLast ==
    /\ parser.pc = "parse"
    /\ LET slot == Head(parser.pending)
           pending == Tail(parser.pending)
           parsed == IF records[slot] \in Kept THEN Append(parser.parsed, records[slot]) ELSE << >>
           next == CASE pending # << >> -> "parse"
                     [] pending = << >> /\ parsed = << >> -> "wait"
                     [] OTHER -> "lock"
       IN  /\ freeIdx' = freeIdx \cup {slot}
           /\ records' = [records EXCEPT ![slot] = Dead]
           /\ parser' = [pc |-> next, pending |-> pending, parsed |-> parsed]
    /\ UNCHANGED <<ringVars, ctxDone, reader, workIdx, batchVars, timer, flushVars, endVars, panic>>

\* One pending record is parsed and its slot returned; after the last one the parser locks access,
\* or waits again if nothing is kept.
ParserParses ==
    /\ parser.pc = "parse"
    /\ LET slot == Head(parser.pending)
           pending == Tail(parser.pending)
           parsed == IF records[slot] \in Kept THEN Append(parser.parsed, records[slot]) ELSE parser.parsed
           next == CASE pending # << >> -> "parse"
                     [] pending = << >> /\ parsed = << >> -> "wait"
                     [] OTHER -> "lock"
       IN  /\ freeIdx' = freeIdx \cup {slot}
           /\ records' = [records EXCEPT ![slot] = Dead]
           /\ parser' = [pc |-> next, pending |-> pending, parsed |-> parsed]
    /\ UNCHANGED <<ringVars, ctxDone, reader, workIdx, batchVars, timer, flushVars, endVars, panic>>

ParserLocks ==
    /\ parser.pc = "lock"
    /\ access = "none"
    /\ access' = "parser"
    /\ parser' = [parser EXCEPT !.pc = "enqueue"]
    /\ UNCHANGED <<ringVars, ctxDone, poolVars, items, tick, out, sent, timer, flushVars, endVars, panic>>

\* One item enters the batch; a full batch is sent before the next one.
ParserEnqueues ==
    /\ parser.pc = "enqueue"
    /\ parser.parsed # << >>
    /\ IF Len(items) < BatchLength
       THEN /\ items' = Append(items, Head(parser.parsed))
            /\ parser' = [parser EXCEPT !.parsed = Tail(@),
                                        !.pc = IF Len(items) + 1 = BatchLength THEN "send" ELSE @]
            /\ UNCHANGED panic
       ELSE /\ panic' = "index out of range"
            /\ UNCHANGED <<items, parser>>
    /\ UNCHANGED <<ringVars, ctxDone, poolVars, access, tick, out, sent, timer, flushVars, endVars>>

ParserUnlocks ==
    /\ parser.pc = "enqueue"
    /\ parser.parsed = << >>
    /\ access' = "none"
    /\ parser' = [parser EXCEPT !.pc = "wait"]
    /\ UNCHANGED <<ringVars, ctxDone, poolVars, items, tick, out, sent, timer, flushVars, endVars, panic>>

-----------------------------------------------------------------------------
(* bgFlushOnTimeout and flushEvents                                        *)

TimerFires ==
    /\ timer = "wait"
    /\ tick
    /\ tick' = FALSE
    /\ timer' = "lock"
    /\ UNCHANGED <<ringVars, ctxDone, poolVars, parser, items, access, out, sent, flushVars, endVars, panic>>

TimerQuits ==
    /\ timer = "wait"
    /\ ctxDone
    /\ timer' = "end"
    /\ UNCHANGED <<ringVars, ctxDone, poolVars, parser, batchVars, flushVars, endVars, panic>>

\* Variant: the timer sends the batch even when it is empty.
TimerChecksNothing ==
    /\ timer = "lock"
    /\ access = "none"
    /\ timer' = "send" /\ access' = "timer"
    /\ UNCHANGED <<ringVars, ctxDone, poolVars, parser, items, tick, out, sent, flushVars, endVars, panic>>

TimerChecks ==
    /\ timer = "lock"
    /\ access = "none"
    /\ \/ items # << >> /\ timer' = "send" /\ access' = "timer"
       \/ items = << >> /\ timer' = "wait" /\ UNCHANGED access
    /\ UNCHANGED <<ringVars, ctxDone, poolVars, parser, items, tick, out, sent, flushVars, endVars, panic>>

\* assertNotClosed of SendCtx, called by the parser or by the timer.
SendAsserts ==
    /\ \/ parser.pc = "send" /\ parser' = [parser EXCEPT !.pc = "offer"] /\ UNCHANGED timer
       \/ timer = "send" /\ timer' = "offer" /\ UNCHANGED parser
    /\ panic' = IF out.closed THEN "send on closed queue" ELSE panic
    /\ UNCHANGED <<ringVars, ctxDone, poolVars, batchVars, flushVars, endVars>>

\* The parser goes on after its full batch and resets the ticker: Go discards the tick that Reset
\* finds in the channel.
ParserFlushed ==
    /\ parser.pc = "offer"
    /\ parser' = [parser EXCEPT !.pc = "enqueue"]
    /\ tick' = FALSE
    /\ UNCHANGED <<timer, access>>

\* The timer releases the batch and waits for the next tick.
TimerFlushed ==
    /\ timer = "offer"
    /\ timer' = "wait"
    /\ access' = "none"
    /\ UNCHANGED <<parser, tick>>

\* flushEvents after SendCtx: the batch is emptied, whether or not it was delivered.
FlushDone ==
    /\ items' = << >>
    /\ ParserFlushed \/ TimerFlushed

\* A send is at its select on the subscriber.
Offering == parser.pc = "offer" \/ timer = "offer"

SendDelivers ==
    /\ Offering
    /\ ~out.closed
    /\ out.buffered < OutCap
    /\ out' = [out EXCEPT !.buffered = @ + 1]
    /\ sent' = Append(sent, items)
    /\ FlushDone
    /\ UNCHANGED <<ringVars, ctxDone, poolVars, flushVars, endVars, panic>>

\* The snapshot of subscribers is empty: close took them.
NoSubscribers == out.closed

\* Variant: Send instead of SendCtx.
SendAbandonsNever ==
    /\ Offering
    /\ NoSubscribers
    /\ FlushDone
    /\ UNCHANGED <<ringVars, ctxDone, poolVars, out, sent, flushVars, endVars, panic>>

\* SendCtx returns without delivering: the context is cancelled, or there is nobody to deliver to.
SendAbandons ==
    /\ Offering
    /\ ctxDone \/ NoSubscribers
    /\ FlushDone
    /\ UNCHANGED <<ringVars, ctxDone, poolVars, out, sent, flushVars, endVars, panic>>

\* A send that is already selecting on the channel when close closes it.
SendPanics ==
    /\ Offering
    /\ out.closed
    /\ panic' = "send on closed channel"
    /\ UNCHANGED <<ringVars, ctxDone, poolVars, parser, batchVars, timer, flushVars, endVars>>

-----------------------------------------------------------------------------
(* flushOnAvailableBytes                                                   *)

\* Variant: the context is not looked at again under readerLock.
FlusherLocksUnchecked ==
    /\ flusher = "wait"
    /\ readerLock = "none"
    /\ flusher' = "use" /\ readerLock' = "flusher"
    /\ UNCHANGED <<ringVars, ctxDone, poolVars, parser, batchVars, timer, idle, endVars, panic>>

\* A tick: the context is checked before the lock is asked for and, decisively, once it is held.
FlusherLocks ==
    /\ flusher = "wait"
    /\ readerLock = "none"
    /\ \/ ctxDone /\ flusher' = "end" /\ UNCHANGED readerLock
       \/ ~ctxDone /\ flusher' = "use" /\ readerLock' = "flusher"
    /\ UNCHANGED <<ringVars, ctxDone, poolVars, parser, batchVars, timer, idle, endVars, panic>>

\* Variant: the reader is flushed only when it has been reading.
FlusherFlushesBusy ==
    /\ flusher = "use"
    /\ rb' = [rb EXCEPT !.flushed = @ \/ (ring # << >> /\ ~idle)]
    /\ panic' = IF rb.closed THEN "closed reader used" ELSE panic
    /\ readerLock' = "none"
    /\ flusher' = "wait"
    /\ UNCHANGED <<committed, ring, ctxDone, poolVars, parser, batchVars, timer, idle, endVars>>

\* AvailableBytes dereferences the ring, which Close sets to nil.
FlusherFlushes ==
    /\ flusher = "use"
    /\ rb' = [rb EXCEPT !.flushed = @ \/ (ring # << >> /\ idle)]
    /\ panic' = IF rb.closed THEN "closed reader used" ELSE panic
    /\ readerLock' = "none"
    /\ flusher' = "wait"
    /\ UNCHANGED <<committed, ring, ctxDone, poolVars, parser, batchVars, timer, idle, endVars>>

-----------------------------------------------------------------------------
ReaderReads == TakeSlot \/ ReadRecord \/ ReadWaits \/ ReadFlushed
ReaderStep == ReaderReads \/ ReaderQuits \/ ReadClosed \/ Dispatch
ParserStep == ParserReceives \/ ParserQuits \/ ParserDrained \/ ParserParses \/ ParserEnqueues \/ ParserUnlocks
TimerStep == TimerFires \/ TimerQuits
SendStep == SendAsserts \/ SendDelivers \/ SendAbandons
FlusherStep == FlusherLocks \/ FlusherFlushes
CallerStep == Start \/ ForwardReturns \/ MarkCloseable

Next ==
    /\ panic = "none"
    /\ \/ BpfSubmit \/ CancelCtx \/ BatchTick \/ IdlePasses \/ SubscriberReceives
       \/ StartFails \/ CallerStep
       \/ CancellerCloses \/ CancellerClosesAll
       \/ ReaderStep \/ ReadFails
       \/ ParserStep \/ ParserLocks
       \/ TimerStep \/ TimerChecks
       \/ SendStep \/ SendPanics
       \/ FlusherStep

Spec == Init /\ [][Next]_vars

-----------------------------------------------------------------------------
RbRec == [haveData : BOOLEAN, pendingErr : BOOLEAN, woken : BOOLEAN, flushed : BOOLEAN, closed : BOOLEAN]
ReaderRec == [pc : {"none", "take", "read", "asleep", "dispatch", "end"}, slot : Slots \cup {NoSlot}]
WorkRec == [slots : Seq(Slots), closed : BOOLEAN]
ParserRec == [pc : {"none", "wait", "drain", "parse", "lock", "enqueue", "send", "offer", "end"},
              pending : Seq(Slots), parsed : Seq(Records)]
OutRec == [buffered : 0 .. OutCap, closed : BOOLEAN]

\* The variables have their types: only indices of the record pool travel through its channels, and
\* the output channel never holds more than it has room for.
TypeOK ==
    /\ committed \in 0 .. NRecords
    /\ ring \in Seq(Records)
    /\ rb \in RbRec
    /\ ctxDone \in BOOLEAN
    /\ caller \in {"start", "failed", "inner", "returned"}
    /\ reader \in ReaderRec
    /\ records \in [Slots -> Records \cup {Dead}]
    /\ freeIdx \in SUBSET Slots
    /\ workIdx \in WorkRec
    /\ parser \in ParserRec
    /\ items \in Seq(Records)
    /\ access \in {"none", "parser", "timer"}
    /\ timer \in {"none", "wait", "lock", "send", "offer", "end"}
    /\ tick \in BOOLEAN
    /\ flusher \in {"none", "wait", "use", "end"}
    /\ idle \in BOOLEAN
    /\ readerLock \in {"none", "flusher"}
    /\ canceller \in {"none", "wait", "closeAll", "end"}
    /\ resources \in {"open", "closed"}
    /\ out \in OutRec
    /\ sent \in Seq(Seq(Records))
    /\ panic \in {"none", "index out of range", "closed reader used", "send on closed queue",
                  "send on closed channel"}

\* Every slot of the pool is in exactly one place: free, being filled, waiting for the parser, or
\* being parsed.  So no record is overwritten before it is parsed, and neither channel of the pool,
\* with room for all slots, ever blocks the goroutine that sends to it.  Only the cancelled reader
\* loses a slot, when it drops the record it has just read.
SlotsConserved ==
    LET busy == workIdx.slots \o parser.pending
                \o (IF reader.slot = NoSlot THEN << >> ELSE <<reader.slot>>)
    IN  /\ IsInjective(busy)
        /\ Range(busy) \cap freeIdx = {}
        /\ reader.pc # "end" => Range(busy) \cup freeIdx = Slots

\* The parser never writes past the end of rbf.items: whoever holds rbf.access leaves room for the
\* next item, whichever of the parser and the timer sent the last batch, and also when the send was
\* abandoned because of the cancellation.
BatchFits == panic # "index out of range"

KeptOf(s) == SelectSeq(s, LAMBDA r : r \in Kept)
FilledSlots == parser.pending \o workIdx.slots \o (IF reader.pc = "dispatch" THEN <<reader.slot>> ELSE << >>)

\* Until the context is cancelled no kept record is lost, duplicated or overtaken on its way through
\* the ring, the pool, the parser and the batch: in this order these places hold exactly the kept
\* records, in commit order.
NothingLost ==
    ~ctxDone =>
        FlattenSeq(sent) \o items \o parser.parsed
            \o KeptOf([i \in 1 .. Len(FilledSlots) |-> records[FilledSlots[i]]] \o ring)
        = KeptOf([i \in 1 .. committed |-> i])

Stream == INSTANCE BatchStream WITH cancelled <- ctxDone

\* The forwarder implements BatchStream: batches of one to BatchLength kept records, in order and
\* without repetition, also while it is being cancelled.
ImplementsStream == Stream!StreamSpec

\* The periodic flusher uses the reader only while it is open: Close runs under readerLock, and the
\* flusher checks the context after it has taken that lock.
ReaderOpenWhenUsed == panic # "closed reader used"

\* The eBPF resources are closed when the forwarder returns, so that its caller does not report the
\* end of a tracer whose programs are still attached.
ClosedOnReturn == caller = "returned" => resources = "closed" /\ rb.closed

\* assertNotClosed (pkg/pipe/msg/queue.go): nobody sends through a queue that was closed.
NoSendAfterClose == panic \notin {"send on closed queue", "send on closed channel"}

-----------------------------------------------------------------------------
\* Goroutines that can run do run and the clock advances.  A lock that is free again and again is
\* eventually taken; Go's select does not pass over the cancelled context for ever in favour of the
\* ticker; reads do not fail for ever; the subscriber receives until the cancellation.
Fairness ==
    /\ WF_vars(panic = "none" /\ ReaderStep) /\ SF_vars(panic = "none" /\ (ReadRecord \/ ReadWaits))
    /\ WF_vars(panic = "none" /\ ParserStep) /\ SF_vars(panic = "none" /\ ParserLocks)
    /\ WF_vars(panic = "none" /\ TimerStep) /\ SF_vars(panic = "none" /\ TimerChecks)
    /\ SF_vars(panic = "none" /\ TimerQuits)
    /\ WF_vars(panic = "none" /\ SendStep)
    /\ WF_vars(panic = "none" /\ FlusherStep)
    /\ WF_vars(panic = "none" /\ CallerStep)
    /\ WF_vars(panic = "none" /\ (CancellerCloses \/ CancellerClosesAll))
    /\ WF_vars(panic = "none" /\ BatchTick) /\ WF_vars(panic = "none" /\ IdlePasses)
    /\ WF_vars(panic = "none" /\ ~ctxDone /\ SubscriberReceives)

FairSpec == Spec /\ Fairness

\* With a batch timeout, every kept record reaches the output queue, although the kernel may never
\* wake the reader for it and its batch may never fill, unless the forwarder is cancelled or never
\* started.
EventuallyForwarded ==
    \A r \in Kept : committed >= r ~> \/ r \in Range(FlattenSeq(sent))
                                      \/ ctxDone
                                      \/ caller = "failed"

\* A cancelled forwarder returns and all its goroutines end, even if the subscriber of the output
\* queue no longer receives.
ShutdownCompletes ==
    ctxDone ~> \/ caller = "failed"
               \/ /\ caller = "returned"
                  /\ reader.pc = "end" /\ parser.pc = "end"
                  /\ timer \in {"none", "end"} /\ flusher = "end" /\ canceller = "end"
=============================================================================

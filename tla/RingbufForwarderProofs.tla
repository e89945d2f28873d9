----------------------- MODULE RingbufForwarderProofs -----------------------
(***************************************************************************)
(* Proofs about the ring buffer forwarder, for pools, batches and streams  *)
(* of any size: the two locks protect what they are for, and the           *)
(* resources are closed when the forwarder returns.                        *)
(***************************************************************************)
EXTENDS RingbufForwarder, TLAPS

-----------------------------------------------------------------------------
(* readerLock and the closing of the reader                                *)

LEMMA RbFields ==
    ASSUME NEW r \in RbRec, NEW b \in BOOLEAN
    PROVE  /\ [r EXCEPT !.woken = b] \in RbRec /\ [r EXCEPT !.woken = b].closed = r.closed
           /\ [r EXCEPT !.haveData = b] \in RbRec /\ [r EXCEPT !.haveData = b].closed = r.closed
           /\ [r EXCEPT !.pendingErr = b] \in RbRec /\ [r EXCEPT !.pendingErr = b].closed = r.closed
           /\ [r EXCEPT !.flushed = b] \in RbRec /\ [r EXCEPT !.flushed = b].closed = r.closed
           /\ [r EXCEPT !.closed = TRUE] \in RbRec /\ [r EXCEPT !.closed = TRUE].closed
           /\ [r EXCEPT !.haveData = TRUE, !.pendingErr = r.flushed, !.flushed = FALSE, !.woken = FALSE] \in RbRec
           /\ [r EXCEPT !.haveData = TRUE, !.pendingErr = r.flushed, !.flushed = FALSE, !.woken = FALSE].closed = r.closed
           /\ r.closed \in BOOLEAN /\ r.flushed \in BOOLEAN /\ r.woken \in BOOLEAN
  BY ZenonT(30) DEF RbRec

\* Only the canceller and the end of readAndForward close the reader; it is never reopened.
ClosesReader == CancellerCloses \/ (~Shared /\ ForwardReturns)

LEMMA RbStep ==
    ASSUME rb \in RbRec, [Next]_vars
    PROVE  /\ rb' \in RbRec
           /\ rb'.closed = rb.closed \/ (ClosesReader /\ rb'.closed)
<1>1. CASE BpfSubmit
  <2>1. PICK w \in BOOLEAN : rb' = [rb EXCEPT !.woken = rb.woken \/ (w /\ reader.pc = "asleep")]
    BY <1>1 DEF BpfSubmit
  <2>2. (rb.woken \/ (w /\ reader.pc = "asleep")) \in BOOLEAN
    OBVIOUS
  <2>. DEFINE b == rb.woken \/ (w /\ reader.pc = "asleep")
  <2>3. b \in BOOLEAN /\ rb' = [rb EXCEPT !.woken = b]
    BY <2>1, <2>2
  <2>. HIDE DEF b
  <2>. QED
    BY <2>3 DEF RbRec
<1>2. CASE CancelCtx
  BY <1>2 DEF CancelCtx, ringVars, poolVars, batchVars, flushVars, endVars
<1>3. CASE BatchTick
  BY <1>3 DEF BatchTick, ringVars, poolVars, batchVars, flushVars, endVars
<1>4. CASE IdlePasses
  BY <1>4 DEF IdlePasses, ringVars, poolVars, batchVars, flushVars, endVars
<1>5. CASE SubscriberReceives
  BY <1>5 DEF SubscriberReceives, ringVars, poolVars, batchVars, flushVars, endVars
<1>6. CASE StartFails
  BY <1>6 DEF StartFails, ringVars, poolVars, batchVars, flushVars, endVars
<1>7. CASE Start
  BY <1>7 DEF Start, ringVars, poolVars, batchVars, flushVars, endVars
<1>8. CASE ForwardReturns
  <2>1. CASE ~Shared /\ rb' = [rb EXCEPT !.closed = TRUE]
    <3>1. rb' \in RbRec /\ rb'.closed
      BY <2>1, RbFields, Zenon
    <3>. QED
      BY <3>1, <2>1, <1>8, Zenon DEF ClosesReader
  <2>2. CASE rb' = rb
    BY <2>2
  <2>. QED
    BY <2>1, <2>2, <1>8 DEF ForwardReturns
<1>9. CASE MarkCloseable
  BY <1>9 DEF MarkCloseable, ringVars, poolVars, batchVars, flushVars, endVars
<1>10. CASE CancellerCloses
  BY <1>10, RbFields, Zenon DEF CancellerCloses, ClosesReader
<1>11. CASE CancellerClosesAll
  BY <1>11 DEF CancellerClosesAll, ringVars, poolVars, batchVars, flushVars, endVars
<1>12. CASE TakeSlot
  BY <1>12 DEF TakeSlot, ringVars, poolVars, batchVars, flushVars, endVars
<1>13. CASE ReaderQuits
  BY <1>13 DEF ReaderQuits, EndReader, ringVars, poolVars, batchVars, flushVars, endVars
<1>14. CASE ReadRecord
  BY <1>14 DEF ReadRecord, ringVars, poolVars, batchVars, flushVars, endVars
<1>15. CASE ReadWaits
  <2>1. \/ rb' = [rb EXCEPT !.haveData = FALSE]
        \/ rb' = rb
        \/ rb' = [rb EXCEPT !.haveData = TRUE, !.pendingErr = rb.flushed, !.flushed = FALSE, !.woken = FALSE]
    BY <1>15 DEF ReadWaits
  <2>. QED
    BY <2>1, ZenonT(30) DEF RbRec
<1>16. CASE ReadFlushed
  BY <1>16, RbFields, Zenon DEF ReadFlushed
<1>17. CASE ReadFails
  BY <1>17, RbFields, Zenon DEF ReadFails
<1>18. CASE ReadClosed
  BY <1>18, Zenon DEF ReadClosed, GiveSlotBack, EndReader, ringVars, poolVars, batchVars, flushVars, endVars
<1>19. CASE Dispatch
  BY <1>19 DEF Dispatch, EndReader, ringVars, poolVars, batchVars, flushVars, endVars
<1>20. CASE ParserReceives
  BY <1>20 DEF ParserReceives, ringVars, poolVars, batchVars, flushVars, endVars
<1>21. CASE ParserQuits
  BY <1>21 DEF ParserQuits, ringVars, poolVars, batchVars, flushVars, endVars
<1>22. CASE ParserDrained
  BY <1>22 DEF ParserDrained, ringVars, poolVars, batchVars, flushVars, endVars
<1>23. CASE ParserParses
  BY <1>23 DEF ParserParses, ringVars, poolVars, batchVars, flushVars, endVars
<1>24. CASE ParserLocks
  BY <1>24 DEF ParserLocks, ringVars, poolVars, batchVars, flushVars, endVars
<1>25. CASE ParserEnqueues
  BY <1>25, Zenon DEF ParserEnqueues, ringVars, poolVars, batchVars, flushVars, endVars
<1>26. CASE ParserUnlocks
  BY <1>26 DEF ParserUnlocks, ringVars, poolVars, batchVars, flushVars, endVars
<1>27. CASE TimerFires
  BY <1>27 DEF TimerFires, ringVars, poolVars, batchVars, flushVars, endVars
<1>28. CASE TimerQuits
  BY <1>28 DEF TimerQuits, ringVars, poolVars, batchVars, flushVars, endVars
<1>29. CASE TimerChecks
  BY <1>29 DEF TimerChecks, ringVars, poolVars, batchVars, flushVars, endVars
<1>30. CASE SendAsserts
  BY <1>30, Zenon DEF SendAsserts, ringVars, poolVars, batchVars, flushVars, endVars
<1>31. CASE SendDelivers
  BY <1>31 DEF SendDelivers, FlushDone, ParserFlushed, TimerFlushed, Offering, ringVars, poolVars, batchVars, flushVars, endVars
<1>32. CASE SendAbandons
  BY <1>32 DEF SendAbandons, FlushDone, ParserFlushed, TimerFlushed, Offering, ringVars, poolVars, batchVars, flushVars, endVars
<1>33. CASE SendPanics
  BY <1>33, Zenon DEF SendPanics, Offering, ringVars, poolVars, batchVars, flushVars, endVars
<1>34. CASE FlusherLocks
  BY <1>34 DEF FlusherLocks, ringVars, poolVars, batchVars, flushVars, endVars
<1>35. CASE FlusherFlushes
  <2>1. rb' = [rb EXCEPT !.flushed = rb.flushed \/ (ring # << >> /\ idle)]
    BY <1>35, Zenon DEF FlusherFlushes
  <2>2. (rb.flushed \/ (ring # << >> /\ idle)) \in BOOLEAN
    OBVIOUS
  <2>. DEFINE b == rb.flushed \/ (ring # << >> /\ idle)
  <2>3. b \in BOOLEAN /\ rb' = [rb EXCEPT !.flushed = b]
    BY <2>1, <2>2, SMTT(30)
  <2>. HIDE DEF b
  <2>. QED
    BY <2>3 DEF RbRec
<1>36. CASE UNCHANGED vars
  BY <1>36, SMTT(30) DEF vars
<1>. QED
  BY <1>1, <1>2, <1>3, <1>4, <1>5, <1>6, <1>7, <1>8, <1>9, <1>10, <1>11, <1>12, <1>13, <1>14, <1>15, <1>16, <1>17, <1>18, <1>19, <1>20, <1>21, <1>22, <1>23, <1>24, <1>25, <1>26, <1>27, <1>28, <1>29, <1>30, <1>31, <1>32, <1>33, <1>34, <1>35, <1>36, Zenon DEF Next, CallerStep, ReaderStep, ReaderReads, ParserStep, TimerStep, SendStep, FlusherStep

\* readerLock is held exactly while the flusher uses the reader, and a shared forwarder closes the
\* reader only after the cancellation, when the flusher is not using it and cannot use it again.
ReaderInv ==
    /\ rb \in RbRec
    /\ readerLock = "none" => flusher # "use"
    /\ Shared => (rb.closed => ctxDone /\ flusher # "use")
    /\ Shared => panic # "closed reader used"

LEMMA ReaderInvNext ==
    ASSUME ReaderInv, [Next]_vars
    PROVE  ReaderInv'
<1>. rb \in RbRec /\ rb' \in RbRec /\ (rb'.closed = rb.closed \/ (ClosesReader /\ rb'.closed))
  BY RbStep, Zenon DEF ReaderInv
<1>1. CASE BpfSubmit
  BY <1>1, Zenon DEF ReaderInv, ClosesReader, CancellerCloses, ForwardReturns, BpfSubmit, ringVars, poolVars, batchVars, flushVars, endVars
<1>2. CASE CancelCtx
  BY <1>2, Zenon DEF ReaderInv, ClosesReader, CancellerCloses, ForwardReturns, CancelCtx, ringVars, poolVars, batchVars, flushVars, endVars
<1>3. CASE BatchTick
  BY <1>3, Zenon DEF ReaderInv, ClosesReader, CancellerCloses, ForwardReturns, BatchTick, ringVars, poolVars, batchVars, flushVars, endVars
<1>4. CASE IdlePasses
  BY <1>4, Zenon DEF ReaderInv, ClosesReader, CancellerCloses, ForwardReturns, IdlePasses, ringVars, poolVars, batchVars, flushVars, endVars
<1>5. CASE SubscriberReceives
  BY <1>5, Zenon DEF ReaderInv, ClosesReader, CancellerCloses, ForwardReturns, SubscriberReceives, ringVars, poolVars, batchVars, flushVars, endVars
<1>6. CASE StartFails
  BY <1>6, Zenon DEF ReaderInv, ClosesReader, CancellerCloses, ForwardReturns, StartFails, ringVars, poolVars, batchVars, flushVars, endVars
<1>7. CASE Start
  BY <1>7, Zenon DEF ReaderInv, ClosesReader, CancellerCloses, ForwardReturns, Start, ringVars, poolVars, batchVars, flushVars, endVars
<1>8. CASE ForwardReturns
  BY <1>8, Zenon DEF ReaderInv, ClosesReader, CancellerCloses, ForwardReturns, ForwardReturns, ringVars, poolVars, batchVars, flushVars, endVars
<1>9. CASE MarkCloseable
  BY <1>9, Zenon DEF ReaderInv, ClosesReader, CancellerCloses, ForwardReturns, MarkCloseable, ringVars, poolVars, batchVars, flushVars, endVars
<1>10. CASE CancellerCloses
  BY <1>10, Zenon DEF ReaderInv, ClosesReader, CancellerCloses, ForwardReturns, CancellerCloses, ringVars, poolVars, batchVars, flushVars, endVars
<1>11. CASE CancellerClosesAll
  BY <1>11, Zenon DEF ReaderInv, ClosesReader, CancellerCloses, ForwardReturns, CancellerClosesAll, ringVars, poolVars, batchVars, flushVars, endVars
<1>12. CASE TakeSlot
  BY <1>12, Zenon DEF ReaderInv, ClosesReader, CancellerCloses, ForwardReturns, TakeSlot, ringVars, poolVars, batchVars, flushVars, endVars
<1>13. CASE ReaderQuits
  BY <1>13, Zenon DEF ReaderInv, ClosesReader, CancellerCloses, ForwardReturns, ReaderQuits, EndReader, ringVars, poolVars, batchVars, flushVars, endVars
<1>14. CASE ReadRecord
  BY <1>14, Zenon DEF ReaderInv, ClosesReader, CancellerCloses, ForwardReturns, ReadRecord, ringVars, poolVars, batchVars, flushVars, endVars
<1>15. CASE ReadWaits
  BY <1>15, Zenon DEF ReaderInv, ClosesReader, CancellerCloses, ForwardReturns, ReadWaits, ringVars, poolVars, batchVars, flushVars, endVars
<1>16. CASE ReadFlushed
  BY <1>16, Zenon DEF ReaderInv, ClosesReader, CancellerCloses, ForwardReturns, ReadFlushed, GiveSlotBack, ringVars, poolVars, batchVars, flushVars, endVars
<1>17. CASE ReadFails
  BY <1>17, Zenon DEF ReaderInv, ClosesReader, CancellerCloses, ForwardReturns, ReadFails, GiveSlotBack, ringVars, poolVars, batchVars, flushVars, endVars
<1>18. CASE ReadClosed
  BY <1>18, Zenon DEF ReaderInv, ClosesReader, CancellerCloses, ForwardReturns, ReadClosed, GiveSlotBack, EndReader, ringVars, poolVars, batchVars, flushVars, endVars
<1>19. CASE Dispatch
  BY <1>19, Zenon DEF ReaderInv, ClosesReader, CancellerCloses, ForwardReturns, Dispatch, EndReader, ringVars, poolVars, batchVars, flushVars, endVars
<1>20. CASE ParserReceives
  BY <1>20, Zenon DEF ReaderInv, ClosesReader, CancellerCloses, ForwardReturns, ParserReceives, ringVars, poolVars, batchVars, flushVars, endVars
<1>21. CASE ParserQuits
  BY <1>21, Zenon DEF ReaderInv, ClosesReader, CancellerCloses, ForwardReturns, ParserQuits, ringVars, poolVars, batchVars, flushVars, endVars
<1>22. CASE ParserDrained
  BY <1>22, Zenon DEF ReaderInv, ClosesReader, CancellerCloses, ForwardReturns, ParserDrained, ringVars, poolVars, batchVars, flushVars, endVars
<1>23. CASE ParserParses
  BY <1>23, Zenon DEF ReaderInv, ClosesReader, CancellerCloses, ForwardReturns, ParserParses, ringVars, poolVars, batchVars, flushVars, endVars
<1>24. CASE ParserLocks
  BY <1>24, Zenon DEF ReaderInv, ClosesReader, CancellerCloses, ForwardReturns, ParserLocks, ringVars, poolVars, batchVars, flushVars, endVars
<1>25. CASE ParserEnqueues
  BY <1>25, Zenon DEF ReaderInv, ClosesReader, CancellerCloses, ForwardReturns, ParserEnqueues, ringVars, poolVars, batchVars, flushVars, endVars
<1>26. CASE ParserUnlocks
  BY <1>26, Zenon DEF ReaderInv, ClosesReader, CancellerCloses, ForwardReturns, ParserUnlocks, ringVars, poolVars, batchVars, flushVars, endVars
<1>27. CASE TimerFires
  BY <1>27, Zenon DEF ReaderInv, ClosesReader, CancellerCloses, ForwardReturns, TimerFires, ringVars, poolVars, batchVars, flushVars, endVars
<1>28. CASE TimerQuits
  BY <1>28, Zenon DEF ReaderInv, ClosesReader, CancellerCloses, ForwardReturns, TimerQuits, ringVars, poolVars, batchVars, flushVars, endVars
<1>29. CASE TimerChecks
  BY <1>29, Zenon DEF ReaderInv, ClosesReader, CancellerCloses, ForwardReturns, TimerChecks, ringVars, poolVars, batchVars, flushVars, endVars
<1>30. CASE SendAsserts
  BY <1>30, Zenon DEF ReaderInv, ClosesReader, CancellerCloses, ForwardReturns, SendAsserts, ringVars, poolVars, batchVars, flushVars, endVars
<1>31. CASE SendDelivers
  BY <1>31, Zenon DEF ReaderInv, ClosesReader, CancellerCloses, ForwardReturns, SendDelivers, FlushDone, ParserFlushed, TimerFlushed, Offering, ringVars, poolVars, batchVars, flushVars, endVars
<1>32. CASE SendAbandons
  BY <1>32, Zenon DEF ReaderInv, ClosesReader, CancellerCloses, ForwardReturns, SendAbandons, FlushDone, ParserFlushed, TimerFlushed, Offering, ringVars, poolVars, batchVars, flushVars, endVars
<1>33. CASE SendPanics
  BY <1>33, Zenon DEF ReaderInv, ClosesReader, CancellerCloses, ForwardReturns, SendPanics, Offering, ringVars, poolVars, batchVars, flushVars, endVars
<1>34. CASE FlusherLocks
  BY <1>34, Zenon DEF ReaderInv, ClosesReader, CancellerCloses, ForwardReturns, FlusherLocks, ringVars, poolVars, batchVars, flushVars, endVars
<1>35. CASE FlusherFlushes
  BY <1>35, Zenon DEF ReaderInv, ClosesReader, CancellerCloses, ForwardReturns, FlusherFlushes, ringVars, poolVars, batchVars, flushVars, endVars
<1>36. CASE UNCHANGED vars
  BY <1>36, Zenon DEF ReaderInv, ClosesReader, CancellerCloses, ForwardReturns, vars
<1>. QED
  BY <1>1, <1>2, <1>3, <1>4, <1>5, <1>6, <1>7, <1>8, <1>9, <1>10, <1>11, <1>12, <1>13, <1>14, <1>15, <1>16, <1>17, <1>18, <1>19, <1>20, <1>21, <1>22, <1>23, <1>24, <1>25, <1>26, <1>27, <1>28, <1>29, <1>30, <1>31, <1>32, <1>33, <1>34, <1>35, <1>36, SMTT(30) DEF Next, CallerStep, ReaderStep, ReaderReads, ParserStep, TimerStep, SendStep, FlusherStep

\* For every configuration of a shared forwarder, the periodic flusher never touches a reader that
\* the cancellation has closed: readerLock and the second look at the context suffice.
THEOREM ReaderOpen == Spec => [](Shared => ReaderOpenWhenUsed)
<1>1. Init => ReaderInv
  BY DEF Init, ReaderInv, RbRec
<1>2. ReaderInv /\ [Next]_vars => ReaderInv'
  BY ReaderInvNext
<1>3. ReaderInv => (Shared => ReaderOpenWhenUsed)
  BY ZenonT(30) DEF ReaderInv, ReaderOpenWhenUsed
<1>. QED
  BY <1>1, <1>2, <1>3, PTL DEF Spec

-----------------------------------------------------------------------------
(* The end of the forwarder                                                *)

\* Each step of the shutdown leaves behind what the next one relies on: the canceller closes the
\* reader, then the resources, and only then is done.
EndInv ==
    /\ rb \in RbRec
    /\ canceller = "closeAll" => rb.closed
    /\ Shared => (canceller = "end" => resources = "closed" /\ rb.closed)
    /\ caller = "returned" => resources = "closed" /\ rb.closed

LEMMA EndInvNext ==
    ASSUME EndInv, [Next]_vars
    PROVE  EndInv'
<1>. rb' \in RbRec /\ (rb'.closed = rb.closed \/ rb'.closed)
  BY RbStep DEF EndInv
<1>1. CASE BpfSubmit
  BY <1>1 DEF EndInv, BpfSubmit, ringVars, poolVars, batchVars, flushVars, endVars
<1>2. CASE CancelCtx
  BY <1>2 DEF EndInv, CancelCtx, ringVars, poolVars, batchVars, flushVars, endVars
<1>3. CASE BatchTick
  BY <1>3 DEF EndInv, BatchTick, ringVars, poolVars, batchVars, flushVars, endVars
<1>4. CASE IdlePasses
  BY <1>4 DEF EndInv, IdlePasses, ringVars, poolVars, batchVars, flushVars, endVars
<1>5. CASE SubscriberReceives
  BY <1>5 DEF EndInv, SubscriberReceives, ringVars, poolVars, batchVars, flushVars, endVars
<1>6. CASE StartFails
  BY <1>6 DEF EndInv, StartFails, ringVars, poolVars, batchVars, flushVars, endVars
<1>7. CASE Start
  BY <1>7 DEF EndInv, Start, ringVars, poolVars, batchVars, flushVars, endVars
<1>8. CASE ForwardReturns
  <2>1. CASE Shared
    BY <1>8, <2>1, SMTT(30) DEF EndInv, ForwardReturns
  <2>2. CASE ~Shared /\ rb' = [rb EXCEPT !.closed = TRUE]
    <3>1. rb'.closed
      BY <2>2, RbFields, Zenon DEF EndInv
    <3>. QED
      BY <1>8, <2>2, <3>1, SMTT(30) DEF EndInv, ForwardReturns
  <2>. QED
    BY <1>8, <2>1, <2>2, SMTT(30) DEF ForwardReturns
<1>9. CASE MarkCloseable
  BY <1>9 DEF EndInv, MarkCloseable, ringVars, poolVars, batchVars, flushVars, endVars
<1>10. CASE CancellerCloses
  <2>1. rb'.closed
    BY <1>10, RbFields, Zenon DEF CancellerCloses, EndInv
  <2>2. canceller' \in {"closeAll", "end"} /\ (canceller' = "end" => ~Shared)
    BY <1>10 DEF CancellerCloses
  <2>. QED
    BY <1>10, <2>1, <2>2, SMTT(30) DEF EndInv, CancellerCloses
<1>11. CASE CancellerClosesAll
  BY <1>11 DEF EndInv, CancellerClosesAll, ringVars, poolVars, batchVars, flushVars, endVars
<1>12. CASE TakeSlot
  BY <1>12 DEF EndInv, TakeSlot, ringVars, poolVars, batchVars, flushVars, endVars
<1>13. CASE ReaderQuits
  BY <1>13 DEF EndInv, ReaderQuits, EndReader, ringVars, poolVars, batchVars, flushVars, endVars
<1>14. CASE ReadRecord
  BY <1>14 DEF EndInv, ReadRecord, ringVars, poolVars, batchVars, flushVars, endVars
<1>15. CASE ReadWaits
  BY <1>15 DEF EndInv, ReadWaits, ringVars, poolVars, batchVars, flushVars, endVars
<1>16. CASE ReadFlushed
  BY <1>16 DEF EndInv, ReadFlushed, GiveSlotBack, ringVars, poolVars, batchVars, flushVars, endVars
<1>17. CASE ReadFails
  BY <1>17 DEF EndInv, ReadFails, GiveSlotBack, ringVars, poolVars, batchVars, flushVars, endVars
<1>18. CASE ReadClosed
  BY <1>18 DEF EndInv, ReadClosed, GiveSlotBack, EndReader, ringVars, poolVars, batchVars, flushVars, endVars
<1>19. CASE Dispatch
  BY <1>19 DEF EndInv, Dispatch, EndReader, ringVars, poolVars, batchVars, flushVars, endVars
<1>20. CASE ParserReceives
  BY <1>20 DEF EndInv, ParserReceives, ringVars, poolVars, batchVars, flushVars, endVars
<1>21. CASE ParserQuits
  BY <1>21 DEF EndInv, ParserQuits, ringVars, poolVars, batchVars, flushVars, endVars
<1>22. CASE ParserDrained
  BY <1>22 DEF EndInv, ParserDrained, ringVars, poolVars, batchVars, flushVars, endVars
<1>23. CASE ParserParses
  BY <1>23 DEF EndInv, ParserParses, ringVars, poolVars, batchVars, flushVars, endVars
<1>24. CASE ParserLocks
  BY <1>24 DEF EndInv, ParserLocks, ringVars, poolVars, batchVars, flushVars, endVars
<1>25. CASE ParserEnqueues
  BY <1>25, Zenon DEF EndInv, ParserEnqueues, ringVars, poolVars, batchVars, flushVars, endVars
<1>26. CASE ParserUnlocks
  BY <1>26 DEF EndInv, ParserUnlocks, ringVars, poolVars, batchVars, flushVars, endVars
<1>27. CASE TimerFires
  BY <1>27 DEF EndInv, TimerFires, ringVars, poolVars, batchVars, flushVars, endVars
<1>28. CASE TimerQuits
  BY <1>28 DEF EndInv, TimerQuits, ringVars, poolVars, batchVars, flushVars, endVars
<1>29. CASE TimerChecks
  BY <1>29 DEF EndInv, TimerChecks, ringVars, poolVars, batchVars, flushVars, endVars
<1>30. CASE SendAsserts
  BY <1>30, Zenon DEF EndInv, SendAsserts, ringVars, poolVars, batchVars, flushVars, endVars
<1>31. CASE SendDelivers
  BY <1>31 DEF EndInv, SendDelivers, FlushDone, ParserFlushed, TimerFlushed, Offering, ringVars, poolVars, batchVars, flushVars, endVars
<1>32. CASE SendAbandons
  BY <1>32 DEF EndInv, SendAbandons, FlushDone, ParserFlushed, TimerFlushed, Offering, ringVars, poolVars, batchVars, flushVars, endVars
<1>33. CASE SendPanics
  BY <1>33, Zenon DEF EndInv, SendPanics, Offering, ringVars, poolVars, batchVars, flushVars, endVars
<1>34. CASE FlusherLocks
  BY <1>34 DEF EndInv, FlusherLocks, ringVars, poolVars, batchVars, flushVars, endVars
<1>35. CASE FlusherFlushes
  BY <1>35, Zenon DEF EndInv, FlusherFlushes, ringVars, poolVars, batchVars, flushVars, endVars
<1>36. CASE UNCHANGED vars
  BY <1>36 DEF EndInv, vars
<1>. QED
  BY <1>1, <1>2, <1>3, <1>4, <1>5, <1>6, <1>7, <1>8, <1>9, <1>10, <1>11, <1>12, <1>13, <1>14, <1>15, <1>16, <1>17, <1>18, <1>19, <1>20, <1>21, <1>22, <1>23, <1>24, <1>25, <1>26, <1>27, <1>28, <1>29, <1>30, <1>31, <1>32, <1>33, <1>34, <1>35, <1>36, SMTT(30) DEF Next, CallerStep, ReaderStep, ReaderReads, ParserStep, TimerStep, SendStep, FlusherStep

\* For every configuration, the eBPF resources and the reader are closed when readAndForward or
\* sharedReadAndForward returns after having started.
THEOREM ReturnsClosed == Spec => []ClosedOnReturn
<1>1. Init => EndInv
  BY DEF Init, EndInv, RbRec
<1>2. EndInv /\ [Next]_vars => EndInv'
  BY EndInvNext
<1>3. EndInv => ClosedOnReturn
  BY SMTT(30) DEF EndInv, ClosedOnReturn
<1>. QED
  BY <1>1, <1>2, <1>3, PTL DEF Spec

-----------------------------------------------------------------------------
(* rbf.access and the batch                                                *)

\* rbf.access is held by whoever is sending or filling the batch, and there is room for one more
\* item except between the item that fills the batch and the end of its send.
BatchInv ==
    /\ parser = [pc |-> parser.pc, pending |-> parser.pending, parsed |-> parser.parsed]
    /\ parser.parsed \in Seq(Records)
    /\ items \in Seq(Records)
    /\ caller = "start" => parser.pc = "none"
    /\ parser.pc \in {"enqueue", "send", "offer"} => access = "parser"
    /\ timer \in {"send", "offer"} => access = "timer"
    /\ Len(items) <= BatchLength
    /\ parser.pc \notin {"send", "offer"} => Len(items) < BatchLength
    /\ panic # "index out of range"

LEMMA BatchInvNext ==
    ASSUME BatchInv, [Next]_vars
    PROVE  BatchInv'
<1>1. CASE BpfSubmit
  BY <1>1, ForwarderAssumption, Zenon DEF BatchInv, BpfSubmit, ringVars, poolVars, batchVars, flushVars, endVars
<1>2. CASE CancelCtx
  BY <1>2, ForwarderAssumption, Zenon DEF BatchInv, CancelCtx, ringVars, poolVars, batchVars, flushVars, endVars
<1>3. CASE BatchTick
  BY <1>3, ForwarderAssumption, Zenon DEF BatchInv, BatchTick, ringVars, poolVars, batchVars, flushVars, endVars
<1>4. CASE IdlePasses
  BY <1>4, ForwarderAssumption, Zenon DEF BatchInv, IdlePasses, ringVars, poolVars, batchVars, flushVars, endVars
<1>5. CASE SubscriberReceives
  BY <1>5, ForwarderAssumption, Zenon DEF BatchInv, SubscriberReceives, ringVars, poolVars, batchVars, flushVars, endVars
<1>6. CASE StartFails
  BY <1>6, ForwarderAssumption, Zenon DEF BatchInv, StartFails, ringVars, poolVars, batchVars, flushVars, endVars
<1>7. CASE Start
  <2>1. parser' = [pc |-> "wait", pending |-> parser.pending, parsed |-> parser.parsed] /\ UNCHANGED <<items, access, panic>> /\ caller' = "inner"
    BY <1>7, Zenon DEF Start, BatchInv, batchVars
  <2>2. timer' \in {"wait", "none"}
    BY <1>7 DEF Start
  <2>3. parser.pc \notin {"send", "offer"} => Len(items) < BatchLength
    BY Zenon DEF BatchInv
  <2>4. parser.pc = "none"
    BY <1>7, Zenon DEF Start, BatchInv
  <2>. QED
    BY <2>1, <2>2, <2>3, <2>4, ZenonT(30) DEF BatchInv
<1>8. CASE ForwardReturns
  BY <1>8, ForwarderAssumption, Zenon DEF BatchInv, ForwardReturns, ringVars, poolVars, batchVars, flushVars, endVars
<1>9. CASE MarkCloseable
  BY <1>9, ForwarderAssumption, Zenon DEF BatchInv, MarkCloseable, ringVars, poolVars, batchVars, flushVars, endVars
<1>10. CASE CancellerCloses
  BY <1>10, ForwarderAssumption, Zenon DEF BatchInv, CancellerCloses, ringVars, poolVars, batchVars, flushVars, endVars
<1>11. CASE CancellerClosesAll
  BY <1>11, ForwarderAssumption, Zenon DEF BatchInv, CancellerClosesAll, ringVars, poolVars, batchVars, flushVars, endVars
<1>12. CASE TakeSlot
  BY <1>12, ForwarderAssumption, Zenon DEF BatchInv, TakeSlot, ringVars, poolVars, batchVars, flushVars, endVars
<1>13. CASE ReaderQuits
  BY <1>13, ForwarderAssumption, Zenon DEF BatchInv, ReaderQuits, EndReader, ringVars, poolVars, batchVars, flushVars, endVars
<1>14. CASE ReadRecord
  BY <1>14, ForwarderAssumption, Zenon DEF BatchInv, ReadRecord, ringVars, poolVars, batchVars, flushVars, endVars
<1>15. CASE ReadWaits
  BY <1>15, ForwarderAssumption, Zenon DEF BatchInv, ReadWaits, ringVars, poolVars, batchVars, flushVars, endVars
<1>16. CASE ReadFlushed
  BY <1>16, ForwarderAssumption, Zenon DEF BatchInv, ReadFlushed, GiveSlotBack, ringVars, poolVars, batchVars, flushVars, endVars
<1>17. CASE ReadFails
  BY <1>17, ForwarderAssumption, Zenon DEF BatchInv, ReadFails, GiveSlotBack, ringVars, poolVars, batchVars, flushVars, endVars
<1>18. CASE ReadClosed
  BY <1>18, ForwarderAssumption, Zenon DEF BatchInv, ReadClosed, GiveSlotBack, EndReader, ringVars, poolVars, batchVars, flushVars, endVars
<1>19. CASE Dispatch
  BY <1>19, ForwarderAssumption, Zenon DEF BatchInv, Dispatch, EndReader, ringVars, poolVars, batchVars, flushVars, endVars
<1>20. CASE ParserReceives
  BY <1>20, ForwarderAssumption, Zenon DEF BatchInv, ParserReceives, ringVars, poolVars, batchVars, flushVars, endVars
<1>21. CASE ParserQuits
  BY <1>21, ForwarderAssumption, Zenon DEF BatchInv, ParserQuits, ringVars, poolVars, batchVars, flushVars, endVars
<1>22. CASE ParserDrained
  BY <1>22, ForwarderAssumption, Zenon DEF BatchInv, ParserDrained, ringVars, poolVars, batchVars, flushVars, endVars
<1>23. CASE ParserParses
  <2>. DEFINE parsed == IF records[Head(parser.pending)] \in Kept
                       THEN Append(parser.parsed, records[Head(parser.pending)]) ELSE parser.parsed
  <2>0. parser.parsed \in Seq(Records) /\ Kept \subseteq Records
    BY Zenon DEF BatchInv, Kept
  <2>1. parsed \in Seq(Records)
    BY <2>0
  <2>2. UNCHANGED <<items, access, timer, panic, caller>> /\ parser.pc = "parse"
    BY <1>23 DEF ParserParses, batchVars, endVars
  <2>3. PICK next \in {"parse", "wait", "lock"} :
           parser' = [pc |-> next, pending |-> Tail(parser.pending), parsed |-> parsed]
    BY <1>23, Zenon DEF ParserParses
  <2>. HIDE DEF parsed
  <2>4. parser'.pc = next /\ parser'.parsed = parsed /\ parser'.pending = Tail(parser.pending)
    BY <2>3
  <2>5. Len(items) < BatchLength
    BY <2>2, Zenon DEF BatchInv
  <2>. QED
    BY <2>1, <2>2, <2>3, <2>4, <2>5, ZenonT(30) DEF BatchInv
<1>24. CASE ParserLocks
  BY <1>24, ForwarderAssumption, Zenon DEF BatchInv, ParserLocks, ringVars, poolVars, batchVars, flushVars, endVars
<1>25. CASE ParserEnqueues
  <2>. DEFINE next == IF Len(items) + 1 = BatchLength THEN "send" ELSE "enqueue"
  <2>1. /\ parser.pc = "enqueue" /\ parser.parsed # << >> /\ Len(items) < BatchLength /\ access = "parser"
        /\ UNCHANGED <<access, timer, caller>>
    BY <1>25, Zenon DEF ParserEnqueues, BatchInv, endVars
  <2>0. parser.parsed \in Seq(Records) /\ items \in Seq(Records)
    BY Zenon DEF BatchInv
  <2>2. /\ items' = Append(items, Head(parser.parsed))
        /\ parser' = [pc |-> next, pending |-> parser.pending, parsed |-> Tail(parser.parsed)]
        /\ UNCHANGED panic
    BY <1>25, <2>1, Zenon DEF ParserEnqueues, BatchInv
  <2>3. /\ items' \in Seq(Records) /\ Len(items') = Len(items) + 1 /\ Len(items) \in Nat
        /\ Tail(parser.parsed) \in Seq(Records)
    BY <2>0, <2>1, <2>2, SMTT(30)
  <2>4. Len(items') <= BatchLength /\ (next # "send" => Len(items') < BatchLength)
    BY <2>1, <2>3, ForwarderAssumption, SMTT(30)
  <2>5. next \in {"send", "enqueue"}
    OBVIOUS
  <2>. HIDE DEF next
  <2>. QED
    BY <2>1, <2>2, <2>3, <2>4, <2>5, ZenonT(30) DEF BatchInv
<1>26. CASE ParserUnlocks
  BY <1>26, ForwarderAssumption, Zenon DEF BatchInv, ParserUnlocks, ringVars, poolVars, batchVars, flushVars, endVars
<1>27. CASE TimerFires
  BY <1>27, ForwarderAssumption, Zenon DEF BatchInv, TimerFires, ringVars, poolVars, batchVars, flushVars, endVars
<1>28. CASE TimerQuits
  BY <1>28, ForwarderAssumption, ZenonT(30) DEF BatchInv, TimerQuits, ringVars, poolVars, batchVars, flushVars, endVars
<1>29. CASE TimerChecks
  BY <1>29, ForwarderAssumption, Zenon DEF BatchInv, TimerChecks, ringVars, poolVars, batchVars, flushVars, endVars
<1>30. CASE SendAsserts
  BY <1>30, ForwarderAssumption, Zenon DEF BatchInv, SendAsserts, ringVars, poolVars, batchVars, flushVars, endVars
<1>31. CASE SendDelivers
  <2>1. items' = << >> /\ UNCHANGED <<panic, caller>>
    BY <1>31 DEF SendDelivers, FlushDone, ParserFlushed, TimerFlushed, endVars
  <2>0. parser = [pc |-> parser.pc, pending |-> parser.pending, parsed |-> parser.parsed]
    BY Zenon DEF BatchInv
  <2>2. items' \in Seq(Records) /\ Len(items') < BatchLength /\ Len(items') <= BatchLength
    BY <2>1, ForwarderAssumption
  <2>3. CASE /\ parser.pc = "offer"
             /\ parser' = [parser EXCEPT !.pc = "enqueue"]
             /\ UNCHANGED <<timer, access>>
    <3>1. parser' = [pc |-> "enqueue", pending |-> parser.pending, parsed |-> parser.parsed]
      BY <2>0, <2>3
    <3>. QED
      BY <2>1, <2>2, <2>3, <3>1, ZenonT(30) DEF BatchInv
  <2>4. CASE timer = "offer" /\ timer' = "wait" /\ access' = "none" /\ UNCHANGED parser
    BY <2>1, <2>2, <2>4, ZenonT(30) DEF BatchInv
  <2>. QED
    BY <1>31, <2>3, <2>4, SMTT(30) DEF SendDelivers, FlushDone, ParserFlushed, TimerFlushed
<1>32. CASE SendAbandons
  <2>1. items' = << >> /\ UNCHANGED <<panic, caller>>
    BY <1>32, SMTT(30) DEF SendAbandons, FlushDone, ParserFlushed, TimerFlushed, endVars
  <2>0. parser = [pc |-> parser.pc, pending |-> parser.pending, parsed |-> parser.parsed]
    BY ZenonT(30) DEF BatchInv
  <2>2. items' \in Seq(Records) /\ Len(items') < BatchLength /\ Len(items') <= BatchLength
    BY <2>1, ForwarderAssumption
  <2>3. CASE /\ parser.pc = "offer"
             /\ parser' = [parser EXCEPT !.pc = "enqueue"]
             /\ UNCHANGED <<timer, access>>
    <3>1. parser' = [pc |-> "enqueue", pending |-> parser.pending, parsed |-> parser.parsed]
      BY <2>0, <2>3
    <3>. QED
      BY <2>1, <2>2, <2>3, <3>1, ZenonT(30) DEF BatchInv
  <2>4. CASE timer = "offer" /\ timer' = "wait" /\ access' = "none" /\ UNCHANGED parser
    BY <2>1, <2>2, <2>4, ZenonT(30) DEF BatchInv
  <2>. QED
    BY <1>32, <2>3, <2>4, SMTT(30) DEF SendAbandons, FlushDone, ParserFlushed, TimerFlushed
<1>33. CASE SendPanics
  BY <1>33, ForwarderAssumption, Zenon DEF BatchInv, SendPanics, Offering, ringVars, poolVars, batchVars, flushVars, endVars
<1>34. CASE FlusherLocks
  BY <1>34, ForwarderAssumption, Zenon DEF BatchInv, FlusherLocks, ringVars, poolVars, batchVars, flushVars, endVars
<1>35. CASE FlusherFlushes
  BY <1>35, ForwarderAssumption, ZenonT(30) DEF BatchInv, FlusherFlushes, ringVars, poolVars, batchVars, flushVars, endVars
<1>36. CASE UNCHANGED vars
  BY <1>36, ForwarderAssumption, ZenonT(30) DEF BatchInv, vars
<1>. QED
  BY <1>1, <1>2, <1>3, <1>4, <1>5, <1>6, <1>7, <1>8, <1>9, <1>10, <1>11, <1>12, <1>13, <1>14, <1>15, <1>16, <1>17, <1>18, <1>19, <1>20, <1>21, <1>22, <1>23, <1>24, <1>25, <1>26, <1>27, <1>28, <1>29, <1>30, <1>31, <1>32, <1>33, <1>34, <1>35, <1>36, SMTT(30) DEF Next, CallerStep, ReaderStep, ReaderReads, ParserStep, TimerStep, SendStep, FlusherStep

\* For every batch length, the index of the next item stays inside rbf.items.
THEOREM BatchNeverOverruns == Spec => []BatchFits
<1>1. Init => BatchInv
  BY ForwarderAssumption DEF Init, BatchInv
<1>2. BatchInv /\ [Next]_vars => BatchInv'
  BY BatchInvNext
<1>3. BatchInv => BatchFits
  BY Zenon DEF BatchInv, BatchFits
<1>. QED
  BY <1>1, <1>2, <1>3, PTL DEF Spec
=============================================================================

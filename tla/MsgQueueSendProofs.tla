-------------------------- MODULE MsgQueueSendProofs --------------------------
(***************************************************************************)
(* Proofs about what the subscribers of a queue receive: a channel is      *)
(* registered once, sees the messages of a producer in order and once, and *)
(* is not forgotten by a send that found it registered.                    *)
(***************************************************************************)
EXTENDS MsgQueueProofs

\* An element of a sequence after an append is an old one or the appended one.
LEMMA AppendIndex ==
  ASSUME NEW S, NEW d \in Seq(S), NEW x \in S, NEW i \in DOMAIN Append(d, x)
  PROVE  \/ i \in DOMAIN d /\ Append(d, x)[i] = d[i]
         \/ i = Len(d) + 1 /\ Append(d, x)[i] = x
OBVIOUS

\* The elements of a sequence after an append.
LEMMA AppendElements ==
  ASSUME NEW S, NEW d \in Seq(S), NEW x \in S
  PROVE  /\ Len(d) \in Nat /\ DOMAIN Append(d, x) = 1 .. Len(d) + 1
         /\ \A k \in 1 .. Len(d) : Append(d, x)[k] = d[k]
         /\ Append(d, x)[Len(d) + 1] = x
OBVIOUS

\* An append adds one element to the range.
LEMMA RangeOfAppend ==
  ASSUME NEW S, NEW d \in Seq(S), NEW x \in S
  PROVE  Range(Append(d, x)) = Range(d) \cup {x}
<1>1. /\ DOMAIN Append(d, x) = DOMAIN d \cup {Len(d) + 1}
      /\ Append(d, x)[Len(d) + 1] = x
      /\ \A i \in DOMAIN d : Append(d, x)[i] = d[i]
  OBVIOUS
<1> QED
  BY <1>1 DEF Range

\* An element of a concatenation belongs to one of its two parts.
LEMMA ConcatIndex ==
  ASSUME NEW S, NEW d \in Seq(S), NEW e \in Seq(S), NEW i \in DOMAIN (d \o e)
  PROVE  /\ i \in Int /\ Len(d) \in Int
         /\ \/ i \in DOMAIN d /\ (d \o e)[i] = d[i]
            \/ i - Len(d) \in DOMAIN e /\ (d \o e)[i] = e[i - Len(d)]
OBVIOUS

(* Subscriptions.                                                          *)

\* SubscribedOnce holds because only a channel that was never used is registered.
SubInv ==
    /\ SubscribedOnce
    /\ \A s \in Queues : \A i \in DOMAIN sink[s].dsts : chan[sink[s].dsts[i]].state # "unused"
    /\ \A q \in Queues, c \in Chans : <<q, c>> \in subscribing => chan[c].state = "unused"

\* A step that moves no subscription preserves the invariant.
SubKept ==
    /\ \A s \in Queues : sink'[s].dsts = sink[s].dsts
    /\ \A c \in Chans : chan'[c].state = chan[c].state
    /\ subscribing' = subscribing

LEMMA SubFrame ==
  ASSUME TypeOK, SubInv, SubKept
  PROVE  SubInv'
<1>1. \A s \in Queues : \A i \in DOMAIN sink[s].dsts : sink[s].dsts[i] \in Chans
  BY Fields
<1> QED
  BY <1>1 DEF SubInv, SubscribedOnce, SubKept

\* Registering a channel that was never used keeps the subscriptions distinct.
LEMMA SubAppend ==
  ASSUME TypeOK, SubInv, NEW q \in Queues, NEW c \in Chans, SubscribeAppend(q, c)
  PROVE  SubInv'
<1> DEFINE s0 == queue[q].sink
           n == Len(sink[s0].dsts) + 1
<1>1. /\ s0 \in Queues
      /\ \A s \in Queues : sink[s].dsts \in Seq(Chans)
      /\ sink \in [Queues -> SinkRec]
      /\ chan \in [Chans -> ChanRec]
  BY Fields DEF TypeOK
<1>2. chan[c].state = "unused"
  BY DEF SubscribeAppend, SubInv
<1>3. \A d \in Chans : chan'[d].state = IF d = c THEN "open" ELSE chan[d].state
  BY <1>1 DEF SubscribeAppend, ChanRec
<1>4. \A s \in Queues : sink'[s].dsts = IF s = s0 THEN Append(sink[s].dsts, c) ELSE sink[s].dsts
  BY <1>1 DEF SubscribeAppend, SinkRec
<1>5. ASSUME NEW s \in Queues, NEW i \in DOMAIN sink'[s].dsts
      PROVE  \/ i \in DOMAIN sink[s].dsts /\ sink'[s].dsts[i] = sink[s].dsts[i]
             \/ s = s0 /\ i = n /\ sink'[s].dsts[i] = c
  <2>1. CASE s = s0
    <3>1. i \in DOMAIN Append(sink[s].dsts, c) /\ sink[s].dsts \in Seq(Chans)
      BY <2>1, <1>1, <1>4, Zenon
    <3>2. \/ i \in DOMAIN sink[s].dsts /\ Append(sink[s].dsts, c)[i] = sink[s].dsts[i]
          \/ i = Len(sink[s].dsts) + 1 /\ Append(sink[s].dsts, c)[i] = c
      BY <3>1, AppendIndex
    <3>3. sink'[s].dsts = Append(sink[s].dsts, c)
      BY <2>1, <1>4, Zenon
    <3> QED
      BY <2>1, <3>2, <3>3, Zenon
  <2>2. CASE s # s0
    BY <2>2, <1>4
  <2> QED
    BY <2>1, <2>2
<1>6. \A s \in Queues : \A i \in DOMAIN sink[s].dsts :
         sink[s].dsts[i] \in Chans /\ sink[s].dsts[i] # c
  BY <1>1, <1>2 DEF SubInv
<1> HIDE DEF s0, n
<1>7. SubscribedOnce'
  <2>1. ASSUME NEW s \in Queues, NEW t \in Queues,
               NEW i \in DOMAIN sink'[s].dsts, NEW j \in DOMAIN sink'[t].dsts,
               sink'[s].dsts[i] = sink'[t].dsts[j]
        PROVE  s = t /\ i = j
    BY <2>1, <1>5, <1>6 DEF SubInv, SubscribedOnce
  <2> QED
    BY <2>1 DEF SubscribedOnce
<1>8. \A s \in Queues : \A i \in DOMAIN sink'[s].dsts : chan'[sink'[s].dsts[i]].state # "unused"
  BY <1>3, <1>5, <1>6 DEF SubInv
<1>9. subscribing' = {}
  BY DEF SubscribeAppend
<1> QED
  BY <1>7, <1>8, <1>9 DEF SubInv

\* Bypass moves the subscriptions of the source behind those of the destination.
LEMMA SubMerge ==
  ASSUME TypeOK, SubInv, NEW src \in Queues, NEW dst \in Queues, src # dst,
         sink' = MergedSinks(src, dst), chan' = chan, subscribing' = subscribing
  PROVE  SubInv'
<1> DEFINE n == Len(sink[dst].dsts)
<1>1. \A s \in Queues : sink[s] \in SinkRec /\ sink[s].dsts \in Seq(Chans)
  BY Fields
<1>2. /\ sink'[src].dsts = <<>>
      /\ sink'[dst].dsts = sink[dst].dsts \o sink[src].dsts
      /\ \A s \in Queues \ {src, dst} : sink'[s].dsts = sink[s].dsts
  <2>1. sink'[src] = [sink[src] EXCEPT !.members = {}, !.dsts = <<>>, !.timer = "nil"]
    BY Zenon DEF MergedSinks
  <2>2. sink'[dst] = [sink[dst] EXCEPT !.members = @ \cup sink[src].members,
                                       !.dsts = @ \o sink[src].dsts]
    BY ZenonT(30) DEF MergedSinks
  <2>3. \A s \in Queues \ {src, dst} : sink'[s] = sink[s]
    BY ZenonT(30) DEF MergedSinks
  <2> QED
    BY <2>1, <2>2, <2>3, <1>1, ZenonT(30) DEF SinkRec
<1>3. ASSUME NEW i \in DOMAIN sink'[dst].dsts
      PROVE  \/ i \in DOMAIN sink[dst].dsts /\ sink'[dst].dsts[i] = sink[dst].dsts[i]
             \/ /\ i \in Int /\ n \in Int
                /\ i - n \in DOMAIN sink[src].dsts
                /\ sink'[dst].dsts[i] = sink[src].dsts[i - n]
  <2>1. i \in DOMAIN (sink[dst].dsts \o sink[src].dsts)
    BY <1>2, Zenon
  <2>2. sink[dst].dsts \in Seq(Chans) /\ sink[src].dsts \in Seq(Chans)
    BY <1>1
  <2>3. /\ i \in Int /\ n \in Int
        /\ \/ /\ i \in DOMAIN sink[dst].dsts
              /\ (sink[dst].dsts \o sink[src].dsts)[i] = sink[dst].dsts[i]
           \/ /\ i - n \in DOMAIN sink[src].dsts
              /\ (sink[dst].dsts \o sink[src].dsts)[i] = sink[src].dsts[i - n]
    BY <2>1, <2>2, ConcatIndex, Zenon
  <2> HIDE DEF n
  <2> QED
    BY <2>3, <1>2, Zenon
<1>4. \A i \in DOMAIN sink[dst].dsts : i =< n /\ i \in Int
  BY <1>1
<1> HIDE DEF n
<1>5. SubscribedOnce'
  <2>1. ASSUME NEW s \in Queues, NEW t \in Queues,
               NEW i \in DOMAIN sink'[s].dsts, NEW j \in DOMAIN sink'[t].dsts,
               sink'[s].dsts[i] = sink'[t].dsts[j]
        PROVE  s = t /\ i = j
    <3>1. s # src /\ t # src
      BY <1>2
    <3>2. CASE s = dst /\ t = dst
      <4>1. \A a, b \in DOMAIN sink[src].dsts : sink[src].dsts[a] = sink[src].dsts[b] => a = b
        BY DEF SubInv, SubscribedOnce
      <4>2. \A a, b \in DOMAIN sink[dst].dsts : sink[dst].dsts[a] = sink[dst].dsts[b] => a = b
        BY DEF SubInv, SubscribedOnce
      <4>3. \A a \in DOMAIN sink[src].dsts, b \in DOMAIN sink[dst].dsts :
               sink[src].dsts[a] # sink[dst].dsts[b]
        BY DEF SubInv, SubscribedOnce
      <4> QED
        BY <2>1, <3>2, <4>1, <4>2, <4>3, <1>3
    <3>3. CASE s = dst /\ t # dst
      <4>1. j \in DOMAIN sink[t].dsts /\ sink'[t].dsts[j] = sink[t].dsts[j]
        BY <3>1, <3>3, <1>2
      <4> QED
        BY <2>1, <3>1, <3>3, <4>1, <1>3 DEF SubInv, SubscribedOnce
    <3>4. CASE s # dst /\ t = dst
      <4>1. i \in DOMAIN sink[s].dsts /\ sink'[s].dsts[i] = sink[s].dsts[i]
        BY <3>1, <3>4, <1>2
      <4> QED
        BY <2>1, <3>1, <3>4, <4>1, <1>3 DEF SubInv, SubscribedOnce
    <3>5. CASE s # dst /\ t # dst
      BY <2>1, <3>1, <3>5, <1>2 DEF SubInv, SubscribedOnce
    <3> QED
      BY <3>2, <3>3, <3>4, <3>5
  <2> QED
    BY <2>1 DEF SubscribedOnce
<1>6. ASSUME NEW s \in Queues, NEW i \in DOMAIN sink'[s].dsts
      PROVE  chan'[sink'[s].dsts[i]].state # "unused"
  <2>1. CASE s = dst
    BY <2>1, <1>3 DEF SubInv
  <2>2. CASE s # dst
    BY <2>2, <1>2 DEF SubInv
  <2> QED
    BY <2>1, <2>2
<1> QED
  BY <1>5, <1>6 DEF SubInv

\* Every step preserves the subscription invariant.
LEMMA SubNext ==
  ASSUME TypeOK, SubInv, [Next]_vars
  PROVE  SubInv'
<1>1. ASSUME sink' = sink, chan' = chan, subscribing' = subscribing
      PROVE  SubInv'
  BY <1>1, SubFrame DEF SubKept
<1>2. ASSUME NEW s \in Queues, NEW t \in TimerStates, chan' = chan, subscribing' = subscribing,
             sink' = [sink EXCEPT ![s].timer = t]
      PROVE  SubInv'
  <2>1. sink \in [Queues -> SinkRec]
    BY DEF TypeOK
  <2>2. \A m \in Queues : sink'[m].dsts = sink[m].dsts
    BY <1>2, <2>1 DEF SinkRec
  <2> QED
    BY <1>2, <2>2, SubFrame DEF SubKept
<1>3. ASSUME NEW q \in Queues, NEW c \in Chans, Subscribe(q, c)
      PROVE  SubInv'
  <2>1. CASE sink[queue[q].sink].closed
    BY <2>1, <1>1, <1>3 DEF Subscribe, Throw
  <2>2. CASE ~sink[queue[q].sink].closed
    <3>1. subscribing' = {<<q, c>>} /\ sink' = sink /\ chan' = chan /\ chan[c].state = "unused"
      BY <2>2, <1>3 DEF Subscribe
    <3> QED
      BY <3>1 DEF SubInv, SubscribedOnce
  <2> QED
    BY <2>1, <2>2
<1>4. ASSUME NEW q \in Queues, NEW to \in Queues, Bypass(q, to)
      PROVE  SubInv'
  <2>1. \/ sink' = sink /\ chan' = chan /\ subscribing' = subscribing
        \/ /\ queue[q].sink # queue[to].sink
           /\ sink' = MergedSinks(queue[q].sink, queue[to].sink)
           /\ chan' = chan /\ subscribing' = subscribing
    BY <1>4 DEF Bypass, Throw
  <2> QED
    BY <2>1, <1>1, SubMerge, Fields
<1>5. ASSUME NEW p \in Producers, SendCtx(p) \/ SendStep(p)
      PROVE  SubInv'
  <2>1. CASE Deliver(p)
    <3>1. CurrentChan(p) \in Chans /\ chan \in [Chans -> ChanRec]
      BY <2>1, CurrentOK DEF Deliver, TypeOK
    <3>2. \A c \in Chans : chan'[c].state = chan[c].state
      BY <2>1, <3>1 DEF Deliver, ChanRec
    <3> QED
      BY <2>1, <3>2, SubFrame DEF Deliver, SubKept
  <2>2. CASE ~Deliver(p)
    <3>1. \/ sink' = sink /\ chan' = chan /\ subscribing' = subscribing
          \/ \E t \in {"armed", "stopped"} :
                /\ sink' = [sink EXCEPT ![proc[p].sink].timer = t]
                /\ chan' = chan /\ subscribing' = subscribing
      BY <1>5, <2>2, Zenon DEF SendCtx, SendStep, Snapshot, DeliverClosed, Cancelled, OfferTimeout,
                        EndOffer, RetryTimeout, Return, Throw
    <3> QED
      BY <3>1, <1>1, <1>2, Fields DEF TimerStates
  <2> QED
    BY <2>1, <2>2
<1>6. ASSUME NEW p \in Producers, Close(p) \/ MarkCloseable(p)
      PROVE  SubInv'
  BY <1>1, <1>6 DEF Close, MarkCloseable, Capture
<1>7. ASSUME NEW p \in Producers, CloseSink(p)
      PROVE  SubInv'
  <2> DEFINE s == proc[p].sink
  <2>1. CASE sink[s].closed
    BY <2>1, <1>1, <1>7 DEF CloseSink
  <2>2. CASE ~sink[s].closed
    <3>1. /\ sink' = [sink EXCEPT ![s].closed = TRUE, ![s].dsts = <<>>,
                                  ![s].timer = IF @ = "nil" THEN @ ELSE "stopped"]
          /\ chan' = [c \in Chans |-> IF c \in Range(sink[s].dsts)
                                      THEN [chan[c] EXCEPT !.state = "closed"]
                                      ELSE chan[c]]
          /\ subscribing' = subscribing
      BY <2>2, <1>7 DEF CloseSink
    <3>2. s \in Queues /\ sink \in [Queues -> SinkRec] /\ chan \in [Chans -> ChanRec]
      BY Fields, SMTT(30) DEF TypeOK
    <3>3. \A m \in Queues : sink'[m].dsts = IF m = s THEN <<>> ELSE sink[m].dsts
      BY <3>1, <3>2, SMTT(30) DEF SinkRec
    <3>4. \A c \in Chans : \/ chan'[c].state = chan[c].state
                           \/ c \in Range(sink[s].dsts) /\ chan'[c].state = "closed"
      BY <3>1, <3>2 DEF ChanRec
    <3>5. \A m \in Queues : \A i \in DOMAIN sink[m].dsts : sink[m].dsts[i] \in Chans
      BY Fields
    <3> HIDE DEF s
    <3>6. SubscribedOnce'
      BY <3>3 DEF SubInv, SubscribedOnce
    <3>7. \A m \in Queues : \A i \in DOMAIN sink'[m].dsts :
             chan'[sink'[m].dsts[i]].state # "unused"
      BY <3>3, <3>4, <3>5 DEF SubInv
    <3>8. \A c \in Chans : c \in Range(sink[s].dsts) => chan[c].state # "unused"
      BY <3>2 DEF SubInv, Range
    <3>9. \A q \in Queues, c \in Chans : <<q, c>> \in subscribing' => chan'[c].state = "unused"
      BY <3>1, <3>4, <3>8 DEF SubInv
    <3> QED
      BY <3>6, <3>7, <3>9, SMTT(30) DEF SubInv
  <2> QED
    BY <2>1, <2>2
<1>8. ASSUME NEW c \in Chans, Receive(c)
      PROVE  SubInv'
  <2>1. chan \in [Chans -> ChanRec]
    BY DEF TypeOK
  <2>2. \A d \in Chans : chan'[d].state = chan[d].state
    BY <1>8, <2>1 DEF Receive, ChanRec
  <2> QED
    BY <1>8, <2>2, SubFrame DEF Receive, SubKept
<1>9. ASSUME NEW s \in Queues, Tick(s)
      PROVE  SubInv'
  BY <1>2, <1>9, Zenon DEF Tick, TimerStates
<1> QED
  BY <1>1, <1>3, <1>4, <1>5, <1>6, <1>7, <1>8, <1>9, SubAppend
     DEF Next, Wiring, Running, Start, CancelCtx, vars

LEMMA SubInvariant == Spec => []SubInv
<1>1. ASSUME Init PROVE SubInv
  <2>1. \A s \in Queues : sink[s].dsts = <<>>
    BY <1>1 DEF Init
  <2>2. subscribing = {}
    BY <1>1 DEF Init
  <2> QED
    BY <2>1, <2>2 DEF SubInv, SubscribedOnce
<1> QED
  BY <1>1, TypeCorrect, SubNext, PTL DEF Spec

\* Whatever the order of Subscribe, Bypass and close, a subscriber channel is registered at
\* most once, so that no send can deliver the same message to it twice.
THEOREM Subscriptions == Spec => []SubscribedOnce
<1>1. SubInv => SubscribedOnce
  BY DEF SubInv
<1> QED
  BY <1>1, SubInvariant, PTL

-----------------------------------------------------------------------------
(* Delivery.                                                               *)

Has(c, m) == m \in Range(chan[c].log)
Sending(p) == proc[p].pc \in {"offer", "retry"}

\* A running send has a snapshot without repetitions, and each subscriber of it is in
\* exactly one of three places: to be visited, put aside, served.
SendOK(p) ==
    Sending(p) =>
        /\ \A i, j \in DOMAIN proc[p].dsts : proc[p].dsts[i] = proc[p].dsts[j] => i = j
        /\ \A i \in proc[p].todo : ~Has(proc[p].dsts[i], <<p, proc[p].sent>>)
        /\ proc[p].pc = "offer" => \A i \in proc[p].blocked :
              i \notin proc[p].todo /\ ~Has(proc[p].dsts[i], <<p, proc[p].sent>>)
        /\ \A i \in DOMAIN proc[p].dsts :
              \/ i \in proc[p].todo
              \/ proc[p].pc = "offer" /\ i \in proc[p].blocked
              \/ Has(proc[p].dsts[i], <<p, proc[p].sent>>)

\* No channel holds a message that its producer has not begun to deliver.
LogOK ==
    \A c \in Chans, p \in Producers, n \in 0 .. MaxMsgs : Has(c, <<p, n>>) =>
        n =< proc[p].sent /\ (proc[p].pc = "snapshot" => n < proc[p].sent)

\* The invariant that is inductive for OrderedOnce and DeliversToAll.
SendInv == OrderedOnce /\ LogOK /\ \A p \in Producers : SendOK(p)

LEMMA SendOKKept ==
  ASSUME TypeOK, NEW p \in Producers, SendOK(p), proc'[p] = proc[p],
         \A c \in Chans : \A n \in 0 .. MaxMsgs : Has(c, <<p, n>>)' <=> Has(c, <<p, n>>)
  PROVE  SendOK(p)'
<1>1. \A i \in DOMAIN proc[p].dsts : proc[p].dsts[i] \in Chans
  BY Fields
<1>2. proc[p].sent \in 0 .. MaxMsgs /\ LocalsFit(proc[p])
  BY Fields
<1> QED
  BY <1>1, <1>2 DEF SendOK, Sending, LocalsFit

\* A step that delivers nothing preserves the invariant if it does for the one producer
\* that moves.
LEMMA SendFrame ==
  ASSUME TypeOK, SendInv, \A c \in Chans : chan'[c].log = chan[c].log,
         NEW p \in Producers, \A m \in Producers \ {p} : proc'[m] = proc[m],
         proc'[p].sent >= proc[p].sent,
         proc'[p].pc = "snapshot" => proc'[p].sent > proc[p].sent \/ proc'[p] = proc[p],
         proc'[p].sent \in Nat,
         SendOK(p)'
  PROVE  SendInv'
<1>1. OrderedOnce'
  BY DEF SendInv, OrderedOnce
<1>2. \A c \in Chans : \A m : Has(c, m)' <=> Has(c, m)
  BY DEF Has
<1>3. \A m \in Producers : SendOK(m)'
  <2>1. ASSUME NEW m \in Producers \ {p} PROVE SendOK(m)'
    BY <1>2, SendOKKept DEF SendInv
  <2> QED
    BY <2>1
<1>4. LogOK'
  <2>1. ASSUME NEW c \in Chans, NEW m \in Producers, NEW n \in 0 .. MaxMsgs, Has(c, <<m, n>>)'
        PROVE  n =< proc'[m].sent /\ (proc'[m].pc = "snapshot" => n < proc'[m].sent)
    <3>1. /\ n =< proc[m].sent /\ (proc[m].pc = "snapshot" => n < proc[m].sent)
          /\ n \in Nat /\ proc[m].sent \in Nat /\ proc[p].sent \in Nat
      BY <2>1, <1>2, Fields, QueueAssumption DEF SendInv, LogOK
    <3>2. CASE m = p
      BY <3>1, <3>2
    <3>3. CASE m # p
      BY <3>1, <3>3
    <3> QED
      BY <3>2, <3>3
  <2> QED
    BY <2>1 DEF LogOK
<1> QED
  BY <1>1, <1>3, <1>4 DEF SendInv

\* A step that touches neither the producers nor what the channels hold.
LEMMA SendStutter ==
  ASSUME TypeOK, SendInv, \A c \in Chans : chan'[c].log = chan[c].log, proc' = proc
  PROVE  SendInv'
<1>1. \A c \in Chans : \A m : Has(c, m)' <=> Has(c, m)
  BY DEF Has
<1>2. \A m \in Producers : SendOK(m)'
  BY <1>1, SendOKKept DEF SendInv
<1>3. LogOK'
  BY <1>1 DEF SendInv, LogOK
<1>4. OrderedOnce'
  BY DEF SendInv, OrderedOnce
<1> QED
  BY <1>2, <1>3, <1>4 DEF SendInv

\* case d.ch <- o: the message reaches one more channel, for the first time, behind all the
\* earlier messages of its producer.
LEMMA DeliverKeeps ==
  ASSUME TypeOK, SendInv, NEW p \in Producers, Deliver(p)
  PROVE  SendInv'
<1> DEFINE c == CurrentChan(p)
           i0 == Current(p)
           msg == <<p, proc[p].sent>>
<1>1. /\ i0 \in proc[p].todo /\ i0 \in DOMAIN proc[p].dsts
      /\ c \in Chans /\ c = proc[p].dsts[i0]
      /\ msg \in Msgs
      /\ chan \in [Chans -> ChanRec] /\ proc \in [Producers -> ProcRec]
  BY CurrentOK, Fields DEF Deliver, Msgs, TypeOK, CurrentChan
<1>2. /\ chan'[c].log = Append(chan[c].log, msg)
      /\ \A d \in Chans \ {c} : chan'[d].log = chan[d].log
  BY <1>1, ZenonT(30) DEF Deliver, ChanRec
<1>3. /\ proc'[p].todo = proc[p].todo \ {i0}
      /\ proc'[p].pc = proc[p].pc /\ proc'[p].sent = proc[p].sent
      /\ proc'[p].dsts = proc[p].dsts /\ proc'[p].blocked = proc[p].blocked
      /\ \A m \in Producers \ {p} : proc'[m] = proc[m]
  BY <1>1 DEF Deliver, ProcRec
<1>4. SendOK(p) /\ Sending(p)
  BY DEF SendInv, Deliver, Looping, Sending
<1>5. \A d \in Chans : chan[d].log \in Seq(Msgs)
  BY <1>1 DEF ChanRec
<1> HIDE DEF c, i0, msg
<1>6. \A m : m \in Range(chan'[c].log) <=> (Has(c, m) \/ m = msg)
  <2>1. chan[c].log \in Seq(Msgs)
    BY <1>1, <1>5
  <2>2. Range(Append(chan[c].log, msg)) = Range(chan[c].log) \cup {msg}
    BY <2>1, <1>1, RangeOfAppend
  <2> QED
    BY <2>2, <1>2 DEF Has
<1>7. \A d \in Chans \ {c} : \A m : m \in Range(chan'[d].log) <=> Has(d, m)
  BY <1>2, SMTT(30) DEF Has
<1>8. SendOK(p)'
  <2>1. \A i \in DOMAIN proc[p].dsts : proc[p].dsts[i] \in Chans
    BY Fields
  <2>2. \A i \in DOMAIN proc[p].dsts \ {i0} : proc[p].dsts[i] \in Chans \ {c}
    BY <2>1, <1>1, <1>4 DEF SendOK
  <2>3. \A i \in DOMAIN proc[p].dsts \ {i0} :
           msg \in Range(chan'[proc[p].dsts[i]].log) <=> Has(proc[p].dsts[i], msg)
    BY <2>2, <1>7
  <2>4. msg \in Range(chan'[proc[p].dsts[i0]].log)
    BY <1>1, <1>6
  <2>5. LocalsFit(proc[p])
    BY Fields
  <2> QED
    BY <2>3, <2>4, <2>5, <1>1, <1>3, <1>4, SMTT(30) DEF SendOK, Sending, LocalsFit, Has, msg
<1>9. \A m \in Producers : SendOK(m)'
  <2>1. ASSUME NEW m \in Producers \ {p} PROVE SendOK(m)'
    <3>1. \A n \in 0 .. MaxMsgs : <<m, n>> # msg
      BY DEF msg
    <3>2. \A d \in Chans : \A n \in 0 .. MaxMsgs : Has(d, <<m, n>>)' <=> Has(d, <<m, n>>)
      BY <3>1, <1>6, <1>7 DEF Has
    <3> QED
      BY <3>2, <1>3, SendOKKept DEF SendInv
  <2> QED
    BY <2>1, <1>8
<1>10. LogOK'
  <2>1. ASSUME NEW d \in Chans, NEW m \in Producers, NEW n \in 0 .. MaxMsgs, Has(d, <<m, n>>)'
        PROVE  n =< proc'[m].sent /\ (proc'[m].pc = "snapshot" => n < proc'[m].sent)
    <3>1. proc'[m].sent = proc[m].sent /\ proc'[m].pc = proc[m].pc
      BY <1>3
    <3>2. CASE Has(d, <<m, n>>)
      BY <3>1, <3>2 DEF SendInv, LogOK
    <3>3. CASE <<m, n>> = msg
      <4>1. m = p /\ n = proc[p].sent /\ proc[p].pc # "snapshot" /\ n \in Int
        BY <3>3, <1>4, QueueAssumption DEF msg, Sending
      <4> QED
        BY <3>1, <4>1
    <3> QED
      BY <2>1, <3>2, <3>3, <1>6, <1>7 DEF Has
  <2> QED
    BY <2>1 DEF LogOK
<1>11. OrderedOnce'
  <2>1. ASSUME NEW d \in Chans, NEW i \in DOMAIN chan'[d].log, NEW j \in DOMAIN chan'[d].log,
               i < j, chan'[d].log[i][1] = chan'[d].log[j][1]
        PROVE  chan'[d].log[i][2] < chan'[d].log[j][2]
    <3>1. CASE d # c
      BY <2>1, <3>1, <1>2 DEF SendInv, OrderedOnce
    <3>2. CASE d = c
      <4> DEFINE log == chan[c].log
                 n == Len(log)
      <4>1. log \in Seq(Msgs) /\ chan'[d].log = Append(log, msg)
        BY <3>2, <1>1, <1>2, <1>5, Zenon
      <4>2. /\ i \in 1 .. n /\ chan'[d].log[i] = log[i]
            /\ \/ j \in 1 .. n /\ chan'[d].log[j] = log[j]
               \/ chan'[d].log[j] = msg
        <5>1. /\ n \in Nat /\ DOMAIN Append(log, msg) = 1 .. n + 1
              /\ \A k \in 1 .. n : Append(log, msg)[k] = log[k]
              /\ Append(log, msg)[n + 1] = msg
          <6>1. log \in Seq(Msgs) /\ msg \in Msgs
            BY <4>1, <1>1
          <6> HIDE DEF log
          <6> QED
            BY <6>1, AppendElements, SMTT(30)
        <5>2. i \in 1 .. n + 1 /\ j \in 1 .. n + 1
          BY <4>1, <5>1
        <5> HIDE DEF log, n
        <5>3. i \in 1 .. n /\ (j \in 1 .. n \/ j = n + 1)
          BY <2>1, <5>1, <5>2, SMTT(30)
        <5> QED
          BY <4>1, <5>1, <5>3
      <4>3. CASE j \in 1 .. n /\ chan'[d].log[j] = log[j]
        BY <2>1, <3>2, <4>1, <4>2, <4>3 DEF SendInv, OrderedOnce
      <4>4. CASE chan'[d].log[j] = msg
        <5>1. log[i] \in Msgs /\ log[i] \in Range(log)
          BY <4>1, <4>2 DEF Range
        <5>2. PICK k \in 0 .. MaxMsgs : log[i] = <<p, k>>
          BY <2>1, <4>2, <4>4, <5>1, SMTT(30) DEF Msgs, msg
        <5>3. k =< proc[p].sent
          BY <5>1, <5>2, <1>1 DEF SendInv, LogOK, Has
        <5>4. k # proc[p].sent
          BY <5>1, <5>2, <1>1, <1>4, ZenonT(30) DEF SendOK, Has, msg
        <5>5. k \in Int /\ proc[p].sent \in Int
          BY Fields, QueueAssumption
        <5>6. k < proc[p].sent
          BY <5>3, <5>4, <5>5
        <5> QED
          BY <4>2, <4>4, <5>2, <5>6 DEF msg
      <4> QED
        BY <4>2, <4>3, <4>4
    <3> QED
      BY <3>1, <3>2
  <2> QED
    BY <2>1 DEF OrderedOnce
<1> QED
  BY <1>9, <1>10, <1>11, SMTT(30) DEF SendInv

\* Every step preserves the delivery invariant.
LEMMA SendNext ==
  ASSUME TypeOK, SubInv, SendInv, [Next]_vars
  PROVE  SendInv'
<1> USE QueueAssumption
<1>1. ASSUME chan' = chan, proc' = proc
      PROVE  SendInv'
  BY <1>1, SendStutter
<1>2. ASSUME NEW p \in Producers, NEW r \in ProcRec, proc' = [proc EXCEPT ![p] = r],
             r.pc \notin {"snapshot", "offer", "retry"}, r.sent = proc[p].sent,
             \A c \in Chans : chan'[c].log = chan[c].log
      PROVE  SendInv'
  <2>1. proc'[p] = r /\ \A m \in Producers \ {p} : proc'[m] = proc[m]
    BY <1>2 DEF TypeOK
  <2>2. SendOK(p)'
    BY <1>2, <2>1 DEF SendOK, Sending
  <2>3. proc[p].sent \in Nat
    BY Fields
  <2> QED
    BY <1>2, <2>1, <2>2, <2>3, SendFrame, SMTT(30)
<1>3. ASSUME NEW p \in Producers, SendCtx(p)
      PROVE  SendInv'
  <2>1. CASE sink[queue[Src[p]].sink].closed
    BY <2>1, <1>1, <1>3 DEF SendCtx, Throw
  <2>2. CASE ~sink[queue[Src[p]].sink].closed
    <3>1. proc \in [Producers -> ProcRec]
      BY DEF TypeOK
    <3>2. /\ proc'[p].pc = "snapshot" /\ proc'[p].sent = proc[p].sent + 1
          /\ \A m \in Producers \ {p} : proc'[m] = proc[m]
          /\ chan' = chan
      BY <2>2, <1>3, <3>1 DEF SendCtx, ProcRec
    <3>3. proc[p].sent \in Nat
      BY Fields
    <3>4. SendOK(p)'
      BY <3>2 DEF SendOK, Sending
    <3> QED
      BY <3>2, <3>3, <3>4, SendFrame
  <2> QED
    BY <2>1, <2>2
<1>4. ASSUME NEW p \in Producers, Snapshot(p)
      PROVE  SendInv'
  <2> DEFINE s == proc[p].sink
             d == sink[s].dsts
  <2>1. CASE d = <<>>
    <3> DEFINE r == [proc[p] EXCEPT !.pc = "idle"]
    <3>1. r \in ProcRec /\ r.pc = "idle" /\ r.sent = proc[p].sent
      BY Fields, Zenon DEF ProcRec
    <3>2. proc' = [proc EXCEPT ![p] = r] /\ chan' = chan
      BY <2>1, <1>4 DEF Snapshot
    <3> HIDE DEF r
    <3> QED
      BY <1>2, <3>1, <3>2, Zenon
  <2>2. CASE d # <<>> /\ sink[s].timer = "nil"
    BY <2>2, <1>1, <1>4 DEF Snapshot, Throw
  <2>3. CASE d # <<>> /\ sink[s].timer # "nil"
    <3>1. proc \in [Producers -> ProcRec] /\ s \in Queues /\ d \in Seq(Chans)
      BY Fields DEF TypeOK
    <3>2. /\ proc'[p].pc = "offer" /\ proc'[p].sent = proc[p].sent
          /\ proc'[p].dsts = d /\ proc'[p].todo = DOMAIN d /\ proc'[p].blocked = {}
          /\ \A m \in Producers \ {p} : proc'[m] = proc[m]
          /\ chan' = chan
      BY <2>3, <1>4, <3>1, SMTT(30) DEF Snapshot, ProcRec
    <3>3. \A i, j \in DOMAIN d : d[i] = d[j] => i = j
      BY <3>1 DEF SubInv, SubscribedOnce
    <3>4. proc[p].sent \in 0 .. MaxMsgs /\ proc[p].pc = "snapshot"
      BY <1>4, Fields DEF Snapshot
    <3>5. \A c \in Chans : ~Has(c, <<p, proc[p].sent>>)
      BY <3>4 DEF SendInv, LogOK
    <3>6. \A i \in DOMAIN d : d[i] \in Chans
      BY <3>1
    <3> HIDE DEF s, d
    <3>7. SendOK(p)'
      BY <3>2, <3>3, <3>5, <3>6, SMTT(30) DEF SendOK, Sending, Has
    <3> QED
      BY <3>2, <3>4, <3>7, SendFrame, SMTT(30)
  <2> QED
    BY <2>1, <2>2, <2>3
<1>5. ASSUME NEW p \in Producers, Cancelled(p) \/ Return(p)
      PROVE  SendInv'
  <2> DEFINE r == [proc[p] EXCEPT !.pc = "idle"]
  <2>1. r \in ProcRec /\ r.pc = "idle" /\ r.sent = proc[p].sent
    BY Fields, ZenonT(30) DEF ProcRec
  <2>2. proc' = [proc EXCEPT ![p] = r] /\ chan' = chan
    BY <1>5, SMTT(30) DEF Cancelled, Return
  <2> HIDE DEF r
  <2> QED
    BY <1>2, <2>1, <2>2, ZenonT(30)
<1>6. ASSUME NEW p \in Producers, OfferTimeout(p)
      PROVE  SendInv'
  <2> DEFINE i0 == Current(p)
  <2>1. proc \in [Producers -> ProcRec] /\ i0 \in proc[p].todo
    BY <1>6, CurrentOK DEF OfferTimeout, TypeOK
  <2>2. /\ proc'[p].pc = "offer" /\ proc[p].pc = "offer" /\ proc'[p].sent = proc[p].sent
        /\ proc'[p].dsts = proc[p].dsts
        /\ proc'[p].todo = proc[p].todo \ {i0}
        /\ proc'[p].blocked = proc[p].blocked \cup {i0}
        /\ \A m \in Producers \ {p} : proc'[m] = proc[m]
        /\ chan' = chan
    BY <1>6, <2>1 DEF OfferTimeout, ProcRec
  <2>3. SendOK(p)
    BY SMTT(30) DEF SendInv
  <2>4. proc[p].sent \in Nat
    BY Fields
  <2> HIDE DEF i0
  <2>5. SendOK(p)'
    BY <2>1, <2>2, <2>3, SMTT(30) DEF SendOK, Sending, Has
  <2> QED
    BY <2>2, <2>4, <2>5, SendFrame
<1>7. ASSUME NEW p \in Producers, EndOffer(p)
      PROVE  SendInv'
  <2>1. proc \in [Producers -> ProcRec]
    BY DEF TypeOK
  <2>2. /\ proc'[p].pc = "retry" /\ proc[p].pc = "offer" /\ proc'[p].sent = proc[p].sent
        /\ proc'[p].dsts = proc[p].dsts
        /\ proc'[p].todo = proc[p].blocked /\ proc[p].todo = {}
        /\ \A m \in Producers \ {p} : proc'[m] = proc[m]
        /\ chan' = chan
    BY <1>7, <2>1, SMTT(30) DEF EndOffer, ProcRec
  <2>3. SendOK(p)
    BY DEF SendInv
  <2>4. proc[p].sent \in Nat
    BY Fields
  <2>5. SendOK(p)'
    BY <2>2, <2>3, SMTT(30) DEF SendOK, Sending, Has
  <2> QED
    BY <2>2, <2>4, <2>5, SendFrame
<1>8. ASSUME NEW p \in Producers, DeliverClosed(p) \/ RetryTimeout(p)
      PROVE  SendInv'
  BY <1>1, <1>8 DEF DeliverClosed, RetryTimeout, Throw
<1>9. ASSUME NEW p \in Producers, Close(p) \/ MarkCloseable(p)
      PROVE  SendInv'
  <2>1. PICK next \in {"close", "done"} : Capture(p, next)
    BY <1>9 DEF Close, MarkCloseable
  <2> DEFINE r == [proc[p] EXCEPT !.pc = next, !.sink = queue[Src[p]].sink]
  <2>2. r \in ProcRec /\ r.pc = next /\ r.sent = proc[p].sent
    BY Fields, Zenon DEF ProcRec
  <2>3. proc' = [proc EXCEPT ![p] = r] /\ chan' = chan
    BY <2>1, Zenon DEF Capture
  <2> HIDE DEF r
  <2> QED
    BY <1>2, <2>2, <2>3, Zenon
<1>10. ASSUME NEW p \in Producers, CloseSink(p)
       PROVE  SendInv'
  <2> DEFINE r == [proc[p] EXCEPT !.pc = "done"]
  <2>1. r \in ProcRec /\ r.pc = "done" /\ r.sent = proc[p].sent
    BY Fields, Zenon DEF ProcRec
  <2>2. proc' = [proc EXCEPT ![p] = r]
    BY <1>10 DEF CloseSink
  <2>3. \A c \in Chans : chan[c] \in ChanRec
    BY Fields
  <2>4. \A c \in Chans : chan'[c].log = chan[c].log
    <3>1. \A c \in Chans : [chan[c] EXCEPT !.state = "closed"].log = chan[c].log
      BY <2>3 DEF ChanRec
    <3>2. CASE chan' = chan
      BY <3>2
    <3>3. CASE chan' # chan
      <4>1. \A c \in Chans : chan'[c] \in {chan[c], [chan[c] EXCEPT !.state = "closed"]}
        BY <1>10, <3>3 DEF CloseSink
      <4> QED
        BY <3>1, <4>1, Zenon
    <3> QED
      BY <3>2, <3>3
  <2> HIDE DEF r
  <2> QED
    BY <1>2, <2>1, <2>2, <2>4, Zenon
<1>11. ASSUME NEW c \in Chans,
              Receive(c) \/ \E q \in Queues : SubscribeAppend(q, c)
       PROVE  SendInv'
  <2>1. chan \in [Chans -> ChanRec]
    BY DEF TypeOK
  <2>2. proc' = proc /\ \A d \in Chans : chan'[d].log = chan[d].log
    <3>1. \A d \in Chans : /\ [chan[d] EXCEPT !.read = @ + 1].log = chan[d].log
                           /\ [chan[d] EXCEPT !.state = "open"].log = chan[d].log
      BY <2>1 DEF ChanRec
    <3>2. CASE Receive(c)
      BY <2>1, <3>1, <3>2 DEF Receive
    <3>3. CASE \E q \in Queues : SubscribeAppend(q, c)
      BY <2>1, <3>1, <3>3 DEF SubscribeAppend
    <3> QED
      BY <1>11, <3>2, <3>3
  <2> QED
    BY <2>2, SendStutter
<1>12. ASSUME NEW q \in Queues, NEW c \in Chans, Subscribe(q, c)
       PROVE  SendInv'
  BY <1>1, <1>12 DEF Subscribe, Throw
<1>13. ASSUME NEW q \in Queues, NEW to \in Queues, Bypass(q, to)
       PROVE  SendInv'
  BY <1>1, <1>13 DEF Bypass, Throw
<1>14. CASE Start \/ CancelCtx \/ UNCHANGED vars \/ \E s \in Queues : Tick(s)
  BY <1>1, <1>14 DEF Start, CancelCtx, vars, Tick
<1> QED
  BY <1>3, <1>4, <1>5, <1>6, <1>7, <1>8, <1>9, <1>10, <1>11, <1>12, <1>13, <1>14, DeliverKeeps, SMTT(30)
     DEF Next, Wiring, Running, SendStep

LEMMA SendInvariant == Spec => []SendInv
<1>1. ASSUME Init PROVE SendInv
  <2>1. \A c \in Chans : chan[c].log = <<>>
    BY <1>1 DEF Init
  <2>2. \A p \in Producers : proc[p].pc = "idle"
    BY <1>1 DEF Init
  <2>3. \A c \in Chans : DOMAIN chan[c].log = {}
    BY <2>1
  <2>4. \A c \in Chans : \A m : ~Has(c, m)
    BY <2>3 DEF Has, Range
  <2>5. OrderedOnce /\ LogOK
    BY <2>3, <2>4 DEF OrderedOnce, LogOK
  <2> QED
    BY <2>2, <2>5 DEF SendInv, SendOK, Sending
<1> QED
  BY <1>1, TypeCorrect, SubInvariant, SendNext, PTL DEF Spec

\* Every subscriber receives the messages of each producer in the order of the sends and
\* none of them twice, for any number of producers, channels and messages.
THEOREM Ordered == Spec => []OrderedOnce
<1>1. SendInv => OrderedOnce
  BY SMTT(30) DEF SendInv
<1> QED
  BY <1>1, SendInvariant, PTL

\* A send never loses track of a subscriber it found registered: when it returns without
\* having been cancelled, all of them hold the message.
THEOREM Delivers == Spec => []DeliversToAll
<1>1. SendInv => DeliversToAll
  BY DEF SendInv, SendOK, Sending, DeliversToAll, Delivered, Has
<1> QED
  BY <1>1, SendInvariant, PTL

=============================================================================

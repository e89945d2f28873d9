--------------------------- MODULE SwarmRunnerProofs ---------------------------
(***************************************************************************)
(* The safety properties of the swarm runner, for any number of nodes.     *)
(***************************************************************************)
EXTENDS SwarmRunner, TLAPS

\* What the goroutines of Start know about each other: nodes exist only in a started swarm,
\* a swarm is started only when it was built completely, and the closing goroutine gets past
\* wg.Wait only when no node is left.
Inv ==
    /\ TypeOK
    /\ build = "ready" => built = N
    /\ started => build = "ready"
    /\ (\E n \in Nodes : node[n] # "none") => started
    /\ started => \A n \in Nodes : node[n] # "none"
    /\ closer \in {"lock", "end"} => WaitGroupZero /\ instDone
    /\ done.closed <=> closer = "end"
    /\ build = "failed" => instDone
    /\ panic # "sendOnClosed"

LEMMA InitInv ==
  ASSUME Init
  PROVE  Inv
<1>1. TypeOK
  <2>1. built \in 0 .. N /\ 1 \in 1 .. N + 1
    BY SwarmAssumption DEF Init
  <2>2. watcher \in [pc: {"none", "ctx", "select", "collect", "end"}, at: 1 .. N + 1,
                     ids: SUBSET Nodes]
    BY <2>1 DEF Init
  <2>3. done \in [err: SUBSET Nodes, closed: BOOLEAN]
    BY DEF Init
  <2> QED
    BY <2>1, <2>2, <2>3 DEF Init, TypeOK
<1>2. ~started /\ build = "building" /\ closer = "none" /\ panic = "none" /\ ~done.closed
  BY DEF Init, started
<1>3. \A n \in Nodes : node[n] = "none"
  BY DEF Init
<1> QED
  BY <1>1, <1>2, <1>3 DEF Inv

\* A step of a node goroutine only moves it forward.
LEMMA NodeStepInv ==
  ASSUME Inv, NEW n \in Nodes, Return(n) \/ WgDone(n) \/ StoreDone(n)
  PROVE  Inv'
<1>1. PICK to \in {"returned", "waited", "done"} :
         /\ node[n] # "none" /\ (node[n] \in {"waited", "done"} => to = "done")
         /\ node' = [node EXCEPT ![n] = to]
         /\ UNCHANGED <<built, build, ctxDone, instDone, closer, watcher, done, panic>>
  BY DEF Return, WgDone, StoreDone, NodeStep
<1>2. node \in [Nodes -> {"none", "running", "returned", "waited", "done"}]
  BY DEF Inv, TypeOK
<1>3. WaitGroupZero => WaitGroupZero'
  BY <1>1, <1>2 DEF WaitGroupZero
<1>4. TypeOK'
  BY <1>1, <1>2 DEF Inv, TypeOK
<1>5. started' = started
  BY <1>1 DEF started
<1>6. /\ (\E m \in Nodes : node'[m] # "none") => started
      /\ started => \A m \in Nodes : node'[m] # "none"
  BY <1>1, <1>2 DEF Inv
<1> QED
  BY <1>1, <1>3, <1>4, <1>5, <1>6 DEF Inv

LEMMA NextInv ==
  ASSUME Inv, [Next]_vars
  PROVE  Inv'
<1> USE SwarmAssumption
<1>1. CASE UNCHANGED vars
  BY <1>1 DEF vars, Inv, TypeOK, started, WaitGroupZero
<1>2. CASE Create
  <2>1. TypeOK'
    <3>1. built' \in 0 .. N
      BY <1>2 DEF Create, Inv, TypeOK
    <3>2. instDone' \in BOOLEAN /\ build' \in {"building", "ready", "failed"}
      BY <1>2 DEF Create, Inv, TypeOK
    <3> QED
      BY <1>2, <3>1, <3>2 DEF Create, Inv, TypeOK
  <2>2. /\ build = "building"
        /\ build' \in {"building", "failed"} /\ (build' = "failed" => instDone')
        /\ UNCHANGED <<node, closer, done, panic>>
    BY <1>2 DEF Create
  <2> QED
    BY <2>1, <2>2 DEF Inv, started
<1>3. CASE InstanceReturns
  BY <1>3 DEF InstanceReturns, Inv, TypeOK, started, WaitGroupZero
<1>4. CASE Start
  <2>1. CASE started
    BY <2>1, <1>4 DEF Start, Inv, TypeOK, started, WaitGroupZero
  <2>2. CASE ~started
    <3>1. /\ build = "ready" /\ closer = "none"
          /\ node' = [n \in Nodes |-> "running"] /\ closer' = "wait"
          /\ watcher' = [watcher EXCEPT !.pc = IF CancelTimeout THEN "ctx" ELSE "none"]
          /\ UNCHANGED <<built, build, ctxDone, instDone, done, panic>>
      BY <2>2, <1>4 DEF Start, started
    <3>2. watcher' \in [pc: {"none", "ctx", "select", "collect", "end"}, at: 1 .. N + 1,
                        ids: SUBSET Nodes]
      <4>1. (IF CancelTimeout THEN "ctx" ELSE "none") \in {"none", "ctx"}
        OBVIOUS
      <4> QED
        BY <3>1, <4>1 DEF Inv, TypeOK
    <3>3. TypeOK'
      BY <3>1, <3>2 DEF Inv, TypeOK
    <3> QED
      BY <3>1, <3>3 DEF Inv, started
  <2> QED
    BY <2>1, <2>2
<1>5. ASSUME NEW n \in Nodes, Return(n) \/ WgDone(n) \/ StoreDone(n)
      PROVE  Inv'
  BY <1>5, NodeStepInv
<1>6. CASE CancelInstancer
  BY <1>6 DEF CancelInstancer, Inv, TypeOK, started, WaitGroupZero
<1>7. CASE CloseDone
  BY <1>7 DEF CloseDone, Inv, TypeOK, started, WaitGroupZero
<1>8. CASE WatchCtx \/ WatchOk \/ WatchTimeout
  <2>1. PICK next \in {"select", "collect", "end"} :
           /\ watcher' = [watcher EXCEPT !.pc = next]
           /\ UNCHANGED <<built, build, node, ctxDone, instDone, closer, done, panic>>
    BY <1>8 DEF WatchCtx, WatchOk, WatchTimeout, WatcherStep
  <2>2. TypeOK'
    BY <2>1 DEF Inv, TypeOK
  <2> QED
    BY <2>1, <2>2 DEF Inv, started, WaitGroupZero
<1>9. CASE Collect
  <2>1. watcher' \in [pc: {"none", "ctx", "select", "collect", "end"}, at: 1 .. N + 1,
                      ids: SUBSET Nodes]
    <3>1. /\ watcher.at + 1 \in 1 .. N + 1 /\ watcher.at \in Nodes
          /\ watcher.ids \in SUBSET Nodes
      BY <1>9 DEF Collect, Inv, TypeOK, Nodes
    <3>2. (IF node[watcher.at] = "done" THEN watcher.ids
           ELSE watcher.ids \cup {watcher.at}) \in SUBSET Nodes
      BY <3>1
    <3> QED
      BY <1>9, <3>1, <3>2 DEF Collect, Inv, TypeOK
  <2> QED
    BY <1>9, <2>1 DEF Collect, Inv, TypeOK, started, WaitGroupZero
<1>10. CASE Report
  <2>1. watcher' \in [pc: {"none", "ctx", "select", "collect", "end"}, at: 1 .. N + 1,
                      ids: SUBSET Nodes]
    BY <1>10 DEF Report, Inv, TypeOK
  <2>2. CASE done.closed \/ watcher.ids = {}
    BY <1>10, <2>1, <2>2 DEF Report, Inv, TypeOK, started, WaitGroupZero
  <2>3. CASE ~(done.closed \/ watcher.ids = {})
    <3>1. /\ done' = [done EXCEPT !.err = watcher.ids]
          /\ UNCHANGED <<built, build, node, ctxDone, instDone, closer, panic>>
      BY <1>10, <2>3 DEF Report, SendError
    <3>2. done' \in [err: SUBSET Nodes, closed: BOOLEAN] /\ done'.closed = done.closed
      BY <3>1 DEF Inv, TypeOK
    <3>3. TypeOK'
      BY <2>1, <3>1, <3>2 DEF Inv, TypeOK, AllReturned
    <3> QED
      BY <3>1, <3>2, <3>3 DEF Inv, started, WaitGroupZero
  <2> QED
    BY <2>2, <2>3
<1>11. CASE CancelCtx
  BY <1>11 DEF CancelCtx, Inv, TypeOK, started, WaitGroupZero
<1> QED
  BY <1>1, <1>2, <1>3, <1>4, <1>5, <1>6, <1>7, <1>8, <1>9, <1>10, <1>11 DEF Next, Goroutines

LEMMA Invariance == Spec => []Inv
BY InitInv, NextInv, PTL DEF Spec

\* No node of a swarm of any size runs unless all its creators succeeded.
THEOREM SwarmAllOrNothing == Spec => []AllOrNothing
<1>1. Inv => AllOrNothing
  BY DEF Inv, AllOrNothing, buildCtxDone, started
<1> QED
  BY <1>1, Invariance, PTL

\* The Done channel of a swarm of any size is closed only after its last node.
THEOREM SwarmDoneMeansStopped == Spec => []DoneMeansStopped
<1>1. Inv => DoneMeansStopped
  BY DEF Inv, DoneMeansStopped, WaitGroupZero, AllReturned
<1> QED
  BY <1>1, Invariance, PTL

\* The error of watchForRunnersExiting is never sent on a closed channel.
THEOREM SwarmNoSendOnClosed == Spec => []NoSendOnClosed
<1>1. Inv => NoSendOnClosed
  BY DEF Inv, NoSendOnClosed
<1> QED
  BY <1>1, Invariance, PTL

=============================================================================

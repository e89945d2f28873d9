------------------------------ MODULE SwarmRunner ------------------------------
(***************************************************************************)
(* Construction and execution of a swarm of pipeline nodes                 *)
(* (pkg/pipe/swarm/instancer.go and runner.go).  Instance calls the        *)
(* creators one after the other; Start runs one goroutine per node, one    *)
(* that closes Done when all have returned and, with WithCancelTimeout,    *)
(* one that reports the nodes that outlive the cancelled context.          *)
(***************************************************************************)
EXTENDS Integers

CONSTANTS
    N,              \* number of nodes added to the Instancer
    CancelTimeout   \* whether Start gets WithCancelTimeout

ASSUME SwarmAssumption == N \in Nat /\ CancelTimeout \in BOOLEAN

Nodes == 1 .. N

VARIABLES
    built,       \* creators that succeeded; build = "failed" after the first that did not
    build,       \* "building", "ready" or "failed"
    node,        \* node[n]: how far the goroutine of node n is
    ctxDone,     \* the context of Instance and Start is cancelled
    instDone,    \* cancelInstancerCtx was called
    closer,      \* the goroutine that waits for all nodes and closes done
    watcher,     \* watchForRunnersExiting: its place, loop index and the ids it collected
    done,        \* the done channel: the error in its buffer, if any, and whether it is closed
    panic        \* why the process panicked, or "none"

vars == <<built, build, node, ctxDone, instDone, closer, watcher, done, panic>>

Init ==
    /\ built = 0
    /\ build = "building"
    /\ node = [n \in Nodes |-> "none"]
    /\ ctxDone = FALSE
    /\ instDone = FALSE
    /\ closer = "none"
    /\ watcher = [pc |-> "none", at |-> 1, ids |-> {}]
    /\ done = [err |-> {}, closed |-> FALSE]
    /\ panic = "none"

\* The context that the creators receive: a child of ctx.
buildCtxDone == ctxDone \/ instDone

started == closer # "none"
WaitGroupZero == \A n \in Nodes : node[n] \in {"waited", "done"}
AllReturned == \A n \in Nodes : node[n] \in {"returned", "waited", "done"}

-----------------------------------------------------------------------------
\* Variant: one creator too many.
CreateOneMore ==
    /\ build = "building"
    /\ built <= N
    /\ \/ built' = built + 1 /\ UNCHANGED <<build, instDone>>
       \/ build' = "failed" /\ instDone' = TRUE /\ UNCHANGED built
    /\ UNCHANGED <<node, ctxDone, closer, watcher, done, panic>>

\* One turn of Instance's loop: the next creator succeeds, or fails and ends it.
Create ==
    /\ build = "building"
    /\ built < N
    /\ \/ built' = built + 1 /\ UNCHANGED <<build, instDone>>
       \/ build' = "failed" /\ instDone' = TRUE /\ UNCHANGED built
    /\ UNCHANGED <<node, ctxDone, closer, watcher, done, panic>>

\* Variant: the nodes run as they are created.
InstanceReturnsEarly ==
    /\ build = "building"
    /\ built > 0
    /\ build' = "ready"
    /\ UNCHANGED <<built, node, ctxDone, instDone, closer, watcher, done, panic>>

InstanceReturns ==
    /\ build = "building"
    /\ built = N
    /\ build' = "ready"
    /\ UNCHANGED <<built, node, ctxDone, instDone, closer, watcher, done, panic>>

\* Start: a second call panics.
Start ==
    /\ build = "ready"
    /\ IF started
       THEN panic' = "startedTwice" /\ UNCHANGED <<node, closer, watcher>>
       ELSE /\ node' = [n \in Nodes |-> "running"]
            /\ closer' = "wait"
            /\ watcher' = [watcher EXCEPT !.pc = IF CancelTimeout THEN "ctx" ELSE "none"]
            /\ UNCHANGED panic
    /\ UNCHANGED <<built, build, ctxDone, instDone, done>>

\* The goroutine of a node: fn returns, then wg.Done, then done.Store(true).
NodeStep(n, from, to) ==
    /\ node[n] = from
    /\ node' = [node EXCEPT ![n] = to]
    /\ UNCHANGED <<built, build, ctxDone, instDone, closer, watcher, done, panic>>

Return(n) == NodeStep(n, "running", "returned")
WgDone(n) == NodeStep(n, "returned", "waited")
StoreDone(n) == NodeStep(n, "waited", "done")

\* Variant: the closing goroutine does not wait for the nodes.
CancelInstancerAtOnce ==
    /\ closer = "wait"
    /\ closer' = "lock"
    /\ instDone' = TRUE
    /\ UNCHANGED <<built, build, node, ctxDone, watcher, done, panic>>

\* The closing goroutine: wg.Wait and cancelInstancerCtx, then the locked part.
CancelInstancer ==
    /\ closer = "wait"
    /\ WaitGroupZero
    /\ closer' = "lock"
    /\ instDone' = TRUE
    /\ UNCHANGED <<built, build, node, ctxDone, watcher, done, panic>>

\* Variant: a reported swarm is not closed.
CloseDoneUnlessReported ==
    /\ closer = "lock"
    /\ closer' = "end"
    /\ done' = [done EXCEPT !.closed = (done.err = {})]
    /\ UNCHANGED <<built, build, node, ctxDone, instDone, watcher, panic>>

CloseDone ==
    /\ closer = "lock"
    /\ closer' = "end"
    /\ done' = [done EXCEPT !.closed = TRUE]
    /\ UNCHANGED <<built, build, node, ctxDone, instDone, watcher, panic>>

-----------------------------------------------------------------------------
(* watchForRunnersExiting.                                                 *)

WatcherStep(pc, next) ==
    /\ watcher.pc = pc
    /\ watcher' = [watcher EXCEPT !.pc = next]
    /\ UNCHANGED <<built, build, node, ctxDone, instDone, closer, done, panic>>

WatchCtx == ctxDone /\ WatcherStep("ctx", "select")

\* case <-allRunnersClosed, which a goroutine of its own closes after wg.Wait.
WatchOk == WaitGroupZero /\ WatcherStep("select", "end")

\* case <-time.After(s.cancelTimeout).
WatchTimeout == WatcherStep("select", "collect")

\* One turn of the loop that collects the ids of the nodes still running.
Collect ==
    /\ watcher.pc = "collect"
    /\ watcher.at <= N
    /\ watcher' = [watcher EXCEPT !.at = @ + 1,
                                  !.ids = IF node[watcher.at] = "done" THEN @
                                          ELSE @ \cup {watcher.at}]
    /\ UNCHANGED <<built, build, node, ctxDone, instDone, closer, done, panic>>

\* s.done <- CancelTimeoutError{...}: panics when the channel is closed.
SendError(ids) ==
    IF done.closed
    THEN panic' = "sendOnClosed" /\ UNCHANGED done
    ELSE /\ done' = [done EXCEPT !.err = ids]
         /\ UNCHANGED panic

\* Variant: the closed channel is not checked for.
ReportUnchecked ==
    /\ watcher.pc = "collect"
    /\ watcher.at > N
    /\ watcher' = [watcher EXCEPT !.pc = "end"]
    /\ IF watcher.ids = {} THEN UNCHANGED <<done, panic>> ELSE SendError(watcher.ids)
    /\ UNCHANGED <<built, build, node, ctxDone, instDone, closer>>

\* Variant: nothing is reported.
ReportNothing ==
    /\ watcher.pc = "collect"
    /\ watcher.at > N
    /\ watcher' = [watcher EXCEPT !.pc = "end"]
    /\ UNCHANGED <<built, build, node, ctxDone, instDone, closer, done, panic>>

\* The part under doneCloseMutex.
Report ==
    /\ watcher.pc = "collect"
    /\ watcher.at > N
    /\ watcher' = [watcher EXCEPT !.pc = "end"]
    /\ IF done.closed \/ watcher.ids = {}
       THEN UNCHANGED <<done, panic>>
       ELSE SendError(watcher.ids)
    /\ UNCHANGED <<built, build, node, ctxDone, instDone, closer>>

CancelCtx ==
    /\ ~ctxDone
    /\ ctxDone' = TRUE
    /\ UNCHANGED <<built, build, node, instDone, closer, watcher, done, panic>>

-----------------------------------------------------------------------------
Goroutines ==
    \/ \E n \in Nodes : WgDone(n) \/ StoreDone(n)
    \/ CancelInstancer \/ CloseDone
    \/ WatchCtx \/ WatchOk \/ WatchTimeout \/ Collect \/ Report

Next ==
    /\ panic = "none"
    /\ \/ Create \/ InstanceReturns \/ Start
       \/ \E n \in Nodes : Return(n)
       \/ Goroutines
       \/ CancelCtx

Spec == Init /\ [][Next]_vars

-----------------------------------------------------------------------------
(* Properties.                                                             *)

\* The runner's fields have their types.
TypeOK ==
    /\ built \in 0 .. N
    /\ build \in {"building", "ready", "failed"}
    /\ node \in [Nodes -> {"none", "running", "returned", "waited", "done"}]
    /\ ctxDone \in BOOLEAN
    /\ instDone \in BOOLEAN
    /\ closer \in {"none", "wait", "lock", "end"}
    /\ watcher \in [pc: {"none", "ctx", "select", "collect", "end"}, at: 1 .. N + 1,
                    ids: SUBSET Nodes]
    /\ done \in [err: SUBSET Nodes, closed: BOOLEAN]
    /\ panic \in {"none", "startedTwice", "sendOnClosed"}

\* "No service RunFunc internal instance is started until all the Creators are successfully
\* created" (Start), and a failed construction cancels the context of the creators.
AllOrNothing ==
    /\ (\E n \in Nodes : node[n] # "none") => built = N /\ build = "ready"
    /\ build = "failed" => buildCtxDone

\* Done is closed only when every RunFunc has returned and the creators' context has been
\* released.
DoneMeansStopped == done.closed => AllReturned /\ instDone

\* The watcher and the closing goroutine agree through doneCloseMutex: the late error is
\* never sent on the closed channel.
NoSendOnClosed == panic # "sendOnClosed"

\* Started goroutines keep running; nothing makes a RunFunc return.
Fairness ==
    /\ \A n \in Nodes : WF_vars(panic = "none" /\ (WgDone(n) \/ StoreDone(n)))
    /\ WF_vars(panic = "none" /\ (CancelInstancer \/ CloseDone))
    /\ WF_vars(panic = "none" /\ (WatchCtx \/ WatchOk \/ WatchTimeout \/ Collect \/ Report))

FairSpec == Spec /\ Fairness

\* A started swarm whose context is cancelled always answers on Done when it has a cancel
\* timeout: it closes it, or reports the nodes that do not exit.
DoneAnswers ==
    (CancelTimeout /\ started /\ ctxDone)
        ~> (done.closed \/ done.err # {} \/ panic # "none")

\* When all the nodes of a started swarm return, Done is closed, reported error or not.
DoneCloses == (started /\ AllReturned) ~> (done.closed \/ panic # "none")

=============================================================================

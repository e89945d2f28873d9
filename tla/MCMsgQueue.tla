------------------------------ MODULE MCMsgQueue ------------------------------
(* Small instances of the message queue for TLC. *)
EXTENDS MsgQueue, Graphs, TLC

CONSTANTS q1, q2, q3

OneSource == [p \in Producers |-> q1]
OneCloser == [q \in Queues |-> 1]
ProducersClose == [q \in Queues |-> Cardinality(Producers)]

ChanSymmetry == Permutations(Chans)

\* The links that Bypass made, read off the diagnostic routes, in both directions.
Links ==
    LET next == {<<q, queue[q].route[2]>> : q \in {r \in Queues : Len(queue[r].route) > 1}}
    IN [node |-> Queues, edge |-> next \cup {<<e[2], e[1]>> : e \in next}]

\* Two queues share a sink exactly when a chain of Bypass calls links them, whatever the
\* order of the calls: messages reach all the subscribers of the group and nobody else.
GroupsAreConnected ==
    LET linked == ConnectionsIn(Links) IN
    \A q, r \in Queues : (queue[q].sink = queue[r].sink) <=> linked[q, r]
=============================================================================

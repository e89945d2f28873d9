------------------------------ MODULE BatchStream ------------------------------
(***************************************************************************)
(* What a ring buffer forwarder promises to the queue it writes to: the    *)
(* records that its parser and filter keep come out once, in the order in  *)
(* which the kernel committed them, in batches of one to BatchLength.      *)
(* Only a cancelled forwarder may skip records.                            *)
(***************************************************************************)
EXTENDS Integers, Sequences

CONSTANTS
    Kept,           \* the records that parse without error and pass the filter
    BatchLength     \* EBPFTracer.BatchLength

VARIABLES
    committed,      \* records 1 .. committed are in the ring buffer or went through it
    sent,           \* the batches in the output queue, in order
    cancelled       \* the context of the forwarder is cancelled

streamVars == <<committed, sent, cancelled>>

LastSent == IF sent = << >> THEN 0 ELSE LET b == sent[Len(sent)] IN b[Len(b)]

\* The kept records after position p, up to position q.
KeptIn(p, q) == SelectSeq([i \in 1 .. q - p |-> p + i], LAMBDA r : r \in Kept)

StreamInit == committed = 0 /\ sent = << >> /\ cancelled = FALSE

Commit == committed' = committed + 1 /\ UNCHANGED <<sent, cancelled>>

CancelStream == ~cancelled /\ cancelled' = TRUE /\ UNCHANGED <<committed, sent>>

SendBatch ==
    /\ \E p \in LastSent .. committed : \E q \in p + 1 .. committed :
          LET b == KeptIn(p, q)
          IN  /\ p = LastSent \/ cancelled
              /\ Len(b) \in 1 .. BatchLength
              /\ sent' = Append(sent, b)
    /\ UNCHANGED <<committed, cancelled>>

StreamSpec == StreamInit /\ [][Commit \/ CancelStream \/ SendBatch]_streamVars
=============================================================================

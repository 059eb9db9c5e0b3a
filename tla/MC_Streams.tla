----------------------------- MODULE MC_Streams -----------------------------
(***************************************************************************)
(* Instances of Streams for TLC.                                           *)
(***************************************************************************)
EXTENDS Streams

\* Stream 1 opened by a packet, closed by a sentinel and opened again;
\* one packet on stream 2.
MCInbound ==
    << [id |-> 1, content |-> TRUE], [id |-> 1, content |-> FALSE],
       [id |-> 2, content |-> TRUE], [id |-> 1, content |-> TRUE] >>

=============================================================================

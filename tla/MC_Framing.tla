----------------------------- MODULE MC_Framing -----------------------------
(***************************************************************************)
(* Instances of Framing for TLC.  User packets carry operation 32; content *)
(* bytes are distinct from header bytes so that a misaligned decode shows. *)
(***************************************************************************)
EXTENDS Framing

\* TLC's integers are 32-bit signed: the content lengths it can hold.  A
\* header whose first length byte is below 128 decodes inside this set.
MCUint32s == 0..(2^30 + (2^30 - 1))

\* With a 9-byte buffer: a packet that fills it with its
\* header, a PING, a packet without content, and a packet whose content
\* is longer than the buffer, which readLoop must grow.
MCFrames ==
    << [id |-> 1, op |-> 32, content |-> <<7>>],
       [id |-> 2, op |-> PING, content |-> <<>>],
       [id |-> 3, op |-> 32, content |-> <<>>],
       [id |-> 4, op |-> 32, content |-> [i \in 1..10 |-> 9]] >>

\* A PING carrying a 6-byte payload, which only a foreign peer sends.  If
\* the payload is not consumed, its bytes and the next header's id decode
\* as a packet with id 5, operation 32 and content length 1.
MCFramesPingPayload ==
    << [id |-> 1, op |-> PING, content |-> <<0, 5, 0, 32, 0, 0>>],
       [id |-> 1, op |-> 32, content |-> <<>>] >>

=============================================================================

--------------------------- MODULE PacketChannel ---------------------------
(***************************************************************************)
(* What frisbee.Async promises the reader of non-stream packets (spec      *)
(* 4.4, 4.6, 7): the user packets the peer sends are received in the      *)
(* order sent, none skipped while the channel is open, none received after *)
(* it is closed, and ReadPacket returns them first in, first out, also     *)
(* after close.  Inbound is the sequence of frame kinds the peer sends; a *)
(* packet is the index of its frame.                                       *)
(***************************************************************************)
EXTENDS Naturals, Sequences

CONSTANT Inbound

VARIABLES
    q,          \* received and not yet returned by ReadPacket
    delivered,  \* returned by ReadPacket, in order
    last,       \* the frame of the last packet received, 0 if none
    closed      \* no packet is received any more

chanVars == <<q, delivered, last, closed>>

\* Frame i is the first user frame after frame l.
NextUser(l, i) ==
    /\ i \in (l + 1)..Len(Inbound)
    /\ Inbound[i] = "user"
    /\ \A j \in (l + 1)..(i - 1) : Inbound[j] # "user"

Init ==
    /\ q = <<>>
    /\ delivered = <<>>
    /\ last = 0
    /\ closed = FALSE

Receive ==
    /\ ~closed
    /\ \E i \in 1..Len(Inbound) :
         /\ NextUser(last, i)
         /\ q' = Append(q, i)
         /\ last' = i
    /\ UNCHANGED <<delivered, closed>>

Deliver ==
    /\ q # <<>>
    /\ delivered' = Append(delivered, Head(q))
    /\ q' = Tail(q)
    /\ UNCHANGED <<last, closed>>

Close ==
    /\ ~closed
    /\ closed' = TRUE
    /\ UNCHANGED <<q, delivered, last>>

Next == Receive \/ Deliver \/ Close

Spec == Init /\ [][Next]_chanVars

-----------------------------------------------------------------------------
\* The packets received so far, returned by ReadPacket or not, in order.
Received == delivered \o q

(***************************************************************************)
(* What the channel promises the reader: the packets received so far are  *)
(* exactly the user frames up to the last one received, each once, in the *)
(* order the peer sent them; no user frame before it was skipped.         *)
(***************************************************************************)
ReceivedInOrder ==
    /\ \A k \in 1..Len(Received) :
          Received[k] \in 1..last /\ Inbound[Received[k]] = "user"
    /\ \A k, m \in 1..Len(Received) : k < m => Received[k] < Received[m]
    /\ \A j \in 1..last :
          Inbound[j] = "user" => \E k \in 1..Len(Received) : Received[k] = j

=============================================================================

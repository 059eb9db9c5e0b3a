--------------------------- MODULE StreamRegistry ---------------------------
(***************************************************************************)
(* What the stream registry promises the connection (spec 4.5, 4.7, 4.8): *)
(* each operation is atomic under Streams.mu; a new Stream is registered  *)
(* for an id in place of whatever was there; the peer's close sentinel    *)
(* closes the Stream of an id and unregisters it in one step; CloseAll    *)
(* closes every registered Stream once, when the connection closes.  A   *)
(* Stream is the number of its creation.                                   *)
(***************************************************************************)
EXTENDS Naturals, Sequences

CONSTANT Ids

NoStream == 0

VARIABLES
    reg,        \* id -> the Stream registered for it, or NoStream
    made,       \* made[s]: the id Stream s was created for
    closed,     \* the Streams that are closed
    shut        \* CloseAll has run

regVars == <<reg, made, closed, shut>>

Made == 1..Len(made)
Registered == {reg[i] : i \in Ids} \ {NoStream}

Init ==
    /\ reg = [i \in Ids |-> NoStream]
    /\ made = <<>>
    /\ closed = {}
    /\ shut = FALSE

\* A new Stream, registered for id in place of any other.
Create(id) ==
    /\ made' = Append(made, id)
    /\ reg' = [reg EXCEPT ![id] = Len(made) + 1]
    /\ UNCHANGED <<closed, shut>>

\* The close sentinel of the open connection: the Stream of id is closed
\* and unregistered at once.
CloseStream(id) ==
    /\ ~shut
    /\ reg[id] # NoStream
    /\ closed' = closed \cup {reg[id]}
    /\ reg' = [reg EXCEPT ![id] = NoStream]
    /\ UNCHANGED <<made, shut>>

\* The connection closes: every registered Stream is closed.
CloseAll ==
    /\ ~shut
    /\ closed' = closed \cup Registered
    /\ shut' = TRUE
    /\ UNCHANGED <<reg, made>>

Next == (\E id \in Ids : Create(id) \/ CloseStream(id)) \/ CloseAll

Spec == Init /\ [][Next]_regVars

-----------------------------------------------------------------------------
\* Every variable holds a value of its type.
TypeOK ==
    /\ made \in Seq(Ids)
    /\ reg \in [Ids -> Made \cup {NoStream}]
    /\ closed \subseteq Made
    /\ shut \in BOOLEAN

(***************************************************************************)
(* While the connection is open no closed Stream is registered, so a      *)
(* packet is never routed to a closed queue.                               *)
(***************************************************************************)
OnlyOpenRegistered == ~shut => Registered \cap closed = {}

=============================================================================

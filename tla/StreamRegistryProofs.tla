------------------------- MODULE StreamRegistryProofs -------------------------
(***************************************************************************)
(* The atomic stream registry keeps only open Streams registered while    *)
(* the connection is open (OnlyOpenRegistered), for every set of ids.  It *)
(* is not inductive alone: closing the Stream of one id must not leave it *)
(* registered under another, so RInv adds that a Stream is registered     *)
(* only for the id it was created for, and that a new Stream is not       *)
(* already closed.                                                         *)
(***************************************************************************)
EXTENDS StreamRegistry, SequenceTheorems, TLAPS

\* A Stream is registered only under the id it was created for.
OneId == \A i \in Ids : reg[i] # NoStream => made[reg[i]] = i

RInv == TypeOK /\ OneId /\ OnlyOpenRegistered

(* Init establishes RInv: no Stream exists yet.                            *)
LEMMA InitRInv == Init => RInv
<1>. SUFFICES ASSUME Init PROVE RInv
  OBVIOUS
<1>1. made \in Seq(Ids) /\ Made = {}
  BY DEF Init, Made
<1>2. Registered = {}
  BY DEF Init, Registered, NoStream
<1>. QED
  BY <1>1, <1>2 DEF Init, RInv, TypeOK, OneId, OnlyOpenRegistered, NoStream

(* Create(id) keeps RInv: the new Stream is the next number, not closed,  *)
(* and made records id for it.                                             *)
LEMMA CreateRInv ==
    ASSUME RInv, NEW id \in Ids, Create(id)
    PROVE  RInv'
<1>. DEFINE s == Len(made) + 1
<1>1. made \in Seq(Ids) /\ Len(made) \in Nat
  BY DEF RInv, TypeOK
<1>2. /\ made' \in Seq(Ids) /\ Len(made') = s /\ made'[s] = id
      /\ \A k \in 1..Len(made) : made'[k] = made[k]
  BY <1>1, AppendProperties DEF Create
<1>3. Made' = Made \cup {s} /\ s \notin Made
  BY <1>1, <1>2 DEF Made
<1>4. TypeOK'
  BY <1>2, <1>3 DEF RInv, TypeOK, Create, NoStream
<1>5. OneId'
  BY <1>2, <1>3 DEF RInv, TypeOK, OneId, Create, Made, NoStream
<1>6. Registered' \subseteq Registered \cup {s}
  BY DEF Create, Registered
<1>7. OnlyOpenRegistered'
  BY <1>3, <1>6 DEF RInv, TypeOK, OnlyOpenRegistered, Create
<1>. QED
  BY <1>4, <1>5, <1>7 DEF RInv

(* CloseStream(id) keeps RInv: the Stream it closes is registered only    *)
(* under id, so removing it from id leaves no closed Stream registered.   *)
LEMMA CloseStreamRInv ==
    ASSUME RInv, NEW id \in Ids, CloseStream(id)
    PROVE  RInv'
<1>. DEFINE s == reg[id]
<1>1. \A i \in Ids \ {id} : reg[i] # s
  BY DEF RInv, OneId, CloseStream
<1>2. Registered' = Registered \ {s}
  BY <1>1 DEF CloseStream, Registered, RInv, TypeOK
<1>3. TypeOK'
  BY DEF RInv, TypeOK, CloseStream, Made
<1>4. OneId'
  BY DEF RInv, TypeOK, OneId, CloseStream
<1>5. OnlyOpenRegistered'
  BY <1>2 DEF RInv, OnlyOpenRegistered, CloseStream
<1>. QED
  BY <1>3, <1>4, <1>5 DEF RInv

(* CloseAll keeps RInv: it closes registered Streams only, and shuts.     *)
LEMMA CloseAllRInv ==
    ASSUME RInv, CloseAll
    PROVE  RInv'
<1>1. Registered \subseteq Made
  BY DEF RInv, TypeOK, Registered, NoStream
<1>. QED
  BY <1>1 DEF RInv, TypeOK, OneId, OnlyOpenRegistered, CloseAll, Made,
              Registered

(* Every step of the registry keeps RInv.                                  *)
LEMMA NextRInv == RInv /\ [Next]_regVars => RInv'
<1>. SUFFICES ASSUME RInv, [Next]_regVars PROVE RInv'
  OBVIOUS
<1>1. CASE \E id \in Ids : Create(id)
  BY <1>1, CreateRInv
<1>2. CASE \E id \in Ids : CloseStream(id)
  BY <1>2, CloseStreamRInv
<1>3. CASE CloseAll
  BY <1>3, CloseAllRInv
<1>4. CASE UNCHANGED regVars
  BY <1>4 DEF RInv, TypeOK, OneId, OnlyOpenRegistered, regVars, Made,
              Registered
<1>. QED
  BY <1>1, <1>2, <1>3, <1>4 DEF Next

(***************************************************************************)
(* While the connection is open the registry holds no closed Stream: the  *)
(* promise that lets readLoop push a packet to the Stream it looked up    *)
(* (async.go:562) without the push failing on a closed queue.             *)
(***************************************************************************)
THEOREM OpenRegistered == Spec => []OnlyOpenRegistered
<1>1. RInv => OnlyOpenRegistered
  BY DEF RInv
<1>. QED
  BY <1>1, InitRInv, NextRInv, PTL DEF Spec

=============================================================================

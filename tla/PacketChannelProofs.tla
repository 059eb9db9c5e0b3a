-------------------------- MODULE PacketChannelProofs --------------------------
(***************************************************************************)
(* The packet channel keeps its promise (ReceivedInOrder) for every        *)
(* inbound sequence: a Receive appends the first user frame after the     *)
(* last one received, so the packets received stay the user frames up to *)
(* it, in order; a Deliver moves the head of q to the end of delivered,   *)
(* which leaves their concatenation alone.                                 *)
(***************************************************************************)
EXTENDS PacketChannel, SequenceTheorems, TLAPS

\* The types the promise is stated over.
TypeC ==
    /\ q \in Seq(Nat) /\ delivered \in Seq(Nat)
    /\ last \in Nat /\ closed \in BOOLEAN

CInv == TypeC /\ ReceivedInOrder

(* What has been received is a sequence of frame numbers.                  *)
LEMMA ReceivedType ==
    ASSUME TypeC
    PROVE  Received \in Seq(Nat)
BY ConcatProperties DEF TypeC, Received

\* Appending to the second of two concatenated sequences.
LEMMA ConcatAppendNat ==
    ASSUME NEW r \in Seq(Nat), NEW s \in Seq(Nat), NEW x \in Nat
    PROVE  r \o Append(s, x) = Append(r \o s, x)
<1>1. Append(s, x) = s \o <<x>> /\ Append(r \o s, x) = (r \o s) \o <<x>>
  BY AppendIsConcat, ConcatProperties
<1>2. <<x>> \in Seq(Nat)
  OBVIOUS
<1>. QED
  BY <1>1, <1>2, ConcatAssociative

\* Moving the head of a non-empty sequence to the end of another one.
LEMMA ConcatHeadTailNat ==
    ASSUME NEW r \in Seq(Nat), NEW s \in Seq(Nat), s # <<>>
    PROVE  Append(r, Head(s)) \o Tail(s) = r \o s
<1>. DEFINE a == Append(r, Head(s))
            t == Tail(s)
<1>1. /\ Head(s) \in Nat /\ t \in Seq(Nat) /\ Len(t) = Len(s) - 1
      /\ \A k \in 1..Len(t) : t[k] = s[k + 1]
      /\ Len(s) \in Nat \ {0} /\ Head(s) = s[1] /\ Len(r) \in Nat
  BY HeadTailProperties, LenProperties
<1>2. /\ a \in Seq(Nat) /\ Len(a) = Len(r) + 1
      /\ \A k \in 1..Len(r) : a[k] = r[k]
      /\ a[Len(r) + 1] = Head(s)
  BY <1>1, AppendProperties
<1>3. /\ a \o t \in Seq(Nat) /\ Len(a \o t) = Len(a) + Len(t)
      /\ \A k \in 1..Len(a) + Len(t) :
            (a \o t)[k] = IF k <= Len(a) THEN a[k] ELSE t[k - Len(a)]
  BY <1>1, <1>2, ConcatProperties
<1>4. /\ r \o s \in Seq(Nat) /\ Len(r \o s) = Len(r) + Len(s)
      /\ \A k \in 1..Len(r) + Len(s) :
            (r \o s)[k] = IF k <= Len(r) THEN r[k] ELSE s[k - Len(r)]
  BY ConcatProperties
<1>5. Len(a \o t) = Len(r \o s)
  BY <1>1, <1>2, <1>3, <1>4
<1>6. ASSUME NEW k \in 1..Len(r \o s) PROVE (a \o t)[k] = (r \o s)[k]
  <2>1. CASE k <= Len(r)
    BY <1>6, <2>1, <1>1, <1>2, <1>3, <1>4, <1>5
  <2>2. CASE k = Len(r) + 1
    BY <1>6, <2>2, <1>1, <1>2, <1>3, <1>4, <1>5
  <2>3. CASE k > Len(r) + 1
    <3>1. k - Len(a) \in 1..Len(t) /\ k - Len(a) + 1 = k - Len(r)
      BY <1>6, <2>3, <1>1, <1>2, <1>4
    <3>. QED
      BY <1>6, <2>3, <3>1, <1>1, <1>2, <1>3, <1>4, <1>5
  <2>. QED
    BY <1>6, <2>1, <2>2, <2>3, <1>1
<1>. QED
  BY <1>3, <1>4, <1>5, <1>6, SeqEqual

(* Init establishes CInv: nothing received.                                *)
LEMMA InitCInv == Init => CInv
<1>. SUFFICES ASSUME Init PROVE CInv
  OBVIOUS
<1>1. TypeC
  BY EmptySeq DEF Init, TypeC
<1>2. Len(Received) = 0
  BY <1>1 DEF Init, Received
<1>. QED
  BY <1>1, <1>2 DEF CInv, ReceivedInOrder, Init

(* Receive keeps CInv: the frame it appends is a user frame after every   *)
(* one received, and no user frame lies between it and the last one.     *)
LEMMA ReceiveCInv ==
    ASSUME CInv, Receive
    PROVE  CInv'
<1>1. PICK i \in 1..Len(Inbound) :
         NextUser(last, i) /\ q' = Append(q, i) /\ last' = i
  BY DEF Receive
<1>. DEFINE L == Len(Received)
            R == Append(Received, i)
<1>2. /\ i \in Nat /\ i > last /\ Inbound[i] = "user"
      /\ \A j \in (last + 1)..(i - 1) : Inbound[j] # "user"
  BY <1>1 DEF NextUser, CInv, TypeC
<1>3. Received' = R
  <2>1. Received' = delivered \o Append(q, i)
    BY <1>1 DEF Receive, Received
  <2>. QED
    BY <2>1, <1>2, ConcatAppendNat DEF CInv, TypeC, Received
<1>4. /\ Received \in Seq(Nat) /\ L \in Nat /\ last \in Nat
      /\ Len(R) = L + 1
      /\ \A k \in 1..L : R[k] = Received[k]
      /\ R[L + 1] = i
  BY <1>2, ReceivedType, AppendProperties, LenProperties DEF CInv, TypeC
<1>5. TypeC'
  BY <1>1, <1>2 DEF Receive, CInv, TypeC
<1>6. /\ \A k \in 1..L : Received[k] \in 1..last /\ Inbound[Received[k]] = "user"
      /\ \A k, m \in 1..L : k < m => Received[k] < Received[m]
      /\ \A j \in 1..last :
            Inbound[j] = "user" => \E k \in 1..L : Received[k] = j
  BY DEF CInv, ReceivedInOrder
<1>7. ASSUME NEW k \in 1..Len(R) PROVE R[k] \in 1..i /\ Inbound[R[k]] = "user"
  <2>1. CASE k \in 1..L
    BY <1>7, <2>1, <1>2, <1>4, <1>6
  <2>2. CASE k = L + 1
    BY <1>7, <2>2, <1>2, <1>4
  <2>. QED
    BY <1>7, <2>1, <2>2, <1>4
<1>8. ASSUME NEW k \in 1..Len(R), NEW m \in 1..Len(R), k < m
      PROVE  R[k] < R[m]
  <2>1. CASE m \in 1..L
    <3>1. k \in 1..L
      BY <1>8, <2>1, <1>4
    <3>. QED
      BY <1>8, <2>1, <3>1, <1>4, <1>6
  <2>2. CASE m = L + 1
    <3>1. k \in 1..L
      BY <1>8, <2>2, <1>4
    <3>. QED
      BY <1>8, <2>2, <3>1, <1>2, <1>4, <1>6
  <2>. QED
    BY <1>8, <2>1, <2>2, <1>4
<1>9. ASSUME NEW j \in 1..i, Inbound[j] = "user"
      PROVE  \E k \in 1..Len(R) : R[k] = j
  <2>1. CASE j <= last
    <3>1. PICK k \in 1..L : Received[k] = j
      BY <1>9, <2>1, <1>4, <1>6
    <3>. QED
      BY <1>9, <3>1, <1>4
  <2>2. CASE j = i
    BY <1>9, <2>2, <1>4
  <2>. QED
    BY <1>9, <2>1, <2>2, <1>2, <1>4
<1>10. ReceivedInOrder'
  <2>1. /\ \A k \in 1..Len(R) : R[k] \in 1..i /\ Inbound[R[k]] = "user"
        /\ \A k, m \in 1..Len(R) : k < m => R[k] < R[m]
        /\ \A j \in 1..i : Inbound[j] = "user" => \E k \in 1..Len(R) : R[k] = j
    BY <1>7, <1>8, <1>9
  <2>. QED
    BY <2>1, <1>1, <1>3 DEF ReceivedInOrder
<1>. QED
  BY <1>5, <1>10 DEF CInv

(* Every step of the channel keeps CInv.                                   *)
LEMMA NextCInv == CInv /\ [Next]_chanVars => CInv'
<1>. SUFFICES ASSUME CInv, [Next]_chanVars PROVE CInv'
  OBVIOUS
<1>1. CASE Receive
  BY <1>1, ReceiveCInv
<1>2. CASE Deliver
  <2>1. Received' = Received
    BY <1>2, ConcatHeadTailNat DEF Deliver, CInv, TypeC, Received
  <2>2. TypeC'
    BY <1>2, HeadTailProperties, AppendProperties DEF Deliver, CInv, TypeC
  <2>. QED
    BY <1>2, <2>1, <2>2 DEF Deliver, CInv, ReceivedInOrder
<1>3. CASE Close \/ UNCHANGED chanVars
  BY <1>3 DEF Close, chanVars, CInv, TypeC, ReceivedInOrder, Received
<1>. QED
  BY <1>1, <1>2, <1>3 DEF Next

(***************************************************************************)
(* The channel's packets are the user frames the peer sent, in order,     *)
(* each once and none skipped, up to the last one received.               *)
(***************************************************************************)
THEOREM ChannelInOrder == Spec => []ReceivedInOrder
<1>1. CInv => ReceivedInOrder
  BY DEF CInv
<1>. QED
  BY <1>1, InitCInv, NextCInv, PTL DEF Spec

=============================================================================

--------------------------- MODULE MetadataProofs ---------------------------
(***************************************************************************)
(* Proofs about the header codec: the bytes writePacket puts on the wire   *)
(* decode, at the offsets readLoop uses, to the fields it encoded.         *)
(***************************************************************************)
EXTENDS Metadata, TLAPS

\* A 16-bit value survives PutUint16 followed by Uint16, byte by byte.
LEMMA Uint16RoundTrip ==
    ASSUME NEW v \in Uint16s
    PROVE  /\ ToByte(v \div 256) \in Bytes /\ ToByte(v) \in Bytes
           /\ ToByte(v \div 256) * 256 + ToByte(v) = v
BY DEF ToByte, Uint16s, Bytes

\* A 32-bit value survives PutUint32 followed by Uint32, byte by byte.
LEMMA Uint32RoundTrip ==
    ASSUME NEW v \in Uint32s
    PROVE  /\ ToByte(v \div 2^24) \in Bytes /\ ToByte(v \div 2^16) \in Bytes
           /\ ToByte(v \div 256) \in Bytes /\ ToByte(v) \in Bytes
           /\ ((ToByte(v \div 2^24) * 256 + ToByte(v \div 2^16)) * 256
                + ToByte(v \div 256)) * 256 + ToByte(v) = v
<1>1. /\ ToByte(v \div 2^24) = v \div 2^24
      /\ ToByte(v \div 2^24) \in Bytes /\ ToByte(v \div 2^16) \in Bytes
      /\ ToByte(v \div 256) \in Bytes /\ ToByte(v) \in Bytes
      BY DEF ToByte, Uint32s, Bytes
<1>2. (v \div 2^24) * 256 + ToByte(v \div 2^16) = v \div 2^16
      BY DEF ToByte, Uint32s
<1>3. (v \div 2^16) * 256 + ToByte(v \div 256) = v \div 256
      BY DEF ToByte, Uint32s
<1>4. (v \div 256) * 256 + ToByte(v) = v
      BY DEF ToByte, Uint32s
<1>. QED BY <1>1, <1>2, <1>3, <1>4

(***************************************************************************)
(* Framing round-trip (spec section 8, invariant 1) for the header: for   *)
(* every id, operation and content length, the 8 bytes writePacket        *)
(* encodes (async.go:285-288) are bytes and decode, as readLoop decodes   *)
(* them (async.go:473-475), to the same three fields.                     *)
(***************************************************************************)
THEOREM HeaderRoundTrip ==
    ASSUME NEW id \in Uint16s, NEW op \in Uint16s, NEW len \in Uint32s
    PROVE  /\ Encode(id, op, len) \in Seq(Bytes)
           /\ Len(Encode(id, op, len)) = Size
           /\ Decode(Encode(id, op, len))
                = [Id |-> id, Operation |-> op, ContentLength |-> len]
<1> DEFINE e == Encode(id, op, len)
<1>1. e = << ToByte(id \div 256), ToByte(id), ToByte(op \div 256), ToByte(op),
             ToByte(len \div 2^24), ToByte(len \div 2^16),
             ToByte(len \div 256), ToByte(len) >>
      BY DEF Encode, PutUint16, PutUint32, Size, ContentLengthOffset,
             ContentLengthSize, OperationOffset, OperationSize, IdOffset, IdSize
<1>2. e \in Seq(Bytes) /\ Len(e) = Size
      BY <1>1, Uint16RoundTrip, Uint32RoundTrip
      DEF Size, ContentLengthOffset, ContentLengthSize, OperationOffset,
          OperationSize, IdOffset, IdSize
<1>3. DecodeAt(e, 0) = [Id |-> id, Operation |-> op, ContentLength |-> len]
      BY <1>1, Uint16RoundTrip, Uint32RoundTrip
      DEF DecodeAt, Uint16, Uint32, IdOffset, IdSize, OperationOffset,
          OperationSize, ContentLengthOffset
<1>. QED BY <1>2, <1>3 DEF Decode

=============================================================================

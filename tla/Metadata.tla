------------------------------ MODULE Metadata ------------------------------
(***************************************************************************)
(* The 8-byte frame header of frisbee (src/pkg/metadata/metadata.go) and   *)
(* its big-endian encoding, as writePacket encodes it (async.go:285-288)   *)
(* and as readLoop decodes it in place (async.go:473-475).  Bytes are      *)
(* naturals below 256; a header is a sequence of 8 of them.                *)
(***************************************************************************)
EXTENDS Naturals, Sequences

\* Reserved operations (metadata.go:32-36).
PING == 10
PONG == 11
STREAM == 12

\* The header layout (metadata.go:38-48), as 0-based byte offsets.
IdOffset == 0
IdSize == 2
OperationOffset == IdOffset + IdSize
OperationSize == 2
ContentLengthOffset == OperationOffset + OperationSize
ContentLengthSize == 4
Size == ContentLengthOffset + ContentLengthSize

Bytes == 0..255
Uint16s == 0..(2^16 - 1)
Uint32s == 0..(2^32 - 1)

\* Go's byte(x) conversion keeps the low 8 bits.
ToByte(x) == x % 256

\* binary.BigEndian.PutUint16 / PutUint32: most significant byte first.
PutUint16(v) == << ToByte(v \div 256), ToByte(v) >>
PutUint32(v) == << ToByte(v \div 2^24), ToByte(v \div 2^16),
                   ToByte(v \div 256), ToByte(v) >>

\* binary.BigEndian.Uint16 / Uint32 of the bytes at 0-based offset off of b.
Uint16(b, off) == b[off + 1] * 256 + b[off + 2]
Uint32(b, off) == ((b[off + 1] * 256 + b[off + 2]) * 256 + b[off + 3]) * 256
                  + b[off + 4]

\* Metadata.Encode: each field is put at its offset of an 8-byte buffer.
Encode(id, operation, contentLength) ==
    [i \in 1..Size |->
        IF i <= OperationOffset THEN PutUint16(id)[i - IdOffset]
        ELSE IF i <= ContentLengthOffset
             THEN PutUint16(operation)[i - OperationOffset]
             ELSE PutUint32(contentLength)[i - ContentLengthOffset]]

\* The header fields read from the 8 bytes at offset off of buf.
DecodeAt(buf, off) ==
    [Id            |-> Uint16(buf, off + IdOffset),
     Operation     |-> Uint16(buf, off + OperationOffset),
     ContentLength |-> Uint32(buf, off + ContentLengthOffset)]

\* metadata.Decode: a buffer shorter than Size is refused.
InvalidBufferLength == "InvalidBufferLength"
Decode(buf) ==
    IF Len(buf) < Size THEN InvalidBufferLength ELSE DecodeAt(buf, 0)

=============================================================================

------------------------------ MODULE Framing ------------------------------
(***************************************************************************)
(* The byte-level receive path of frisbee.Async: readLoop                  *)
(* (src/async.go:432-640) reassembling frames from the byte stream of the  *)
(* socket, whatever sizes conn.Read returns.  The peer's bytes are the     *)
(* frames of the constant Frames, each encoded as Metadata's 8-byte header *)
(* followed by its content.  What readLoop does with a decoded packet      *)
(* (the PONG reply, the incoming queue, the streams) is modelled in Async  *)
(* and Streams; here a dispatched packet is appended to out.               *)
(***************************************************************************)
EXTENDS Metadata, SequencesExt

CONSTANTS
    Frames,     \* the frames the peer writes, in order
    BufCap      \* DefaultBufferSize, the initial capacity of buf

FrameRecs == [id : Uint16s, op : Uint16s, content : Seq(Bytes)]

ASSUME FramingAssumption ==
    /\ Frames \in Seq(FrameRecs)
    /\ BufCap \in Nat /\ BufCap >= Size

\* The bytes of one frame as writePacket puts them on the wire.
FrameBytes(f) == Encode(f.id, f.op, Len(f.content)) \o f.content

\* The whole byte stream the peer sends before it closes the connection.
Wire == FlattenSeq([i \in 1..Len(Frames) |-> FrameBytes(Frames[i])])

\* What readLoop should hand on for each frame: PING and PONG are answered
\* or dropped, so their content (if any) is consumed and not passed on.
Expected ==
    [i \in 1..Len(Frames) |->
        [Id |-> Frames[i].id, Operation |-> Frames[i].op,
         Content |-> IF Frames[i].op \in {PING, PONG} THEN <<>>
                     ELSE Frames[i].content]]

Zeros(k) == [i \in 1..k |-> 0]

\* append(buf[:cap(buf)], 0) doubles a full slice's capacity; readLoop
\* appends until the capacity reaches min (async.go:506-508).
RECURSIVE GrowCap(_, _)
GrowCap(c, m) == IF c >= m THEN c ELSE GrowCap(2 * c, m)

VARIABLES
    buf,    \* the read buffer, all cap(buf) bytes of it
    n,      \* bytes of buf filled by the current read loop
    index,  \* where the next header starts in buf
    min,    \* bytes the current read loop waits for
    p,      \* the packet being parsed
    pc,     \* readLoop's control point
    rd,     \* bytes of Wire that conn.Read has returned so far
    out     \* the packets readLoop has dispatched, in order

vars == <<buf, n, index, min, p, pc, rd, out>>

Labels == {"fill", "parse", "switch", "content", "tail", "partial", "closed"}

Packets == [Id : Uint16s, Operation : Uint16s, ContentLength : Uint32s,
            Content : Seq(Bytes)]

Init ==
    /\ buf = Zeros(BufCap)
    /\ n = 0 /\ index = 0 /\ min = 0
    /\ p = [Id |-> 0, Operation |-> 0, ContentLength |-> 0, Content |-> <<>>]
    /\ pc = "fill"
    /\ rd = 0
    /\ out = <<>>

\* Mutant: the space left in buf[from:] counted one byte too many.
ReadResultsOffByOne(from) ==
    LET space  == Len(buf) - from + 1
        remain == Len(Wire) - rd
        most   == IF space < remain THEN space ELSE remain
    IN  [k : 1..most, err : {FALSE}]
        \cup {[k |-> 0, err |-> TRUE]}
        \cup (IF remain <= space THEN {[k |-> remain, err |-> TRUE]} ELSE {})

(***************************************************************************)
(* One conn.Read(buf[from:]) (async.go:458, 517, 626): it returns k > 0    *)
(* bytes of what the peer has sent, or, with an error, all that remains    *)
(* (io.EOF once the peer has closed) or nothing (the connection reset).    *)
(***************************************************************************)
ReadResults(from) ==
    LET space  == Len(buf) - from
        remain == Len(Wire) - rd
        most   == IF space < remain THEN space ELSE remain
    IN  [k : 1..most, err : {FALSE}]
        \cup {[k |-> 0, err |-> TRUE]}
        \cup (IF remain <= space THEN {[k |-> remain, err |-> TRUE]} ELSE {})

\* The buffer after a read of k bytes into buf[from:].
ReadInto(from, k) ==
    [i \in 1..Len(buf) |->
        IF from < i /\ i <= from + k THEN Wire[rd + i - from] ELSE buf[i]]

\* A packet is handed on: the PING/PONG, push and stream cases of 478-571.
Dispatch(pk) ==
    out' = Append(out, [Id |-> pk.Id, Operation |-> pk.Operation,
                        Content |-> pk.Content])

(***************************************************************************)
(* "for n < metadata.Size" (449-468, and again 585-602 after n and index    *)
(* are reset): a read; an error with fewer than Size bytes ends readLoop   *)
(* through closeWithError, otherwise the buffered headers are parsed.      *)
(***************************************************************************)
FillHeader ==
    /\ pc = "fill"
    /\ \E r \in ReadResults(n) :
        /\ buf' = ReadInto(n, r.k)
        /\ rd' = rd + r.k
        /\ n' = n + r.k
        /\ pc' = IF n + r.k < Size THEN (IF r.err THEN "closed" ELSE "fill")
                 ELSE "parse"
        /\ index' = 0
    /\ UNCHANGED <<min, p, out>>

\* packet.Get() and the in-place decode of the header at index (472-476).
ParseHeader ==
    /\ pc = "parse"
    /\ index < n
    /\ LET h == DecodeAt(buf, index)
       IN  p' = [Id |-> h.Id, Operation |-> h.Operation,
                 ContentLength |-> h.ContentLength, Content |-> <<>>]
    /\ index' = index + Size
    /\ pc' = "switch"
    /\ UNCHANGED <<buf, n, min, rd, out>>

\* case PING / case PONG (479-490): the packet is answered or dropped and
\* its content, if any, is left in buf.
ControlPacket ==
    /\ pc = "switch"
    /\ p.Operation \in {PING, PONG}
    /\ Dispatch(p)
    /\ pc' = "tail"
    /\ UNCHANGED <<buf, n, index, min, p, rd>>

\* Any other operation without content goes straight to routing (535-574).
EmptyPacket ==
    /\ pc = "switch"
    /\ p.Operation \notin {PING, PONG}
    /\ p.ContentLength = 0
    /\ Dispatch(p)
    /\ pc' = "tail"
    /\ UNCHANGED <<buf, n, index, min, p, rd>>

\* Mutant: the content is sliced one byte early, buf[index-1:index+len-1].
BufferedContentOffByOne ==
    /\ pc = "switch"
    /\ p.Operation \notin {PING, PONG}
    /\ p.ContentLength > 0
    /\ n - index >= p.ContentLength
    /\ Dispatch([p EXCEPT !.Content =
                    SubSeq(buf, index, index + p.ContentLength - 1)])
    /\ index' = index + p.ContentLength
    /\ pc' = "tail"
    /\ UNCHANGED <<buf, n, min, p, rd>>

\* The whole content is already in buf (531-532).
BufferedContent ==
    /\ pc = "switch"
    /\ p.Operation \notin {PING, PONG}
    /\ p.ContentLength > 0
    /\ n - index >= p.ContentLength
    /\ Dispatch([p EXCEPT !.Content =
                    SubSeq(buf, index + 1, index + p.ContentLength)])
    /\ index' = index + p.ContentLength
    /\ pc' = "tail"
    /\ UNCHANGED <<buf, n, min, p, rd>>

\* The content runs past n (503-510): keep what is buffered, grow buf to
\* hold the rest, and read the rest from the start of buf.
SpilledContent ==
    /\ pc = "switch"
    /\ p.Operation \notin {PING, PONG}
    /\ p.ContentLength > 0
    /\ n - index < p.ContentLength
    /\ LET rest == p.ContentLength - (n - index)
       IN  /\ min' = rest
           /\ buf' = buf \o Zeros(GrowCap(Len(buf), rest) - Len(buf))
    /\ p' = [p EXCEPT !.Content = SubSeq(buf, index + 1, n)]
    /\ n' = 0
    /\ pc' = "content"
    /\ UNCHANGED <<index, rd, out>>

\* Mutant: a read error ends readLoop even when the content is complete.
ReadContentErrFatal ==
    /\ pc = "content"
    /\ \E r \in ReadResults(n) :
        /\ buf' = ReadInto(n, r.k)
        /\ rd' = rd + r.k
        /\ n' = n + r.k
        /\ IF n + r.k < min \/ r.err
             THEN /\ pc' = IF r.err THEN "closed" ELSE "content"
                  /\ UNCHANGED <<index, out>>
             ELSE /\ Dispatch([p EXCEPT !.Content =
                                 @ \o SubSeq(ReadInto(n, r.k), 1, min)])
                  /\ index' = min
                  /\ pc' = "tail"
    /\ UNCHANGED <<min, p>>

\* "for n < min" (511-529), then p.Content.Write(buf[:min]); index = min.
ReadContent ==
    /\ pc = "content"
    /\ \E r \in ReadResults(n) :
        /\ buf' = ReadInto(n, r.k)
        /\ rd' = rd + r.k
        /\ n' = n + r.k
        /\ IF n + r.k < min
             THEN /\ pc' = IF r.err THEN "closed" ELSE "content"
                  /\ UNCHANGED <<index, out>>
             ELSE /\ Dispatch([p EXCEPT !.Content =
                                 @ \o SubSeq(ReadInto(n, r.k), 1, min)])
                  /\ index' = min
                  /\ pc' = "tail"
    /\ UNCHANGED <<min, p>>

\* The end of one parsed frame (576-637): all of buf consumed, a partial
\* header left at the end, or a whole header still in buf.
Consumed ==
    /\ pc = "tail"
    /\ n = index
    /\ index' = 0 /\ n' = 0
    /\ pc' = "fill"
    /\ UNCHANGED <<buf, min, p, rd, out>>

PartialHeader ==
    /\ pc = "tail"
    /\ n - index > 0 /\ n - index < Size
    /\ buf' = [i \in 1..Len(buf) |->
                 IF i <= n - index THEN buf[index + i] ELSE buf[i]]
    /\ index' = n - index
    /\ min' = Size - (n - index)
    /\ n' = 0
    /\ pc' = "partial"
    /\ UNCHANGED <<p, rd, out>>

WholeHeader ==
    /\ pc = "tail"
    /\ n - index >= Size
    /\ pc' = "parse"
    /\ UNCHANGED <<buf, n, index, min, p, rd, out>>

\* "for n < min" reading into buf[index+n:] (619-636), then n += index.
ReadPartial ==
    /\ pc = "partial"
    /\ \E r \in ReadResults(index + n) :
        /\ buf' = ReadInto(index + n, r.k)
        /\ rd' = rd + r.k
        /\ IF n + r.k < min
             THEN /\ n' = n + r.k
                  /\ pc' = IF r.err THEN "closed" ELSE "partial"
                  /\ UNCHANGED index
             ELSE /\ n' = n + r.k + index
                  /\ index' = 0
                  /\ pc' = "parse"
    /\ UNCHANGED <<min, p, out>>

\* readLoop has returned after closeWithError.
Stopped ==
    /\ pc = "closed"
    /\ UNCHANGED vars

Next ==
    \/ FillHeader \/ ParseHeader
    \/ ControlPacket \/ EmptyPacket \/ BufferedContent \/ SpilledContent
    \/ ReadContent
    \/ Consumed \/ PartialHeader \/ WholeHeader \/ ReadPartial
    \/ Stopped

Spec == Init /\ [][Next]_vars

-----------------------------------------------------------------------------
\* Every variable holds a value of its type.
TypeOK ==
    /\ buf \in Seq(Bytes) /\ Len(buf) >= BufCap
    /\ n \in 0..Len(buf) /\ index \in 0..Len(buf) /\ min \in Nat
    /\ p \in Packets
    /\ pc \in Labels
    /\ rd \in 0..Len(Wire)
    /\ out \in Seq([Id : Uint16s, Operation : Uint16s, Content : Seq(Bytes)])

(***************************************************************************)
(* Arbitrary split resilience (spec section 8, invariant 2): whatever      *)
(* sizes conn.Read returns, the packets readLoop hands on are the frames   *)
(* the peer sent, in order, with their contents.  It fails if readLoop     *)
(* decodes a header at a byte that does not start one: the compaction of   *)
(* a partial header (604-637) and the spilled content (503-530) must keep  *)
(* index on the frame boundaries.                                          *)
(***************************************************************************)
FramesInOrder == IsPrefix(out, Expected)

(***************************************************************************)
(* No frame is lost: once the peer has closed and readLoop has read every  *)
(* byte and stopped, it has handed on every frame the peer sent.           *)
(***************************************************************************)
NoFrameLost == (pc = "closed" /\ rd = Len(Wire)) => out = Expected

=============================================================================

------------------------------- MODULE Async -------------------------------
(***************************************************************************)
(* The per-connection engine of frisbee-go, frisbee.Async (src/async.go).  *)
(*                                                                         *)
(* Six goroutines share one Async: the three loops started by NewAsync     *)
(* (readLoop, flushLoop, pingLoop) and three user goroutines (one writing  *)
(* packets, one reading them, one calling Close).  Every blocking or       *)
(* racing point of the code is a step of its own: the CAS on closed, the   *)
(* closing of the channels, wg.Wait, each writer.Write, the len(flushCh)   *)
(* test and the send on flushCh.  close() and closeWithError() run in the  *)
(* goroutine that calls them, so every actor can execute the close steps.  *)
(*                                                                         *)
(* Data is abstracted: an inbound frame is its kind and its index in       *)
(* Inbound, an outbound frame is a record naming who wrote it, and what    *)
(* the bufio.Writer holds is a sequence of pieces (a header or a content). *)
(* Framing of the byte stream is modelled in its own module; here one read *)
(* delivers one frame.                                                     *)
(***************************************************************************)
EXTENDS Integers, Sequences, FiniteSets, Functions

CONSTANTS
  Inbound,      \* the frames the peer sends, in order (kinds of FrameKinds)
  Outbound,     \* the packets the user writes, in order: TRUE iff it has content
  MaxPings,     \* bound on the ticks of pingLoop's ticker
  WriteBufCap,  \* capacity of the bufio.Writer, in pieces
  IncomingCap,  \* capacity of the incoming queue
  Faults        \* whether the socket may fail (reset, broken pipe)

FrameKinds == {"user", "ping", "pong"}

\* make(chan struct{}, 3) in NewAsync
FlushChCap == 3

ASSUME ConstantsAssumption ==
  /\ Inbound \in Seq(FrameKinds)
  /\ Outbound \in Seq(BOOLEAN)
  /\ MaxPings \in Nat
  /\ WriteBufCap \in Nat \ {0}
  /\ IncomingCap \in Nat \ {0}
  /\ Faults \in BOOLEAN

Loops == {"readLoop", "flushLoop", "pingLoop"}
Users == {"writer", "reader", "closer"}
Actors == Loops \cup Users

\* The causes closeWithError records; "none" is the graceful close().
Causes == {"none", "read", "write", "flush", "push", "closed"}

\* An outbound frame: PINGPacket, a PONGPacket answering Inbound[n], or the
\* user's n-th packet.  Only user packets carry content.
Frames == [src : {"user", "ping", "pong", "none"}, n : Nat, body : BOOLEAN]
NoFrame == [src |-> "none", n |-> 0, body |-> FALSE]
Piece(k, f) == [k |-> k, f |-> f]
Pieces == [k : {"hdr", "body"}, f : Frames]

Labels == {"rl_deadline", "rl_read", "rl_dispatch", "fl_recv", "fl_flush",
           "pl_wait", "uw_idle", "ur_idle", "ur_pop", "ur_poll", "uc_idle",
           "wp_check", "wp_hdr", "wp_body", "wp_sig", "wp_send", "loop_fail",
           "c_cas", "c_sig", "c_wait", "c_flush", "c_store", "done"}

VARIABLES
  closed,          \* c.closed
  error,           \* c.error
  closeCh,         \* TRUE once c.closeCh is closed
  flushCh,         \* number of tokens buffered in c.flushCh
  flushChClosed,   \* TRUE once c.flushCh is closed
  deadlinePast,    \* the read deadline is pastTime (set by close)
  connClosed,      \* c.conn.Close() was called
  broken,          \* the socket has failed
  panicked,        \* the process panicked (send on a closed channel)
  incoming,        \* c.incoming: indices into Inbound
  incomingClosed,  \* c.incoming.Close() was called
  stalePackets,    \* c.stalePackets
  drained,         \* close() has moved c.incoming into c.stalePackets
  wbuf,            \* the bytes held by the bufio.Writer, as pieces
  sent,            \* the pieces written to the socket, in order
  werr,            \* the sticky error of the bufio.Writer
  wg,              \* the loops that have not called c.wg.Done()
  rin,             \* number of inbound frames read by readLoop
  pings,           \* ticks of pingLoop's ticker so far
  uwNext,          \* index of the user's next packet in Outbound
  pc,              \* control point of each actor
  ret,             \* where an actor goes when its close call returns
  cause,           \* the error an actor passes to closeWithError
  frame,           \* the packet an actor is writing in writePacket
  pushed,          \* history: the inbound frames pushed onto c.incoming
  delivered,       \* history: the packets ReadPacket returned
  readerGotClosed  \* ReadPacket returned ConnectionClosed

sig == <<closed, error, closeCh, flushChClosed, deadlinePast, connClosed, broken, panicked>>
que == <<incoming, incomingClosed, stalePackets, drained, pushed, delivered, readerGotClosed>>
wrt == <<wbuf, sent, werr, flushCh>>
ctl == <<pc, ret, cause, frame>>
cnt == <<wg, rin, pings, uwNext>>
vars == <<sig, que, wrt, ctl, cnt>>

-----------------------------------------------------------------------------
\* Where each goroutine starts: the loops at the top of their for loop, the
\* user goroutines idle.
StartLabel(a) ==
  IF a = "readLoop" THEN "rl_deadline"
  ELSE IF a = "flushLoop" THEN "fl_recv"
  ELSE IF a = "pingLoop" THEN "pl_wait"
  ELSE IF a = "writer" THEN "uw_idle"
  ELSE IF a = "reader" THEN "ur_idle"
  ELSE "uc_idle"

(* NewAsync: the loops are started, nothing is buffered or closed.         *)
Init ==
  /\ closed = FALSE
  /\ error = "none"
  /\ closeCh = FALSE
  /\ flushCh = 0
  /\ flushChClosed = FALSE
  /\ deadlinePast = FALSE
  /\ connClosed = FALSE
  /\ broken = FALSE
  /\ panicked = FALSE
  /\ incoming = <<>>
  /\ incomingClosed = FALSE
  /\ stalePackets = <<>>
  /\ drained = FALSE
  /\ wbuf = <<>>
  /\ sent = <<>>
  /\ werr = FALSE
  /\ wg = Loops
  /\ rin = 0
  /\ pings = 0
  /\ uwNext = 1
  /\ pc = [a \in Actors |-> StartLabel(a)]
  /\ ret = [a \in Actors |-> "done"]
  /\ cause = [a \in Actors |-> "none"]
  /\ frame = [a \in Actors |-> NoFrame]
  /\ pushed = <<>>
  /\ delivered = <<>>
  /\ readerGotClosed = FALSE

Goto(a, l) == pc' = [pc EXCEPT ![a] = l]

\* Actor a calls closeWithError(err) (close() when err = "none"); when the
\* call returns, a continues as "k" says.
CallClose(a, err, k) ==
  /\ pc' = [pc EXCEPT ![a] = "c_cas"]
  /\ cause' = [cause EXCEPT ![a] = err]
  /\ ret' = [ret EXCEPT ![a] = k]

\* A loop's error exit: c.wg.Done() then closeWithError(err).
LoopExit(a, err) ==
  /\ wg' = wg \ {a}
  /\ CallClose(a, err, "exit")
  /\ UNCHANGED frame

\* Where a caller of writePacket continues after a nil or a non-nil error.
AfterWriteOK(a) ==
  IF a = "readLoop" THEN "rl_deadline"
  ELSE IF a = "pingLoop" THEN "pl_wait"
  ELSE "uw_idle"
AfterWriteErr(a) == IF a \in Loops THEN "loop_fail" ELSE "done"
AfterClose(a) == IF ret[a] = "wp_err" THEN AfterWriteErr(a) ELSE "done"

SocketDown == broken \/ connClosed

-----------------------------------------------------------------------------
(* BufferedWriter.Write: bufio.Writer copies the piece into its buffer;   *)
(* when the buffer is full it first writes the buffer to the socket, and  *)
(* a failed socket write is remembered as its sticky error.               *)
WriteFails == werr \/ (SocketDown /\ Len(wbuf) = WriteBufCap)
BufWrite(p) ==
  /\ IF Len(wbuf) < WriteBufCap
       THEN wbuf' = Append(wbuf, p) /\ UNCHANGED sent
       ELSE wbuf' = <<p>> /\ sent' = sent \o wbuf
  /\ UNCHANGED werr

(* BufferedWriter.Flush                                                    *)
FlushFails == werr \/ SocketDown
BufFlush ==
  IF FlushFails
    THEN werr' = TRUE /\ UNCHANGED <<wbuf, sent>>
    ELSE sent' = sent \o wbuf /\ wbuf' = <<>> /\ UNCHANGED werr

-----------------------------------------------------------------------------
(* close(): the CAS on c.closed; the loser returns ConnectionClosed.       *)
\* Mutant of CloseCAS: closeWithError stores its error even when close()
\* lost the CAS.
CloseCASStoreAlways(a) ==
  /\ pc[a] = "c_cas"
  /\ IF closed
       THEN Goto(a, "c_store") /\ UNCHANGED closed
       ELSE closed' = TRUE /\ Goto(a, "c_sig")
  /\ UNCHANGED <<error, closeCh, flushChClosed, deadlinePast, connClosed,
                 broken, panicked, que, wrt, ret, cause, frame, cnt>>

CloseCAS(a) ==
  /\ pc[a] = "c_cas"
  /\ IF closed
       THEN Goto(a, AfterClose(a)) /\ UNCHANGED closed
       ELSE closed' = TRUE /\ Goto(a, "c_sig")
  /\ UNCHANGED <<error, closeCh, flushChClosed, deadlinePast, connClosed,
                 broken, panicked, que, wrt, ret, cause, frame, cnt>>

(* close(): c.incoming.Close(), close(c.closeCh), close(c.flushCh), and   *)
(* the read deadline set to pastTime.                                      *)
CloseSignal(a) ==
  /\ pc[a] = "c_sig"
  /\ incomingClosed' = TRUE
  /\ closeCh' = TRUE
  /\ flushChClosed' = TRUE
  /\ deadlinePast' = TRUE
  /\ Goto(a, "c_wait")
  /\ UNCHANGED <<closed, error, connClosed, broken, panicked, incoming,
                 stalePackets, drained, pushed, delivered, readerGotClosed,
                 wrt, ret, cause, frame, cnt>>

\* Mutant of CloseWait: Drain copies the queue but leaves it full.
CloseWaitNoDrain(a) ==
  /\ pc[a] = "c_wait"
  /\ wg = {}
  /\ deadlinePast' = FALSE
  /\ stalePackets' = incoming
  /\ drained' = TRUE
  /\ Goto(a, "c_flush")
  /\ UNCHANGED <<closed, error, closeCh, flushChClosed, connClosed, broken,
                 panicked, incoming, incomingClosed, pushed, delivered,
                 readerGotClosed, wrt, ret, cause, frame, cnt>>

(* close(): c.wg.Wait(), the deadline cleared, and                        *)
(* c.stalePackets.Set(c.incoming.Drain()).                                 *)
CloseWait(a) ==
  /\ pc[a] = "c_wait"
  /\ wg = {}
  /\ deadlinePast' = FALSE
  /\ stalePackets' = incoming
  /\ incoming' = <<>>
  /\ drained' = TRUE
  /\ Goto(a, "c_flush")
  /\ UNCHANGED <<closed, error, closeCh, flushChClosed, connClosed, broken,
                 panicked, incomingClosed, pushed, delivered, readerGotClosed,
                 wrt, ret, cause, frame, cnt>>

(* close(): one last flush when bytes are buffered, its error ignored.    *)
CloseFlush(a) ==
  /\ pc[a] = "c_flush"
  /\ IF wbuf # <<>> THEN BufFlush ELSE UNCHANGED <<wbuf, sent, werr>>
  /\ Goto(a, "c_store")
  /\ UNCHANGED <<sig, que, flushCh, ret, cause, frame, cnt>>

(* closeWithError: c.error.Store(err) and c.conn.Close(); Close() only    *)
(* closes the conn.                                                        *)
CloseStore(a) ==
  /\ pc[a] = "c_store"
  /\ error' = IF cause[a] = "none" THEN error ELSE cause[a]
  /\ connClosed' = TRUE
  /\ Goto(a, AfterClose(a))
  /\ UNCHANGED <<closed, closeCh, flushChClosed, deadlinePast, broken,
                 panicked, que, wrt, ret, cause, frame, cnt>>

CloseStep(a) ==
  CloseCAS(a) \/ CloseSignal(a) \/ CloseWait(a) \/ CloseFlush(a) \/ CloseStore(a)

-----------------------------------------------------------------------------
(* writePacket: the test of c.closed after encoding the header.           *)
WPCheck(a) ==
  /\ pc[a] = "wp_check"
  /\ Goto(a, IF closed THEN AfterWriteErr(a) ELSE "wp_hdr")
  /\ UNCHANGED <<sig, que, wrt, ret, cause, frame, cnt>>

(* The outcome of one c.writer.Write in writePacket: on an error, the     *)
(* caller gets ConnectionClosed if the connection is closed by now, else  *)
(* the result of closeWithError(err).                                     *)
WriteResult(a, p, next) ==
  IF WriteFails
    THEN /\ werr' = TRUE
         /\ UNCHANGED <<wbuf, sent>>
         /\ IF closed
              THEN Goto(a, AfterWriteErr(a)) /\ UNCHANGED <<ret, cause>>
              ELSE CallClose(a, "write", "wp_err")
    ELSE BufWrite(p) /\ Goto(a, next) /\ UNCHANGED <<ret, cause>>

(* writePacket: SetWriteDeadline, then the header written on its own.     *)
WPHeader(a) ==
  /\ pc[a] = "wp_hdr"
  /\ IF connClosed
       THEN Goto(a, AfterWriteErr(a)) /\ UNCHANGED <<wbuf, sent, werr, ret, cause>>
       ELSE WriteResult(a, Piece("hdr", frame[a]),
                        IF frame[a].body THEN "wp_body" ELSE "wp_sig")
  /\ UNCHANGED <<sig, que, flushCh, frame, cnt>>

(* writePacket: the content, in a second c.writer.Write.                  *)
WPBody(a) ==
  /\ pc[a] = "wp_body"
  /\ WriteResult(a, Piece("body", frame[a]), "wp_sig")
  /\ UNCHANGED <<sig, que, flushCh, frame, cnt>>

(* writePacket: if len(c.flushCh) == 0 ...                                 *)
WPSignal(a) ==
  /\ pc[a] = "wp_sig"
  /\ Goto(a, IF flushCh = 0 THEN "wp_send" ELSE AfterWriteOK(a))
  /\ UNCHANGED <<sig, que, wrt, ret, cause, frame, cnt>>

(* ... select { case c.flushCh <- struct{}{}: default: }: dropped when    *)
(* the channel is full, a panic when it is closed.                        *)
WPSend(a) ==
  /\ pc[a] = "wp_send"
  /\ IF flushChClosed
       THEN panicked' = TRUE /\ UNCHANGED <<flushCh, pc>>
       ELSE /\ flushCh' = IF flushCh < FlushChCap THEN flushCh + 1 ELSE flushCh
            /\ Goto(a, AfterWriteOK(a))
            /\ UNCHANGED panicked
  /\ UNCHANGED <<closed, error, closeCh, flushChClosed, deadlinePast,
                 connClosed, broken, que, wbuf, sent, werr, ret, cause,
                 frame, cnt>>

WriteStep(a) ==
  WPCheck(a) \/ WPHeader(a) \/ WPBody(a) \/ WPSignal(a) \/ WPSend(a)

(* readLoop and pingLoop after writePacket failed: c.wg.Done() and        *)
(* closeWithError(err).                                                    *)
LoopFail(a) ==
  /\ pc[a] = "loop_fail"
  /\ LoopExit(a, "write")
  /\ UNCHANGED <<sig, que, wrt, rin, pings, uwNext>>

-----------------------------------------------------------------------------
(* readLoop: c.conn.SetReadDeadline(now + DefaultDeadline) before a read; *)
(* it overwrites a pastTime deadline set by close().                       *)
RLDeadline ==
  /\ pc["readLoop"] = "rl_deadline"
  /\ deadlinePast' = FALSE
  /\ Goto("readLoop", "rl_read")
  /\ UNCHANGED <<closed, error, closeCh, flushChClosed, connClosed, broken,
                 panicked, que, wrt, ret, cause, frame, cnt>>

(* readLoop: c.conn.Read returns the next frame (bytes already received   *)
(* are returned whatever the deadline).                                    *)
RLReadFrame ==
  /\ pc["readLoop"] = "rl_read"
  /\ rin < Len(Inbound)
  /\ rin' = rin + 1
  /\ Goto("readLoop", "rl_dispatch")
  /\ UNCHANGED <<sig, que, wrt, ret, cause, frame, wg, pings, uwNext>>

\* Mutant of RLReadFail: a failed read is retried instead of ending the loop.
RLReadFailRetry ==
  /\ pc["readLoop"] = "rl_read"
  /\ deadlinePast \/ SocketDown \/ rin = Len(Inbound)
  /\ Goto("readLoop", "rl_deadline")
  /\ UNCHANGED <<sig, que, wrt, ret, cause, frame, cnt>>

(* readLoop: c.conn.Read fails (deadline passed, peer silent until the    *)
(* deadline, socket failed) before a whole header arrived: c.wg.Done()    *)
(* and closeWithError(err).                                                *)
RLReadFail ==
  /\ pc["readLoop"] = "rl_read"
  /\ deadlinePast \/ SocketDown \/ rin = Len(Inbound)
  /\ LoopExit("readLoop", "read")
  /\ UNCHANGED <<sig, que, wrt, rin, pings, uwNext>>

(* readLoop, default case: c.incoming.Push(p); a failed push (queue       *)
(* closed or full) ends the loop with closeWithError.                      *)
RLDispatchUser ==
  /\ pc["readLoop"] = "rl_dispatch"
  /\ Inbound[rin] = "user"
  /\ \/ /\ ~incomingClosed
        /\ Len(incoming) < IncomingCap
        /\ incoming' = Append(incoming, rin)
        /\ pushed' = Append(pushed, rin)
        /\ Goto("readLoop", "rl_deadline")
        /\ UNCHANGED <<ret, cause, frame, wg>>
     \/ /\ incomingClosed \/ Len(incoming) >= IncomingCap
        /\ LoopExit("readLoop", "push")
        /\ UNCHANGED <<incoming, pushed>>
  /\ UNCHANGED <<sig, incomingClosed, stalePackets, drained, delivered,
                 readerGotClosed, wrt, rin, pings, uwNext>>

\* Mutant of RLDispatchPing: the PING is answered and also queued as a packet.
RLDispatchPingPush ==
  /\ pc["readLoop"] = "rl_dispatch"
  /\ Inbound[rin] = "ping"
  /\ frame' = [frame EXCEPT !["readLoop"] = [src |-> "pong", n |-> rin, body |-> FALSE]]
  /\ Goto("readLoop", "wp_check")
  /\ IF ~incomingClosed /\ Len(incoming) < IncomingCap
       THEN incoming' = Append(incoming, rin) /\ pushed' = Append(pushed, rin)
       ELSE UNCHANGED <<incoming, pushed>>
  /\ UNCHANGED <<sig, incomingClosed, stalePackets, drained, delivered,
                 readerGotClosed, wrt, ret, cause, cnt>>

(* readLoop, case PING: c.writePacket(PONGPacket).                         *)
RLDispatchPing ==
  /\ pc["readLoop"] = "rl_dispatch"
  /\ Inbound[rin] = "ping"
  /\ frame' = [frame EXCEPT !["readLoop"] = [src |-> "pong", n |-> rin, body |-> FALSE]]
  /\ Goto("readLoop", "wp_check")
  /\ UNCHANGED <<sig, que, wrt, ret, cause, cnt>>

(* readLoop, case PONG: the packet is dropped.                             *)
RLDispatchPong ==
  /\ pc["readLoop"] = "rl_dispatch"
  /\ Inbound[rin] = "pong"
  /\ Goto("readLoop", "rl_deadline")
  /\ UNCHANGED <<sig, que, wrt, ret, cause, frame, cnt>>

ReadLoopStep ==
  RLDeadline \/ RLReadFrame \/ RLReadFail \/ RLDispatchUser \/ RLDispatchPing
    \/ RLDispatchPong

-----------------------------------------------------------------------------
(* flushLoop: receive a token from c.flushCh, or return once it is closed *)
(* and empty.                                                              *)
FLRecv ==
  /\ pc["flushLoop"] = "fl_recv"
  /\ \/ /\ flushCh > 0
        /\ flushCh' = flushCh - 1
        /\ Goto("flushLoop", "fl_flush")
        /\ UNCHANGED wg
     \/ /\ flushCh = 0
        /\ flushChClosed
        /\ wg' = wg \ {"flushLoop"}
        /\ Goto("flushLoop", "done")
        /\ UNCHANGED flushCh
  /\ UNCHANGED <<sig, que, wbuf, sent, werr, ret, cause, frame, rin, pings, uwNext>>

\* Mutant of FLFlush: flush() skips a buffer holding a single piece.
FLFlushSkipOne ==
  /\ pc["flushLoop"] = "fl_flush"
  /\ \/ /\ closed
        /\ LoopExit("flushLoop", "closed")
        /\ UNCHANGED <<wbuf, sent, werr>>
     \/ /\ ~closed
        /\ Len(wbuf) <= 1
        /\ Goto("flushLoop", "fl_recv")
        /\ UNCHANGED <<wbuf, sent, werr, ret, cause, frame, wg>>
     \/ /\ ~closed
        /\ Len(wbuf) > 1
        /\ BufFlush
        /\ IF FlushFails
             THEN LoopExit("flushLoop", "flush")
             ELSE Goto("flushLoop", "fl_recv") /\ UNCHANGED <<ret, cause, frame, wg>>
  /\ UNCHANGED <<sig, que, flushCh, rin, pings, uwNext>>

(* flushLoop: c.flush(), which returns ConnectionClosed once closed and   *)
(* flushes only when bytes are buffered; an error ends the loop.          *)
FLFlush ==
  /\ pc["flushLoop"] = "fl_flush"
  /\ \/ /\ closed
        /\ LoopExit("flushLoop", "closed")
        /\ UNCHANGED <<wbuf, sent, werr>>
     \/ /\ ~closed
        /\ wbuf = <<>>
        /\ Goto("flushLoop", "fl_recv")
        /\ UNCHANGED <<wbuf, sent, werr, ret, cause, frame, wg>>
     \/ /\ ~closed
        /\ wbuf # <<>>
        /\ BufFlush
        /\ IF FlushFails
             THEN LoopExit("flushLoop", "flush")
             ELSE Goto("flushLoop", "fl_recv") /\ UNCHANGED <<ret, cause, frame, wg>>
  /\ UNCHANGED <<sig, que, flushCh, rin, pings, uwNext>>

(* pingLoop: the select on c.closeCh and the ticker.                       *)
PLWait ==
  /\ pc["pingLoop"] = "pl_wait"
  /\ \/ /\ closeCh
        /\ wg' = wg \ {"pingLoop"}
        /\ Goto("pingLoop", "done")
        /\ UNCHANGED <<frame, pings>>
     \/ /\ pings < MaxPings
        /\ pings' = pings + 1
        /\ frame' = [frame EXCEPT !["pingLoop"] = [src |-> "ping", n |-> pings + 1, body |-> FALSE]]
        /\ Goto("pingLoop", "wp_check")
        /\ UNCHANGED wg
  /\ UNCHANGED <<sig, que, wrt, ret, cause, rin, uwNext>>

-----------------------------------------------------------------------------
(* The user calls WritePacket with its next packet.                        *)
UWWrite ==
  /\ pc["writer"] = "uw_idle"
  /\ uwNext <= Len(Outbound)
  /\ frame' = [frame EXCEPT !["writer"] = [src |-> "user", n |-> uwNext, body |-> Outbound[uwNext]]]
  /\ uwNext' = uwNext + 1
  /\ Goto("writer", "wp_check")
  /\ UNCHANGED <<sig, que, wrt, ret, cause, wg, rin, pings>>

(* ReadPacket once closed: c.stalePackets.Poll(), ConnectionClosed when   *)
(* it returns nil.  The reader stops at the first error.                   *)
\* Mutant of PollStale: Poll returns the head without removing it.
PollStaleNoRemove ==
  IF stalePackets # <<>>
    THEN /\ delivered' = Append(delivered, Head(stalePackets))
         /\ Goto("reader", "ur_idle")
         /\ UNCHANGED <<readerGotClosed, stalePackets>>
    ELSE /\ readerGotClosed' = TRUE
         /\ Goto("reader", "done")
         /\ UNCHANGED <<delivered, stalePackets>>

PollStale ==
  IF stalePackets # <<>>
    THEN /\ delivered' = Append(delivered, Head(stalePackets))
         /\ stalePackets' = Tail(stalePackets)
         /\ Goto("reader", "ur_idle")
         /\ UNCHANGED readerGotClosed
    ELSE /\ readerGotClosed' = TRUE
         /\ Goto("reader", "done")
         /\ UNCHANGED <<delivered, stalePackets>>

(* ReadPacket: the first test of c.closed.                                 *)
URRead ==
  /\ pc["reader"] = "ur_idle"
  /\ IF closed
       THEN PollStale
       ELSE Goto("reader", "ur_pop") /\ UNCHANGED <<delivered, stalePackets, readerGotClosed>>
  /\ UNCHANGED <<sig, incoming, incomingClosed, drained, pushed, wrt, ret,
                 cause, frame, cnt>>

(* ReadPacket: c.incoming.Pop(), blocking until a packet is queued or the *)
(* queue is closed.                                                        *)
URPop ==
  /\ pc["reader"] = "ur_pop"
  /\ \/ /\ ~incomingClosed
        /\ incoming # <<>>
        /\ delivered' = Append(delivered, Head(incoming))
        /\ incoming' = Tail(incoming)
        /\ Goto("reader", "ur_idle")
     \/ /\ incomingClosed
        /\ Goto("reader", "ur_poll")
        /\ UNCHANGED <<delivered, incoming>>
  /\ UNCHANGED <<sig, incomingClosed, stalePackets, drained, pushed,
                 readerGotClosed, wrt, ret, cause, frame, cnt>>

(* ReadPacket after Pop failed: c.closed holds (the queue is closed only  *)
(* after the CAS), so the stale packets are polled.                       *)
URPoll ==
  /\ pc["reader"] = "ur_poll"
  /\ PollStale
  /\ UNCHANGED <<sig, incoming, incomingClosed, drained, pushed, wrt, ret,
                 cause, frame, cnt>>

(* The user calls Close(): close(), and c.conn.Close() if it won.          *)
UCClose ==
  /\ pc["closer"] = "uc_idle"
  /\ CallClose("closer", "none", "close")
  /\ UNCHANGED <<sig, que, wrt, frame, cnt>>

UserStep == UWWrite \/ URRead \/ URPop \/ URPoll \/ UCClose

(* The socket fails: later socket reads, writes and flushes return errors. *)
SocketFails ==
  /\ Faults
  /\ ~broken
  /\ broken' = TRUE
  /\ UNCHANGED <<closed, error, closeCh, flushChClosed, deadlinePast,
                 connClosed, panicked, que, wrt, ctl, cnt>>

-----------------------------------------------------------------------------
\* An actor that has nothing left to do.
Finished(a) ==
  \/ pc[a] = "done"
  \/ a = "writer" /\ pc[a] = "uw_idle" /\ uwNext > Len(Outbound)

(* The process has panicked, or every goroutine has returned.              *)
Terminated ==
  /\ panicked \/ \A a \in Actors : Finished(a)
  /\ UNCHANGED vars

Next ==
  \/ /\ ~panicked
     /\ \/ \E a \in Actors : CloseStep(a) \/ WriteStep(a) \/ LoopFail(a)
        \/ ReadLoopStep
        \/ FLRecv \/ FLFlush
        \/ PLWait
        \/ UserStep
        \/ SocketFails
  \/ Terminated

(* Goroutines are scheduled: each makes progress while it can.  The user  *)
(* need not call WritePacket, ReadPacket or Close.  A silent peer need not *)
(* make a read time out while the connection is open (a live peer pings   *)
(* within DefaultDeadline); once closed, the read deadline makes it fail. *)
Fairness ==
  /\ \A a \in Actors : WF_vars(~panicked /\ (CloseStep(a) \/ WriteStep(a) \/ LoopFail(a)))
  /\ WF_vars(~panicked /\ (RLDeadline \/ RLReadFrame \/ (closed /\ RLReadFail)
                            \/ RLDispatchUser \/ RLDispatchPing \/ RLDispatchPong))
  /\ WF_vars(~panicked /\ (FLRecv \/ FLFlush))
  /\ WF_vars(~panicked /\ PLWait)
  /\ WF_vars(~panicked /\ (URPop \/ URPoll))

Spec == Init /\ [][Next]_vars /\ Fairness

-----------------------------------------------------------------------------
(* Every variable holds a value of its kind.                               *)
TypeOK ==
  /\ closed \in BOOLEAN
  /\ error \in Causes
  /\ closeCh \in BOOLEAN
  /\ flushCh \in 0..FlushChCap
  /\ flushChClosed \in BOOLEAN
  /\ deadlinePast \in BOOLEAN
  /\ connClosed \in BOOLEAN
  /\ broken \in BOOLEAN
  /\ panicked \in BOOLEAN
  /\ incoming \in Seq(Nat)
  /\ incomingClosed \in BOOLEAN
  /\ stalePackets \in Seq(Nat)
  /\ drained \in BOOLEAN
  /\ wbuf \in Seq(Pieces)
  /\ sent \in Seq(Pieces)
  /\ werr \in BOOLEAN
  /\ wg \in SUBSET Loops
  /\ rin \in 0..Len(Inbound)
  /\ pings \in 0..MaxPings
  /\ uwNext \in 1..Len(Outbound) + 1
  /\ pc \in [Actors -> Labels]
  /\ ret \in [Actors -> {"done", "exit", "wp_err", "close"}]
  /\ cause \in [Actors -> Causes]
  /\ frame \in [Actors -> Frames]
  /\ pushed \in Seq(Nat)
  /\ delivered \in Seq(Nat)
  /\ readerGotClosed \in BOOLEAN

\* The frame of the last packet readLoop pushed, 0 if none.
LastPushed == IF pushed = <<>> THEN 0 ELSE pushed[Len(pushed)]

\* The packets readLoop has pushed and ReadPacket has not yet returned are
\* c.incoming followed by c.stalePackets; the channel closes with c.incoming.
Channel == INSTANCE PacketChannel
             WITH q <- incoming \o stalePackets, delivered <- delivered,
                  last <- LastPushed, closed <- incomingClosed

(* Async implements the packet channel: every step of readLoop, ReadPacket *)
(* and close() is a step of PacketChannel or leaves its state alone.  It  *)
(* fails if readLoop skips or invents a user packet, pushes after close,  *)
(* or if ReadPacket or the drain into c.stalePackets reorders packets.    *)
ImplementsChannel == Channel!Spec

(* No packet the read loop queued is lost or returned twice across close: *)
(* what ReadPacket returned, then what c.incoming holds, then what close() *)
(* moved to c.stalePackets, is exactly what readLoop pushed, in order.     *)
(* It rests on Pop failing once the queue is closed, on close() waiting   *)
(* for readLoop before it drains, and on Set replacing an empty buffer.   *)
PacketConservation == delivered \o incoming \o stalePackets = pushed

(* The inductive form of PacketConservation.  Packets reach c.stalePackets *)
(* only once, from the one close() that won the CAS, after c.incoming was *)
(* closed (so readLoop can no longer push) and before anything was left   *)
(* in it; afterwards c.incoming stays empty.                               *)
ConservationInv ==
  /\ TypeOK
  /\ PacketConservation
  /\ drained => closed /\ incomingClosed /\ incoming = <<>>
  /\ ~drained => stalePackets = <<>>
  /\ \A a \in Actors :
       pc[a] \in {"c_sig", "c_wait"} =>
         /\ closed
         /\ ~drained
         /\ \A b \in Actors \ {a} : pc[b] \notin {"c_sig", "c_wait"}
  /\ \A a \in Actors : pc[a] = "c_wait" => incomingClosed

(* Every close() that wins the CAS gets past c.wg.Wait(): all three loops *)
(* end and the parsed packets are moved to c.stalePackets (spec: "all     *)
(* internal tasks terminate exactly once").                                *)
CloseCompletes == closed ~> (drained \/ panicked)

(* While the connection stays open, whatever writePacket put in the       *)
(* bufio.Writer reaches the socket: the len(c.flushCh) == 0 test never    *)
(* leaves a write without a pending flush token, and flushLoop flushes    *)
(* whatever is buffered when it takes one.  The buffer only empties by    *)
(* being written out, so its emptying means every piece in it was sent.   *)
FlushProgress ==
  wbuf # <<>> ~> (wbuf = <<>> \/ closed \/ panicked)

(* No goroutine sends on c.flushCh after close() closed it: writePacket   *)
(* tests c.closed before writing but sends on the channel afterwards.     *)
NoSendOnClosedChannel == ~panicked

(* The bytes leaving the endpoint are a sequence of whole frames: the     *)
(* header of a packet with content is followed by that content (spec 8.2; *)
(* writePacket writes header and content in two c.writer.Write calls).    *)
WireFramed ==
  LET out == sent \o wbuf
  IN  \A i \in 1..Len(out) - 1 :
        out[i].k = "hdr" /\ out[i].f.body => out[i + 1] = Piece("body", out[i].f)

(* c.error is stored at most once: several goroutines may call           *)
(* closeWithError at once (readLoop, flushLoop, pingLoop, a writer), but   *)
(* only the one whose close() won the CAS reaches c.error.Store, so       *)
(* Error() keeps the cause the connection really closed with.             *)
ErrorStoredOnce == [][error # "none" => error' = error]_vars

(* ReadPacket returns ConnectionClosed only when no parsed packet is left *)
(* to read (spec 7: parsed packets "remain readable until exhausted").    *)
ReaderClosedOnlyWhenDrained ==
  readerGotClosed => incoming \o stalePackets = <<>>

=============================================================================

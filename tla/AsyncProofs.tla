----------------------------- MODULE AsyncProofs -----------------------------
(***************************************************************************)
(* Proofs about the Async engine for every value of its constants: the    *)
(* type invariant, and that no packet the read loop queued is lost or     *)
(* duplicated across close() (PacketConservation), through its inductive  *)
(* strengthening ConservationInv.                                          *)
(***************************************************************************)
EXTENDS Async, SequenceTheorems, TLAPS

\* The continuations of writePacket and close are control points.
LEMMA ContinuationLabels ==
  \A a \in Actors :
    /\ AfterWriteOK(a) \in Labels
    /\ AfterWriteErr(a) \in Labels
    /\ AfterClose(a) \in Labels
BY DEF AfterWriteOK, AfterWriteErr, AfterClose, Labels, Actors, Loops, Users

\* The capacity of c.flushCh is a number.
LEMMA FlushChCapValue == FlushChCap \in Nat
BY DEF FlushChCap

-----------------------------------------------------------------------------
(* Init establishes the type invariant.                                    *)
LEMMA InitTypeOK == Init => TypeOK
<1> SUFFICES ASSUME Init PROVE TypeOK
  OBVIOUS
<1>1. pc \in [Actors -> Labels]
  BY DEF Init, StartLabel, Actors, Loops, Users, Labels
<1>2. frame \in [Actors -> Frames]
  BY DEF Init, Frames, NoFrame
<1>3. /\ ret \in [Actors -> {"done", "exit", "wp_err", "close"}]
      /\ cause \in [Actors -> Causes]
  BY DEF Init, Causes
<1>4. /\ incoming \in Seq(Nat) /\ stalePackets \in Seq(Nat)
      /\ wbuf \in Seq(Pieces) /\ sent \in Seq(Pieces)
      /\ pushed \in Seq(Nat) /\ delivered \in Seq(Nat)
  BY DEF Init
<1>5. /\ flushCh \in 0..FlushChCap /\ wg \in SUBSET Loops
      /\ rin \in 0..Len(Inbound) /\ pings \in 0..MaxPings
      /\ uwNext \in 1..Len(Outbound) + 1
  BY ConstantsAssumption DEF Init, FlushChCap
<1>6. /\ closed = FALSE /\ error = "none" /\ closeCh = FALSE
      /\ flushChClosed = FALSE /\ deadlinePast = FALSE /\ connClosed = FALSE
      /\ broken = FALSE /\ panicked = FALSE /\ incomingClosed = FALSE
      /\ drained = FALSE /\ werr = FALSE /\ readerGotClosed = FALSE
  BY DEF Init
<1>7. QED
  BY <1>1, <1>2, <1>3, <1>4, <1>5, <1>6 , Zenon DEF TypeOK, Causes

\* The type invariant, split along the variable groups of Async.
TSig == /\ closed \in BOOLEAN /\ error \in Causes /\ closeCh \in BOOLEAN
        /\ flushChClosed \in BOOLEAN /\ deadlinePast \in BOOLEAN
        /\ connClosed \in BOOLEAN /\ broken \in BOOLEAN /\ panicked \in BOOLEAN
TQue == /\ incoming \in Seq(Nat) /\ incomingClosed \in BOOLEAN
        /\ stalePackets \in Seq(Nat) /\ drained \in BOOLEAN
        /\ pushed \in Seq(Nat) /\ delivered \in Seq(Nat)
        /\ readerGotClosed \in BOOLEAN
TWrt == /\ wbuf \in Seq(Pieces) /\ sent \in Seq(Pieces) /\ werr \in BOOLEAN
        /\ flushCh \in 0..FlushChCap
TCtl == /\ pc \in [Actors -> Labels]
        /\ ret \in [Actors -> {"done", "exit", "wp_err", "close"}]
        /\ cause \in [Actors -> Causes]
        /\ frame \in [Actors -> Frames]
TCnt == /\ wg \in SUBSET Loops /\ rin \in 0..Len(Inbound)
        /\ pings \in 0..MaxPings /\ uwNext \in 1..Len(Outbound) + 1
TParts == TSig /\ TQue /\ TWrt /\ TCtl /\ TCnt

\* TypeOK is the conjunction of the parts, now and in the next state.
LEMMA TypeParts == /\ TypeOK <=> TParts
                   /\ TypeOK' <=> TParts'
BY Zenon DEF TypeOK, TParts, TSig, TQue, TWrt, TCtl, TCnt

(* ReadPacket's poll of c.stalePackets keeps the queues typed.             *)
LEMMA PollStaleTyped ==
  ASSUME TQue, PollStale,
         UNCHANGED <<incoming, incomingClosed, drained, pushed>>
  PROVE  TQue'
<1>1. CASE stalePackets # <<>>
  <2>1. Head(stalePackets) \in Nat /\ Tail(stalePackets) \in Seq(Nat)
    BY <1>1, HeadTailProperties DEF TQue
  <2>2. Append(delivered, Head(stalePackets)) \in Seq(Nat)
    BY <2>1, AppendProperties DEF TQue
  <2>3. QED
    BY <1>1, <2>1, <2>2 DEF PollStale, TQue
<1>2. CASE stalePackets = <<>>
  BY <1>2 DEF PollStale, TQue
<1>3. QED
  BY <1>1, <1>2

(* BufferedWriter.Flush keeps the writer typed.                            *)
LEMMA BufFlushTyped ==
  ASSUME TWrt, BufFlush
  PROVE  wbuf' \in Seq(Pieces) /\ sent' \in Seq(Pieces) /\ werr' \in BOOLEAN
<1>1. sent \o wbuf \in Seq(Pieces)
  BY ConcatProperties DEF TWrt
<1>2. CASE FlushFails
  BY <1>2 DEF BufFlush, TWrt
<1>3. CASE ~FlushFails
  <2>1. sent' = sent \o wbuf /\ wbuf' = <<>> /\ werr' = werr
    BY <1>3 DEF BufFlush
  <2>2. QED
    BY <1>1, <2>1 DEF TWrt
<1>4. QED
  BY <1>2, <1>3

(* BufferedWriter.Write of a piece keeps the writer typed.                 *)
LEMMA BufWriteTyped ==
  ASSUME TWrt, NEW p \in Pieces, BufWrite(p)
  PROVE  wbuf' \in Seq(Pieces) /\ sent' \in Seq(Pieces) /\ werr' \in BOOLEAN
<1>1. Append(wbuf, p) \in Seq(Pieces) /\ sent \o wbuf \in Seq(Pieces)
  BY ConcatProperties, AppendProperties DEF TWrt
<1>2. <<p>> \in Seq(Pieces)
  OBVIOUS
<1>3. QED
  BY <1>1, <1>2 DEF BufWrite, TWrt

(* Every step keeps the variables of sig typed.                           *)
LEMMA NextTSig == TSig /\ TQue /\ TWrt /\ TCtl /\ TCnt /\ [Next]_vars => TSig'
<1> SUFFICES ASSUME TSig, TQue, TWrt, TCtl, TCnt, [Next]_vars PROVE TSig'
  OBVIOUS
<1>1. ASSUME NEW a \in Actors, CloseStep(a) \/ WriteStep(a) \/ LoopFail(a)
      PROVE TSig'
  <2>1. CASE CloseCAS(a)
    BY <2>1, ContinuationLabels DEF CloseCAS, Goto, TSig, TCtl, Causes, sig
  <2>2. CASE CloseSignal(a)
    BY <2>2, ContinuationLabels DEF CloseSignal, Goto, TSig, TCtl, Causes, sig
  <2>3. CASE CloseWait(a)
    BY <2>3, ContinuationLabels DEF CloseWait, Goto, TSig, TCtl, Causes, sig
  <2>4. CASE CloseFlush(a)
    BY <2>4, ContinuationLabels DEF CloseFlush, Goto, BufFlush, FlushFails, TSig, TCtl, Causes, sig
  <2>5. CASE CloseStore(a)
    BY <2>5, ContinuationLabels DEF CloseStore, Goto, TSig, TCtl, Causes, sig
  <2>6. CASE WPCheck(a)
    BY <2>6, ContinuationLabels DEF WPCheck, Goto, TSig, TCtl, Causes, sig
  <2>7. CASE WPHeader(a)
    BY <2>7, ContinuationLabels DEF WPHeader, Goto, WriteResult, BufWrite, WriteFails, CallClose, Piece, TSig, TCtl, Causes, sig
  <2>8. CASE WPBody(a)
    BY <2>8, ContinuationLabels DEF WPBody, Goto, WriteResult, BufWrite, WriteFails, CallClose, Piece, TSig, TCtl, Causes, sig
  <2>9. CASE WPSignal(a)
    BY <2>9, ContinuationLabels DEF WPSignal, Goto, TSig, TCtl, Causes, sig
  <2>10. CASE WPSend(a)
    BY <2>10, ContinuationLabels DEF WPSend, Goto, TSig, TCtl, Causes, sig
  <2>11. CASE LoopFail(a)
    BY <2>11, ContinuationLabels DEF LoopFail, LoopExit, CallClose, TSig, TCtl, Causes, sig
  <2>12. QED
    BY <1>1, <2>1, <2>2, <2>3, <2>4, <2>5, <2>6, <2>7, <2>8, <2>9, <2>10, <2>11 DEF CloseStep, WriteStep
<1>2. CASE RLDeadline
  BY <1>2 DEF RLDeadline, Goto, TSig, TCtl, Causes, sig
<1>3. CASE RLReadFrame
  BY <1>3 DEF RLReadFrame, Goto, TSig, TCtl, Causes, sig
<1>4. CASE RLReadFail
  BY <1>4 DEF RLReadFail, LoopExit, CallClose, TSig, TCtl, Causes, sig
<1>5. CASE RLDispatchUser
  BY <1>5 DEF RLDispatchUser, Goto, LoopExit, CallClose, TSig, TCtl, Causes, sig
<1>6. CASE RLDispatchPing
  BY <1>6 DEF RLDispatchPing, Goto, TSig, TCtl, Causes, sig
<1>7. CASE RLDispatchPong
  BY <1>7 DEF RLDispatchPong, Goto, TSig, TCtl, Causes, sig
<1>8. CASE FLRecv
  BY <1>8 DEF FLRecv, Goto, TSig, TCtl, Causes, sig
<1>9. CASE FLFlush
  BY <1>9 DEF FLFlush, Goto, BufFlush, FlushFails, LoopExit, CallClose, TSig, TCtl, Causes, sig
<1>10. CASE PLWait
  BY <1>10 DEF PLWait, Goto, TSig, TCtl, Causes, sig
<1>11. CASE UWWrite
  BY <1>11 DEF UWWrite, Goto, TSig, TCtl, Causes, sig
<1>12. CASE URRead
  BY <1>12 DEF URRead, Goto, PollStale, TSig, TCtl, Causes, sig
<1>13. CASE URPop
  BY <1>13 DEF URPop, Goto, TSig, TCtl, Causes, sig
<1>14. CASE URPoll
  BY <1>14 DEF URPoll, Goto, PollStale, TSig, TCtl, Causes, sig
<1>15. CASE UCClose
  BY <1>15 DEF UCClose, CallClose, TSig, TCtl, Causes, sig
<1>16. CASE SocketFails
  BY <1>16 DEF SocketFails, TSig, TCtl, Causes, sig
<1>17. CASE Terminated \/ UNCHANGED vars
  BY <1>17 DEF Terminated, vars, TSig, TCtl, Causes, sig, sig, que, wrt, ctl, cnt
<1>18. QED
  BY <1>1, <1>2, <1>3, <1>4, <1>5, <1>6, <1>7, <1>8, <1>9, <1>10, <1>11, <1>12, <1>13, <1>14, <1>15, <1>16, <1>17 DEF Next, ReadLoopStep, UserStep

(* Every step keeps the variables of que typed.                           *)
LEMMA NextTQue == TSig /\ TQue /\ TWrt /\ TCtl /\ TCnt /\ [Next]_vars => TQue'
<1> SUFFICES ASSUME TSig, TQue, TWrt, TCtl, TCnt, [Next]_vars PROVE TQue'
  OBVIOUS
<1>1. ASSUME NEW a \in Actors, CloseStep(a) \/ WriteStep(a) \/ LoopFail(a)
      PROVE TQue'
  <2>1. CASE CloseCAS(a)
    BY <2>1, ContinuationLabels DEF CloseCAS, Goto, TQue, TCnt, que
  <2>2. CASE CloseSignal(a)
    BY <2>2, ContinuationLabels DEF CloseSignal, Goto, TQue, TCnt, que
  <2>3. CASE CloseWait(a)
    BY <2>3, ContinuationLabels DEF CloseWait, Goto, TQue, TCnt, que
  <2>4. CASE CloseFlush(a)
    BY <2>4, ContinuationLabels DEF CloseFlush, Goto, BufFlush, FlushFails, TQue, TCnt, que
  <2>5. CASE CloseStore(a)
    BY <2>5, ContinuationLabels DEF CloseStore, Goto, TQue, TCnt, que
  <2>6. CASE WPCheck(a)
    BY <2>6, ContinuationLabels DEF WPCheck, Goto, TQue, TCnt, que
  <2>7. CASE WPHeader(a)
    BY <2>7, ContinuationLabels DEF WPHeader, Goto, WriteResult, BufWrite, WriteFails, CallClose, Piece, TQue, TCnt, que
  <2>8. CASE WPBody(a)
    BY <2>8, ContinuationLabels DEF WPBody, Goto, WriteResult, BufWrite, WriteFails, CallClose, Piece, TQue, TCnt, que
  <2>9. CASE WPSignal(a)
    BY <2>9, ContinuationLabels DEF WPSignal, Goto, TQue, TCnt, que
  <2>10. CASE WPSend(a)
    BY <2>10, ContinuationLabels DEF WPSend, Goto, TQue, TCnt, que
  <2>11. CASE LoopFail(a)
    BY <2>11, ContinuationLabels DEF LoopFail, LoopExit, CallClose, TQue, TCnt, que
  <2>12. QED
    BY <1>1, <2>1, <2>2, <2>3, <2>4, <2>5, <2>6, <2>7, <2>8, <2>9, <2>10, <2>11 DEF CloseStep, WriteStep
<1>2. CASE RLDeadline
  BY <1>2 DEF RLDeadline, Goto, TQue, TCnt, que
<1>3. CASE RLReadFrame
  BY <1>3 DEF RLReadFrame, Goto, TQue, TCnt, que
<1>4. CASE RLReadFail
  BY <1>4 DEF RLReadFail, LoopExit, CallClose, TQue, TCnt, que
<1>5. CASE RLDispatchUser
  <2>1. rin \in Nat
    BY ConstantsAssumption DEF TCnt
  <2>2. Append(incoming, rin) \in Seq(Nat) /\ Append(pushed, rin) \in Seq(Nat)
    BY <2>1, AppendProperties DEF TQue
  <2>3. QED
    BY <1>5, <2>2 DEF RLDispatchUser, Goto, LoopExit, CallClose, TQue
<1>6. CASE RLDispatchPing
  BY <1>6 DEF RLDispatchPing, Goto, TQue, TCnt, que
<1>7. CASE RLDispatchPong
  BY <1>7 DEF RLDispatchPong, Goto, TQue, TCnt, que
<1>8. CASE FLRecv
  BY <1>8 DEF FLRecv, Goto, TQue, TCnt, que
<1>9. CASE FLFlush
  BY <1>9 DEF FLFlush, Goto, BufFlush, FlushFails, LoopExit, CallClose, TQue, TCnt, que
<1>10. CASE PLWait
  BY <1>10 DEF PLWait, Goto, TQue, TCnt, que
<1>11. CASE UWWrite
  BY <1>11 DEF UWWrite, Goto, TQue, TCnt, que
<1>12. CASE URRead
  <2>1. CASE closed
    BY <1>12, <2>1, PollStaleTyped DEF URRead
  <2>2. CASE ~closed
    BY <1>12, <2>2 DEF URRead, Goto, TQue
  <2>3. QED
    BY <2>1, <2>2
<1>13. CASE URPop
  <2>1. CASE ~incomingClosed /\ incoming # <<>>
    <3>1. Head(incoming) \in Nat /\ Tail(incoming) \in Seq(Nat)
      BY <2>1, HeadTailProperties DEF TQue
    <3>2. Append(delivered, Head(incoming)) \in Seq(Nat)
      BY <3>1, AppendProperties DEF TQue
    <3>3. QED
      BY <1>13, <2>1, <3>1, <3>2 DEF URPop, Goto, TQue
  <2>2. CASE incomingClosed
    BY <1>13, <2>2 DEF URPop, Goto, TQue
  <2>3. QED
    BY <1>13, <2>1, <2>2 DEF URPop
<1>14. CASE URPoll
  BY <1>14, PollStaleTyped DEF URPoll
<1>15. CASE UCClose
  BY <1>15 DEF UCClose, CallClose, TQue, TCnt, que
<1>16. CASE SocketFails
  BY <1>16 DEF SocketFails, TQue, TCnt, que
<1>17. CASE Terminated \/ UNCHANGED vars
  BY <1>17 DEF Terminated, vars, TQue, TCnt, que, sig, que, wrt, ctl, cnt
<1>18. QED
  BY <1>1, <1>2, <1>3, <1>4, <1>5, <1>6, <1>7, <1>8, <1>9, <1>10, <1>11, <1>12, <1>13, <1>14, <1>15, <1>16, <1>17 DEF Next, ReadLoopStep, UserStep

(* Every step keeps the variables of wrt typed.                           *)
LEMMA NextTWrt == TSig /\ TQue /\ TWrt /\ TCtl /\ TCnt /\ [Next]_vars => TWrt'
<1> SUFFICES ASSUME TSig, TQue, TWrt, TCtl, TCnt, [Next]_vars PROVE TWrt'
  OBVIOUS
<1>1. ASSUME NEW a \in Actors, CloseStep(a) \/ WriteStep(a) \/ LoopFail(a)
      PROVE TWrt'
  <2>1. CASE CloseCAS(a)
    BY <2>1, ContinuationLabels DEF CloseCAS, Goto, TWrt, TCtl, Pieces, FlushChCap, wrt
  <2>2. CASE CloseSignal(a)
    BY <2>2, ContinuationLabels DEF CloseSignal, Goto, TWrt, TCtl, Pieces, FlushChCap, wrt
  <2>3. CASE CloseWait(a)
    BY <2>3, ContinuationLabels DEF CloseWait, Goto, TWrt, TCtl, Pieces, FlushChCap, wrt
  <2>4. CASE CloseFlush(a)
    <3>1. CASE wbuf # <<>>
      BY <2>4, <3>1, BufFlushTyped DEF CloseFlush, TWrt
    <3>2. CASE wbuf = <<>>
      BY <2>4, <3>2 DEF CloseFlush, TWrt
    <3>3. QED
      BY <3>1, <3>2
  <2>5. CASE CloseStore(a)
    BY <2>5, ContinuationLabels DEF CloseStore, Goto, TWrt, TCtl, Pieces, FlushChCap, wrt
  <2>6. CASE WPCheck(a)
    BY <2>6, ContinuationLabels DEF WPCheck, Goto, TWrt, TCtl, Pieces, FlushChCap, wrt
  <2>7. CASE WPHeader(a)
    <3>1. Piece("hdr", frame[a]) \in Pieces
      BY DEF TCtl, Piece, Pieces
    <3>2. CASE connClosed
      BY <2>7, <3>2 DEF WPHeader, Goto, TWrt
    <3>3. CASE ~connClosed /\ WriteFails
      BY <2>7, <3>3 DEF WPHeader, WriteResult, CallClose, Goto, TWrt
    <3>4. CASE ~connClosed /\ ~WriteFails
      BY <2>7, <3>1, <3>4, BufWriteTyped DEF WPHeader, WriteResult, Goto, TWrt
    <3>5. QED
      BY <3>2, <3>3, <3>4
  <2>8. CASE WPBody(a)
    <3>1. Piece("body", frame[a]) \in Pieces
      BY DEF TCtl, Piece, Pieces
    <3>3. CASE WriteFails
      BY <2>8, <3>3 DEF WPBody, WriteResult, CallClose, Goto, TWrt
    <3>4. CASE ~WriteFails
      BY <2>8, <3>1, <3>4, BufWriteTyped DEF WPBody, WriteResult, Goto, TWrt
    <3>5. QED
      BY <3>3, <3>4
  <2>9. CASE WPSignal(a)
    BY <2>9, ContinuationLabels DEF WPSignal, Goto, TWrt, TCtl, Pieces, FlushChCap, wrt
  <2>10. CASE WPSend(a)
    BY <2>10, ContinuationLabels DEF WPSend, Goto, TWrt, TCtl, Pieces, FlushChCap, wrt
  <2>11. CASE LoopFail(a)
    BY <2>11, ContinuationLabels DEF LoopFail, LoopExit, CallClose, TWrt, TCtl, Pieces, FlushChCap, wrt
  <2>12. QED
    BY <1>1, <2>1, <2>2, <2>3, <2>4, <2>5, <2>6, <2>7, <2>8, <2>9, <2>10, <2>11 DEF CloseStep, WriteStep
<1>2. CASE RLDeadline
  BY <1>2 DEF RLDeadline, Goto, TWrt, TCtl, Pieces, FlushChCap, wrt
<1>3. CASE RLReadFrame
  BY <1>3 DEF RLReadFrame, Goto, TWrt, TCtl, Pieces, FlushChCap, wrt
<1>4. CASE RLReadFail
  BY <1>4 DEF RLReadFail, LoopExit, CallClose, TWrt, TCtl, Pieces, FlushChCap, wrt
<1>5. CASE RLDispatchUser
  BY <1>5 DEF RLDispatchUser, Goto, LoopExit, CallClose, TWrt, TCtl, Pieces, FlushChCap, wrt
<1>6. CASE RLDispatchPing
  BY <1>6 DEF RLDispatchPing, Goto, TWrt, TCtl, Pieces, FlushChCap, wrt
<1>7. CASE RLDispatchPong
  BY <1>7 DEF RLDispatchPong, Goto, TWrt, TCtl, Pieces, FlushChCap, wrt
<1>8. CASE FLRecv
  BY <1>8 DEF FLRecv, Goto, TWrt, TCtl, Pieces, FlushChCap, wrt
<1>9. CASE FLFlush
  <2>1. CASE closed
    BY <1>9, <2>1 DEF FLFlush, TWrt
  <2>2. CASE ~closed /\ wbuf = <<>>
    BY <1>9, <2>2 DEF FLFlush, TWrt
  <2>3. CASE ~closed /\ wbuf # <<>>
    BY <1>9, <2>3, BufFlushTyped DEF FLFlush, TWrt
  <2>4. QED
    BY <2>1, <2>2, <2>3
<1>10. CASE PLWait
  BY <1>10 DEF PLWait, Goto, TWrt, TCtl, Pieces, FlushChCap, wrt
<1>11. CASE UWWrite
  BY <1>11 DEF UWWrite, Goto, TWrt, TCtl, Pieces, FlushChCap, wrt
<1>12. CASE URRead
  BY <1>12 DEF URRead, Goto, PollStale, TWrt, TCtl, Pieces, FlushChCap, wrt
<1>13. CASE URPop
  BY <1>13 DEF URPop, Goto, TWrt, TCtl, Pieces, FlushChCap, wrt
<1>14. CASE URPoll
  BY <1>14 DEF URPoll, Goto, PollStale, TWrt, TCtl, Pieces, FlushChCap, wrt
<1>15. CASE UCClose
  BY <1>15 DEF UCClose, CallClose, TWrt, TCtl, Pieces, FlushChCap, wrt
<1>16. CASE SocketFails
  BY <1>16 DEF SocketFails, TWrt, TCtl, Pieces, FlushChCap, wrt
<1>17. CASE Terminated \/ UNCHANGED vars
  BY <1>17 DEF Terminated, vars, TWrt, TCtl, Pieces, FlushChCap, wrt, sig, que, wrt, ctl, cnt
<1>18. QED
  BY <1>1, <1>2, <1>3, <1>4, <1>5, <1>6, <1>7, <1>8, <1>9, <1>10, <1>11, <1>12, <1>13, <1>14, <1>15, <1>16, <1>17 DEF Next, ReadLoopStep, UserStep

(* Every step keeps the variables of ctl typed.                           *)
LEMMA NextTCtl == TSig /\ TQue /\ TWrt /\ TCtl /\ TCnt /\ [Next]_vars => TCtl'
<1> SUFFICES ASSUME TSig, TQue, TWrt, TCtl, TCnt, [Next]_vars PROVE TCtl'
  OBVIOUS
<1>1. ASSUME NEW a \in Actors, CloseStep(a) \/ WriteStep(a) \/ LoopFail(a)
      PROVE TCtl'
  <2>1. CASE CloseCAS(a)
    BY <2>1, ContinuationLabels DEF CloseCAS, Goto, TCtl, TCnt, Labels, Causes, Frames, ctl
  <2>2. CASE CloseSignal(a)
    BY <2>2, ContinuationLabels DEF CloseSignal, Goto, TCtl, TCnt, Labels, Causes, Frames, ctl
  <2>3. CASE CloseWait(a)
    BY <2>3, ContinuationLabels DEF CloseWait, Goto, TCtl, TCnt, Labels, Causes, Frames, ctl
  <2>4. CASE CloseFlush(a)
    BY <2>4, ContinuationLabels DEF CloseFlush, Goto, BufFlush, FlushFails, TCtl, TCnt, Labels, Causes, Frames, ctl
  <2>5. CASE CloseStore(a)
    BY <2>5, ContinuationLabels DEF CloseStore, Goto, TCtl, TCnt, Labels, Causes, Frames, ctl
  <2>6. CASE WPCheck(a)
    BY <2>6, ContinuationLabels DEF WPCheck, Goto, TCtl, TCnt, Labels, Causes, Frames, ctl
  <2>7. CASE WPHeader(a)
    BY <2>7, ContinuationLabels DEF WPHeader, Goto, WriteResult, BufWrite, WriteFails, CallClose, Piece, TCtl, TCnt, Labels, Causes, Frames, ctl
  <2>8. CASE WPBody(a)
    BY <2>8, ContinuationLabels DEF WPBody, Goto, WriteResult, BufWrite, WriteFails, CallClose, Piece, TCtl, TCnt, Labels, Causes, Frames, ctl
  <2>9. CASE WPSignal(a)
    BY <2>9, ContinuationLabels DEF WPSignal, Goto, TCtl, TCnt, Labels, Causes, Frames, ctl
  <2>10. CASE WPSend(a)
    BY <2>10, ContinuationLabels DEF WPSend, Goto, TCtl, TCnt, Labels, Causes, Frames, ctl
  <2>11. CASE LoopFail(a)
    BY <2>11, ContinuationLabels DEF LoopFail, LoopExit, CallClose, TCtl, TCnt, Labels, Causes, Frames, ctl
  <2>12. QED
    BY <1>1, <2>1, <2>2, <2>3, <2>4, <2>5, <2>6, <2>7, <2>8, <2>9, <2>10, <2>11 DEF CloseStep, WriteStep
<1>2. CASE RLDeadline
  BY <1>2 DEF RLDeadline, Goto, TCtl, TCnt, Labels, Causes, Frames, ctl
<1>3. CASE RLReadFrame
  BY <1>3 DEF RLReadFrame, Goto, TCtl, TCnt, Labels, Causes, Frames, ctl
<1>4. CASE RLReadFail
  BY <1>4 DEF RLReadFail, LoopExit, CallClose, TCtl, TCnt, Labels, Causes, Frames, ctl
<1>5. CASE RLDispatchUser
  BY <1>5 DEF RLDispatchUser, Goto, LoopExit, CallClose, TCtl, TCnt, Labels, Causes, Frames, ctl
<1>6. CASE RLDispatchPing
  <2>1. [src |-> "pong", n |-> rin, body |-> FALSE] \in Frames
    BY ConstantsAssumption DEF TCnt, Frames
  <2>2. QED
    BY <1>6, <2>1 DEF RLDispatchPing, Goto, TCtl, Labels
<1>7. CASE RLDispatchPong
  BY <1>7 DEF RLDispatchPong, Goto, TCtl, TCnt, Labels, Causes, Frames, ctl
<1>8. CASE FLRecv
  BY <1>8 DEF FLRecv, Goto, TCtl, TCnt, Labels, Causes, Frames, ctl
<1>9. CASE FLFlush
  BY <1>9 DEF FLFlush, Goto, BufFlush, FlushFails, LoopExit, CallClose, TCtl, TCnt, Labels, Causes, Frames, ctl
<1>10. CASE PLWait
  <2>1. [src |-> "ping", n |-> pings + 1, body |-> FALSE] \in Frames
    BY ConstantsAssumption DEF TCnt, Frames
  <2>2. frame' \in [Actors -> Frames]
    BY <1>10, <2>1 DEF PLWait, TCtl
  <2>3. pc' \in [Actors -> Labels]
    BY <1>10 DEF PLWait, Goto, TCtl, Labels
  <2>4. QED
    BY <1>10, <2>2, <2>3 DEF PLWait, TCtl
<1>11. CASE UWWrite
  <2>1. uwNext <= Len(Outbound) =>
          [src |-> "user", n |-> uwNext, body |-> Outbound[uwNext]] \in Frames
    BY ConstantsAssumption DEF TCnt, Frames
  <2>2. QED
    BY <1>11, <2>1 DEF UWWrite, Goto, TCtl, Labels
<1>12. CASE URRead
  BY <1>12 DEF URRead, Goto, PollStale, TCtl, TCnt, Labels, Causes, Frames, ctl
<1>13. CASE URPop
  BY <1>13 DEF URPop, Goto, TCtl, TCnt, Labels, Causes, Frames, ctl
<1>14. CASE URPoll
  BY <1>14 DEF URPoll, Goto, PollStale, TCtl, TCnt, Labels, Causes, Frames, ctl
<1>15. CASE UCClose
  BY <1>15 DEF UCClose, CallClose, TCtl, TCnt, Labels, Causes, Frames, ctl
<1>16. CASE SocketFails
  BY <1>16 DEF SocketFails, TCtl, TCnt, Labels, Causes, Frames, ctl
<1>17. CASE Terminated \/ UNCHANGED vars
  BY <1>17 DEF Terminated, vars, TCtl, TCnt, Labels, Causes, Frames, ctl, sig, que, wrt, ctl, cnt
<1>18. QED
  BY <1>1, <1>2, <1>3, <1>4, <1>5, <1>6, <1>7, <1>8, <1>9, <1>10, <1>11, <1>12, <1>13, <1>14, <1>15, <1>16, <1>17 DEF Next, ReadLoopStep, UserStep

(* Every step keeps the variables of cnt typed.                           *)
LEMMA NextTCnt == TSig /\ TQue /\ TWrt /\ TCtl /\ TCnt /\ [Next]_vars => TCnt'
<1> SUFFICES ASSUME TSig, TQue, TWrt, TCtl, TCnt, [Next]_vars PROVE TCnt'
  OBVIOUS
<1>1. ASSUME NEW a \in Actors, CloseStep(a) \/ WriteStep(a) \/ LoopFail(a)
      PROVE TCnt'
  <2>1. CASE CloseCAS(a)
    BY <2>1, ContinuationLabels DEF CloseCAS, Goto, TCnt, cnt
  <2>2. CASE CloseSignal(a)
    BY <2>2, ContinuationLabels DEF CloseSignal, Goto, TCnt, cnt
  <2>3. CASE CloseWait(a)
    BY <2>3, ContinuationLabels DEF CloseWait, Goto, TCnt, cnt
  <2>4. CASE CloseFlush(a)
    BY <2>4, ContinuationLabels DEF CloseFlush, Goto, BufFlush, FlushFails, TCnt, cnt
  <2>5. CASE CloseStore(a)
    BY <2>5, ContinuationLabels DEF CloseStore, Goto, TCnt, cnt
  <2>6. CASE WPCheck(a)
    BY <2>6, ContinuationLabels DEF WPCheck, Goto, TCnt, cnt
  <2>7. CASE WPHeader(a)
    BY <2>7, ContinuationLabels DEF WPHeader, Goto, WriteResult, BufWrite, WriteFails, CallClose, Piece, TCnt, cnt
  <2>8. CASE WPBody(a)
    BY <2>8, ContinuationLabels DEF WPBody, Goto, WriteResult, BufWrite, WriteFails, CallClose, Piece, TCnt, cnt
  <2>9. CASE WPSignal(a)
    BY <2>9, ContinuationLabels DEF WPSignal, Goto, TCnt, cnt
  <2>10. CASE WPSend(a)
    BY <2>10, ContinuationLabels DEF WPSend, Goto, TCnt, cnt
  <2>11. CASE LoopFail(a)
    BY <2>11, ContinuationLabels DEF LoopFail, LoopExit, CallClose, TCnt, cnt
  <2>12. QED
    BY <1>1, <2>1, <2>2, <2>3, <2>4, <2>5, <2>6, <2>7, <2>8, <2>9, <2>10, <2>11 DEF CloseStep, WriteStep
<1>2. CASE RLDeadline
  BY <1>2 DEF RLDeadline, Goto, TCnt, cnt
<1>3. CASE RLReadFrame
  BY <1>3 DEF RLReadFrame, Goto, TCnt, cnt
<1>4. CASE RLReadFail
  BY <1>4 DEF RLReadFail, LoopExit, CallClose, TCnt, cnt
<1>5. CASE RLDispatchUser
  BY <1>5 DEF RLDispatchUser, Goto, LoopExit, CallClose, TCnt, cnt
<1>6. CASE RLDispatchPing
  BY <1>6 DEF RLDispatchPing, Goto, TCnt, cnt
<1>7. CASE RLDispatchPong
  BY <1>7 DEF RLDispatchPong, Goto, TCnt, cnt
<1>8. CASE FLRecv
  BY <1>8 DEF FLRecv, Goto, TCnt, cnt
<1>9. CASE FLFlush
  BY <1>9 DEF FLFlush, Goto, BufFlush, FlushFails, LoopExit, CallClose, TCnt, cnt
<1>10. CASE PLWait
  BY <1>10, ConstantsAssumption DEF PLWait, Goto, TCnt
<1>11. CASE UWWrite
  BY <1>11 DEF UWWrite, Goto, TCnt, cnt
<1>12. CASE URRead
  BY <1>12 DEF URRead, Goto, PollStale, TCnt, cnt
<1>13. CASE URPop
  BY <1>13 DEF URPop, Goto, TCnt, cnt
<1>14. CASE URPoll
  BY <1>14 DEF URPoll, Goto, PollStale, TCnt, cnt
<1>15. CASE UCClose
  BY <1>15 DEF UCClose, CallClose, TCnt, cnt
<1>16. CASE SocketFails
  BY <1>16 DEF SocketFails, TCnt, cnt
<1>17. CASE Terminated \/ UNCHANGED vars
  BY <1>17 DEF Terminated, vars, TCnt, cnt, sig, que, wrt, ctl, cnt
<1>18. QED
  BY <1>1, <1>2, <1>3, <1>4, <1>5, <1>6, <1>7, <1>8, <1>9, <1>10, <1>11, <1>12, <1>13, <1>14, <1>15, <1>16, <1>17 DEF Next, ReadLoopStep, UserStep

(* The type invariant holds in every reachable state.                      *)
LEMMA NextTypeOK == TypeOK /\ [Next]_vars => TypeOK'
BY TypeParts, NextTSig, NextTQue, NextTWrt, NextTCtl, NextTCnt DEF TParts

THEOREM TypeCorrect == Spec => []TypeOK
BY InitTypeOK, NextTypeOK, PTL DEF Spec

-----------------------------------------------------------------------------
(* Lemmas on sequences for the conservation of packets.                   *)

\* Appending to the second of two concatenated sequences.
LEMMA ConcatAppend ==
  ASSUME NEW S, NEW d \in Seq(S), NEW i \in Seq(S), NEW x \in S
  PROVE  d \o Append(i, x) = Append(d \o i, x)
<1>1. Append(i, x) = i \o <<x>> /\ Append(d \o i, x) = (d \o i) \o <<x>>
  BY AppendIsConcat, ConcatProperties
<1>2. <<x>> \in Seq(S)
  OBVIOUS
<1>3. QED
  BY <1>1, <1>2, ConcatAssociative

\* Moving the head of a non-empty sequence to the end of another one.
LEMMA ConcatHeadTail ==
  ASSUME NEW S, NEW d \in Seq(S), NEW i \in Seq(S), i # <<>>
  PROVE  Append(d, Head(i)) \o Tail(i) = d \o i
<1>1. Head(i) \in S /\ Tail(i) \in Seq(S) /\ Len(Tail(i)) = Len(i) - 1
      /\ \A k \in 1..Len(Tail(i)) : Tail(i)[k] = i[k + 1]
  BY HeadTailProperties
<1>2. Append(d, Head(i)) \in Seq(S) /\ Len(Append(d, Head(i))) = Len(d) + 1
      /\ \A k \in 1..Len(d) : Append(d, Head(i))[k] = d[k]
      /\ Append(d, Head(i))[Len(d) + 1] = Head(i)
  BY <1>1, AppendProperties
<1>3. QED
  BY <1>1, <1>2, ConcatProperties, SeqEqual, LenProperties

-----------------------------------------------------------------------------
(* ConservationInv, split into the parts the steps touch.                  *)

\* The control points inside close() between the CAS and the drain.
Closing == {"c_sig", "c_wait"}

\* c.stalePackets is filled once, from the closed and emptied c.incoming.
DrainInv ==
  /\ drained => closed /\ incomingClosed /\ incoming = <<>>
  /\ ~drained => stalePackets = <<>>

\* At most one goroutine is inside close() past the CAS, and it won it.
OwnerInv ==
  /\ \A a \in Actors :
       pc[a] \in Closing =>
         /\ closed
         /\ ~drained
         /\ \A b \in Actors \ {a} : pc[b] \notin Closing
  /\ \A a \in Actors : pc[a] = "c_wait" => incomingClosed

\* ConservationInv is the conjunction of the parts, now and next.
LEMMA ConservationParts ==
  /\ ConservationInv <=> TypeOK /\ PacketConservation /\ DrainInv /\ OwnerInv
  /\ ConservationInv' <=> TypeOK' /\ PacketConservation' /\ DrainInv' /\ OwnerInv'
BY Zenon DEF ConservationInv, DrainInv, OwnerInv, Closing

\* A caller of writePacket or close never resumes inside close().
LEMMA ContinuationNotClosing ==
  \A a \in Actors :
    /\ AfterWriteOK(a) \notin Closing
    /\ AfterWriteErr(a) \notin Closing
    /\ AfterClose(a) \notin Closing
BY DEF AfterWriteOK, AfterWriteErr, AfterClose, Closing

(* ReadPacket's poll of c.stalePackets hands out the packets in order.    *)
LEMMA PollStaleConserves ==
  ASSUME TQue, PacketConservation, DrainInv, PollStale,
         UNCHANGED <<incoming, incomingClosed, drained, pushed, closed>>
  PROVE  PacketConservation' /\ DrainInv'
<1>1. CASE stalePackets # <<>>
  <2>1. drained /\ incoming = <<>>
    BY <1>1 DEF DrainInv
  <2>2. delivered \o incoming = delivered
    BY <2>1, ConcatEmptySeq DEF TQue
  <2>3. Append(delivered, Head(stalePackets)) \o Tail(stalePackets)
          = delivered \o stalePackets
    BY <1>1, ConcatHeadTail DEF TQue
  <2>4. Append(delivered, Head(stalePackets)) \in Seq(Nat)
    BY <1>1, HeadTailProperties, AppendProperties DEF TQue
  <2>5. Append(delivered, Head(stalePackets)) \o incoming
          = Append(delivered, Head(stalePackets))
    BY <2>1, <2>4, ConcatEmptySeq
  <2>6. /\ delivered' = Append(delivered, Head(stalePackets))
        /\ stalePackets' = Tail(stalePackets)
    BY <1>1 DEF PollStale
  <2>7. QED
    BY <1>1, <2>1, <2>2, <2>3, <2>5, <2>6 DEF PacketConservation, DrainInv
<1>2. CASE stalePackets = <<>>
  BY <1>2 DEF PollStale, PacketConservation, DrainInv
<1>3. QED
  BY <1>1, <1>2

(* A step that moves no goroutine into or out of close()'s critical part, *)
(* never reopens, and drains nothing keeps OwnerInv.                       *)
LEMMA OwnerFrame ==
  ASSUME OwnerInv,
         \A b \in Actors : pc'[b] \in Closing => pc'[b] = pc[b],
         closed => closed', drained' = drained,
         incomingClosed => incomingClosed'
  PROVE  OwnerInv'
<1>1. \A a \in Actors :
        pc'[a] \in Closing =>
          closed' /\ ~drained' /\ \A b \in Actors \ {a} : pc'[b] \notin Closing
  BY DEF OwnerInv
<1>2. \A a \in Actors : pc'[a] = "c_wait" => incomingClosed'
  BY DEF OwnerInv, Closing
<1>3. QED
  BY <1>1, <1>2 DEF OwnerInv

(* Every step preserves PacketConservation and DrainInv.                 *)
LEMMA NextQueue ==
  TSig /\ TQue /\ TWrt /\ TCtl /\ TCnt /\ PacketConservation /\ DrainInv /\ OwnerInv
    /\ [Next]_vars => PacketConservation' /\ DrainInv'
<1> SUFFICES ASSUME TSig, TQue, TWrt, TCtl, TCnt, PacketConservation, DrainInv,
                    OwnerInv, [Next]_vars
             PROVE  PacketConservation' /\ DrainInv'
  OBVIOUS
<1>1. ASSUME NEW a \in Actors, CloseStep(a) \/ WriteStep(a) \/ LoopFail(a)
      PROVE PacketConservation' /\ DrainInv'
  <2>1. CASE CloseCAS(a)
    BY <2>1, ContinuationLabels DEF CloseCAS, Goto, PacketConservation, DrainInv, sig, que
  <2>2. CASE CloseSignal(a)
    BY <2>2, ContinuationLabels DEF CloseSignal, Goto, PacketConservation, DrainInv, sig, que
  <2>3. CASE CloseWait(a)
    <3>1. closed /\ ~drained /\ incomingClosed
      BY <2>3 DEF CloseWait, OwnerInv, Closing
    <3>2. stalePackets = <<>>
      BY <3>1 DEF DrainInv
    <3>3. /\ stalePackets' = incoming /\ incoming' = <<>> /\ drained'
          /\ delivered' = delivered /\ pushed' = pushed
          /\ closed' = closed /\ incomingClosed' = incomingClosed
      BY <2>3 DEF CloseWait
    <3>4. delivered \o incoming \in Seq(Nat)
      BY ConcatProperties DEF TQue
    <3>5. /\ (delivered \o incoming) \o <<>> = delivered \o incoming
          /\ delivered \o <<>> = delivered
      BY <3>4, ConcatEmptySeq DEF TQue
    <3>6. QED
      BY <3>1, <3>2, <3>3, <3>5 DEF PacketConservation, DrainInv
  <2>4. CASE CloseFlush(a)
    BY <2>4, ContinuationLabels DEF CloseFlush, Goto, BufFlush, FlushFails, PacketConservation, DrainInv, sig, que
  <2>5. CASE CloseStore(a)
    BY <2>5, ContinuationLabels DEF CloseStore, Goto, PacketConservation, DrainInv, sig, que
  <2>6. CASE WPCheck(a)
    BY <2>6, ContinuationLabels DEF WPCheck, Goto, PacketConservation, DrainInv, sig, que
  <2>7. CASE WPHeader(a)
    BY <2>7, ContinuationLabels DEF WPHeader, Goto, WriteResult, BufWrite, WriteFails, CallClose, Piece, PacketConservation, DrainInv, sig, que
  <2>8. CASE WPBody(a)
    BY <2>8, ContinuationLabels DEF WPBody, Goto, WriteResult, BufWrite, WriteFails, CallClose, Piece, PacketConservation, DrainInv, sig, que
  <2>9. CASE WPSignal(a)
    BY <2>9, ContinuationLabels DEF WPSignal, Goto, PacketConservation, DrainInv, sig, que
  <2>10. CASE WPSend(a)
    BY <2>10, ContinuationLabels DEF WPSend, Goto, PacketConservation, DrainInv, sig, que
  <2>11. CASE LoopFail(a)
    BY <2>11, ContinuationLabels DEF LoopFail, LoopExit, CallClose, PacketConservation, DrainInv, sig, que
  <2>12. QED
    BY <1>1, <2>1, <2>2, <2>3, <2>4, <2>5, <2>6, <2>7, <2>8, <2>9, <2>10, <2>11 DEF CloseStep, WriteStep
<1>2. CASE RLDeadline
  BY <1>2, ContinuationLabels DEF RLDeadline, Goto, PacketConservation, DrainInv, sig, que
<1>3. CASE RLReadFrame
  BY <1>3, ContinuationLabels DEF RLReadFrame, Goto, PacketConservation, DrainInv, sig, que
<1>4. CASE RLReadFail
  BY <1>4, ContinuationLabels DEF RLReadFail, LoopExit, CallClose, PacketConservation, DrainInv, sig, que
<1>5. CASE RLDispatchUser
  <2>1. rin \in Nat
    BY ConstantsAssumption DEF TCnt
  <2>2. CASE ~incomingClosed /\ Len(incoming) < IncomingCap
    <3>1. ~drained /\ stalePackets = <<>>
      BY <2>2 DEF DrainInv
    <3>2. /\ incoming' = Append(incoming, rin) /\ pushed' = Append(pushed, rin)
          /\ UNCHANGED <<delivered, stalePackets, drained, closed, incomingClosed>>
      BY <1>5, <2>2, ConstantsAssumption DEF RLDispatchUser, LoopExit, CallClose, sig, TQue
    <3>3. delivered \o incoming \in Seq(Nat)
      BY ConcatProperties DEF TQue
    <3>4. delivered \o incoming = pushed
      BY <3>1, <3>3, ConcatEmptySeq DEF PacketConservation
    <3>5. delivered \o Append(incoming, rin) = Append(pushed, rin)
      <4>1. delivered \in Seq(Nat) /\ incoming \in Seq(Nat)
        BY DEF TQue
      <4>2. delivered \o Append(incoming, rin) = Append(delivered \o incoming, rin)
        BY <2>1, <4>1, ConcatAppend
      <4>3. QED
        BY <3>4, <4>2
    <3>6. delivered \o Append(incoming, rin) \in Seq(Nat)
      BY <2>1, AppendProperties, ConcatProperties DEF TQue
    <3>7. (delivered \o Append(incoming, rin)) \o <<>> = delivered \o Append(incoming, rin)
      BY <3>6, ConcatEmptySeq
    <3>8. QED
      BY <3>1, <3>2, <3>5, <3>7 DEF PacketConservation, DrainInv
  <2>3. CASE incomingClosed \/ Len(incoming) >= IncomingCap
    <3>1. UNCHANGED <<incoming, pushed, delivered, stalePackets, drained, closed,
                      incomingClosed>>
      BY <1>5, <2>3, ConstantsAssumption DEF RLDispatchUser, LoopExit, CallClose,
                                           sig, TQue
    <3>2. QED
      BY <3>1 DEF PacketConservation, DrainInv
  <2>4. QED
    BY <2>2, <2>3, ConstantsAssumption DEF TQue
<1>6. CASE RLDispatchPing
  BY <1>6, ContinuationLabels DEF RLDispatchPing, Goto, PacketConservation, DrainInv, sig, que
<1>7. CASE RLDispatchPong
  BY <1>7, ContinuationLabels DEF RLDispatchPong, Goto, PacketConservation, DrainInv, sig, que
<1>8. CASE FLRecv
  BY <1>8, ContinuationLabels DEF FLRecv, Goto, PacketConservation, DrainInv, sig, que
<1>9. CASE FLFlush
  BY <1>9, ContinuationLabels DEF FLFlush, Goto, BufFlush, FlushFails, LoopExit, CallClose, PacketConservation, DrainInv, sig, que
<1>10. CASE PLWait
  BY <1>10, ContinuationLabels DEF PLWait, Goto, PacketConservation, DrainInv, sig, que
<1>11. CASE UWWrite
  BY <1>11, ContinuationLabels DEF UWWrite, Goto, PacketConservation, DrainInv, sig, que
<1>12. CASE URRead
  <2>1. CASE closed
    BY <1>12, <2>1, PollStaleConserves DEF URRead, sig
  <2>2. CASE ~closed
    BY <1>12, <2>2 DEF URRead, Goto, PacketConservation, DrainInv, sig
  <2>3. QED
    BY <2>1, <2>2
<1>13. CASE URPop
  <2>1. CASE ~incomingClosed /\ incoming # <<>>
    <3>1. ~drained /\ stalePackets = <<>>
      BY <2>1 DEF DrainInv
    <3>2. /\ delivered' = Append(delivered, Head(incoming))
          /\ incoming' = Tail(incoming)
          /\ UNCHANGED <<stalePackets, pushed, drained, closed, incomingClosed>>
      BY <1>13, <2>1 DEF URPop, sig
    <3>3. Append(delivered, Head(incoming)) \o Tail(incoming) = delivered \o incoming
      <4>1. delivered \in Seq(Nat) /\ incoming \in Seq(Nat) /\ incoming # <<>>
        BY <2>1 DEF TQue
      <4>2. QED
        BY <4>1, ConcatHeadTail
    <3>4. delivered \o incoming \in Seq(Nat)
      BY ConcatProperties DEF TQue
    <3>5. /\ (delivered \o incoming) \o <<>> = delivered \o incoming
      BY <3>4, ConcatEmptySeq
    <3>6. PacketConservation'
      <4>1. stalePackets' = stalePackets /\ pushed' = pushed
        BY <3>2
      <4>2. delivered' \o incoming' = delivered \o incoming
        BY <3>2, <3>3, Zenon
      <4>3. delivered' \o incoming' \o stalePackets'
              = delivered \o incoming \o stalePackets
        BY <4>1, <4>2
      <4>4. QED
        BY <4>1, <4>3 DEF PacketConservation
    <3>7. DrainInv'
      BY <3>1, <3>2 DEF DrainInv
    <3>8. QED
      BY <3>6, <3>7
  <2>2. CASE incomingClosed
    BY <1>13, <2>2 DEF URPop, Goto, PacketConservation, DrainInv, sig
  <2>3. QED
    BY <1>13, <2>1, <2>2 DEF URPop
<1>14. CASE URPoll
  BY <1>14, PollStaleConserves DEF URPoll, sig
<1>15. CASE UCClose
  BY <1>15, ContinuationLabels DEF UCClose, CallClose, PacketConservation, DrainInv, sig, que
<1>16. CASE SocketFails
  BY <1>16, ContinuationLabels DEF SocketFails, ctl, PacketConservation, DrainInv, sig, que
<1>17. CASE Terminated \/ UNCHANGED vars
  BY <1>17 DEF Terminated, vars, PacketConservation, DrainInv, sig, que, wrt, ctl, cnt
<1>18. QED
  BY <1>1, <1>2, <1>3, <1>4, <1>5, <1>6, <1>7, <1>8, <1>9, <1>10, <1>11, <1>12, <1>13, <1>14, <1>15, <1>16, <1>17 DEF Next, ReadLoopStep, UserStep

(* Every step preserves OwnerInv.                                         *)
LEMMA NextOwner ==
  TSig /\ TQue /\ TWrt /\ TCtl /\ TCnt /\ PacketConservation /\ DrainInv /\ OwnerInv
    /\ [Next]_vars => OwnerInv'
<1> SUFFICES ASSUME TSig, TQue, TWrt, TCtl, TCnt, PacketConservation, DrainInv,
                    OwnerInv, [Next]_vars
             PROVE  OwnerInv'
  OBVIOUS
<1>1. ASSUME NEW a \in Actors, CloseStep(a) \/ WriteStep(a) \/ LoopFail(a)
      PROVE OwnerInv'
  <2>1. CASE CloseCAS(a)
    <3>1. CASE closed
      <4>1. \A b \in Actors : pc'[b] \in Closing => pc'[b] = pc[b]
        BY <2>1, <3>1, ContinuationNotClosing DEF CloseCAS, Goto, TCtl, Closing
      <4>2. QED
        BY <2>1, <3>1, <4>1, OwnerFrame DEF CloseCAS, que
    <3>2. CASE ~closed
      <4>1. ~drained
        BY <3>2 DEF DrainInv
      <4>2. \A b \in Actors : pc[b] \notin Closing
        BY <3>2 DEF OwnerInv
      <4>3. /\ pc' = [pc EXCEPT ![a] = "c_sig"]
            /\ closed'
            /\ drained' = drained
            /\ incomingClosed' = incomingClosed
        BY <2>1, <3>2 DEF CloseCAS, Goto, que
      <4>4. QED
        BY <4>1, <4>2, <4>3 DEF OwnerInv, Closing, TCtl
    <3>3. QED
      BY <3>1, <3>2
  <2>2. CASE CloseSignal(a)
    <3>1. /\ pc[a] = "c_sig"
          /\ pc' = [pc EXCEPT ![a] = "c_wait"]
          /\ incomingClosed'
          /\ closed' = closed
          /\ drained' = drained
      BY <2>2 DEF CloseSignal, Goto
    <3>2. closed /\ ~drained /\ \A b \in Actors \ {a} : pc[b] \notin Closing
      BY <3>1 DEF OwnerInv, Closing
    <3>3. QED
      BY <3>1, <3>2 DEF OwnerInv, Closing, TCtl
  <2>3. CASE CloseWait(a)
    <3>1. /\ pc[a] = "c_wait"
          /\ pc' = [pc EXCEPT ![a] = "c_flush"]
      BY <2>3 DEF CloseWait, Goto
    <3>2. \A b \in Actors \ {a} : pc[b] \notin Closing
      BY <3>1 DEF OwnerInv, Closing
    <3>3. \A b \in Actors : pc'[b] \notin Closing
      BY <3>1, <3>2 DEF TCtl, Closing
    <3>4. QED
      BY <3>3 DEF OwnerInv, Closing
  <2>4. CASE CloseFlush(a)
    <3>1. \A b \in Actors : pc'[b] \in Closing => pc'[b] = pc[b]
      BY <2>4, ContinuationNotClosing DEF CloseFlush, Goto, BufFlush, FlushFails, TCtl, Closing
    <3>2. QED
      BY <2>4, <3>1, OwnerFrame DEF CloseFlush, Goto, BufFlush, FlushFails, sig, que
  <2>5. CASE CloseStore(a)
    <3>1. \A b \in Actors : pc'[b] \in Closing => pc'[b] = pc[b]
      BY <2>5, ContinuationNotClosing DEF CloseStore, Goto, TCtl, Closing
    <3>2. QED
      BY <2>5, <3>1, OwnerFrame DEF CloseStore, Goto, sig, que
  <2>6. CASE WPCheck(a)
    <3>1. \A b \in Actors : pc'[b] \in Closing => pc'[b] = pc[b]
      BY <2>6, ContinuationNotClosing DEF WPCheck, Goto, TCtl, Closing
    <3>2. QED
      BY <2>6, <3>1, OwnerFrame DEF WPCheck, Goto, sig, que
  <2>7. CASE WPHeader(a)
    <3>1. \A b \in Actors : pc'[b] \in Closing => pc'[b] = pc[b]
      BY <2>7, ContinuationNotClosing DEF WPHeader, Goto, WriteResult, BufWrite, WriteFails, CallClose, Piece, TCtl, Closing
    <3>2. QED
      BY <2>7, <3>1, OwnerFrame DEF WPHeader, Goto, WriteResult, BufWrite, WriteFails, CallClose, Piece, sig, que
  <2>8. CASE WPBody(a)
    <3>1. \A b \in Actors : pc'[b] \in Closing => pc'[b] = pc[b]
      BY <2>8, ContinuationNotClosing DEF WPBody, Goto, WriteResult, BufWrite, WriteFails, CallClose, Piece, TCtl, Closing
    <3>2. QED
      BY <2>8, <3>1, OwnerFrame DEF WPBody, Goto, WriteResult, BufWrite, WriteFails, CallClose, Piece, sig, que
  <2>9. CASE WPSignal(a)
    <3>1. \A b \in Actors : pc'[b] \in Closing => pc'[b] = pc[b]
      BY <2>9, ContinuationNotClosing DEF WPSignal, Goto, TCtl, Closing
    <3>2. QED
      BY <2>9, <3>1, OwnerFrame DEF WPSignal, Goto, sig, que
  <2>10. CASE WPSend(a)
    <3>1. \A b \in Actors : pc'[b] \in Closing => pc'[b] = pc[b]
      BY <2>10, ContinuationNotClosing DEF WPSend, Goto, TCtl, Closing
    <3>2. QED
      BY <2>10, <3>1, OwnerFrame DEF WPSend, Goto, sig, que
  <2>11. CASE LoopFail(a)
    <3>1. \A b \in Actors : pc'[b] \in Closing => pc'[b] = pc[b]
      BY <2>11, ContinuationNotClosing DEF LoopFail, LoopExit, CallClose, TCtl, Closing
    <3>2. QED
      BY <2>11, <3>1, OwnerFrame DEF LoopFail, LoopExit, CallClose, sig, que
  <2>12. QED
    BY <1>1, <2>1, <2>2, <2>3, <2>4, <2>5, <2>6, <2>7, <2>8, <2>9, <2>10, <2>11 DEF CloseStep, WriteStep
<1>2. CASE RLDeadline
  <2>1. \A b \in Actors : pc'[b] \in Closing => pc'[b] = pc[b]
    BY <1>2, ContinuationNotClosing DEF RLDeadline, Goto, TCtl, Closing
  <2>2. QED
    BY <1>2, <2>1, OwnerFrame DEF RLDeadline, Goto, sig, que
<1>3. CASE RLReadFrame
  <2>1. \A b \in Actors : pc'[b] \in Closing => pc'[b] = pc[b]
    BY <1>3, ContinuationNotClosing DEF RLReadFrame, Goto, TCtl, Closing
  <2>2. QED
    BY <1>3, <2>1, OwnerFrame DEF RLReadFrame, Goto, sig, que
<1>4. CASE RLReadFail
  <2>1. \A b \in Actors : pc'[b] \in Closing => pc'[b] = pc[b]
    BY <1>4, ContinuationNotClosing DEF RLReadFail, LoopExit, CallClose, TCtl, Closing
  <2>2. QED
    BY <1>4, <2>1, OwnerFrame DEF RLReadFail, LoopExit, CallClose, sig, que
<1>5. CASE RLDispatchUser
  <2>1. \A b \in Actors : pc'[b] \in Closing => pc'[b] = pc[b]
    BY <1>5, ContinuationNotClosing DEF RLDispatchUser, Goto, LoopExit, CallClose, TCtl, Closing
  <2>2. QED
    BY <1>5, <2>1, OwnerFrame DEF RLDispatchUser, Goto, LoopExit, CallClose, sig, que
<1>6. CASE RLDispatchPing
  <2>1. \A b \in Actors : pc'[b] \in Closing => pc'[b] = pc[b]
    BY <1>6, ContinuationNotClosing DEF RLDispatchPing, Goto, TCtl, Closing
  <2>2. QED
    BY <1>6, <2>1, OwnerFrame DEF RLDispatchPing, Goto, sig, que
<1>7. CASE RLDispatchPong
  <2>1. \A b \in Actors : pc'[b] \in Closing => pc'[b] = pc[b]
    BY <1>7, ContinuationNotClosing DEF RLDispatchPong, Goto, TCtl, Closing
  <2>2. QED
    BY <1>7, <2>1, OwnerFrame DEF RLDispatchPong, Goto, sig, que
<1>8. CASE FLRecv
  <2>1. \A b \in Actors : pc'[b] \in Closing => pc'[b] = pc[b]
    BY <1>8, ContinuationNotClosing DEF FLRecv, Goto, TCtl, Closing
  <2>2. QED
    BY <1>8, <2>1, OwnerFrame DEF FLRecv, Goto, sig, que
<1>9. CASE FLFlush
  <2>1. \A b \in Actors : pc'[b] \in Closing => pc'[b] = pc[b]
    BY <1>9, ContinuationNotClosing DEF FLFlush, Goto, BufFlush, FlushFails, LoopExit, CallClose, TCtl, Closing
  <2>2. QED
    BY <1>9, <2>1, OwnerFrame DEF FLFlush, Goto, BufFlush, FlushFails, LoopExit, CallClose, sig, que
<1>10. CASE PLWait
  <2>1. \A b \in Actors : pc'[b] \in Closing => pc'[b] = pc[b]
    BY <1>10, ContinuationNotClosing DEF PLWait, Goto, TCtl, Closing
  <2>2. QED
    BY <1>10, <2>1, OwnerFrame DEF PLWait, Goto, sig, que
<1>11. CASE UWWrite
  <2>1. \A b \in Actors : pc'[b] \in Closing => pc'[b] = pc[b]
    BY <1>11, ContinuationNotClosing DEF UWWrite, Goto, TCtl, Closing
  <2>2. QED
    BY <1>11, <2>1, OwnerFrame DEF UWWrite, Goto, sig, que
<1>12. CASE URRead
  <2>1. \A b \in Actors : pc'[b] \in Closing => pc'[b] = pc[b]
    BY <1>12, ContinuationNotClosing DEF URRead, Goto, PollStale, TCtl, Closing
  <2>2. QED
    BY <1>12, <2>1, OwnerFrame DEF URRead, Goto, PollStale, sig, que
<1>13. CASE URPop
  <2>1. \A b \in Actors : pc'[b] \in Closing => pc'[b] = pc[b]
    BY <1>13, ContinuationNotClosing DEF URPop, Goto, TCtl, Closing
  <2>2. QED
    BY <1>13, <2>1, OwnerFrame DEF URPop, Goto, sig, que
<1>14. CASE URPoll
  <2>1. \A b \in Actors : pc'[b] \in Closing => pc'[b] = pc[b]
    BY <1>14, ContinuationNotClosing DEF URPoll, Goto, PollStale, TCtl, Closing
  <2>2. QED
    BY <1>14, <2>1, OwnerFrame DEF URPoll, Goto, PollStale, sig, que
<1>15. CASE UCClose
  <2>1. \A b \in Actors : pc'[b] \in Closing => pc'[b] = pc[b]
    BY <1>15, ContinuationNotClosing DEF UCClose, CallClose, TCtl, Closing
  <2>2. QED
    BY <1>15, <2>1, OwnerFrame DEF UCClose, CallClose, sig, que
<1>16. CASE SocketFails
  <2>1. \A b \in Actors : pc'[b] \in Closing => pc'[b] = pc[b]
    BY <1>16, ContinuationNotClosing DEF SocketFails, ctl, TCtl, Closing
  <2>2. QED
    BY <1>16, <2>1, OwnerFrame DEF SocketFails, ctl, sig, que
<1>17. CASE Terminated \/ UNCHANGED vars
  BY <1>17 DEF Terminated, vars, OwnerInv, DrainInv, sig, que, Closing, wrt, ctl, cnt
<1>18. QED
  BY <1>1, <1>2, <1>3, <1>4, <1>5, <1>6, <1>7, <1>8, <1>9, <1>10, <1>11, <1>12, <1>13, <1>14, <1>15, <1>16, <1>17 DEF Next, ReadLoopStep, UserStep

(* Init establishes ConservationInv: nothing is queued, pushed or closed. *)
LEMMA InitConservation == Init => ConservationInv
<1> SUFFICES ASSUME Init PROVE ConservationInv
  OBVIOUS
<1>1. TypeOK
  BY InitTypeOK
<1>2. PacketConservation /\ DrainInv
  BY DEF Init, PacketConservation, DrainInv
<1>3. OwnerInv
  BY DEF Init, OwnerInv, StartLabel, Closing
<1>4. QED
  BY <1>1, <1>2, <1>3, ConservationParts

(* Every step preserves ConservationInv.                                   *)
LEMMA NextConservation == ConservationInv /\ [Next]_vars => ConservationInv'
<1> SUFFICES ASSUME ConservationInv, [Next]_vars PROVE ConservationInv'
  OBVIOUS
<1>1. TypeOK /\ PacketConservation /\ DrainInv /\ OwnerInv
  BY ConservationParts
<1>2. TSig /\ TQue /\ TWrt /\ TCtl /\ TCnt
  BY <1>1, TypeParts DEF TParts
<1>3. TypeOK'
  BY <1>1, NextTypeOK
<1>4. PacketConservation' /\ DrainInv'
  BY <1>1, <1>2, NextQueue
<1>5. OwnerInv'
  BY <1>1, <1>2, NextOwner
<1>6. QED
  BY <1>3, <1>4, <1>5, ConservationParts

(* ConservationInv holds in every reachable state.                         *)
THEOREM ConservationInvariant == Spec => []ConservationInv
BY InitConservation, NextConservation, PTL DEF Spec

(* No packet that readLoop pushed onto c.incoming is lost or returned     *)
(* twice by ReadPacket, across any interleaving with close(): the packets *)
(* returned, then those still queued, then those moved to                  *)
(* c.stalePackets, are exactly the packets pushed, in order.               *)
THEOREM PacketsConserved == Spec => []PacketConservation
<1>1. ConservationInv => PacketConservation
  BY DEF ConservationInv
<1>2. QED
  BY <1>1, ConservationInvariant, PTL

=============================================================================

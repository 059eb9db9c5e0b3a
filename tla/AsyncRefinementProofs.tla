------------------------- MODULE AsyncRefinementProofs -------------------------
(***************************************************************************)
(* Async implements PacketChannel (ImplementsChannel) for every value of  *)
(* the constants.  Under the refinement mapping of Async, the channel's    *)
(* queue is c.incoming followed by c.stalePackets and its last received   *)
(* packet is the last one readLoop pushed.  A push by readLoop must be a  *)
(* Receive, so it must push the first user frame after the last one       *)
(* pushed: RLInv says that readLoop has read past no user frame it did    *)
(* not push while it still reads.  The queue side rests on DrainInv and   *)
(* OwnerInv of AsyncProofs.                                                *)
(***************************************************************************)
EXTENDS AsyncProofs

\* readLoop's control points between two reads: SetReadDeadline, Read and
\* the writePacket of a PONG.
RLAfter == {"rl_deadline", "rl_read", "wp_check", "wp_hdr", "wp_body",
            "wp_sig", "wp_send"}

\* readLoop has pushed every user frame it has read, except the frame it is
\* dispatching; the frames are pushed in the order read.
RLInv ==
  /\ LastPushed \in 0..rin
  /\ \A j \in (LastPushed + 1)..(rin - 1) : Inbound[j] # "user"
  /\ pc["readLoop"] \in RLAfter => (rin = LastPushed \/ Inbound[rin] # "user")
  /\ pc["readLoop"] = "rl_dispatch" => rin > LastPushed

\* A step that moves readLoop neither into its reading part nor into the
\* dispatch from elsewhere.
RLMove ==
  /\ pc'["readLoop"] \in RLAfter => pc["readLoop"] \in RLAfter
  /\ pc'["readLoop"] = "rl_dispatch" => pc["readLoop"] = "rl_dispatch"

\* A step that reads and pushes nothing and keeps readLoop's place.
RLKeep == rin' = rin /\ pushed' = pushed /\ RLMove

\* The continuations of writePacket and close lead out of readLoop's loop.
LEMMA ContinuationsLeave ==
  \A a \in Actors :
    /\ AfterWriteErr(a) \notin RLAfter \cup {"rl_dispatch"}
    /\ AfterClose(a) \notin RLAfter \cup {"rl_dispatch"}
    /\ AfterWriteOK(a) # "rl_dispatch"
BY DEF AfterWriteOK, AfterWriteErr, AfterClose, RLAfter

(* Such a step keeps RLInv.                                                *)
LEMMA RLFrame ==
  ASSUME TCnt, TQue, RLInv, RLKeep
  PROVE  RLInv'
BY DEF RLInv, RLKeep, RLMove, LastPushed

(* Init establishes RLInv: nothing is read or pushed.                      *)
LEMMA InitRL == Init => RLInv
BY DEF Init, RLInv, LastPushed, StartLabel, RLAfter, Actors, Loops, Users

(* Every step of Async keeps RLInv.                                        *)
LEMMA NextRL ==
  TSig /\ TQue /\ TWrt /\ TCtl /\ TCnt /\ RLInv /\ [Next]_vars => RLInv'
<1> SUFFICES ASSUME TSig, TQue, TWrt, TCtl, TCnt, RLInv, [Next]_vars
             PROVE  RLInv'
  OBVIOUS
<1> USE DEF RLKeep, RLMove, Actors, Loops, Users
<1>1. ASSUME NEW a \in Actors, CloseStep(a) \/ WriteStep(a) \/ LoopFail(a)
      PROVE  RLKeep
  <2>1. CASE CloseCAS(a)
    BY <2>1, ContinuationsLeave DEF CloseCAS, Goto, TCtl, RLAfter, que, cnt
  <2>2. CASE CloseSignal(a)
    BY <2>2 DEF CloseSignal, Goto, TCtl, RLAfter, cnt
  <2>3. CASE CloseWait(a)
    BY <2>3 DEF CloseWait, Goto, TCtl, RLAfter, cnt
  <2>4. CASE CloseFlush(a)
    BY <2>4 DEF CloseFlush, Goto, TCtl, RLAfter, que, cnt
  <2>5. CASE CloseStore(a)
    BY <2>5, ContinuationsLeave DEF CloseStore, Goto, TCtl, RLAfter, que, cnt
  <2>6. CASE WPCheck(a)
    BY <2>6, ContinuationsLeave DEF WPCheck, Goto, TCtl, RLAfter, que, cnt
  <2>7. CASE WPHeader(a)
    BY <2>7, ContinuationsLeave DEF WPHeader, WriteResult, CallClose, Goto, TCtl,
                                    RLAfter, que, cnt
  <2>8. CASE WPBody(a)
    BY <2>8, ContinuationsLeave DEF WPBody, WriteResult, CallClose, Goto, TCtl,
                                    RLAfter, que, cnt
  <2>9. CASE WPSignal(a)
    BY <2>9, ContinuationsLeave DEF WPSignal, Goto, TCtl, RLAfter, que, cnt
  <2>10. CASE WPSend(a)
    BY <2>10, ContinuationsLeave DEF WPSend, Goto, TCtl, RLAfter, que, cnt
  <2>11. CASE LoopFail(a)
    BY <2>11 DEF LoopFail, LoopExit, CallClose, TCtl, RLAfter, que
  <2>12. QED
    BY <1>1, <2>1, <2>2, <2>3, <2>4, <2>5, <2>6, <2>7, <2>8, <2>9, <2>10, <2>11
    DEF CloseStep, WriteStep
<1>2. CASE RLDeadline
  BY <1>2, RLFrame DEF RLDeadline, Goto, TCtl, RLAfter, que, cnt
<1>3. CASE RLReadFrame
  <2>1. pc["readLoop"] = "rl_read" /\ rin' = rin + 1 /\ pushed' = pushed
        /\ pc'["readLoop"] = "rl_dispatch"
    BY <1>3 DEF RLReadFrame, Goto, TCtl, que
  <2>2. rin = LastPushed \/ Inbound[rin] # "user"
    BY <2>1 DEF RLInv, RLAfter
  <2>3. LastPushed' = LastPushed /\ LastPushed \in 0..rin
    BY <2>1 DEF LastPushed, RLInv
  <2>4. \A j \in (LastPushed + 1)..rin : Inbound[j] # "user"
    BY <2>2, <2>3 DEF RLInv, TCnt
  <2>5. QED
    BY <2>1, <2>3, <2>4 DEF RLInv, TCnt, RLAfter
<1>4. CASE RLReadFail
  BY <1>4, RLFrame DEF RLReadFail, LoopExit, CallClose, TCtl, RLAfter, que
<1>5. CASE RLDispatchUser
  <2>1. CASE ~incomingClosed /\ Len(incoming) < IncomingCap
    <3>1. /\ pushed' = Append(pushed, rin) /\ rin' = rin
          /\ pc'["readLoop"] = "rl_deadline"
      BY <1>5, <2>1, ConstantsAssumption
      DEF RLDispatchUser, LoopExit, CallClose, Goto, TCtl, TQue
    <3>2. rin \in Nat /\ pushed \in Seq(Nat)
      BY ConstantsAssumption DEF TCnt, TQue
    <3>3. Append(pushed, rin) # <<>>
          /\ Append(pushed, rin)[Len(Append(pushed, rin))] = rin
      BY <3>2, AppendProperties
    <3>4. LastPushed' = rin
      BY <3>1, <3>3 DEF LastPushed
    <3>5. QED
      BY <3>1, <3>4, ConstantsAssumption DEF RLInv, TCnt, RLAfter
  <2>2. CASE incomingClosed \/ Len(incoming) >= IncomingCap
    <3>1. RLKeep
      BY <1>5, <2>2, ConstantsAssumption
      DEF RLDispatchUser, LoopExit, CallClose, TCtl, TQue, RLAfter
    <3>2. QED
      BY <3>1, RLFrame
  <2>3. QED
    BY <2>1, <2>2, ConstantsAssumption DEF TQue
<1>6. CASE RLDispatchPing
  <2>1. /\ Inbound[rin] # "user" /\ rin' = rin /\ pushed' = pushed
        /\ pc["readLoop"] = "rl_dispatch" /\ pc'["readLoop"] = "wp_check"
    BY <1>6 DEF RLDispatchPing, Goto, TCtl, que, cnt
  <2>2. QED
    BY <2>1 DEF RLInv, LastPushed, RLAfter
<1>7. CASE RLDispatchPong
  <2>1. /\ Inbound[rin] # "user" /\ rin' = rin /\ pushed' = pushed
        /\ pc["readLoop"] = "rl_dispatch" /\ pc'["readLoop"] = "rl_deadline"
    BY <1>7 DEF RLDispatchPong, Goto, TCtl, que, cnt
  <2>2. QED
    BY <2>1 DEF RLInv, LastPushed, RLAfter
<1>8. CASE FLRecv
  BY <1>8, RLFrame DEF FLRecv, Goto, TCtl, RLAfter, que
<1>9. CASE FLFlush
  BY <1>9, RLFrame DEF FLFlush, Goto, LoopExit, CallClose, TCtl, RLAfter, que
<1>10. CASE PLWait
  BY <1>10, RLFrame DEF PLWait, Goto, TCtl, RLAfter, que
<1>11. CASE UWWrite
  BY <1>11, RLFrame DEF UWWrite, Goto, TCtl, RLAfter, que
<1>12. CASE URRead
  BY <1>12, RLFrame DEF URRead, PollStale, Goto, TCtl, RLAfter, cnt
<1>13. CASE URPop
  BY <1>13, RLFrame DEF URPop, Goto, TCtl, RLAfter, cnt
<1>14. CASE URPoll
  BY <1>14, RLFrame DEF URPoll, PollStale, Goto, TCtl, RLAfter, cnt
<1>15. CASE UCClose
  BY <1>15, RLFrame DEF UCClose, CallClose, TCtl, RLAfter, que, cnt
<1>16. CASE SocketFails
  BY <1>16, RLFrame DEF SocketFails, ctl, que, cnt
<1>17. CASE Terminated \/ UNCHANGED vars
  BY <1>17, RLFrame DEF Terminated, vars, sig, que, wrt, ctl, cnt
<1>18. QED
  BY <1>1, <1>2, <1>3, <1>4, <1>5, <1>6, <1>7, <1>8, <1>9, <1>10, <1>11, <1>12,
     <1>13, <1>14, <1>15, <1>16, <1>17, RLFrame
  DEF Next, ReadLoopStep, UserStep

-----------------------------------------------------------------------------
(* The steps of Async as steps of PacketChannel.                           *)

\* A step of the channel or a stutter of its state, under the mapping.
ChanStep == [Channel!Next]_Channel!chanVars

(* A step that changes no queue, history or close flag of c.incoming is a *)
(* stutter of the channel.                                                 *)
LEMMA QueStutter ==
  ASSUME UNCHANGED <<incoming, stalePackets, delivered, pushed, incomingClosed>>
  PROVE  ChanStep
BY DEF ChanStep, Channel!chanVars, LastPushed

(* ReadPacket's poll of c.stalePackets delivers the head of the channel,  *)
(* or nothing.                                                             *)
LEMMA PollStaleChannel ==
  ASSUME TQue, DrainInv, PollStale,
         UNCHANGED <<incoming, incomingClosed, pushed>>
  PROVE  ChanStep
<1>1. CASE stalePackets # <<>>
  <2>1. incoming = <<>>
    BY <1>1 DEF DrainInv
  <2>2. Tail(stalePackets) \in Seq(Nat)
    BY <1>1, HeadTailProperties DEF TQue
  <2>3. /\ delivered' = Append(delivered, Head(stalePackets))
        /\ stalePackets' = Tail(stalePackets)
    BY <1>1 DEF PollStale
  <2>4. /\ incoming \o stalePackets = stalePackets
        /\ incoming' \o stalePackets' = Tail(stalePackets)
    BY <2>1, <2>2, <2>3, ConcatEmptySeq DEF TQue
  <2>5. Channel!Deliver
    BY <1>1, <2>3, <2>4 DEF Channel!Deliver, LastPushed
  <2>6. QED
    BY <2>5 DEF ChanStep, Channel!Next
<1>2. CASE stalePackets = <<>>
  BY <1>2, QueStutter DEF PollStale
<1>3. QED
  BY <1>1, <1>2

(* Every step of Async is a step of PacketChannel or a stutter.            *)
LEMMA NextChannel ==
  TSig /\ TQue /\ TWrt /\ TCtl /\ TCnt /\ DrainInv /\ OwnerInv /\ RLInv
    /\ [Next]_vars => ChanStep
<1> SUFFICES ASSUME TSig, TQue, TWrt, TCtl, TCnt, DrainInv, OwnerInv, RLInv,
                    [Next]_vars
             PROVE  ChanStep
  OBVIOUS
<1>1. ASSUME NEW a \in Actors, CloseStep(a) \/ WriteStep(a) \/ LoopFail(a)
      PROVE  ChanStep
  <2>1. CASE CloseCAS(a)
    BY <2>1, QueStutter DEF CloseCAS, que
  <2>2. CASE CloseSignal(a)
    <3>1. /\ incomingClosed' = TRUE
          /\ UNCHANGED <<incoming, stalePackets, delivered, pushed>>
      BY <2>2 DEF CloseSignal
    <3>2. CASE incomingClosed
      BY <3>1, <3>2, QueStutter DEF TQue
    <3>3. CASE ~incomingClosed
      <4>1. Channel!Close
        BY <3>1, <3>3 DEF Channel!Close, LastPushed
      <4>2. QED
        BY <4>1 DEF ChanStep, Channel!Next
    <3>4. QED
      BY <3>2, <3>3
  <2>3. CASE CloseWait(a)
    <3>1. ~drained
      BY <2>3 DEF CloseWait, OwnerInv, Closing
    <3>2. stalePackets = <<>>
      BY <3>1 DEF DrainInv
    <3>3. /\ stalePackets' = incoming /\ incoming' = <<>>
          /\ UNCHANGED <<delivered, pushed, incomingClosed>>
      BY <2>3 DEF CloseWait
    <3>4. incoming' \o stalePackets' = incoming \o stalePackets
      BY <3>2, <3>3, ConcatEmptySeq DEF TQue
    <3>5. QED
      BY <3>3, <3>4 DEF ChanStep, Channel!chanVars, LastPushed
  <2>4. CASE CloseFlush(a)
    BY <2>4, QueStutter DEF CloseFlush, que
  <2>5. CASE CloseStore(a)
    BY <2>5, QueStutter DEF CloseStore, que
  <2>6. CASE WPCheck(a)
    BY <2>6, QueStutter DEF WPCheck, que
  <2>7. CASE WPHeader(a)
    BY <2>7, QueStutter DEF WPHeader, que
  <2>8. CASE WPBody(a)
    BY <2>8, QueStutter DEF WPBody, que
  <2>9. CASE WPSignal(a)
    BY <2>9, QueStutter DEF WPSignal, que
  <2>10. CASE WPSend(a)
    BY <2>10, QueStutter DEF WPSend, que
  <2>11. CASE LoopFail(a)
    BY <2>11, QueStutter DEF LoopFail, que
  <2>12. QED
    BY <1>1, <2>1, <2>2, <2>3, <2>4, <2>5, <2>6, <2>7, <2>8, <2>9, <2>10, <2>11
    DEF CloseStep, WriteStep
<1>2. CASE RLDispatchUser
  <2>1. CASE ~incomingClosed /\ Len(incoming) < IncomingCap
    <3>1. /\ incoming' = Append(incoming, rin) /\ pushed' = Append(pushed, rin)
          /\ UNCHANGED <<stalePackets, delivered, incomingClosed>>
          /\ pc["readLoop"] = "rl_dispatch" /\ Inbound[rin] = "user"
      BY <1>2, <2>1, ConstantsAssumption DEF RLDispatchUser, LoopExit, TQue
    <3>2. stalePackets = <<>>
      BY <2>1 DEF DrainInv
    <3>3. rin \in 1..Len(Inbound) /\ rin > LastPushed
      BY <3>1 DEF RLInv, TCnt
    <3>4. /\ Append(incoming, rin) \in Seq(Nat)
          /\ Append(pushed, rin) # <<>>
          /\ Append(pushed, rin)[Len(Append(pushed, rin))] = rin
      <4>1. rin \in Nat /\ incoming \in Seq(Nat) /\ pushed \in Seq(Nat)
        BY <3>3 DEF TQue
      <4>2. Append(incoming, rin) \in Seq(Nat)
        BY <4>1, AppendProperties
      <4>3. /\ Append(pushed, rin) # <<>>
            /\ Len(Append(pushed, rin)) = Len(pushed) + 1
            /\ Append(pushed, rin)[Len(pushed) + 1] = rin
        BY <4>1, AppendProperties
      <4>4. QED
        BY <4>2, <4>3
    <3>5. /\ incoming' \o stalePackets' = Append(incoming \o stalePackets, rin)
          /\ LastPushed' = rin
      BY <3>1, <3>2, <3>4, ConcatEmptySeq DEF TQue, LastPushed
    <3>6. Channel!NextUser(LastPushed, rin)
      BY <3>1, <3>3 DEF Channel!NextUser, RLInv
    <3>7. Channel!Receive
      BY <2>1, <3>1, <3>3, <3>5, <3>6 DEF Channel!Receive
    <3>8. QED
      BY <3>7 DEF ChanStep, Channel!Next
  <2>2. CASE incomingClosed \/ Len(incoming) >= IncomingCap
    BY <1>2, <2>2, QueStutter, ConstantsAssumption DEF RLDispatchUser, TQue
  <2>3. QED
    BY <2>1, <2>2, ConstantsAssumption DEF TQue
<1>3. CASE URRead
  <2>1. CASE closed
    BY <1>3, <2>1, PollStaleChannel DEF URRead
  <2>2. CASE ~closed
    BY <1>3, <2>2, QueStutter DEF URRead
  <2>3. QED
    BY <2>1, <2>2
<1>4. CASE URPop
  <2>1. CASE ~incomingClosed /\ incoming # <<>>
    <3>1. /\ delivered' = Append(delivered, Head(incoming))
          /\ incoming' = Tail(incoming)
          /\ UNCHANGED <<stalePackets, pushed, incomingClosed>>
      BY <1>4, <2>1 DEF URPop
    <3>2. stalePackets = <<>>
      BY <2>1 DEF DrainInv
    <3>3. Tail(incoming) \in Seq(Nat)
      BY <2>1, HeadTailProperties DEF TQue
    <3>4. /\ incoming \o stalePackets = incoming
          /\ incoming' \o stalePackets' = Tail(incoming)
      BY <3>1, <3>2, <3>3, ConcatEmptySeq DEF TQue
    <3>5. Channel!Deliver
      BY <2>1, <3>1, <3>4 DEF Channel!Deliver, LastPushed
    <3>6. QED
      BY <3>5 DEF ChanStep, Channel!Next
  <2>2. CASE incomingClosed
    BY <1>4, <2>2, QueStutter DEF URPop
  <2>3. QED
    BY <1>4, <2>1, <2>2 DEF URPop
<1>5. CASE URPoll
  BY <1>5, PollStaleChannel DEF URPoll
<1>6. CASE RLDeadline \/ RLReadFrame \/ RLReadFail \/ RLDispatchPing
           \/ RLDispatchPong
  BY <1>6, QueStutter
  DEF RLDeadline, RLReadFrame, RLReadFail, RLDispatchPing, RLDispatchPong, que
<1>7. CASE FLRecv \/ FLFlush \/ PLWait \/ UWWrite \/ UCClose \/ SocketFails
  BY <1>7, QueStutter DEF FLRecv, FLFlush, PLWait, UWWrite, UCClose, SocketFails, que
<1>8. CASE Terminated \/ UNCHANGED vars
  BY <1>8, QueStutter DEF Terminated, vars, que
<1>9. QED
  BY <1>1, <1>2, <1>3, <1>4, <1>5, <1>6, <1>7, <1>8
  DEF Next, ReadLoopStep, UserStep


-----------------------------------------------------------------------------
(* The invariants hold together in every reachable state.                  *)
LEMMA RefinementInvariant == Spec => [](ConservationInv /\ RLInv)
<1>1. Init => ConservationInv /\ RLInv
  BY InitConservation, InitRL
<1>2. ConservationInv /\ RLInv /\ [Next]_vars => ConservationInv' /\ RLInv'
  <2> SUFFICES ASSUME ConservationInv, RLInv, [Next]_vars
               PROVE  ConservationInv' /\ RLInv'
    OBVIOUS
  <2>1. TSig /\ TQue /\ TWrt /\ TCtl /\ TCnt
    BY ConservationParts, TypeParts DEF TParts
  <2>2. QED
    BY <2>1, NextConservation, NextRL
<1>3. QED
  BY <1>1, <1>2, PTL DEF Spec

(***************************************************************************)
(* Async implements the packet channel (spec 4.4, 4.6, 7), for every      *)
(* instance: every packet ReadPacket returns, before or after close(), is *)
(* the next user frame the peer sent that readLoop queued, none skipped   *)
(* while c.incoming is open and none queued once it is closed; readLoop's *)
(* Push (async.go:536), Pop in ReadPacket (196-209), close()'s Drain into *)
(* c.stalePackets (373) and Poll (198-204) are each a step of the channel *)
(* or leave it alone.                                                      *)
(***************************************************************************)
THEOREM ChannelRefinement == Spec => ImplementsChannel
<1>1. Init => Channel!Init
  BY DEF Init, Channel!Init, LastPushed
<1>2. ConservationInv /\ RLInv /\ [Next]_vars => ChanStep
  <2> SUFFICES ASSUME ConservationInv, RLInv, [Next]_vars PROVE ChanStep
    OBVIOUS
  <2>1. TSig /\ TQue /\ TWrt /\ TCtl /\ TCnt /\ DrainInv /\ OwnerInv
    BY ConservationParts, TypeParts DEF TParts
  <2>2. QED
    BY <2>1, NextChannel
<1>3. QED
  BY <1>1, <1>2, RefinementInvariant, PTL
  DEF Spec, ImplementsChannel, Channel!Spec, ChanStep

=============================================================================

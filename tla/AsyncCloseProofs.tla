--------------------------- MODULE AsyncCloseProofs ---------------------------
(***************************************************************************)
(* c.error is stored at most once (ErrorStoredOnce), for every value of   *)
(* the constants.  closeWithError stores its error only when its close()  *)
(* won the CAS on c.closed (async.go:359, 388-392); StoreInv says that at *)
(* most one goroutine is past that CAS inside close(), and that c.error    *)
(* is still unset while it is.                                             *)
(***************************************************************************)
EXTENDS AsyncProofs

\* The control points of close() and closeWithError after a won CAS.
ClosePhase == {"c_sig", "c_wait", "c_flush", "c_store"}

\* Nothing is stored before the CAS is won; the winner is alone past it and
\* stores (if it has an error) as its last step there.
StoreInv ==
  /\ ~closed => error = "none"
  /\ \A a \in Actors :
       pc[a] \in ClosePhase =>
         /\ closed /\ error = "none"
         /\ \A b \in Actors \ {a} : pc[b] \notin ClosePhase

\* A step that stores nothing, reopens nothing and moves nobody into
\* close() past the CAS.
StoreKeep ==
  /\ closed' = closed /\ error' = error
  /\ \A b \in Actors : pc'[b] \in ClosePhase => pc[b] \in ClosePhase

\* The continuations of writePacket and close lead out of close().
LEMMA ContinuationsOutside ==
  \A a \in Actors :
    /\ AfterWriteOK(a) \notin ClosePhase
    /\ AfterWriteErr(a) \notin ClosePhase
    /\ AfterClose(a) \notin ClosePhase
BY DEF AfterWriteOK, AfterWriteErr, AfterClose, ClosePhase

(* Such a step keeps StoreInv and c.error.                                 *)
LEMMA StoreFrame ==
  ASSUME StoreInv, StoreKeep
  PROVE  StoreInv' /\ error' = error
BY DEF StoreInv, StoreKeep

(* Init establishes StoreInv: the connection is open, no error stored.    *)
LEMMA InitStore == Init => StoreInv
BY DEF Init, StoreInv, StartLabel, ClosePhase, Actors, Loops, Users


(* Every step of Async keeps StoreInv, and changes c.error only while it   *)
(* is unset.                                                               *)
LEMMA NextStore ==
  TCtl /\ StoreInv /\ [Next]_vars => StoreInv' /\ (error # "none" => error' = error)
<1> SUFFICES ASSUME TCtl, StoreInv, [Next]_vars
             PROVE  StoreInv' /\ (error # "none" => error' = error)
  OBVIOUS
<1> USE DEF Actors, Loops, Users
<1>1. ASSUME NEW a \in Actors, CloseCAS(a)
      PROVE  StoreInv' /\ error' = error
  <2>1. CASE closed
    <3>1. StoreKeep
      BY <1>1, <2>1, ContinuationsOutside DEF CloseCAS, Goto, StoreKeep, TCtl
    <3>2. QED
      BY <3>1, StoreFrame
  <2>2. CASE ~closed
    <3>1. /\ closed' = TRUE /\ error' = error /\ error = "none"
          /\ pc' = [pc EXCEPT ![a] = "c_sig"]
      BY <1>1, <2>2 DEF CloseCAS, Goto, StoreInv
    <3>2. \A b \in Actors : pc[b] \notin ClosePhase
      BY <2>2 DEF StoreInv
    <3>3. QED
      BY <3>1, <3>2 DEF StoreInv, ClosePhase, TCtl
  <2>3. QED
    BY <2>1, <2>2
<1>2. ASSUME NEW a \in Actors, CloseSignal(a) \/ CloseWait(a) \/ CloseFlush(a)
      PROVE  StoreInv' /\ error' = error
  <2>1. StoreKeep
    BY <1>2 DEF CloseSignal, CloseWait, CloseFlush, Goto, StoreKeep, ClosePhase,
               TCtl, sig
  <2>2. QED
    BY <2>1, StoreFrame
<1>3. ASSUME NEW a \in Actors, CloseStore(a)
      PROVE  StoreInv' /\ error = "none"
  <2>1. /\ pc[a] = "c_store" /\ closed' = closed /\ closed /\ error = "none"
        /\ pc' = [pc EXCEPT ![a] = AfterClose(a)]
        /\ \A b \in Actors \ {a} : pc[b] \notin ClosePhase
    BY <1>3 DEF CloseStore, Goto, StoreInv, ClosePhase
  <2>2. \A b \in Actors : pc'[b] \notin ClosePhase
    BY <2>1, ContinuationsOutside DEF TCtl
  <2>3. QED
    BY <2>1, <2>2 DEF StoreInv
<1>4. ASSUME NEW a \in Actors, WriteStep(a) \/ LoopFail(a)
      PROVE  StoreKeep
  <2>1. CASE WPCheck(a)
    BY <2>1, ContinuationsOutside DEF WPCheck, Goto, StoreKeep, ClosePhase, TCtl,
                                      sig
  <2>2. CASE WPHeader(a)
    BY <2>2, ContinuationsOutside DEF WPHeader, WriteResult, CallClose, Goto,
                                      StoreKeep, ClosePhase, TCtl, sig
  <2>3. CASE WPBody(a)
    BY <2>3, ContinuationsOutside DEF WPBody, WriteResult, CallClose, Goto,
                                      StoreKeep, ClosePhase, TCtl, sig
  <2>4. CASE WPSignal(a)
    BY <2>4, ContinuationsOutside DEF WPSignal, Goto, StoreKeep, ClosePhase,
                                      TCtl, sig
  <2>5. CASE WPSend(a)
    BY <2>5, ContinuationsOutside DEF WPSend, Goto, StoreKeep, ClosePhase, TCtl,
                                      sig
  <2>6. CASE LoopFail(a)
    BY <2>6 DEF LoopFail, LoopExit, CallClose, StoreKeep, ClosePhase, TCtl, sig
  <2>7. QED
    BY <1>4, <2>1, <2>2, <2>3, <2>4, <2>5, <2>6 DEF WriteStep
<1>5. CASE ReadLoopStep
  <2>1. StoreKeep
    BY <1>5 DEF ReadLoopStep, RLDeadline, RLReadFrame, RLReadFail,
                RLDispatchUser, RLDispatchPing, RLDispatchPong, LoopExit,
                CallClose, Goto, StoreKeep, ClosePhase, TCtl, sig
  <2>2. QED
    BY <2>1, StoreFrame
<1>6. CASE FLRecv \/ FLFlush \/ PLWait \/ SocketFails
  <2>1. StoreKeep
    BY <1>6 DEF FLRecv, FLFlush, PLWait, SocketFails, LoopExit, CallClose,
                Goto, StoreKeep, ClosePhase, TCtl, sig, ctl
  <2>2. QED
    BY <2>1, StoreFrame
<1>7. CASE UserStep
  <2>1. StoreKeep
    BY <1>7 DEF UserStep, UWWrite, URRead, URPop, URPoll, UCClose, PollStale,
                CallClose, Goto, StoreKeep, ClosePhase, TCtl, sig
  <2>2. QED
    BY <2>1, StoreFrame
<1>8. CASE Terminated \/ UNCHANGED vars
  <2>1. StoreKeep
    BY <1>8 DEF Terminated, vars, sig, ctl, StoreKeep
  <2>2. QED
    BY <2>1, StoreFrame
<1>9. QED
  BY <1>1, <1>2, <1>3, <1>4, <1>5, <1>6, <1>7, <1>8, StoreFrame
  DEF Next, CloseStep

(***************************************************************************)
(* ErrorStoredOnce for every instance: once closeWithError has stored an  *)
(* error, no later step of any goroutine changes it, however many of them *)
(* call closeWithError (async.go:388-392) at once.                         *)
(***************************************************************************)
THEOREM ErrorWrittenOnce == Spec => ErrorStoredOnce
<1>1. TypeOK /\ StoreInv /\ [Next]_vars
        => StoreInv' /\ [error # "none" => error' = error]_vars
  BY NextStore, TypeParts DEF TParts
<1>. QED
  BY <1>1, InitStore, TypeCorrect, PTL DEF Spec, ErrorStoredOnce

=============================================================================

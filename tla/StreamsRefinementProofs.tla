----------------------- MODULE StreamsRefinementProofs -----------------------
(***************************************************************************)
(* Streams implements the atomic registry StreamRegistry            *)
(* (ImplementsRegistry) for every set of ids and every inbound sequence.  *)
(* Under RegView, readLoop's stream.close() (async.go:546) is the          *)
(* registry's CloseStream and its Remove (547) a stutter; readLoop's and *)
(* NewStream's Create are the registry's Create; CloseAll is CloseAll.     *)
(* It rests on IParts of StreamsProofs: the Stream readLoop closes is the *)
(* one registered for the frame's id, so a NewStream between 546 and 547 *)
(* finds that id taken and creates nothing for it, and CloseAll runs only *)
(* once readLoop is done.                                                  *)
(***************************************************************************)
EXTENDS StreamsProofs

\* A step of the registry, or one that leaves it alone.
RegStep == [Registry!Next]_Registry!regVars

\* The abstract registry's theorems, about the registry Streams implements.
RP == INSTANCE StreamRegistryProofs
        WITH reg <- RegView, made <- sid, closed <- sclosed, shut <- closedAll

(* A step that keeps d, sid, sclosed and closedAll and moves readLoop     *)
(* neither into nor out of its Remove is a registry stutter.               *)
LEMMA RegStutter ==
    ASSUME UNCHANGED <<d, sid, sclosed, closedAll>>,
           rl'.pc = "remove" <=> rl.pc = "remove",
           rl.pc = "remove" => rl'.pos = rl.pos
    PROVE  RegStep
BY DEF RegStep, Registry!regVars, RegView

(* Init maps to the registry's Init.                                       *)
LEMMA InitRefines == Init => Registry!Init
BY DEF Init, Registry!Init, RegView, NoStream, Registry!NoStream

(* CloseStream: the sentinel closes the Stream registered for its id.     *)
LEMMA RLCloseStreamRefines ==
    ASSUME IParts, RLCloseStream
    PROVE  RegStep
<1>. DEFINE id == Inbound[rl.pos].id
<1>1. /\ rl.pc = "route" /\ rl.pos \in 1..Len(Inbound)
      /\ rl.stream # NoStream /\ d[id] = rl.stream /\ ~closedAll
  BY DEF RLCloseStream, IParts, TypeOK, RRL
<1>2. id \in Ids
  BY <1>1, FrameFields
<1>3. RegView = d /\ RegView' = [d EXCEPT ![id] = NoStream]
  BY <1>1 DEF RLCloseStream, RegView
<1>4. Registry!CloseStream(id)
  BY <1>1, <1>3 DEF RLCloseStream, Registry!CloseStream, NoStream,
                    Registry!NoStream
<1>. QED
  BY <1>2, <1>4 DEF RegStep, Registry!Next

(* Remove (547) only catches d up with RegView.                            *)
LEMMA RLRemoveRefines ==
    ASSUME IParts, RLRemove
    PROVE  RegStep
<1>1. rl.pc = "remove" /\ rl'.pc = "next"
  BY DEF RLRemove, NextFrame, IParts, TypeOK
<1>2. RegView = d' /\ RegView' = d'
  BY <1>1 DEF RLRemove, RegView
<1>. QED
  BY <1>2 DEF RLRemove, RegStep, Registry!regVars

(* readLoop's Create (559) is the registry's Create.                        *)
LEMMA RLCreateRefines ==
    ASSUME IParts, RLCreate
    PROVE  RegStep
<1>. DEFINE id == Inbound[rl.pos].id
<1>1. rl.pc = "route" /\ rl'.pc = "next" /\ rl.pos \in 1..Len(Inbound)
  BY DEF RLCreate, NextFrame, IParts, TypeOK, RRL
<1>2. id \in Ids
  BY <1>1, FrameFields
<1>3. RegView = d /\ RegView' = d'
  BY <1>1 DEF RegView
<1>4. Registry!Create(id)
  BY <1>3 DEF RLCreate, CreateFor, Registry!Create
<1>. QED
  BY <1>2, <1>4 DEF RegStep, Registry!Next

(* NewStream creates only for an empty id, which is never the id whose    *)
(* Remove is pending, so the registry's Create is the same either side of *)
(* that Remove.                                                            *)
LEMMA UNewStreamRefines ==
    ASSUME IParts, NEW id \in Ids, UNewStream(id)
    PROVE  RegStep
<1>1. CASE d[id] # NoStream
  BY <1>1, RegStutter DEF UNewStream
<1>2. CASE d[id] = NoStream
  <2>1. CreateFor(id) /\ rl' = rl /\ UNCHANGED <<sclosed, closedAll>>
    BY <1>2 DEF UNewStream
  <2>2. CASE rl.pc # "remove"
    <3>1. RegView = d /\ RegView' = d'
      BY <2>1, <2>2 DEF RegView
    <3>2. Registry!Create(id)
      BY <2>1, <3>1 DEF CreateFor, Registry!Create
    <3>. QED
      BY <3>2 DEF RegStep, Registry!Next
  <2>3. CASE rl.pc = "remove"
    <3>. DEFINE pid == Inbound[rl.pos].id
    <3>1. rl.pos \in 1..Len(Inbound) /\ d[pid] # NoStream
      BY <2>3 DEF IParts, RRL, TypeOK
    <3>2. pid \in Ids /\ pid # id
      BY <1>2, <3>1, FrameFields
    <3>3. /\ RegView = [d EXCEPT ![pid] = NoStream]
          /\ RegView' = [d' EXCEPT ![pid] = NoStream]
      BY <2>1, <2>3 DEF RegView
    <3>4. d \in [Ids -> Streams \cup {NoStream}]
      BY DEF IParts, TypeOK
    <3>5. RegView' = [RegView EXCEPT ![id] = Len(sid) + 1]
      BY <2>1, <3>2, <3>3, <3>4 DEF CreateFor
    <3>6. Registry!Create(id)
      BY <2>1, <3>5 DEF CreateFor, Registry!Create
    <3>. QED
      BY <3>6 DEF RegStep, Registry!Next
  <2>. QED
    BY <2>2, <2>3
<1>. QED
  BY <1>1, <1>2

(* close()'s CloseAll runs after readLoop is done, on d itself.           *)
LEMMA CloseAllRefines ==
    ASSUME IParts, CloseAll
    PROVE  RegStep
<1>1. RegView = d /\ RegView' = d
  BY DEF CloseAll, RegView
<1>2. Registry!Registered = Registered
  BY <1>1 DEF Registry!Registered, Registered, NoStream, Registry!NoStream
<1>3. Registry!CloseAll
  BY <1>1, <1>2 DEF CloseAll, Registry!CloseAll
<1>. QED
  BY <1>3 DEF RegStep, Registry!Next

(* Every step of Streams is a step of the registry or a stutter of it.    *)
LEMMA NextRefines == IParts /\ [Next]_vars => RegStep
<1>. SUFFICES ASSUME IParts, [Next]_vars PROVE RegStep
  OBVIOUS
<1>1. CASE RLGet
  BY <1>1, RegStutter DEF RLGet
<1>2. CASE RLCloseStream
  BY <1>2, RLCloseStreamRefines
<1>3. CASE RLRemove
  BY <1>3, RLRemoveRefines
<1>4. CASE RLDrop \/ RLPush
  <2>1. rl.pc = "route" /\ rl'.pc = "next"
    BY <1>4 DEF RLDrop, RLPush, NextFrame, IParts, TypeOK
  <2>. QED
    BY <1>4, <2>1, RegStutter DEF RLDrop, RLPush
<1>5. CASE RLCreate
  BY <1>5, RLCreateRefines
<1>6. CASE RLExit \/ RLPushFail
  <2>1. rl.pc \in {"next", "route"} /\ rl'.pc = "done"
    BY <1>6 DEF RLExit, RLPushFail, IParts, TypeOK
  <2>. QED
    BY <1>6, <2>1, RegStutter DEF RLExit, RLPushFail
<1>7. CASE \E id \in Ids : UNewStream(id)
  BY <1>7, UNewStreamRefines
<1>8. CASE (\E h \in BOOLEAN : USetHandler(h)) \/ UClose
  BY <1>8, RegStutter DEF USetHandler, UClose
<1>9. CASE CloseAll
  BY <1>9, CloseAllRefines
<1>10. CASE Finished \/ UNCHANGED vars
  BY <1>10, RegStutter DEF Finished, vars
<1>. QED
  BY <1>1, <1>2, <1>3, <1>4, <1>5, <1>6, <1>7, <1>8, <1>9, <1>10
  DEF Next, ReadLoop, User

(***************************************************************************)
(* readLoop's STREAM case, NewStream and close() implement the atomic     *)
(* registry (ImplementsRegistry): the two steps of a close sentinel (546, *)
(* 547) act on the registry as one, whatever NewStream does between them. *)
(***************************************************************************)
THEOREM StreamsRefinement == Spec => ImplementsRegistry
<1>1. Init => Registry!Init
  BY InitRefines
<1>2. IParts /\ [Next]_vars => RegStep
  BY NextRefines
<1>. QED
  BY <1>1, <1>2, InitInv, NextInv, PTL
  DEF Spec, ImplementsRegistry, Registry!Spec, RegStep

(***************************************************************************)
(* As the connection sees the registry, it holds no closed Stream while   *)
(* the connection is open, not even between readLoop's stream.close()     *)
(* (546) and its Remove (547): the registry's invariant, carried over by  *)
(* the refinement.                                                          *)
(***************************************************************************)
THEOREM ViewOnlyOpen == Spec => []Registry!OnlyOpenRegistered
<1>1. Init => RP!RInv
  <2>1. Init => RP!Init
    BY DEF Init, RP!Init, RegView, NoStream, RP!NoStream
  <2>. QED
    BY <2>1, RP!InitRInv
<1>2. RP!RInv /\ IParts /\ [Next]_vars => RP!RInv'
  <2>1. RegStep => [RP!Next]_RP!regVars
    BY DEF RegStep, Registry!Next, RP!Next, Registry!regVars, RP!regVars,
           Registry!Create, RP!Create, Registry!CloseStream, RP!CloseStream,
           Registry!CloseAll, RP!CloseAll, Registry!Registered, RP!Registered,
           Registry!NoStream, RP!NoStream
  <2>. QED
    BY <2>1, NextRefines, RP!NextRInv
<1>3. RP!RInv => Registry!OnlyOpenRegistered
  BY DEF RP!RInv, RP!OnlyOpenRegistered, Registry!OnlyOpenRegistered,
         RP!Registered, Registry!Registered, RP!NoStream, Registry!NoStream
<1>. QED
  BY <1>1, <1>2, <1>3, InitInv, NextInv, PTL DEF Spec

=============================================================================

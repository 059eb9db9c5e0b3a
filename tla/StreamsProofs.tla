---------------------------- MODULE StreamsProofs ----------------------------
(***************************************************************************)
(* Proofs about the stream registry (Streams.tla): RegistryInv is          *)
(* inductive, so every reachable state is well typed and, while the        *)
(* connection is open, holds no closed stream between two frames.          *)
(***************************************************************************)
EXTENDS Streams, SequenceTheorems, TLAPS

\* The conjuncts of RegistryInv after TypeOK, each with a name of its own;
\* the last is RegistryInv's with Registered written out per id.
RInj == \A i \in Ids : d[i] # NoStream => sid[d[i]] = i

RRL ==
    /\ rl.pc = "next" => rl.stream = NoStream
    /\ rl.pc \in {"route", "remove"} =>
          /\ rl.pos <= Len(Inbound)
          /\ rl.stream # NoStream => d[Inbound[rl.pos].id] = rl.stream
    /\ rl.pc = "remove" => rl.stream # NoStream
    /\ closedAll => rl.pc = "done"

ROpen ==
    ~closedAll =>
        \A i \in Ids : d[i] # NoStream /\ d[i] \in sclosed =>
            rl.pc = "remove" /\ d[i] = rl.stream

IParts == TypeOK /\ RInj /\ RRL /\ ROpen

\* A frame the peer sent names an id in use.
LEMMA FrameFields ==
    ASSUME NEW p \in 1..Len(Inbound)
    PROVE  Inbound[p].id \in Ids /\ Inbound[p].content \in BOOLEAN
<1>1. Inbound[p] \in [id : Ids, content : BOOLEAN]
  BY StreamsAssumption, ElementOfSeq
<1>. QED
  BY <1>1

\* RegistryInv is the conjunction of the parts.
LEMMA InvParts == RegistryInv <=> IParts
<1>1. TypeOK => (RegistryInv <=> IParts)
  <2>. SUFFICES ASSUME TypeOK
               PROVE  (Registered \cap sclosed \subseteq
                         IF rl.pc = "remove" THEN {rl.stream} ELSE {})
                      <=> \A i \in Ids : d[i] # NoStream /\ d[i] \in sclosed =>
                              rl.pc = "remove" /\ d[i] = rl.stream
    BY DEF RegistryInv, IParts, ROpen, RInj, RRL
  <2>. QED
    BY DEF Registered
<1>. QED
  BY <1>1 DEF RegistryInv, IParts

\* newStream's effect on the registry and on the ids of the Streams
\* (part_000:41-49).
LEMMA CreateForProps ==
    ASSUME TypeOK, NEW id \in Ids, CreateFor(id)
    PROVE  /\ sid' \in Seq(Ids)
           /\ Len(sid') = Len(sid) + 1
           /\ sid'[Len(sid) + 1] = id
           /\ \A s \in Streams : sid'[s] = sid[s]
           /\ Streams \subseteq 1..Len(sid')
           /\ Len(sid) + 1 \notin Streams
           /\ d' = [d EXCEPT ![id] = Len(sid) + 1]
<1>1. sid \in Seq(Ids)
  BY DEF TypeOK
<1>2. /\ Append(sid, id) \in Seq(Ids)
      /\ Len(Append(sid, id)) = Len(sid) + 1
      /\ \A s \in 1..Len(sid) : Append(sid, id)[s] = sid[s]
      /\ Append(sid, id)[Len(sid) + 1] = id
  BY <1>1, AppendProperties
<1>. QED
  BY <1>1, <1>2, LenProperties DEF CreateFor, Streams

-----------------------------------------------------------------------------
\* The initial state: nothing registered, readLoop before its first frame.
LEMMA InitInv == Init => IParts
<1>1. Init => TypeOK
  <2>. SUFFICES ASSUME Init PROVE TypeOK
    OBVIOUS
  <2>1. sid \in Seq(Ids) /\ Streams = {}
    BY EmptySeq DEF Init, Streams
  <2>2. Len(Inbound) \in Nat
    BY StreamsAssumption, LenProperties
  <2>3. rl \in [pc : {"next", "route", "remove", "done"},
                pos : 1..(Len(Inbound) + 1), hs : BOOLEAN,
                stream : Streams \cup {NoStream}]
    BY <2>2 DEF Init
  <2>. QED
    BY <2>1, <2>3 DEF Init, TypeOK, NoStream
<1>. QED
  BY <1>1 DEF Init, IParts, RInj, RRL, ROpen, NoStream


\* A step that leaves the registry, the Streams and readLoop alone keeps
\* every part; only handler and closing may change, within their types.
LEMMA RegistryFrame ==
    ASSUME IParts, handler' \in BOOLEAN, closing' \in BOOLEAN,
           UNCHANGED <<d, sid, sclosed, handed, us, rl, closedAll>>
    PROVE  IParts'
BY DEF IParts, TypeOK, RInj, RRL, ROpen, Streams

\* SetNewStreamHandler and Close() touch no Stream.
LEMMA UserFlags ==
    ASSUME IParts, \/ \E h \in BOOLEAN : USetHandler(h)
                   \/ UClose
                   \/ UNCHANGED vars
    PROVE  IParts'
BY RegistryFrame DEF USetHandler, UClose, vars, IParts, TypeOK

\* CloseAll closes every registered Stream and ends the open period.
LEMMA CloseAllStep ==
    ASSUME IParts, CloseAll \/ Finished
    PROVE  IParts'
<1>1. CASE CloseAll
  <2>1. Registered \subseteq Streams
    BY DEF IParts, TypeOK, Registered
  <2>2. TypeOK'
    BY <1>1, <2>1 DEF CloseAll, IParts, TypeOK, Streams
  <2>. QED
    BY <1>1, <2>2 DEF CloseAll, IParts, RInj, RRL, ROpen
<1>2. CASE Finished
  BY <1>2 DEF Finished, vars, IParts, TypeOK, RInj, RRL, ROpen, Streams
<1>. QED
  BY <1>1, <1>2


\* readLoop's Get (498): the stream it takes is the one registered for the
\* frame's id, or none; nothing closed is registered while it routes.
LEMMA RLGetStep ==
    ASSUME IParts, RLGet
    PROVE  IParts'
<1>. DEFINE f == Inbound[rl.pos]
<1>1. rl.pos \in 1..Len(Inbound) /\ rl.pc = "next" /\ rl.stream = NoStream
  BY DEF RLGet, IParts, TypeOK, RRL
<1>2. f.id \in Ids /\ f.content \in BOOLEAN
  BY <1>1, FrameFields
<1>3. rl' = [pc |-> "route", pos |-> rl.pos, hs |-> handler,
             stream |-> IF handler \/ ~f.content THEN d[f.id] ELSE NoStream]
  BY <1>1 DEF RLGet, IParts, TypeOK
<1>4. TypeOK'
  BY <1>2, <1>3 DEF RLGet, IParts, TypeOK, Streams
<1>5. RRL'
  BY <1>1, <1>3 DEF RLGet, IParts, RRL
<1>6. ROpen'
  BY <1>1, <1>3 DEF RLGet, IParts, ROpen
<1>. QED
  BY <1>4, <1>5, <1>6 DEF RLGet, IParts, RInj, Streams

\* The close sentinel (546): stream.close() closes the Stream Get found,
\* which stays registered until Remove.
LEMMA RLCloseStreamStep ==
    ASSUME IParts, RLCloseStream
    PROVE  IParts'
<1>1. rl.pc = "route" /\ rl.stream \in Streams
  BY DEF RLCloseStream, IParts, TypeOK, NoStream
<1>2. rl' = [rl EXCEPT !.pc = "remove"] /\ sclosed' = sclosed \cup {rl.stream}
  BY DEF RLCloseStream
<1>3. TypeOK'
  BY <1>1, <1>2 DEF RLCloseStream, IParts, TypeOK, Streams
<1>4. RRL'
  BY <1>1, <1>2 DEF RLCloseStream, IParts, TypeOK, RRL
<1>5. ROpen'
  BY <1>1, <1>2 DEF RLCloseStream, IParts, TypeOK, ROpen
<1>. QED
  BY <1>3, <1>4, <1>5 DEF RLCloseStream, IParts, RInj, Streams


\* NextFrame (572-574) leaves readLoop between frames with no stream.
LEMMA NextFrameType ==
    ASSUME TypeOK, rl.pc \in {"route", "remove"}, rl.pos <= Len(Inbound),
           NextFrame
    PROVE  /\ rl' \in [pc : {"next", "route", "remove", "done"},
                       pos : 1..(Len(Inbound) + 1), hs : BOOLEAN,
                       stream : Streams \cup {NoStream}]
           /\ rl'.pc = "next" /\ rl'.stream = NoStream
<1>1. Len(Inbound) \in Nat /\ rl.pos \in 1..Len(Inbound)
  BY StreamsAssumption, LenProperties DEF TypeOK
<1>2. rl' = [pc |-> "next", pos |-> rl.pos + 1, hs |-> FALSE,
             stream |-> NoStream]
  BY DEF NextFrame, TypeOK
<1>3. rl.pos + 1 \in 1..(Len(Inbound) + 1)
  BY <1>1
<1>. QED
  BY <1>2, <1>3

\* Remove(id) (547): the Stream closed at 546 is registered under that id
\* only, so after it nothing closed is registered.
LEMMA RLRemoveStep ==
    ASSUME IParts, RLRemove
    PROVE  IParts'
<1>. DEFINE id == Inbound[rl.pos].id
<1>1. /\ rl.pc = "remove" /\ rl.pos \in 1..Len(Inbound)
      /\ rl.stream # NoStream /\ d[id] = rl.stream
  BY DEF RLRemove, IParts, TypeOK, RRL
<1>2. id \in Ids
  BY <1>1, FrameFields
<1>3. d' = [d EXCEPT ![id] = NoStream]
  BY DEF RLRemove
<1>4. rl' \in [pc : {"next", "route", "remove", "done"},
               pos : 1..(Len(Inbound) + 1), hs : BOOLEAN,
               stream : Streams \cup {NoStream}]
      /\ rl'.pc = "next" /\ rl'.stream = NoStream
  BY <1>1, NextFrameType DEF RLRemove, IParts
<1>5. TypeOK'
  BY <1>2, <1>3, <1>4 DEF RLRemove, IParts, TypeOK, Streams
<1>6. RInj'
  BY <1>2, <1>3 DEF RLRemove, IParts, TypeOK, RInj
<1>7. ROpen'
  <2>. SUFFICES ASSUME ~closedAll', NEW i \in Ids, d'[i] # NoStream,
                       d'[i] \in sclosed'
                PROVE  FALSE
    BY <1>4 DEF ROpen
  <2>1. i # id /\ d'[i] = d[i]
    BY <1>2, <1>3 DEF IParts, TypeOK
  <2>2. d[i] = rl.stream
    BY <2>1, <1>1 DEF RLRemove, IParts, ROpen
  <2>3. sid[d[i]] = i /\ sid[d[id]] = id
    BY <1>1, <1>2, <2>1 DEF IParts, RInj
  <2>. QED
    BY <1>1, <2>1, <2>2, <2>3
<1>8. RRL'
  BY <1>1, <1>4 DEF RLRemove, IParts, RRL
<1>. QED
  BY <1>5, <1>6, <1>7, <1>8 DEF IParts

\* A dropped frame (549, 551-553) or a push to a registered Stream (562)
\* ends the frame and changes nothing else.
LEMMA RLEndFrameStep ==
    ASSUME IParts, RLDrop \/ RLPush
    PROVE  IParts'
<1>1. rl.pc = "route" /\ rl.pos <= Len(Inbound) /\ NextFrame
      /\ UNCHANGED <<d, sid, sclosed, handler, handed, us, closing, closedAll>>
  BY DEF RLDrop, RLPush, IParts, RRL
<1>2. rl' \in [pc : {"next", "route", "remove", "done"},
               pos : 1..(Len(Inbound) + 1), hs : BOOLEAN,
               stream : Streams \cup {NoStream}]
      /\ rl'.pc = "next" /\ rl'.stream = NoStream
  BY <1>1, NextFrameType DEF IParts
<1>. QED
  BY <1>1, <1>2 DEF IParts, TypeOK, RInj, RRL, ROpen, Streams

\* readLoop returns after a failed read (458-465) or a failed push
\* (563-567), and close() begins: nothing closed is registered then.
LEMMA RLStopStep ==
    ASSUME IParts, RLExit \/ RLPushFail
    PROVE  IParts'
<1>1. /\ rl.pc \in {"next", "route"}
      /\ rl' = [rl EXCEPT !.pc = "done"] /\ closing' = TRUE
      /\ UNCHANGED <<d, sid, sclosed, handler, handed, us, closedAll>>
  BY DEF RLExit, RLPushFail
<1>. QED
  BY <1>1 DEF IParts, TypeOK, RInj, RRL, ROpen, Streams


\* newStream registers a Stream nobody has closed, under the id it was made
\* for, and leaves the other slots alone; readLoop's stream stays registered
\* when the new Stream goes in a slot that was empty.
LEMMA CreateKeeps ==
    ASSUME IParts, NEW id \in Ids, CreateFor(id),
           UNCHANGED <<sclosed, closedAll>>,
           rl.stream # NoStream /\ rl.pc \in {"route", "remove"}
              => d[Inbound[rl.pos].id] = rl.stream /\ id # Inbound[rl.pos].id
    PROVE  /\ d' \in [Ids -> Streams' \cup {NoStream}]
           /\ sid' \in Seq(Ids)
           /\ Streams \subseteq Streams'
           /\ RInj'
           /\ rl.stream # NoStream /\ rl.pc \in {"route", "remove"}
                => d'[Inbound[rl.pos].id] = rl.stream
           /\ \A i \in Ids : d'[i] # NoStream /\ d'[i] \in sclosed'
                => d[i] # NoStream /\ d[i] \in sclosed /\ d'[i] = d[i]
<1>. DEFINE n == Len(sid) + 1
<1>1. /\ sid' \in Seq(Ids) /\ Len(sid') = n /\ sid'[n] = id
      /\ \A s \in Streams : sid'[s] = sid[s]
      /\ Streams \subseteq Streams' /\ n \notin Streams
      /\ d' = [d EXCEPT ![id] = n]
  BY CreateForProps DEF IParts, Streams
<1>2. n \in Streams'
  BY <1>1 DEF Streams
<1>3. d' \in [Ids -> Streams' \cup {NoStream}]
  BY <1>1, <1>2 DEF IParts, TypeOK
<1>4. RInj'
  BY <1>1 DEF IParts, TypeOK, RInj, NoStream
<1>5. \A i \in Ids : d'[i] # NoStream /\ d'[i] \in sclosed'
         => d[i] # NoStream /\ d[i] \in sclosed /\ d'[i] = d[i]
  BY <1>1 DEF IParts, TypeOK
<1>6. rl.stream # NoStream /\ rl.pc \in {"route", "remove"}
         => d'[Inbound[rl.pos].id] = rl.stream
  BY <1>1, FrameFields DEF IParts, TypeOK, RRL
<1>. QED
  BY <1>1, <1>3, <1>4, <1>5, <1>6

\* A packet for an unregistered id with a handler set (555-568): readLoop
\* creates the Stream and hands it to the handler.
LEMMA RLCreateStep ==
    ASSUME IParts, RLCreate
    PROVE  IParts'
<1>. DEFINE id == Inbound[rl.pos].id
<1>1. rl.pc = "route" /\ rl.pos \in 1..Len(Inbound) /\ rl.stream = NoStream
  BY DEF RLCreate, IParts, TypeOK, RRL
<1>2. id \in Ids
  BY <1>1, FrameFields
<1>3. /\ d' \in [Ids -> Streams' \cup {NoStream}]
      /\ sid' \in Seq(Ids)
      /\ Streams \subseteq Streams'
      /\ RInj'
      /\ \A i \in Ids : d'[i] # NoStream /\ d'[i] \in sclosed'
           => d[i] # NoStream /\ d[i] \in sclosed /\ d'[i] = d[i]
  BY <1>1, <1>2, CreateKeeps DEF RLCreate
<1>4. Len(sid) + 1 \in Streams'
  BY <1>2, CreateForProps DEF RLCreate, IParts, Streams
<1>5. rl' \in [pc : {"next", "route", "remove", "done"},
               pos : 1..(Len(Inbound) + 1), hs : BOOLEAN,
               stream : Streams \cup {NoStream}]
      /\ rl'.pc = "next" /\ rl'.stream = NoStream
  BY <1>1, NextFrameType DEF RLCreate, IParts
<1>6. TypeOK'
  BY <1>3, <1>4, <1>5 DEF RLCreate, IParts, TypeOK
<1>7. ROpen'
  BY <1>1, <1>3, <1>5 DEF RLCreate, IParts, ROpen
<1>. QED
  BY <1>1, <1>3, <1>5, <1>6, <1>7 DEF RLCreate, IParts, RRL

\* NewStream(id) (250-254, part_000:29-39): an empty slot gets a new Stream,
\* a filled one is only returned to the user.
LEMMA UNewStreamStep ==
    ASSUME IParts, NEW id \in Ids, UNewStream(id)
    PROVE  IParts'
<1>1. CASE d[id] # NoStream
  BY <1>1 DEF UNewStream, IParts, TypeOK, RInj, RRL, ROpen, Streams
<1>2. CASE d[id] = NoStream
  <2>1. CreateFor(id) /\ us' = [us EXCEPT ![id] = Len(sid) + 1]
        /\ UNCHANGED <<sclosed, handler, handed, rl, closing, closedAll>>
    BY <1>2 DEF UNewStream
  <2>2. rl.stream # NoStream /\ rl.pc \in {"route", "remove"}
           => d[Inbound[rl.pos].id] = rl.stream /\ id # Inbound[rl.pos].id
    BY <1>2 DEF IParts, RRL
  <2>3. /\ d' \in [Ids -> Streams' \cup {NoStream}]
        /\ sid' \in Seq(Ids)
        /\ Streams \subseteq Streams'
        /\ RInj'
        /\ rl.stream # NoStream /\ rl.pc \in {"route", "remove"}
             => d'[Inbound[rl.pos].id] = rl.stream
        /\ \A i \in Ids : d'[i] # NoStream /\ d'[i] \in sclosed'
             => d[i] # NoStream /\ d[i] \in sclosed /\ d'[i] = d[i]
    BY <2>1, <2>2, CreateKeeps
  <2>4. Len(sid) + 1 \in Streams'
    BY <2>1, CreateForProps DEF IParts, Streams
  <2>5. TypeOK'
    BY <2>1, <2>3, <2>4 DEF IParts, TypeOK
  <2>6. RRL'
    BY <2>1, <2>3 DEF IParts, RRL
  <2>7. ROpen'
    BY <2>1, <2>3 DEF IParts, ROpen
  <2>. QED
    BY <2>3, <2>5, <2>6, <2>7 DEF IParts
<1>. QED
  BY <1>1, <1>2

-----------------------------------------------------------------------------
\* Every step of readLoop, of the user and of close() keeps the parts.
LEMMA NextInv == IParts /\ [Next]_vars => IParts'
<1>. SUFFICES ASSUME IParts, [Next]_vars PROVE IParts'
  OBVIOUS
<1>1. CASE RLGet
  BY <1>1, RLGetStep
<1>2. CASE RLCloseStream
  BY <1>2, RLCloseStreamStep
<1>3. CASE RLRemove
  BY <1>3, RLRemoveStep
<1>4. CASE RLDrop \/ RLPush
  BY <1>4, RLEndFrameStep
<1>5. CASE RLCreate
  BY <1>5, RLCreateStep
<1>6. CASE RLExit \/ RLPushFail
  BY <1>6, RLStopStep
<1>7. CASE \E id \in Ids : UNewStream(id)
  BY <1>7, UNewStreamStep
<1>8. CASE \/ \E h \in BOOLEAN : USetHandler(h)
           \/ UClose
           \/ UNCHANGED vars
  BY <1>8, UserFlags
<1>9. CASE CloseAll \/ Finished
  BY <1>9, CloseAllStep
<1>. QED
  BY <1>1, <1>2, <1>3, <1>4, <1>5, <1>6, <1>7, <1>8, <1>9
  DEF Next, ReadLoop, User

(***************************************************************************)
(* RegistryInv, the invariant the streams run checks, holds in every       *)
(* reachable state of the registry, for every set of ids and every         *)
(* sequence of STREAM frames the peer sends.                               *)
(***************************************************************************)
THEOREM RegistryInvariant == Spec => []RegistryInv
<1>1. Init => IParts
  BY InitInv
<1>2. IParts /\ [Next]_vars => IParts'
  BY NextInv
<1>3. IParts => RegistryInv
  BY InvParts
<1>. QED
  BY <1>1, <1>2, <1>3, PTL DEF Spec

(***************************************************************************)
(* Type correctness of the registry: Streams.d and the user's streams name *)
(* only Streams newStream made, and readLoop's frame state stays in range. *)
(***************************************************************************)
THEOREM StreamsTypeCorrect == Spec => []TypeOK
<1>1. RegistryInv => TypeOK
  BY DEF RegistryInv
<1>. QED
  BY <1>1, RegistryInvariant, PTL

(***************************************************************************)
(* While the connection is open, between two frames readLoop's registry    *)
(* holds no Stream that stream.close() has closed (546-547): a later frame *)
(* for that id is never pushed into a closed queue, which would error-close *)
(* the whole connection (564-567).                                         *)
(***************************************************************************)
THEOREM RegistryOpen == Spec => []RegistryHoldsOpenStreams
<1>1. RegistryInv => RegistryHoldsOpenStreams
  BY DEF RegistryInv, RegistryHoldsOpenStreams
<1>. QED
  BY <1>1, RegistryInvariant, PTL

=============================================================================

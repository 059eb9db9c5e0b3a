------------------------------ MODULE Streams ------------------------------
(***************************************************************************)
(* The stream registry of frisbee.Async (src/unnamed/part_000: Streams) as *)
(* readLoop's STREAM case (async.go:491-500, 543-574), the user's          *)
(* NewStream (250-254) and SetNewStreamHandler (263-267), and close()'s    *)
(* streams.CloseAll() (375) use it.  A Stream is a number; the registry d  *)
(* maps a stream id to the Stream registered for it, or to 0.  Frames are  *)
(* whole STREAM frames (Framing models the bytes).                         *)
(***************************************************************************)
EXTENDS Naturals, Sequences, FiniteSets

CONSTANTS
    Ids,        \* the stream ids in use
    Inbound     \* the STREAM frames the peer sends: [id, content]

ASSUME StreamsAssumption ==
    /\ IsFiniteSet(Ids) /\ Ids # {}
    /\ Inbound \in Seq([id : Ids, content : BOOLEAN])

NoStream == 0

VARIABLES
    d,          \* Streams.d: id -> the registered Stream, or NoStream
    sid,        \* sid[s]: the id Stream s was created for (newStream)
    sclosed,    \* the Streams that stream.close()/Close() has closed
    handler,    \* c.newStreamHandler is set
    handed,     \* the Streams passed to go newStreamHandler(stream)
    us,         \* us[id]: the Stream NewStream(id) returned, or NoStream
    rl,         \* readLoop: control point, frame, handler snapshot, stream
    closing,    \* close() has begun
    closedAll   \* close() has run streams.CloseAll()

vars == <<d, sid, sclosed, handler, handed, us, rl, closing, closedAll>>

Streams == 1..Len(sid)
Registered == {d[i] : i \in Ids} \ {NoStream}

Init ==
    /\ d = [i \in Ids |-> NoStream]
    /\ sid = <<>>
    /\ sclosed = {}
    /\ handler = FALSE
    /\ handed = {}
    /\ us = [i \in Ids |-> NoStream]
    /\ rl = [pc |-> "next", pos |-> 1, hs |-> FALSE, stream |-> NoStream]
    /\ closing = FALSE
    /\ closedAll = FALSE

\* newStream(id, c) under Streams.mu: a new Stream registered for id,
\* replacing whatever was there (Create, part_000:41-49).
CreateFor(id) ==
    /\ sid' = Append(sid, id)
    /\ d' = [d EXCEPT ![id] = Len(sid) + 1]

\* The end of one frame: newStreamHandler, stream and isStream are reset
\* (async.go:572-574) and readLoop goes on to the next frame.
NextFrame ==
    rl' = [rl EXCEPT !.pc = "next", !.pos = @ + 1, !.hs = FALSE,
                     !.stream = NoStream]

(***************************************************************************)
(* case STREAM (491-500): snapshot the handler under newStreamHandlerMu,   *)
(* and look the stream up (Get, under the read lock) when a handler is     *)
(* set or the frame is a close sentinel.  Taking the snapshot and the Get  *)
(* in one step is sound: a SetNewStreamHandler between them commutes with  *)
(* the Get, which does not read the handler.                               *)
(***************************************************************************)
RLGet ==
    /\ rl.pc = "next"
    /\ rl.pos <= Len(Inbound)
    /\ LET f == Inbound[rl.pos]
       IN  rl' = [rl EXCEPT !.pc = "route", !.hs = handler,
                    !.stream = IF handler \/ ~f.content THEN d[f.id] ELSE @]
    /\ UNCHANGED <<d, sid, sclosed, handler, handed, us, closing, closedAll>>

\* Mutant: the sentinel closes the stream but leaves it registered.
RLCloseStreamNoRemove ==
    /\ rl.pc = "route"
    /\ ~Inbound[rl.pos].content
    /\ rl.stream # NoStream
    /\ sclosed' = sclosed \cup {rl.stream}
    /\ NextFrame
    /\ UNCHANGED <<d, sid, handler, handed, us, closing, closedAll>>

\* Mutant: the sentinel removes the stream without closing it.
RLCloseStreamNoClose ==
    /\ rl.pc = "route"
    /\ ~Inbound[rl.pos].content
    /\ rl.stream # NoStream
    /\ rl' = [rl EXCEPT !.pc = "remove"]
    /\ UNCHANGED <<d, sid, sclosed, handler, handed, us, closing, closedAll>>

\* A close sentinel for a registered stream: stream.close() (546), then
\* streams.Remove(id) as a step of its own (547).
RLCloseStream ==
    /\ rl.pc = "route"
    /\ ~Inbound[rl.pos].content
    /\ rl.stream # NoStream
    /\ sclosed' = sclosed \cup {rl.stream}
    /\ rl' = [rl EXCEPT !.pc = "remove"]
    /\ UNCHANGED <<d, sid, handler, handed, us, closing, closedAll>>

RLRemove ==
    /\ rl.pc = "remove"
    /\ d' = [d EXCEPT ![Inbound[rl.pos].id] = NoStream]
    /\ NextFrame
    /\ UNCHANGED <<sid, sclosed, handler, handed, us, closing, closedAll>>

\* A sentinel for no stream, or content with no handler: the packet is
\* released (549, 551-553).
RLDrop ==
    /\ rl.pc = "route"
    /\ \/ ~Inbound[rl.pos].content /\ rl.stream = NoStream
       \/ Inbound[rl.pos].content /\ ~rl.hs
    /\ NextFrame
    /\ UNCHANGED <<d, sid, sclosed, handler, handed, us, closing, closedAll>>

\* Content, a handler, and Get found no stream: streams.Create, go the
\* handler with it, and push the packet to its queue (555-568).
RLCreate ==
    /\ rl.pc = "route"
    /\ Inbound[rl.pos].content /\ rl.hs
    /\ rl.stream = NoStream
    /\ CreateFor(Inbound[rl.pos].id)
    /\ handed' = handed \cup {Len(sid) + 1}
    /\ NextFrame
    /\ UNCHANGED <<sclosed, handler, us, closing, closedAll>>

\* Content, a handler, and a registered stream: push to its queue (562).
RLPush ==
    /\ rl.pc = "route"
    /\ Inbound[rl.pos].content /\ rl.hs
    /\ rl.stream # NoStream
    /\ NextFrame
    /\ UNCHANGED <<d, sid, sclosed, handler, handed, us, closing, closedAll>>

\* The push fails (563-567): the Stream's bounded queue is full (spec 4.5,
\* 6; the queue is not under src/).  readLoop calls c.wg.Done() and
\* closeWithError, whose close() begins unless a close is already under
\* way, and returns.  A Stream readLoop has just created has an empty
\* queue, so RLCreate's push does not fail.
RLPushFail ==
    /\ rl.pc = "route"
    /\ Inbound[rl.pos].content /\ rl.hs
    /\ rl.stream # NoStream
    /\ rl' = [rl EXCEPT !.pc = "done"]
    /\ closing' = TRUE
    /\ UNCHANGED <<d, sid, sclosed, handler, handed, us, closedAll>>

\* conn.Read fails between frames (458-465): the peer hung up, the socket
\* failed, or close() set the past deadline.  readLoop calls c.wg.Done()
\* and closeWithError, which begins close() if none has begun.
RLExit ==
    /\ rl.pc = "next"
    /\ rl' = [rl EXCEPT !.pc = "done"]
    /\ closing' = TRUE
    /\ UNCHANGED <<d, sid, sclosed, handler, handed, us, closedAll>>

\* NewStream(id): CreateWithCheckOfExistence (part_000:29-39) returns the
\* registered stream, or registers a new one.  The user keeps one per id.
UNewStream(id) ==
    /\ us[id] = NoStream
    /\ IF d[id] # NoStream
         THEN /\ us' = [us EXCEPT ![id] = d[id]]
              /\ UNCHANGED <<d, sid>>
         ELSE /\ CreateFor(id)
              /\ us' = [us EXCEPT ![id] = Len(sid) + 1]
    /\ UNCHANGED <<sclosed, handler, handed, rl, closing, closedAll>>

\* SetNewStreamHandler(h) under newStreamHandlerMu; h may be nil.
USetHandler(h) ==
    /\ handler' = h
    /\ UNCHANGED <<d, sid, sclosed, handed, us, rl, closing, closedAll>>

\* Close(): the CAS and the closing of the channels and the deadline.
UClose ==
    /\ ~closing
    /\ closing' = TRUE
    /\ UNCHANGED <<d, sid, sclosed, handler, handed, us, rl, closedAll>>

\* Mutant: CloseAll without waiting for readLoop to return.
CloseAllEarly ==
    /\ closing /\ ~closedAll
    /\ sclosed' = sclosed \cup Registered
    /\ closedAll' = TRUE
    /\ UNCHANGED <<d, sid, handler, handed, us, rl, closing>>

\* After wg.Wait(): streams.CloseAll() closes every registered stream
\* under the lock (part_000:51-57).
CloseAll ==
    /\ closing /\ rl.pc = "done" /\ ~closedAll
    /\ sclosed' = sclosed \cup Registered
    /\ closedAll' = TRUE
    /\ UNCHANGED <<d, sid, handler, handed, us, rl, closing>>

\* The connection is closed and nothing the user does changes that.
Finished ==
    /\ closedAll
    /\ UNCHANGED vars

User ==
    \/ \E id \in Ids : UNewStream(id)
    \/ \E h \in BOOLEAN : USetHandler(h)
    \/ UClose

ReadLoop ==
    RLGet \/ RLCloseStream \/ RLRemove \/ RLDrop \/ RLCreate \/ RLPush
    \/ RLPushFail \/ RLExit

Next == ReadLoop \/ User \/ CloseAll \/ Finished

\* readLoop and close() run while they can; the user need not call anything.
Spec == Init /\ [][Next]_vars /\ WF_vars(ReadLoop) /\ WF_vars(CloseAll)

-----------------------------------------------------------------------------
\* Every variable holds a value of its type.
TypeOK ==
    /\ sid \in Seq(Ids)
    /\ d \in [Ids -> Streams \cup {NoStream}]
    /\ us \in [Ids -> Streams \cup {NoStream}]
    /\ sclosed \subseteq Streams /\ handed \subseteq Streams
    /\ handler \in BOOLEAN /\ closing \in BOOLEAN /\ closedAll \in BOOLEAN
    /\ rl \in [pc : {"next", "route", "remove", "done"},
               pos : 1..(Len(Inbound) + 1), hs : BOOLEAN,
               stream : Streams \cup {NoStream}]

(***************************************************************************)
(* While the connection is open, the registry only holds open streams      *)
(* between two frames: a close sentinel closes the stream (546) and also   *)
(* removes it (547), so a later frame for that id finds no Stream, and a  *)
(* Stream the handler holds is never one the peer has already closed.     *)
(***************************************************************************)
RegistryHoldsOpenStreams ==
    (~closedAll /\ rl.pc # "remove") => Registered \cap sclosed = {}

(***************************************************************************)
(* Why the registry holds only open streams, as an inductive invariant: a  *)
(* Stream is registered only under the id newStream created it for, so     *)
(* Remove(id) (547) unregisters it everywhere; between its Get (498) and   *)
(* the end of the frame readLoop's stream is still the one registered for  *)
(* the frame's id, since NewStream only fills an empty slot (part_000:     *)
(* 29-39); and the only closed Stream that may be registered is the one    *)
(* readLoop closed at 546 and is about to remove.                          *)
(***************************************************************************)
RegistryInv ==
    /\ TypeOK
    /\ \A i \in Ids : d[i] # NoStream => sid[d[i]] = i
    /\ rl.pc = "next" => rl.stream = NoStream
    /\ rl.pc \in {"route", "remove"} =>
          /\ rl.pos <= Len(Inbound)
          /\ rl.stream # NoStream => d[Inbound[rl.pos].id] = rl.stream
    /\ rl.pc = "remove" => rl.stream # NoStream
    /\ closedAll => rl.pc = "done"
    /\ ~closedAll =>
          Registered \cap sclosed \subseteq
              IF rl.pc = "remove" THEN {rl.stream} ELSE {}

(***************************************************************************)
(* Every stream readLoop hands to a newStreamHandler is eventually closed  *)
(* once the connection closes: by the peer's sentinel or by CloseAll.      *)
(***************************************************************************)
HandlerStreamsClosed == closing ~> (handed \subseteq sclosed)

\* The registry as the connection sees it: readLoop's Remove(id) (547) is
\* taken as done as soon as its stream.close() (546) is.
RegView ==
    IF rl.pc = "remove" THEN [d EXCEPT ![Inbound[rl.pos].id] = NoStream]
                        ELSE d

Registry == INSTANCE StreamRegistry
              WITH reg <- RegView, made <- sid, closed <- sclosed,
                   shut <- closedAll

(***************************************************************************)
(* readLoop, NewStream and close() implement the atomic registry: the     *)
(* sentinel's close (546) and Remove (547) are one step, since no NewStream *)
(* or readLoop Create between them can register a Stream for that id, and *)
(* CloseAll (375) runs once, after readLoop is done.  It fails if the     *)
(* sentinel closes without removing, or removes another id's Stream.      *)
(***************************************************************************)
ImplementsRegistry == Registry!Spec

(***************************************************************************)
(* While the connection is open, a stream NewStream returned stays the     *)
(* stream of its id until it is closed (spec 4.5, 4.7: readLoop creates a *)
(* stream only when it is absent), so it receives the peer's packets and   *)
(* CloseAll closes it.                                                     *)
(***************************************************************************)
UserStreamRegistered ==
    ~closing =>
        \A i \in Ids : us[i] # NoStream => (d[i] = us[i] \/ us[i] \in sclosed)

(***************************************************************************)
(* Once close() has run CloseAll, every registered stream is closed (spec  *)
(* 4.8 step 7): no stream is left open on a closed connection.             *)
(***************************************************************************)
StreamsClosedAfterClose == closedAll => Registered \subseteq sclosed

=============================================================================

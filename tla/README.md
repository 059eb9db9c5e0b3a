# Verification of frisbee-go's connection engine

This directory holds TLA+ models of `frisbee.Async` (`src/async.go`), the
per-connection engine of frisbee-go. It also holds TLC configurations that
model-check the models on small instances, and TLAPS proofs that hold for
every instance.

## The system

One `Async` wraps one `net.Conn`. `NewAsync` starts three goroutines that
share its state with the user's goroutines:

| goroutine | code | what it does |
|---|---|---|
| readLoop | `async.go:432-640` | Reads headers and payloads from the socket. A PING is answered with a PONG through `writePacket`, a PONG is dropped, a STREAM frame is routed to a `Stream`, and any other frame is pushed onto `c.incoming`. |
| flushLoop | `async.go:395-408` | Waits for a token on `c.flushCh` (capacity 3), then `flush()`es the `BufferedWriter`. |
| pingLoop | `async.go:410-430` | Writes a PING on every tick until `c.closeCh` is closed. |
| user | `WritePacket`, `ReadPacket`, `Close`, `NewStream` | `writePacket` encodes the header, checks `c.closed`, then writes the header and the content to the writer in two calls. If `flushCh` is empty it signals it without blocking. `ReadPacket` pops from `c.incoming`. Once closed, it polls `c.stalePackets`. |

Shutdown is `close()` (`async.go:359-383`):
1. CAS on `c.closed`. The loser returns `ConnectionClosed`.
2. Close `incoming`, `closeCh` and `flushCh`.
3. Set a read deadline in the past.
4. `wg.Wait()` for the three loops.
5. `stalePackets.Set(incoming.Drain())`.
6. `streams.CloseAll()`.
7. A final flush.

`closeWithError` (`385-393`) calls `close()`. If that succeeds, it stores the error and closes the socket. Every error path of every goroutine calls `closeWithError`, so each goroutine can run the close protocol itself.

### Inventory

| part | source | status |
|---|---|---|
| Async engine: close/closeWithError, writePacket, flush, the three loops, WritePacket, ReadPacket, Close | `src/async.go` | modelled in `Async` (readLoop at the level of whole frames) |
| BufferedWriter: Write, Flush (mutex-guarded `bufio.Writer`) | `src/buffered_writer.go` | modelled in `Async` (`BufWrite`, `BufFlush`) |
| Stale packet buffer `Packets`: Poll, Set | `src/unnamed/part_001` | modelled in `Async` (`PollStale`, `CloseWait`) |
| incoming queue `queue.Circular` | not in `src/` | its contract (spec §4.4) is modelled inside `RLDispatchUser`, `URPop` and `CloseWait` |
| Streams registry: Get, Create, CreateWithCheckOfExistence, Remove, CloseAll | `src/unnamed/part_000` | modelled in `Streams`, against readLoop's STREAM case, `NewStream`, `SetNewStreamHandler` and close()'s `CloseAll` |
| readLoop byte framing: header reads, in-place decode, buffered and spilled content, buffer growth, partial-header compaction | `src/async.go:433-638` | modelled in `Framing` |
| frame metadata codec: layout, Encode, Decode, big-endian conversions | `src/pkg/metadata/metadata.go`, `async.go:285-288`, `473-475` | modelled in `Metadata`; round trip proved in `MetadataProofs` |
| the `Stream` type (its queue, `Close`, `newStream`) | not in `src/` | not modelled: a stream is an identity, its closing a set membership |
| legacy gnet codec | `src/internal/codec` | not modelled: it is not used by the engine |
| `Flush()`, `Raw()`, `SetDeadline`, `WriteBufferSize`, `Error`, `Closed` | `src/async.go` | not modelled: they only read state or forward to the socket, except `Flush`/`Raw`, which reuse `flush`/`close` |

### Modules

| module | models | role |
|---|---|---|
| `Async` | the engine, readLoop at whole frames | state machine; refinement mapping to `PacketChannel` |
| `PacketChannel` | what `ReadPacket` promises (spec §4.4, §4.6, §7) | abstract specification |
| `StreamRegistry` | the stream registry as one atomic map (`Streams.Create`, close of a stream and its `Remove`, `CloseAll`) | abstract specification |
| `Metadata` | `metadata.go` and the inline header code of writePacket and readLoop | operators only |
| `Framing` | readLoop's byte-level loop over `Metadata` | state machine |
| `Streams` | the registry, readLoop's STREAM case, NewStream, close() | state machine |
| `AsyncProofs`, `AsyncRefinementProofs`, `AsyncCloseProofs`, `MetadataProofs`, `StreamsProofs`, `StreamsRefinementProofs`, `StreamRegistryProofs`, `PacketChannelProofs` | | TLAPS proofs |
| `MC_Async`, `MC_Framing`, `MC_Streams` | | instances for TLC |

The three state machines are views of one goroutine at three levels of detail. `Framing` reassembles the byte stream into packets and hands each on (`out`). `Async` starts from whole frames and models what happens to a non-stream packet and to the PONG reply, racing the other goroutines. `Streams` models what happens to a STREAM packet. They are not composed into one module: the product of byte-level reads with the six goroutines of `Async` is far beyond TLC, and the three parts touch disjoint state (the read buffer, the incoming queue and writer, the stream registry).

## The model: `Async.tla`

**Actors.** The actors are the three loops and three user goroutines: `writer` calls `WritePacket`, `reader` calls `ReadPacket`, and `closer` calls `Close`. The variable `pc` holds each actor's control point.

**Atomic steps.** Every point at which goroutines can interleave is a step of its own:
- the CAS;
- the closing of the channels;
- `wg.Wait`;
- each `writer.Write`;
- the `len(flushCh)` test;
- the send on `flushCh`;
- each queue operation.

`close()` runs in the goroutine that calls it. So any actor can take the close steps `CloseCAS`, `CloseSignal`, `CloseWait`, `CloseFlush` and `CloseStore`. `ret` records where the caller resumes, and `cause` the error it passes.

**Abstracted data.**
- An inbound frame is its kind (`user`, `ping`, `pong`) and its index in the constant `Inbound`.
- An outbound frame is a record naming who wrote it (user packet n, PING, PONG answering inbound n) and whether it has content.
- The bufio buffer `wbuf` and the socket's output `sent` are sequences of pieces, each either a header or a content.
- `flushCh` is a counter capped at 3; `flushChClosed` records that it was closed.
- A send on the closed channel sets `panicked` and stops the process.

**The socket.**
- `broken` is a socket failure that the environment may inject (`SocketFails`, only when `Faults`).
- `connClosed` is `conn.Close()`.
- `deadlinePast` is the past read deadline that `close()` sets. readLoop's `SetReadDeadline` clears it (`RLDeadline`).
- A read fails (`RLReadFail`) in three cases:
  - the deadline has passed;
  - the socket is down;
  - the peer has nothing more to send, so the read times out.

**Histories.** `pushed` and `delivered` record the packets readLoop pushed and the packets ReadPacket returned. `readerGotClosed` records that ReadPacket returned `ConnectionClosed`.

**Constants.**
- `Inbound` and `Outbound`: the traffic in each direction.
- `MaxPings`: the number of ticks.
- `WriteBufCap`: the bufio capacity, in pieces.
- `IncomingCap`: the queue capacity.
- `Faults`.

`ConstantsAssumption` states the types of the constants.

**Fairness** (`Fairness`): each goroutine keeps running while it can (weak fairness on its steps). This is how the Go scheduler treats runnable goroutines. There are three exceptions:
- the user need not call anything;
- the socket need not fail;
- a read is only forced to fail once `closed` holds. Before that, a live peer pings within `DefaultDeadline`. After close, the past deadline makes the read return. readLoop's own `SetReadDeadline` (451) can overwrite that past deadline, so in the code the read may wait up to `DefaultDeadline` first. The model does not measure time, so that wait is only a delay to it, and `CloseCompletes` does not see it.

## The abstract channel: `PacketChannel.tla`

`PacketChannel` is what the reader of non-stream packets is promised. The peer's frames are `Inbound`. `Receive` appends the first user frame after the last one received to the queue `q`, and only while the channel is open. `Deliver` moves the head of `q` to `delivered`. `Close` stops receiving, but the queue stays readable.

`Async` maps onto it by `Channel == INSTANCE PacketChannel WITH q <- incoming \o stalePackets, last <- LastPushed, closed <- incomingClosed`:
- readLoop's push is a `Receive`;
- `URPop` and a successful `PollStale` are `Deliver`;
- `CloseSignal` is `Close`;
- `CloseWait`, the drain of the queue into the stale buffer, leaves `q` unchanged, so it is a stutter.

`ImplementsChannel == Channel!Spec` is checked by TLC in `async_safety`, and proved in `AsyncRefinementProofs`.

The channel's promise is `ReceivedInOrder`: the packets received so far (`delivered \o q`) are exactly the user frames up to `last`, each once, in the order sent. `PacketChannelProofs` proves it of the channel. For `Async` it follows from `ImplementsChannel`, so it is not checked there as a property of its own.

## The byte-level read loop: `Metadata.tla`, `Framing.tla`

`Metadata` gives the header layout (`IdOffset` ... `Size`), Go's `byte()` truncation and `binary.BigEndian` as arithmetic on naturals:
- `Encode` puts each field at its offset, as `writePacket` and `Metadata.Encode` do;
- `DecodeAt(buf, off)` reads the fields at an offset of a buffer, as readLoop does in place;
- `Decode` refuses a buffer shorter than `Size`.

`Framing` runs readLoop over the byte stream `Wire` of the frames in the constant `Frames`. The variables are readLoop's own: `buf` (all `cap(buf)` bytes), `n`, `index`, `min` and the packet `p`, with `pc` as its control point. `rd` counts the bytes the socket has returned.

One `conn.Read` returns any number of the remaining bytes that fit (`ReadResults`). With an error, it returns nothing (the connection is reset) or all that remains (`io.EOF`). The actions follow the loops of `readLoop`:

| action | code |
|---|---|
| `FillHeader` | the header loop at `449-468` and again at `585-602` |
| `ParseHeader` | the decode at `471-476` |
| `ControlPacket` | `case PING`/`case PONG` at `479-490` |
| `EmptyPacket` | a packet without content |
| `BufferedContent` | content already in `buf` (`531-532`) |
| `SpilledContent` | content past `n`: keep the buffered part, grow `buf` by doubling (`GrowCap`, `506-508`), read from `buf[0:]` |
| `ReadContent` | `510-530`: the read error is fatal only when `n < min` |
| `Consumed` | `576` |
| `PartialHeader` | the compaction of a partial header at `604-616` |
| `ReadPartial` | `617-637` |
| `WholeHeader` | another header is already buffered |
| `Stopped` | readLoop has returned |

Dispatch is abstracted: a packet is appended to `out`. The PONG reply and the queues are `Async`'s business.

## The stream registry: `Streams.tla`

A stream is a number: `sid[s]` is the id stream `s` was created for. `d` is `Streams.d`, and `sclosed` the set of streams that have been closed. readLoop walks the STREAM frames of `Inbound`, each an id and whether it has content. A frame without content is a close sentinel.

| action | code |
|---|---|
| `RLGet` | the handler snapshot and `streams.Get` (`491-499`) |
| `RLCloseStream`, `RLRemove` | `stream.close()` (546) and `Remove` (547), two steps because they take no common lock |
| `RLDrop` | `549`, `551-553` |
| `RLCreate` | `streams.Create` and `go newStreamHandler` (`555-560`) |
| `RLPush` | `562` |
| `RLPushFail` | `563-567`: the push fails, `wg.Done`, `closeWithError` |
| `RLExit` | `458-465`: a failed read ends readLoop and begins close() |

The user's side is `UNewStream` (`CreateWithCheckOfExistence`), `USetHandler` and `UClose`. After `wg.Wait`, close() runs `CloseAll`.

`RLGet` takes the snapshot and the `Get` in one step. This is sound: a `SetNewStreamHandler` between them commutes with the `Get`, which does not read the handler.

Weak fairness on readLoop and on `CloseAll` is justified as in `Async`: they are runnable goroutines. A stream queue is bounded (spec 4.5, 6), and it is not under `src/`. So a push into a registered stream may fail as if the queue were full: that is `RLPushFail` (563-567), which ends readLoop (`wg.Done`) and begins close() through `closeWithError`. A stream readLoop has just created has an empty queue, so `RLCreate`'s push does not fail. A push never meets a closed stream: `RegistryInv` keeps the stream readLoop routes to registered and open. Likewise `RLExit` is a failed read between frames (458-465): the peer hung up, the socket failed, or close() set the past deadline. It also begins close(). So close() is started by the user (`UClose`) or by readLoop. The model assumes close() reaches `CloseAll`; `async_close_deadlock` shows that a write failure inside readLoop's PONG can stop it first, which `Streams` does not model.

`Streams` implements the abstract registry `StreamRegistry`, in which closing a stream and removing it from the map are one step. The mapping is `RegView`: while readLoop is between `stream.close()` (546) and `Remove` (547), the id it is closing already reads as empty. So 546 is the registry's `CloseStream`, 547 a stutter, both `Create`s the registry's `Create`, and close()'s `CloseAll` its `CloseAll`. `ImplementsRegistry == Registry!Spec` is checked in `streams`. Its mutant `CloseAllEarly` drops close()'s wait for readLoop, and the refinement fails. The registry's own invariant `OnlyOpenRegistered` (no closed stream registered while the connection is open) then holds of `RegView` too.

## Runs

The `async_*` runs use `MC_Async.tla`, with:
- `MaxPings = 1`
- `WriteBufCap = 2`: a buffer of two pieces, so the full-buffer write path of bufio happens after a header and a content
- `IncomingCap = 1` in `async_safety`: readLoop's second user packet finds the queue full unless the reader popped the first, so the failed push (536-541) and the close it starts are explored. The other runs use `IncomingCap = 2`: they send at most two user packets, so there a push never finds the queue full.
- `Outbound = <<TRUE>>`: one user packet with content, so its header and content are two writes

| run | cfg | expect | properties | instance | what it shows |
|---|---|---|---|---|---|
| async_safety | `MC_Async_safety.cfg` | pass | PacketConservation, ConservationInv, ImplementsChannel | Inbound = user, ping, user; IncomingCap = 1; about 1.76M states | Packets are conserved across every interleaving of readLoop, the reader and any goroutine's close(), also when a push finds the queue full. The invariant used in the proof holds, and Async implements `PacketChannel`. |
| async_liveness | `MC_Async_liveness.cfg` | pass | CloseCompletes, FlushProgress | Inbound = user | Without socket faults, close() always gets past `wg.Wait`, and buffered bytes are flushed while the connection is open. |
| async_faults | `MC_Async_faults.cfg` | pass | PacketConservation, ErrorStoredOnce | Inbound = user, ping; socket faults; about 3M states | Conservation also holds when the socket may fail at any moment. However the goroutines race into `closeWithError`, `c.error` is stored once. Deadlock is not checked, because the self-wait below really stops the process. |
| async_panic | `MC_Async_panic.cfg` | violation | NoSendOnClosedChannel | as safety | `writePacket` can send on `flushCh` after close() closed it. |
| async_framing | `MC_Async_framing.cfg` | violation | WireFramed | as safety | A PING/PONG header can land between a packet's header and its content. |
| async_stale | `MC_Async_stale.cfg` | violation | ReaderClosedOnlyWhenDrained | as safety | ReadPacket can report `ConnectionClosed` before close() has moved the parsed packets to the stale buffer. |
| async_close_deadlock | `MC_Async_close_deadlock.cfg` | violation | CloseCompletes | as faults | A write error inside pingLoop or readLoop makes close() wait on its own goroutine forever. |
| framing | `MC_Framing.cfg` | pass | TypeOK, FramesInOrder, NoFrameLost | `MC_Framing`; about 600 states | Whatever sizes `conn.Read` returns, readLoop hands on exactly the frames sent, in order, across partial headers and spilled content. |
| framing_ping | `MC_Framing_ping.cfg` | violation | FramesInOrder | a PING carrying 6 bytes, then a packet | The PING's payload is parsed as the next header. |
| streams | `MC_Streams.cfg` | pass | RegistryHoldsOpenStreams, RegistryInv, HandlerStreamsClosed, ImplementsRegistry | `MC_Streams`; about 3000 states | Between frames the registry holds only open streams, and the invariant used in the proof holds. Every stream handed to the handler is closed once the connection closes, whether the user or readLoop's failed read or push closed it. The two-step close of a stream acts as one atomic step of `StreamRegistry`. |
| streams_orphan | `MC_Streams_orphan.cfg` | violation | UserStreamRegistered | as streams | readLoop's `Create` overwrites a stream `NewStream` just registered. |
| streams_late | `MC_Streams_late.cfg` | violation | StreamsClosedAfterClose | as streams | `NewStream` after `Close()` leaves an open stream. |

### Why these bounds are enough

- **Framing** (`MC_Framing`):
  - `BufCap = 9` is one header plus one byte. A 10-byte content therefore always spills and makes `buf` grow, and reads of any size split headers at every offset.
  - The frames are a 1-byte packet, a PING, an empty packet and a 10-byte packet.
  - `Uint32s` is replaced by `0..2^31-1`, because TLC's integers are 32-bit; no content length comes near it.
- **Streams** (`MC_Streams`): two ids and four frames (content for 1, sentinel for 1, content for 2, content for 1). This lets a stream be:
  - created by readLoop;
  - closed by the peer;
  - re-created;
  - raced by `NewStream` for the same id.
- **Async** (`MC_Async`): `Inbound = user, ping, user` lets:
  - a queued packet meet close();
  - readLoop's PONG race the user's write;
  - a second push find the queue closed.
- One PING tick lets pingLoop race the user's write and close().
- The liveness and fault runs use shorter traffic to keep the product with the Büchi automaton, or with the fault branches, small. Every action and every disjunct of `Next` fires across the passing runs.

## Findings

1. **Send on a closed channel** (`async.go:327`). `writePacket` tests `c.closed` at 290 and sends on `c.flushCh` at 327. A `close()` in between closes the channel at 368, and the send panics.
2. **Frames interleave on the wire** (`async.go:303`, `314`). The header and the content are two separate locked writes. pingLoop's PING or readLoop's PONG can come between them, and the peer then parses content as a header.
3. **Early ConnectionClosed** (`async.go:193`). A reader running during close() sees `closed` and an empty `stalePackets` before close() has run `Set(Drain())` at 373. If it stops at that error, it loses packets that were already parsed (spec §7; invariant 8).
4. **close() waits on itself** (`async.go:371`). `writePacket` calls `closeWithError` itself at 300, 311 and 321. From pingLoop (422) or readLoop (481), that happens before the loop's `wg.Done()`, so `wg.Wait()` never returns. As a result:
   - the error is never stored;
   - the stale buffer is never filled;
   - the socket is never closed.
5. **A PING/PONG payload is not consumed** (`async.go:479-490`). Those cases do not fall through to the content handling. A payload is left in `buf` and decoded as the next header, and readLoop hands on a packet the peer never sent. Spec §4.7 says the payload is consumed.
6. **readLoop's Create orphans a user stream** (`async.go:556`). readLoop's `Get` (498) finds no stream, and then `NewStream` registers one. readLoop's `Create` replaces it unconditionally. As a result, the stream the user holds gets no more packets and `CloseAll` never closes it.
7. **NewStream after Close** (`async.go:251`). `NewStream` does not test `c.closed`. A stream it registers after `CloseAll` is never closed.

## Proofs

Proved with TLAPS for every value of the constants that satisfies the modules' assumptions.

**`AsyncProofs.tla`**

- **TypeCorrect**: `Spec => []TypeOK`. TypeOK is split along the variable groups (`TSig`, `TQue`, `TWrt`, `TCtl`, `TCnt`). One lemma per group (`NextTSig` ...) shows that every action keeps that group typed. Lemmas on the writer (`BufWriteTyped`, `BufFlushTyped`) and on `PollStale` carry the sequence reasoning. TLC checks `TypeOK` as the first conjunct of `ConservationInv`, not as a property of its own: no change to the Go code could break the typing alone.
- **ConservationInvariant**: `Spec => []ConservationInv`, and from it **PacketsConserved**: `Spec => []PacketConservation`. PacketConservation (`delivered \o incoming \o stalePackets = pushed`) is not inductive on its own. A push after the drain, or a second drain, would break it. The strengthening says:
  - `DrainInv`: once drained, the connection is closed, the queue is closed and empty. Before the drain, the stale buffer is empty.
  - `OwnerInv`: only one goroutine can be between the CAS and the drain, and it won the CAS. In `c_wait`, the queue is closed.

  With these, each of the following keeps the concatenation equal to `pushed`:
  - `RLDispatchUser`: the push needs an open queue, hence an empty stale buffer (`ConcatAppend`);
  - `URPop` (`ConcatHeadTail`);
  - `PollStale`: it only has packets after the drain, when the queue is empty;
  - `CloseWait`: it moves the whole queue into an empty buffer.

  TLC checks ConservationInv as an invariant in `async_safety`.

**`AsyncRefinementProofs.tla`**

- **ChannelRefinement**: `Spec => ImplementsChannel`.
  - Initial states map to `PacketChannel`'s initial state.
  - Every step maps to a `Receive`, a `Deliver`, a `Close` or a stutter (`NextChannel`).

  A push must be a `Receive` of the *next* user frame, which needs `RLInv` (checked by TLC on the safety and fault instances before it was proved). RLInv says:
  - the last pushed frame is at most `rin`;
  - no user frame lies between it and the frame being read;
  - between reads, the frame readLoop last read is either pushed or not a user frame.

  `RLInv` is inductive given the type invariant (`NextRL`). Together with `DrainInv` and `OwnerInv`:
  - the stale buffer is empty whenever readLoop pushes or `Pop` succeeds;
  - the queue is empty whenever `Poll` delivers;
  - `CloseWait` moves the queue into an empty buffer, which is a stutter.

**`PacketChannelProofs.tla`**

- **ChannelInOrder**: `Spec => []ReceivedInOrder` for every inbound sequence. `CInv` adds the types of the sequences. `Receive` appends the next user frame after `last`, which is larger than every packet received and leaves no user frame unreceived before it. `Deliver` moves the head of `q` to the end of `delivered`, leaving `delivered \o q` unchanged. Lemmas `ConcatAppendNat` and `ConcatHeadTailNat` state these two facts about concatenation.

**`AsyncCloseProofs.tla`**

- **ErrorWrittenOnce**: `Spec => ErrorStoredOnce`, an action property: once `c.error` is set, no step changes it. `closeWithError` stores only when its `close()` won the CAS. The proof rests on `StoreInv` (checked by TLC on the fault instance before it was proved):
  - while the connection is open, no error is stored;
  - at most one goroutine is past the CAS inside `close()`/`closeWithError` (`c_sig` to `c_store`);
  - that goroutine is there while `c.error` is still unset.

  `NextStore` shows `StoreInv` inductive given `TCtl`. Every step other than the winner's `CloseStore` leaves `closed` and `error` alone and moves nobody past the CAS (`StoreKeep`, `StoreFrame`).

**`StreamsProofs.tla`**

- **RegistryInvariant**: `Spec => []RegistryInv`. From it follow:
  - **StreamsTypeCorrect**: `Spec => []TypeOK` (TLC checks `TypeOK` as the first conjunct of `RegistryInv`);
  - **RegistryOpen**: `Spec => []RegistryHoldsOpenStreams`.

  RegistryHoldsOpenStreams is not inductive: `Remove(id)` clears only one slot, and `NewStream` can change the registry while readLoop routes a frame. `RegistryInv` adds:
  - a registered stream sits under the id it was created for (`sid[d[i]] = i`), so `Remove` unregisters it everywhere;
  - from `Get` to the end of the frame, readLoop's stream is still the one registered for the frame's id, because `NewStream` only fills an empty slot;
  - the only closed registered stream is the one readLoop closed and is about to remove;
  - `CloseAll` runs only after readLoop has returned.

  There is one lemma per action (`RLGetStep` ... `UNewStreamStep`). `CreateKeeps` covers `newStream` for both callers, and `NextInv` combines them. TLC checked `RegistryInv` in the `streams` run before it was proved.

**`StreamRegistryProofs.tla`**

- **OpenRegistered**: `Spec => []OnlyOpenRegistered`. It is not inductive alone: `CloseStream` closes the stream under one id, and the same stream might sit under another. `OneId` adds that a stream is registered only under the id it was created for (`made[reg[i]] = i`), so it sits under one id at most; the type invariant keeps `closed` within the streams made, so a freshly created one (`Len(made)+1`) is not closed. One lemma per action.

**`StreamsRefinementProofs.tla`**

- **StreamsRefinement**: `Spec => ImplementsRegistry`. There is one lemma per action (`RLCloseStreamRefines` ...), resting on `IParts` of `StreamsProofs`. The stream readLoop closes at 546 is the one registered for the frame's id. So a `NewStream` before the `Remove` finds that id taken and creates under another id, which commutes with the pending removal (`UNewStreamRefines`). `CloseAll` runs only after readLoop has returned, so `RegView = d` then.
- **ViewOnlyOpen**: `Spec => []Registry!OnlyOpenRegistered`. It instantiates `StreamRegistryProofs` under the mapping and uses its `InitRInv` and `NextRInv`, with `NextRefines`. The registry's invariant thus holds of `Streams` at every step, also between 546 and 547.

**`MetadataProofs.tla`**

- **HeaderRoundTrip**: for every id and operation below 2^16 and content length below 2^32, the bytes `Encode` produces are 8 bytes, and `Decode` returns the same three fields. Lemmas `Uint16RoundTrip` and `Uint32RoundTrip` carry the div/mod arithmetic. `Encode` is written as a function over offsets, as the Go code puts each field at its offset.

**Only model-checked:**
- **Liveness** (`CloseCompletes`, `FlushProgress`, `HandlerStreamsClosed`): it needs fairness and ENABLED, which are out of reach of the provers here.
- **The properties of `Framing`**: the module uses a RECURSIVE operator (`GrowCap`). More fundamentally, even its type invariant needs facts about `Wire`, the concatenation of all frames, which `FlattenSeq` builds with a recursive function. Proving what that yields for every sequence of frames is induction over data.
- **`HandlerStreamsClosed`** (liveness, see above).
- **The violations**.

## Not modelled

- **The `Stream` type, `newStream` and `Stream.Close`** are not under `src/`. In `Streams` a stream is an identity, and closing one adds it to `sclosed`. The race this leaves open is noted as a hazard without a property: a `NewStream` between `stream.close()` (546) and `Remove` (547) returns the closing stream.
- **A write lost after close()'s final flush** (`async.go:377`) is not checked. `Async` abstracts the socket to pieces and the final flush to one step, so no property can yet tell a write that passed the `closed` test and was never flushed from one the socket failed to send.
- **`Flush()` and `Raw()`** reuse `flush` and `close`. `SetDeadline`, `WriteBufferSize`, `Error`, `Closed` and `Logger` only read or forward state.
- **The legacy gnet codec** (`src/internal/codec`) is not used by the engine.

# TLA+ models of the i2pcpp SSU transport

This directory holds TLA+ models of the i2pcpp router's SSU transport, of the
process around it and of two I2NP codecs, with the TLC configurations that
check them. SSU is UDP-based: it fragments messages, reassembles them,
acknowledges them and retransmits them. `PROJECT.json` lists
the components, the runs, the mutants, each definition's source lines, the
findings and the hazards. This README explains them.

## 1. Inventory

The source tree holds two generations of the code. The newer one is
`src/lib/ssu/*`, `src/lib/i2p/*`. The older one is `src/ssu/*`,
`src/transport/*` and `src/Router.*`. Many files are only headers, or are
bodies whose headers are missing.

| Component | Source | State it keeps | Operations |
|---|---|---|---|
| Outbound message fragmentation (OMF) | `lib/ssu/OutboundMessageFragments.cpp` | `m_states`: msgId -> OutboundMessageState (fragments, sent/acked bits, tries, a 2 s `deadline_timer`) | `sendData`, `sendDataCallback` (posted chain), `timerCallback` (retransmission), `delState` |
| Inbound message reassembly (IMF) | `lib/ssu/InboundMessageFragments.cpp` | `m_states`: multi-index by msgId and peer hash -> InboundMessageState (fragments, last index) plus a 10 s timer | `receiveData` (applies full ACKs and partial ACKs to OMF, then parses and adds fragments), `addState`, `checkAndPost`, `timerCallback` |
| Acknowledgement scheduler | `lib/ssu/AcknowledgementManager.h` (header only) | a 1 s timer | `flushAckCallback`: for each peer, one datagram acking what was received |
| Establishment | `ssu/EstablishmentManager.h` (header only) | inbound/outbound tables keyed by endpoint, two mutexes | `establish`, `sendRequest`, `processCreated`, `sendConfirmed` |
| UDP transport | `transport/UDPTransport.h` (header only) | socket, peer list, the components above | `connect`, `send`, `disconnect`, `dataReceived`, `sendPacket` |
| Reactor / service thread | `lib/i2p/Router.cpp`, `Router.cpp` | one `io_service`, one thread | runs handlers one at a time; the newer loop catches exceptions and resumes |
| Packet codec | (only tests in `tests/testi2p.cpp`) | — | AES-CBC encrypt, HMAC verify |
| Tunnel gateway codec | `i2np/TunnelGateway.cpp` | — | `getBytes`, `parse` |
| Build response record | `datatypes/BuildResponseRecord.cpp` | — | `compile`, `parse` (hash check) |
| Value types, context, database, CLI | `datatypes/*`, `src/RouterContext.h`, `Database.h`, `frontends/console/main.cpp`, ... | — | serialisation, wiring, file and command-line I/O |

**Interactions.** A datagram from a peer reaches `receiveData` at the
receiver. Its ACK fields remove or mark states of the receiver's own OMF. Its
fragments go into IMF. A completed message is posted upward
(`receivedSignal`). `flushAckCallback` reads IMF once a second and sends ACK
datagrams back. At the sender, `receiveData` applies them to OMF. OMF sends
through `Context::sendPacket` and drives itself with posted callbacks and
timers. All of this runs as handlers of one `io_service` on one thread
(`Router::start`). Posted handlers, timer expiries and socket completions
interleave in any order the queue produces. The mutexes never nest, so they
add nothing under one thread.

**What is hard.**
- Interleaving of the posted send chain with the retransmission timer.
- Duplicated, lost and reordered datagrams against state kept for 10 s.
- ACKs that arrive before, during or after retransmission.
- The retry ceiling.
- Timers that fire after the state they serve is gone.
- Message ids are not scoped by peer.
- Adversarial bytes in `receiveData`.

**What makes each component correct.**
- OMF: a state is removed exactly once, by ACK or by the ceiling. Nothing is
  sent after removal. The number of transmissions is bounded. A removal by
  ACK means the receiver holds the whole message. The send chain never runs
  dry.
- IMF: one delivery per message. The delivered message is the sender's, with
  all its fragments. Abandoned states expire.
- ACK scheduler: it never acks a fragment that was not received.
- Establishment: at most one session per peer, one `onConnected` per
  handshake, and no session without a verified confirmation.

## 2. Plan

1. **`SSU`**, done: the data path. It models OMF, IMF, the ACK scheduler and
   the network in one module. `receiveData` is one handler that writes both
   OMF (ACKs) and IMF (fragments), so the two tables share the action that
   changes them. Each component has its own section, and each definition is
   named after the source function it models.
2. **`ReceiveDataParse`**, done (section 4): the byte-level parse of
   `receiveData`, including the partial-ACK bitfield decoder, checked
   against a builder and bitfield encoder written from spec 6 and 9.
3. **`TunnelGateway`** and **`BuildResponseRecord`**, done (sections 5 and
   6): codec round trips. Neither the spec nor a test states what these
   codecs promise, so they are checked against the code's own pairing of
   `getBytes`/`parse` and `compile`/`parse`.
4. `Establishment`: not written. `EstablishmentManager.h` declares the
   handshake's operations and its two endpoint-keyed tables, but no body,
   state class or packet builder of the handshake is in the tree, so a module
   would translate spec 4.2 rather than this code (section 8).
5. **`RouterLifecycle`**, done (section 7): the service thread, `stop`,
   `~Router` and the console's main thread from start to exit.
6. `StaticByteArray`: its `ByteArray` constructor leaves the tail
   uninitialised for short input, so two arrays built from the same bytes
   may compare unequal. Its string form depends on `Base64`, which is not in
   the tree.
7. A clocked variant of `SSU`, where timers fire after their real durations
   (1 s, 2 s, 10 s). It separates what happens with real timeouts from what
   only happens when the reactor lags.

## 3. The `SSU` module

**State.**
- `omf[r]`, `imf[r]`: the two tables of router `r`, as partial functions
  from message id.
  - An outbound state holds `dst`, `n` (the fragment count), `sent`, `ackd`,
    `tries`, and `timer`: whether a retransmission wait is pending.
  - An inbound state holds `hash`, the peer that created it. It also holds
    `rcvd`, a map from fragment number to the data received for it. The data
    is the router that sent the fragment, which is all the properties tell
    apart. It also holds `last` and `pending`, whether an ACK is owed.
- `posted`: the `sendDataCallback` handlers queued on the reactor, each as
  `<<r, id, d>>`: `boost::bind` copies the `PeerState` of peer `d` into the
  handler, so the chain sends to `d` whatever state it finds under `id`.
- `net`: the datagrams in flight. It is a set, so datagrams are reordered;
  `Lose` drops one; `Receive` may leave a datagram in flight, which
  duplicates it.
- History variables for the properties: `delivered`, a bag of upward posts
  counted up to 2; `everRcvd`; `outcome`; `txCount`, all datagrams of a
  message; `faulted`, whether
  `sendDataCallback` threw; and `issued`, the messages handed to `sendData`.

**Actions.**
- `sendData`. It arms the timer, emplaces the state and posts the callback.
  The upper layer may hand it an id still in flight (`sendData` does not
  check). Then `emplace` keeps the old state, the new timer is destroyed with
  the new state, and the callback bound to the new peer is posted anyway.
- `sendDataCallback`. It sends the lowest unsent fragment and re-posts
  itself. With no unsent fragment it throws, which is `unwindToServiceLoop`.
- `omfTimerCallback`. Past the ceiling it erases the state. Otherwise it
  resends any unacked fragment, increments `tries` and re-arms the timer. It
  does not re-arm when nothing is unacked.
- `Receive(p)`, which is `receiveData`. It runs `applyAcks`, then
  `applyPartial` (mark, then drop the fully acked states), then the fragment
  loop (`receiveFragment` folded over the datagram's fragments: find by id,
  or create, `addFragment`, `checkAndPost`).
- `imfTimerCallback`. It erases an inbound state, complete or not.
- `flushAckCallback`. For every peer with pending states it sends one
  datagram: complete messages go in the full-ACK list, the others as partial
  ACKs. It then clears `pending`.

Removing a state also removes its timer wait. This covers both cases of a
removed timer: one that was cancelled, and one whose handler was already
queued when the state was erased and which then finds no state. Both are
no-ops unless an id is reused (`ssu_msgid_reuse`). Then a queued callback
could act on the newer state, which the model does not produce (section 8).

Some classes are not in the tree: `InboundMessageState`,
`OutboundMessageState`, `PacketBuilder`, and the body of `flushAckCallback`.
The helpers that stand for them follow the spec and are marked
`spec_modelled` in the map. Two choices in them are open:
- "The next unacked fragment" is any unacked fragment (`\E`), which covers
  every order the class could use.
- `tries` starts at 0. Under that reading, `getTries() > 5` allows six
  retransmissions, which is also how spec 4.4 words the ceiling ("exceeds
  5"). `MaxTransmissions` checks the resulting bound of `n + 6` datagrams.
  Spec 8 says instead that a message that is never acked is "retransmitted
  exactly 5 times". Which count the code gives depends on the absent
  class's initial `tries`, so this is not recorded as a finding.

Datagrams in `SSU` carry decoded ACK sets: the fragment set `ackPacket`
puts in a partial ACK is the set `markAckd` marks. This takes the absent
`PacketBuilder` to write bitfields in the bit order `receiveData` reads
them (lines 57-64). Written as spec 6 and 9 say, they would be read
mirrored within each group of 7 fragments; `ReceiveDataParse` shows that
at the byte level (`parse_roundtrip`, section 4).

**Fairness.** The reactor runs every queued handler and every armed timer:
`WF` on `sendDataCallback`, on both timer callbacks and on `flushAckCallback`,
which re-arms forever. The network gets no fairness, because UDP may lose
everything. The upper layer gets none either, because sends are optional.

**Bounds.** The model has one receiver, `us`, and one or two peers. A message
has 1 or 2 fragments. Two fragments are enough for reordering, partial ACKs
and a retransmission of one fragment while the other is acked. The retry
ceiling is the code's 5. Nothing in the model is capped except the delivery
count, which is capped at 2, because "twice" is all the properties tell
apart.

### Runs

| Run | Config | Expect | What it shows |
|---|---|---|---|
| `ssu_transfer` | `SSU_transfer.cfg` (p1 -> us, 2 fragments) | pass, ~82k states | `TypeOK`. `DeliveryIntegrity`: a delivered message is the sender's, complete. `AckedImpliesReceived`: a sender drops a message as acked only if the receiver parsed every fragment, whatever partial ACKs, expiries and losses happen. `MaxTransmissions`: a message costs at most `n + 6` datagrams, however the chain, the timer and the ACKs interleave (the bound is reached). `NoSendAfterRemoval`: no datagram of a removed message. `OutboundEventuallyRemoved`: no outbound state or timer leaks. |
| `ssu_duplicate_delivery` | 1 fragment | violation | `AtMostOnceDelivery` fails. The completed state is kept until its timer, so a duplicated or retransmitted fragment re-delivers the message. |
| `ssu_msgid_collision` | p1 and p2 both use `m1` | violation | `DeliveryIntegrity` fails. IMF looks states up by id alone, so the messages are merged and delivered as p1's. |
| `ssu_acked_undelivered` | 2 fragments | violation | `AckedImpliesDelivered` fails. Fragment 0 is partially acked, the receiver's 10 s timer erases the half-received state, and a late retransmission of fragment 1 opens a new one. Its partial ACK completes the sender's set, so the sender removes the message as acked, though the receiver never delivered it. |
| `ssu_send_fault` | 2 fragments | violation | `NoSendFault` fails. The timer resends fragment 1 before the chain reaches it, and the chain's next step throws. |
| `ssu_msgid_reuse` | p1 sends a 1-fragment message to p2, then a 2-fragment message to us under the same id | violation | `AckedImpliesReceived` fails. The second `sendData` keeps the first state, but its chain, bound to us, sends the first message's only fragment to us. We deliver it as a complete message and ack the id, and p1 removes the id as acked: the second message was never sent and the first never reached p2. |

Each property of the passing run has a mutant, a plausible bug in the
definition it guards, that TLC must catch:
- `retriesExhaustedLate` (`tries > 6`) breaks `TypeOK`.
- `allFragmentsReceivedLastOnly` breaks `DeliveryIntegrity`.
- `resendNoCount` (a resend that does not increment the try counter) breaks
  `MaxTransmissions`.
- `applyPartialDropAll` (drop on any partial ACK) breaks
  `AckedImpliesReceived`.
- `omfTimerCallbackNoReturn` (missing `return` after the erase) breaks
  `NoSendAfterRemoval`.
- `applyPartialKeep` (forgets `delState` once all fragments are acked)
  breaks `OutboundEventuallyRemoved`. Without that `delState`, a state whose
  fragments were acked by two partial ACKs has its timer stop and is never
  removed.

### Findings

The findings are in `PROJECT.json`:
1. Duplicate delivery (code bug).
2. Message ids not scoped by peer (divergence from the spec).
3. An acknowledged message need not have been delivered (spec gap). Partial
   ACKs from an expired inbound state and its successor add up at the
   sender.
4. The send chain throws when the timer overtakes it (code bug). This needs
   the reactor to lag 2 s behind the chain.
5. The partial-ACK bitfield is decoded mirrored within each 7-fragment
   group (divergence from spec 6, 8 and 9; section 4).
11. The fragment loop of `receiveData` never advances past a fragment's
    payload, so the next fragment's header is read from it: a well-formed
    datagram with two fragments is rejected after its first (code bug;
    section 4).
6. The partial-ACK fields are read without length checks, so a short
   datagram is read past its end (code bug; section 4).
7. `TunnelGateway::parse` depends on the evaluation order of unsequenced
   reads (undefined behaviour), and one order misreads the size and reads
   past the end (code bug; section 5).
8. A shutdown signal can be lost between main's test of `quit` and its
   sleep (code bug; section 7).
9. `~Router` hangs when starting the transport throws (code bug; section 7).
10. `sendData` with an id still in flight keeps the old state but posts a
    chain bound to the new peer, which sends the old message there (code
    bug). The new message is lost, and the old one can be removed as acked
    by the wrong router.

The older service thread (`src/Router.cpp:19`) lets a handler's exception
terminate the process. No run checks it; it is listed as a hazard.

## 4. The `ReceiveDataParse` module

`parseData` is `receiveData` (lines 25-97) with the table updates left out: a
pure operator from a byte sequence (bytes are integers 0..255) to a status
(`ok`, `malformed` for each `throw`, `overrun` for a read past the end) and
what was read. Each loop of the code is a RECURSIVE operator: `parseAcks`,
`parsePartial` with `parseBitfield`, and `parseFrags`. `parseFrags` reads
each fragment's payload at the position after its header and, as line 95
does, leaves the position there: the next header is read from the payload.
Every length test of
the code is kept, at the point it is made; a read that no test protects ends
the parse with `overrun`, since its outcome is undefined. `parseBitfield` is
the do/while of lines 54-67: bit `i` (6 down to 0) of byte `byteNum` marks
fragment `fragOfBit(byteNum, i) = byteNum*7 + (6-i)`, and bit 7
(`continues`) says another byte follows. `buildData` builds a datagram as
spec 6 lays it out, and `encodeBitfield` encodes a partial ACK as spec 6 and
9 do, fragment `byteNum*7 + bitPos` in bit `bitPos` (`PacketBuilder` is not
in the tree).

The state is the datagram `dg` and, when a sender built it, its content
`sent`; `Next` leaves both unchanged, so each initial state is one input.

| Run | Config | Expect | What it shows |
|---|---|---|---|
| `parse_roundtrip` | `ReceiveDataParse_roundtrip.cfg` on `MC_ReceiveDataParse`: one full ACK; no partial-ACK field or one acking {0,1,2,8}; one fragment, or two with payloads `<<1, 2>>` and `<<3>>` | violation | `ParseRoundTrip` fails. With two fragments the second header is read from the first payload, whose size field then exceeds what is left, so the datagram is rejected after its first fragment. With the partial ACK, {0,1,2,8} comes back as {4,5,6,12}: each bitfield is read mirrored within its group of 7, not as the set spec 8 says comes back. |
| `standalone_check` | `Standalone_check.cfg` on `MC_Standalone`: 1302 built datagrams (0 or 1 full ACK of ids 0, 0x01020304, 0x7FFFFFFF; 0 to 2 partial-ACK fields acking {0}, {0,1,2,8} or {6,7,13}; 0 or 1 fragment with number 0, 1 or 127, either last flag, payload 0 or 2 bytes) | pass | `TruncationDetected`: every strict prefix of a datagram with at most one fragment and no partial ACKs is rejected with a `throw`, never read past its end. Datagrams with partial ACKs are left out because those reads are unchecked (`parse_bounds`), and those with two fragments because the second is misread (`parse_roundtrip`). |
| `parse_bounds` | `ReceiveDataParse_bounds.cfg`: every byte sequence of length 0 to 3 over {0x00, 0x01, 0x40, 0x80, 0xC0} | violation | `NoOverread` fails on `<<0x40>>`: the partial-ACK flag makes line 47 read `numFields` past the end. The message ids and bitfield bytes after it are unchecked too. |

`MC_Standalone` checks this module's passing property together with those
of `BuildResponseRecord` (section 6) and `RouterLifecycle` (section 7).
They share no state, so the run explores their disjoint union: a variable
`part` says which component a behaviour is about, only that component
takes steps, and the others' variables stay at their initial values.
`RouterLifecycle`'s fairness is stated on its steps within the union.

Bounds: message ids stop at 0x7FFFFFFF because TLC's integers are 31-bit.
Payload sizes stay small, so the 14-bit size mask is exercised only on small
values. The acked sets need one or two bitfield bytes, so the continuation
bit and the second byte's offset both matter. The mutant
`headerTooShortBy6` (the header test one byte short) breaks
`TruncationDetected`.

## 5. The `TunnelGateway` module

`getBytes` (lines 5-21) writes the tunnel id big-endian, the payload size as
a `uint16_t` and the whole payload. `parse` (lines 23-31) reads the id from
four `*(begin++)` operands and the size from two, all operands of `|`. They
are unsequenced, so changing `begin` in several of them is undefined
behaviour. The builds one meets read a distinct byte per operand, in the
order they evaluate the operands. `parse` therefore returns a set of
results, one per pair of orders (`readOrders`, `readBE`). The payload is
copied with no check against `end`; a read past it is `overrun`.

| Run | Config | Expect | What it shows |
|---|---|---|---|
| `tunnelgateway_roundtrip` | `TunnelGateway_roundtrip.cfg`: ids 0, 0x01020304, 0x7FFFFFFF; payloads empty and `<<1, 2>>` | violation | `RoundTrip` fails on tunnel id 0 with payload `<<1, 2>>`: the size bytes `<<0, 2>>` read right to left give 512, and the payload copy runs past the end of the 8-byte message. |

The size truncation at line 7 (payloads of 65536 bytes or more) is outside
these bounds; it is listed as a hazard.

## 6. The `BuildResponseRecord` module

A hop builds its reply with `compile` (lines 45-66): 495 random bytes and
the reply byte make the 496-byte response. Its SHA-256 digest is split:
the first 16 bytes go to `m_header`, the last 16 in front of the response
in the 512-byte `m_data`. The tunnel's creator calls `parse` (lines 22-43),
which takes the reply from the last byte and compares header plus
`m_data[0..16)` with the digest of `m_data[16..)`. SHA-256 is
collision-free here: digest byte `i` of `x` is the token
`<<"sha256", x, i>>`. The actions are `compileRecord`, `tamperRecord` (one
data byte changed on the way back, the fault model) and `parseRecord`.

| Run | Config | Expect | What it shows |
|---|---|---|---|
| `standalone_check` | `Standalone_check.cfg` on `MC_Standalone` (with sections 4 and 7): replies 0, 10, 30; two paddings; changes at 8 positions covering digest, padding and reply bytes | pass, 109 of the run's states | `AcceptsCompiled`: an unchanged record parses as valid with the hop's reply. `RejectsTampered`: any one changed byte is detected. |

Mutants: `hashedPartFrom16` (the hash taken one byte early) breaks
`AcceptsCompiled`; `hashMatchesHeader` (only the header half compared)
breaks `RejectsTampered`. `parse` never checks the size of `m_data`; which
sizes reach it depends on `BuildRecord`'s parse, which is not in the tree
(a hazard).

## 7. The `RouterLifecycle` module

The process around the reactor, in three threads of control:
- **main** (`frontends/console/main.cpp`): `installHandlers` (60-66),
  `parseCommandLine` (68-112: `--help` and `--version` return, a bad option
  throws), `runCommand` (114-263: the database and configuration commands,
  each of which returns or throws), `prepareStart` (265-296: the control
  server and the key files, which may throw), `startRouter` (`Router::start`, which spawns the service thread and
  then binds the transport, which may throw), `checkQuit` and `block` (the two
  halves of `cv.wait(lock, pred)` at 304), `drain` (the graceful loop),
  `stop` (`Router::stop`) and `destroyRouter` (`~Router` joins the service
  thread).

  `main.cpp` is written against a Router that neither generation in the
  tree provides: it calls `Router(db, cb)`, `addTransport`,
  `gracefulShutdown` and `isActive`, which no Router defines. The model
  joins main's control flow to the `start`, `stop` and `~Router` that the
  tree does define (`lib/i2p/Router.cpp`, whose `start` itself binds the
  transport at line 92 and may throw there). `drain` stands for
  `gracefulShutdown` and the `isActive` loop, which are taken to end; no
  property is about the graceful path beyond reaching `stop`.
- **the service thread** (`lib/i2p/Router.cpp` 55-65): inside `run()`; a
  handler throws (`handlerThrows`), the loop catches and calls `run()` again
  (`reenterRun`); `run()` returns only after `stop()` and the loop breaks
  (`runReturns`). With `CatchInServiceLoop = FALSE` it is the older
  `src/Router.cpp:19`, where the exception ends the process.
- **the signal handlers** (`main.cpp` 41-52): set `quit` (and `graceful`
  for SIGUSR1) and `notify_all`, which wakes main only if it already sleeps.

Fairness: weak fairness on main's steps and on the service loop's steps,
since the OS schedules both threads. Signals, handler exceptions and
spurious wakeups get none: they may never happen. Bounds: SIGINT and
SIGUSR1, each delivered at most twice (a user pressing Ctrl-C again).

| Run | Config | Expect | What it shows |
|---|---|---|---|
| `standalone_check` | `Standalone_check.cfg` on `MC_Standalone` (with sections 4 and 6), `StartMayFail = TRUE` | pass | `StopLeadsToExit`: after `stop()`, even with a handler's exception in flight, the loop breaks and the process exits. |
| `lifecycle_lost_wakeup` | `RouterLifecycle_lost_wakeup.cfg` | violation | `QuitWakesMain` fails: a signal between the test of `quit` and the sleep is lost (the handler cannot take `mtx`). |
| `lifecycle_start_failure` | `RouterLifecycle_start_failure.cfg` | violation | `StartFailureExits` fails: the transport's bind throws after the thread started, and `~Router` joins a thread whose `run()` never returns, because nothing called `stop()`. |

Mutant: `runReturnsNoBreak` (the loop without its `break`) breaks
`StopLeadsToExit`. The constant `CatchInServiceLoop = FALSE` is the older
thread function of `src/Router.cpp:19`, which has no `catch`: any handler
exception, such as `receiveData`'s on a malformed datagram, would terminate
the router. Every run uses the newer loop.

## 8. Not modelled (yet)

- Cryptography: the packet codec, DH and signatures. They are out of TLC's
  reach; a verified datagram is modelled as one that was sent.
- Peer lookup by endpoint (`PacketHandler`).
- `RouterIdentity`. Its iterator constructor (RouterIdentity.cpp:10-14)
  parses the certificate in the member initializer, before the key bytes.
  `getBytes` writes the certificate after them, so the two disagree on
  field order. No code in the tree calls that constructor. The test uses a
  later `(begin, end)` constructor, and `RouterIdentity.h` and
  `Certificate` are absent, so there is no caller to model.
- The establishment handshake and session keys. Only the declarations of
  `EstablishmentManager.h` are in the tree. Nothing in the tree changes a
  `PeerState`'s keys or endpoint, so the copy that OMF's callbacks capture
  cannot go stale in this code.
- The database, tunnels and the DHT. They are out of the spec's scope, and
  most of their bodies are not in the tree. The console's commands are
  steps of `RouterLifecycle` that return or throw.
- `StaticByteArray`, `RouterIdentity` and the other value types: byte
  copies with no state machine. The uninitialised tail of a
  `StaticByteArray` built from a short `ByteArray` is a hazard.
- Real time. Timers fire in any order, so the model covers every reactor
  lag, but it cannot say how much real time the six retries of a message
  span (OMF re-arms its timer from the previous expiry, not from now).
- A timer callback already queued when its state is erased. The model
  removes the wait with the state. This differs only when an id is reused
  after its state was removed.

Some hazards have no property; see `hazards` in `PROJECT.json`, where each
one's note says why.

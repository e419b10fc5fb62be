# Specifications of iroh-webrtc-transport

TLA+ models of this crate and of its browser chat, checked with TLC on small
instances, and theorems about some of them proved with TLAPS for every value of
the constants. Paths are relative to the directory that holds `src/` and `tla/`:
the crate's sources are `src/src/*.rs`, the chat page is `src/examples/chat/`.

## The system

iroh's QUIC sends and receives datagrams through *custom transports*. The crate
adapts any *datagram carrier* to that interface and brings three carriers: an
in-memory network, a native WebRTC data channel (webrtc-rs) and a browser WebRTC
data channel (web-sys). A chat application runs on top: a page opens a data
channel, gives it to the wasm module, and two users type to each other over one
QUIC stream.

    page (chat.js)  --RTCDataChannel-->  chat.rs            the application
       ^  signaling between tabs,          |  iroh endpoint, QUIC stream
       |  or by a link                     v
     other page                         adapter.rs          iroh's custom transport
                                           |  DatagramBackend (datagram.rs)
                         +-----------------+------------------+
                   in_memory.rs      webrtc_native.rs     webrtc_wasm.rs

| Part | State | Operations | Hard to get right |
|---|---|---|---|
| Seam, `datagram.rs` | none | `send`, `poll_recv`, `split`, `local_key` | what a carrier may do to a datagram: drop it, never forge, misroute or repeat it |
| Adapter, `adapter.rs` | where the two halves are; the receive buffers of one poll | `bind`, `create_send`, `poll_send`, `is_valid_send_addr`, `poll_recv` | a wake-up must not be lost between a poll and a push; GSO batches are cut into segments while other threads send; oversized datagrams are skipped in the middle of a batch |
| In-memory carrier, `in_memory.rs` | registry from key to channel | `backend`, `send`, `poll_recv` | a key that is registered again takes the channel over under running senders; full channels |
| Native carrier, `webrtc_native.rs` | two peer connections, their callbacks, one task per datagram | `connect_pair`, `connected_backends`, `send`, `poll_recv` | callbacks run ahead of the negotiation; three signals to wait for; who keeps a peer connection alive; spawned sends overtake each other |
| Browser carrier, `webrtc_wasm.rs` | map from key to channel, one inbound queue | `register`, `wire_inbound`, `send`, `poll_recv` | the page opens the channel before the handler is installed, and either end closes by itself |
| Chat, `chat.rs` | outbound and inbound queues, two loops per stream, the one outbound receiver | `start_chat`, `accept`, `send`, drop of the handle | a stream is invisible until something is written; the receiver can be taken only once; writes fail between a length and its text; messages too long or empty |
| Signaling, `chat.js` 121-199 | per tab: peer, role, peer connection | hello, SDP and ICE handlers | async handlers interleave at their awaits; messages have no address; reloads |
| Manual signaling, `chat.js` 142-160, 201-307 | one peer connection, the links users hold | offer and answer links, `waitIceComplete`, `packSdp`, `unpackSdp`, paste | a wait that ends by any of three events and may have begun too late; what the compact form keeps; links of a load that is gone |
| STUN probe, `chat.js` 38-115 | cache in sessionStorage | `probeStun`, `resolveIceServers` | timeout against answer; a stale or empty cache |
| Page start, `chat.js` 29-36, 309-321; loader in `pkg/*.js` | the promise `ready`, the loader's response | `bootstrap`, `__wbg_load` | probing and loading run at the same time; hosts that type or serve the module wrongly |
| Generated bindings, `pkg/iroh_webrtc_transport.js` | per closure a pointer and an owner count, per `Chat` a pointer, finalizers, cached views, a decoder | `makeClosure`, `makeMutClosure`, `Chat.free`, `passStringToWasm0`, `decodeText` | closures dropped inside their own call or called after the drop; the memory grows while a text is copied |
| Static server, `serve.mjs` | none | one handler | the type it gives the module |
| Rest | none | DOM, `lib.rs`, tests, vendored QR code | not modelled: no protocol state, or third party |

What makes each part correct: a carrier implements the seam, and hands up what
arrived (adapter, carriers); a handshake ends, sees every signal, and leaves
nothing behind (native); messages come in order, without gaps, and do come while
the connection lives (chat); tabs pair, one of them dials (signaling); a link
carries what the peer needs and is always shown (manual signaling); servers are
chosen on evidence that is not stale, and the page comes up or says why not (start);
nothing is used after it is freed, freed twice or kept for ever, and texts cross
whole (bindings). The hazards behind these are listed line by line in `PROJECT.json`.

## Modules

| Module | Models | State against code |
|---|---|---|
| `DatagramSeam` | the contract of `datagram.rs`, abstractly | `offered`, `wire`, `got`: what was sent, is under way, was handed up |
| `Adapter` | `adapter.rs`, EXTENDed by each carrier | `life`: the halves parked, bound or dropped; `call`: a running `poll_send`; `queue`, `shut`, `waker`: the mpsc channel; `slots`, `batch`: a running `poll_recv`; `woken`: iroh's driver task |
| `MemTransport`, `MCMemTransport` | `in_memory.rs` on the adapter | `registry`: `MemNetwork.peers` |
| `MemTransport_proofs` | proofs about it | |
| `Adapter_proofs` | lemmas about the adapter that the proofs about all three carriers rest on | |
| `ConnectPair` | `connect_pair` and the ownership of what it makes | `pos`: the await reached; `cands`: the two candidate channels; `forwarding`: the spawned tasks; `wired`, `opened`: callbacks and open signals; `held`: the ends with the caller |
| `NativeTransport`, `MCNativeTransport` | the data path of `webrtc_native.rs` on the adapter | `tasks`: spawned `dc.send`s; `flight`: the data channel |
| `NativeTransport_proofs` | proofs about both modules of the native carrier | |
| `Chat`, `MCChat` | `chat.rs` | `dial`, `serve`: `start_chat` and `ChatProto::accept`; `voice`: who took the outbound receiver; `out`, `writer`, `pipe`, `reader`, `inq`, `got`: a message's way from `Chat::send` to the JS callback |
| `Chat_proofs` | proofs about it | |
| `WasmTransport`, `MCWasmTransport` | `webrtc_wasm.rs` on the adapter, as `start_chat` builds it | `dc`: `readyState` of each end; `wired`: the ends with an `onmessage`; `flight`: the data channel |
| `WasmTransport_proofs` | proofs about it | |
| `Signaling` | Mode A of `chat.js` | `peerId`, `role`: the variables of that name; `chan`: the BroadcastChannel; `ops`, `sig`, `local`, `remote`: the `RTCPeerConnection`; `dc`: the open channel |
| `Signaling_proofs` | proofs about it | |
| `ManualLink` | Mode B of `chat.js`, two devices (`LinkSpec`, `LinkTypeOK` and so on, as it shares a module of proofs with `PageStartup`) | `at`: where `manualSignaling` is; `gathering`, `cands`: the connection's ICE; `links`: what was shown, each with the description it was packed from; `remote`, `warned`, `chat` |
| `PageStartup`, `MCPageStartup` | STUN probing, its cache, `bootstrap`, the wasm loader and its host | `cache`: sessionStorage; `probe`: one `probeStun` per server; `chosen`: `iceServers`; `wasm`, `resp`: the loader; `now`: both clocks |
| `PageStartup_proofs` | proofs about it and about `ManualLink` | |
| `WasmStrings` | texts between UTF-16 and UTF-8 over a growing memory | operators only; `Utf8` and `Units` flatten what each character becomes |
| `WasmBindings` | closures, promise executors, `Chat` handles and texts in the generated glue | `state`: a closure's pointer and `cnt`; `pointer`: `__wbg_ptr`; `calls`: the JS stack; `rust`, `env`: the Rust side; `watched`: the finalizer registries; `fed`, `decoded`: the decoder; `view`: the cached view |
| `WasmBindings_proofs` | proofs about both | |

`MemTransport`, `NativeTransport` and `WasmTransport` compose the adapter with a
carrier and each is shown to implement `DatagramSeam` with a refinement mapping (`Seam`,
`ImplementsSeam`): *wire* is whatever is in the channel, in a task, in flight or in
an unfinished batch. The chat is modelled over a QUIC stream, not over the
datagrams: QUIC is iroh's, and what it makes of lossy datagrams is not this
crate's code. `ConnectPair` names its specification `PairSpec`, its invariant
`PairTypeOK` and so on, so that one module of proofs extends it and `NativeTransport`.

Granularity. A poll of the receive side is one action per datagram, and so is a
segment of a `poll_send`, because other threads run in between. Under the
registry's mutex one send is one action. A JavaScript handler is one action up to
its next await, an async Rust function one action up to the next await whose
completion somebody else can see. Abstractions: payloads are names; a segment is
the range of bytes it carries; a message is its sender, number and one of three
sizes; ids are numbers, and any tab may have the larger;
a description is its type, its DTLS role, the load whose credentials it has, and
its candidates; a character is one of five kinds by its length in UTF-8; a moment
is a count of fractions of a probe's timeout, and the clock does not pass a timer
or a reaction that is due (the page is responsive). Tokio's cooperative
budget, which can make a poll return early with its waker set, is not modelled.
A `poll_send` needs an endpoint that is still bound: iroh's socket owns the sender, and a
clone of its `Arc` that outlives the socket is not modelled. In `ConnectPair` the body of
`on_data_channel`, which has no await, is one step that wires the channel and passes it
on; a channel wired later than that, with its first datagrams lost, would not be noticed.
The page's two clocks, `performance.now` for probes and `Date.now` for the ranking, are
one; a ranking that is not JSON (the `catch` of `readStunCache`) is like none.

External parts, modelled from how the code uses them: tokio's channels and wakers,
iroh's receive driver (polls again after a batch, else when woken), QUIC streams
and connections, the data channel (loses and reorders, never duplicates), peer
connections (one operation at a time, refusal by signaling state, rollback for a
remote offer, candidates shown after their description is set),
BroadcastChannel (to whoever is open, in order per sender), STUN servers (answer,
fail or stay silent), static hosts, `WebAssembly.Memory` (may grow in any call into
wasm, which detaches the views), TextEncoder, and the garbage collector.

## Runs

With two workers each takes between a few seconds and about two minutes. Deadlock
checking is off in every run: these systems may stop, with tabs closed, messages
bounded, endpoints dropped, the clock at its end.

| Run | Checks | Bounds, and why they are enough |
|---|---|---|
| `mem_safety` | `TypeOK` (channels within capacity), `Ordered`, `ImplementsSeam` | Two endpoints, two keys. One transmit is a batch of 2+2+1 bytes, the other a single datagram too long for a slot, so that segments, a short rest, interleaved batches and skipping all occur. `Capacity` 2 (1024 in the code), so a channel is full while a batch is half sent. Polls with 0, 1 or 2 buffers. A segment size of zero is left to the proofs |
| `mem_takeover` | `NoStranded`, `TakenOverForGood`, `HandedUp` | The same two endpoints under one key: the second takes the first one's over at any point of a batch. 1 or 2 buffers: iroh never polls without any |
| `native_safety` | `TypeOK`, `ImplementsSeam` | Two ends, a batch of two and a single datagram, either from either end; at most 2 in flight per direction, so sends also wait; loss, reordering, failure at any time |
| `connect_pair` | `PairTypeOK` (what a callback sent is in its channel or with the other peer, unless the call failed), `NoCandidateRefused`, `Connected` | Two candidates per side, so one can come early and one late, or one be dropped because `to_json` fails and the other not |
| `connect_hangs` | `FailureReported` is violated | One candidate each |
| `chat_delivery` | `TypeOK`, `InOrder`, `FramesAligned`, `Delivered` | One dial; two messages from the initiator and one from the responder, each empty, ordinary or too long, so a message follows one of every kind; handles freed and the connection lost at any time |
| `chat_redial` | `InOrder`, `HeldUntilHeard` | A second dial after the first failed or lost its connection at any point; one message per dial, two from the responder, whose queue outlives a connection; handles freed at any time, which loses the queue of a responder no stream has reached. The page itself dials once per load |
| `signaling_two_tabs` | `TypeOK`, `OneInitiator`, `NoCandidateRefused`, `AutoPair` | Two tabs that open in any order and may close; two candidates each |
| `wasm_transport` | `TypeOK`, `ImplementsSeam`, `HandedUp` | Two ends that open, start, bind, close and drop independently; a batch of two segments and a single datagram from either end; two under way per direction, so `dc.send` also throws |
| `wasm_bindings` | `TypeOK`, `CallsSafe`, `Ownership`, `WithinBudget`, `TextArrives` | One closure of each kind, a promise executor and a `Chat`; three calls inside each other, so a closure is dropped, called again and left in every order around a call of itself; all texts of up to two characters of the five kinds, the memory growing in any of the three calls; a decoder budget of 4 and texts of 1 and 3 bytes, so it is met exactly and passed |
| `page_startup` | `TypeOK`, `ProbesReleased`, `LoadedWhateverType`, `ServersJustified`, `FastestKept`, `StartsOrTells` | Three servers of which two are used, so one is left out or missing; a probe takes two ticks and a ranking keeps for two of seven, so it is reused, goes stale and is replaced |
| `manual_link` | `LinkTypeOK`, `PackKeeps`, `WarnsTruly`, `LinkShown`, `Reaches` | Two devices, on one LAN or not, each loading its page twice, so that old links meet new loads; up to three candidates each: a UDP host, one packing must leave out, a public one |

`AutoPair` and `OneInitiator` hold for two tabs; see Findings for what a reload does
to them.

Properties worth reading first:

* `NoStranded` (of `Adapter`): an endpoint whose driver neither polls nor is about to has an
  empty channel that will wake it, or a closed one. The loop in `poll_recv` must end
  only on an empty channel, with its waker left there, or with a batch.
* `HandedUp`: every datagram that fits a slot is handed up, even from a channel
  whose key was taken over, even behind oversized ones.
* `InOrder`: the callback gets each sender's texts in order, and losing one means
  losing all that follow, although writes fail and queues are dropped.
* `FramesAligned`: the reader never takes text for a length, whatever sizes and
  failures the writer met.
* `HeldUntilHeard`: a connection that dies before its stream arrives does not take
  the responder's outbound receiver with it: until a write loop runs, all that was said is
  queued. Dropping the responder's `Chat` does lose that queue, with the router and its
  protocol handler, and `TypeOK` says that nothing is left in it.
* `Delivered`: what is said is heard unless the connection is lost or a message too
  long ended the stream; the responder is heard although the initiator is silent,
  which is what the priming frame is for.
* `CallsSafe`, `Ownership`: a closure dropped from inside its own call (as every
  promise executor and every `once` closure is) lives until the call ends, one whose
  event comes after the drop is refused, a `FnMut` is never entered twice, and counts,
  `free()` and finalizers together free each value once.
* `TextArrives`: what `chat_send` is given is the text in UTF-8, whatever view the glue
  had cached and in whichever of its calls the memory grew.
* `ServersJustified`: servers from a ranking have answered within the lifetime of the
  cache; the whole pool is used only if this very load has probed in vain.
* `WarnsTruly`: the LAN-only warning agrees with the link as the peer will read it,
  although candidates come in while the page waits and after it has packed.
* `Reaches`: if the two current loads have each other's links and what they had gathered
  offers a path, both start their chat with matching seeds: packing lost nothing.

### Fairness

* `MemTransport`: a woken driver is polled, and a poll that has begun goes on to
  its end: iroh's task on a runtime that polls what is woken. Nothing makes anyone
  send, bind or drop.
* `ConnectPair`: the runtime polls `connect_pair` and its tasks, webrtc-rs gathers,
  connects what can be connected, and calls back. Failure is never owed. Neither is a
  candidate that `to_json` converts, so `Connected` excepts the case that all of them
  are dropped there.
* `Chat`: tasks that are ready run, and QUIC delivers what was written while the
  connection is up (weak fairness of each loop's steps). Nobody has to dial, send,
  free or fail, so `Delivered` speaks of what was sent on a live dial.
* `Signaling`: the browser delivers, works off the operations of a peer connection,
  gathers and connects. Users open tabs or not.
* `WasmTransport`: as `MemTransport`; nothing makes a channel open or deliver.
* `PageStartup`: time passes, timers fire, the browser settles the loader's promises and
  runs reactions. No server owes an answer, and nobody has to open a page.
* `ManualLink`: the browser settles its promises and connects what can be connected, and
  timers fire. STUN owes no answer, gathering no end, users neither a load nor a paste;
  so `LinkShown` rests on the cap alone, as the code's "we never hang" does.

Safety runs use `Spec` without fairness.

## Proofs

For every value of the constants, under the named assumptions of the modules.

| Theorem | Says | Argument |
|---|---|---|
| `MemTransport_proofs!TypeCorrect` | `TypeOK`: no channel exceeds its capacity | inductive with the adapter's types |
| `MemTransport_proofs!NothingStranded` | `NoStranded`, if `0 \notin Slots` | one step per action; a push wakes or finds the driver already woken or polling, a poll ends on an empty channel or with a batch |
| `MemTransport_proofs!NothingForgotten` | every step is one of `KeepsOwed`: what is queued and fits a slot, in a batch or handed up stays so until the endpoint is dropped | a step of the adapter skips only what is too long (`StepKeepsOwed`); a takeover closes the old channel without clearing it |
| `MemTransport_proofs!TakeoverIsFinal` | `TakenOverForGood` | needs the invariant `RegistryOpen`: a channel the registry leads to is not shut and belongs to that key |
| `MemTransport_proofs!DeliveredInOrder` | `Ordered` | `FlightInv`: what was handed up, is in the batch and is in the channel is in order part by part (`PartsInOrder`), and all of it was passed on by its `poll_send` (`AllPassed`, `UpPassed`), so what is passed on next comes after it |
| `MemTransport_proofs!Refinement` | `ImplementsSeam` | `FlightInv` again: no datagram is in two channels or batches, or twice in one (`Apart`), so that a batch leaves the seam's wire when it is handed up, and what is sent is new |
| `WasmTransport_proofs!TypeCorrect` | `TypeOK` | with `FiniteFlight`: what `dc.send` counts can be counted |
| `WasmTransport_proofs!NothingStranded` | `NoStranded`, if `0 \notin Slots` | the adapter's steps keep it whatever the carrier (`StepNoStranded`); a push does, while the channel is open (`WakeNoStranded`), and here it is never shut (`NeverShut`) |
| `WasmTransport_proofs!NothingForgotten` | every step is one of `KeepsOwed` | `StepKeepsOwed`, `EnqueueKeepsOwed`; the data channel only touches what is in flight |
| `WasmTransport_proofs!Refinement` | `ImplementsSeam` | `Apart` and `AllPassed` with the data channel as a third place |
| `NativeTransport_proofs!PairTypeCorrect` | `PairTypeOK`: what a callback sent is in its channel, or was handed to the other peer once, unless the call failed | `PairInv`, with `Kept`: one step per action of the callbacks, the tasks and a failed call |
| `NativeTransport_proofs!CandidatesInTime` | `NoCandidateRefused` of `ConnectPair` | `PairInv` adds: while a forwarding task runs or the caller holds an end, `connect_pair` is past both remote descriptions, and never leaves there for `failed` |
| `NativeTransport_proofs!TypeCorrect` | `TypeOK`, whatever number of tasks waits for room | with `FiniteFlight` |
| `NativeTransport_proofs!NothingStranded` | `NoStranded`, if `0 \notin Slots` | as for the browser carrier |
| `NativeTransport_proofs!NothingForgotten` | every step is one of `KeepsOwed` | as for the browser carrier |
| `NativeTransport_proofs!Refinement` | `ImplementsSeam` | a datagram is in the air while a spawned task or the data channel holds it; `FlightInv` says `Apart` and `AllPassed` of air, queue and batch, and that no task holds what the channel has taken |
| `Chat_proofs!TypeCorrect` | `TypeOK` | with `VoiceTaken`: a write loop of the responder has a connection |
| `Chat_proofs!VoiceHeld` | `HeldUntilHeard` | same invariant: only `AcceptBi` takes the receiver, only the write loop takes from the queue, and only `Free` empties it otherwise, for good (`FreedStays`) |
| `Chat_proofs!FramingHolds` | `FramesAligned` | `FrameInv`: streams that have no writer or a finished reader are empty (`StreamsClean`); on every lane the parts alternate and, while the lane is written, the part that would follow its last frame is the part the write loop writes next (`EndPart = WritePart`). That last conjunct is what makes the property inductive: a write that fails between a length and its text ends the loop for good |
| `Chat_proofs!DeliveredInOrder` | `InOrder` | `OrderInv` adds to `FrameInv` the numbers: the write loop has taken a prefix of what was sent (`SentInv`; that the responder's begins with all of it is `VoiceHeld`), the stream holds consecutive messages up to the last one taken (`PipeInv`), and while the stream flows the reader is at the first message whose text has not arrived (`ReachInv`); then the text read next has its place after all before it, and a stream that stops takes all the rest with it |
| `Signaling_proofs!TypeCorrect` | `TypeOK`, any number of tabs | with `HelloInv`: a hello on its way carries its sender's id, and nobody hears itself |
| `Signaling_proofs!ChosenRolesOppose` | `OppositeRoles`: two tabs that chose each other do not take the same role, any number of tabs | `RoleInv`: a role follows from comparing the tab's id with its peer's |
| `Signaling_proofs!OneDials` | `OneInitiator`, for two tabs (`Pair`) | `RoleInv`: only a tab with a role has an open channel, and with two tabs the peer it took that role towards is the one at the other end |
| `Signaling_proofs!CandidatesInTime` | `NoCandidateRefused`, for two tabs (`Pair`) | `PairInv`, about one direction at a time: which messages can be under way and which operations can be queued in each state of the two pages; that a description is posted once, applied once, and no candidate overtakes the one it belongs to, in the channel or in the queue of operations (`NotOvertaken`) |
| `PageStartup_proofs!TypeCorrect` | `TypeOK` | `Inv`, below |
| `PageStartup_proofs!NothingLeftBehind` | `ProbesReleased` | a settled probe holds nothing, and a page that is not probing has only settled ones (`SettledReleased`) |
| `PageStartup_proofs!GoodModuleLoads` | `LoadedWhateverType` | there is no response before the fetch has ended; the loader gives up only after one that is an error or broken (`GivesUpOnBad`) |
| `PageStartup_proofs!AlwaysJustified` | `ServersJustified` | a round ends within the probe's timeout (`InTime`); a ranking that is still good is that of the last round, and each server on it answered then (`LastRound`) |
| `PageStartup_proofs!FastestFirst` | `FastestKept` | the ranking puts the server with `k - 1` others ahead of it in place `k`: *ahead* is a strict order, so the numbers of servers ahead of each are `0` to `n - 1`, each once (`RanksArePlaces`) |
| `PageStartup_proofs!LinksApplied` | `LinkTypeOK` of `ManualLink`: only links that were shown are applied, not to their own page | `LinkInv`: every link was packed by a load of its page from what that had gathered, and the current load's own link has been shown with the warning it deserves (`LinksMade`); what is gathered is one of three lists (`Gathered`); an answerer began with an offer (`AnswersOffer`) |
| `PageStartup_proofs!PackingKeeps` | `PackKeeps` | `LinkInv`, and what `unpackSdp` makes of `packSdp`, for any candidates (`UnpackPacked`): the candidates kept are the UDP ones, numbered by how many come before each (`MatchAllFacts`) |
| `PageStartup_proofs!WarningIsTrue` | `WarnsTruly` | `LinkInv`; a public candidate is a UDP one, so packing keeps it |
| `PageStartup_proofs!PathConnects` | `HavePath <=> Connected`: two pages with each other's current links connect exactly if what they had gathered offers a path | `LinkInv`: such links are the other page's own (`MutualMakers`), and only UDP candidates make a path (`PathPacked`) |
| `WasmBindings_proofs!TypeCorrect` | `TypeOK`: a closure's count is that of its owners | `Inv`, with `Counted`: the count is one for Rust and one per call on the stack, so the unref that takes it to zero is the last |
| `WasmBindings_proofs!CallsAreSafe` | `CallsSafe` | `Inv` adds who has the pointer (`Pointers`): a shared closure's stays where it is while it lives, an exclusive one's is with the outermost call of it, which alone can put it back; `Executors`: an executor is on the stack once and lives as long as that call |
| `WasmBindings_proofs!OwnershipHolds` | `Ownership` | `Inv` adds that a closure lives as long as it has an owner, or was forgotten and collected (`LivesByCount`), and that what lives is what is watched (`MadeOnce`, `HandleOwned`) |
| `WasmBindings_proofs!BudgetKept` | `WithinBudget` | same invariant: what was counted is what went through the decoder, below the budget |
| `WasmBindings_proofs!TextsArrive` | `TextArrives`, for texts of any length | both views `passStringToWasm0` takes are fresh; the room it makes, three bytes per unit, is enough for the rest of any text (`TextFacts`), so that the encoder stops at nothing (`EncodeIntoAll`); and UTF-8 of a text is that of its ASCII prefix and of the rest (`Utf8Concat`) |

The three refinements share one argument, in `Adapter_proofs`. To the seam, a datagram
is on the wire from `send` to the end of the `poll_recv` that has stored it. What could
break this is a datagram in two places, which would be handed up twice, or a `poll_send`
that passes on bytes it has passed on before. `Apart(L, Q, B)` says the first of what the
carrier has under way, the channels and the batches; `CallInv` and `AllPassed` say the
second. Each step of the adapter keeps them whatever the carrier has under way (`StepApart`,
`StepPassed`) and is a receive, a loss or a stutter of the seam (`StepAsSeam`); a carrier
then has to show it of its own steps.

Assumptions. `0 \notin Slots` is one about iroh: `poll_recv` with no buffers returns
Pending before it looks at the channel, so no waker is left. `mem_safety` includes
such polls; the wake-up properties exclude them. `Pair` says that the room has two
tabs; with more, and a reload is a third, `OneInitiator` is false (finding 5). The carriers
with a data channel have two ends (`WasmAssumption`, `NativeAssumption`).
`BindingsAssumption` says that the kinds of objects are disjoint, that the texts passed
have some bound on their length, any number, and that every text out of wasm is below the
decoder's budget: one of 2 GB less a megabyte is more than the glue is made for.

Every invariant and every action property of the passing runs is a theorem. The facts
about sequences of any length (`WasmStrings`) are proved without induction: if a
claim failed at some number, it would at a least one (`Least`, from the well-founded order
of the naturals), but there it holds because it does at the number before (`NoneLeft`).
`FlattenSeq` is a recursive function, so its recursion is first shown to have a solution
(`FlattenExists`).

Only model-checked, and why: liveness (`HandedUp` of two carriers, `Connected`,
`Delivered`, `AutoPair`, `LinkShown`, `Reaches`, `StartsOrTells`), since fairness and
ENABLED are out of the prover's reach. Of two of them the part without time is proved:
`HandedUp` rests on `NothingStranded` and `NothingForgotten` (what is owed stays, and the
driver is awake, or will be woken, while any is left), `Reaches` on `PathConnects`.
No module here has a RECURSIVE operator.

## Findings

Where the code does not do what a doc, comment or message of the repository says. The
first is a run; the others are settled and kept as configurations that show them,
each with the command that does.

1. `connect_hangs`: the three errors `connect_pair` formats for lost signals cannot be
   returned: the senders live in its own frame and in callbacks it keeps alive, so
   it waits forever when ICE fails.
2. The forwarding tasks of `connect_pair` keep both peer connections alive, each through
   the callback of the other, after both ends were dropped (`TornDown`).
   `tlc -config ConnectLeak.cfg ConnectPair`
3. `Chat::send` takes any text, but one longer than `MAX_MSG` ends the peer's read loop;
   nothing later is delivered, though the connection stays up (`DeliveredWhileUp`).
   `tlc -config ChatTooLong.cfg MCChat`
4. A tab that has paired ignores every later hello: after a reload of its peer the two
   open tabs never pair (`AutoPair`). `tlc -config SignalingStuck.cfg Signaling`
5. When a tab is reloaded in the middle of the greeting, both tabs can become offerers;
   a connection comes up and both sides dial (`OneInitiator`).
   `tlc -config SignalingGlare.cfg Signaling`

Two more are visible in the models without a configuration of their own: a full
channel of the in-memory carrier drops a segment (`Accepts`), although
`in_memory.rs` calls the carrier "reliable and ordered"; and `WebRtcSender::send`
spawns a task per datagram and keeps all of them waiting (`NativeSend`), although
the seam says to drop on backpressure.

## Not modelled, and the plan

The datagram path with its three carriers, the chat, both kinds of signaling, the
native handshake, the page's start and the bindings' ownership are modelled. Left:

1. Proofs: what `OneInitiator` becomes with three tabs.
2. Composition of `PageStartup` with the two kinds of signaling, and of `Signaling`
   with `WasmTransport` at `startTransport`.

Not modelled, and why:

* The vendored QR encoder (third party, pure), `lib.rs`, the tests, DOM updates, status
  lines, `serve.mjs`'s other file types: no protocol state.
* Of the bindings: the pass-through imports, the externref and exception tables,
  `debugString`, the `encodeInto` fallback for old browsers, `initSync`,
  and the `IntoUnderlying*` classes, which nothing constructs.
* Three tabs open at once: an offer to a tab that has already agreed with another makes
  the browser renegotiate in ways the code leaves open, and the page promises to
  connect two.
* A second `start_chat` on the same channel, which would replace the first one's
  `onmessage`: the page calls it once per channel.
* A third device that opens the same link: as with tabs, the page connects two.
* The bytes of a link (JSON, base64): `packSdp` is modelled by what it keeps.

------------------------------- MODULE Adapter -------------------------------
(***************************************************************************)
(* The iroh custom-transport adapter (src/src/adapter.rs) over a backend   *)
(* whose receive half is an mpsc channel, as all three backends' is.       *)
(*                                                                         *)
(* Send side: one poll_send call cuts a GSO batch into segments and passes *)
(* them to the backend one at a time; other threads run between two        *)
(* segments.  Receive side: iroh's recv driver polls the endpoint, and one *)
(* poll_recv call drains the channel datagram by datagram while senders    *)
(* keep pushing into it.  A backend module EXTENDS this one, says what     *)
(* DatagramSender::send does with a segment, and fills the channel with    *)
(* Enqueue.                                                                *)
(***************************************************************************)
EXTENDS Naturals, Sequences

CONSTANTS
  Eps,          \* endpoints, one BackendTransport each
  NoEp,         \* "no endpoint"
  Keys,         \* peer keys
  NoKey,        \* the data of an address that is not 32 bytes long
  KeyOf,        \* [Eps -> Keys], the key a backend was built for
  Transmits,    \* poll_send calls; each is made at most once
  Length,       \* [Transmits -> Nat], transmit.contents.len()
  SegmentSize,  \* [Transmits -> Nat \cup {NoSize}], transmit.segment_size
  NoSize,       \* segment_size = None
  SlotLen,      \* bytes in one receive buffer (bufs[i].len())
  Slots         \* the numbers of buffers a poll_recv call may come with

ASSUME AdapterAssumption ==
  /\ NoEp \notin Eps /\ NoKey \notin Keys /\ NoSize \notin Nat
  /\ KeyOf \in [Eps -> Keys]
  /\ Length \in [Transmits -> Nat]
  /\ SegmentSize \in [Transmits -> Nat \cup {NoSize}]
  /\ SlotLen \in Nat
  /\ Slots \subseteq Nat

VARIABLES
  life,    \* [Eps -> Life], where the endpoint's halves are
  call,    \* per transmit: the endpoint, the destination, the bytes sent
  queue,   \* per endpoint: the inbound channel
  shut,    \* per endpoint: every sender of that channel is gone
  waker,   \* per endpoint: the channel holds the driver's waker
  woken,   \* per endpoint: the driver task is scheduled to poll
  slots,   \* per endpoint: bufs.len() of the poll_recv in progress, 0 if none
  batch,   \* per endpoint: the datagrams that poll has stored so far
  up       \* per endpoint: the datagrams handed up to iroh (history)

recvVars == <<queue, shut, waker, woken, slots, batch, up>>
adapterVars == <<life, call, recvVars>>

Life == {"unbuilt", "parked", "bound", "dropped"}

(* The bytes lo..hi of a transmit's contents.                              *)
Segment == [tx : Transmits, lo : Nat, hi : Nat]
Inbound == [from : Keys, data : Segment]

TransportId == "webr"
Addr == [id : {TransportId, "other"}, data : Keys \cup {NoKey}]

AdapterTypeOK ==
  /\ life \in [Eps -> Life]
  /\ call \in [Transmits ->
                 [ep : Eps \cup {NoEp}, dst : Keys \cup {NoKey}, sent : Nat]]
  /\ queue \in [Eps -> Seq(Inbound)]
  /\ shut \in [Eps -> BOOLEAN]
  /\ waker \in [Eps -> BOOLEAN]
  /\ woken \in [Eps -> BOOLEAN]
  /\ slots \in [Eps -> Nat]
  /\ batch \in [Eps -> Seq(Inbound)]
  /\ up \in [Eps -> Seq(Inbound)]

AdapterInit ==
  /\ life = [e \in Eps |-> "unbuilt"]
  /\ call = [t \in Transmits |-> [ep |-> NoEp, dst |-> NoKey, sent |-> 0]]
  /\ queue = [e \in Eps |-> <<>>]
  /\ shut = [e \in Eps |-> FALSE]
  /\ waker = [e \in Eps |-> FALSE]
  /\ woken = [e \in Eps |-> FALSE]
  /\ slots = [e \in Eps |-> 0]
  /\ batch = [e \in Eps |-> <<>>]
  /\ up = [e \in Eps |-> <<>>]

-----------------------------------------------------------------------------
(* Life cycle.  A second bind() finds no halves, returns an error and      *)
(* changes nothing, so only the first is a step.                           *)

Bind(e) ==
  /\ life[e] = "parked"
  /\ life' = [life EXCEPT ![e] = "bound"]
  /\ woken' = [woken EXCEPT ![e] = TRUE]
  /\ UNCHANGED <<call, queue, shut, waker, slots, batch, up>>

(* The endpoint or the unbound transport is dropped, the receive half and  *)
(* what it holds with it; poll_recv borrows it, so not during a poll.      *)
Discard(e) ==
  /\ life[e] \in {"parked", "bound"} /\ slots[e] = 0
  /\ life' = [life EXCEPT ![e] = "dropped"]
  /\ queue' = [queue EXCEPT ![e] = <<>>]
  /\ waker' = [waker EXCEPT ![e] = FALSE]
  /\ woken' = [woken EXCEPT ![e] = FALSE]
  /\ UNCHANGED <<call, shut, slots, batch, up>>

-----------------------------------------------------------------------------
(* The send side.                                                          *)

Smaller(a, b) == IF a <= b THEN a ELSE b
Larger(a, b) == IF a <= b THEN b ELSE a

SegmentOf(t) ==
  Larger(1, IF SegmentSize[t] = NoSize THEN Length[t] ELSE SegmentSize[t])

IsValidSendAddr(a) == a.id = TransportId

(* poll_send() begins; iroh asks is_valid_send_addr first.                 *)
PollSend(t, e, a) ==
  /\ life[e] = "bound" /\ call[t].ep = NoEp
  /\ IsValidSendAddr(a)
  /\ call' = [call EXCEPT ![t] = [ep |-> e, dst |-> a.data, sent |-> 0]]
  /\ UNCHANGED <<life, recvVars>>

(* poll_send() has segments left, and where the next one ends.             *)
Sending(t) == call[t].dst # NoKey /\ call[t].sent < Length[t]
NextEnd(t) == Smaller(call[t].sent + SegmentOf(t), Length[t])

(* Mutated: the datagram is tagged with the peer it goes to.               *)
TaggedWithDst(t) ==
  [from |-> call[t].dst,
   data |-> [tx |-> t, lo |-> call[t].sent + 1, hi |-> NextEnd(t)]]

(* The datagram as the backend tags it with its own local key.             *)
NextInbound(t) ==
  [from |-> KeyOf[call[t].ep],
   data |-> [tx |-> t, lo |-> call[t].sent + 1, hi |-> NextEnd(t)]]

(* Mutated: the iterator over the segments steps one byte short.           *)
AdvanceShort(t) == call' = [call EXCEPT ![t].sent = NextEnd(t) - 1]

Advance(t) == call' = [call EXCEPT ![t].sent = NextEnd(t)]

-----------------------------------------------------------------------------
(* The inbound channel, as its senders see it.                             *)

Wake(e) ==
  /\ woken' = [woken EXCEPT ![e] = @ \/ waker[e]]
  /\ waker' = [waker EXCEPT ![e] = FALSE]

(* Mutated: the push leaves the receiver's task asleep.                     *)
EnqueueUnwoken(e, m) ==
  /\ queue' = [queue EXCEPT ![e] = Append(@, m)]
  /\ UNCHANGED <<shut, waker, woken, slots, batch, up>>

Enqueue(e, m) ==
  /\ queue' = [queue EXCEPT ![e] = Append(@, m)]
  /\ Wake(e)
  /\ UNCHANGED <<shut, slots, batch, up>>

(* Mutated: the receiver of a closed channel loses what was queued.        *)
CloseAndClear(e) ==
  /\ shut' = [shut EXCEPT ![e] = TRUE]
  /\ queue' = [queue EXCEPT ![e] = <<>>]
  /\ Wake(e)
  /\ UNCHANGED <<slots, batch, up>>

(* The last sender is gone: the receiver drains the channel, then reads    *)
(* None.                                                                   *)
CloseChannel(e) ==
  /\ shut' = [shut EXCEPT ![e] = TRUE]
  /\ Wake(e)
  /\ UNCHANGED <<queue, slots, batch, up>>

-----------------------------------------------------------------------------
(* poll_recv.                                                              *)

FitsSlot(m) == m.data.hi - m.data.lo < SlotLen

(* The driver polls, with or without having been woken.  Without buffers   *)
(* the call returns Pending before it touches the channel.                 *)
PollRecv(e) ==
  /\ life[e] = "bound" /\ slots[e] = 0
  /\ woken' = [woken EXCEPT ![e] = FALSE]
  /\ \E n \in Slots : slots' = [slots EXCEPT ![e] = n]
  /\ UNCHANGED <<life, call, queue, shut, waker, batch, up>>

(* poll_recv returns: the batch is handed up and iroh polls again, or the  *)
(* call is Pending when there is none.                                     *)
ReturnBatch(e) ==
  /\ up' = [up EXCEPT ![e] = @ \o batch[e]]
  /\ batch' = [batch EXCEPT ![e] = <<>>]
  /\ slots' = [slots EXCEPT ![e] = 0]
  /\ woken' = [woken EXCEPT ![e] = @ \/ batch[e] # <<>>]

(* Mutated: a datagram too long for its slot ends the loop.                *)
PollTakeStops(e) ==
  /\ Len(batch[e]) < slots[e] /\ queue[e] # <<>>
  /\ queue' = [queue EXCEPT ![e] = Tail(@)]
  /\ IF FitsSlot(Head(queue[e]))
     THEN /\ batch' = [batch EXCEPT ![e] = Append(@, Head(queue[e]))]
          /\ UNCHANGED <<slots, up, woken>>
     ELSE ReturnBatch(e)
  /\ UNCHANGED <<life, call, shut, waker>>

(* The loop takes a datagram; one too long for its slot is skipped.        *)
PollTake(e) ==
  /\ Len(batch[e]) < slots[e] /\ queue[e] # <<>>
  /\ queue' = [queue EXCEPT ![e] = Tail(@)]
  /\ batch' = IF FitsSlot(Head(queue[e]))
              THEN [batch EXCEPT ![e] = Append(@, Head(queue[e]))]
              ELSE batch
  /\ UNCHANGED <<life, call, shut, waker, woken, slots, up>>

(* Every slot is filled: the channel is not looked at again.               *)
PollFull(e) ==
  /\ slots[e] > 0 /\ Len(batch[e]) = slots[e]
  /\ ReturnBatch(e)
  /\ UNCHANGED <<life, call, queue, shut, waker>>

(* The channel is empty: idle, and it keeps the waker, or closed.          *)
PollIdle(e) ==
  /\ Len(batch[e]) < slots[e] /\ queue[e] = <<>>
  /\ ReturnBatch(e)
  /\ waker' = [waker EXCEPT ![e] = ~shut[e]]
  /\ UNCHANGED <<life, call, queue, shut>>

AdapterStep(e) ==
  \/ Bind(e)
  \/ Discard(e)
  \/ PollRecv(e)
  \/ PollTake(e)
  \/ PollFull(e)
  \/ PollIdle(e)

(* A woken task is polled again, and a poll_recv call runs to its end.     *)
DriverStep(e) ==
  \/ woken[e] /\ PollRecv(e)
  \/ PollTake(e)
  \/ PollFull(e)
  \/ PollIdle(e)

-----------------------------------------------------------------------------
(* What the adapter owes, whatever the backend.                            *)

(* No datagram is stranded: an endpoint whose driver is neither polling    *)
(* nor scheduled to poll has an empty channel that will wake it, unless    *)
(* the channel is closed for good.  The wake-up a poll_recv leaves behind  *)
(* must survive oversized datagrams, full batches and a push between two   *)
(* iterations of its loop.  A call without buffers forfeits it.            *)
NoStranded ==
  \A e \in Eps :
    life[e] = "bound" /\ slots[e] = 0 /\ ~woken[e]
      => queue[e] = <<>> /\ (waker[e] \/ shut[e])

(* The datagrams of an endpoint from the oldest handed up to the newest    *)
(* queued.                                                                 *)
Pipeline(e) == up[e] \o batch[e] \o queue[e]

-----------------------------------------------------------------------------
(* The adapter as the seam sees it.  Two segments of one transmit differ   *)
(* in their bytes, so no two sends carry the same contents; a segment was  *)
(* offered once poll_send has passed it on.                                *)

Cuts(t) ==
  {[tx |-> t, lo |-> n + 1, hi |-> Smaller(n + SegmentOf(t), Length[t])] :
     n \in {i \in 0..(Length[t] - 1) : i % SegmentOf(t) = 0}}
AllCuts == UNION {Cuts(t) : t \in Transmits}

OfferedBy(t) ==
  {[from |-> KeyOf[call[t].ep], to |-> call[t].dst, data |-> c] :
     c \in {d \in Cuts(t) : d.lo <= call[t].sent}}
Offered == UNION {OfferedBy(t) : t \in Transmits}

(* A sequence of inbound datagrams of e, as the seam's addressed ones.     *)
As(e, s) ==
  {[from |-> s[i].from, to |-> KeyOf[e], data |-> s[i].data] : i \in DOMAIN s}

(* What an endpoint owes iroh: what it has queued, unless it is too long   *)
(* for a slot, has in its batch or has handed up.                          *)
Owed(e) ==
  {d \in As(e, queue[e]) : d.data.hi - d.data.lo < SlotLen}
    \cup As(e, batch[e]) \cup As(e, up[e])

(* Nothing owed is lost, be the channel taken over, closed, or full of     *)
(* oversized datagrams, until the endpoint is dropped.                     *)
KeepsOwed == \A e \in Eps : life'[e] = "dropped" \/ Owed(e) \subseteq Owed(e)'
=============================================================================

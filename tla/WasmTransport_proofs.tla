------------------------ MODULE WasmTransport_proofs ------------------------
(***************************************************************************)
(* Proofs about the browser carrier under the adapter, for any transmits,  *)
(* segment sizes, numbers of receive buffers and channel buffer.           *)
(***************************************************************************)
EXTENDS WasmTransport, Adapter_proofs, FiniteSetTheorems

(* What is on its way is finite, so that it can be counted.                *)
FiniteFlight == \A e \in Eps : IsFiniteSet(flight[e])

TypeInv == TypeOK /\ CallInv /\ FiniteFlight

(* No datagram is twice between the data channel and a batch, and all of   *)
(* it was passed on by a poll_send.                                        *)
FlightInv == Apart(flight, queue, batch) /\ AllPassed(flight, queue, batch)

Inv == TypeInv /\ FlightInv

-----------------------------------------------------------------------------
(* There are two ends.                                                     *)

LEMMA PeerType ==
  ASSUME NEW e \in Eps
  PROVE  /\ Peer(e) \in Eps /\ Peer(e) # e /\ Peer(Peer(e)) = e
         /\ \A f \in Eps : f = e \/ f = Peer(e)
         /\ Remote(e) \in Keys
  <1>1. PICK a \in Eps, b \in Eps : a # b /\ Eps = {a, b}
    BY WasmAssumption
  <1>2. ASSUME NEW f \in Eps PROVE Peer(f) \in Eps /\ Peer(f) # f
    <2>1. \E p \in Eps : p # f
      BY <1>1
    <2> QED BY <2>1 DEF Peer
  <1>3. Peer(e) \in Eps /\ Peer(e) # e /\ Peer(Peer(e)) \in Eps /\ Peer(Peer(e)) # Peer(e)
    BY <1>2
  <1>4. \A f \in Eps : f = e \/ f = Peer(e)
    BY <1>1, <1>3
  <1> QED BY <1>3, <1>4, AdapterAssumption DEF Remote

(* What Takes says of the sending end's peer.                              *)
LEMMA FlightGrows ==
  ASSUME TypeInv, NEW e \in Eps, Takes(e), NEW s \in Segment
  PROVE  LET p == Peer(e) IN
         /\ p \in Eps
         /\ IsFiniteSet(flight[p] \cup {s})
         /\ Cardinality(flight[p] \cup {s}) <= Buffered
  <1>1. Peer(e) \in Eps /\ IsFiniteSet(flight[Peer(e)])
    BY PeerType DEF TypeInv, FiniteFlight
  <1>2. Cardinality(flight[Peer(e)]) \in Nat /\ Cardinality(flight[Peer(e)]) < Buffered
    BY <1>1, FS_CardinalityType DEF Takes
  <1>3. /\ IsFiniteSet(flight[Peer(e)] \cup {s})
        /\ Cardinality(flight[Peer(e)] \cup {s})
             \in {Cardinality(flight[Peer(e)]), Cardinality(flight[Peer(e)]) + 1}
    BY <1>1, FS_AddElement
  <1> QED BY <1>1, <1>2, <1>3, WasmAssumption

(* Whatever is lost or arrives leaves no more behind.                      *)
LEMMA FlightShrinks ==
  ASSUME TypeInv, NEW e \in Eps, NEW X \in SUBSET flight[e],
         flight' = [flight EXCEPT ![e] = X]
  PROVE  /\ flight' \in [Eps -> SUBSET Segment]
         /\ FiniteFlight'
         /\ \A f \in Eps : Cardinality(flight'[f]) <= Buffered
         /\ \A f \in Eps : flight'[f] = IF f = e THEN X ELSE flight[f]
  <1>1. /\ IsFiniteSet(flight[e]) /\ flight \in [Eps -> SUBSET Segment]
        /\ Cardinality(flight[e]) <= Buffered
    BY DEF TypeInv, TypeOK, FiniteFlight
  <1>2. IsFiniteSet(X) /\ Cardinality(X) <= Cardinality(flight[e])
    BY <1>1, FS_Subset
  <1>3. Cardinality(X) \in Nat /\ Cardinality(flight[e]) \in Nat
    BY <1>1, <1>2, FS_CardinalityType
  <1>4. Cardinality(X) <= Buffered
    BY <1>1, <1>2, <1>3, WasmAssumption
  <1>5. \A f \in Eps : flight'[f] = IF f = e THEN X ELSE flight[f]
    BY <1>1
  <1>6. flight' \in [Eps -> SUBSET Segment]
    BY <1>1
  <1>7. \A f \in Eps : IsFiniteSet(flight'[f])
    BY <1>2, <1>5 DEF TypeInv, FiniteFlight
  <1>8. \A f \in Eps : Cardinality(flight'[f]) <= Buffered
    BY <1>4, <1>5 DEF TypeInv, TypeOK
  <1> QED BY <1>5, <1>6, <1>7, <1>8 DEF FiniteFlight

-----------------------------------------------------------------------------
(* Type correctness.                                                       *)

LEMMA InitTypeInv == Init => TypeInv
  <1> SUFFICES ASSUME Init PROVE TypeInv
    OBVIOUS
  <1>1. AdapterTypeOK
    BY DEF Init, AdapterInit, AdapterTypeOK, Life
  <1>2. CallInv
    BY InitCallInv DEF Init
  <1>3. \A e \in Eps : flight[e] = {} /\ life[e] = "unbuilt"
    BY DEF Init, AdapterInit
  <1>4. IsFiniteSet({}) /\ Cardinality({}) = 0
    BY FS_EmptySet
  <1>5. \A e \in Eps : IsFiniteSet(flight[e]) /\ Cardinality(flight[e]) <= Buffered
    BY <1>3, <1>4, WasmAssumption
  <1>6. /\ dc \in [Eps -> {"connecting", "open", "closed"}]
        /\ wired \in SUBSET Eps
        /\ flight \in [Eps -> SUBSET Segment]
        /\ \A e \in Eps : e \in wired <=> life[e] # "unbuilt"
    BY <1>3 DEF Init
  <1> QED BY <1>1, <1>2, <1>5, <1>6 DEF TypeInv, TypeOK, FiniteFlight

LEMMA StepTypeInv ==
  ASSUME TypeInv, NEW e \in Eps, AdapterStep(e), UNCHANGED wasmVars
  PROVE  TypeInv'
  <1>1. AdapterTypeOK' /\ CallInv'
    BY StepTypes, StepMoves, CallKept DEF TypeInv, TypeOK
  <1>2. \A f \in Eps : (life'[f] = "unbuilt") <=> (life[f] = "unbuilt")
    BY DEF AdapterStep, Bind, Discard, PollRecv, PollTake, PollFull, PollIdle,
           TypeInv, TypeOK, AdapterTypeOK
  <1> QED BY <1>1, <1>2 DEF wasmVars, TypeInv, TypeOK, FiniteFlight

LEMMA SendTypeInv ==
  ASSUME TypeInv, NEW t \in Transmits, WasmSend(t)
  PROVE  TypeInv'
  <1> DEFINE e == call[t].ep
             s == NextInbound(t).data
  <1>1. Sending(t) /\ Advance(t) /\ UNCHANGED <<life, recvVars, dc, wired>>
    BY DEF WasmSend
  <1>2. AdapterTypeOK' /\ CallInv'
    <2>1. CallInv'
      BY <1>1, AdvanceCuts DEF TypeInv, TypeOK
    <2>2. NextEnd(t) \in Nat
      BY SegmentType DEF TypeInv, TypeOK
    <2> QED BY <1>1, <2>1, <2>2 DEF Advance, recvVars, TypeInv, TypeOK, AdapterTypeOK
  <1>3. e \in Eps /\ s \in Segment
    BY <1>1, InboundType DEF TypeInv, TypeOK, CallInv, Sending, Inbound
  <1>4. CASE flight' = flight
    BY <1>1, <1>2, <1>4 DEF TypeInv, TypeOK, FiniteFlight
  <1>5. CASE Takes(e) /\ flight' = [flight EXCEPT ![Peer(e)] = @ \cup {s}]
    <2> DEFINE p == Peer(e)
    <2>1. p \in Eps /\ IsFiniteSet(flight[p] \cup {s}) /\ Cardinality(flight[p] \cup {s}) <= Buffered
      BY <1>3, <1>5, FlightGrows
    <2>2. \A f \in Eps : flight'[f] = IF f = p THEN flight[p] \cup {s} ELSE flight[f]
      BY <1>5, <2>1 DEF TypeInv, TypeOK
    <2>3. flight' \in [Eps -> SUBSET Segment]
      BY <1>3, <1>5, <2>1 DEF TypeInv, TypeOK
    <2> HIDE DEF p, e, s
    <2>4. \A f \in Eps : IsFiniteSet(flight'[f]) /\ Cardinality(flight'[f]) <= Buffered
      BY <2>1, <2>2 DEF TypeInv, TypeOK, FiniteFlight
    <2> QED BY <1>1, <1>2, <2>3, <2>4 DEF TypeInv, TypeOK, FiniteFlight
  <1> QED BY <1>4, <1>5 DEF WasmSend

LEMMA MessageTypeInv ==
  ASSUME TypeInv, NEW e \in Eps, NEW s \in flight[e], OnMessage(e, s)
  PROVE  TypeInv'
  <1>1. /\ flight' = [flight EXCEPT ![e] = flight[e] \ {s}]
        /\ UNCHANGED <<life, call, dc, wired>>
    BY DEF OnMessage, TypeInv, TypeOK
  <1>2. /\ flight' \in [Eps -> SUBSET Segment] /\ FiniteFlight'
        /\ \A f \in Eps : Cardinality(flight'[f]) <= Buffered
    <2>1. flight[e] \ {s} \in SUBSET flight[e]
      OBVIOUS
    <2> QED BY <1>1, <2>1, FlightShrinks
  <1>3. CallInv'
    BY <1>1, CallKept DEF TypeInv
  <1>4. Tag(e, s) \in Inbound
    BY PeerType DEF Tag, Inbound, TypeInv, TypeOK
  <1>5. AdapterTypeOK'
    <2>1. CASE UNCHANGED recvVars
      BY <1>1, <2>1 DEF recvVars, TypeInv, TypeOK, AdapterTypeOK
    <2>2. CASE Enqueue(e, Tag(e, s))
      <3>1. /\ queue' \in [Eps -> Seq(Inbound)]
            /\ waker' \in [Eps -> BOOLEAN] /\ woken' \in [Eps -> BOOLEAN]
            /\ UNCHANGED <<shut, slots, batch, up>>
        BY <1>4, <2>2, EnqueueTypes DEF TypeInv, TypeOK
      <3> QED BY <1>1, <3>1 DEF TypeInv, TypeOK, AdapterTypeOK
    <2> QED BY <2>1, <2>2 DEF OnMessage
  <1> QED BY <1>1, <1>2, <1>3, <1>5 DEF TypeInv, TypeOK

(* The data channel and start_chat.                                        *)
LEMMA ChannelTypeInv ==
  ASSUME TypeInv, NEW e \in Eps,
         Open(e) \/ StartChat(e) \/ Close(e) \/ \E s \in flight[e] : Lose(e, s)
  PROVE  TypeInv'
  <1>1. CASE Open(e)
    BY <1>1, CallKept DEF Open, adapterVars, recvVars, TypeInv, TypeOK, AdapterTypeOK, FiniteFlight
  <1>2. CASE StartChat(e)
    BY <1>2, CallKept DEF StartChat, WireInbound, recvVars, TypeInv, TypeOK, AdapterTypeOK,
                          FiniteFlight, Life
  <1>3. CASE Close(e)
    <2>1. flight' = [flight EXCEPT ![e] = {}] /\ {} \in SUBSET flight[e]
      BY <1>3 DEF Close
    <2>2. /\ flight' \in [Eps -> SUBSET Segment] /\ FiniteFlight'
          /\ \A f \in Eps : Cardinality(flight'[f]) <= Buffered
      BY <2>1, FlightShrinks
    <2> QED BY <1>3, <2>2, CallKept DEF Close, adapterVars, recvVars, TypeInv, TypeOK, AdapterTypeOK
  <1>4. ASSUME NEW s \in flight[e], Lose(e, s) PROVE TypeInv'
    <2>1. flight' = [flight EXCEPT ![e] = flight[e] \ {s}] /\ flight[e] \ {s} \in SUBSET flight[e]
      BY <1>4 DEF Lose, TypeInv, TypeOK
    <2>2. /\ flight' \in [Eps -> SUBSET Segment] /\ FiniteFlight'
          /\ \A f \in Eps : Cardinality(flight'[f]) <= Buffered
      BY <2>1, FlightShrinks
    <2> QED BY <1>4, <2>2, CallKept DEF Lose, adapterVars, recvVars, TypeInv, TypeOK, AdapterTypeOK
  <1> QED BY <1>1, <1>2, <1>3, <1>4

LEMMA NextTypeInv == TypeInv /\ [Next]_vars => TypeInv'
  <1> SUFFICES ASSUME TypeInv, [Next]_vars PROVE TypeInv'
    OBVIOUS
  <1>1. CASE UNCHANGED vars
    BY <1>1, CallKept DEF vars, adapterVars, recvVars, wasmVars, TypeInv, TypeOK,
                          AdapterTypeOK, FiniteFlight
  <1>2. ASSUME NEW t \in Transmits, NEW e \in Eps, NEW a \in Addr,
               PollSend(t, e, a), UNCHANGED wasmVars
        PROVE  TypeInv'
    <2>1. AdapterTypeOK' /\ CallInv' /\ life' = life
      BY <1>2, PollSendOffers DEF TypeInv, TypeOK, PollSend
    <2> QED BY <1>2, <2>1 DEF wasmVars, TypeInv, TypeOK, FiniteFlight
  <1> QED BY <1>1, <1>2, ChannelTypeInv, StepTypeInv, SendTypeInv, MessageTypeInv DEF Next

(* Every variable keeps its type, the data channel never holds more than   *)
(* its buffer, and only a side that has started is listened to.            *)
THEOREM TypeCorrect == Spec => []TypeOK
  <1>1. TypeInv => TypeOK
    BY DEF TypeInv
  <1> QED BY <1>1, InitTypeInv, NextTypeInv, PTL DEF Spec

-----------------------------------------------------------------------------
(* What is under way.                                                      *)

LEMMA InitFlightInv == Init => FlightInv
  <1> SUFFICES ASSUME Init PROVE FlightInv
    OBVIOUS
  <1>1. \A e \in Eps : queue[e] = <<>> /\ batch[e] = <<>> /\ flight[e] = {}
    BY DEF Init, AdapterInit
  <1> QED BY <1>1, EmptyData DEF FlightInv, Apart, AllPassed, Disjoint

(* What has to be shown of a step, in terms of the next state.             *)
LEMMA FlightPrimed ==
  ASSUME Apart(flight', queue', batch'),
         \A f \in Eps : \A c \in flight'[f] \cup Data(queue'[f]) \cup Data(batch'[f]) :
           c \in Segment /\ Passed(c)'
  PROVE  FlightInv'
  BY DEF FlightInv, Apart, AllPassed, Data, Distinct

LEMMA QuietFlightInv ==
  ASSUME FlightInv, UNCHANGED <<queue, batch>>,
         \A f \in Eps : flight'[f] \subseteq flight[f],
         \A c \in Segment : Passed(c) => Passed(c)'
  PROVE  FlightInv'
  <1>1. Apart(flight', queue', batch')
    <2>1. Apart(flight', queue, batch)
      BY DEF FlightInv, Apart, Disjoint
    <2> QED BY <2>1
  <1>2. \A f \in Eps : \A c \in flight'[f] \cup Data(queue'[f]) \cup Data(batch'[f]) :
          c \in Segment /\ Passed(c)'
    BY DEF FlightInv, AllPassed
  <1> QED BY <1>1, <1>2, FlightPrimed

LEMMA StepFlightInv ==
  ASSUME Inv, NEW e \in Eps, AdapterStep(e), UNCHANGED wasmVars
  PROVE  FlightInv'
  <1>1. AdapterTypeOK /\ flight' = flight
    BY DEF Inv, TypeInv, TypeOK, wasmVars
  <1>2. Apart(flight, queue', batch')
    BY <1>1, StepApart DEF Inv, FlightInv
  <1>3. \A f \in Eps : \A c \in flight[f] \cup Data(queue'[f]) \cup Data(batch'[f]) :
          c \in Segment /\ Passed(c)'
    BY <1>1, StepPassed DEF Inv, FlightInv
  <1> QED BY <1>1, <1>2, <1>3, FlightPrimed

(* What dc.send takes is new.                                              *)
LEMMA SendFlightInv ==
  ASSUME Inv, NEW t \in Transmits, WasmSend(t)
  PROVE  FlightInv'
  <1> DEFINE p == Peer(call[t].ep)
             s == NextInbound(t).data
  <1>1. /\ AdapterTypeOK /\ CallInv /\ Sending(t) /\ Advance(t)
        /\ UNCHANGED <<queue, batch>>
    BY DEF Inv, TypeInv, TypeOK, WasmSend, recvVars
  <1>2. CASE flight' = flight
    <2>1. \A c \in Segment : Passed(c) => Passed(c)'
      BY <1>1, PassedStays
    <2> QED BY <1>1, <1>2, <2>1, QuietFlightInv DEF Inv
  <1>3. CASE flight' = [flight EXCEPT ![p] = @ \cup {s}]
    <2>1. /\ \A f \in Eps : s \notin flight[f] /\ s \notin Data(queue[f]) /\ s \notin Data(batch[f])
          /\ \A f \in Eps : \A c \in flight[f] \cup Data(queue[f]) \cup Data(batch[f]) :
               c \in Segment /\ Passed(c)'
          /\ \A c \in {s} : c \in Segment /\ Passed(c)'
      BY <1>1, SendFresh DEF Inv, FlightInv
    <2>2. p \in Eps
      BY <1>1, PeerType DEF CallInv, Sending
    <2>3. \A f \in Eps : flight'[f] = flight[f] \cup (IF f = p THEN {s} ELSE {})
      BY <1>3, <2>2 DEF Inv, TypeInv, TypeOK
    <2> HIDE DEF p, s
    <2>4. \A f \in Eps : /\ flight'[f] \subseteq flight[f] \cup (IF f = p THEN {s} ELSE {})
                         /\ Disjoint({s}, flight[f])
                         /\ Disjoint({s}, Data(queue[f])) /\ Disjoint({s}, Data(batch[f]))
      BY <2>1, <2>3 DEF Disjoint
    <2>5. Apart(flight', queue, batch)
      BY <2>2, <2>4, EnterApart DEF Inv, FlightInv
    <2>6. \A f \in Eps : \A c \in flight'[f] \cup Data(queue[f]) \cup Data(batch[f]) :
            c \in Segment /\ Passed(c)'
      BY <2>1, <2>3
    <2> QED BY <1>1, <2>5, <2>6, FlightPrimed
  <1> QED BY <1>2, <1>3 DEF WasmSend

(* What arrives leaves the data channel as it enters the queue.            *)
LEMMA MessageFlightInv ==
  ASSUME Inv, NEW e \in Eps, NEW s \in flight[e], OnMessage(e, s)
  PROVE  FlightInv'
  <1>1. /\ AdapterTypeOK /\ call' = call
        /\ \A f \in Eps : flight'[f] = IF f = e THEN flight[e] \ {s} ELSE flight[f]
    BY DEF OnMessage, Inv, TypeInv, TypeOK
  <1>2. \A c : Passed(c) => Passed(c)'
    BY <1>1 DEF Passed
  <1>3. CASE UNCHANGED recvVars
    BY <1>1, <1>2, <1>3, QuietFlightInv DEF recvVars, Inv
  <1>4. CASE Enqueue(e, Tag(e, s))
    <2>1. Tag(e, s) \in Inbound /\ Tag(e, s).data = s
      BY PeerType DEF Tag, Inbound, Inv, TypeInv, TypeOK
    <2>2. /\ \A f \in Eps : s \notin Data(queue[f]) /\ s \notin Data(batch[f])
          /\ \A f \in Eps : f # e => s \notin flight[f]
          /\ \A f \in Eps : Distinct(queue[f])
      BY DEF Inv, FlightInv, Apart, Disjoint
    <2>3. /\ \A f \in Eps : /\ Data(queue'[f]) = Data(queue[f]) \cup (IF f = e THEN {s} ELSE {})
                            /\ Distinct(queue'[f])
          /\ batch' = batch
      BY <1>1, <1>4, <2>1, <2>2, EnqueueData
    <2>4. \A f \in Eps : /\ Data(queue'[f]) \subseteq Data(queue[f]) \cup (IF f = e THEN {s} ELSE {})
                         /\ Distinct(queue'[f])
                         /\ flight'[f] \subseteq flight[f] /\ s \notin flight'[f]
                         /\ s \notin Data(queue[f]) /\ s \notin Data(batch[f])
      BY <1>1, <2>2, <2>3
    <2>5. Apart(flight', queue', batch)
      BY <2>4, ArriveApart DEF Inv, FlightInv
    <2>6. \A f \in Eps : \A c \in flight'[f] \cup Data(queue'[f]) \cup Data(batch[f]) :
            c \in flight[f] \/ c \in Data(queue[f]) \/ c \in Data(batch[f])
      BY <1>1, <2>3
    <2>7. \A f \in Eps : \A c \in flight'[f] \cup Data(queue'[f]) \cup Data(batch[f]) :
            c \in Segment /\ Passed(c)'
      BY <1>2, <2>6 DEF Inv, FlightInv, AllPassed
    <2> QED BY <2>3, <2>5, <2>7, FlightPrimed
  <1> QED BY <1>3, <1>4 DEF OnMessage

LEMMA NextFlightInv == Inv /\ [Next]_vars => FlightInv'
  <1> SUFFICES ASSUME Inv, [Next]_vars PROVE FlightInv'
    OBVIOUS
  <1>1. ASSUME UNCHANGED <<queue, batch, call>>, \A f \in Eps : flight'[f] \subseteq flight[f]
        PROVE  FlightInv'
    BY <1>1, QuietFlightInv DEF Inv, Passed
  <1>2. ASSUME NEW e \in Eps, Open(e) \/ StartChat(e) PROVE FlightInv'
    BY <1>1, <1>2 DEF Open, StartChat, adapterVars, recvVars
  <1>3. ASSUME NEW e \in Eps, Close(e) \/ \E s \in flight[e] : Lose(e, s) PROVE FlightInv'
    <2>1. UNCHANGED <<queue, batch, call>>
      BY <1>3 DEF Close, Lose, adapterVars, recvVars
    <2>2. \A f \in Eps : flight'[f] \subseteq flight[f]
      BY <1>3 DEF Close, Lose, Inv, TypeInv, TypeOK
    <2> QED BY <1>1, <2>1, <2>2
  <1>4. ASSUME NEW t \in Transmits, NEW e \in Eps, NEW a \in Addr,
               PollSend(t, e, a), UNCHANGED wasmVars
        PROVE  FlightInv'
    <2>1. UNCHANGED <<queue, batch, flight>>
      BY <1>4 DEF PollSend, recvVars, wasmVars
    <2>2. \A c \in Segment : Passed(c) => Passed(c)'
      BY <1>4, PollSendOffers DEF Inv, TypeInv, TypeOK
    <2> QED BY <2>1, <2>2, QuietFlightInv DEF Inv
  <1>5. CASE UNCHANGED vars
    BY <1>1, <1>5 DEF vars, adapterVars, recvVars, wasmVars
  <1> QED BY <1>2, <1>3, <1>4, <1>5, StepFlightInv, SendFlightInv, MessageFlightInv DEF Next

LEMMA InvHolds == Spec => []Inv
  <1>1. Init => Inv
    BY InitTypeInv, InitFlightInv DEF Inv
  <1>2. Inv /\ [Next]_vars => Inv'
    BY NextTypeInv, NextFlightInv DEF Inv
  <1> QED BY <1>1, <1>2, PTL DEF Spec

-----------------------------------------------------------------------------
(* No datagram is stranded.                                                *)

(* Nothing here closes a channel for good: its sender lives in a callback. *)
NeverShut == \A e \in Eps : ~shut[e]

LEMMA MessageNoStranded ==
  ASSUME AdapterTypeOK, NoStranded, NeverShut, NEW e \in Eps, NEW s, OnMessage(e, s)
  PROVE  NoStranded'
  <1>1. CASE UNCHANGED recvVars
    BY <1>1 DEF OnMessage, recvVars, NoStranded
  <1>2. CASE Enqueue(e, Tag(e, s))
    <2>1. /\ Wake(e) /\ UNCHANGED <<life, slots, shut>> /\ ~shut[e]
          /\ \A f \in Eps : f # e => queue'[f] = queue[f]
      BY <1>2 DEF OnMessage, Enqueue, NeverShut, AdapterTypeOK
    <2> QED BY <2>1, WakeNoStranded
  <1> QED BY <1>1, <1>2 DEF OnMessage

(* However the page opens and closes the channel, a driver that waits has  *)
(* nothing to fetch and will be told when it has: every message event that *)
(* is queued finds its waker or finds it awake (wire_inbound, poll_recv),  *)
(* provided iroh never polls without a buffer.                             *)
THEOREM NothingStranded ==
  ASSUME 0 \notin Slots
  PROVE  Spec => []NoStranded
  <1>1. Init => NoStranded /\ NeverShut
    BY InitNoStranded DEF Init, AdapterInit, NeverShut
  <1>2. Inv /\ NeverShut /\ [Next]_vars => NeverShut'
    BY DEF Next, Open, StartChat, Close, WasmSend, Lose, AdapterStep, Bind, Discard, PollRecv, PollTake,
           PollFull, PollIdle, PollSend, OnMessage, Enqueue, vars, adapterVars, recvVars, NeverShut
  <1>3. Inv /\ NoStranded /\ NeverShut /\ [Next]_vars => NoStranded'
    <2> SUFFICES ASSUME Inv, NoStranded, NeverShut, [Next]_vars PROVE NoStranded'
      OBVIOUS
    <2>1. CASE \E e \in Eps : Open(e) \/ StartChat(e) \/ Close(e)
      BY <2>1 DEF Open, StartChat, Close, adapterVars, recvVars, NoStranded,
                        Inv, TypeInv, TypeOK, AdapterTypeOK
    <2>2. CASE \E t \in Transmits : WasmSend(t)
      BY <2>2 DEF WasmSend, recvVars, NoStranded
    <2>3. ASSUME NEW e \in Eps, NEW s \in flight[e], Lose(e, s) PROVE NoStranded'
      BY <2>3 DEF Lose, adapterVars, recvVars, NoStranded
    <2>4. ASSUME NEW e \in Eps, NEW s, OnMessage(e, s) PROVE NoStranded'
      BY <2>4, MessageNoStranded DEF Inv, TypeInv, TypeOK
    <2>5. ASSUME NEW e \in Eps, AdapterStep(e) PROVE NoStranded'
      BY <2>5, StepNoStranded DEF Inv, TypeInv, TypeOK
    <2>6. ASSUME NEW t \in Transmits, NEW e \in Eps, NEW a \in Addr, PollSend(t, e, a)
          PROVE  NoStranded'
      BY <2>6 DEF PollSend, recvVars, NoStranded
    <2>7. CASE UNCHANGED vars
      BY <2>7 DEF vars, adapterVars, recvVars, NoStranded
    <2> QED BY <2>1, <2>2, <2>3, <2>4, <2>5, <2>6, <2>7 DEF Next
  <1> QED BY <1>1, <1>2, <1>3, InvHolds, PTL DEF Spec

-----------------------------------------------------------------------------
(* Nothing owed is lost.                                                   *)

(* What the handler has queued and a slot can hold stays until it is       *)
(* handed up or the endpoint dropped, whatever becomes of the data channel *)
(* and however many datagrams are skipped (wire_inbound, poll_recv).       *)
THEOREM NothingForgotten == Spec => [][KeepsOwed]_vars
  <1>1. ASSUME Inv, Next PROVE KeepsOwed
    <2>1. ASSUME NEW e \in Eps, AdapterStep(e) PROVE KeepsOwed
      BY <1>1, <2>1, StepKeepsOwed DEF Inv, TypeInv, TypeOK
    <2>2. ASSUME NEW t \in Transmits, NEW e \in Eps, NEW a \in Addr, PollSend(t, e, a)
          PROVE  KeepsOwed
      BY <2>2, QuietKeepsOwed DEF PollSend, recvVars
    <2>3. ASSUME NEW e \in Eps, NEW s \in flight[e], OnMessage(e, s) PROVE KeepsOwed
      <3>1. CASE UNCHANGED recvVars
        BY <3>1, QuietKeepsOwed DEF recvVars
      <3>2. CASE Enqueue(e, Tag(e, s))
        <4>1. Tag(e, s) \in Inbound
          BY <1>1, PeerType DEF Tag, Inbound, Inv, TypeInv, TypeOK
        <4> QED BY <1>1, <3>2, <4>1, EnqueueKeepsOwed DEF Inv, TypeInv, TypeOK
      <3> QED BY <2>3, <3>1, <3>2 DEF OnMessage
    <2>4. CASE \E e \in Eps : \/ Open(e) \/ StartChat(e) \/ Close(e)
                            \/ \E s \in flight[e] : Lose(e, s)
      BY <2>4, QuietKeepsOwed DEF Open, StartChat, Close, Lose, adapterVars, recvVars
    <2>5. CASE \E t \in Transmits : WasmSend(t)
      BY <2>5, QuietKeepsOwed DEF WasmSend, recvVars
    <2> QED BY <1>1, <2>1, <2>2, <2>3, <2>4, <2>5 DEF Next
  <1>2. Inv /\ [Next]_vars => [KeepsOwed]_vars
    BY <1>1
  <1> QED BY <1>2, InvHolds, PTL DEF Spec

-----------------------------------------------------------------------------
(* The refinement.                                                         *)

Wire == UNION {InChannel(e) \cup As(e, queue[e]) \cup As(e, batch[e]) : e \in Eps}

LEMMA InWire ==
  ASSUME NEW m
  PROVE  m \in Wire
           <=> \E e \in Eps : m \in InChannel(e) \/ m \in As(e, queue[e]) \/ m \in As(e, batch[e])
  BY DEF Wire

LEMMA InWirePrimed ==
  ASSUME NEW m
  PROVE  m \in Wire'
           <=> \E e \in Eps : m \in InChannel(e)' \/ m \in As(e, queue'[e]) \/ m \in As(e, batch'[e])
  BY DEF Wire, As

LEMMA InitRefines == Init => Seam!Init
  <1> SUFFICES ASSUME Init PROVE Seam!Init
    OBVIOUS
  <1>1. Offered = {}
    BY InitOffered DEF Init
  <1>2. \A e \in Eps : /\ As(e, queue[e]) = {} /\ As(e, batch[e]) = {} /\ As(e, up[e]) = {}
                       /\ InChannel(e) = {}
    BY EmptyData DEF Init, AdapterInit, InChannel
  <1>3. Wire = {} /\ [e \in Eps |-> As(e, up[e])] = [e \in Eps |-> {}]
    BY <1>2 DEF Wire
  <1> QED BY <1>1, <1>3 DEF Seam!Init, Wire

(* A step that offers and hands up nothing can only lose.                  *)
LEMMA LosesAtMost ==
  ASSUME Offered' = Offered, Got' = Got, Wire' \subseteq Wire
  PROVE  Seam!Next
  BY DEF Seam!Next, Seam!Lose, Wire, Got

LEMMA StepRefines ==
  ASSUME Inv, NEW e \in Eps, AdapterStep(e), UNCHANGED wasmVars
  PROVE  Seam!Next
  <1> DEFINE W == [f \in Eps |-> InChannel(f)]
             S == As(e, batch[e])
  <1>1. Offered' = Offered
    BY StepMoves, OfferedKept
  <1>2. Wire = WireOf(W, queue, batch) /\ Wire' = WireOf(W, queue', batch')
    <2>1. \A f \in Eps : InChannel(f)' = InChannel(f)
      BY DEF wasmVars, InChannel
    <2> QED BY <2>1 DEF Wire, WireOf, As
  <1>3. \A f \in Eps : \A m \in W[f] : m.data \in flight[f]
    BY DEF InChannel
  <1> HIDE DEF W
  <1>4. \/ Wire' \subseteq Wire /\ Got' = Got
        \/ Wire' = Wire \ S /\ Got' = [Got EXCEPT ![e] = @ \cup S]
    BY <1>2, <1>3, StepAsSeam DEF Inv, TypeInv, TypeOK, FlightInv
  <1>5. S \in SUBSET {m \in Wire : m.to = KeyOf[e]}
    BY AsData DEF Wire
  <1>6. CASE S = {}
    <2>1. Wire' \subseteq Wire /\ Got' = Got
      BY <1>4, <1>6 DEF Got
    <2> QED BY <1>1, <2>1, LosesAtMost
  <1>7. CASE Wire' = Wire \ S /\ Got' = [Got EXCEPT ![e] = @ \cup S] /\ S # {}
    <2>1. Seam!Receive(e)
      BY <1>1, <1>5, <1>7 DEF Seam!Receive, Wire, Got
    <2> QED BY <2>1 DEF Seam!Next
  <1> QED BY <1>1, <1>4, <1>6, <1>7, LosesAtMost

LEMMA SendRefines ==
  ASSUME Inv, NEW t \in Transmits, WasmSend(t)
  PROVE  Seam!Next
  <1> DEFINE e == call[t].ep
             s == NextInbound(t).data
             m == Outgoing(t)
  <1>1. /\ AdapterTypeOK /\ CallInv /\ Sending(t) /\ Advance(t)
        /\ UNCHANGED <<queue, batch, up>>
    BY DEF Inv, TypeInv, TypeOK, WasmSend, recvVars
  <1>2. m \in SeamDatagram \ Offered /\ Offered' = Offered \cup {m}
    BY <1>1, AdvanceOffers
  <1>3. Got' = Got
    BY <1>1 DEF Got, As
  <1>4. Wire' \in {Wire, Wire \cup {m}}
    <2>1. CASE flight' = flight
      BY <1>1, <2>1 DEF Wire, InChannel, As
    <2>2. CASE call[t].dst = Remote(e) /\ flight' = [flight EXCEPT ![Peer(e)] = @ \cup {s}]
      <3>1. e \in Eps /\ Peer(e) \in Eps /\ Peer(Peer(e)) = e
        BY <1>1, PeerType DEF CallInv, Sending
      <3>2. m = [from |-> Remote(Peer(e)), to |-> KeyOf[Peer(e)], data |-> s]
        BY <2>2, <3>1 DEF Outgoing, Remote
      <3>3. \A f \in Eps : flight'[f] = flight[f] \cup (IF f = Peer(e) THEN {s} ELSE {})
        BY <2>2, <3>1 DEF Inv, TypeInv, TypeOK
      <3> HIDE DEF e, s, m
      <3>4. \A f \in Eps : InChannel(f)' = InChannel(f) \cup (IF f = Peer(e) THEN {m} ELSE {})
        BY <3>2, <3>3 DEF InChannel
      <3>5. ASSUME NEW d PROVE d \in Wire' <=> d \in Wire \/ d = m
        BY <1>1, <3>1, <3>4, InWire, InWirePrimed
      <3>6. Wire' = Wire \cup {m}
        BY <3>5
      <3> QED BY <3>6
    <2> QED BY <2>1, <2>2 DEF WasmSend
  <1>5. Seam!Send(m) /\ m \in Seam!Datagram
    BY <1>2, <1>3, <1>4 DEF Seam!Send, Seam!Datagram, SeamDatagram, Wire, Got
  <1> QED BY <1>5 DEF Seam!Next

(* A message event moves a datagram along the wire, or loses it.           *)
LEMMA MessageRefines ==
  ASSUME Inv, NEW e \in Eps, NEW s \in flight[e], OnMessage(e, s)
  PROVE  Seam!Next
  <1> DEFINE m == [from |-> Remote(e), to |-> KeyOf[e], data |-> s]
  <1>1. /\ AdapterTypeOK /\ Offered' = Offered /\ UNCHANGED <<batch, up>>
        /\ \A f \in Eps : flight'[f] \subseteq flight[f]
    BY OfferedKept DEF OnMessage, Enqueue, recvVars, Inv, TypeInv, TypeOK
  <1>2. Got' = Got
    BY <1>1 DEF Got, As
  <1>3. \A f \in Eps : \A d \in InChannel(f)' : d \in InChannel(f)
    BY <1>1 DEF InChannel
  <1>4. m \in InChannel(e)
    BY DEF InChannel
  <1>5. \A f \in Eps : \A d \in As(f, queue'[f]) : d \in As(f, queue[f]) \/ (f = e /\ d = m)
    <2>1. CASE UNCHANGED recvVars
      BY <2>1 DEF recvVars
    <2>2. CASE Enqueue(e, Tag(e, s))
      <3>1. Tag(e, s) \in Inbound /\ Tag(e, s).data = s /\ Tag(e, s).from = Remote(e)
        BY PeerType DEF Tag, Inbound, Inv, TypeInv, TypeOK
      <3>2. As(e, Append(queue[e], Tag(e, s))) = As(e, queue[e]) \cup {m}
        BY <1>1, <3>1, DataOfAppend DEF AdapterTypeOK
      <3>3. \A f \in Eps : queue'[f] = IF f = e THEN Append(queue[e], Tag(e, s)) ELSE queue[f]
        BY <1>1, <2>2 DEF Enqueue, AdapterTypeOK
      <3> QED BY <3>2, <3>3
    <2> QED BY <2>1, <2>2 DEF OnMessage
  <1> HIDE DEF m
  <1>6. ASSUME NEW d \in Wire' PROVE d \in Wire
    BY <1>1, <1>3, <1>4, <1>5, InWire, InWirePrimed
  <1> QED BY <1>1, <1>2, <1>6, LosesAtMost

LEMMA NextRefines == Inv /\ [Next]_vars => [Seam!Next]_(Seam!vars)
  <1> SUFFICES ASSUME Inv, [Next]_vars PROVE [Seam!Next]_(Seam!vars)
    OBVIOUS
  <1>1. ASSUME UNCHANGED <<queue, batch, up>>, Offered' = Offered,
               \A f \in Eps : flight'[f] \subseteq flight[f]
        PROVE  Seam!Next
    <2>1. \A f \in Eps : \A d \in InChannel(f)' : d \in InChannel(f)
      BY <1>1 DEF InChannel
    <2>2. ASSUME NEW d \in Wire' PROVE d \in Wire
      BY <1>1, <2>1, InWire, InWirePrimed
    <2>3. Got' = Got
      BY <1>1 DEF Got, As
    <2> QED BY <1>1, <2>2, <2>3, LosesAtMost
  <1>2. ASSUME NEW e \in Eps, Open(e) \/ StartChat(e) PROVE Seam!Next
    <2>1. UNCHANGED <<queue, batch, up, call, flight>>
      BY <1>2 DEF Open, StartChat, adapterVars, recvVars
    <2> QED BY <1>1, <2>1, OfferedKept
  <1>3. ASSUME NEW e \in Eps, Close(e) \/ \E s \in flight[e] : Lose(e, s) PROVE Seam!Next
    <2>1. UNCHANGED <<queue, batch, up, call>>
      BY <1>3 DEF Close, Lose, adapterVars, recvVars
    <2>2. \A f \in Eps : flight'[f] \subseteq flight[f]
      BY <1>3 DEF Close, Lose, Inv, TypeInv, TypeOK
    <2> QED BY <1>1, <2>1, <2>2, OfferedKept
  <1>4. ASSUME NEW t \in Transmits, NEW e \in Eps, NEW a \in Addr,
               PollSend(t, e, a), UNCHANGED wasmVars
        PROVE  Seam!Next
    <2>1. UNCHANGED <<queue, batch, up, flight>>
      BY <1>4 DEF PollSend, recvVars, wasmVars
    <2>2. Offered' = Offered
      BY <1>4, PollSendOffers DEF Inv, TypeInv, TypeOK
    <2> QED BY <1>1, <2>1, <2>2
  <1>5. CASE UNCHANGED vars
    BY <1>1, <1>5, OfferedKept DEF vars, adapterVars, recvVars, wasmVars
  <1> QED BY <1>2, <1>3, <1>4, <1>5, StepRefines, SendRefines, MessageRefines DEF Next

(* The browser carrier under the adapter keeps the seam's contract: what   *)
(* comes before the handler or after a close is lost, and nothing is       *)
(* forged, misrouted or delivered twice.                                   *)
THEOREM Refinement == Spec => ImplementsSeam
  <1> QED BY InitRefines, NextRefines, InvHolds, PTL DEF Spec, ImplementsSeam, Seam!Spec
=============================================================================

------------------------ MODULE MemTransport_proofs ------------------------
(***************************************************************************)
(* Proofs about the in-memory carrier under the adapter, for any number of *)
(* endpoints, keys and transmits, and any capacity, segment sizes and      *)
(* numbers of receive buffers.                                             *)
(***************************************************************************)
EXTENDS MemTransport, Adapter_proofs

(* The registry leads to open channels of built endpoints, each under its  *)
(* own key, and the channel of an endpoint not built yet is not closed.    *)
RegistryOpen ==
  /\ \A k \in Keys : registry[k] # NoEp =>
       /\ KeyOf[registry[k]] = k
       /\ ~shut[registry[k]]
       /\ life[registry[k]] # "unbuilt"
  /\ \A e \in Eps : life[e] = "unbuilt" => ~shut[e]

TypeInv == TypeOK /\ CallInv
Inv == TypeInv /\ RegistryOpen

-----------------------------------------------------------------------------
(* The operators the actions are built from.                               *)

(* What an accepting channel is: that of a built endpoint, with room.      *)
LEMMA RouteType ==
  ASSUME TypeOK, NEW t \in Transmits, Sending(t), Accepts(RouteTo(call[t].dst))
  PROVE  /\ call[t].dst \in Keys
         /\ RouteTo(call[t].dst) \in Eps
         /\ Len(queue[RouteTo(call[t].dst)]) < Capacity
  BY DEF TypeOK, AdapterTypeOK, Sending, Accepts, RouteTo

-----------------------------------------------------------------------------
(* Type correctness.                                                       *)

LEMMA InitTypeInv == Init => TypeInv
  <1> SUFFICES ASSUME Init PROVE TypeInv
    OBVIOUS
  <1>1. AdapterTypeOK
    BY DEF Init, AdapterInit, AdapterTypeOK, Life
  <1>2. registry \in [Keys -> Eps \cup {NoEp}]
    BY DEF Init
  <1>3. \A e \in Eps : Len(queue[e]) <= Capacity
    <2> TAKE e \in Eps
    <2>1. queue[e] = <<>>
      BY DEF Init, AdapterInit
    <2>2. Len(<<>>) = 0
      OBVIOUS
    <2> QED BY <2>1, <2>2, CapacityAssumption
  <1>4. CallInv
    BY InitCallInv DEF Init
  <1> QED BY <1>1, <1>2, <1>3, <1>4 DEF TypeInv, TypeOK

(* poll_recv and the life cycle of one endpoint.                           *)
LEMMA EpStepTypeInv ==
  ASSUME TypeInv, NEW e \in Eps, EpStep(e)
  PROVE  TypeInv'
  <1>1. AdapterTypeOK'
    BY StepTypes DEF TypeInv, TypeOK, EpStep
  <1>2. CallInv'
    BY StepMoves, CallKept DEF TypeInv, EpStep
  <1>3. ASSUME NEW f \in Eps
        PROVE  Len(queue'[f]) <= Capacity
    <2>1. queue[f] \in Seq(Inbound) /\ Len(queue[f]) <= Capacity
      BY DEF TypeInv, TypeOK, AdapterTypeOK
    <2>2. \/ queue'[f] = queue[f] \/ queue'[f] = <<>>
          \/ queue[f] # <<>> /\ queue'[f] = Tail(queue[f])
      <3>1. queue' = queue \/ Cleared(e) \/ Taken(e)
        BY StepMoves DEF EpStep, Quiet, Returned
      <3> QED BY <3>1 DEF Cleared, Taken, TypeInv, TypeOK, AdapterTypeOK
    <2>3. CASE queue'[f] = queue[f]
      BY <2>1, <2>3
    <2>4. CASE queue'[f] = <<>>
      <3>1. Len(<<>>) = 0
        OBVIOUS
      <3> QED BY <2>4, <3>1, CapacityAssumption
    <2>5. CASE queue[f] # <<>> /\ queue'[f] = Tail(queue[f])
      <3>1. Len(Tail(queue[f])) = Len(queue[f]) - 1 /\ Len(queue[f]) \in Nat
        BY <2>1, <2>5
      <3> QED BY <2>1, <2>5, <3>1, CapacityAssumption
    <2> QED BY <2>2, <2>3, <2>4, <2>5
  <1> QED BY <1>1, <1>2, <1>3 DEF TypeInv, TypeOK, EpStep

(* A registration, which may close the channel it replaces.                *)
LEMMA BackendTypeInv ==
  ASSUME TypeInv, NEW e \in Eps, Backend(e)
  PROVE  TypeInv'
  <1> USE DEF TypeInv, TypeOK, AdapterTypeOK, Backend
  <1>0. CallInv'
    BY CallKept
  <1>1. life' \in [Eps -> Life] /\ call' = call
    BY DEF Life
  <1>2. registry' \in [Keys -> Eps \cup {NoEp}]
    BY AdapterAssumption
  <1>3. CASE registry[KeyOf[e]] = NoEp
    BY <1>0, <1>1, <1>2, <1>3 DEF recvVars
  <1>4. CASE registry[KeyOf[e]] # NoEp
    BY <1>0, <1>1, <1>2, <1>4 DEF CloseChannel, Wake
  <1> QED BY <1>3, <1>4

(* A segment is sent: it is queued at its destination or dropped.          *)
LEMMA MemSendTypeInv ==
  ASSUME TypeInv, NEW t \in Transmits, MemSend(t)
  PROVE  TypeInv'
  <1> DEFINE r == RouteTo(call[t].dst)
  <1>1. Sending(t) /\ life' = life /\ registry' = registry
    BY DEF MemSend
  <1>2. call' \in [Transmits -> [ep : Eps \cup {NoEp}, dst : Keys \cup {NoKey},
                                 sent : Nat]]
        /\ CallInv'
    BY SegmentType, AdvanceCuts DEF MemSend, Advance, TypeInv, TypeOK, AdapterTypeOK
  <1>3. CASE ~Accepts(r)
    BY <1>1, <1>2, <1>3
    DEF MemSend, recvVars, TypeInv, TypeOK, AdapterTypeOK
  <1>4. CASE Accepts(r)
    <2>1. r \in Eps /\ Len(queue[r]) < Capacity /\ NextInbound(t) \in Inbound
      BY <1>1, <1>4, RouteType, InboundType DEF TypeInv, TypeOK
    <2>2. Enqueue(r, NextInbound(t))
      BY <1>4 DEF MemSend
    <2>3. queue' \in [Eps -> Seq(Inbound)]
      BY <2>1, <2>2 DEF Enqueue, TypeInv, TypeOK, AdapterTypeOK
    <2>4. \A e \in Eps : Len(queue'[e]) <= Capacity
      BY <2>1, <2>2, CapacityAssumption
      DEF Enqueue, TypeInv, TypeOK, AdapterTypeOK
    <2> QED BY <1>1, <1>2, <2>2, <2>3, <2>4
      DEF Enqueue, Wake, TypeInv, TypeOK, AdapterTypeOK
  <1> QED BY <1>3, <1>4

LEMMA PollSendTypeInv ==
  ASSUME TypeInv, NEW t \in Transmits, NEW e \in Eps, NEW a \in Addr,
         PollSend(t, e, a), UNCHANGED registry
  PROVE  TypeInv'
  <1>1. AdapterTypeOK' /\ CallInv'
    BY PollSendOffers DEF TypeInv, TypeOK
  <1> QED BY <1>1 DEF PollSend, recvVars, TypeInv, TypeOK

LEMMA NextTypeInv == TypeInv /\ [Next]_vars => TypeInv'
  <1> SUFFICES ASSUME TypeInv, [Next]_vars PROVE TypeInv'
    OBVIOUS
  <1>1. CASE UNCHANGED vars
    BY <1>1, CallKept DEF vars, adapterVars, recvVars, TypeInv, TypeOK, AdapterTypeOK
  <1>2. CASE Next
    BY <1>2, EpStepTypeInv, BackendTypeInv, MemSendTypeInv, PollSendTypeInv
    DEF Next
  <1> QED BY <1>1, <1>2

(* Every variable keeps its type, and no channel ever holds more than its  *)
(* capacity, though senders on many threads push into it.                  *)
THEOREM TypeCorrect == Spec => []TypeOK
  <1>1. TypeInv => TypeOK
    BY DEF TypeInv
  <1> QED BY <1>1, InitTypeInv, NextTypeInv, PTL DEF Spec

-----------------------------------------------------------------------------
(* The registry.                                                           *)

LEMMA InitRegistryOpen == Init => RegistryOpen
  BY DEF Init, AdapterInit, RegistryOpen

(* A registration: the newcomer's channel is open, and it differs from the *)
(* one that is closed, which belonged to the same key and no other.        *)
LEMMA BackendRegistryOpen ==
  ASSUME Inv, NEW e \in Eps, Backend(e)
  PROVE  RegistryOpen'
  <1> USE DEF Inv, TypeInv, TypeOK, AdapterTypeOK
  <1> DEFINE old == registry[KeyOf[e]]
  <1>1. KeyOf[e] \in Keys /\ ~shut[e] /\ e # NoEp
    BY AdapterAssumption DEF RegistryOpen, Backend
  <1>2. \A f \in Eps : shut'[f] => shut[f] \/ f = old
    BY DEF Backend, recvVars, CloseChannel
  <1>3. old # NoEp => old \in Eps /\ KeyOf[old] = KeyOf[e] /\ old # e
    BY <1>1 DEF RegistryOpen, Backend
  <1>4. ~shut'[e] /\ life'[e] # "unbuilt"
    BY <1>1, <1>2, <1>3 DEF Backend
  <1>5. ASSUME NEW k \in Keys, registry'[k] # NoEp
        PROVE  /\ KeyOf[registry'[k]] = k
               /\ ~shut'[registry'[k]]
               /\ life'[registry'[k]] # "unbuilt"
    <2>1. CASE k = KeyOf[e]
      BY <1>4, <2>1 DEF Backend
    <2>2. CASE k # KeyOf[e]
      <3>1. registry'[k] = registry[k] /\ registry[k] \in Eps
        BY <1>5, <2>2 DEF Backend
      <3>2. /\ KeyOf[registry[k]] = k
            /\ ~shut[registry[k]]
            /\ life[registry[k]] # "unbuilt"
        BY <1>5, <3>1 DEF RegistryOpen
      <3>3. registry[k] # old
        BY <1>3, <1>5, <2>2, <3>1, <3>2
      <3> QED BY <1>2, <3>1, <3>2, <3>3 DEF Backend
    <2> QED BY <2>1, <2>2
  <1>6. ASSUME NEW f \in Eps, life'[f] = "unbuilt"
        PROVE  ~shut'[f]
    <2>1. life[f] = "unbuilt"
      BY <1>6 DEF Backend
    <2>2. f # old /\ ~shut[f]
      BY <1>1, <1>3, <2>1, AdapterAssumption DEF RegistryOpen
    <2> QED BY <1>2, <2>2
  <1> QED BY <1>5, <1>6 DEF RegistryOpen

(* Nothing else closes a channel, moves a key or unbuilds an endpoint.     *)
LEMMA NextRegistryOpen == Inv /\ [Next]_vars => RegistryOpen'
  <1> SUFFICES ASSUME Inv, [Next]_vars PROVE RegistryOpen'
    OBVIOUS
  <1>1. ASSUME NEW e \in Eps, Backend(e) PROVE RegistryOpen'
    BY <1>1, BackendRegistryOpen
  <1>2. ASSUME UNCHANGED <<registry, shut>>,
               \A e \in Eps : (life'[e] = "unbuilt") <=> (life[e] = "unbuilt")
        PROVE  RegistryOpen'
    BY <1>2 DEF Inv, TypeInv, TypeOK, RegistryOpen
  <1>3. ASSUME NEW e \in Eps, EpStep(e) PROVE RegistryOpen'
    <2>1. UNCHANGED <<registry, shut>>
      BY <1>3 DEF EpStep, AdapterStep, Bind, Discard, PollRecv, PollTake,
                  PollFull, PollIdle
    <2>2. \A f \in Eps : (life'[f] = "unbuilt") <=> (life[f] = "unbuilt")
      BY <1>3 DEF EpStep, AdapterStep, Bind, Discard, PollRecv, PollTake,
                  PollFull, PollIdle, Inv, TypeInv, TypeOK, AdapterTypeOK
    <2> QED BY <1>2, <2>1, <2>2
  <1>4. ASSUME NEW t \in Transmits, MemSend(t) PROVE RegistryOpen'
    BY <1>2, <1>4 DEF MemSend, Enqueue, recvVars
  <1>5. ASSUME NEW t \in Transmits, NEW e \in Eps, NEW a \in Addr,
               PollSend(t, e, a), UNCHANGED registry
        PROVE  RegistryOpen'
    BY <1>2, <1>5 DEF PollSend, recvVars
  <1>6. CASE UNCHANGED vars
    BY <1>2, <1>6 DEF vars, adapterVars, recvVars
  <1> QED BY <1>1, <1>3, <1>4, <1>5, <1>6 DEF Next

LEMMA InvHolds == Spec => []Inv
  <1>1. Init => Inv
    BY InitTypeInv, InitRegistryOpen DEF Inv
  <1>2. Inv /\ [Next]_vars => Inv'
    BY NextTypeInv, NextRegistryOpen DEF Inv
  <1> QED BY <1>1, <1>2, PTL DEF Spec

-----------------------------------------------------------------------------
(* No datagram is stranded.                                                *)

LEMMA BackendNoStranded ==
  ASSUME Inv, NoStranded, NEW e \in Eps, Backend(e)
  PROVE  NoStranded'
  <1> DEFINE old == registry[KeyOf[e]]
  <1> USE DEF Inv, TypeInv, TypeOK, AdapterTypeOK
  <1>1. \A f \in Eps : life'[f] = "bound" => life[f] = "bound"
    BY DEF Backend
  <1>2. CASE old = NoEp
    BY <1>1, <1>2 DEF Backend, recvVars, NoStranded
  <1>3. CASE old # NoEp
    <2>1. old \in Eps /\ CloseChannel(old)
      BY <1>3, AdapterAssumption DEF Backend
    <2> SUFFICES ASSUME NEW f \in Eps, life'[f] = "bound", slots'[f] = 0,
                        ~woken'[f]
                 PROVE  queue'[f] = <<>> /\ (waker'[f] \/ shut'[f])
      BY DEF NoStranded
    <2>2. life[f] = "bound" /\ slots[f] = 0 /\ ~woken[f]
      BY <1>1, <2>1 DEF CloseChannel, Wake
    <2>3. queue[f] = <<>> /\ (waker[f] \/ shut[f])
      BY <2>2 DEF NoStranded
    <2> QED BY <2>1, <2>3 DEF CloseChannel, Wake
  <1> QED BY <1>2, <1>3

LEMMA MemSendNoStranded ==
  ASSUME Inv, NoStranded, NEW t \in Transmits, MemSend(t)
  PROVE  NoStranded'
  <1> DEFINE r == RouteTo(call[t].dst)
  <1> USE DEF Inv, TypeInv
  <1>1. CASE ~Accepts(r)
    BY <1>1 DEF MemSend, recvVars, NoStranded
  <1>2. CASE Accepts(r)
    <2>1. Enqueue(r, NextInbound(t)) /\ UNCHANGED <<life, shut, slots>>
      BY <1>2 DEF MemSend, Enqueue
    <2>2. r \in Eps /\ ~shut[r]
      BY <1>2, RouteType DEF MemSend, RouteTo, RegistryOpen, Accepts
    <2>3. \A e \in Eps : e # r => queue'[e] = queue[e]
      BY <2>1, <2>2 DEF Enqueue, TypeOK, AdapterTypeOK
    <2>4. Wake(r)
      BY <2>1 DEF Enqueue
    <2> QED BY <2>1, <2>2, <2>3, <2>4, WakeNoStranded DEF TypeOK
  <1> QED BY <1>1, <1>2

(* Whatever the backlog, the batch sizes and the senders' timing, an idle  *)
(* driver has nothing to fetch and will be told when it has, provided iroh *)
(* never polls without a buffer.                                           *)
THEOREM NothingStranded ==
  ASSUME 0 \notin Slots
  PROVE  Spec => []NoStranded
  <1>1. Inv /\ NoStranded /\ [Next]_vars => NoStranded'
    <2> SUFFICES ASSUME Inv, NoStranded, [Next]_vars PROVE NoStranded'
      OBVIOUS
    <2>1. ASSUME NEW t \in Transmits, NEW e \in Eps, NEW a \in Addr,
                 PollSend(t, e, a)
          PROVE  NoStranded'
      BY <2>1 DEF PollSend, recvVars, NoStranded
    <2>2. CASE UNCHANGED vars
      BY <2>2 DEF vars, adapterVars, recvVars, NoStranded
    <2> QED
      BY <2>1, <2>2, StepNoStranded, BackendNoStranded, MemSendNoStranded
      DEF Next, Inv, TypeInv, TypeOK, EpStep
  <1>2. Init => NoStranded
    BY InitNoStranded DEF Init
  <1> QED BY <1>1, <1>2, InvHolds, PTL DEF Spec

-----------------------------------------------------------------------------
(* Nothing owed is lost.                                                   *)

(* What the channel has accepted and a slot can hold stays until it is     *)
(* handed up or the endpoint dropped: a newcomer that takes the key over   *)
(* closes the old channel and leaves what is in it (backend, poll_recv).   *)
THEOREM NothingForgotten == Spec => [][KeepsOwed]_vars
  <1>1. ASSUME Inv, Next PROVE KeepsOwed
    <2>1. ASSUME NEW e \in Eps, AdapterStep(e) PROVE KeepsOwed
      BY <1>1, <2>1, StepKeepsOwed DEF Inv, TypeInv, TypeOK
    <2>2. ASSUME NEW t \in Transmits, NEW e \in Eps, NEW a \in Addr, PollSend(t, e, a)
          PROVE  KeepsOwed
      BY <2>2, QuietKeepsOwed DEF PollSend, recvVars
    <2>3. ASSUME NEW e \in Eps, Backend(e) PROVE KeepsOwed
      BY <2>3, QuietKeepsOwed DEF Backend, CloseChannel, recvVars
    <2>4. ASSUME NEW t \in Transmits, MemSend(t) PROVE KeepsOwed
      <3> DEFINE r == RouteTo(call[t].dst)
      <3>1. CASE UNCHANGED recvVars
        BY <3>1, QuietKeepsOwed DEF recvVars
      <3>2. CASE Accepts(r) /\ Enqueue(r, NextInbound(t))
        <4>1. r \in Eps /\ NextInbound(t) \in Inbound
          BY <1>1, <2>4, <3>2, RouteType, InboundType
          DEF MemSend, Accepts, RouteTo, Inv, TypeInv, TypeOK
        <4> QED BY <1>1, <3>2, <4>1, EnqueueKeepsOwed DEF Inv, TypeInv, TypeOK
      <3> QED BY <2>4, <3>1, <3>2 DEF MemSend
    <2> QED BY <1>1, <2>1, <2>2, <2>3, <2>4 DEF Next, EpStep
  <1>2. Inv /\ [Next]_vars => [KeepsOwed]_vars
    BY <1>1
  <1> QED BY <1>2, InvHolds, PTL DEF Spec

-----------------------------------------------------------------------------
(* Takeover.                                                               *)

(* A channel grows only by a segment that the registry led to it, and only *)
(* while it is open.                                                       *)
LEMMA GrowthStep ==
  ASSUME Inv, [Next]_vars, NEW e \in Eps, Len(queue'[e]) > Len(queue[e])
  PROVE  registry'[KeyOf[e]] = e /\ ~shut[e]
  <1> USE DEF Inv, TypeInv, TypeOK, AdapterTypeOK
  <1>1. queue'[e] # queue[e]
    OBVIOUS
  <1>2. ASSUME NEW f \in Eps, EpStep(f) PROVE FALSE
    <2>1. CASE f # e
      BY <1>1, <1>2, <2>1 DEF EpStep, AdapterStep, Bind, Discard, PollRecv,
                               PollTake, PollFull, PollIdle
    <2>2. CASE f = e
      <3>1. queue'[e] = queue[e] \/ queue'[e] = <<>>
              \/ (queue[e] # <<>> /\ queue'[e] = Tail(queue[e]))
        BY <1>2, <2>2 DEF EpStep, AdapterStep, Bind, Discard, PollRecv,
                           PollTake, PollFull, PollIdle
      <3> QED BY <1>1, <3>1
    <2> QED BY <2>1, <2>2
  <1>3. ASSUME NEW f \in Eps, Backend(f) PROVE FALSE
    BY <1>1, <1>3 DEF Backend, recvVars, CloseChannel
  <1>4. ASSUME NEW t \in Transmits, NEW f \in Eps, NEW a \in Addr,
               PollSend(t, f, a)
        PROVE  FALSE
    BY <1>1, <1>4 DEF PollSend, recvVars
  <1>5. ~UNCHANGED vars
    BY <1>1 DEF vars, adapterVars, recvVars
  <1>6. PICK t \in Transmits : MemSend(t)
    BY <1>2, <1>3, <1>4, <1>5 DEF Next
  <1> DEFINE r == RouteTo(call[t].dst)
  <1>7. Accepts(r) /\ Enqueue(r, NextInbound(t)) /\ registry' = registry
    BY <1>1, <1>6 DEF MemSend, recvVars
  <1>8. call[t].dst \in Keys /\ r \in Eps
    BY <1>6, <1>7, RouteType DEF MemSend
  <1>9. e = r
    BY <1>1, <1>7, <1>8 DEF Enqueue
  <1> QED BY <1>7, <1>8, <1>9 DEF RouteTo, RegistryOpen, Accepts

(* An endpoint whose key was taken over never again receives anything new, *)
(* and no later registration gives the key back to it.                     *)
THEOREM TakeoverIsFinal == Spec => TakenOverForGood
  <1>1. ASSUME Inv, Inv', [Next]_vars, NEW e \in Eps, shut[e]
        PROVE  registry'[KeyOf[e]] # e
    <2>1. shut'[e]
      BY <1>1 DEF Next, vars, adapterVars, recvVars, EpStep, AdapterStep, Bind,
                  Discard, PollRecv, PollTake, PollFull, PollIdle, Backend,
                  CloseChannel, PollSend, MemSend, Enqueue, Inv, TypeInv,
                  TypeOK, AdapterTypeOK
    <2>2. KeyOf[e] \in Keys /\ e # NoEp
      BY AdapterAssumption
    <2> QED BY <1>1, <2>1, <2>2 DEF Inv, RegistryOpen
  <1>2. Inv /\ Inv' /\ [Next]_vars
          => [\A e \in Eps :
                /\ Len(queue'[e]) > Len(queue[e])
                     => registry'[KeyOf[e]] = e /\ ~shut[e]
                /\ shut[e] => registry'[KeyOf[e]] # e]_vars
    BY <1>1, GrowthStep
  <1> QED BY <1>2, InvHolds, PTL DEF Spec, TakenOverForGood

-----------------------------------------------------------------------------
(* What is under way.  The carrier itself holds nothing: a datagram is in  *)
(* a channel, in a batch, handed up or lost.                               *)

NoFlight == [e \in Eps |-> {}]

(* No datagram is in two channels or batches, or twice in a channel; all   *)
(* that is under way or was handed up has been passed on by a poll_send;   *)
(* and every pipeline is in order, part by part.                           *)
FlightInv ==
  /\ Apart(NoFlight, queue, batch)
  /\ AllPassed(NoFlight, queue, batch)
  /\ UpPassed
  /\ \A e \in Eps : PartsInOrder(up[e], batch[e], queue[e])

FullInv == Inv /\ FlightInv

LEMMA InitFlightInv == Init => FlightInv
  <1> SUFFICES ASSUME Init PROVE FlightInv
    OBVIOUS
  <1>1. \A e \in Eps : queue[e] = <<>> /\ batch[e] = <<>> /\ up[e] = <<>> /\ NoFlight[e] = {}
    BY DEF Init, AdapterInit, NoFlight
  <1>2. Apart(NoFlight, queue, batch)
    BY <1>1, EmptyData DEF Apart, Disjoint
  <1>3. AllPassed(NoFlight, queue, batch) /\ UpPassed
    BY <1>1, EmptyData DEF AllPassed, UpPassed
  <1>4. PartsInOrder(<<>>, <<>>, <<>>)
    BY EmptyData DEF PartsInOrder, InOrder, Precedes
  <1> QED BY <1>1, <1>2, <1>3, <1>4 DEF FlightInv

(* What has to be shown of a step, in terms of the next state.             *)
LEMMA FlightPrimed ==
  ASSUME Apart(NoFlight, queue', batch'),
         \A f \in Eps : \A c \in NoFlight[f] \cup Data(queue'[f]) \cup Data(batch'[f]) :
           c \in Segment /\ Passed(c)',
         \A f \in Eps : \A c \in Data(up'[f]) : c \in Segment /\ Passed(c)',
         \A f \in Eps : PartsInOrder(up'[f], batch'[f], queue'[f])
  PROVE  FlightInv'
  BY DEF FlightInv, Apart, AllPassed, UpPassed, PartsInOrder, Data,
         Distinct, InOrder, Precedes, NoFlight

LEMMA QuietFlightInv ==
  ASSUME FlightInv, UNCHANGED <<queue, batch, up>>,
         \A c \in Segment : Passed(c) => Passed(c)'
  PROVE  FlightInv'
  <1>1. Apart(NoFlight, queue', batch')
    BY DEF FlightInv
  <1>2. \A f \in Eps : \A c \in NoFlight[f] \cup Data(queue'[f]) \cup Data(batch'[f]) :
          c \in Segment /\ Passed(c)'
    BY DEF FlightInv, AllPassed
  <1>3. \A f \in Eps : \A c \in Data(up'[f]) : c \in Segment /\ Passed(c)'
    BY DEF FlightInv, UpPassed
  <1>4. \A f \in Eps : PartsInOrder(up'[f], batch'[f], queue'[f])
    BY DEF FlightInv
  <1> QED BY <1>1, <1>2, <1>3, <1>4, FlightPrimed

LEMMA EpStepFlightInv ==
  ASSUME TypeInv, FlightInv, NEW e \in Eps, EpStep(e)
  PROVE  FlightInv'
  <1>1. AdapterTypeOK /\ AdapterStep(e)
    BY DEF TypeInv, TypeOK, EpStep
  <1>2. Apart(NoFlight, queue', batch')
    BY <1>1, StepApart DEF FlightInv
  <1>3. \A f \in Eps : \A c \in NoFlight[f] \cup Data(queue'[f]) \cup Data(batch'[f]) :
          c \in Segment /\ Passed(c)'
    BY <1>1, StepPassed DEF FlightInv
  <1>4. UpPassed'
    <2>1. \A c \in Data(batch[e]) : c \in Segment /\ Passed(c)
      BY DEF FlightInv, AllPassed
    <2> QED BY <1>1, <2>1, StepUpPassed DEF FlightInv
  <1>5. \A f \in Eps : PartsInOrder(up'[f], batch'[f], queue'[f])
    BY <1>1, StepInOrder DEF FlightInv
  <1>6. \A f \in Eps : \A c \in Data(up'[f]) : c \in Segment /\ Passed(c)'
    BY <1>4 DEF UpPassed, Data
  <1> QED BY <1>2, <1>3, <1>5, <1>6, FlightPrimed

(* What a send queues is new, and comes after all that was passed on.      *)
LEMMA MemSendFlightInv ==
  ASSUME TypeInv, FlightInv, NEW t \in Transmits, MemSend(t)
  PROVE  FlightInv'
  <1> DEFINE r == RouteTo(call[t].dst)
             m == NextInbound(t)
  <1>1. AdapterTypeOK /\ CallInv /\ Sending(t) /\ Advance(t)
    BY DEF TypeInv, TypeOK, MemSend
  <1>2. /\ \A f \in Eps : m.data \notin Data(queue[f]) /\ m.data \notin Data(batch[f])
        /\ \A f \in Eps : \A c \in NoFlight[f] \cup Data(queue[f]) \cup Data(batch[f]) :
             c \in Segment /\ Passed(c)'
        /\ m.data \in Segment
        /\ \A c \in {m.data} : Passed(c)'
    BY <1>1, SendFresh DEF FlightInv
  <1>3. \A f \in Eps : \A c \in Data(up[f]) : c \in Segment /\ Passed(c)'
    BY <1>1, PassedStays DEF FlightInv, UpPassed
  <1>4. up' = up /\ batch' = batch
    BY DEF MemSend, Enqueue, recvVars
  <1>5. CASE UNCHANGED recvVars
    <2>1. UNCHANGED <<queue, batch, up>>
      BY <1>5 DEF recvVars
    <2> QED BY <1>1, <2>1, PassedStays, QuietFlightInv
  <1>6. CASE Accepts(r) /\ Enqueue(r, m)
    <2>1. r \in Eps /\ m \in Inbound
      BY <1>1, <1>6, RouteType, InboundType DEF TypeInv, TypeOK
    <2>2. \A f \in Eps : /\ Data(queue'[f]) = Data(queue[f]) \cup (IF f = r THEN {m.data} ELSE {})
                         /\ Distinct(queue'[f])
      <3>1. \A f \in Eps : Distinct(queue[f])
        BY DEF FlightInv, Apart
      <3> QED BY <1>1, <1>2, <1>6, <2>1, <3>1, EnqueueData
    <2>3. \A f \in Eps : PartsInOrder(up'[f], batch'[f], queue'[f])
      BY <1>1, <1>6, <2>1, EnqueueInOrder DEF FlightInv
    <2> HIDE DEF m, r
    <2>4. Apart(NoFlight, queue', batch)
      <3>1. \A f \in Eps : NoFlight[f] \subseteq NoFlight[f] /\ m.data \notin NoFlight[f]
        BY DEF NoFlight
      <3>2. Apart(NoFlight, queue, batch)
        BY DEF FlightInv
      <3>3. \A f \in Eps : /\ Data(queue'[f]) \subseteq Data(queue[f]) \cup (IF f = r THEN {m.data} ELSE {})
                           /\ Distinct(queue'[f])
                           /\ NoFlight[f] \subseteq NoFlight[f] /\ m.data \notin NoFlight[f]
                           /\ m.data \notin Data(queue[f]) /\ m.data \notin Data(batch[f])
        BY <1>2, <2>2, <3>1
      <3> QED BY <2>1, <3>2, <3>3, ArriveApart
    <2>5. \A f \in Eps : \A c \in NoFlight[f] \cup Data(queue'[f]) \cup Data(batch[f]) :
            c \in Segment /\ Passed(c)'
      BY <1>2, <2>2
    <2> QED BY <1>3, <1>4, <2>3, <2>4, <2>5, FlightPrimed
  <1> QED BY <1>5, <1>6 DEF MemSend

LEMMA NextFlightInv == Inv /\ FlightInv /\ [Next]_vars => FlightInv'
  <1> SUFFICES ASSUME Inv, FlightInv, [Next]_vars PROVE FlightInv'
    OBVIOUS
  <1>1. ASSUME UNCHANGED <<queue, batch, up>>,
               \A c \in Segment : Passed(c) => Passed(c)'
        PROVE  FlightInv'
    BY <1>1, QuietFlightInv
  <1>2. ASSUME NEW e \in Eps, Backend(e) PROVE FlightInv'
    BY <1>1, <1>2 DEF Backend, CloseChannel, recvVars, Passed
  <1>3. ASSUME NEW t \in Transmits, NEW e \in Eps, NEW a \in Addr, PollSend(t, e, a)
        PROVE  FlightInv'
    <2>1. UNCHANGED <<queue, batch, up>>
      BY <1>3 DEF PollSend, recvVars
    <2> QED BY <1>1, <1>3, <2>1, PollSendOffers DEF Inv, TypeInv, TypeOK
  <1>4. CASE UNCHANGED vars
    BY <1>1, <1>4 DEF vars, adapterVars, recvVars, Passed
  <1> QED BY <1>2, <1>3, <1>4, EpStepFlightInv, MemSendFlightInv DEF Next, Inv

LEMMA FullInvHolds == Spec => []FullInv
  <1>1. Init => FullInv
    BY InitTypeInv, InitRegistryOpen, InitFlightInv DEF FullInv, Inv
  <1>2. FullInv /\ [Next]_vars => FullInv'
    BY NextTypeInv, NextRegistryOpen, NextFlightInv DEF FullInv, Inv
  <1> QED BY <1>1, <1>2, PTL DEF Spec

(* Segments of one transmit reach the receiver in order, without overlap   *)
(* and never twice.                                                        *)
THEOREM DeliveredInOrder == Spec => []Ordered
  <1>1. ASSUME FullInv PROVE Ordered
    <2>1. \A e \in Eps : InOrder(Pipeline(e))
      BY <1>1, PipelineInOrder DEF FullInv, Inv, TypeInv, TypeOK, FlightInv
    <2> QED BY <2>1 DEF Ordered, InOrder, Earlier
  <1> QED BY <1>1, FullInvHolds, PTL

-----------------------------------------------------------------------------
(* The refinement.                                                         *)

Wire == UNION {As(e, queue[e]) \cup As(e, batch[e]) : e \in Eps}

LEMMA WireIs == Wire = WireOf(NoFlight, queue, batch)
  BY DEF Wire, WireOf, NoFlight

LEMMA InitRefines == Init => Seam!Init
  <1> SUFFICES ASSUME Init PROVE Seam!Init
    OBVIOUS
  <1>1. Offered = {}
    BY InitOffered DEF Init
  <1>2. \A e \in Eps : As(e, queue[e]) = {} /\ As(e, batch[e]) = {} /\ As(e, up[e]) = {}
    BY EmptyData DEF Init, AdapterInit
  <1>3. Wire = {} /\ [e \in Eps |-> As(e, up[e])] = [e \in Eps |-> {}]
    BY <1>2 DEF Wire
  <1> QED BY <1>1, <1>3 DEF Seam!Init, Wire

LEMMA NextRefines == FullInv /\ [Next]_vars => [Seam!Next]_(Seam!vars)
  <1> SUFFICES ASSUME FullInv, [Next]_vars PROVE [Seam!Next]_(Seam!vars)
    OBVIOUS
  <1>0. AdapterTypeOK /\ CallInv /\ Apart(NoFlight, queue, batch)
    BY DEF FullInv, Inv, TypeInv, TypeOK, FlightInv
  <1>1. ASSUME UNCHANGED <<queue, batch, up>>, Offered' = Offered
        PROVE  UNCHANGED Seam!vars
    BY <1>1 DEF Seam!vars, As
  <1>2. ASSUME NEW e \in Eps, Backend(e) PROVE UNCHANGED Seam!vars
    <2>1. UNCHANGED <<queue, batch, up, call>>
      BY <1>2 DEF Backend, CloseChannel, recvVars
    <2> QED BY <1>1, <2>1, OfferedKept
  <1>3. ASSUME NEW t \in Transmits, NEW e \in Eps, NEW a \in Addr, PollSend(t, e, a)
        PROVE  UNCHANGED Seam!vars
    <2>1. UNCHANGED <<queue, batch, up>>
      BY <1>3 DEF PollSend, recvVars
    <2> QED BY <1>0, <1>1, <1>3, <2>1, PollSendOffers
  <1>4. CASE UNCHANGED vars
    BY <1>1, <1>4, OfferedKept DEF vars, adapterVars, recvVars
  <1>5. ASSUME NEW e \in Eps, EpStep(e) PROVE [Seam!Next]_(Seam!vars)
    <2> DEFINE S == As(e, batch[e])
    <2>1. Offered' = Offered
      BY <1>5, StepMoves, OfferedKept DEF EpStep
    <2>2. \/ Wire' \subseteq Wire /\ Got' = Got
          \/ Wire' = Wire \ S /\ Got' = [Got EXCEPT ![e] = @ \cup S]
      <3>1. AdapterStep(e) /\ \A f \in Eps : \A m \in NoFlight[f] : m.data \in NoFlight[f]
        BY <1>5 DEF EpStep, NoFlight
      <3>2. \/ /\ WireOf(NoFlight, queue', batch') \subseteq WireOf(NoFlight, queue, batch)
               /\ Got' = Got
            \/ /\ WireOf(NoFlight, queue', batch') = WireOf(NoFlight, queue, batch) \ S
               /\ Got' = [Got EXCEPT ![e] = @ \cup S]
        BY <1>0, <3>1, StepAsSeam
      <3>3. Wire' = WireOf(NoFlight, queue', batch')
        BY DEF Wire, WireOf, NoFlight, As
      <3> QED BY <3>2, <3>3, WireIs
    <2>3. CASE Wire' \subseteq Wire /\ Got' = Got
      BY <2>1, <2>3 DEF Seam!Next, Seam!Lose, Wire, Got
    <2>4. CASE Wire' = Wire \ S /\ Got' = [Got EXCEPT ![e] = @ \cup S]
      <3>1. S \in SUBSET {m \in Wire : m.to = KeyOf[e]}
        BY AsData DEF Wire
      <3>2. CASE S = {}
        <4>1. Wire' = Wire
          BY <2>4, <3>2
        <4>2. Got' = Got
          BY <2>4, <3>2 DEF Got
        <4> QED BY <2>1, <4>1, <4>2 DEF Seam!Next, Seam!Lose, Wire, Got
      <3>3. CASE S # {}
        <4>1. Seam!Receive(e)
          BY <2>1, <2>4, <3>1, <3>3 DEF Seam!Receive, Wire, Got
        <4> QED BY <4>1 DEF Seam!Next
      <3> QED BY <3>2, <3>3
    <2> QED BY <2>2, <2>3, <2>4
  <1>6. ASSUME NEW t \in Transmits, MemSend(t) PROVE Seam!Next
    <2> DEFINE r == RouteTo(call[t].dst)
               m == NextInbound(t)
    <2>1. Sending(t) /\ Advance(t)
      BY <1>6 DEF MemSend
    <2>2. /\ Outgoing(t) \in SeamDatagram \ Offered
          /\ Offered' = Offered \cup {Outgoing(t)}
      BY <1>0, <2>1, AdvanceOffers
    <2>3. Wire' \in {Wire, Wire \cup {Outgoing(t)}} /\ Got' = Got
      <3>1. CASE UNCHANGED recvVars
        <4>1. Wire' = Wire /\ Got' = Got
          BY <3>1 DEF recvVars, Wire, Got, As
        <4> QED BY <4>1
      <3>2. CASE Accepts(r) /\ Enqueue(r, m)
        <4>1. r \in Eps /\ KeyOf[r] = call[t].dst /\ m \in Inbound
          BY <1>0, <2>1, <3>2, RouteType, InboundType
          DEF FullInv, Inv, TypeInv, RegistryOpen, RouteTo, Accepts
        <4>2. [from |-> m.from, to |-> KeyOf[r], data |-> m.data] = Outgoing(t)
          BY <4>1 DEF Outgoing, NextInbound
        <4>3. /\ WireOf(NoFlight, queue', batch') = WireOf(NoFlight, queue, batch) \cup {Outgoing(t)}
              /\ Got' = Got
          BY <1>0, <3>2, <4>1, <4>2, EnqueueAsSeam
        <4>4. Wire' = WireOf(NoFlight, queue', batch')
          BY DEF Wire, WireOf, NoFlight, As
        <4> QED BY <4>3, <4>4, WireIs
      <3> QED BY <1>6, <3>1, <3>2 DEF MemSend
    <2>4. Seam!Send(Outgoing(t)) /\ Outgoing(t) \in Seam!Datagram
      BY <2>2, <2>3 DEF Seam!Send, Seam!Datagram, SeamDatagram, Wire, Got
    <2> QED BY <2>4 DEF Seam!Next
  <1> QED BY <1>2, <1>3, <1>4, <1>5, <1>6 DEF Next

(* The in-memory carrier under the adapter keeps the seam's contract:      *)
(* nothing is forged, misrouted or delivered twice.                        *)
THEOREM Refinement == Spec => ImplementsSeam
  <1> QED BY InitRefines, NextRefines, FullInvHolds, PTL DEF Spec, ImplementsSeam, Seam!Spec
=============================================================================

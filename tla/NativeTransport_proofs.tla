----------------------- MODULE NativeTransport_proofs -----------------------
(***************************************************************************)
(* Proofs about the native carrier, from connect_pair to the adapter above *)
(* it: for any number of candidates; for any transmits, segment sizes,     *)
(* numbers of receive buffers and data channel buffer.                     *)
(***************************************************************************)
EXTENDS ConnectPair, NativeTransport, Adapter_proofs, FiniteSetTheorems

-----------------------------------------------------------------------------
(* First the handshake, for any number of candidates.                      *)

Agreed == Waiting \cup {"done"}

(* The forwarding tasks run, and the caller holds an end, only once both   *)
(* remote descriptions are set, from where connect_pair never fails and    *)
(* never goes back.                                                        *)
PairInv ==
  /\ PairTypeOK /\ NoCandidateRefused
  /\ forwarding # {} \/ held # {} => pos \in Agreed

(* What became of the candidates a peer's callback sent.                   *)
Kept(p) ==
  /\ sent[p] <= gathered[p]
  /\ IF pos = "failed" THEN cands[p] = 0
     ELSE sent[p] = cands[p] + added[Other(p)] + refused[Other(p)]

LEMMA OtherType ==
  ASSUME NEW p \in Peers
  PROVE  Other(p) \in Peers /\ Other(p) # p /\ Other(Other(p)) = p
  BY DEF Other, Peers

LEMMA AgreedHasRemote ==
  ASSUME pos \in Agreed, NEW p \in Peers
  PROVE  HasRemote(p)
  BY DEF Agreed, Waiting, HasRemote, HasLocal, Peers

LEMMA InitPairInv == PairInit => PairInv
  <1> SUFFICES ASSUME PairInit PROVE PairInv
    OBVIOUS
  <1>1. \A f \in {gathered, sent, cands, added, refused} : f \in [Peers -> 0..MaxIce]
    BY MaxIceAssumption DEF PairInit
  <1>2. \A p \in Peers : Kept(p)
    BY OtherType DEF PairInit, Kept
  <1> QED BY <1>1, <1>2
    DEF PairInit, PairInv, PairTypeOK, NoCandidateRefused, Negotiating, Kept

(* What connect_pair itself does leaves the candidates alone, unless it    *)
(* fails, when the channels go.                                            *)
LEMMA ConnectingPairInv == ASSUME PairInv, Connecting \/ StepFails PROVE PairInv'
  <1> USE DEF PairInv, PairTypeOK, NoCandidateRefused, iceVars
  <1>1. pos' \in Negotiating \cup Waiting \cup {"done", "failed"}
    BY DEF Connecting, Prepare, SetOffer, TakeOffer, SetAnswer, TakeAnswer,
           SpawnForwarders, GetDc, GetOffererOpen, GetAnswererOpen, StepFails,
           Goes, Negotiating, Waiting
  <1>2. forwarding' # {} \/ held' # {} => pos' \in Agreed
    BY DEF Connecting, Prepare, SetOffer, TakeOffer, SetAnswer, TakeAnswer,
           SpawnForwarders, GetDc, GetOffererOpen, GetAnswererOpen, StepFails,
           Goes, Negotiating, Waiting, Agreed
  <1>3. /\ UNCHANGED <<gathered, sent, added, refused, ice>>
        /\ forwarding' \subseteq Peers /\ wired' \subseteq Peers
        /\ opened' \subseteq Peers /\ held' \subseteq Peers
    BY DEF Connecting, Prepare, SetOffer, TakeOffer, SetAnswer, TakeAnswer,
           SpawnForwarders, GetDc, GetOffererOpen, GetAnswererOpen, StepFails, Peers
  <1>4. \/ cands' = cands /\ pos # "failed" /\ pos' # "failed"
        \/ cands' = [p \in Peers |-> 0] /\ pos' = "failed"
    BY DEF Connecting, Prepare, SetOffer, TakeOffer, SetAnswer, TakeAnswer,
           SpawnForwarders, GetDc, GetOffererOpen, GetAnswererOpen, StepFails, Goes
  <1>5. cands' \in [Peers -> 0..MaxIce]
    BY <1>4, MaxIceAssumption
  <1>6. \A p \in Peers : Kept(p)'
    BY <1>3, <1>4 DEF Kept
  <1> QED BY <1>1, <1>2, <1>3, <1>5, <1>6 DEF Kept

(* A candidate is gathered, and sent unless it cannot be converted.        *)
LEMMA GatherPairInv == ASSUME PairInv, NEW p \in Peers, OnIceCandidate(p) PROVE PairInv'
  <1> USE DEF PairInv, PairTypeOK, NoCandidateRefused
  <1>1. pos # "failed" /\ pos' = pos
    BY DEF OnIceCandidate, Alive, Negotiating, Waiting, Agreed
  <1>2. \A q \in Peers :
          /\ sent[q] <= gathered[q]
          /\ sent[q] = cands[q] + added[Other(q)] + refused[Other(q)]
          /\ added[Other(q)] \in Nat /\ refused[Other(q)] \in Nat
          /\ cands[q] \in Nat /\ sent[q] \in Nat /\ gathered[q] \in Nat
    BY <1>1, OtherType, MaxIceAssumption
  <1>3. gathered' = [gathered EXCEPT ![p] = @ + 1] /\ gathered[p] < MaxIce
        /\ UNCHANGED <<added, refused>>
    BY DEF OnIceCandidate
  <1>4. /\ gathered[p] + 1 \in 0..MaxIce /\ sent[p] + 1 \in 0..MaxIce
        /\ cands[p] + 1 \in 0..MaxIce
    BY <1>2, <1>3, MaxIceAssumption
  <1>5. gathered' \in [Peers -> 0..MaxIce]
    BY <1>3, <1>4
  <1>6. CASE UNCHANGED <<sent, cands>>
    <2>1. ASSUME NEW q \in Peers PROVE Kept(q)'
      <3>1. gathered'[q] = gathered[q] \/ gathered'[q] = gathered[q] + 1
        BY <1>3
      <3> QED BY <1>1, <1>2, <1>3, <1>6, <3>1 DEF Kept
    <2> QED BY <1>5, <1>6, <2>1 DEF OnIceCandidate, Kept
  <1>7. CASE sent' = [sent EXCEPT ![p] = @ + 1] /\ cands' = [cands EXCEPT ![p] = @ + 1]
    <2>1. sent' \in [Peers -> 0..MaxIce] /\ cands' \in [Peers -> 0..MaxIce]
      BY <1>4, <1>7
    <2>2. ASSUME NEW q \in Peers PROVE Kept(q)'
      <3>1. CASE q = p
        <4>1. /\ gathered'[q] = gathered[q] + 1 /\ sent'[q] = sent[q] + 1
              /\ cands'[q] = cands[q] + 1
          BY <1>3, <1>7, <3>1
        <4> QED BY <1>1, <1>2, <1>3, <4>1 DEF Kept
      <3>2. CASE q # p
        <4>1. gathered'[q] = gathered[q] /\ sent'[q] = sent[q] /\ cands'[q] = cands[q]
          BY <1>3, <1>7, <3>2
        <4> QED BY <1>1, <1>2, <1>3, <4>1 DEF Kept
      <3> QED BY <3>1, <3>2
    <2> QED BY <1>5, <2>1, <2>2 DEF OnIceCandidate, Kept
  <1> QED BY <1>6, <1>7 DEF OnIceCandidate

(* A forwarding task hands over a candidate, to a peer that takes it, or   *)
(* ends.                                                                   *)
LEMMA ForwardPairInv == ASSUME PairInv, NEW p \in Peers, Forward(p) PROVE PairInv'
  <1> USE DEF PairInv, PairTypeOK, NoCandidateRefused
  <1>1. HasRemote(p) /\ pos # "failed" /\ pos' = pos
    BY AgreedHasRemote DEF Forward, Agreed, Waiting
  <1>2. CASE cands[Other(p)] > 0
    <2> DEFINE o == Other(p)
    <2>1. /\ cands' = [cands EXCEPT ![o] = @ - 1]
          /\ added' = [added EXCEPT ![p] = @ + 1]
          /\ UNCHANGED <<refused, forwarding, pos, gathered, sent, ice, wired, opened, held>>
      BY <1>1, <1>2 DEF Forward, Take
    <2>2. o \in Peers /\ o # p /\ Other(o) = p
      BY OtherType
    <2>3. /\ sent[o] = cands[o] + added[p] + refused[p]
          /\ cands[o] \in Nat /\ added[p] \in Nat /\ refused[p] = 0
          /\ sent[o] \in 0..MaxIce
      BY <1>1, <2>2, MaxIceAssumption
    <2>4. cands[o] - 1 \in 0..MaxIce /\ added[p] + 1 \in 0..MaxIce
      BY <1>2, <2>3, MaxIceAssumption
    <2>5. cands' \in [Peers -> 0..MaxIce] /\ added' \in [Peers -> 0..MaxIce]
      BY <2>1, <2>4
    <2>6. ASSUME NEW q \in Peers PROVE Kept(q)'
      <3>1. sent[q] <= gathered[q]
        OBVIOUS
      <3>2. CASE q = o
        BY <1>1, <2>1, <2>2, <2>3, <3>1, <3>2 DEF Kept
      <3>3. CASE q = p
        BY <1>1, <2>1, <2>2, <3>1, <3>3 DEF Kept
      <3> QED BY <2>2, <3>2, <3>3 DEF Peers
    <2> QED BY <2>1, <2>5, <2>6 DEF Kept
  <1>3. CASE ~(cands[Other(p)] > 0)
    BY <1>3 DEF Forward
  <1> QED BY <1>2, <1>3

(* The other callbacks, the connection and the caller.                     *)
LEMMA OtherPairInv ==
  ASSUME PairInv,
         \/ IceConnects \/ IceFails \/ OnDataChannel
         \/ \E p \in Peers : OnOpen(p) \/ DropEnd(p)
  PROVE  PairInv'
  BY DEF PairInv, PairTypeOK, NoCandidateRefused, IceConnects, IceFails, OnDataChannel,
         OnOpen, DropEnd, iceVars, Peers

LEMMA NextPairInv == PairInv /\ [PairNext]_pairVars => PairInv'
  <1> SUFFICES ASSUME PairInv, [PairNext]_pairVars PROVE PairInv'
    OBVIOUS
  <1>1. CASE UNCHANGED pairVars
    BY <1>1 DEF pairVars, iceVars, PairInv, PairTypeOK, NoCandidateRefused
  <1>2. CASE PairNext
    BY <1>2, ConnectingPairInv, GatherPairInv, ForwardPairInv, OtherPairInv DEF PairNext, Callback
  <1> QED BY <1>1, <1>2

LEMMA PairInvHolds == PairSpec => []PairInv
  BY InitPairInv, NextPairInv, PTL DEF PairSpec

(* Every variable of the handshake has its type, and each candidate that a *)
(* callback sent is in its channel, or was handed to the other peer, unless*)
(* the call failed.                                                        *)
THEOREM PairTypeCorrect == PairSpec => []PairTypeOK
  <1>1. PairInv => PairTypeOK
    BY DEF PairInv
  <1> QED BY <1>1, PairInvHolds, PTL

(* No candidate is added before both remote descriptions are set, however  *)
(* far gathering runs ahead of the negotiation.                            *)
THEOREM CandidatesInTime == PairSpec => []NoCandidateRefused
  <1>1. PairInv => NoCandidateRefused
    BY DEF PairInv
  <1> QED BY <1>1, PairInvHolds, PTL

-----------------------------------------------------------------------------
(* Then the carrier under the adapter.                                     *)

(* What is under way to an endpoint: its peer's tasks hold it, or the data *)
(* channel.                                                                *)
Air(e) == tasks[Peer(e)] \cup flight[e]
air == [e \in Eps |-> Air(e)]

(* What is in the data channel is finite, so that it can be counted.       *)
FiniteFlight == \A e \in Eps : IsFiniteSet(flight[e])

TypeInv == TypeOK /\ CallInv /\ FiniteFlight

(* No datagram is twice between a spawned task and a batch: a task ends    *)
(* when its datagram has been taken.  All of it was passed on by poll_send.*)
FlightInv ==
  /\ Apart(air, queue, batch) /\ AllPassed(air, queue, batch)
  /\ \A e \in Eps : Disjoint(tasks[Peer(e)], flight[e])

Inv == TypeInv /\ FlightInv

-----------------------------------------------------------------------------
(* There are two ends.                                                     *)

LEMMA PeerType ==
  ASSUME NEW e \in Eps
  PROVE  /\ Peer(e) \in Eps /\ Peer(e) # e /\ Peer(Peer(e)) = e
         /\ \A f \in Eps : f = e \/ f = Peer(e)
         /\ Remote(e) \in Keys
  <1>1. PICK a \in Eps, b \in Eps : a # b /\ Eps = {a, b}
    BY NativeAssumption
  <1>2. ASSUME NEW f \in Eps PROVE Peer(f) \in Eps /\ Peer(f) # f
    <2>1. \E p \in Eps : p # f
      BY <1>1
    <2> QED BY <2>1 DEF Peer
  <1>3. Peer(e) \in Eps /\ Peer(e) # e /\ Peer(Peer(e)) \in Eps /\ Peer(Peer(e)) # Peer(e)
    BY <1>2
  <1>4. \A f \in Eps : f = e \/ f = Peer(e)
    BY <1>1, <1>3
  <1> QED BY <1>3, <1>4, AdapterAssumption DEF Remote

(* Room is what dc.send waits for.                                         *)
LEMMA FlightGrows ==
  ASSUME TypeInv, NEW e \in Eps, Room(e), NEW s \in Segment,
         flight' = [flight EXCEPT ![Peer(e)] = @ \cup {s}]
  PROVE  /\ flight' \in [Eps -> SUBSET Segment] /\ FiniteFlight'
         /\ \A f \in Eps : Cardinality(flight'[f]) <= SctpBuffer
         /\ \A f \in Eps : flight'[f] = flight[f] \cup (IF f = Peer(e) THEN {s} ELSE {})
  <1> DEFINE p == Peer(e)
  <1>1. p \in Eps /\ IsFiniteSet(flight[p]) /\ flight \in [Eps -> SUBSET Segment]
    BY PeerType DEF TypeInv, TypeOK, FiniteFlight
  <1>2. Cardinality(flight[p]) \in Nat /\ Cardinality(flight[p]) < SctpBuffer
    BY <1>1, FS_CardinalityType DEF Room
  <1>3. /\ IsFiniteSet(flight[p] \cup {s})
        /\ Cardinality(flight[p] \cup {s}) \in {Cardinality(flight[p]), Cardinality(flight[p]) + 1}
    BY <1>1, FS_AddElement
  <1>4. Cardinality(flight[p] \cup {s}) <= SctpBuffer
    BY <1>2, <1>3, NativeAssumption
  <1>5. \A f \in Eps : flight'[f] = IF f = p THEN flight[p] \cup {s} ELSE flight[f]
    BY <1>1
  <1>6. flight' \in [Eps -> SUBSET Segment]
    BY <1>1
  <1> HIDE DEF p
  <1>7. \A f \in Eps : IsFiniteSet(flight'[f]) /\ Cardinality(flight'[f]) <= SctpBuffer
    BY <1>3, <1>4, <1>5 DEF TypeInv, TypeOK, FiniteFlight
  <1>8. \A f \in Eps : flight'[f] = flight[f] \cup (IF f = p THEN {s} ELSE {})
    BY <1>5
  <1> QED BY <1>6, <1>7, <1>8 DEF FiniteFlight, p

(* Whatever is lost or arrives leaves no more behind.                      *)
LEMMA FlightShrinks ==
  ASSUME TypeInv, flight' \in [Eps -> SUBSET Segment],
         \A f \in Eps : flight'[f] \subseteq flight[f]
  PROVE  FiniteFlight' /\ \A f \in Eps : Cardinality(flight'[f]) <= SctpBuffer
  <1> SUFFICES ASSUME NEW f \in Eps
               PROVE  IsFiniteSet(flight'[f]) /\ Cardinality(flight'[f]) <= SctpBuffer
    BY DEF FiniteFlight
  <1>1. IsFiniteSet(flight[f]) /\ flight'[f] \in SUBSET flight[f]
    BY DEF TypeInv, FiniteFlight
  <1>2. IsFiniteSet(flight'[f]) /\ Cardinality(flight'[f]) <= Cardinality(flight[f])
    BY <1>1, FS_Subset
  <1>3. Cardinality(flight'[f]) \in Nat /\ Cardinality(flight[f]) \in Nat
    BY <1>1, <1>2, FS_CardinalityType
  <1>4. Cardinality(flight[f]) <= SctpBuffer
    BY DEF TypeInv, TypeOK
  <1> QED BY <1>2, <1>3, <1>4, NativeAssumption

(* What leaves the flight, seen pointwise.                                 *)
LEMMA FlightWithout ==
  ASSUME TypeInv, NEW e \in Eps, NEW s, flight' = [flight EXCEPT ![e] = @ \ {s}]
  PROVE  /\ flight' \in [Eps -> SUBSET Segment]
         /\ \A f \in Eps : flight'[f] = IF f = e THEN flight[e] \ {s} ELSE flight[f]
         /\ FiniteFlight' /\ \A f \in Eps : Cardinality(flight'[f]) <= SctpBuffer
  <1>1. /\ flight' \in [Eps -> SUBSET Segment]
        /\ \A f \in Eps : flight'[f] = IF f = e THEN flight[e] \ {s} ELSE flight[f]
    BY DEF TypeInv, TypeOK
  <1>2. \A f \in Eps : flight'[f] \subseteq flight[f]
    BY <1>1
  <1> QED BY <1>1, <1>2, FlightShrinks

LEMMA TasksWithout ==
  ASSUME TypeInv, NEW e \in Eps, NEW s, tasks' = [tasks EXCEPT ![e] = @ \ {s}]
  PROVE  /\ tasks' \in [Eps -> SUBSET Segment]
         /\ \A f \in Eps : tasks'[f] = IF f = e THEN tasks[e] \ {s} ELSE tasks[f]
  BY DEF TypeInv, TypeOK

-----------------------------------------------------------------------------
(* Type correctness of the carrier.                                        *)

LEMMA InitTypeInv == Init => TypeInv
  <1> SUFFICES ASSUME Init PROVE TypeInv
    OBVIOUS
  <1>1. AdapterTypeOK
    BY DEF Init, AdapterInit, AdapterTypeOK, Life
  <1>2. CallInv
    BY InitCallInv DEF Init
  <1>3. \A e \in Eps : flight[e] = {} /\ life[e] = "unbuilt"
    BY DEF Init, AdapterInit
  <1>4. IsFiniteSet({}) /\ Cardinality({}) = 0
    BY FS_EmptySet
  <1>5. \A e \in Eps : IsFiniteSet(flight[e]) /\ Cardinality(flight[e]) <= SctpBuffer
    BY <1>3, <1>4, NativeAssumption
  <1>6. /\ path \in {"connecting", "open", "failed"}
        /\ tasks \in [Eps -> SUBSET Segment]
        /\ flight \in [Eps -> SUBSET Segment]
    BY DEF Init
  <1> QED BY <1>1, <1>2, <1>3, <1>5, <1>6 DEF TypeInv, TypeOK, FiniteFlight

LEMMA StepTypeInv ==
  ASSUME TypeInv, NEW e \in Eps, AdapterStep(e), UNCHANGED nativeVars
  PROVE  TypeInv'
  <1>1. AdapterTypeOK' /\ CallInv'
    BY StepTypes, StepMoves, CallKept DEF TypeInv, TypeOK
  <1>2. \A f \in Eps : (life'[f] = "unbuilt") <=> (life[f] = "unbuilt")
    BY DEF AdapterStep, Bind, Discard, PollRecv, PollTake, PollFull, PollIdle,
           TypeInv, TypeOK, AdapterTypeOK
  <1> QED BY <1>1, <1>2 DEF nativeVars, TypeInv, TypeOK, FiniteFlight

LEMMA SendTypeInv ==
  ASSUME TypeInv, NEW t \in Transmits, NativeSend(t)
  PROVE  TypeInv'
  <1> DEFINE e == call[t].ep
             s == NextInbound(t).data
  <1>1. Sending(t) /\ Advance(t) /\ UNCHANGED <<life, recvVars, path, flight>>
    BY DEF NativeSend
  <1>2. AdapterTypeOK' /\ CallInv'
    <2>1. CallInv'
      BY <1>1, AdvanceCuts DEF TypeInv, TypeOK
    <2>2. NextEnd(t) \in Nat
      BY SegmentType DEF TypeInv, TypeOK
    <2> QED BY <1>1, <2>1, <2>2 DEF Advance, recvVars, TypeInv, TypeOK, AdapterTypeOK
  <1>3. e \in Eps /\ s \in Segment
    BY <1>1, InboundType DEF TypeInv, TypeOK, CallInv, Sending, Inbound
  <1>4. tasks' \in [Eps -> SUBSET Segment]
    <2>1. tasks' \in {tasks, [tasks EXCEPT ![e] = @ \cup {s}]}
      BY DEF NativeSend
    <2> HIDE DEF e, s
    <2> QED BY <1>3, <2>1 DEF TypeInv, TypeOK
  <1> QED BY <1>1, <1>2, <1>4 DEF TypeInv, TypeOK, FiniteFlight

LEMMA MessageTypeInv ==
  ASSUME TypeInv, NEW e \in Eps, NEW s \in flight[e], OnMessage(e, s)
  PROVE  TypeInv'
  <1>1. /\ flight' = [flight EXCEPT ![e] = @ \ {s}]
        /\ UNCHANGED <<life, call, path, tasks>>
    BY DEF OnMessage
  <1>2. /\ flight' \in [Eps -> SUBSET Segment] /\ FiniteFlight'
        /\ \A f \in Eps : Cardinality(flight'[f]) <= SctpBuffer
    BY <1>1, FlightWithout
  <1>3. CallInv'
    BY <1>1, CallKept DEF TypeInv
  <1>4. Tag(e, s) \in Inbound
    BY PeerType DEF Tag, Inbound, TypeInv, TypeOK
  <1>5. AdapterTypeOK'
    <2>1. CASE UNCHANGED recvVars
      BY <1>1, <2>1 DEF recvVars, TypeInv, TypeOK, AdapterTypeOK
    <2>2. CASE Enqueue(e, Tag(e, s))
      <3>1. /\ queue' \in [Eps -> Seq(Inbound)]
            /\ waker' \in [Eps -> BOOLEAN] /\ woken' \in [Eps -> BOOLEAN]
            /\ UNCHANGED <<shut, slots, batch, up>>
        BY <1>4, <2>2, EnqueueTypes DEF TypeInv, TypeOK
      <3> QED BY <1>1, <3>1 DEF TypeInv, TypeOK, AdapterTypeOK
    <2> QED BY <2>1, <2>2 DEF OnMessage
  <1> QED BY <1>1, <1>2, <1>3, <1>5 DEF TypeInv, TypeOK

(* The tasks and the data channel, up to what arrives.                     *)
LEMMA ChannelTypeInv ==
  ASSUME TypeInv
  PROVE  /\ ConnectedBackends \/ Fail => TypeInv'
         /\ \A e \in Eps : \A s \in tasks[e] : DcSend(e, s) \/ DcSendFails(e, s) => TypeInv'
         /\ \A e \in Eps : \A s \in flight[e] : Lose(e, s) => TypeInv'
  <1>1. ASSUME ConnectedBackends PROVE TypeInv'
    BY <1>1, CallKept
    DEF ConnectedBackends, recvVars, TypeInv, TypeOK, AdapterTypeOK, FiniteFlight, Life
  <1>2. ASSUME Fail PROVE TypeInv'
    <2>1. flight' \in [Eps -> SUBSET Segment] /\ \A f \in Eps : flight'[f] \subseteq flight[f]
      BY <1>2 DEF Fail
    <2>2. FiniteFlight' /\ \A f \in Eps : Cardinality(flight'[f]) <= SctpBuffer
      BY <2>1, FlightShrinks
    <2> QED BY <1>2, <2>1, <2>2, CallKept
            DEF Fail, adapterVars, recvVars, TypeInv, TypeOK, AdapterTypeOK
  <1>3. ASSUME NEW e \in Eps, NEW s \in tasks[e], DcSend(e, s) PROVE TypeInv'
    <2>1. s \in Segment /\ Room(e) /\ UNCHANGED <<adapterVars, path>> /\ path = "open"
      BY <1>3 DEF DcSend, TypeInv, TypeOK
    <2>2. /\ flight' \in [Eps -> SUBSET Segment] /\ FiniteFlight'
          /\ \A f \in Eps : Cardinality(flight'[f]) <= SctpBuffer
      BY <1>3, <2>1, FlightGrows DEF DcSend
    <2>3. tasks' \in [Eps -> SUBSET Segment]
      BY <1>3, TasksWithout DEF DcSend, TaskEnds
    <2> QED BY <2>1, <2>2, <2>3, CallKept DEF adapterVars, recvVars, TypeInv, TypeOK, AdapterTypeOK
  <1>4. ASSUME NEW e \in Eps, NEW s \in tasks[e], DcSendFails(e, s) PROVE TypeInv'
    <2>1. tasks' \in [Eps -> SUBSET Segment]
      BY <1>4, TasksWithout DEF DcSendFails
    <2> QED BY <1>4, <2>1, CallKept
            DEF DcSendFails, adapterVars, recvVars, TypeInv, TypeOK, AdapterTypeOK, FiniteFlight
  <1>5. ASSUME NEW e \in Eps, NEW s \in flight[e], Lose(e, s) PROVE TypeInv'
    <2>1. /\ flight' \in [Eps -> SUBSET Segment] /\ FiniteFlight'
          /\ \A f \in Eps : Cardinality(flight'[f]) <= SctpBuffer
      BY <1>5, FlightWithout DEF Lose
    <2> QED BY <1>5, <2>1, CallKept DEF Lose, adapterVars, recvVars, TypeInv, TypeOK, AdapterTypeOK
  <1> QED BY <1>1, <1>2, <1>3, <1>4, <1>5

LEMMA NextTypeInv == TypeInv /\ [Next]_vars => TypeInv'
  <1> SUFFICES ASSUME TypeInv, [Next]_vars PROVE TypeInv'
    OBVIOUS
  <1>1. CASE UNCHANGED vars
    BY <1>1, CallKept DEF vars, adapterVars, recvVars, nativeVars, TypeInv, TypeOK,
                          AdapterTypeOK, FiniteFlight
  <1>2. ASSUME NEW t \in Transmits, NEW e \in Eps, NEW a \in Addr,
               PollSend(t, e, a), UNCHANGED nativeVars
        PROVE  TypeInv'
    <2>1. AdapterTypeOK' /\ CallInv' /\ life' = life
      BY <1>2, PollSendOffers DEF TypeInv, TypeOK, PollSend
    <2> QED BY <1>2, <2>1 DEF nativeVars, TypeInv, TypeOK, FiniteFlight
  <1> QED BY <1>1, <1>2, ChannelTypeInv, StepTypeInv, SendTypeInv, MessageTypeInv
          DEF Next, DataChannelStep

(* Every variable keeps its type, the data channel never holds more than   *)
(* its buffer however many tasks wait, and nothing moves before it is open.*)
THEOREM TypeCorrect == Spec => []TypeOK
  <1>1. TypeInv => TypeOK
    BY DEF TypeInv
  <1> QED BY <1>1, InitTypeInv, NextTypeInv, PTL DEF Spec

-----------------------------------------------------------------------------
(* What is under way is in one place.                                      *)

LEMMA AirAt ==
  ASSUME NEW f \in Eps
  PROVE  /\ air[f] = tasks[Peer(f)] \cup flight[f]
         /\ air'[f] = tasks'[Peer(f)] \cup flight'[f]
  BY DEF air, Air, Peer

LEMMA FlightPrimed ==
  ASSUME Apart(air', queue', batch'),
         \A f \in Eps : \A c \in air'[f] \cup Data(queue'[f]) \cup Data(batch'[f]) :
           c \in Segment /\ Passed(c)',
         \A f \in Eps : Disjoint(tasks'[Peer(f)], flight'[f])
  PROVE  FlightInv'
  <1>1. Apart(air, queue, batch)'
    BY DEF Apart, Disjoint, Distinct, Data
  <1>2. AllPassed(air, queue, batch)'
    BY DEF AllPassed, Data
  <1>3. \A f \in Eps : Disjoint(tasks[Peer(f)], flight[f])'
    BY DEF Disjoint, Peer
  <1> QED BY <1>1, <1>2, <1>3 DEF FlightInv

LEMMA InitFlightInv == Init => FlightInv
  <1> SUFFICES ASSUME Init PROVE FlightInv
    OBVIOUS
  <1>1. \A f \in Eps : /\ air[f] = {} /\ tasks[Peer(f)] = {}
                       /\ Data(queue[f]) = {} /\ Data(batch[f]) = {} /\ Distinct(queue[f])
    BY PeerType, AirAt, EmptyData DEF Init, AdapterInit
  <1> QED BY <1>1 DEF FlightInv, Apart, AllPassed, Disjoint

(* A step that leaves the receive side alone and takes nothing in.         *)
LEMMA QuietFlightInv ==
  ASSUME FlightInv, UNCHANGED <<queue, batch>>,
         \A f \in Eps : air'[f] \subseteq air[f] /\ Disjoint(tasks'[Peer(f)], flight'[f]),
         \A c \in Segment : Passed(c) => Passed(c)'
  PROVE  FlightInv'
  <1>1. Apart(air', queue', batch')
    <2>1. Apart(air', queue, batch)
      BY DEF FlightInv, Apart, Disjoint
    <2> QED BY <2>1
  <1>2. \A f \in Eps : \A c \in air'[f] \cup Data(queue'[f]) \cup Data(batch'[f]) :
          c \in Segment /\ Passed(c)'
    BY DEF FlightInv, AllPassed
  <1> QED BY <1>1, <1>2, FlightPrimed

LEMMA StepFlightInv ==
  ASSUME Inv, NEW e \in Eps, AdapterStep(e), UNCHANGED nativeVars
  PROVE  FlightInv'
  <1>1. AdapterTypeOK /\ tasks' = tasks /\ flight' = flight /\ air' = air
    BY DEF Inv, TypeInv, TypeOK, nativeVars, air, Air, Peer
  <1>2. Apart(air, queue', batch')
    BY <1>1, StepApart DEF Inv, FlightInv
  <1>3. \A f \in Eps : \A c \in air[f] \cup Data(queue'[f]) \cup Data(batch'[f]) :
          c \in Segment /\ Passed(c)'
    BY <1>1, StepPassed DEF Inv, FlightInv
  <1> QED BY <1>1, <1>2, <1>3, FlightPrimed DEF Inv, FlightInv

(* What a spawned task holds is new.                                       *)
LEMMA SendFlightInv ==
  ASSUME Inv, NEW t \in Transmits, NativeSend(t)
  PROVE  FlightInv'
  <1> DEFINE e == call[t].ep
             p == Peer(e)
             s == NextInbound(t).data
  <1>1. /\ AdapterTypeOK /\ CallInv /\ Sending(t) /\ Advance(t)
        /\ UNCHANGED <<queue, batch, flight>>
    BY DEF Inv, TypeInv, TypeOK, NativeSend, recvVars
  <1>2. CASE tasks' = tasks
    <2>1. \A c \in Segment : Passed(c) => Passed(c)'
      BY <1>1, PassedStays
    <2>2. \A f \in Eps : air'[f] \subseteq air[f] /\ Disjoint(tasks'[Peer(f)], flight'[f])
      BY <1>1, <1>2, AirAt DEF Inv, FlightInv
    <2> QED BY <1>1, <2>1, <2>2, QuietFlightInv DEF Inv
  <1>3. CASE tasks' = [tasks EXCEPT ![e] = @ \cup {s}]
    <2>1. /\ \A f \in Eps : s \notin air[f] /\ s \notin Data(queue[f]) /\ s \notin Data(batch[f])
          /\ \A f \in Eps : \A c \in air[f] \cup Data(queue[f]) \cup Data(batch[f]) :
               c \in Segment /\ Passed(c)'
          /\ \A c \in {s} : c \in Segment /\ Passed(c)'
      BY <1>1, SendFresh DEF Inv, FlightInv
    <2>2. e \in Eps
      BY <1>1 DEF CallInv, Sending
    <2>3. p \in Eps /\ \A f \in Eps : Peer(f) \in Eps /\ (Peer(f) = e <=> f = p)
      BY <2>2, PeerType
    <2>4. \A f \in Eps : tasks'[f] = tasks[f] \cup (IF f = e THEN {s} ELSE {})
      BY <1>3, <2>2 DEF Inv, TypeInv, TypeOK
    <2> HIDE DEF e, p, s
    <2>5. \A f \in Eps : tasks'[Peer(f)] = tasks[Peer(f)] \cup (IF f = p THEN {s} ELSE {})
      BY <2>3, <2>4
    <2>6. \A f \in Eps : air'[f] = air[f] \cup (IF f = p THEN {s} ELSE {})
      BY <1>1, <2>5, AirAt
    <2>7. \A f \in Eps : Disjoint(tasks'[Peer(f)], flight'[f])
      BY <1>1, <2>1, <2>5, AirAt DEF Inv, FlightInv, Disjoint
    <2>8. \A f \in Eps : /\ air'[f] \subseteq air[f] \cup (IF f = p THEN {s} ELSE {})
                         /\ Disjoint({s}, air[f])
                         /\ Disjoint({s}, Data(queue[f])) /\ Disjoint({s}, Data(batch[f]))
      BY <2>1, <2>6 DEF Disjoint
    <2>9. Apart(air', queue, batch)
      BY <2>3, <2>8, EnterApart DEF Inv, FlightInv
    <2>10. \A f \in Eps : \A c \in air'[f] \cup Data(queue[f]) \cup Data(batch[f]) :
             c \in Segment /\ Passed(c)'
      BY <2>1, <2>6
    <2> QED BY <1>1, <2>7, <2>9, <2>10, FlightPrimed
  <1> QED BY <1>2, <1>3 DEF NativeSend

(* What the data channel takes leaves the task that held it.               *)
LEMMA DcSendAir ==
  ASSUME Inv, NEW e \in Eps, NEW s \in tasks[e], DcSend(e, s)
  PROVE  /\ \A f \in Eps : air'[f] = air[f] /\ Disjoint(tasks'[Peer(f)], flight'[f])
         /\ UNCHANGED adapterVars
  <1> DEFINE p == Peer(e)
  <1>1. /\ p \in Eps /\ \A f \in Eps : Peer(f) \in Eps /\ (Peer(f) = e <=> f = p)
        /\ s \in Segment
    BY PeerType DEF Inv, TypeInv, TypeOK
  <1>2. \A f \in Eps : flight'[f] = flight[f] \cup (IF f = p THEN {s} ELSE {})
    BY <1>1, FlightGrows DEF DcSend, Inv
  <1>3. \A f \in Eps : tasks'[f] = IF f = e THEN tasks[e] \ {s} ELSE tasks[f]
    BY TasksWithout DEF DcSend, TaskEnds, Inv
  <1> HIDE DEF p
  <1>4. \A f \in Eps : tasks'[Peer(f)] = IF f = p THEN tasks[e] \ {s} ELSE tasks[Peer(f)]
    BY <1>1, <1>3
  <1>5. ASSUME NEW f \in Eps
        PROVE  air'[f] = air[f] /\ Disjoint(tasks'[Peer(f)], flight'[f])
    <2>1. Disjoint(tasks[Peer(f)], flight[f])
      BY DEF Inv, FlightInv
    <2>2. CASE f = p
      <3>1. /\ flight'[f] = flight[f] \cup {s} /\ tasks'[Peer(f)] = tasks[e] \ {s}
            /\ Peer(f) = e /\ s \in tasks[e] /\ \A c \in tasks[e] : c \notin flight[f]
        BY <1>1, <1>2, <1>4, <2>1, <2>2 DEF Disjoint
      <3>2. air'[f] = air[f]
        <4>1. (tasks[e] \ {s}) \cup (flight[f] \cup {s}) = tasks[e] \cup flight[f]
          BY <3>1
        <4>2. air'[f] = (tasks[e] \ {s}) \cup (flight[f] \cup {s})
          BY <3>1, AirAt
        <4>3. air[f] = tasks[e] \cup flight[f]
          BY <3>1, AirAt
        <4> QED BY <4>1, <4>2, <4>3
      <3>3. \A c \in tasks[e] \ {s} : c \notin flight[f] \cup {s}
        BY <3>1
      <3>4. Disjoint(tasks'[Peer(f)], flight'[f])
        BY <3>1, <3>3 DEF Disjoint
      <3> QED BY <3>2, <3>4
    <2>3. CASE f # p
      BY <1>1, <1>2, <1>4, <2>1, <2>3, AirAt
    <2> QED BY <2>2, <2>3
  <1> QED BY <1>5 DEF DcSend

(* Whatever fails or is lost leaves less under way.                        *)
LEMMA LossAir ==
  ASSUME Inv,
         \/ Fail
         \/ \E e \in Eps : \E s \in tasks[e] : DcSendFails(e, s)
         \/ \E e \in Eps : \E s \in flight[e] : Lose(e, s)
  PROVE  /\ \A f \in Eps : air'[f] \subseteq air[f] /\ Disjoint(tasks'[Peer(f)], flight'[f])
         /\ UNCHANGED adapterVars
  <1>1. \A f \in Eps : tasks'[f] \subseteq tasks[f] /\ flight'[f] \subseteq flight[f]
    <2>1. CASE Fail
      BY <2>1 DEF Fail
    <2>2. ASSUME NEW e \in Eps, NEW s \in tasks[e], DcSendFails(e, s)
          PROVE  \A f \in Eps : tasks'[f] \subseteq tasks[f] /\ flight'[f] \subseteq flight[f]
      BY <2>2, TasksWithout DEF DcSendFails, Inv
    <2>3. ASSUME NEW e \in Eps, NEW s \in flight[e], Lose(e, s)
          PROVE  \A f \in Eps : tasks'[f] \subseteq tasks[f] /\ flight'[f] \subseteq flight[f]
      BY <2>3, FlightWithout DEF Lose, Inv
    <2> QED BY <2>1, <2>2, <2>3
  <1>2. UNCHANGED adapterVars
    BY DEF Fail, DcSendFails, Lose
  <1>3. ASSUME NEW f \in Eps
        PROVE  air'[f] \subseteq air[f] /\ Disjoint(tasks'[Peer(f)], flight'[f])
    <2>1. Peer(f) \in Eps /\ Disjoint(tasks[Peer(f)], flight[f])
      BY PeerType DEF Inv, FlightInv
    <2> QED BY <1>1, <2>1, AirAt DEF Disjoint
  <1> QED BY <1>2, <1>3

(* What arrives leaves the data channel as it enters the queue.            *)
LEMMA MessageAir ==
  ASSUME Inv, NEW e \in Eps, NEW s \in flight[e], OnMessage(e, s)
  PROVE  /\ \A f \in Eps : air'[f] = IF f = e THEN air[e] \ {s} ELSE air[f]
         /\ \A f \in Eps : Disjoint(tasks'[Peer(f)], flight'[f])
         /\ s \in air[e]
  <1>1. /\ tasks' = tasks
        /\ \A f \in Eps : flight'[f] = IF f = e THEN flight[e] \ {s} ELSE flight[f]
    BY FlightWithout DEF OnMessage, Inv
  <1>2. \A f \in Eps : Disjoint(tasks[Peer(f)], flight[f])
    BY DEF Inv, FlightInv
  <1>3. s \notin tasks[Peer(e)]
    BY <1>2 DEF Disjoint
  <1>4. \A f \in Eps : Disjoint(tasks'[Peer(f)], flight'[f])
    BY <1>1, <1>2 DEF Disjoint
  <1> QED BY <1>1, <1>3, <1>4, AirAt

LEMMA MessageFlightInv ==
  ASSUME Inv, NEW e \in Eps, NEW s \in flight[e], OnMessage(e, s)
  PROVE  FlightInv'
  <1>1. /\ AdapterTypeOK /\ call' = call
        /\ \A f \in Eps : air'[f] = IF f = e THEN air[e] \ {s} ELSE air[f]
        /\ \A f \in Eps : Disjoint(tasks'[Peer(f)], flight'[f])
        /\ s \in air[e]
    BY MessageAir DEF OnMessage, Inv, TypeInv, TypeOK
  <1>2. \A c : Passed(c) => Passed(c)'
    BY <1>1 DEF Passed
  <1>3. CASE UNCHANGED recvVars
    BY <1>1, <1>2, <1>3, QuietFlightInv DEF recvVars, Inv
  <1>4. CASE Enqueue(e, Tag(e, s))
    <2>1. Tag(e, s) \in Inbound /\ Tag(e, s).data = s
      BY PeerType DEF Tag, Inbound, Inv, TypeInv, TypeOK
    <2>2. /\ \A f \in Eps : s \notin Data(queue[f]) /\ s \notin Data(batch[f])
          /\ \A f \in Eps : f # e => s \notin air[f]
          /\ \A f \in Eps : Distinct(queue[f])
      BY <1>1 DEF Inv, FlightInv, Apart, Disjoint
    <2>3. /\ \A f \in Eps : /\ Data(queue'[f]) = Data(queue[f]) \cup (IF f = e THEN {s} ELSE {})
                            /\ Distinct(queue'[f])
          /\ batch' = batch
      BY <1>1, <1>4, <2>1, <2>2, EnqueueData
    <2>4. \A f \in Eps : /\ Data(queue'[f]) \subseteq Data(queue[f]) \cup (IF f = e THEN {s} ELSE {})
                         /\ Distinct(queue'[f])
                         /\ air'[f] \subseteq air[f] /\ s \notin air'[f]
                         /\ s \notin Data(queue[f]) /\ s \notin Data(batch[f])
      BY <1>1, <2>2, <2>3
    <2>5. Apart(air', queue', batch)
      BY <2>4, ArriveApart DEF Inv, FlightInv
    <2>6. \A f \in Eps : \A c \in air'[f] \cup Data(queue'[f]) \cup Data(batch[f]) :
            c \in air[f] \/ c \in Data(queue[f]) \/ c \in Data(batch[f])
      BY <1>1, <2>3
    <2>7. \A f \in Eps : \A c \in air'[f] \cup Data(queue'[f]) \cup Data(batch[f]) :
            c \in Segment /\ Passed(c)'
      BY <1>2, <2>6 DEF Inv, FlightInv, AllPassed
    <2> QED BY <1>1, <2>3, <2>5, <2>7, FlightPrimed
  <1> QED BY <1>3, <1>4 DEF OnMessage

LEMMA NextFlightInv == Inv /\ [Next]_vars => FlightInv'
  <1> SUFFICES ASSUME Inv, [Next]_vars PROVE FlightInv'
    OBVIOUS
  <1>1. ASSUME UNCHANGED <<queue, batch, call>>,
               \A f \in Eps : air'[f] \subseteq air[f] /\ Disjoint(tasks'[Peer(f)], flight'[f])
        PROVE  FlightInv'
    BY <1>1, QuietFlightInv DEF Inv, Passed
  <1>2. ASSUME UNCHANGED <<queue, batch, call, tasks, flight>> PROVE FlightInv'
    <2>1. \A f \in Eps : air'[f] \subseteq air[f] /\ Disjoint(tasks'[Peer(f)], flight'[f])
      BY <1>2, AirAt DEF Inv, FlightInv
    <2> QED BY <1>1, <1>2, <2>1
  <1>3. CASE ConnectedBackends \/ UNCHANGED vars
    BY <1>2, <1>3 DEF ConnectedBackends, vars, adapterVars, recvVars, nativeVars
  <1>4. ASSUME NEW e \in Eps, NEW s \in tasks[e], DcSend(e, s) PROVE FlightInv'
    BY <1>1, <1>4, DcSendAir DEF adapterVars, recvVars
  <1>5. ASSUME \/ Fail
               \/ \E e \in Eps : \E s \in tasks[e] : DcSendFails(e, s)
               \/ \E e \in Eps : \E s \in flight[e] : Lose(e, s)
        PROVE  FlightInv'
    BY <1>1, <1>5, LossAir DEF adapterVars, recvVars
  <1>6. ASSUME NEW t \in Transmits, NEW e \in Eps, NEW a \in Addr,
               PollSend(t, e, a), UNCHANGED nativeVars
        PROVE  FlightInv'
    <2>1. UNCHANGED <<queue, batch, tasks, flight>>
      BY <1>6 DEF PollSend, recvVars, nativeVars
    <2>2. \A c \in Segment : Passed(c) => Passed(c)'
      BY <1>6, PollSendOffers DEF Inv, TypeInv, TypeOK
    <2>3. \A f \in Eps : air'[f] \subseteq air[f] /\ Disjoint(tasks'[Peer(f)], flight'[f])
      BY <2>1, AirAt DEF Inv, FlightInv
    <2> QED BY <2>1, <2>2, <2>3, QuietFlightInv DEF Inv
  <1> QED BY <1>3, <1>4, <1>5, <1>6, StepFlightInv, SendFlightInv, MessageFlightInv
          DEF Next, DataChannelStep

LEMMA InvHolds == Spec => []Inv
  <1>1. Init => Inv
    BY InitTypeInv, InitFlightInv DEF Inv
  <1>2. Inv /\ [Next]_vars => Inv'
    BY NextTypeInv, NextFlightInv DEF Inv
  <1> QED BY <1>1, <1>2, PTL DEF Spec
-----------------------------------------------------------------------------
(* No datagram is stranded.                                                *)

(* Nothing here closes a channel for good: its sender lives in a callback. *)
NeverShut == \A e \in Eps : ~shut[e]

LEMMA MessageNoStranded ==
  ASSUME AdapterTypeOK, NoStranded, NeverShut, NEW e \in Eps, NEW s, OnMessage(e, s)
  PROVE  NoStranded'
  <1>1. CASE UNCHANGED recvVars
    BY <1>1 DEF OnMessage, recvVars, NoStranded
  <1>2. CASE Enqueue(e, Tag(e, s))
    <2>1. /\ Wake(e) /\ UNCHANGED <<life, slots, shut>> /\ ~shut[e]
          /\ \A f \in Eps : f # e => queue'[f] = queue[f]
      BY <1>2 DEF OnMessage, Enqueue, NeverShut, AdapterTypeOK
    <2> QED BY <2>1, WakeNoStranded
  <1> QED BY <1>1, <1>2 DEF OnMessage

(* A driver that waits has nothing to fetch and will be told when it has:  *)
(* every message on_message queues, from whichever spawned task, finds its *)
(* waker or finds it awake (WebRtcReceiver, poll_recv), provided iroh never*)
(* polls without a buffer.                                                 *)
THEOREM NothingStranded ==
  ASSUME 0 \notin Slots
  PROVE  Spec => []NoStranded
  <1>1. Init => NoStranded /\ NeverShut
    BY InitNoStranded DEF Init, AdapterInit, NeverShut
  <1>2. Inv /\ NeverShut /\ [Next]_vars => NeverShut'
    BY DEF Next, DataChannelStep, ConnectedBackends, NativeSend, DcSend, DcSendFails, Lose, Fail, AdapterStep, Bind, Discard, PollRecv, PollTake,
           PollFull, PollIdle, PollSend, OnMessage, Enqueue, vars, adapterVars, recvVars, NeverShut
  <1>3. Inv /\ NoStranded /\ NeverShut /\ [Next]_vars => NoStranded'
    <2> SUFFICES ASSUME Inv, NoStranded, NeverShut, [Next]_vars PROVE NoStranded'
      OBVIOUS
    <2>1. CASE ConnectedBackends
      BY <2>1 DEF ConnectedBackends, recvVars, NoStranded, Inv, TypeInv, TypeOK, AdapterTypeOK
    <2>2. CASE Fail \/ \E t \in Transmits : NativeSend(t)
      BY <2>2 DEF Fail, NativeSend, adapterVars, recvVars, NoStranded
    <2>3. ASSUME NEW e \in Eps, NEW s,
                 DcSend(e, s) \/ DcSendFails(e, s) \/ Lose(e, s)
          PROVE  NoStranded'
      BY <2>3 DEF DcSend, DcSendFails, Lose, adapterVars, recvVars, NoStranded
    <2>4. ASSUME NEW e \in Eps, NEW s, OnMessage(e, s) PROVE NoStranded'
      BY <2>4, MessageNoStranded DEF Inv, TypeInv, TypeOK
    <2>5. ASSUME NEW e \in Eps, AdapterStep(e) PROVE NoStranded'
      BY <2>5, StepNoStranded DEF Inv, TypeInv, TypeOK
    <2>6. ASSUME NEW t \in Transmits, NEW e \in Eps, NEW a \in Addr, PollSend(t, e, a)
          PROVE  NoStranded'
      BY <2>6 DEF PollSend, recvVars, NoStranded
    <2>7. CASE UNCHANGED vars
      BY <2>7 DEF vars, adapterVars, recvVars, NoStranded
    <2> QED BY <2>1, <2>2, <2>3, <2>4, <2>5, <2>6, <2>7 DEF Next, DataChannelStep
  <1> QED BY <1>1, <1>2, <1>3, InvHolds, PTL DEF Spec

-----------------------------------------------------------------------------
(* Nothing owed is lost.                                                   *)

(* What on_message has queued and a slot can hold stays until it is handed *)
(* up or the endpoint dropped, even when the connection fails meanwhile    *)
(* (WebRtcReceiver, poll_recv).                                            *)
THEOREM NothingForgotten == Spec => [][KeepsOwed]_vars
  <1>1. ASSUME Inv, Next PROVE KeepsOwed
    <2>1. ASSUME NEW e \in Eps, AdapterStep(e) PROVE KeepsOwed
      BY <1>1, <2>1, StepKeepsOwed DEF Inv, TypeInv, TypeOK
    <2>2. ASSUME NEW t \in Transmits, NEW e \in Eps, NEW a \in Addr, PollSend(t, e, a)
          PROVE  KeepsOwed
      BY <2>2, QuietKeepsOwed DEF PollSend, recvVars
    <2>3. ASSUME NEW e \in Eps, NEW s \in flight[e], OnMessage(e, s) PROVE KeepsOwed
      <3>1. CASE UNCHANGED recvVars
        BY <3>1, QuietKeepsOwed DEF recvVars
      <3>2. CASE Enqueue(e, Tag(e, s))
        <4>1. Tag(e, s) \in Inbound
          BY <1>1, PeerType DEF Tag, Inbound, Inv, TypeInv, TypeOK
        <4> QED BY <1>1, <3>2, <4>1, EnqueueKeepsOwed DEF Inv, TypeInv, TypeOK
      <3> QED BY <2>3, <3>1, <3>2 DEF OnMessage
    <2>4. CASE \E e \in Eps : \/ \E s \in tasks[e] : DcSend(e, s) \/ DcSendFails(e, s)
                            \/ \E s \in flight[e] : Lose(e, s)
      BY <2>4, QuietKeepsOwed DEF DcSend, DcSendFails, Lose, adapterVars, recvVars
    <2>5. CASE ConnectedBackends \/ Fail \/ \E t \in Transmits : NativeSend(t)
      BY <2>5, QuietKeepsOwed DEF ConnectedBackends, Fail, NativeSend, adapterVars, recvVars
    <2> QED BY <1>1, <2>1, <2>2, <2>3, <2>4, <2>5 DEF Next, DataChannelStep
  <1>2. Inv /\ [Next]_vars => [KeepsOwed]_vars
    BY <1>1
  <1> QED BY <1>2, InvHolds, PTL DEF Spec

-----------------------------------------------------------------------------
(* The refinement.                                                         *)

Wire == UNION {Unordered(e) \cup As(e, queue[e]) \cup As(e, batch[e]) : e \in Eps}

LEMMA InWire ==
  ASSUME NEW m
  PROVE  m \in Wire
           <=> \E e \in Eps : m \in Unordered(e) \/ m \in As(e, queue[e]) \/ m \in As(e, batch[e])
  BY DEF Wire

LEMMA InWirePrimed ==
  ASSUME NEW m
  PROVE  m \in Wire'
           <=> \E e \in Eps : m \in Unordered(e)' \/ m \in As(e, queue'[e]) \/ m \in As(e, batch'[e])
  BY DEF Wire, As

(* What is in the air, addressed.                                          *)
LEMMA UnorderedAt ==
  ASSUME NEW f \in Eps
  PROVE  /\ Unordered(f) = {[from |-> Remote(f), to |-> KeyOf[f], data |-> s] : s \in air[f]}
         /\ Unordered(f)' = {[from |-> Remote(f), to |-> KeyOf[f], data |-> s] : s \in air'[f]}
  BY AirAt DEF Unordered, Peer, Remote

LEMMA InitRefines == Init => Seam!Init
  <1> SUFFICES ASSUME Init PROVE Seam!Init
    OBVIOUS
  <1>1. Offered = {}
    BY InitOffered DEF Init
  <1>2. ASSUME NEW e \in Eps
        PROVE  /\ As(e, queue[e]) = {} /\ As(e, batch[e]) = {} /\ As(e, up[e]) = {}
               /\ Unordered(e) = {}
    <2>1. air[e] = {}
      BY PeerType, AirAt DEF Init
    <2> QED BY <2>1, UnorderedAt, EmptyData DEF Init, AdapterInit
  <1>3. Wire = {} /\ [e \in Eps |-> As(e, up[e])] = [e \in Eps |-> {}]
    BY <1>2 DEF Wire
  <1> QED BY <1>1, <1>3 DEF Seam!Init, Wire

(* A step that offers and hands up nothing can only lose.                  *)
LEMMA LosesAtMost ==
  ASSUME Offered' = Offered, Got' = Got, Wire' \subseteq Wire
  PROVE  Seam!Next
  BY DEF Seam!Next, Seam!Lose, Wire, Got

LEMMA StepRefines ==
  ASSUME Inv, NEW e \in Eps, AdapterStep(e), UNCHANGED nativeVars
  PROVE  Seam!Next
  <1> DEFINE W == [f \in Eps |-> Unordered(f)]
             S == As(e, batch[e])
  <1>1. Offered' = Offered
    BY StepMoves, OfferedKept
  <1>2. Wire = WireOf(W, queue, batch) /\ Wire' = WireOf(W, queue', batch')
    <2>1. \A f \in Eps : Unordered(f)' = Unordered(f)
      BY DEF nativeVars, Unordered, Peer, Remote
    <2> QED BY <2>1 DEF Wire, WireOf, As
  <1>3. \A f \in Eps : \A m \in W[f] : m.data \in air[f]
    BY UnorderedAt
  <1> HIDE DEF W
  <1>4. \/ Wire' \subseteq Wire /\ Got' = Got
        \/ Wire' = Wire \ S /\ Got' = [Got EXCEPT ![e] = @ \cup S]
    BY <1>2, <1>3, StepAsSeam DEF Inv, TypeInv, TypeOK, FlightInv
  <1>5. S \in SUBSET {m \in Wire : m.to = KeyOf[e]}
    BY AsData DEF Wire
  <1>6. CASE S = {}
    <2>1. Wire' \subseteq Wire /\ Got' = Got
      BY <1>4, <1>6 DEF Got
    <2> QED BY <1>1, <2>1, LosesAtMost
  <1>7. CASE Wire' = Wire \ S /\ Got' = [Got EXCEPT ![e] = @ \cup S] /\ S # {}
    <2>1. Seam!Receive(e)
      BY <1>1, <1>5, <1>7 DEF Seam!Receive, Wire, Got
    <2> QED BY <2>1 DEF Seam!Next
  <1> QED BY <1>1, <1>4, <1>6, <1>7, LosesAtMost

LEMMA SendRefines ==
  ASSUME Inv, NEW t \in Transmits, NativeSend(t)
  PROVE  Seam!Next
  <1> DEFINE e == call[t].ep
             p == Peer(e)
             s == NextInbound(t).data
             m == Outgoing(t)
  <1>1. /\ AdapterTypeOK /\ CallInv /\ Sending(t) /\ Advance(t)
        /\ UNCHANGED <<queue, batch, up, flight>>
    BY DEF Inv, TypeInv, TypeOK, NativeSend, recvVars
  <1>2. m \in SeamDatagram \ Offered /\ Offered' = Offered \cup {m}
    BY <1>1, AdvanceOffers
  <1>3. Got' = Got
    BY <1>1 DEF Got, As
  <1>4. Wire' \in {Wire, Wire \cup {m}}
    <2>1. CASE tasks' = tasks
      BY <1>1, <2>1 DEF Wire, Unordered, As, Peer, Remote
    <2>2. CASE call[t].dst = Remote(e) /\ tasks' = [tasks EXCEPT ![e] = @ \cup {s}]
      <3>1. /\ e \in Eps /\ p \in Eps /\ Peer(p) = e
            /\ \A f \in Eps : Peer(f) \in Eps /\ (Peer(f) = e <=> f = p)
        <4>1. e \in Eps
          BY <1>1 DEF CallInv, Sending
        <4> QED BY <4>1, PeerType
      <3>2. m = [from |-> Remote(p), to |-> KeyOf[p], data |-> s]
        BY <2>2, <3>1 DEF Outgoing, Remote
      <3>3. \A f \in Eps : tasks'[f] = tasks[f] \cup (IF f = e THEN {s} ELSE {})
        BY <2>2, <3>1 DEF Inv, TypeInv, TypeOK
      <3> HIDE DEF e, p, s, m
      <3>4. \A f \in Eps : air'[f] = air[f] \cup (IF f = p THEN {s} ELSE {})
        BY <1>1, <3>1, <3>3, AirAt
      <3>5. \A f \in Eps : Unordered(f)' = Unordered(f) \cup (IF f = p THEN {m} ELSE {})
        BY <3>2, <3>4, UnorderedAt
      <3>6. ASSUME NEW d PROVE d \in Wire' <=> d \in Wire \/ d = m
        BY <1>1, <3>1, <3>5, InWire, InWirePrimed
      <3>7. Wire' = Wire \cup {m}
        BY <3>6
      <3> QED BY <3>7
    <2> QED BY <2>1, <2>2 DEF NativeSend
  <1>5. Seam!Send(m) /\ m \in Seam!Datagram
    BY <1>2, <1>3, <1>4 DEF Seam!Send, Seam!Datagram, SeamDatagram, Wire, Got
  <1> QED BY <1>5 DEF Seam!Next

(* An arrival moves a datagram along the wire, or loses it.                *)
LEMMA MessageRefines ==
  ASSUME Inv, NEW e \in Eps, NEW s \in flight[e], OnMessage(e, s)
  PROVE  Seam!Next
  <1> DEFINE m == [from |-> Remote(e), to |-> KeyOf[e], data |-> s]
  <1>1. /\ AdapterTypeOK /\ Offered' = Offered /\ UNCHANGED <<batch, up>>
        /\ \A f \in Eps : air'[f] \subseteq air[f]
        /\ s \in air[e]
    BY OfferedKept, MessageAir DEF OnMessage, Enqueue, recvVars, Inv, TypeInv, TypeOK
  <1>2. Got' = Got
    BY <1>1 DEF Got, As
  <1>3. \A f \in Eps : \A d \in Unordered(f)' : d \in Unordered(f)
    BY <1>1, UnorderedAt
  <1>4. m \in Unordered(e)
    BY <1>1, UnorderedAt
  <1>5. \A f \in Eps : \A d \in As(f, queue'[f]) : d \in As(f, queue[f]) \/ (f = e /\ d = m)
    <2>1. CASE UNCHANGED recvVars
      BY <2>1 DEF recvVars
    <2>2. CASE Enqueue(e, Tag(e, s))
      <3>1. Tag(e, s) \in Inbound /\ Tag(e, s).data = s /\ Tag(e, s).from = Remote(e)
        BY PeerType DEF Tag, Inbound, Inv, TypeInv, TypeOK
      <3>2. As(e, Append(queue[e], Tag(e, s))) = As(e, queue[e]) \cup {m}
        BY <1>1, <3>1, DataOfAppend DEF AdapterTypeOK
      <3>3. \A f \in Eps : queue'[f] = IF f = e THEN Append(queue[e], Tag(e, s)) ELSE queue[f]
        BY <1>1, <2>2 DEF Enqueue, AdapterTypeOK
      <3> QED BY <3>2, <3>3
    <2> QED BY <2>1, <2>2 DEF OnMessage
  <1> HIDE DEF m
  <1>6. ASSUME NEW d \in Wire' PROVE d \in Wire
    BY <1>1, <1>3, <1>4, <1>5, InWire, InWirePrimed
  <1> QED BY <1>1, <1>2, <1>6, LosesAtMost

LEMMA NextRefines == Inv /\ [Next]_vars => [Seam!Next]_(Seam!vars)
  <1> SUFFICES ASSUME Inv, [Next]_vars PROVE [Seam!Next]_(Seam!vars)
    OBVIOUS
  <1>1. ASSUME UNCHANGED <<queue, batch, up, call>>, \A f \in Eps : air'[f] \subseteq air[f]
        PROVE  Seam!Next
    <2>1. \A f \in Eps : \A d \in Unordered(f)' : d \in Unordered(f)
      BY <1>1, UnorderedAt
    <2>2. ASSUME NEW d \in Wire' PROVE d \in Wire
      BY <1>1, <2>1, InWire, InWirePrimed
    <2>3. Got' = Got
      BY <1>1 DEF Got, As
    <2> QED BY <1>1, <2>2, <2>3, OfferedKept, LosesAtMost
  <1>2. CASE ConnectedBackends \/ UNCHANGED vars
    <2>1. UNCHANGED <<queue, batch, up, call, tasks, flight>>
      BY <1>2 DEF ConnectedBackends, vars, adapterVars, recvVars, nativeVars
    <2> QED BY <1>1, <2>1, AirAt
  <1>3. ASSUME NEW e \in Eps, NEW s \in tasks[e], DcSend(e, s) PROVE Seam!Next
    BY <1>1, <1>3, DcSendAir DEF adapterVars, recvVars
  <1>4. ASSUME \/ Fail
               \/ \E e \in Eps : \E s \in tasks[e] : DcSendFails(e, s)
               \/ \E e \in Eps : \E s \in flight[e] : Lose(e, s)
        PROVE  Seam!Next
    BY <1>1, <1>4, LossAir DEF adapterVars, recvVars
  <1>5. ASSUME NEW t \in Transmits, NEW e \in Eps, NEW a \in Addr,
               PollSend(t, e, a), UNCHANGED nativeVars
        PROVE  Seam!Next
    <2>1. UNCHANGED <<queue, batch, up, tasks, flight>> /\ Offered' = Offered
      BY <1>5, PollSendOffers DEF PollSend, recvVars, nativeVars, Inv, TypeInv, TypeOK
    <2>2. Wire' = Wire /\ Got' = Got
      BY <2>1 DEF Wire, Got, Unordered, As, Peer, Remote
    <2> QED BY <2>1, <2>2, LosesAtMost
  <1> QED BY <1>2, <1>3, <1>4, <1>5, StepRefines, SendRefines, MessageRefines
          DEF Next, DataChannelStep

(* The native carrier under the adapter keeps the seam's contract: in      *)
(* whatever order the spawned tasks run and the data channel delivers,     *)
(* nothing is forged, misrouted or delivered twice.                        *)
THEOREM Refinement == Spec => ImplementsSeam
  <1> QED BY InitRefines, NextRefines, InvHolds, PTL DEF Spec, ImplementsSeam, Seam!Spec
=============================================================================

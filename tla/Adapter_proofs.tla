--------------------------- MODULE Adapter_proofs ---------------------------
(***************************************************************************)
(* Facts about the adapter that the proofs about every carrier rest on:    *)
(* types, how poll_send cuts a transmit into segments, how datagrams move  *)
(* from the channel through a batch to iroh, and how all this looks from   *)
(* the seam.                                                               *)
(***************************************************************************)
EXTENDS Adapter, Integers, TLAPS

(* A transmit that is being sent has an endpoint, whose key tags it; one   *)
(* that has not begun has sent nothing; and poll_send always stands at the *)
(* beginning of a segment or at the end of the contents.                   *)
CallInv ==
  \A t \in Transmits :
    /\ call[t].dst # NoKey => call[t].ep \in Eps
    /\ call[t].ep = NoEp => call[t].sent = 0
    /\ \/ call[t].sent = Length[t]
       \/ call[t].sent < Length[t] /\ call[t].sent % SegmentOf(t) = 0

(* The bytes of a segment that poll_send has passed on.                    *)
Passed(c) == c.lo <= c.hi /\ c.hi <= call[c.tx].sent

(* The contents of a sequence of datagrams.                                *)
Data(s) == {s[i].data : i \in DOMAIN s}

(* No datagram is twice in a sequence.                                     *)
Distinct(s) == \A i, j \in DOMAIN s : s[i].data = s[j].data => i = j

-----------------------------------------------------------------------------
(* Cutting.                                                                *)

(* A segment is at least one byte long, and ends within the contents.      *)
LEMMA SegmentType ==
  ASSUME AdapterTypeOK, NEW t \in Transmits
  PROVE  SegmentOf(t) \in Nat \ {0} /\ NextEnd(t) \in Nat
  <1>1. SegmentOf(t) \in Nat \ {0}
    BY AdapterAssumption DEF SegmentOf, Larger
  <1>2. call[t].sent \in Nat /\ Length[t] \in Nat
    BY AdapterAssumption DEF AdapterTypeOK
  <1> QED BY <1>1, <1>2 DEF NextEnd, Smaller

(* The datagram of a transmit that is being sent is well-formed.           *)
LEMMA InboundType ==
  ASSUME AdapterTypeOK, CallInv, NEW t \in Transmits, Sending(t)
  PROVE  NextInbound(t) \in Inbound
  <1>1. call[t].ep \in Eps /\ call[t].sent + 1 \in Nat
    BY DEF AdapterTypeOK, CallInv, Sending
  <1>2. NextEnd(t) \in Nat
    BY SegmentType
  <1>3. KeyOf[call[t].ep] \in Keys
    BY <1>1, AdapterAssumption
  <1> QED BY <1>1, <1>2, <1>3 DEF NextInbound, Inbound, Segment

(* The next multiple of a segment size.                                    *)
LEMMA NextMultiple ==
  ASSUME NEW s \in Nat \ {0}, NEW x \in Nat, x % s = 0
  PROVE  (x + s) % s = 0
  <1> DEFINE q == x \div s
  <1>1. q \in Nat /\ x = (s * q) + (x % s)
    OBVIOUS
  <1>2. x = s * q /\ x + s \in Nat
    BY <1>1
  <1>4. x + s = s * (q + 1)
    BY <1>1, <1>2
  <1>3. ASSUME NEW k \in Nat PROVE (s * k) % s = 0
    OBVIOUS
  <1> QED BY <1>1, <1>4, <1>3

(* There is no multiple strictly between two neighbours.                   *)
LEMMA OneMultiple ==
  ASSUME NEW s \in Nat \ {0}, NEW x \in Nat, NEW n \in Nat,
         x % s = 0, n % s = 0, x <= n, n < x + s
  PROVE  n = x
  OBVIOUS

(* A step of the iterator over the segments leaves poll_send at the        *)
(* beginning of the next one, and what it passes on is a cut.              *)
LEMMA AdvanceCuts ==
  ASSUME AdapterTypeOK, CallInv, NEW t \in Transmits, Sending(t), Advance(t)
  PROVE  /\ CallInv'
         /\ NextInbound(t).data \in Cuts(t)
         /\ call' = [call EXCEPT ![t].sent = NextEnd(t)]
         /\ NextEnd(t) \in (call[t].sent + 1)..Length[t]
         /\ \A c \in {NextInbound(t).data} : Passed(c)'
  <1> DEFINE x == call[t].sent
             s == SegmentOf(t)
  <1>1. /\ x \in Nat /\ Length[t] \in Nat /\ s \in Nat \ {0}
        /\ x < Length[t] /\ x % s = 0
    BY SegmentType, AdapterAssumption DEF AdapterTypeOK, CallInv, Sending
  <1>2. NextEnd(t) \in (x + 1)..Length[t]
    BY <1>1 DEF NextEnd, Smaller
  <1>3. NextEnd(t) = Length[t] \/ (NextEnd(t) < Length[t] /\ NextEnd(t) % s = 0)
    <2>1. (x + s) % s = 0
      BY <1>1, NextMultiple
    <2>2. CASE x + s < Length[t]
      <3>1. NextEnd(t) = x + s
        BY <1>1, <2>2 DEF NextEnd, Smaller
      <3> QED BY <2>1, <2>2, <3>1
    <2>3. CASE ~(x + s < Length[t])
      BY <1>1, <2>3 DEF NextEnd, Smaller
    <2> QED BY <2>2, <2>3
  <1>4. /\ call' = [call EXCEPT ![t].sent = NextEnd(t)]
        /\ call[t].ep \in Eps /\ call[t].ep # NoEp
    BY AdapterAssumption DEF Advance, CallInv, Sending
  <1>5. CallInv'
    <2> SUFFICES ASSUME NEW u \in Transmits
                 PROVE  /\ call'[u].dst # NoKey => call'[u].ep \in Eps
                        /\ call'[u].ep = NoEp => call'[u].sent = 0
                        /\ \/ call'[u].sent = Length[u]
                           \/ /\ call'[u].sent < Length[u]
                              /\ call'[u].sent % SegmentOf(u) = 0
      BY DEF CallInv, SegmentOf
    <2>1. CASE u # t
      BY <1>4, <2>1 DEF CallInv, AdapterTypeOK
    <2>2. CASE u = t
      BY <1>3, <1>4, <2>2 DEF AdapterTypeOK
    <2> QED BY <2>1, <2>2
  <1>6. NextInbound(t).data = [tx |-> t, lo |-> x + 1, hi |-> NextEnd(t)]
    BY DEF NextInbound
  <1>7. NextInbound(t).data \in Cuts(t)
    <2>1. x \in {i \in 0..(Length[t] - 1) : i % SegmentOf(t) = 0}
      BY <1>1
    <2> QED BY <1>6, <2>1 DEF Cuts, NextEnd
  <1>8. ASSUME NEW c, c = NextInbound(t).data PROVE Passed(c)'
    <2>1. call'[t].sent = NextEnd(t)
      BY <1>4 DEF AdapterTypeOK
    <2>2. c.tx = t /\ c.lo = x + 1 /\ c.hi = NextEnd(t)
      BY <1>6, <1>8
    <2> QED BY <1>1, <1>2, <2>1, <2>2 DEF Passed
  <1> QED BY <1>2, <1>4, <1>5, <1>7, <1>8

LEMMA InitCallInv == AdapterInit => CallInv
  <1> SUFFICES ASSUME AdapterInit, NEW t \in Transmits
               PROVE  \/ 0 = Length[t]
                      \/ 0 < Length[t] /\ 0 % SegmentOf(t) = 0
    BY DEF AdapterInit, CallInv
  <1>1. SegmentOf(t) \in Nat \ {0} /\ Length[t] \in Nat
    BY AdapterAssumption DEF SegmentOf, Larger
  <1> QED BY <1>1

LEMMA CallKept == CallInv /\ UNCHANGED call => CallInv'
  BY DEF CallInv, SegmentOf

-----------------------------------------------------------------------------
(* What the seam sees of the send side.                                    *)

(* The segment that is about to be sent, as the seam's datagram.           *)
Outgoing(t) ==
  [from |-> KeyOf[call[t].ep], to |-> call[t].dst, data |-> NextInbound(t).data]

SeamDatagram == [from : Keys, to : Keys, data : AllCuts]

LEMMA InitOffered == AdapterInit => Offered = {}
  <1> SUFFICES ASSUME AdapterInit, NEW t \in Transmits PROVE OfferedBy(t) = {}
    BY DEF Offered
  <1>1. \A c \in Cuts(t) : c.lo \in Nat /\ c.lo >= 1
    BY AdapterAssumption DEF Cuts
  <1>2. call[t].sent = 0
    BY DEF AdapterInit
  <1> QED BY <1>1, <1>2 DEF OfferedBy

LEMMA OfferedKept == UNCHANGED call => Offered' = Offered
  BY DEF Offered, OfferedBy, Cuts, SegmentOf

(* Beginning a poll_send offers nothing.                                   *)
LEMMA PollSendOffers ==
  ASSUME AdapterTypeOK, CallInv,
         NEW t \in Transmits, NEW e \in Eps, NEW a \in Addr, PollSend(t, e, a)
  PROVE  AdapterTypeOK' /\ CallInv' /\ Offered' = Offered
         /\ \A c \in Segment : Passed(c) => Passed(c)'
  <1>1. /\ a.data \in Keys \cup {NoKey} /\ call[t].sent = 0
        /\ call' = [call EXCEPT ![t] = [ep |-> e, dst |-> a.data, sent |-> 0]]
        /\ UNCHANGED <<life, queue, shut, waker, woken, slots, batch, up>>
    BY DEF PollSend, CallInv, Addr, recvVars
  <1>2. AdapterTypeOK'
    BY <1>1 DEF AdapterTypeOK
  <1>3. \A u \in Transmits : call'[u].sent = call[u].sent /\ (u # t => call'[u] = call[u])
    BY <1>1 DEF AdapterTypeOK
  <1>4. call'[t].ep = e /\ e # NoEp
    BY <1>1, AdapterAssumption DEF AdapterTypeOK
  <1>5. CallInv'
    BY <1>3, <1>4 DEF CallInv, SegmentOf
  <1>6. ASSUME NEW u \in Transmits PROVE OfferedBy(u)' = OfferedBy(u)
    <2>1. CASE u # t
      BY <1>3, <2>1 DEF OfferedBy, Cuts, SegmentOf
    <2>2. CASE u = t
      <3>1. \A c \in Cuts(t) : c.lo \in Nat /\ c.lo >= 1
        BY AdapterAssumption DEF Cuts
      <3>2. {d \in Cuts(t) : d.lo <= 0} = {}
        BY <3>1
      <3>3. call[t].sent = 0 /\ call'[t].sent = 0
        BY <1>1, <1>3
      <3> QED BY <2>2, <3>2, <3>3 DEF OfferedBy, Cuts, SegmentOf
    <2> QED BY <2>1, <2>2
  <1>7. Offered' = Offered
    BY <1>6 DEF Offered
  <1>8. \A c \in Segment : Passed(c) => Passed(c)'
    BY <1>3 DEF Passed, Segment
  <1> QED BY <1>2, <1>5, <1>7, <1>8

(* What a step of the iterator adds to the offered datagrams is exactly    *)
(* the one that is passed to the carrier, and it was not offered before.   *)
LEMMA AdvanceOffers ==
  ASSUME AdapterTypeOK, CallInv, NEW t \in Transmits, Sending(t), Advance(t)
  PROVE  /\ Outgoing(t) \in SeamDatagram \ Offered
         /\ Offered' = Offered \cup {Outgoing(t)}
  <1> DEFINE x == call[t].sent
             s == SegmentOf(t)
             m == Outgoing(t)
             y == NextEnd(t)
  <1>1. /\ x \in Nat /\ Length[t] \in Nat /\ s \in Nat \ {0}
        /\ x < Length[t] /\ x % s = 0
        /\ call[t].ep \in Eps /\ call[t].dst \in Keys
    BY SegmentType, AdapterAssumption DEF AdapterTypeOK, CallInv, Sending
  <1>2. /\ m.data \in Cuts(t) /\ y \in (x + 1)..Length[t]
        /\ call' = [call EXCEPT ![t].sent = y]
    BY AdvanceCuts DEF Outgoing
  <1>3. m.data = [tx |-> t, lo |-> x + 1, hi |-> y]
    BY DEF Outgoing, NextInbound
  <1>4. m \in SeamDatagram
    <2>1. m.data \in AllCuts
      BY <1>2 DEF AllCuts
    <2>2. KeyOf[call[t].ep] \in Keys
      BY <1>1, AdapterAssumption
    <2> QED BY <1>1, <2>1, <2>2 DEF Outgoing, SeamDatagram
  <1>5. m \notin Offered
    <2> SUFFICES ASSUME NEW u \in Transmits, m \in OfferedBy(u) PROVE FALSE
      BY DEF Offered
    <2>1. m.data \in Cuts(u) /\ m.data.lo <= call[u].sent
      BY DEF OfferedBy
    <2>2. m.data.tx = u
      BY <2>1 DEF Cuts
    <2> QED BY <1>1, <1>3, <2>1, <2>2
  <1>6. \A u \in Transmits : u # t => call'[u] = call[u]
    BY <1>2 DEF AdapterTypeOK
  <1>7. call'[t] = [ep |-> call[t].ep, dst |-> call[t].dst, sent |-> y]
    BY <1>2 DEF AdapterTypeOK
  <1>8. \A d \in Cuts(t) : d.lo <= y <=> (d.lo <= x \/ d = m.data)
    <2> TAKE d \in Cuts(t)
    <2>1. PICK n \in 0..(Length[t] - 1) :
            n % s = 0 /\ d = [tx |-> t, lo |-> n + 1, hi |-> Smaller(n + s, Length[t])]
      BY DEF Cuts
    <2>2. CASE n < x
      <3>1. d.lo <= x /\ d.lo <= y
        BY <1>1, <1>2, <2>1, <2>2
      <3> QED BY <3>1
    <2>3. CASE n = x
      <3>1. d = m.data
        BY <1>3, <2>1, <2>3 DEF NextEnd
      <3>2. d.lo <= y
        BY <1>1, <1>2, <2>1, <2>3
      <3> QED BY <3>1, <3>2
    <2>4. CASE n > x
      <3>1. n >= x + s
        <4> SUFFICES ASSUME n < x + s PROVE FALSE
          BY <1>1, <2>1
        <4>1. n \in Nat
          BY <1>1, <2>1
        <4> QED BY <1>1, <2>1, <2>4, <4>1, OneMultiple
      <3>2. y <= x + s
        BY <1>1 DEF NextEnd, Smaller
      <3>3. d.lo = n + 1 /\ m.data.lo = x + 1
        BY <1>3, <2>1
      <3> QED BY <1>1, <1>2, <2>1, <2>4, <3>1, <3>2, <3>3
    <2> QED BY <1>1, <2>1, <2>2, <2>3, <2>4
  <1>9. OfferedBy(t)' = OfferedBy(t) \cup {m}
    <2>1. {d \in Cuts(t) : d.lo <= y} = {d \in Cuts(t) : d.lo <= x} \cup {m.data}
      BY <1>2, <1>8
    <2>2. m = [from |-> KeyOf[call[t].ep], to |-> call[t].dst, data |-> m.data]
      BY DEF Outgoing
    <2>3. Cuts(t)' = Cuts(t)
      BY DEF Cuts, SegmentOf
    <2>4. OfferedBy(t)' = {[from |-> KeyOf[call[t].ep], to |-> call[t].dst, data |-> c] :
                             c \in {d \in Cuts(t) : d.lo <= y}}
      BY <1>7, <2>3 DEF OfferedBy
    <2>5. OfferedBy(t) = {[from |-> KeyOf[call[t].ep], to |-> call[t].dst, data |-> c] :
                             c \in {d \in Cuts(t) : d.lo <= x}}
      BY DEF OfferedBy
    <2> HIDE DEF m, x, y
    <2> QED BY <2>1, <2>2, <2>4, <2>5
  <1>10. \A u \in Transmits : u # t => OfferedBy(u)' = OfferedBy(u)
    BY <1>6 DEF OfferedBy, Cuts, SegmentOf
  <1>11. Offered' = Offered \cup {m}
    BY <1>9, <1>10 DEF Offered
  <1> QED BY <1>4, <1>5, <1>11

-----------------------------------------------------------------------------
(* The receive side.                                                       *)

(* What a step of an endpoint does to its datagrams: nothing; the channel  *)
(* is discarded; one is taken from the channel, into the batch or not; or  *)
(* the batch is handed up.                                                 *)
Quiet == UNCHANGED <<queue, batch, up>>
Cleared(e) == queue' = [queue EXCEPT ![e] = <<>>] /\ UNCHANGED <<batch, up>>
Taken(e) ==
  /\ queue[e] # <<>>
  /\ queue' = [queue EXCEPT ![e] = Tail(@)]
  /\ \/ batch' = batch
     \/ batch' = [batch EXCEPT ![e] = Append(@, Head(queue[e]))]
  /\ UNCHANGED up
Returned(e) ==
  /\ up' = [up EXCEPT ![e] = @ \o batch[e]]
  /\ batch' = [batch EXCEPT ![e] = <<>>]
  /\ UNCHANGED queue

LEMMA StepMoves ==
  ASSUME NEW e \in Eps, AdapterStep(e)
  PROVE  /\ call' = call
         /\ Quiet \/ Cleared(e) \/ Taken(e) \/ Returned(e)
  <1>1. CASE Bind(e)
    BY <1>1 DEF Bind, Quiet
  <1>2. CASE Discard(e)
    BY <1>2 DEF Discard, Cleared
  <1>3. CASE PollRecv(e)
    BY <1>3 DEF PollRecv, Quiet
  <1>4. CASE PollTake(e)
    BY <1>4 DEF PollTake, Taken
  <1>5. CASE PollFull(e)
    BY <1>5 DEF PollFull, ReturnBatch, Returned
  <1>6. CASE PollIdle(e)
    BY <1>6 DEF PollIdle, ReturnBatch, Returned
  <1> QED BY <1>1, <1>2, <1>3, <1>4, <1>5, <1>6 DEF AdapterStep

(* Every variable keeps its type in a step of an endpoint.                 *)
LEMMA StepTypes ==
  ASSUME AdapterTypeOK, NEW e \in Eps, AdapterStep(e)
  PROVE  AdapterTypeOK'
  <1> USE DEF AdapterTypeOK
  <1>1. CASE Bind(e)
    BY <1>1 DEF Bind, Life
  <1>2. CASE Discard(e)
    BY <1>2 DEF Discard, Life
  <1>3. CASE PollRecv(e)
    BY <1>3, AdapterAssumption DEF PollRecv
  <1>4. CASE PollTake(e)
    <2>1. queue' \in [Eps -> Seq(Inbound)] /\ batch' \in [Eps -> Seq(Inbound)]
      BY <1>4 DEF PollTake
    <2> QED BY <1>4, <2>1 DEF PollTake
  <1>5. CASE PollFull(e)
    <2>1. up' \in [Eps -> Seq(Inbound)]
      BY <1>5 DEF PollFull, ReturnBatch
    <2> QED BY <1>5, <2>1 DEF PollFull, ReturnBatch
  <1>6. CASE PollIdle(e)
    <2>1. up' \in [Eps -> Seq(Inbound)]
      BY <1>6 DEF PollIdle, ReturnBatch
    <2> QED BY <1>6, <2>1 DEF PollIdle, ReturnBatch
  <1> QED BY <1>1, <1>2, <1>3, <1>4, <1>5, <1>6 DEF AdapterStep

(* A push keeps every type.                                                *)
LEMMA EnqueueTypes ==
  ASSUME AdapterTypeOK, NEW e \in Eps, NEW m \in Inbound, Enqueue(e, m)
  PROVE  /\ queue' \in [Eps -> Seq(Inbound)]
         /\ waker' \in [Eps -> BOOLEAN] /\ woken' \in [Eps -> BOOLEAN]
         /\ UNCHANGED <<shut, slots, batch, up>>
  BY DEF AdapterTypeOK, Enqueue, Wake

(* What is in a sequence after it has grown or shrunk.                     *)
LEMMA DataOfAppend ==
  ASSUME NEW s \in Seq(Inbound), NEW m \in Inbound
  PROVE  /\ Data(Append(s, m)) = Data(s) \cup {m.data}
         /\ Distinct(s) /\ m.data \notin Data(s) => Distinct(Append(s, m))
         /\ \A e \in Eps : As(e, Append(s, m)) =
              As(e, s) \cup {[from |-> m.from, to |-> KeyOf[e], data |-> m.data]}
  <1> DEFINE r == Append(s, m)
  <1>1. /\ DOMAIN r = DOMAIN s \cup {Len(s) + 1} /\ DOMAIN s = 1..Len(s)
        /\ \A i \in DOMAIN s : r[i] = s[i]
        /\ r[Len(s) + 1] = m
    OBVIOUS
  <1>2. Len(s) + 1 \notin DOMAIN s
    OBVIOUS
  <1> HIDE DEF r
  <1>3. Data(r) = Data(s) \cup {m.data}
    BY <1>1, <1>2 DEF Data
  <1>4. Distinct(s) /\ m.data \notin Data(s) => Distinct(r)
    BY <1>1, <1>2 DEF Data, Distinct
  <1>5. ASSUME NEW e \in Eps
        PROVE  As(e, r) = As(e, s) \cup {[from |-> m.from, to |-> KeyOf[e], data |-> m.data]}
    BY <1>1, <1>2 DEF As
  <1> QED BY <1>3, <1>4, <1>5 DEF r

LEMMA DataOfTail ==
  ASSUME NEW s \in Seq(Inbound), s # <<>>
  PROVE  /\ Head(s) \in Inbound /\ Tail(s) \in Seq(Inbound)
         /\ Data(s) = Data(Tail(s)) \cup {Head(s).data}
         /\ Distinct(s) => Head(s).data \notin Data(Tail(s)) /\ Distinct(Tail(s))
         /\ \A e \in Eps : As(e, s) = As(e, Tail(s)) \cup
              {[from |-> Head(s).from, to |-> KeyOf[e], data |-> Head(s).data]}
  <1> DEFINE r == Tail(s)
  <1>1. /\ Len(s) \in Nat \ {0} /\ DOMAIN s = 1..Len(s) /\ DOMAIN r = 1..(Len(s) - 1)
        /\ \A i \in DOMAIN r : r[i] = s[i + 1]
        /\ Head(s) = s[1] /\ Head(s) \in Inbound /\ r \in Seq(Inbound)
    OBVIOUS
  <1> HIDE DEF r
  <1>2. \A j \in DOMAIN s : j = 1 \/ (j - 1 \in DOMAIN r /\ r[j - 1] = s[j])
    BY <1>1
  <1>3. \A i \in DOMAIN r : i + 1 \in DOMAIN s /\ i + 1 # 1 /\ r[i] = s[i + 1]
    BY <1>1
  <1>4. 1 \in DOMAIN s
    BY <1>1
  <1>5. Data(s) = Data(r) \cup {Head(s).data}
    <2>1. Data(s) \subseteq Data(r) \cup {Head(s).data}
      BY <1>1, <1>2 DEF Data
    <2>2. Data(r) \subseteq Data(s) /\ Head(s).data \in Data(s)
      BY <1>1, <1>3, <1>4 DEF Data
    <2> QED BY <2>1, <2>2
  <1>6. ASSUME Distinct(s)
        PROVE  Head(s).data \notin Data(r) /\ Distinct(r)
    <2>1. Head(s).data \notin Data(r)
      BY <1>1, <1>3, <1>4, <1>6 DEF Data, Distinct
    <2>2. ASSUME NEW i \in DOMAIN r, NEW j \in DOMAIN r, r[i].data = r[j].data
          PROVE  i = j
      <3>1. i + 1 = j + 1
        BY <1>3, <1>6, <2>2 DEF Distinct
      <3> QED BY <1>1, <3>1
    <2> QED BY <2>1, <2>2 DEF Distinct
  <1>7. ASSUME NEW e \in Eps
        PROVE  As(e, s) = As(e, r) \cup
                 {[from |-> Head(s).from, to |-> KeyOf[e], data |-> Head(s).data]}
    <2> DEFINE h == [from |-> Head(s).from, to |-> KeyOf[e], data |-> Head(s).data]
    <2>1. As(e, s) \subseteq As(e, r) \cup {h}
      BY <1>1, <1>2 DEF As
    <2>2. As(e, r) \subseteq As(e, s) /\ h \in As(e, s)
      BY <1>1, <1>3, <1>4 DEF As
    <2> QED BY <2>1, <2>2
  <1> QED BY <1>1, <1>5, <1>6, <1>7 DEF r

(* Where the elements of a concatenation come from.                        *)
LEMMA ConcatAt ==
  ASSUME NEW s \in Seq(Inbound), NEW r \in Seq(Inbound)
  PROVE  /\ s \o r \in Seq(Inbound)
         /\ Len(s) \in Nat /\ DOMAIN s = 1..Len(s)
         /\ \A i \in DOMAIN s : i \in DOMAIN (s \o r) /\ (s \o r)[i] = s[i]
         /\ \A i \in DOMAIN r : i + Len(s) \in DOMAIN (s \o r) /\ (s \o r)[i + Len(s)] = r[i]
         /\ \A i \in DOMAIN (s \o r) :
              i \in DOMAIN s \/ (i > Len(s) /\ i - Len(s) \in DOMAIN r /\ (s \o r)[i] = r[i - Len(s)])
  <1> DEFINE q == s \o r
  <1>1. /\ DOMAIN s = 1..Len(s) /\ DOMAIN r = 1..Len(r) /\ Len(s) \in Nat /\ Len(r) \in Nat
        /\ DOMAIN q = 1..(Len(s) + Len(r)) /\ q \in Seq(Inbound)
        /\ \A i \in DOMAIN q : q[i] = IF i <= Len(s) THEN s[i] ELSE r[i - Len(s)]
    OBVIOUS
  <1> HIDE DEF q
  <1>2. \A i \in DOMAIN s : i \in DOMAIN q /\ q[i] = s[i]
    BY <1>1
  <1>3. \A i \in DOMAIN r : i + Len(s) \in DOMAIN q /\ q[i + Len(s)] = r[i]
    <2> TAKE i \in DOMAIN r
    <2>1. i \in Nat /\ i >= 1 /\ i <= Len(r)
      BY <1>1
    <2>2. i + Len(s) \in DOMAIN q /\ ~(i + Len(s) <= Len(s)) /\ (i + Len(s)) - Len(s) = i
      BY <1>1, <2>1
    <2> QED BY <1>1, <2>2
  <1>4. \A i \in DOMAIN q :
          i \in DOMAIN s \/ (i > Len(s) /\ i - Len(s) \in DOMAIN r /\ q[i] = r[i - Len(s)])
    <2> TAKE i \in DOMAIN q
    <2>1. CASE i <= Len(s)
      BY <1>1, <2>1
    <2>2. CASE ~(i <= Len(s))
      <3>1. i - Len(s) \in DOMAIN r /\ i > Len(s)
        BY <1>1, <2>2
      <3>2. q[i] = r[i - Len(s)]
        BY <1>1, <2>2
      <3> QED BY <3>1, <3>2
    <2> QED BY <2>1, <2>2
  <1> QED BY <1>1, <1>2, <1>3, <1>4 DEF q

LEMMA AsOfConcat ==
  ASSUME NEW s \in Seq(Inbound), NEW r \in Seq(Inbound), NEW e \in Eps
  PROVE  As(e, s \o r) = As(e, s) \cup As(e, r)
  <1> DEFINE q == s \o r
  <1>1. /\ \A i \in DOMAIN s : i \in DOMAIN q /\ q[i] = s[i]
        /\ \A i \in DOMAIN r : i + Len(s) \in DOMAIN q /\ q[i + Len(s)] = r[i]
        /\ \A i \in DOMAIN q : i \in DOMAIN s \/ (i - Len(s) \in DOMAIN r /\ q[i] = r[i - Len(s)])
    BY ConcatAt
  <1> HIDE DEF q
  <1>2. As(e, q) \subseteq As(e, s) \cup As(e, r)
    BY <1>1 DEF As
  <1>3. As(e, s) \subseteq As(e, q) /\ As(e, r) \subseteq As(e, q)
    BY <1>1 DEF As
  <1> QED BY <1>2, <1>3 DEF q

LEMMA EmptyData ==
  Data(<<>>) = {} /\ Distinct(<<>>) /\ \A e \in Eps : As(e, <<>>) = {}
  BY DEF Data, Distinct, As

-----------------------------------------------------------------------------
(* No datagram is in two places.  The places are L, what the carrier has   *)
(* under way to each endpoint, Q, the channels, and B, the batches.        *)

Disjoint(X, Y) == \A c \in X : c \notin Y

Apart(L, Q, B) ==
  /\ \A e \in Eps : Distinct(Q[e])
  /\ \A e, f \in Eps : /\ Disjoint(Data(B[e]), Data(Q[f]))
                       /\ Disjoint(L[e], Data(B[f]))
                       /\ Disjoint(L[e], Data(Q[f]))
  /\ \A e, f \in Eps : e # f => /\ Disjoint(L[e], L[f])
                                /\ Disjoint(Data(Q[e]), Data(Q[f]))
                                /\ Disjoint(Data(B[e]), Data(B[f]))

(* Datagrams X of e move from its channel to its batch; some are lost.     *)
LEMMA MoveApart ==
  ASSUME NEW L, NEW Q, NEW B, NEW Q2, NEW B2, Apart(L, Q, B),
         NEW e \in Eps, NEW X, X \subseteq Data(Q[e]), Disjoint(X, Data(Q2[e])),
         \A f \in Eps : /\ Data(Q2[f]) \subseteq Data(Q[f]) /\ Distinct(Q2[f])
                        /\ Data(B2[f]) \subseteq Data(B[f]) \cup (IF f = e THEN X ELSE {})
  PROVE  Apart(L, Q2, B2)
  <1>1. \A f \in Eps : \A c : /\ c \in Data(Q2[f]) => c \in Data(Q[f])
                              /\ c \in Data(B2[f]) => c \in Data(B[f]) \/ (f = e /\ c \in X)
                              /\ c \in X => c \in Data(Q[e]) /\ c \notin Data(Q2[e])
    BY DEF Disjoint
  <1>2. \A f \in Eps : Distinct(Q2[f])
    OBVIOUS
  <1>3. ASSUME NEW f \in Eps, NEW g \in Eps
        PROVE  /\ Disjoint(Data(B2[f]), Data(Q2[g]))
               /\ Disjoint(L[f], Data(B2[g]))
               /\ Disjoint(L[f], Data(Q2[g]))
    BY <1>1 DEF Apart, Disjoint
  <1>4. ASSUME NEW f \in Eps, NEW g \in Eps, f # g
        PROVE  /\ Disjoint(L[f], L[g])
               /\ Disjoint(Data(Q2[f]), Data(Q2[g]))
               /\ Disjoint(Data(B2[f]), Data(B2[g]))
    BY <1>1, <1>4 DEF Apart, Disjoint
  <1> QED BY <1>2, <1>3, <1>4 DEF Apart

(* One datagram arrives: it goes from the carrier to the channel.          *)
LEMMA ArriveApart ==
  ASSUME NEW L, NEW Q, NEW B, NEW L2, NEW Q2, Apart(L, Q, B), NEW e \in Eps, NEW d,
         \A f \in Eps : /\ Data(Q2[f]) \subseteq Data(Q[f]) \cup (IF f = e THEN {d} ELSE {})
                        /\ Distinct(Q2[f])
                        /\ L2[f] \subseteq L[f] /\ d \notin L2[f]
                        /\ d \notin Data(Q[f]) /\ d \notin Data(B[f])
  PROVE  Apart(L2, Q2, B)
  <1>1. \A f \in Eps : \A c : /\ c \in Data(Q2[f]) => c \in Data(Q[f]) \/ (f = e /\ c = d)
                              /\ c \in L2[f] => c \in L[f] /\ c # d
    OBVIOUS
  <1>2. ASSUME NEW f \in Eps, NEW g \in Eps
        PROVE  /\ Disjoint(Data(B[f]), Data(Q2[g]))
               /\ Disjoint(L2[f], Data(B[g]))
               /\ Disjoint(L2[f], Data(Q2[g]))
    BY <1>1 DEF Apart, Disjoint
  <1>3. ASSUME NEW f \in Eps, NEW g \in Eps, f # g
        PROVE  /\ Disjoint(L2[f], L2[g])
               /\ Disjoint(Data(Q2[f]), Data(Q2[g]))
               /\ Disjoint(Data(B[f]), Data(B[g]))
    BY <1>1, <1>3 DEF Apart, Disjoint
  <1> QED BY <1>2, <1>3 DEF Apart

(* A push into the channel of e, seen as above.                            *)
LEMMA EnqueueData ==
  ASSUME AdapterTypeOK, NEW e \in Eps, NEW m \in Inbound, Enqueue(e, m),
         \A f \in Eps : Distinct(queue[f]),
         m.data \notin Data(queue[e])
  PROVE  /\ \A f \in Eps :
              /\ Data(queue'[f]) = Data(queue[f]) \cup (IF f = e THEN {m.data} ELSE {})
              /\ Distinct(queue'[f])
         /\ UNCHANGED <<batch, up>>
  <1>1. /\ \A f \in Eps : queue'[f] = IF f = e THEN Append(queue[e], m) ELSE queue[f]
        /\ UNCHANGED <<batch, up>> /\ queue[e] \in Seq(Inbound)
    BY DEF Enqueue, AdapterTypeOK
  <1>2. Data(Append(queue[e], m)) = Data(queue[e]) \cup {m.data} /\ Distinct(Append(queue[e], m))
    BY <1>1, DataOfAppend
  <1> QED BY <1>1, <1>2

(* The carrier takes a datagram in, or loses some.                         *)
LEMMA EnterApart ==
  ASSUME NEW L, NEW Q, NEW B, NEW L2, Apart(L, Q, B), NEW e \in Eps, NEW X,
         \A f \in Eps : /\ L2[f] \subseteq L[f] \cup (IF f = e THEN X ELSE {})
                        /\ Disjoint(X, L[f])
                        /\ Disjoint(X, Data(Q[f])) /\ Disjoint(X, Data(B[f]))
  PROVE  Apart(L2, Q, B)
  BY DEF Apart, Disjoint

(* A step of an endpoint keeps datagrams apart, whatever the carrier has.  *)
LEMMA StepApart ==
  ASSUME AdapterTypeOK, NEW L, Apart(L, queue, batch), NEW e \in Eps, AdapterStep(e)
  PROVE  Apart(L, queue', batch')
  <1> DEFINE Goal == Apart(L, queue', batch')
  <1>1. CASE Quiet
    BY <1>1 DEF Quiet
  <1>2. CASE Cleared(e)
    <2>1. \A f \in Eps : queue'[f] = IF f = e THEN <<>> ELSE queue[f]
      BY <1>2 DEF Cleared, AdapterTypeOK
    <2>2. \A f \in Eps : Data(queue'[f]) \subseteq Data(queue[f]) /\ Distinct(queue'[f])
      BY <2>1, EmptyData DEF Apart
    <2>3. batch' = batch /\ Disjoint({}, Data(queue'[e]))
      BY <1>2 DEF Cleared, Disjoint
    <2> QED BY <2>2, <2>3, MoveApart
  <1>3. CASE Taken(e)
    <2> DEFINE h == Head(queue[e])
    <2>1. queue[e] \in Seq(Inbound) /\ batch[e] \in Seq(Inbound) /\ queue[e] # <<>>
      BY <1>3 DEF Taken, AdapterTypeOK
    <2>2. /\ \A f \in Eps : queue'[f] = IF f = e THEN Tail(queue[e]) ELSE queue[f]
          /\ \A f \in Eps : \/ batch'[f] = batch[f]
                            \/ f = e /\ batch'[f] = Append(batch[e], h)
      BY <1>3 DEF Taken, AdapterTypeOK
    <2>3. /\ h \in Inbound
          /\ Data(queue[e]) = Data(Tail(queue[e])) \cup {h.data}
          /\ h.data \notin Data(Tail(queue[e])) /\ Distinct(Tail(queue[e]))
      BY <2>1, DataOfTail DEF Apart
    <2>4. Data(Append(batch[e], h)) = Data(batch[e]) \cup {h.data}
      BY <2>1, <2>3, DataOfAppend
    <2> HIDE DEF h
    <2>5. \A f \in Eps : Data(queue'[f]) \subseteq Data(queue[f]) /\ Distinct(queue'[f])
      BY <2>2, <2>3 DEF Apart
    <2>6. \A f \in Eps : Data(batch'[f]) \subseteq
                           Data(batch[f]) \cup (IF f = e THEN {h.data} ELSE {})
      BY <2>2, <2>4
    <2>7. {h.data} \subseteq Data(queue[e]) /\ Disjoint({h.data}, Data(queue'[e]))
      BY <2>2, <2>3 DEF Disjoint
    <2> QED BY <2>5, <2>6, <2>7, MoveApart
  <1>4. CASE Returned(e)
    <2>1. \A f \in Eps : batch'[f] = IF f = e THEN <<>> ELSE batch[f]
      BY <1>4 DEF Returned, AdapterTypeOK
    <2>2. \A f \in Eps : Data(batch'[f]) \subseteq Data(batch[f])
      BY <2>1, EmptyData
    <2>3. \A f \in Eps : Data(queue'[f]) = Data(queue[f]) /\ Distinct(queue'[f])
      BY <1>4 DEF Returned, Apart
    <2>4. Disjoint({}, Data(queue'[e]))
      BY DEF Disjoint
    <2> QED BY <2>2, <2>3, <2>4, MoveApart
  <1> QED BY <1>1, <1>2, <1>3, <1>4, StepMoves

-----------------------------------------------------------------------------
(* What the seam sees of the receive side.                                 *)

(* The wire, if W is what the carrier has under way to each endpoint.      *)
WireOf(W, Q, B) == UNION {W[e] \cup As(e, Q[e]) \cup As(e, B[e]) : e \in Eps}
Got == [e \in Eps |-> As(e, up[e])]

LEMMA WireMembers ==
  ASSUME NEW W, NEW Q, NEW B, NEW m
  PROVE  m \in WireOf(W, Q, B)
           <=> \E e \in Eps : m \in W[e] \/ m \in As(e, Q[e]) \/ m \in As(e, B[e])
  BY DEF WireOf

LEMMA AsData ==
  ASSUME NEW e \in Eps, NEW s, NEW m \in As(e, s)
  PROVE  m.data \in Data(s) /\ m.to = KeyOf[e]
  BY DEF As, Data

(* A step of an endpoint loses something, or hands a batch up that was on  *)
(* the wire and is not any more: nothing that is left has its contents.    *)
LEMMA StepAsSeam ==
  ASSUME AdapterTypeOK, NEW L, Apart(L, queue, batch),
         NEW W, \A f \in Eps : \A m \in W[f] : m.data \in L[f],
         NEW e \in Eps, AdapterStep(e)
  PROVE  \/ /\ WireOf(W, queue', batch') \subseteq WireOf(W, queue, batch)
            /\ Got' = Got
         \/ /\ WireOf(W, queue', batch') = WireOf(W, queue, batch) \ As(e, batch[e])
            /\ Got' = [Got EXCEPT ![e] = @ \cup As(e, batch[e])]
  <1>1. CASE Quiet
    <2>1. Got' = Got
      BY <1>1 DEF Quiet, Got
    <2> QED BY <1>1, <2>1 DEF Quiet
  <1>2. CASE Cleared(e)
    <2>1. \A f \in Eps : queue'[f] = IF f = e THEN <<>> ELSE queue[f]
      BY <1>2 DEF Cleared, AdapterTypeOK
    <2>2. \A f \in Eps : As(f, queue'[f]) \subseteq As(f, queue[f])
      BY <2>1, EmptyData
    <2>3. WireOf(W, queue', batch') \subseteq WireOf(W, queue, batch)
      BY <1>2, <2>2, WireMembers DEF Cleared
    <2> QED BY <1>2, <2>3 DEF Cleared, Got
  <1>3. CASE Taken(e)
    <2> DEFINE h == Head(queue[e])
               m == [from |-> h.from, to |-> KeyOf[e], data |-> h.data]
    <2>1. queue[e] \in Seq(Inbound) /\ batch[e] \in Seq(Inbound) /\ queue[e] # <<>>
      BY <1>3 DEF Taken, AdapterTypeOK
    <2>2. /\ \A f \in Eps : queue'[f] = IF f = e THEN Tail(queue[e]) ELSE queue[f]
          /\ \A f \in Eps : \/ batch'[f] = batch[f]
                            \/ f = e /\ batch'[f] = Append(batch[e], h)
      BY <1>3 DEF Taken, AdapterTypeOK
    <2>3. As(e, queue[e]) = As(e, Tail(queue[e])) \cup {m} /\ h \in Inbound
      BY <2>1, DataOfTail
    <2>4. As(e, Append(batch[e], h)) = As(e, batch[e]) \cup {m}
      BY <2>1, <2>3, DataOfAppend
    <2> HIDE DEF h, m
    <2>5. \A f \in Eps : /\ As(f, queue'[f]) \subseteq As(f, queue[f])
                         /\ As(f, batch'[f]) \subseteq As(f, batch[f]) \cup As(f, queue[f])
      BY <2>2, <2>3, <2>4
    <2>6. WireOf(W, queue', batch') \subseteq WireOf(W, queue, batch)
      BY <2>5, WireMembers
    <2> QED BY <1>3, <2>6 DEF Taken, Got
  <1>4. CASE Returned(e)
    <2> DEFINE S == As(e, batch[e])
    <2>1. /\ \A f \in Eps : batch'[f] = IF f = e THEN <<>> ELSE batch[f]
          /\ \A f \in Eps : up'[f] = IF f = e THEN up[e] \o batch[e] ELSE up[f]
          /\ queue' = queue
      BY <1>4 DEF Returned, AdapterTypeOK
    <2>2. As(e, up[e] \o batch[e]) = As(e, up[e]) \cup S
      BY AsOfConcat DEF AdapterTypeOK
    <2>3. Got' = [Got EXCEPT ![e] = @ \cup S]
      BY <2>1, <2>2 DEF Got
    <2>4. ASSUME NEW m \in S, NEW f \in Eps
          PROVE  m \notin W[f] /\ m \notin As(f, queue[f]) /\ (f # e => m \notin As(f, batch[f]))
      <3>1. m.data \in Data(batch[e])
        BY <2>4, AsData
      <3>2. m.data \notin Data(queue[f]) /\ m.data \notin L[f]
              /\ (f # e => m.data \notin Data(batch[f]))
        BY <3>1 DEF Apart, Disjoint
      <3> QED BY <3>2, AsData
    <2>5. ASSUME NEW m PROVE m \in WireOf(W, queue', batch')
                               <=> m \in WireOf(W, queue, batch) /\ m \notin S
      <3>1. \A f \in Eps : m \in As(f, batch'[f]) <=> f # e /\ m \in As(f, batch[f])
        BY <2>1, EmptyData
      <3> QED BY <2>1, <2>4, <3>1, WireMembers
    <2>6. WireOf(W, queue', batch') = WireOf(W, queue, batch) \ S
      BY <2>5
    <2> QED BY <2>3, <2>6
  <1> QED BY <1>1, <1>2, <1>3, <1>4, StepMoves

(* A push adds what it is given to the wire.                               *)
LEMMA EnqueueAsSeam ==
  ASSUME AdapterTypeOK, NEW W, NEW e \in Eps, NEW m \in Inbound, Enqueue(e, m)
  PROVE  /\ WireOf(W, queue', batch') = WireOf(W, queue, batch) \cup
              {[from |-> m.from, to |-> KeyOf[e], data |-> m.data]}
         /\ Got' = Got
  <1> DEFINE d == [from |-> m.from, to |-> KeyOf[e], data |-> m.data]
  <1>1. /\ \A f \in Eps : queue'[f] = IF f = e THEN Append(queue[e], m) ELSE queue[f]
        /\ batch' = batch /\ up' = up
    BY DEF Enqueue, AdapterTypeOK
  <1>2. As(e, Append(queue[e], m)) = As(e, queue[e]) \cup {d}
    BY DataOfAppend DEF AdapterTypeOK
  <1> HIDE DEF d
  <1>3. \A f \in Eps : As(f, queue'[f]) = As(f, queue[f]) \cup (IF f = e THEN {d} ELSE {})
    BY <1>1, <1>2
  <1>4. WireOf(W, queue', batch') = WireOf(W, queue, batch) \cup {d}
    BY <1>1, <1>3, WireMembers
  <1> QED BY <1>1, <1>4 DEF Got, d

-----------------------------------------------------------------------------
(* Everything that is under way was passed on by a poll_send, so what is   *)
(* passed on next is new.                                                  *)

AllPassed(L, Q, B) ==
  \A e \in Eps : \A c \in L[e] \cup Data(Q[e]) \cup Data(B[e]) : c \in Segment /\ Passed(c)

LEMMA PassedStays ==
  ASSUME AdapterTypeOK, CallInv, NEW t \in Transmits, Sending(t), Advance(t),
         NEW c \in Segment, Passed(c)
  PROVE  Passed(c)' /\ c # NextInbound(t).data
  <1>1. /\ c.tx \in Transmits /\ c.lo \in Nat /\ c.hi \in Nat
        /\ call[c.tx].sent \in Nat /\ call[t].sent \in Nat
    BY DEF Segment, AdapterTypeOK
  <1>2. /\ NextEnd(t) \in (call[t].sent + 1)..Length[t] /\ Length[t] \in Nat
        /\ call' = [call EXCEPT ![t].sent = NextEnd(t)]
    BY AdvanceCuts, AdapterAssumption
  <1>3. call'[c.tx].sent = IF c.tx = t THEN NextEnd(t) ELSE call[c.tx].sent
    BY <1>1, <1>2 DEF AdapterTypeOK
  <1>4. call[c.tx].sent <= call'[c.tx].sent /\ call'[c.tx].sent \in Nat
    BY <1>1, <1>2, <1>3
  <1>5. Passed(c)'
    BY <1>1, <1>4 DEF Passed
  <1>6. ASSUME c = NextInbound(t).data PROVE FALSE
    <2>1. c.tx = t /\ c.lo = call[t].sent + 1
      BY <1>6 DEF NextInbound
    <2> QED BY <1>1, <2>1 DEF Passed
  <1> QED BY <1>5, <1>6

(* What poll_send passes on is nowhere yet, and what was under way before  *)
(* stays passed on.                                                        *)
LEMMA SendFresh ==
  ASSUME AdapterTypeOK, CallInv, NEW t \in Transmits, Sending(t), Advance(t),
         NEW L, NEW Q, NEW B, AllPassed(L, Q, B)
  PROVE  /\ \A f \in Eps : /\ NextInbound(t).data \notin L[f]
                           /\ NextInbound(t).data \notin Data(Q[f])
                           /\ NextInbound(t).data \notin Data(B[f])
         /\ \A f \in Eps : \A c \in L[f] \cup Data(Q[f]) \cup Data(B[f]) :
              c \in Segment /\ Passed(c)'
         /\ \A c \in {NextInbound(t).data} : c \in Segment /\ Passed(c)'
  <1>1. ASSUME NEW f \in Eps, NEW c \in L[f] \cup Data(Q[f]) \cup Data(B[f])
        PROVE  c \in Segment /\ Passed(c)' /\ c # NextInbound(t).data
    <2>1. c \in Segment /\ Passed(c)
      BY <1>1 DEF AllPassed
    <2> QED BY <2>1, PassedStays
  <1>2. NextInbound(t).data \in Segment
    BY InboundType DEF Inbound
  <1>3. \A c \in {NextInbound(t).data} : Passed(c)'
    BY AdvanceCuts
  <1> QED BY <1>1, <1>2, <1>3 DEF AllPassed

(* An endpoint's step brings nothing from outside into its channel.        *)
LEMMA StepPassed ==
  ASSUME AdapterTypeOK, NEW L, AllPassed(L, queue, batch), NEW e \in Eps, AdapterStep(e)
  PROVE  \A f \in Eps : \A c \in L[f] \cup Data(queue'[f]) \cup Data(batch'[f]) :
            c \in Segment /\ Passed(c)'
  <1>0. call' = call
    BY StepMoves
  <1>1. \A f \in Eps : /\ Data(queue'[f]) \subseteq Data(queue[f])
                       /\ Data(batch'[f]) \subseteq Data(batch[f]) \cup Data(queue[f])
    <2>1. CASE Quiet
      BY <2>1 DEF Quiet
    <2>2. CASE Cleared(e)
      <3>1. \A f \in Eps : queue'[f] = IF f = e THEN <<>> ELSE queue[f]
        BY <2>2 DEF Cleared, AdapterTypeOK
      <3> QED BY <2>2, <3>1, EmptyData DEF Cleared
    <2>3. CASE Taken(e)
      <3> DEFINE h == Head(queue[e])
      <3>1. queue[e] \in Seq(Inbound) /\ batch[e] \in Seq(Inbound) /\ queue[e] # <<>>
        BY <2>3 DEF Taken, AdapterTypeOK
      <3>2. /\ \A f \in Eps : queue'[f] = IF f = e THEN Tail(queue[e]) ELSE queue[f]
            /\ \A f \in Eps : \/ batch'[f] = batch[f]
                              \/ f = e /\ batch'[f] = Append(batch[e], h)
        BY <2>3 DEF Taken, AdapterTypeOK
      <3>3. Data(queue[e]) = Data(Tail(queue[e])) \cup {h.data} /\ h \in Inbound
        BY <3>1, DataOfTail
      <3>4. Data(Append(batch[e], h)) = Data(batch[e]) \cup {h.data}
        BY <3>1, <3>3, DataOfAppend
      <3> HIDE DEF h
      <3> QED BY <3>2, <3>3, <3>4
    <2>4. CASE Returned(e)
      <3>1. \A f \in Eps : batch'[f] = IF f = e THEN <<>> ELSE batch[f]
        BY <2>4 DEF Returned, AdapterTypeOK
      <3> QED BY <2>4, <3>1, EmptyData DEF Returned
    <2> QED BY <2>1, <2>2, <2>3, <2>4, StepMoves
  <1> QED BY <1>0, <1>1 DEF AllPassed, Passed

-----------------------------------------------------------------------------
(* Order.                                                                  *)

(* Bytes of different transmits come in any order.                         *)
Earlier(c, d) == c.tx = d.tx => c.hi < d.lo
InOrder(s) == \A i, j \in DOMAIN s : i < j => Earlier(s[i].data, s[j].data)
Precedes(r, s) == \A c \in Data(r), d \in Data(s) : Earlier(c, d)

(* The pipeline of an endpoint, part by part.                              *)
PartsInOrder(u, b, q) ==
  /\ InOrder(u) /\ InOrder(b) /\ InOrder(q)
  /\ Precedes(u, b) /\ Precedes(u, q) /\ Precedes(b, q)

LEMMA OrderOfAppend ==
  ASSUME NEW s \in Seq(Inbound), NEW m \in Inbound, InOrder(s),
         \A c \in Data(s) : Earlier(c, m.data)
  PROVE  InOrder(Append(s, m))
  <1> DEFINE r == Append(s, m)
  <1>1. /\ DOMAIN r = 1..(Len(s) + 1) /\ DOMAIN s = 1..Len(s) /\ Len(s) \in Nat
        /\ \A i \in DOMAIN s : r[i] = s[i]
        /\ r[Len(s) + 1] = m
    OBVIOUS
  <1>2. \A i \in DOMAIN s : s[i].data \in Data(s)
    BY DEF Data
  <1> HIDE DEF r
  <1>3. ASSUME NEW i \in DOMAIN r, NEW j \in DOMAIN r, i < j
        PROVE  Earlier(r[i].data, r[j].data)
    <2>1. i \in DOMAIN s
      BY <1>1, <1>3
    <2>2. CASE j \in DOMAIN s
      BY <1>1, <1>3, <2>1, <2>2 DEF InOrder
    <2>3. CASE j = Len(s) + 1
      BY <1>1, <1>2, <2>1, <2>3
    <2> QED BY <1>1, <1>3, <2>2, <2>3
  <1> QED BY <1>3 DEF InOrder, r

LEMMA OrderOfTail ==
  ASSUME NEW s \in Seq(Inbound), s # <<>>, InOrder(s)
  PROVE  /\ InOrder(Tail(s))
         /\ \A d \in Data(Tail(s)) : Earlier(Head(s).data, d)
  <1> DEFINE r == Tail(s)
  <1>1. /\ Len(s) \in Nat \ {0} /\ DOMAIN s = 1..Len(s) /\ DOMAIN r = 1..(Len(s) - 1)
        /\ \A i \in DOMAIN r : r[i] = s[i + 1]
        /\ Head(s) = s[1]
    OBVIOUS
  <1> HIDE DEF r
  <1>2. \A i \in DOMAIN r : i + 1 \in DOMAIN s /\ 1 < i + 1 /\ r[i] = s[i + 1]
    BY <1>1
  <1>3. 1 \in DOMAIN s
    BY <1>1
  <1>4. ASSUME NEW i \in DOMAIN r, NEW j \in DOMAIN r, i < j
        PROVE  Earlier(r[i].data, r[j].data)
    <2>1. i + 1 < j + 1
      BY <1>1, <1>4
    <2> QED BY <1>2, <2>1 DEF InOrder
  <1>5. \A i \in DOMAIN r : Earlier(Head(s).data, r[i].data)
    BY <1>1, <1>2, <1>3 DEF InOrder
  <1>6. \A d \in Data(r) : Earlier(Head(s).data, d)
    BY <1>5 DEF Data
  <1> QED BY <1>4, <1>6 DEF InOrder, r

LEMMA OrderOfConcat ==
  ASSUME NEW s \in Seq(Inbound), NEW r \in Seq(Inbound)
  PROVE  /\ Data(s \o r) = Data(s) \cup Data(r)
         /\ InOrder(s) /\ InOrder(r) /\ Precedes(s, r) => InOrder(s \o r)
  <1> DEFINE q == s \o r
  <1>1. /\ Len(s) \in Nat /\ DOMAIN s = 1..Len(s)
        /\ \A i \in DOMAIN s : i \in DOMAIN q /\ q[i] = s[i]
        /\ \A i \in DOMAIN r : i + Len(s) \in DOMAIN q /\ q[i + Len(s)] = r[i]
        /\ \A i \in DOMAIN q :
             i \in DOMAIN s \/ (i > Len(s) /\ i - Len(s) \in DOMAIN r /\ q[i] = r[i - Len(s)])
        /\ DOMAIN q \subseteq Nat
    BY ConcatAt
  <1> HIDE DEF q
  <1>2. Data(q) \subseteq Data(s) \cup Data(r)
    BY <1>1 DEF Data
  <1>3. Data(s) \subseteq Data(q)
    BY <1>1 DEF Data
  <1>4. Data(r) \subseteq Data(q)
    BY <1>1 DEF Data
  <1>5. ASSUME InOrder(s), InOrder(r), Precedes(s, r),
               NEW i \in DOMAIN q, NEW j \in DOMAIN q, i < j
        PROVE  Earlier(q[i].data, q[j].data)
    <2>1. CASE j \in DOMAIN s
      <3>1. i \in DOMAIN s
        BY <1>1, <1>5, <2>1
      <3> QED BY <1>1, <1>5, <2>1, <3>1 DEF InOrder
    <2>2. CASE i \in DOMAIN s /\ j \notin DOMAIN s
      <3>1. q[i].data \in Data(s) /\ q[j].data \in Data(r)
        BY <1>1, <2>2 DEF Data
      <3> QED BY <1>5, <3>1 DEF Precedes
    <2>3. CASE i \notin DOMAIN s /\ j \notin DOMAIN s
      <3>1. i - Len(s) \in DOMAIN r /\ j - Len(s) \in DOMAIN r /\ i - Len(s) < j - Len(s)
        BY <1>1, <1>5, <2>3
      <3>2. q[i] = r[i - Len(s)] /\ q[j] = r[j - Len(s)]
        BY <1>1, <2>3
      <3> QED BY <1>5, <3>1, <3>2 DEF InOrder
    <2> QED BY <2>1, <2>2, <2>3, <1>1, <1>5
  <1>6. InOrder(s) /\ InOrder(r) /\ Precedes(s, r) => InOrder(q)
    BY <1>5 DEF InOrder
  <1> QED BY <1>2, <1>3, <1>4, <1>6 DEF q

(* Nothing is handed up that was not passed on.                            *)
UpPassed == \A e \in Eps : \A c \in Data(up[e]) : c \in Segment /\ Passed(c)

LEMMA StepUpPassed ==
  ASSUME AdapterTypeOK, UpPassed, NEW e \in Eps, AdapterStep(e),
         \A c \in Data(batch[e]) : c \in Segment /\ Passed(c)
  PROVE  UpPassed'
  <1>0. call' = call
    BY StepMoves
  <1>1. CASE up' = up
    BY <1>0, <1>1 DEF UpPassed, Passed
  <1>2. CASE Returned(e)
    <2>1. \A f \in Eps : up'[f] = IF f = e THEN up[e] \o batch[e] ELSE up[f]
      BY <1>2 DEF Returned, AdapterTypeOK
    <2>2. Data(up[e] \o batch[e]) = Data(up[e]) \cup Data(batch[e])
      BY OrderOfConcat DEF AdapterTypeOK
    <2>3. \A f \in Eps : \A c \in Data(up'[f]) : c \in Segment /\ Passed(c)
      BY <2>1, <2>2 DEF UpPassed
    <2> QED BY <1>0, <2>3 DEF UpPassed, Passed
  <1> QED BY <1>1, <1>2, StepMoves DEF Quiet, Cleared, Taken

(* In the steps of an endpoint no datagram is overtaken between the        *)
(* channel and iroh, whatever is skipped.                                  *)
LEMMA StepInOrder ==
  ASSUME AdapterTypeOK, NEW e \in Eps, AdapterStep(e), NEW f \in Eps,
         PartsInOrder(up[f], batch[f], queue[f])
  PROVE  PartsInOrder(up'[f], batch'[f], queue'[f])
  <1> DEFINE u == up[f]  b == batch[f]  q == queue[f]
             u2 == up'[f]  b2 == batch'[f]  q2 == queue'[f]
  <1>1. u \in Seq(Inbound) /\ b \in Seq(Inbound) /\ q \in Seq(Inbound)
    BY DEF AdapterTypeOK
  <1>2. PartsInOrder(u, b, q)
    OBVIOUS
  <1>3. \/ u2 = u /\ b2 = b /\ q2 = q
        \/ u2 = u /\ b2 = b /\ q2 = <<>>
        \/ u2 = u /\ b2 = b /\ q # <<>> /\ q2 = Tail(q)
        \/ u2 = u /\ b2 = Append(b, Head(q)) /\ q # <<>> /\ q2 = Tail(q)
        \/ u2 = u \o b /\ b2 = <<>> /\ q2 = q
    <2>1. CASE f # e
      BY <2>1, StepMoves DEF Quiet, Cleared, Taken, Returned, AdapterTypeOK
    <2>2. CASE f = e
      BY <2>2, StepMoves DEF Quiet, Cleared, Taken, Returned, AdapterTypeOK
    <2> QED BY <2>1, <2>2
  <1>4. InOrder(<<>>) /\ \A s : Precedes(s, <<>>) /\ Precedes(<<>>, s)
    BY EmptyData DEF InOrder, Precedes
  <1> SUFFICES PartsInOrder(u2, b2, q2)
    OBVIOUS
  <1> HIDE DEF u, b, q, u2, b2, q2
  <1> USE DEF PartsInOrder
  <1>5. CASE u2 = u /\ b2 = b /\ q2 = q
    BY <1>2, <1>5
  <1>6. CASE u2 = u /\ b2 = b /\ q2 = <<>>
    BY <1>2, <1>4, <1>6
  <1>7. ASSUME q # <<>>
        PROVE  /\ InOrder(Tail(q)) /\ Precedes(u, Tail(q)) /\ Precedes(b, Tail(q))
               /\ Head(q) \in Inbound /\ Head(q).data \in Data(q)
               /\ \A d \in Data(Tail(q)) : Earlier(Head(q).data, d)
    <2>1. Data(q) = Data(Tail(q)) \cup {Head(q).data} /\ Head(q) \in Inbound
      BY <1>1, <1>7, DataOfTail
    <2>2. InOrder(Tail(q)) /\ \A d \in Data(Tail(q)) : Earlier(Head(q).data, d)
      BY <1>1, <1>2, <1>7, OrderOfTail
    <2> QED BY <1>2, <2>1, <2>2 DEF Precedes
  <1>8. CASE u2 = u /\ b2 = b /\ q # <<>> /\ q2 = Tail(q)
    BY <1>2, <1>7, <1>8
  <1>9. CASE u2 = u /\ b2 = Append(b, Head(q)) /\ q # <<>> /\ q2 = Tail(q)
    <2> DEFINE h == Head(q)
    <2>1. h \in Inbound /\ h.data \in Data(q)
      BY <1>7, <1>9
    <2>2. Data(b2) = Data(b) \cup {h.data}
      BY <1>1, <1>9, <2>1, DataOfAppend
    <2>3. \A c \in Data(b) : Earlier(c, h.data)
      BY <1>2, <2>1 DEF Precedes
    <2>4. \A c \in Data(u) : Earlier(c, h.data)
      BY <1>2, <2>1 DEF Precedes
    <2>5. InOrder(b2)
      BY <1>1, <1>2, <1>9, <2>1, <2>3, OrderOfAppend
    <2>6. Precedes(u2, b2)
      BY <1>2, <1>9, <2>2, <2>4 DEF Precedes
    <2>7. Precedes(b2, q2)
      BY <1>2, <1>7, <1>9, <2>2 DEF Precedes
    <2> QED BY <1>2, <1>7, <1>9, <2>5, <2>6, <2>7
  <1>10. CASE u2 = u \o b /\ b2 = <<>> /\ q2 = q
    <2>1. Data(u2) = Data(u) \cup Data(b) /\ InOrder(u2)
      BY <1>1, <1>2, <1>10, OrderOfConcat
    <2>2. Precedes(u2, q2)
      BY <1>2, <1>10, <2>1 DEF Precedes
    <2> QED BY <1>2, <1>4, <1>10, <2>1, <2>2
  <1> QED BY <1>3, <1>5, <1>6, <1>8, <1>9, <1>10

(* A push of what poll_send passes on comes after everything else.         *)
LEMMA EnqueueInOrder ==
  ASSUME AdapterTypeOK, CallInv, NEW t \in Transmits, Sending(t),
         NEW L, AllPassed(L, queue, batch), UpPassed,
         NEW e \in Eps, Enqueue(e, NextInbound(t)), NEW f \in Eps,
         PartsInOrder(up[f], batch[f], queue[f])
  PROVE  PartsInOrder(up'[f], batch'[f], queue'[f])
  <1> DEFINE m == NextInbound(t)
  <1>1. m \in Inbound /\ m.data.tx = t /\ m.data.lo = call[t].sent + 1
    BY InboundType DEF NextInbound
  <1>2. ASSUME NEW c \in Data(up[f]) \cup Data(batch[f]) \cup Data(queue[f])
        PROVE  Earlier(c, m.data)
    <2>1. c \in Segment /\ Passed(c)
      BY <1>2 DEF AllPassed, UpPassed
    <2>2. c.hi \in Nat /\ call[t].sent \in Nat
      BY <2>1 DEF Segment, AdapterTypeOK
    <2> QED BY <1>1, <2>1, <2>2 DEF Earlier, Passed
  <1>3. /\ queue'[f] = IF f = e THEN Append(queue[e], m) ELSE queue[f]
        /\ batch' = batch /\ up' = up /\ queue[f] \in Seq(Inbound)
    BY DEF Enqueue, AdapterTypeOK
  <1> HIDE DEF m
  <1>4. CASE f # e
    BY <1>3, <1>4
  <1>5. CASE f = e
    <2>1. Data(queue'[f]) = Data(queue[f]) \cup {m.data}
      BY <1>1, <1>3, <1>5, DataOfAppend
    <2>2. InOrder(queue'[f])
      BY <1>1, <1>2, <1>3, <1>5, OrderOfAppend DEF PartsInOrder
    <2>3. Precedes(up[f], queue'[f]) /\ Precedes(batch[f], queue'[f])
      BY <1>2, <2>1 DEF PartsInOrder, Precedes
    <2> QED BY <1>3, <2>2, <2>3 DEF PartsInOrder
  <1> QED BY <1>4, <1>5

(* The whole pipeline is in order when its parts are.                      *)
LEMMA PipelineInOrder ==
  ASSUME AdapterTypeOK, NEW e \in Eps, PartsInOrder(up[e], batch[e], queue[e])
  PROVE  InOrder(Pipeline(e))
  <1> DEFINE u == up[e]  b == batch[e]  q == queue[e]
  <1>1. u \in Seq(Inbound) /\ b \in Seq(Inbound) /\ q \in Seq(Inbound)
    BY DEF AdapterTypeOK
  <1>2. PartsInOrder(u, b, q) /\ Pipeline(e) = u \o b \o q
    BY DEF Pipeline
  <1> HIDE DEF u, b, q
  <1>3. /\ u \o b \in Seq(Inbound) /\ InOrder(u \o b)
        /\ Data(u \o b) = Data(u) \cup Data(b)
    BY <1>1, <1>2, OrderOfConcat DEF PartsInOrder
  <1>4. Precedes(u \o b, q)
    BY <1>2, <1>3 DEF PartsInOrder, Precedes
  <1> QED BY <1>1, <1>2, <1>3, <1>4, OrderOfConcat DEF PartsInOrder

-----------------------------------------------------------------------------
(* No datagram is stranded, whatever the carrier.                          *)

LEMMA InitNoStranded == AdapterInit => NoStranded
  BY DEF AdapterInit, NoStranded

(* A push reaches a driver that waits: its channel is open, so it holds    *)
(* the driver's waker.                                                     *)
LEMMA WakeNoStranded ==
  ASSUME AdapterTypeOK, NoStranded, NEW r \in Eps, ~shut[r],
         Wake(r), UNCHANGED <<life, slots, shut>>,
         \A e \in Eps : e # r => queue'[e] = queue[e]
  PROVE  NoStranded'
  <1> USE DEF AdapterTypeOK
  <1> SUFFICES ASSUME NEW e \in Eps, life'[e] = "bound", slots'[e] = 0,
                      ~woken'[e]
               PROVE  queue'[e] = <<>> /\ (waker'[e] \/ shut'[e])
    BY DEF NoStranded
  <1>1. life[e] = "bound" /\ slots[e] = 0 /\ ~woken[e]
    BY DEF Wake
  <1>2. queue[e] = <<>> /\ (waker[e] \/ shut[e])
    BY <1>1 DEF NoStranded
  <1>3. CASE e # r
    BY <1>2, <1>3 DEF Wake
  <1>4. CASE e = r
    <2>1. ~waker[r]
      BY <1>4 DEF Wake
    <2> QED BY <1>2, <1>4, <2>1
  <1> QED BY <1>3, <1>4

(* A poll of poll_recv ends with a batch, after which iroh polls again, or *)
(* on an empty channel that keeps the waker unless it is closed.           *)
LEMMA StepNoStranded ==
  ASSUME 0 \notin Slots, AdapterTypeOK, NoStranded, NEW e \in Eps, AdapterStep(e)
  PROVE  NoStranded'
  <1> USE DEF AdapterTypeOK
  <1>1. ASSUME NEW f \in Eps, f # e
        PROVE  UNCHANGED <<life[f], slots[f], woken[f], queue[f], waker[f],
                           shut[f]>>
    BY <1>1 DEF AdapterStep, Bind, Discard, PollRecv, PollTake,
                PollFull, PollIdle, ReturnBatch
  <1>2. life'[e] = "bound" /\ slots'[e] = 0 /\ ~woken'[e]
          => queue'[e] = <<>> /\ (waker'[e] \/ shut'[e])
    <2>1. CASE Bind(e)
      BY <2>1 DEF Bind
    <2>2. CASE Discard(e)
      BY <2>2 DEF Discard
    <2>3. CASE PollRecv(e)
      BY <2>3 DEF PollRecv
    <2>4. CASE PollTake(e)
      <3>1. slots'[e] # 0
        BY <2>4 DEF PollTake
      <3> QED BY <3>1
    <2>5. CASE PollFull(e)
      <3>1. batch[e] # <<>>
        BY <2>5 DEF PollFull
      <3> QED BY <2>5, <3>1 DEF PollFull, ReturnBatch
    <2>6. CASE PollIdle(e)
      BY <2>6 DEF PollIdle
    <2> QED BY <2>1, <2>2, <2>3, <2>4, <2>5, <2>6 DEF AdapterStep
  <1> QED BY <1>1, <1>2 DEF NoStranded

-----------------------------------------------------------------------------
(* Nothing owed is lost, whatever the carrier.                             *)

LEMMA QuietKeepsOwed == UNCHANGED <<queue, batch, up>> => KeepsOwed
  BY DEF KeepsOwed, Owed, As

(* An endpoint's steps are its own business.                               *)
LEMMA OthersOwed ==
  ASSUME AdapterTypeOK, NEW e \in Eps, NEW f \in Eps, f # e,
         queue'[f] = queue[f], batch'[f] = batch[f], up'[f] = up[f]
  PROVE  Owed(f) \subseteq Owed(f)'
  BY DEF Owed, As

LEMMA StepKeepsOwed ==
  ASSUME AdapterTypeOK, NEW e \in Eps, AdapterStep(e)
  PROVE  KeepsOwed
  <1> DEFINE Q == queue[e]
             B == batch[e]
             U == up[e]
             Fits(d) == d.data.hi - d.data.lo < SlotLen
  <1>1. Q \in Seq(Inbound) /\ B \in Seq(Inbound) /\ U \in Seq(Inbound)
    BY DEF AdapterTypeOK
  <1>2. /\ Owed(e) = {d \in As(e, Q) : Fits(d)} \cup As(e, B) \cup As(e, U)
        /\ Owed(e)' = {d \in As(e, queue'[e]) : Fits(d)} \cup As(e, batch'[e]) \cup As(e, up'[e])
    BY DEF Owed, As
  <1>3. life'[e] = "dropped" \/ Owed(e) \subseteq Owed(e)'
    <2>1. CASE Discard(e)
      BY <2>1 DEF Discard, AdapterTypeOK
    <2>2. CASE UNCHANGED <<queue, batch, up>>
      BY <1>2, <2>2
    <2>3. CASE PollTake(e)
      <3> DEFINE h == [from |-> Head(Q).from, to |-> KeyOf[e], data |-> Head(Q).data]
      <3>1. /\ Q # <<>> /\ queue'[e] = Tail(Q) /\ up'[e] = U
            /\ FitsSlot(Head(Q)) => batch'[e] = Append(B, Head(Q))
            /\ ~FitsSlot(Head(Q)) => batch'[e] = B
        BY <2>3 DEF PollTake, AdapterTypeOK
      <3> HIDE DEF Q, B, U
      <3>2. As(e, Q) = As(e, Tail(Q)) \cup {h} /\ Head(Q) \in Inbound
        BY <1>1, <3>1, DataOfTail
      <3>3. As(e, Append(B, Head(Q))) = As(e, B) \cup {h}
        BY <1>1, <3>2, DataOfAppend
      <3>4. Fits(h) <=> FitsSlot(Head(Q))
        BY DEF FitsSlot
      <3> HIDE DEF h, Fits
      <3> QED BY <1>2, <3>1, <3>2, <3>3, <3>4
    <2>4. CASE Returned(e)
      <3>1. queue'[e] = Q /\ batch'[e] = <<>> /\ up'[e] = U \o B
        BY <2>4 DEF Returned, AdapterTypeOK
      <3> HIDE DEF Q, B, U
      <3>2. As(e, U \o B) = As(e, U) \cup As(e, B)
        BY <1>1, AsOfConcat
      <3> HIDE DEF Fits
      <3> QED BY <1>2, <3>1, <3>2
    <2> QED BY <2>1, <2>2, <2>3, <2>4
      DEF AdapterStep, Bind, PollRecv, PollFull, PollIdle, ReturnBatch, Returned
  <1>4. ASSUME NEW f \in Eps, f # e PROVE Owed(f) \subseteq Owed(f)'
    <2>1. queue'[f] = queue[f] /\ batch'[f] = batch[f] /\ up'[f] = up[f]
      BY <1>4 DEF AdapterStep, Bind, Discard, PollRecv, PollTake, PollFull, PollIdle,
                  ReturnBatch, AdapterTypeOK
    <2> QED BY <1>4, <2>1, OthersOwed
  <1> QED BY <1>3, <1>4 DEF KeepsOwed

LEMMA EnqueueKeepsOwed ==
  ASSUME AdapterTypeOK, NEW e \in Eps, NEW m \in Inbound, Enqueue(e, m)
  PROVE  KeepsOwed
  <1> DEFINE Q == queue[e]
             Fits(d) == d.data.hi - d.data.lo < SlotLen
  <1>1. /\ Q \in Seq(Inbound) /\ queue'[e] = Append(Q, m)
        /\ batch'[e] = batch[e] /\ up'[e] = up[e]
    BY DEF Enqueue, AdapterTypeOK
  <1>2. /\ Owed(e) = {d \in As(e, Q) : Fits(d)} \cup As(e, batch[e]) \cup As(e, up[e])
        /\ Owed(e)' = {d \in As(e, queue'[e]) : Fits(d)} \cup As(e, batch'[e]) \cup As(e, up'[e])
    BY DEF Owed, As
  <1> HIDE DEF Q, Fits
  <1>3. As(e, Q) \subseteq As(e, Append(Q, m))
    BY <1>1, DataOfAppend
  <1>4. Owed(e) \subseteq Owed(e)'
    BY <1>1, <1>2, <1>3
  <1>5. ASSUME NEW f \in Eps, f # e PROVE Owed(f) \subseteq Owed(f)'
    <2>1. queue'[f] = queue[f] /\ batch'[f] = batch[f] /\ up'[f] = up[f]
      BY <1>5 DEF Enqueue, AdapterTypeOK
    <2> QED BY <1>5, <2>1, OthersOwed
  <1> QED BY <1>4, <1>5 DEF KeepsOwed
=============================================================================

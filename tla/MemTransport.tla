---------------------------- MODULE MemTransport ----------------------------
(***************************************************************************)
(* The in-memory carrier (src/src/in_memory.rs) under the adapter: a       *)
(* registry, shared behind one mutex, from peer keys to bounded channels.  *)
(* Registering a key again replaces its channel, and a full channel or a   *)
(* dropped receiver makes the sender drop the datagram.                    *)
(***************************************************************************)
EXTENDS Adapter

CONSTANT Capacity    \* mpsc::channel(1024)

ASSUME CapacityAssumption == Capacity \in Nat \ {0}

VARIABLE registry    \* [Keys -> Eps \cup {NoEp}]: whose channel a key leads to

vars == <<adapterVars, registry>>

(* Every variable has its type, and no channel holds more than its         *)
(* capacity.                                                               *)
TypeOK ==
  /\ AdapterTypeOK
  /\ registry \in [Keys -> Eps \cup {NoEp}]
  /\ \A e \in Eps : Len(queue[e]) <= Capacity

Init ==
  /\ AdapterInit
  /\ registry = [k \in Keys |-> NoEp]

(* MemNetwork::backend and BackendTransport::new: a fresh channel takes    *)
(* the key over.  The sender it replaces was the only one of its channel,  *)
(* which is thereby closed.                                                *)
Backend(e) ==
  /\ life[e] = "unbuilt"
  /\ life' = [life EXCEPT ![e] = "parked"]
  /\ registry' = [registry EXCEPT ![KeyOf[e]] = e]
  /\ IF registry[KeyOf[e]] = NoEp
     THEN UNCHANGED recvVars
     ELSE CloseChannel(registry[KeyOf[e]])
  /\ UNCHANGED call

(* Mutated: every registrant of a key stays reachable, the first one wins. *)
RouteToFirst(k) ==
  IF registry[k] = NoEp THEN NoEp
  ELSE CHOOSE e \in Eps : KeyOf[e] = k /\ life[e] # "unbuilt"

(* The registry lookup of a send.                                          *)
RouteTo(k) == registry[k]

(* Mutated: a full channel takes one more.                                 *)
AcceptsOneMore(r) ==
  r # NoEp /\ life[r] # "dropped" /\ Len(queue[r]) <= Capacity

(* try_send would succeed.                                                 *)
Accepts(r) == r # NoEp /\ life[r] # "dropped" /\ Len(queue[r]) < Capacity

(* MemSender::send of the next segment, under the registry's mutex.        *)
MemSend(t) ==
  /\ Sending(t)
  /\ Advance(t)
  /\ LET r == RouteTo(call[t].dst)
     IN IF Accepts(r) THEN Enqueue(r, NextInbound(t)) ELSE UNCHANGED recvVars
  /\ UNCHANGED <<life, registry>>

EpStep(e) == AdapterStep(e) /\ UNCHANGED registry

Next ==
  \/ \E e \in Eps : Backend(e)
  \/ \E e \in Eps : EpStep(e)
  \/ \E t \in Transmits, e \in Eps, a \in Addr :
       PollSend(t, e, a) /\ UNCHANGED registry
  \/ \E t \in Transmits : MemSend(t)

Spec == Init /\ [][Next]_vars

(* A woken driver is polled and finishes its poll; nothing else is owed.   *)
FairSpec ==
  Spec /\ \A e \in Eps : WF_vars(DriverStep(e) /\ UNCHANGED registry)

-----------------------------------------------------------------------------
(* Segments of one transmit reach the receiver in order, without overlap   *)
(* and never twice, across batches and whatever is skipped: the "ordered"  *)
(* half of the carrier's description.                                      *)
Ordered ==
  \A e \in Eps : \A i, j \in DOMAIN Pipeline(e) :
    i < j /\ Pipeline(e)[i].data.tx = Pipeline(e)[j].data.tx
      => Pipeline(e)[i].data.hi < Pipeline(e)[j].data.lo

(* What is queued after a key was taken over belongs to the newcomer: a    *)
(* channel only grows while the registry leads to it, and a closed one     *)
(* never again does.                                                       *)
TakenOverForGood ==
  [][\A e \in Eps :
       /\ Len(queue'[e]) > Len(queue[e]) => registry'[KeyOf[e]] = e /\ ~shut[e]
       /\ shut[e] => registry'[KeyOf[e]] # e]_vars

(* Every datagram that fits a slot is eventually handed up, unless its     *)
(* endpoint is dropped, even if oversized ones are queued before it and    *)
(* even if the key has been taken over since.                              *)
Holds(s, t, lo) == \E i \in DOMAIN s : s[i].data.tx = t /\ s[i].data.lo = lo
Fitting(e, t, lo) == \E i \in DOMAIN queue[e] :
  FitsSlot(queue[e][i]) /\ queue[e][i].data.tx = t /\ queue[e][i].data.lo = lo
HandedUp ==
  \A e \in Eps, t \in Transmits : \A lo \in 1..Length[t] :
    life[e] = "bound" /\ Fitting(e, t, lo)
      ~> (life[e] = "dropped" \/ Holds(up[e], t, lo))

-----------------------------------------------------------------------------
(* The carrier implements the seam's contract: the wire is what is queued  *)
(* or in a batch.                                                          *)

Seam == INSTANCE DatagramSeam WITH
  Payloads <- AllCuts,
  offered <- Offered,
  wire <- UNION {As(e, queue[e]) \cup As(e, batch[e]) : e \in Eps},
  got <- [e \in Eps |-> As(e, up[e])]

(* Every behaviour of the in-memory carrier under the adapter is one of    *)
(* the seam: nothing forged, misrouted, or delivered twice.                *)
ImplementsSeam == Seam!Spec
=============================================================================

---------------------------- MODULE WasmTransport ----------------------------
(***************************************************************************)
(* The browser WebRTC carrier (src/src/webrtc_wasm.rs) under the adapter,  *)
(* as start_chat puts it together (src/src/chat.rs) when the page's data   *)
(* channel has opened (startTransport in src/examples/chat/chat.js).  The  *)
(* page opens the channel first and sets onmessage later, so the peer may  *)
(* already be sending; dc.send is synchronous, and its error is ignored.   *)
(* The data channel itself (browser) is external: each end opens and       *)
(* closes by itself, datagrams are lost and reordered, never duplicated,   *)
(* and at most Buffered of them are on their way to one end.               *)
(***************************************************************************)
EXTENDS Adapter, FiniteSets

CONSTANT Buffered  \* datagrams dc.send takes before it throws

ASSUME WasmAssumption ==
  /\ Buffered \in Nat \ {0}
  /\ \E e, f \in Eps : e # f /\ Eps = {e, f}

VARIABLES
  dc,      \* per endpoint: readyState of its end of the data channel
  wired,   \* the endpoints whose end has an onmessage handler
  flight   \* per endpoint: segments on their way to it

wasmVars == <<dc, wired, flight>>
vars == <<adapterVars, wasmVars>>

Peer(e) == CHOOSE p \in Eps : p # e
Remote(e) == KeyOf[Peer(e)]

(* Every variable has its type, the channel holds no more than it can, and *)
(* only a side that has started is listened to or has halves at all.       *)
TypeOK ==
  /\ AdapterTypeOK
  /\ dc \in [Eps -> {"connecting", "open", "closed"}]
  /\ wired \in SUBSET Eps
  /\ flight \in [Eps -> SUBSET Segment]
  /\ \A e \in Eps : Cardinality(flight[e]) <= Buffered
  /\ \A e \in Eps : e \in wired <=> life[e] # "unbuilt"

Init ==
  /\ AdapterInit
  /\ dc = [e \in Eps |-> "connecting"]
  /\ wired = {}
  /\ flight = [e \in Eps |-> {}]

(* dc.onopen at one end.                                                   *)
Open(e) ==
  /\ dc[e] = "connecting"
  /\ dc' = [dc EXCEPT ![e] = "open"]
  /\ UNCHANGED <<adapterVars, wired, flight>>

(* Mutated: the handler is set when the endpoint is bound, not before.     *)
UnwiredStart(e) == wired' = wired
WireInbound(e) == wired' = wired \cup {e}

(* start_chat up to its first await: the handler is set, and the backend   *)
(* is wrapped.  The page has waited for the wasm module since onopen.      *)
StartChat(e) ==
  /\ dc[e] # "connecting" /\ life[e] = "unbuilt"
  /\ life' = [life EXCEPT ![e] = "parked"]
  /\ WireInbound(e)
  /\ UNCHANGED <<call, recvVars, dc, flight>>

(* dc.send throws when this end is not open, or its buffer is full.        *)
Takes(e) == dc[e] = "open" /\ Cardinality(flight[Peer(e)]) < Buffered

(* WebRtcSender::send of the next segment: only the peer has a channel.    *)
WasmSend(t) ==
  /\ Sending(t)
  /\ Advance(t)
  /\ LET e == call[t].ep
     IN flight' = IF call[t].dst = Remote(e) /\ Takes(e)
                  THEN [flight EXCEPT ![Peer(e)] = @ \cup {NextInbound(t).data}]
                  ELSE flight
  /\ UNCHANGED <<life, recvVars, dc, wired>>

(* Mutated: what arrives is tagged with the receiver's own key.            *)
TagLocal(e, s) == [from |-> KeyOf[e], data |-> s]

(* The handler tags what arrives with the peer it was wired for.           *)
Tag(e, s) == [from |-> Remote(e), data |-> s]

(* A message event.  Without a handler nobody sees it; with one it is      *)
(* queued unless the receiver is gone.                                     *)
OnMessage(e, s) ==
  /\ dc[e] = "open" /\ s \in flight[e]
  /\ flight' = [flight EXCEPT ![e] = @ \ {s}]
  /\ IF e \in wired /\ life[e] # "dropped"
     THEN Enqueue(e, Tag(e, s)) ELSE UNCHANGED recvVars
  /\ UNCHANGED <<life, call, dc, wired>>

(* maxRetransmits: 0.                                                      *)
Lose(e, s) ==
  /\ s \in flight[e]
  /\ flight' = [flight EXCEPT ![e] = @ \ {s}]
  /\ UNCHANGED <<adapterVars, dc, wired>>

(* One end closes; the receiver above it is not told.                      *)
Close(e) ==
  /\ dc[e] = "open"
  /\ dc' = [dc EXCEPT ![e] = "closed"]
  /\ flight' = [flight EXCEPT ![e] = {}]
  /\ UNCHANGED <<adapterVars, wired>>

Next ==
  \/ \E e \in Eps : Open(e) \/ StartChat(e) \/ Close(e)
  \/ \E e \in Eps : AdapterStep(e) /\ UNCHANGED wasmVars
  \/ \E t \in Transmits, e \in Eps, a \in Addr :
       PollSend(t, e, a) /\ UNCHANGED wasmVars
  \/ \E t \in Transmits : WasmSend(t)
  \/ \E e \in Eps : \E s \in flight[e] : OnMessage(e, s) \/ Lose(e, s)

Spec == Init /\ [][Next]_vars

(* A woken driver is polled and finishes its poll; nothing else is owed.   *)
FairSpec ==
  Spec /\ \A e \in Eps : WF_vars(DriverStep(e) /\ UNCHANGED wasmVars)

-----------------------------------------------------------------------------
(* Every datagram the handler accepted is handed up, whatever becomes of   *)
(* the channel afterwards, unless its endpoint is dropped; those accepted  *)
(* while the endpoint was still being built are among them.                *)
Holds(s, t, lo) == \E i \in DOMAIN s : s[i].data.tx = t /\ s[i].data.lo = lo
HandedUp ==
  \A e \in Eps, t \in Transmits : \A lo \in 1..Length[t] :
    life[e] = "bound" /\ Holds(queue[e], t, lo)
      ~> (life[e] = "dropped" \/ Holds(up[e], t, lo))

-----------------------------------------------------------------------------
(* The wire is what is in the channel, queued or in a batch.               *)

InChannel(e) ==
  {[from |-> Remote(e), to |-> KeyOf[e], data |-> s] : s \in flight[e]}

Seam == INSTANCE DatagramSeam WITH
  Payloads <- AllCuts,
  offered <- Offered,
  wire <- UNION {InChannel(e) \cup As(e, queue[e]) \cup As(e, batch[e]) :
                   e \in Eps},
  got <- [e \in Eps |-> As(e, up[e])]

(* Every behaviour of the browser carrier under the adapter is one of the  *)
(* seam: what comes before the handler, or after a close, is lost and      *)
(* nothing is forged, misrouted, or delivered twice.                       *)
ImplementsSeam == Seam!Spec
=============================================================================

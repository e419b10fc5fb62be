--------------------------- MODULE NativeTransport ---------------------------
(***************************************************************************)
(* The native WebRTC carrier (src/src/webrtc_native.rs) under the adapter: *)
(* one pair of endpoints over one unreliable, unordered data channel.      *)
(* DatagramSender::send spawns a task per datagram, which awaits dc.send;  *)
(* on_message pushes what arrives into an unbounded channel that nothing   *)
(* ever closes, because the callbacks that hold its sender live as long as *)
(* the peer connection.  The channel itself (webrtc-rs) is external: it    *)
(* loses and reorders datagrams, never duplicates them, takes at most      *)
(* SctpBuffer of them in flight, and may fail for good.                    *)
(***************************************************************************)
EXTENDS Adapter, FiniteSets

CONSTANT SctpBuffer  \* datagrams one direction of the data channel holds

ASSUME NativeAssumption ==
  /\ SctpBuffer \in Nat \ {0}
  /\ \E e, f \in Eps : e # f /\ Eps = {e, f}

VARIABLES
  path,    \* the data channel: "connecting", "open" or "failed"
  tasks,   \* per endpoint: segments whose spawned dc.send has not finished
  flight   \* per endpoint: segments on their way to it

nativeVars == <<path, tasks, flight>>
vars == <<adapterVars, nativeVars>>

Peer(e) == CHOOSE p \in Eps : p # e
Remote(e) == KeyOf[Peer(e)]

(* Every variable has its type, the data channel holds no more than its    *)
(* buffer, and nothing moves before it is open.                            *)
TypeOK ==
  /\ AdapterTypeOK
  /\ path \in {"connecting", "open", "failed"}
  /\ tasks \in [Eps -> SUBSET Segment]
  /\ flight \in [Eps -> SUBSET Segment]
  /\ \A e \in Eps : Cardinality(flight[e]) <= SctpBuffer
  /\ path = "connecting" => \A e \in Eps : life[e] = "unbuilt"

Init ==
  /\ AdapterInit
  /\ path = "connecting"
  /\ tasks = [e \in Eps |-> {}]
  /\ flight = [e \in Eps |-> {}]

(* Mutated: connect_pair returns without awaiting the open signals.        *)
WrapsBeforeOpen ==
  /\ path = "connecting"
  /\ life' = [e \in Eps |-> "parked"]
  /\ UNCHANGED <<path, call, recvVars, tasks, flight>>

(* connected_backends() resolves: both channels have signalled open, and   *)
(* each side is wrapped into a transport.                                  *)
ConnectedBackends ==
  /\ path = "connecting"
  /\ path' = "open"
  /\ life' = [e \in Eps |-> "parked"]
  /\ UNCHANGED <<call, recvVars, tasks, flight>>

(* WebRtcSender::send of the next segment: it spawns a task and returns,   *)
(* whatever state the data channel is in.                                  *)
NativeSend(t) ==
  /\ Sending(t)
  /\ Advance(t)
  /\ LET e == call[t].ep
     IN tasks' = IF call[t].dst = Remote(e)
                 THEN [tasks EXCEPT ![e] = @ \cup {NextInbound(t).data}]
                 ELSE tasks
  /\ UNCHANGED <<life, recvVars, path, flight>>

Room(e) == Cardinality(flight[Peer(e)]) < SctpBuffer

(* Mutated: dc.send is retried although the datagram has been taken.       *)
TaskOutlivesSend(e, s) == tasks' = tasks
TaskEnds(e, s) == tasks' = [tasks EXCEPT ![e] = @ \ {s}]

(* A spawned task's dc.send succeeds; it waits while there is no room.     *)
DcSend(e, s) ==
  /\ path = "open" /\ s \in tasks[e] /\ Room(e)
  /\ TaskEnds(e, s)
  /\ flight' = [flight EXCEPT ![Peer(e)] = @ \cup {s}]
  /\ UNCHANGED <<adapterVars, path>>

(* Its dc.send fails (too long a message, a channel that is not open); the *)
(* error is ignored.                                                       *)
DcSendFails(e, s) ==
  /\ s \in tasks[e]
  /\ tasks' = [tasks EXCEPT ![e] = @ \ {s}]
  /\ UNCHANGED <<adapterVars, path, flight>>

(* Mutated: the receiver tags what arrives with its own key.               *)
TagLocal(e, s) == [from |-> KeyOf[e], data |-> s]

(* WebRtcReceiver tags a datagram with the only peer of its channel.       *)
Tag(e, s) == [from |-> Remote(e), data |-> s]

(* on_message: the datagram is queued unless the receiver is gone.         *)
OnMessage(e, s) ==
  /\ s \in flight[e]
  /\ flight' = [flight EXCEPT ![e] = @ \ {s}]
  /\ IF life[e] = "dropped" THEN UNCHANGED recvVars ELSE Enqueue(e, Tag(e, s))
  /\ UNCHANGED <<life, call, path, tasks>>

(* max_retransmits = 0: a lost datagram is not sent again.                 *)
Lose(e, s) ==
  /\ s \in flight[e]
  /\ flight' = [flight EXCEPT ![e] = @ \ {s}]
  /\ UNCHANGED <<adapterVars, path, tasks>>

(* The connection fails; the receivers are not told.                       *)
Fail ==
  /\ path = "open"
  /\ path' = "failed"
  /\ flight' = [e \in Eps |-> {}]
  /\ UNCHANGED <<adapterVars, tasks>>

DataChannelStep(e) ==
  \/ \E s \in tasks[e] : DcSend(e, s) \/ DcSendFails(e, s)
  \/ \E s \in flight[e] : OnMessage(e, s) \/ Lose(e, s)

Next ==
  \/ ConnectedBackends
  \/ \E e \in Eps : AdapterStep(e) /\ UNCHANGED nativeVars
  \/ \E t \in Transmits, e \in Eps, a \in Addr :
       PollSend(t, e, a) /\ UNCHANGED nativeVars
  \/ \E t \in Transmits : NativeSend(t)
  \/ \E e \in Eps : DataChannelStep(e)
  \/ Fail

Spec == Init /\ [][Next]_vars

-----------------------------------------------------------------------------
(* The carrier implements the seam's contract: the wire is everything      *)
(* between a spawned task and the receive batch.                           *)

Unordered(e) ==
  {[from |-> Remote(e), to |-> KeyOf[e], data |-> s] :
     s \in tasks[Peer(e)] \cup flight[e]}

Seam == INSTANCE DatagramSeam WITH
  Payloads <- AllCuts,
  offered <- Offered,
  wire <- UNION {Unordered(e) \cup As(e, queue[e]) \cup As(e, batch[e]) :
                   e \in Eps},
  got <- [e \in Eps |-> As(e, up[e])]

(* Every behaviour of the native carrier under the adapter is one of the   *)
(* seam, whatever order the spawned tasks and the data channel deliver in: *)
(* nothing forged, misrouted, or delivered twice.                          *)
ImplementsSeam == Seam!Spec
=============================================================================

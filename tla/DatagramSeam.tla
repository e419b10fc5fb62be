---------------------------- MODULE DatagramSeam ----------------------------
(***************************************************************************)
(* What every datagram carrier of this crate promises to the QUIC stack    *)
(* above it (src/src/datagram.rs): sends are best-effort, so a datagram    *)
(* may be dropped at any point, but a datagram that does arrive was        *)
(* offered by the peer it is tagged with, to the key of the endpoint that  *)
(* receives it, and it arrives at most once.  The carriers are shown to    *)
(* implement this module with a refinement mapping.                        *)
(***************************************************************************)

CONSTANTS
  Eps,        \* endpoints, each the owner of one receive half
  Keys,       \* peer keys (PeerKey)
  KeyOf,      \* the local key of an endpoint (DatagramBackend::local_key)
  Payloads    \* datagram contents; no two sends carry the same contents

Datagram == [from : Keys, to : Keys, data : Payloads]

VARIABLES
  offered,    \* datagrams that were passed to DatagramSender::send
  wire,       \* the offered datagrams that are still on their way
  got         \* per endpoint, the datagrams handed up to QUIC

vars == <<offered, wire, got>>

Init ==
  /\ offered = {}
  /\ wire = {}
  /\ got = [e \in Eps |-> {}]

(* One call of send(): the datagram is accepted or dropped on the spot.    *)
Send(m) ==
  /\ m \in Datagram \ offered
  /\ offered' = offered \cup {m}
  /\ wire' \in {wire, wire \cup {m}}
  /\ UNCHANGED got

(* poll_recv() hands up a batch addressed to the endpoint's own key.       *)
Receive(e) ==
  \E S \in SUBSET {m \in wire : m.to = KeyOf[e]} :
    /\ S # {}
    /\ wire' = wire \ S
    /\ got' = [got EXCEPT ![e] = @ \cup S]
    /\ UNCHANGED offered

(* The carrier may lose what is on its way.                                *)
Lose ==
  /\ wire' \in SUBSET wire
  /\ UNCHANGED <<offered, got>>

Next ==
  \/ \E m \in Datagram : Send(m)
  \/ \E e \in Eps : Receive(e)
  \/ Lose

Spec == Init /\ [][Next]_vars
=============================================================================

----------------------------- MODULE ConnectPair -----------------------------
(***************************************************************************)
(* How the native carrier comes by its data channel: connect_pair of       *)
(* src/src/webrtc_native.rs runs offer, answer and ICE between two peer    *)
(* connections of one process, while their callbacks push candidates, the  *)
(* answerer's channel and the open signals into channels it waits on.      *)
(* Then the caller holds the two ends, and drops them.                     *)
(*                                                                         *)
(* External (webrtc-rs): a peer connection gathers candidates once it has  *)
(* a local description, refuses candidates before it has a remote one, is  *)
(* destroyed with the last Arc to it, its callbacks with it, and connects  *)
(* when one side knows a candidate of the other, or fails to.              *)
(***************************************************************************)
EXTENDS Naturals

CONSTANT MaxIce    \* bound on the candidates a peer connection gathers

ASSUME MaxIceAssumption == MaxIce \in Nat

Peers == {"offerer", "answerer"}
Other(p) == CHOOSE q \in Peers : q # p

VARIABLES
  pos,         \* what connect_pair has done so far
  gathered,    \* per peer: candidates its on_ice_candidate was called with
  sent,        \* per peer: those of them it sent into its channel (history)
  cands,       \* per peer: those of them that are still in the channel
  forwarding,  \* the peers whose spawned task adds candidates to them
  added,       \* per peer: candidates of the other one that it took
  refused,     \* per peer: candidates of the other one that it rejected
  ice,         \* "new", "connected" or "failed"
  wired,       \* the peers whose data channel has its callbacks
  opened,      \* the peers whose open signal has been sent
  held         \* the peers whose end the caller holds

iceVars == <<gathered, sent, cands, added, refused, ice>>
pairVars == <<pos, iceVars, forwarding, wired, opened, held>>

Negotiating == {"start", "prepared", "offered", "offerTaken", "answered",
                "agreed"}
Waiting == {"forwards", "gotDc", "offererOpen"}

(* Every variable has its type.  What a peer's callback sent into its      *)
(* channel is still there or was handed to the other peer, once and to no  *)
(* other; only a call that failed loses it, with the channels it drops.    *)
PairTypeOK ==
  /\ pos \in Negotiating \cup Waiting \cup {"done", "failed"}
  /\ \A f \in {gathered, sent, cands, added, refused} : f \in [Peers -> 0..MaxIce]
  /\ forwarding \subseteq Peers /\ wired \subseteq Peers
  /\ opened \subseteq Peers /\ held \subseteq Peers
  /\ ice \in {"new", "connected", "failed"}
  /\ \A p \in Peers :
       /\ sent[p] <= gathered[p]
       /\ IF pos = "failed" THEN cands[p] = 0
          ELSE sent[p] = cands[p] + added[Other(p)] + refused[Other(p)]

PairInit ==
  /\ pos = "start"
  /\ gathered = [p \in Peers |-> 0] /\ sent = [p \in Peers |-> 0]
  /\ cands = [p \in Peers |-> 0] /\ added = [p \in Peers |-> 0]
  /\ refused = [p \in Peers |-> 0] /\ ice = "new"
  /\ forwarding = {} /\ wired = {} /\ opened = {} /\ held = {}

-----------------------------------------------------------------------------
(* The steps of connect_pair.                                              *)

Goes(from, to) == pos = from /\ pos' = to

(* Both peer connections, the offerer's data channel, all callbacks.       *)
Prepare ==
  /\ Goes("start", "prepared")
  /\ wired' = {"offerer"}
  /\ UNCHANGED <<iceVars, forwarding, opened, held>>

(* Mutated: candidates are forwarded from the start.                       *)
SetOfferAndForward ==
  /\ Goes("prepared", "offered")
  /\ forwarding' = Peers
  /\ UNCHANGED <<iceVars, wired, opened, held>>

SetOffer ==
  /\ Goes("prepared", "offered")
  /\ UNCHANGED <<iceVars, forwarding, wired, opened, held>>

TakeOffer ==
  /\ Goes("offered", "offerTaken")
  /\ UNCHANGED <<iceVars, forwarding, wired, opened, held>>

SetAnswer ==
  /\ Goes("offerTaken", "answered")
  /\ UNCHANGED <<iceVars, forwarding, wired, opened, held>>

TakeAnswer ==
  /\ Goes("answered", "agreed")
  /\ UNCHANGED <<iceVars, forwarding, wired, opened, held>>

SpawnForwarders ==
  /\ Goes("agreed", "forwards")
  /\ forwarding' = Peers
  /\ UNCHANGED <<iceVars, wired, opened, held>>

(* A call before the tasks are spawned returns an error: the receivers of  *)
(* the candidates are dropped with what the channels hold.                 *)
StepFails ==
  /\ pos \in Negotiating \ {"agreed"}
  /\ pos' = "failed"
  /\ cands' = [p \in Peers |-> 0]
  /\ UNCHANGED <<gathered, sent, added, refused, ice, forwarding, wired, opened,
                 held>>

(* The three signals are awaited one after the other, in whatever order    *)
(* they are sent.                                                          *)
GetDc ==
  /\ Goes("forwards", "gotDc") /\ "answerer" \in wired
  /\ UNCHANGED <<iceVars, forwarding, wired, opened, held>>

GetOffererOpen ==
  /\ Goes("gotDc", "offererOpen") /\ "offerer" \in opened
  /\ UNCHANGED <<iceVars, forwarding, wired, opened, held>>

GetAnswererOpen ==
  /\ Goes("offererOpen", "done") /\ "answerer" \in opened
  /\ held' = Peers
  /\ UNCHANGED <<iceVars, forwarding, wired, opened>>

Connecting ==
  \/ Prepare \/ SetOffer \/ TakeOffer \/ SetAnswer \/ TakeAnswer
  \/ SpawnForwarders \/ GetDc \/ GetOffererOpen \/ GetAnswererOpen

-----------------------------------------------------------------------------
(* Who keeps a peer connection alive: connect_pair itself, the task that   *)
(* forwards candidates to it, the caller.                                  *)
Alive(p) ==
  pos \in (Negotiating \cup Waiting) \ {"start"}
    \/ p \in forwarding \/ p \in held

HasLocal(p) ==
  pos \notin {"start", "prepared"}
    /\ (p = "answerer" => pos \notin {"offered", "offerTaken"})
HasRemote(p) ==
  HasLocal("offerer") /\ pos # "offered"
    /\ (p = "offerer" => pos \notin {"offerTaken", "answered"})

(* on_ice_candidate: a candidate that to_json does not convert is dropped  *)
(* without a word, any other is sent into the channel.  Its receiver is    *)
(* there as long as the peer connection is: in connect_pair, then in the   *)
(* task, which ends no earlier than the callback.                          *)
OnIceCandidate(p) ==
  /\ Alive(p) /\ HasLocal(p) /\ gathered[p] < MaxIce
  /\ gathered' = [gathered EXCEPT ![p] = @ + 1]
  /\ \/ UNCHANGED <<sent, cands>>
     \/ /\ sent' = [sent EXCEPT ![p] = @ + 1]
        /\ cands' = [cands EXCEPT ![p] = @ + 1]
  /\ UNCHANGED <<pos, added, refused, ice, forwarding, wired, opened, held>>

Take(p) ==
  IF HasRemote(p) THEN added' = [added EXCEPT ![p] = @ + 1] /\ UNCHANGED refused
  ELSE refused' = [refused EXCEPT ![p] = @ + 1] /\ UNCHANGED added

(* Mutated: the two channels are swapped, so that a task hands a peer its  *)
(* own candidates.                                                         *)
ForwardBack(p) ==
  /\ p \in forwarding
  /\ IF cands[p] > 0
     THEN /\ cands' = [cands EXCEPT ![p] = @ - 1]
          /\ Take(p)
          /\ UNCHANGED forwarding
     ELSE /\ ~Alive(p)
          /\ forwarding' = forwarding \ {p}
          /\ UNCHANGED <<cands, added, refused>>
  /\ UNCHANGED <<pos, gathered, sent, ice, wired, opened, held>>

(* The task that forwards to p receives a candidate and hands it over,     *)
(* whatever becomes of it, or finds its channel closed, for the callback   *)
(* that sent into it is gone, and ends.                                    *)
Forward(p) ==
  /\ p \in forwarding
  /\ IF cands[Other(p)] > 0
     THEN /\ cands' = [cands EXCEPT ![Other(p)] = @ - 1]
          /\ Take(p)
          /\ UNCHANGED forwarding
     ELSE /\ ~Alive(Other(p))
          /\ forwarding' = forwarding \ {p}
          /\ UNCHANGED <<cands, added, refused>>
  /\ UNCHANGED <<pos, gathered, sent, ice, wired, opened, held>>

IceConnects ==
  /\ ice = "new" /\ \A p \in Peers : Alive(p) /\ HasRemote(p)
  /\ \E p \in Peers : added[p] > 0
  /\ ice' = "connected"
  /\ UNCHANGED <<pos, gathered, sent, cands, added, refused, forwarding, wired,
                 opened, held>>

(* The connection is not made, or is lost.                                 *)
IceFails ==
  /\ ice # "failed" /\ \E p \in Peers : Alive(p) /\ HasRemote(p)
  /\ ice' = "failed"
  /\ UNCHANGED <<pos, gathered, sent, cands, added, refused, forwarding, wired,
                 opened, held>>

(* Mutated: the channel is passed on without its callbacks.                *)
PassedOnUnwired ==
  /\ ice = "connected" /\ Alive("answerer") /\ wired = {"offerer"}
  /\ UNCHANGED pairVars

(* on_data_channel: the answerer's channel gets its callbacks before       *)
(* anybody else sees it.                                                   *)
OnDataChannel ==
  /\ ice = "connected" /\ Alive("answerer") /\ "answerer" \notin wired
  /\ wired' = wired \cup {"answerer"}
  /\ UNCHANGED <<pos, iceVars, forwarding, opened, held>>

(* on_open sends the open signal.                                          *)
OnOpen(p) ==
  /\ ice = "connected" /\ Alive(p) /\ p \in wired \ opened
  /\ opened' = opened \cup {p}
  /\ UNCHANGED <<pos, iceVars, forwarding, wired, held>>

(* The caller drops the last half of an end.                               *)
DropEnd(p) ==
  /\ p \in held
  /\ held' = held \ {p}
  /\ UNCHANGED <<pos, iceVars, forwarding, wired, opened>>

Callback ==
  \/ \E p \in Peers : OnIceCandidate(p) \/ Forward(p) \/ OnOpen(p)
  \/ IceConnects \/ OnDataChannel

PairNext ==
  \/ Connecting \/ Callback \/ StepFails \/ IceFails
  \/ \E p \in Peers : DropEnd(p)

PairSpec == PairInit /\ [][PairNext]_pairVars

(* The runtime polls connect_pair and the tasks it spawned, and webrtc-rs  *)
(* calls back; no error and no failure is owed.                            *)
PairFairSpec ==
  /\ PairSpec /\ WF_pairVars(Connecting)
  /\ WF_pairVars(IceConnects) /\ WF_pairVars(OnDataChannel)
  /\ \A p \in Peers :
       /\ WF_pairVars(OnIceCandidate(p)) /\ WF_pairVars(OnOpen(p))
       /\ WF_pairVars(Forward(p))

-----------------------------------------------------------------------------
(* However gathering runs ahead of the negotiation, no candidate reaches a *)
(* peer connection that has no remote description: "only now that both     *)
(* remote descriptions are set is add_ice_candidate legal".                *)
NoCandidateRefused == \A p \in Peers : refused[p] = 0

(* Neither peer has a candidate left that could reach the other one.       *)
NoneConverted == \A p \in Peers : gathered[p] = MaxIce /\ sent[p] = 0

(* Unless a call or the connection fails, or every candidate is dropped    *)
(* where it is converted, connect_pair comes to its end: no candidate,     *)
(* channel or signal it waits for comes too early to be seen.              *)
Connected == <>(pos \in {"done", "failed"} \/ ice = "failed" \/ NoneConverted)

(* connect_pair has an error for the data channel that never comes: it     *)
(* returns, even when no connection is made.                               *)
FailureReported == ice = "failed" ~> pos \in {"done", "failed"}

(* The struct's comment: dropping the peer connection's owner tears the    *)
(* transport down.  Once the caller has dropped both ends, no peer         *)
(* connection is left.                                                     *)
TornDown ==
  (pos = "done" /\ held = {}) ~> \A p \in Peers : ~Alive(p)
=============================================================================

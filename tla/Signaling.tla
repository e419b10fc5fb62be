------------------------------ MODULE Signaling ------------------------------
(***************************************************************************)
(* Signaling between the tabs of one browser (src/examples/chat/chat.js,   *)
(* Mode A): tabs greet each other over a BroadcastChannel, compare ids to  *)
(* choose the offerer, and exchange SDP and ICE messages that carry no     *)
(* address.  onmessage is async: it runs up to an await on its peer        *)
(* connection, and the next message is handled meanwhile.                  *)
(*                                                                         *)
(* External: BroadcastChannel delivers to the tabs that are open when a    *)
(* message is posted, in order from each sender; RTCPeerConnection works   *)
(* off its operations one at a time, refuses those its signaling state     *)
(* forbids, rolls a local offer back for a remote one, and shows no        *)
(* candidate before the description it belongs to has been set.            *)
(***************************************************************************)
EXTENDS Naturals, Sequences, FiniteSets

CONSTANTS
  Tabs,     \* the pages that may be opened; a reload is another tab, t > u
            \*   stands for the comparison of their random ids
  NoTab,
  MaxOpen,  \* how many of them are open at a time
  MaxIce    \* bound on the candidates a tab gathers

ASSUME SignalingAssumption ==
  Tabs \subseteq Nat /\ NoTab \notin Tabs /\ MaxOpen \in Nat /\ MaxIce \in Nat

Desc == [type : {"offer", "answer"}, by : Tabs, offerer : Tabs]
NoDesc == [type |-> "none"]
Candidate == [by : Tabs, no : 1..MaxIce]

Offer(t) == [type |-> "offer", by |-> t, offerer |-> t]
Answer(t, d) == [type |-> "answer", by |-> t, offerer |-> d.by]

Message ==
  [t : {"hello"}, id : Tabs] \cup [t : {"sdp"}, sdp : Desc]
    \cup [t : {"ice"}, c : Candidate]
Hello(t) == [t |-> "hello", id |-> t]

Operation ==
  [op : {"createOffer", "createAnswer"}]
    \cup [op : {"setLocal", "setRemote"}, sdp : Desc]
    \cup [op : {"addIce"}, c : Candidate]

VARIABLES
  page,      \* per tab: "unopened", "open" or "closed"
  chan,      \* chan[s][t]: messages of s that t has not received
  peerId,    \* per tab: the tab whose hello it answered, or NoTab
  role,      \* per tab: role, with its data channel or ondatachannel set
  ops,       \* per tab: its pc's operations, each with a handler waiting
  sig,       \* per tab: pc.signalingState
  local,     \* per tab: pc.localDescription
  remote,    \* per tab: pc.remoteDescription
  gathered,  \* per tab: how many candidates it posted
  added,     \* per tab: the candidates it added
  refused,   \* per tab: the candidates addIceCandidate rejected
  dc         \* per tab: the tab at the other end of its open data channel

pcVars == <<sig, local, remote, added, refused>>
vars == <<page, chan, peerId, role, ops, pcVars, gathered, dc>>

(* Every variable has its type, and no tab takes itself for its peer.      *)
TypeOK ==
  /\ page \in [Tabs -> {"unopened", "open", "closed"}]
  /\ chan \in [Tabs -> [Tabs -> Seq(Message)]]
  /\ peerId \in [Tabs -> Tabs \cup {NoTab}]
  /\ role \in [Tabs -> {"none", "offerer", "answerer"}]
  /\ ops \in [Tabs -> Seq(Operation)]
  /\ sig \in [Tabs -> {"stable", "have-local-offer", "have-remote-offer"}]
  /\ local \in [Tabs -> Desc \cup {NoDesc}]
  /\ remote \in [Tabs -> Desc \cup {NoDesc}]
  /\ gathered \in [Tabs -> 0..MaxIce]
  /\ added \in [Tabs -> SUBSET Candidate]
  /\ refused \in [Tabs -> SUBSET Candidate]
  /\ dc \in [Tabs -> Tabs \cup {NoTab}]
  /\ \A t \in Tabs : peerId[t] # t

Init ==
  /\ page = [t \in Tabs |-> "unopened"]
  /\ chan = [s \in Tabs |-> [t \in Tabs |-> <<>>]]
  /\ peerId = [t \in Tabs |-> NoTab]
  /\ role = [t \in Tabs |-> "none"]
  /\ ops = [t \in Tabs |-> <<>>]
  /\ sig = [t \in Tabs |-> "stable"]
  /\ local = [t \in Tabs |-> NoDesc]
  /\ remote = [t \in Tabs |-> NoDesc]
  /\ gathered = [t \in Tabs |-> 0]
  /\ added = [t \in Tabs |-> {}]
  /\ refused = [t \in Tabs |-> {}]
  /\ dc = [t \in Tabs |-> NoTab]

OpenTabs == {t \in Tabs : page[t] = "open"}

-----------------------------------------------------------------------------
(* bc.postMessage, on the messages under way ch.                           *)
Posted(ch, t, m) ==
  [ch EXCEPT ![t] = [u \in Tabs |-> IF u \in OpenTabs \ {t}
                                    THEN Append(ch[t][u], m) ELSE ch[t][u]]]

(* The next message from s to t, and the channel without it.               *)
First(s, t) == Head(chan[s][t])
Taken(s, t) == [chan EXCEPT ![s][t] = Tail(@)]

(* broadcastSignaling: the tab listens and says hello.                     *)
OpenPage(t) ==
  /\ page[t] = "unopened" /\ Cardinality(OpenTabs) < MaxOpen
  /\ page' = [page EXCEPT ![t] = "open"]
  /\ chan' = Posted(chan, t, Hello(t))
  /\ UNCHANGED <<peerId, role, ops, pcVars, gathered, dc>>

(* The page goes away, closed or reloaded.                                 *)
ClosePage(t) ==
  /\ page[t] = "open"
  /\ page' = [page EXCEPT ![t] = "closed"]
  /\ chan' = [s \in Tabs |-> [chan[s] EXCEPT ![t] = <<>>]]
  /\ ops' = [ops EXCEPT ![t] = <<>>]
  /\ UNCHANGED <<peerId, role, pcVars, gathered, dc>>

-----------------------------------------------------------------------------
(* bc.onmessage.                                                           *)

(* Mutated: whoever hears a hello first makes the offer.                   *)
FirstOffers(t, id) == "offerer"

RoleOf(t, id) == IF t > id THEN "offerer" ELSE "answerer"

(* Mutated: a hello is not answered.                                       *)
NoReply(ch, t, heard) == ch

(* Mutated: the answer carries the id that was heard.                      *)
EchoedReply(ch, t, heard) == Posted(ch, t, Hello(heard))

Reply(ch, t, heard) == Posted(ch, t, Hello(t))

(* The first hello makes its sender the peer; it is answered, for a tab    *)
(* that opened later has not heard ours.                                   *)
OnHello(t, s) ==
  /\ chan[s][t] # <<>> /\ First(s, t).t = "hello" /\ peerId[t] = NoTab
  /\ peerId' = [peerId EXCEPT ![t] = First(s, t).id]
  /\ chan' = Reply(Taken(s, t), t, First(s, t).id)
  /\ role' = [role EXCEPT ![t] = RoleOf(t, First(s, t).id)]
  /\ ops' = IF role'[t] = "offerer"
            THEN [ops EXCEPT ![t] = Append(@, [op |-> "createOffer"])]
            ELSE ops
  /\ UNCHANGED <<page, pcVars, gathered, dc>>

OnLaterHello(t, s) ==
  /\ chan[s][t] # <<>> /\ First(s, t).t = "hello" /\ peerId[t] # NoTab
  /\ chan' = Taken(s, t)
  /\ UNCHANGED <<page, peerId, role, ops, pcVars, gathered, dc>>

OnSdp(t, s) ==
  /\ chan[s][t] # <<>> /\ First(s, t).t = "sdp"
  /\ chan' = Taken(s, t)
  /\ ops' = [ops EXCEPT ![t] =
               Append(@, [op |-> "setRemote", sdp |-> First(s, t).sdp])]
  /\ UNCHANGED <<page, peerId, role, pcVars, gathered, dc>>

OnIce(t, s) ==
  /\ chan[s][t] # <<>> /\ First(s, t).t = "ice"
  /\ chan' = Taken(s, t)
  /\ ops' = [ops EXCEPT ![t] =
               Append(@, [op |-> "addIce", c |-> First(s, t).c])]
  /\ UNCHANGED <<page, peerId, role, pcVars, gathered, dc>>

OnMessage(t, s) ==
  OnHello(t, s) \/ OnLaterHello(t, s) \/ OnSdp(t, s) \/ OnIce(t, s)

-----------------------------------------------------------------------------
(* The peer connection carries out its first operation, and the handler    *)
(* that awaited it goes on to its next await, or ends when it failed.      *)

Pending(t, op) == ops[t] # <<>> /\ Head(ops[t]).op = op
Finished(t) == ops' = [ops EXCEPT ![t] = Tail(@)]
GoesOn(t, o) == ops' = [ops EXCEPT ![t] = Append(Tail(@), o)]

CreateOffer(t) ==
  /\ Pending(t, "createOffer")
  /\ IF sig[t] = "have-remote-offer" THEN Finished(t)
     ELSE GoesOn(t, [op |-> "setLocal", sdp |-> Offer(t)])
  /\ UNCHANGED <<page, chan, peerId, role, pcVars, gathered, dc>>

CreateAnswer(t) ==
  /\ Pending(t, "createAnswer")
  /\ IF sig[t] # "have-remote-offer" THEN Finished(t)
     ELSE GoesOn(t, [op |-> "setLocal", sdp |-> Answer(t, remote[t])])
  /\ UNCHANGED <<page, chan, peerId, role, pcVars, gathered, dc>>

LocalIsLegal(t, d) ==
  sig[t] = (IF d.type = "offer" THEN "stable" ELSE "have-remote-offer")

(* Mutated: only the offerer posts what it has set.                        *)
OffersOnly(t, d) ==
  IF d.type = "offer" THEN Posted(chan, t, [t |-> "sdp", sdp |-> d]) ELSE chan

Announced(t, d) == Posted(chan, t, [t |-> "sdp", sdp |-> d])

SetLocal(t) ==
  /\ Pending(t, "setLocal")
  /\ LET d == Head(ops[t]).sdp
     IN IF LocalIsLegal(t, d)
        THEN /\ local' = [local EXCEPT ![t] = d]
             /\ sig' = [sig EXCEPT ![t] = IF d.type = "offer"
                                          THEN "have-local-offer" ELSE "stable"]
             /\ chan' = Announced(t, d)
        ELSE UNCHANGED <<local, sig, chan>>
  /\ Finished(t)
  /\ UNCHANGED <<page, peerId, role, remote, added, refused, gathered, dc>>

(* An offer is always legal; one that would renegotiate what was agreed    *)
(* with another tab may be refused nevertheless.                           *)
RemoteIsLegal(t, d) == d.type = "offer" \/ sig[t] = "have-local-offer"
Renegotiates(t, d) ==
  d.type = "offer" /\ sig[t] = "stable" /\ remote[t] # NoDesc

ApplyRemote(t, d) ==
  /\ remote' = [remote EXCEPT ![t] = d]
  /\ sig' = [sig EXCEPT ![t] = IF d.type = "offer"
                               THEN "have-remote-offer" ELSE "stable"]
  /\ local' = IF d.type = "offer" /\ sig[t] = "have-local-offer"
              THEN [local EXCEPT ![t] = NoDesc] ELSE local
  /\ IF d.type = "offer" THEN GoesOn(t, [op |-> "createAnswer"])
     ELSE Finished(t)

RefuseRemote(t) == Finished(t) /\ UNCHANGED <<remote, sig, local>>

SetRemote(t) ==
  /\ Pending(t, "setRemote")
  /\ LET d == Head(ops[t]).sdp
     IN IF RemoteIsLegal(t, d)
        THEN ApplyRemote(t, d) \/ (Renegotiates(t, d) /\ RefuseRemote(t))
        ELSE RefuseRemote(t)
  /\ UNCHANGED <<page, chan, peerId, role, added, refused, gathered, dc>>

(* Without a remote description, or with another tab's, a candidate is     *)
(* rejected, and the empty catch forgets it.                               *)
AddIce(t) ==
  /\ Pending(t, "addIce")
  /\ LET c == Head(ops[t]).c
     IN IF remote[t] # NoDesc /\ remote[t].by = c.by
        THEN added' = [added EXCEPT ![t] = @ \cup {c}] /\ UNCHANGED refused
        ELSE refused' = [refused EXCEPT ![t] = @ \cup {c}] /\ UNCHANGED added
  /\ Finished(t)
  /\ UNCHANGED <<page, chan, peerId, role, sig, local, remote, gathered, dc>>

Operate(t) ==
  \/ CreateOffer(t) \/ SetLocal(t)
  \/ SetRemote(t) \/ CreateAnswer(t) \/ AddIce(t)

-----------------------------------------------------------------------------
(* pc.onicecandidate.                                                      *)
OnIceCandidate(t) ==
  /\ page[t] = "open" /\ local[t] # NoDesc /\ gathered[t] < MaxIce
  /\ gathered' = [gathered EXCEPT ![t] = @ + 1]
  /\ chan' = Posted(chan, t,
               [t |-> "ice", c |-> [by |-> t, no |-> gathered[t] + 1]])
  /\ UNCHANGED <<page, peerId, role, ops, pcVars, dc>>

(* o and a have agreed, and one of them knows how to reach the other.      *)
Linked(o, a) ==
  /\ local[o] = Offer(o) /\ remote[a] = Offer(o)
  /\ local[a] = Answer(a, Offer(o)) /\ remote[o] = Answer(a, Offer(o))
  /\ \/ \E c \in added[o] : c.by = a
     \/ \E c \in added[a] : c.by = o

(* The data channel opens at t, which runs startTransport: the offerer has *)
(* created its own, the answerer gets the one the offerer created.         *)
OnOpen(t, u) ==
  /\ page[t] = "open" /\ page[u] = "open" /\ dc[t] = NoTab
  /\ Linked(t, u) \/ Linked(u, t)
  /\ role[t] = "offerer" \/ (role[t] = "answerer" /\ role[u] = "offerer")
  /\ dc' = [dc EXCEPT ![t] = u]
  /\ UNCHANGED <<page, chan, peerId, role, ops, pcVars, gathered>>

Next ==
  \/ \E t \in Tabs : OpenPage(t) \/ ClosePage(t)
  \/ \E t, s \in Tabs : OnMessage(t, s) \/ OnOpen(t, s)
  \/ \E t \in Tabs : Operate(t) \/ OnIceCandidate(t)

Spec == Init /\ [][Next]_vars

(* The browser delivers messages, works off operations, finds candidates   *)
(* and connects what can be connected; nothing makes users open tabs.      *)
FairSpec ==
  /\ Spec
  /\ \A t, s \in Tabs : WF_vars(OnMessage(t, s)) /\ WF_vars(OnOpen(t, s))
  /\ \A t \in Tabs : WF_vars(Operate(t)) /\ WF_vars(OnIceCandidate(t))

-----------------------------------------------------------------------------
(* Whatever order tabs open in and their messages cross, the two ends of a *)
(* data channel take opposite roles: one dials, the other accepts.         *)
OneInitiator ==
  \A t, u \in Tabs : dc[t] = u /\ dc[u] = t /\ {t, u} \subseteq OpenTabs
    => {role[t], role[u]} = {"offerer", "answerer"}

(* Although candidates are added as they come, while the handlers of the   *)
(* descriptions are still waiting, none comes before the description it    *)
(* needs.                                                                  *)
NoCandidateRefused == \A t \in Tabs : refused[t] = {}

(* Two tabs that stay open pair with each other.                           *)
AutoPair ==
  \A t, u \in Tabs :
    t # u /\ {t, u} \subseteq OpenTabs
      ~> (dc[t] = u /\ dc[u] = t) \/ "closed" \in {page[t], page[u]}
=============================================================================

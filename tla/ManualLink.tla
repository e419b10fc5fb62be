------------------------------ MODULE ManualLink -----------------------------
(***************************************************************************)
(* Signaling by hand (src/examples/chat/chat.js, ?manual): the offerer's   *)
(* page shows a link that carries its packed description, opening it on    *)
(* another device makes the answerer's page, which shows a link to be      *)
(* pasted back.  Each page packs its description once: when a public       *)
(* candidate has been gathered, gathering is complete, or the cap expires. *)
(*                                                                         *)
(* Users open and paste any link they have seen, reload pages, and paste   *)
(* answers to an offer that a reload has replaced.  The connections        *)
(* (browser) and the network are external.                                 *)
(***************************************************************************)
EXTENDS Naturals, Sequences, FiniteSets

CONSTANTS
  offerer, answerer,  \* the two devices
  MaxLoads            \* bound: how often each loads the page

ASSUME ManualAssumption == offerer # answerer /\ MaxLoads \in Nat \ {0}

Pages == {offerer, answerer}
Other(p) == IF p = offerer THEN answerer ELSE offerer

VARIABLES
  sameLan,    \* whether the devices reach each other's host addresses
  loads,      \* per page: how often it was loaded
  at,         \* per page: where manualSignaling is
  gathering,  \* per page: pc.iceGatheringState
  cands,      \* per page: the candidates in pc.localDescription
  warned,     \* per page: the link is shown with the LAN-only warning
  remote,     \* per page: the link its remote description came from
  chat,       \* per page: the seeds start_chat was given
  links       \* every link that was shown

linkVars == <<sameLan, loads, at, gathering, cands, warned, remote, chat, links>>

Nobody == [page |-> offerer, load |-> 0]
Candidate == [proto : {"udp", "tcp"}, typ : {"host", "srflx", "relay"}, at : Pages]
Host(p) == [proto |-> "udp", typ |-> "host", at |-> p]
HostTcp(p) == [proto |-> "tcp", typ |-> "host", at |-> p]
Public(p) == [proto |-> "udp", typ |-> "srflx", at |-> p]

-----------------------------------------------------------------------------
(* Packing.  A description's credentials (ufrag, pwd, fingerprint) are the *)
(* page load's own.                                                        *)

(* pc.localDescription: an offer leaves the DTLS role open, an answer      *)
(* takes the active one.                                                   *)
Description(p, gathered) ==
  [type |-> IF p = offerer THEN "offer" ELSE "answer",
   setup |-> IF p = offerer THEN "actpass" ELSE "active",
   creds |-> [page |-> p, load |-> loads[p]],
   cands |-> gathered]

Letter == [host |-> "h", srflx |-> "s", relay |-> "r"]

(* A packed candidate: two fields for a host, five for the others, of      *)
(* which the type is one letter.                                           *)
PackedCandidate(c) ==
  IF c.typ = "host" THEN [at |-> c.at] ELSE [at |-> c.at, typ |-> Letter[c.typ]]

(* The places of the candidates that packSdp's pattern matches.            *)
Udp(candidates) == {i \in DOMAIN candidates : candidates[i].proto = "udp"}

(* The k-th of some places, counted from the first.                        *)
Nth(places, k) ==
  CHOOSE i \in places : Cardinality({j \in places : j < i}) = k - 1

(* [...s.matchAll(...)]: the UDP candidates as they are listed.            *)
MatchAll(candidates) ==
  [k \in 1..Cardinality(Udp(candidates)) |-> candidates[Nth(Udp(candidates), k)]]

(* packSdp.                                                                *)
PackSdp(d) ==
  LET udp == MatchAll(d.cands)
  IN [t |-> IF d.type = "offer" THEN "o" ELSE "a",
      su |-> CASE d.setup = "actpass" -> "A"
               [] d.setup = "active" -> "a"
               [] OTHER -> "p",
      creds |-> d.creds,
      cands |-> [i \in DOMAIN udp |-> PackedCandidate(udp[i])]]

(* Mutated: a type letter is looked up where the whole type is expected.   *)
ExpandByName(p) ==
  [proto |-> "udp", at |-> p.at,
   typ |-> IF "typ" \in DOMAIN p /\ p.typ \in {"srflx", "relay"}
           THEN p.typ ELSE "host"]

(* One candidate of unpackSdp, expand() included.                          *)
Expand(p) ==
  [proto |-> "udp", at |-> p.at,
   typ |-> IF "typ" \notin DOMAIN p THEN "host"
           ELSE CHOOSE t \in DOMAIN Letter : Letter[t] = p.typ]

(* unpackSdp.                                                              *)
UnpackSdp(k) ==
  [type |-> IF k.t = "o" THEN "offer" ELSE "answer",
   setup |-> CASE k.su = "A" -> "actpass" [] k.su = "a" -> "active" [] OTHER -> "passive",
   creds |-> k.creds,
   cands |-> [i \in DOMAIN k.cands |-> Expand(k.cands[i])]]

(* A link as it is shown; "from" is the description it was packed from.    *)
Link(p, d) ==
  [key |-> IF p = offerer THEN "offer" ELSE "answer", hash |-> PackSdp(d), from |-> d]
NoLink == [key |-> "none", hash |-> [creds |-> Nobody]]

-----------------------------------------------------------------------------
(* Every variable has its type, only a link that was shown is applied, not *)
(* to the page that showed it, and no chat starts without one.             *)
LinkTypeOK ==
  /\ sameLan \in BOOLEAN
  /\ loads \in [Pages -> 0..MaxLoads]
  /\ at \in [Pages -> {"closed", "negotiating", "described", "waiting", "shown"}]
  /\ gathering \in [Pages -> {"new", "gathering", "complete"}]
  /\ cands \in [Pages -> Seq(Candidate)]
  /\ warned \in [Pages -> BOOLEAN]
  /\ remote \in [Pages -> links \cup {NoLink}]
  /\ chat \in [Pages -> {<<>>, <<1, 2>>, <<2, 1>>}]
  /\ \A p \in Pages :
       /\ remote[p] # NoLink => remote[p].from.creds.page # p
       /\ chat[p] # <<>> => remote[p] # NoLink

LinkInit ==
  /\ sameLan \in BOOLEAN
  /\ loads = [p \in Pages |-> 0]
  /\ at = [p \in Pages |-> "closed"]
  /\ gathering = [p \in Pages |-> "new"]
  /\ cands = [p \in Pages |-> <<>>]
  /\ warned = [p \in Pages |-> FALSE]
  /\ remote = [p \in Pages |-> NoLink]
  /\ chat = [p \in Pages |-> <<>>]
  /\ links = {}

(* A page is loaded, or loaded again: without an offer in its address it   *)
(* is an offerer's; with one it is an answerer's, and applies the offer.   *)
Load(p) ==
  /\ loads[p] < MaxLoads
  /\ IF p = offerer
     THEN remote' = [remote EXCEPT ![p] = NoLink]
     ELSE \E l \in links : l.key = "offer" /\ remote' = [remote EXCEPT ![p] = l]
  /\ loads' = [loads EXCEPT ![p] = @ + 1]
  /\ at' = [at EXCEPT ![p] = "negotiating"]
  /\ gathering' = [gathering EXCEPT ![p] = "new"]
  /\ cands' = [cands EXCEPT ![p] = <<>>]
  /\ warned' = [warned EXCEPT ![p] = FALSE]
  /\ chat' = [chat EXCEPT ![p] = <<>>]
  /\ UNCHANGED <<sameLan, links>>

(* The browser has made and applied the local description.                 *)
SetLocal(p) ==
  /\ at[p] = "negotiating"
  /\ at' = [at EXCEPT ![p] = "described"]
  /\ gathering' = [gathering EXCEPT ![p] = "gathering"]
  /\ UNCHANGED <<sameLan, loads, cands, warned, remote, chat, links>>

(* Mutated: the description is read before the wait, and packed after it.  *)
CandidatesBeforeWait(p, gathered) ==
  IF at[p] = "waiting" THEN cands[p] ELSE gathered

(* The candidates a link is packed from: the description is read again.    *)
CurrentCandidates(p, gathered) == gathered

HasPublicCandidate(gathered) == \E i \in DOMAIN gathered : gathered[i].typ = "srflx"

(* After the wait: the link, and the warning if it reaches the LAN only.   *)
Show(p, gathered) ==
  /\ at' = [at EXCEPT ![p] = "shown"]
  /\ warned' = [warned EXCEPT ![p] = ~HasPublicCandidate(gathered)]
  /\ links' = links \cup
       {Link(p, Description(p, CurrentCandidates(p, gathered)))}
  /\ UNCHANGED <<sameLan, loads, remote, chat>>

NotYet == UNCHANGED <<sameLan, loads, at, warned, remote, chat, links>>

(* The page goes on after setLocalDescription: waitIceComplete looks at    *)
(* the state first, then listens and sets its timer.                       *)
Resume(p) ==
  /\ at[p] = "described"
  /\ IF gathering[p] = "complete" THEN Show(p, cands[p])
     ELSE /\ at' = [at EXCEPT ![p] = "waiting"]
          /\ UNCHANGED <<sameLan, loads, warned, remote, chat, links>>
  /\ UNCHANGED <<gathering, cands>>

(* The browser gathers: host candidates, then a public one if STUN answers.*)
(* A public one and the end of gathering end the wait.                     *)
GatherHost(p) ==
  /\ gathering[p] = "gathering" /\ cands[p] = <<>>
  /\ cands' = [cands EXCEPT ![p] = <<Host(p), HostTcp(p)>>]
  /\ NotYet /\ UNCHANGED gathering

GatherPublic(p) ==
  /\ gathering[p] = "gathering" /\ Len(cands[p]) = 2
  /\ cands' = [cands EXCEPT ![p] = Append(@, Public(p))]
  /\ IF at[p] = "waiting" THEN Show(p, cands'[p]) ELSE NotYet
  /\ UNCHANGED gathering

GatherDone(p) ==
  /\ gathering[p] = "gathering" /\ cands[p] # <<>>
  /\ gathering' = [gathering EXCEPT ![p] = "complete"]
  /\ IF at[p] = "waiting" THEN Show(p, cands[p]) ELSE NotYet
  /\ UNCHANGED cands

(* Mutated: no cap.                                                        *)
NeverExpires(p) == FALSE

CapExpires(p) == at[p] = "waiting"

(* The timer of waitIceComplete.                                           *)
Cap(p) ==
  /\ CapExpires(p)
  /\ Show(p, cands[p])
  /\ UNCHANGED <<gathering, cands>>

(* Mutated: whatever is pasted is applied.                                 *)
AnyLink(l) == TRUE

(* URLSearchParams.get("answer").                                          *)
IsAnswer(l) == l.key = "answer"

(* A link is pasted and "connect" clicked.  An offer link has no "answer"; *)
(* a second answer is refused by the connection, and its error is lost.    *)
Paste(l) ==
  /\ at[offerer] = "shown" /\ l \in links /\ IsAnswer(l)
  /\ remote[offerer] = NoLink
  /\ remote' = [remote EXCEPT ![offerer] = l]
  /\ UNCHANGED <<sameLan, loads, at, gathering, cands, warned, chat, links>>

-----------------------------------------------------------------------------
(* The two connections find each other if each has the credentials of the  *)
(* other's current load, the DTLS roles are settled, and there is a path.  *)

Mutual ==
  \A p \in Pages : remote[p].hash.creds = [page |-> Other(p), load |-> loads[Other(p)]]

Path(c, d) ==
  \/ sameLan /\ c.proto = "udp" /\ d.proto = "udp" /\ c.typ = "host" /\ d.typ = "host"
  \/ c.typ = "srflx" /\ d.typ = "srflx"
PathBetween(s, t) == \E i \in DOMAIN s, j \in DOMAIN t : Path(s[i], t[j])

(* The remote description p applied.                                       *)
Applied(p) == UnpackSdp(remote[p].hash)

Connected ==
  /\ Mutual
  /\ Applied(answerer).setup = "actpass" /\ Applied(offerer).setup = "active"
  /\ PathBetween(Applied(answerer).cands, Applied(offerer).cands)

(* Mutated: both ends dial.                                                *)
OffererSeeds(p) == <<1, 2>>

(* my_seed and remote_seed: the offerer is the one that dials.             *)
Seeds(p) == IF p = offerer THEN <<1, 2>> ELSE <<2, 1>>

(* dc.onopen, on the channel the offerer made or the one that is announced *)
(* to the answerer: startTransport.  wasm has been ready since bootstrap.  *)
ChannelOpens(p) ==
  /\ Connected /\ chat[p] = <<>>
  /\ chat' = [chat EXCEPT ![p] = Seeds(p)]
  /\ UNCHANGED <<sameLan, loads, at, gathering, cands, warned, remote, links>>

LinkNext ==
  \/ \E p \in Pages :
       \/ Load(p) \/ SetLocal(p) \/ Resume(p) \/ Cap(p)
       \/ GatherHost(p) \/ GatherPublic(p) \/ GatherDone(p)
       \/ ChannelOpens(p)
  \/ \E l \in links : Paste(l)

LinkSpec == LinkInit /\ [][LinkNext]_linkVars

(* The browser settles its promises and connects what can be connected,    *)
(* and timers fire.  STUN owes no answer, gathering no end, users nothing. *)
LinkFairSpec ==
  LinkSpec /\ \A p \in Pages :
    /\ WF_linkVars(SetLocal(p)) /\ WF_linkVars(Resume(p)) /\ WF_linkVars(Cap(p))
    /\ WF_linkVars(ChannelOpens(p))

-----------------------------------------------------------------------------
(* The first list is what is left of the second without what is not UDP:   *)
(* each UDP candidate once, unchanged, and in the order they were in.      *)
UdpOf(kept, candidates) ==
  \E place \in [DOMAIN kept -> Udp(candidates)] :
    /\ \A j, k \in DOMAIN kept : j < k => place[j] < place[k]
    /\ \A i \in Udp(candidates) : \E k \in DOMAIN kept : place[k] = i
    /\ \A k \in DOMAIN kept : kept[k] = candidates[place[k]]

(* A link brings over what the connection needs: type, role, credentials   *)
(* and the UDP candidates in their order, each of its type.                *)
PackKeeps ==
  \A l \in links :
    LET unpacked == UnpackSdp(l.hash)
    IN /\ unpacked.type = l.from.type /\ unpacked.setup = l.from.setup
       /\ unpacked.creds = l.from.creds
       /\ UdpOf(unpacked.cands, l.from.cands)

(* The LAN-only warning is shown if and only if the link, as the peer will *)
(* read it, has no public candidate, whatever is gathered before or after. *)
WarnsTruly ==
  \A l \in links :
    LET creds == l.from.creds
    IN creds.load = loads[creds.page]
         => (warned[creds.page] <=> ~HasPublicCandidate(UnpackSdp(l.hash).cands))

(* "we never hang": every page that is loaded shows its link, even if no   *)
(* STUN server answers and gathering never ends.                           *)
LinkShown ==
  \A p \in Pages : at[p] \in {"negotiating", "described", "waiting"} ~> at[p] = "shown"

(* Once the two current loads have each other's links, and what they had   *)
(* gathered when these were made offers a path, both start their chat with *)
(* matching seeds, unless one is reloaded before.                          *)
HavePath ==
  Mutual /\ PathBetween(remote[answerer].from.cands, remote[offerer].from.cands)
Reaches ==
  \A n, m \in 1..MaxLoads :
    HavePath /\ loads[offerer] = n /\ loads[answerer] = m
      ~> \/ chat[offerer] = <<1, 2>> /\ chat[answerer] = <<2, 1>>
         \/ loads[offerer] # n \/ loads[answerer] # m
=============================================================================

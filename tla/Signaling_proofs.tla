-------------------------- MODULE Signaling_proofs --------------------------
(***************************************************************************)
(* Proofs about BroadcastChannel signaling: for any number of tabs, types  *)
(* and the roles of tabs that chose each other; for two tabs, that one end *)
(* of a data channel dials and that no candidate comes too early.          *)
(***************************************************************************)
EXTENDS Signaling, Functions, TLAPS

-----------------------------------------------------------------------------
(* Sequences.                                                              *)

LEMMA RangeOfTail ==
  ASSUME NEW S, NEW q \in Seq(S), q # <<>>
  PROVE  /\ Tail(q) \in Seq(S) /\ Head(q) \in S
         /\ Range(q) = Range(Tail(q)) \cup {Head(q)}
  <1> DEFINE r == Tail(q)
  <1>1. /\ Len(q) \in Nat \ {0} /\ DOMAIN q = 1..Len(q) /\ DOMAIN r = 1..(Len(q) - 1)
        /\ \A i \in DOMAIN r : r[i] = q[i + 1]
        /\ Head(q) = q[1] /\ Head(q) \in S /\ r \in Seq(S)
    OBVIOUS
  <1> HIDE DEF r
  <1>2. \A j \in DOMAIN q : j = 1 \/ (j - 1 \in DOMAIN r /\ r[j - 1] = q[j])
    BY <1>1
  <1>3. \A i \in DOMAIN r : i + 1 \in DOMAIN q /\ r[i] = q[i + 1]
    BY <1>1
  <1>4. 1 \in DOMAIN q
    BY <1>1
  <1>5. Range(q) \subseteq Range(r) \cup {Head(q)}
    BY <1>1, <1>2 DEF Range
  <1>6. Range(r) \subseteq Range(q) /\ Head(q) \in Range(q)
    BY <1>1, <1>3, <1>4 DEF Range
  <1> QED BY <1>1, <1>5, <1>6 DEF r

LEMMA RangeOfAppend ==
  ASSUME NEW S, NEW q \in Seq(S), NEW m \in S
  PROVE  /\ Append(q, m) \in Seq(S) /\ Append(q, m) # <<>>
         /\ Range(Append(q, m)) = Range(q) \cup {m}
  <1> DEFINE r == Append(q, m)
  <1>1. /\ r \in Seq(S) /\ r # <<>>
        /\ DOMAIN r = DOMAIN q \cup {Len(q) + 1} /\ DOMAIN q = 1..Len(q)
        /\ \A i \in DOMAIN q : r[i] = q[i]
        /\ r[Len(q) + 1] = m /\ Len(q) + 1 \notin DOMAIN q
    OBVIOUS
  <1> HIDE DEF r
  <1>2. Range(r) = Range(q) \cup {m}
    BY <1>1 DEF Range
  <1> QED BY <1>1, <1>2 DEF r

LEMMA RangeOfEmpty == Range(<<>>) = {}
  BY DEF Range

-----------------------------------------------------------------------------
(* Types.                                                                  *)

(* A hello on its way from a tab carries that tab's id, nobody hears       *)
(* itself, and a peer connection that holds an offer has a description.    *)
HelloInv ==
  /\ \A s, t \in Tabs : \A m \in Range(chan[s][t]) : m.t = "hello" => m.id = s
  /\ \A t \in Tabs : chan[t][t] = <<>>
  /\ \A t \in Tabs : sig[t] = "have-remote-offer" => remote[t] \in Desc

TypeInv == TypeOK /\ HelloInv

Messages == [Tabs -> [Tabs -> Seq(Message)]]

LEMMA PostedAt ==
  ASSUME NEW ch \in Messages, NEW t \in Tabs, NEW m \in Message
  PROVE  /\ Posted(ch, t, m) \in Messages
         /\ \A x, y \in Tabs : Posted(ch, t, m)[x][y] =
              IF x = t /\ y # t /\ page[y] = "open" THEN Append(ch[x][y], m) ELSE ch[x][y]
  <1> DEFINE row == [u \in Tabs |-> IF u \in OpenTabs \ {t}
                                    THEN Append(ch[t][u], m) ELSE ch[t][u]]
  <1>1. \A x, y \in Tabs : ch[x] \in [Tabs -> Seq(Message)] /\ ch[x][y] \in Seq(Message)
    BY DEF Messages
  <1>2. \A u \in Tabs : Append(ch[t][u], m) \in Seq(Message)
    BY <1>1
  <1>3. row \in [Tabs -> Seq(Message)]
    BY <1>1, <1>2
  <1>4. \A y \in Tabs : row[y] = IF y # t /\ page[y] = "open" THEN Append(ch[t][y], m) ELSE ch[t][y]
    BY DEF OpenTabs
  <1>5. Posted(ch, t, m) = [ch EXCEPT ![t] = row]
    BY DEF Posted
  <1> HIDE DEF row
  <1>6. [ch EXCEPT ![t] = row] \in Messages
    BY <1>3 DEF Messages
  <1>7. \A x \in Tabs : [ch EXCEPT ![t] = row][x] = IF x = t THEN row ELSE ch[x]
    BY DEF Messages
  <1> QED BY <1>4, <1>5, <1>6, <1>7

LEMMA TakenAt ==
  ASSUME chan \in Messages, NEW s \in Tabs, NEW t \in Tabs, chan[s][t] # <<>>
  PROVE  /\ Taken(s, t) \in Messages
         /\ First(s, t) \in Message /\ First(s, t) \in Range(chan[s][t])
         /\ \A x, y \in Tabs : Taken(s, t)[x][y] =
              IF x = s /\ y = t THEN Tail(chan[s][t]) ELSE chan[x][y]
  <1>1. chan[s][t] \in Seq(Message) /\ chan[s] \in [Tabs -> Seq(Message)]
    BY DEF Messages
  <1>2. Tail(chan[s][t]) \in Seq(Message)
    BY <1>1
  <1>3. First(s, t) \in Message /\ First(s, t) \in Range(chan[s][t])
    BY <1>1, RangeOfTail DEF First
  <1>4. [chan[s] EXCEPT ![t] = Tail(chan[s][t])] \in [Tabs -> Seq(Message)]
    BY <1>1, <1>2
  <1>5. Taken(s, t) = [chan EXCEPT ![s] = [chan[s] EXCEPT ![t] = Tail(chan[s][t])]]
    BY <1>1 DEF Taken, Messages
  <1>6. Taken(s, t) \in Messages
    BY <1>4, <1>5 DEF Messages
  <1>7. \A x, y \in Tabs : Taken(s, t)[x][y] =
              IF x = s /\ y = t THEN Tail(chan[s][t]) ELSE chan[x][y]
    BY <1>1, <1>5 DEF Messages
  <1> QED BY <1>3, <1>6, <1>7

(* What a message and an operation carry.                                  *)
LEMMA MessageFields ==
  ASSUME NEW m \in Message
  PROVE  /\ m.t \in {"hello", "sdp", "ice"}
         /\ m.t = "hello" => m.id \in Tabs
         /\ m.t = "sdp" => m.sdp \in Desc
         /\ m.t = "ice" => m.c \in Candidate
  BY DEF Message

LEMMA OperationFields ==
  ASSUME NEW o \in Operation
  PROVE  /\ o.op \in {"createOffer", "createAnswer", "setLocal", "setRemote", "addIce"}
         /\ o.op \in {"setLocal", "setRemote"} => o.sdp \in Desc
         /\ o.op = "addIce" => o.c \in Candidate
  BY DEF Operation

LEMMA HelloType ==
  ASSUME NEW t \in Tabs
  PROVE  Hello(t) \in Message /\ Hello(t).t = "hello" /\ Hello(t).id = t
  BY DEF Hello, Message

LEMMA DescType ==
  /\ NoDesc \notin Desc
  /\ \A d \in Desc : d.type \in {"offer", "answer"} /\ d.by \in Tabs
  BY DEF NoDesc, Desc

(* The first operation is done, and perhaps another is added.              *)
LEMMA OpsType ==
  ASSUME TypeOK, NEW t \in Tabs, NEW o \in Operation
  PROVE  /\ ops[t] # <<>> =>
              /\ Head(ops[t]) \in Operation
              /\ [ops EXCEPT ![t] = Tail(@)] \in [Tabs -> Seq(Operation)]
              /\ [ops EXCEPT ![t] = Append(Tail(@), o)] \in [Tabs -> Seq(Operation)]
         /\ [ops EXCEPT ![t] = Append(@, o)] \in [Tabs -> Seq(Operation)]
  <1>1. ops[t] \in Seq(Operation)
    BY DEF TypeOK
  <1>2. Append(ops[t], o) \in Seq(Operation)
    BY <1>1
  <1>3. ASSUME ops[t] # <<>>
        PROVE  Head(ops[t]) \in Operation /\ Tail(ops[t]) \in Seq(Operation)
               /\ Append(Tail(ops[t]), o) \in Seq(Operation)
    BY <1>1, <1>3
  <1> QED BY <1>1, <1>2, <1>3 DEF TypeOK

-----------------------------------------------------------------------------
(* Type correctness.                                                       *)

(* What the hellos on their way have to satisfy.                           *)
ChannelInv(ch) ==
  /\ ch \in Messages
  /\ \A s, t \in Tabs : \A m \in Range(ch[s][t]) : m.t = "hello" => m.id = s
  /\ \A t \in Tabs : ch[t][t] = <<>>

LEMMA PostedChannel ==
  ASSUME NEW ch, ChannelInv(ch), NEW t \in Tabs, NEW m \in Message,
         m.t = "hello" => m.id = t
  PROVE  ChannelInv(Posted(ch, t, m))
  <1> DEFINE new == Posted(ch, t, m)
  <1>1. /\ new \in Messages
        /\ \A x, y \in Tabs : new[x][y] =
              IF x = t /\ y # t /\ page[y] = "open" THEN Append(ch[x][y], m) ELSE ch[x][y]
    BY PostedAt DEF ChannelInv
  <1> HIDE DEF new
  <1>2. ASSUME NEW x \in Tabs, NEW y \in Tabs, NEW n \in Range(new[x][y]), n.t = "hello"
        PROVE  n.id = x
    <2>1. CASE new[x][y] = ch[x][y]
      BY <1>2, <2>1 DEF ChannelInv
    <2>2. CASE x = t /\ new[x][y] = Append(ch[x][y], m)
      <3>1. ch[x][y] \in Seq(Message)
        BY DEF ChannelInv, Messages
      <3>2. Range(new[x][y]) = Range(ch[x][y]) \cup {m}
        BY <2>2, <3>1, RangeOfAppend
      <3> QED BY <1>2, <2>2, <3>2 DEF ChannelInv
    <2> QED BY <1>1, <2>1, <2>2
  <1> QED BY <1>1, <1>2 DEF ChannelInv, new

LEMMA TakenChannel ==
  ASSUME ChannelInv(chan), NEW s \in Tabs, NEW t \in Tabs, chan[s][t] # <<>>
  PROVE  /\ ChannelInv(Taken(s, t)) /\ s # t
         /\ First(s, t) \in Message
         /\ First(s, t).t = "hello" => First(s, t).id = s
  <1> DEFINE new == Taken(s, t)
  <1>1. /\ new \in Messages
        /\ First(s, t) \in Message /\ First(s, t) \in Range(chan[s][t])
        /\ \A x, y \in Tabs : new[x][y] =
              IF x = s /\ y = t THEN Tail(chan[s][t]) ELSE chan[x][y]
    BY TakenAt DEF ChannelInv
  <1> HIDE DEF new
  <1>2. s # t
    BY DEF ChannelInv
  <1>3. Range(Tail(chan[s][t])) \subseteq Range(chan[s][t])
    BY RangeOfTail DEF ChannelInv, Messages
  <1>4. \A x, y \in Tabs : Range(new[x][y]) \subseteq Range(chan[x][y])
    BY <1>1, <1>3
  <1>5. \A y \in Tabs : new[y][y] = <<>>
    BY <1>1, <1>2 DEF ChannelInv
  <1> QED BY <1>1, <1>2, <1>4, <1>5 DEF ChannelInv, new

LEMMA TypeInvIs ==
  TypeInv <=> /\ TypeOK /\ ChannelInv(chan)
              /\ \A t \in Tabs : sig[t] = "have-remote-offer" => remote[t] \in Desc
  BY DEF TypeInv, HelloInv, ChannelInv, TypeOK, Messages

LEMMA InitTypeInv == Init => TypeInv
  <1> SUFFICES ASSUME Init PROVE TypeInv
    OBVIOUS
  <1>1. \A s, t \in Tabs : chan[s][t] = <<>> /\ chan \in [Tabs -> [Tabs -> Seq(Message)]]
    BY DEF Init
  <1>2. HelloInv
    BY <1>1, RangeOfEmpty DEF HelloInv, Init
  <1>3. TypeOK
    BY <1>1, SignalingAssumption DEF Init, TypeOK
  <1> QED BY <1>2, <1>3 DEF TypeInv

(* Pages open and close.                                                   *)
LEMMA PageTypeInv ==
  ASSUME TypeInv, NEW t \in Tabs, OpenPage(t) \/ ClosePage(t)
  PROVE  TypeInv'
  <1>1. /\ TypeOK /\ ChannelInv(chan)
        /\ \A u \in Tabs : sig[u] = "have-remote-offer" => remote[u] \in Desc
    BY TypeInvIs
  <1>2. CASE OpenPage(t)
    <2>1. chan' = Posted(chan, t, Hello(t)) /\ page' = [page EXCEPT ![t] = "open"]
          /\ UNCHANGED <<peerId, role, ops, pcVars, gathered, dc>>
      BY <1>2 DEF OpenPage
    <2>2. ChannelInv(chan')
      BY <1>1, <2>1, HelloType, PostedChannel
    <2>3. TypeOK'
      BY <1>1, <2>1, <2>2 DEF TypeOK, pcVars, ChannelInv, Messages
    <2> QED BY <1>1, <2>1, <2>2, <2>3 DEF TypeInv, HelloInv, ChannelInv, pcVars
  <1>3. CASE ClosePage(t)
    <2>1. \A x, y \in Tabs : chan'[x][y] = IF y = t THEN <<>> ELSE chan[x][y]
      BY <1>1, <1>3 DEF ClosePage, TypeOK
    <2>2. chan' \in Messages
      BY <1>1, <1>3 DEF ClosePage, TypeOK, Messages
    <2>3. ChannelInv(chan')
      BY <1>1, <2>1, <2>2, RangeOfEmpty DEF ChannelInv
    <2>4. ops' \in [Tabs -> Seq(Operation)]
      BY <1>1, <1>3 DEF ClosePage, TypeOK
    <2>5. TypeOK'
      BY <1>1, <1>3, <2>2, <2>4 DEF ClosePage, TypeOK, pcVars, Messages
    <2> QED BY <1>1, <1>3, <2>3, <2>5 DEF ClosePage, TypeInv, HelloInv, ChannelInv, pcVars
  <1> QED BY <1>2, <1>3

(* Messages are received.                                                  *)
LEMMA MessageTypeInv ==
  ASSUME TypeInv, NEW t \in Tabs, NEW s \in Tabs, OnMessage(t, s)
  PROVE  TypeInv'
  <1> DEFINE m == First(s, t)
  <1>1. /\ TypeOK /\ ChannelInv(chan)
        /\ \A u \in Tabs : sig[u] = "have-remote-offer" => remote[u] \in Desc
    BY TypeInvIs
  <1>2. chan[s][t] # <<>>
    BY DEF OnMessage, OnHello, OnLaterHello, OnSdp, OnIce
  <1>3. /\ ChannelInv(Taken(s, t)) /\ s # t /\ m \in Message
        /\ m.t = "hello" => m.id = s
    BY <1>1, <1>2, TakenChannel
  <1>4. UNCHANGED <<page, pcVars, gathered, dc>>
    BY DEF OnMessage, OnHello, OnLaterHello, OnSdp, OnIce
  <1> HIDE DEF m
  <1>5. ASSUME ChannelInv(chan'), ops' \in [Tabs -> Seq(Operation)],
               peerId' \in [Tabs -> Tabs \cup {NoTab}], \A u \in Tabs : peerId'[u] # u,
               role' \in [Tabs -> {"none", "offerer", "answerer"}]
        PROVE  TypeInv'
    <2>1. TypeOK'
      BY <1>1, <1>4, <1>5 DEF TypeOK, pcVars, ChannelInv, Messages
    <2> QED BY <1>1, <1>4, <1>5, <2>1 DEF TypeInv, HelloInv, ChannelInv, pcVars
  <1>6. CASE OnHello(t, s)
    <2>1. m.id = s
      BY <1>3, <1>6 DEF OnHello, m
    <2>2. ChannelInv(chan')
      BY <1>3, <1>6, HelloType, PostedChannel DEF OnHello, Reply
    <2>3. /\ peerId' \in [Tabs -> Tabs \cup {NoTab}] /\ \A u \in Tabs : peerId'[u] # u
          /\ role' \in [Tabs -> {"none", "offerer", "answerer"}]
      BY <1>1, <1>3, <1>6, <2>1 DEF OnHello, TypeOK, RoleOf, m
    <2>4. ops' \in [Tabs -> Seq(Operation)]
      <3>1. [op |-> "createOffer"] \in Operation
        BY DEF Operation
      <3>2. ops \in [Tabs -> Seq(Operation)]
        BY <1>1 DEF TypeOK
      <3> QED BY <1>1, <1>6, <3>1, <3>2, OpsType DEF OnHello
    <2> QED BY <1>5, <2>2, <2>3, <2>4
  <1>7. CASE OnLaterHello(t, s)
    BY <1>1, <1>3, <1>5, <1>7 DEF OnLaterHello, TypeOK
  <1>8. CASE OnSdp(t, s)
    <2>1. [op |-> "setRemote", sdp |-> m.sdp] \in Operation
      BY <1>3, <1>8, MessageFields DEF OnSdp, m, Operation
    <2>2. ops' \in [Tabs -> Seq(Operation)]
      BY <1>1, <1>8, <2>1, OpsType DEF OnSdp, m
    <2> QED BY <1>1, <1>3, <1>5, <1>8, <2>2 DEF OnSdp, TypeOK
  <1>9. CASE OnIce(t, s)
    <2>1. [op |-> "addIce", c |-> m.c] \in Operation
      BY <1>3, <1>9, MessageFields DEF OnIce, m, Operation
    <2>2. ops' \in [Tabs -> Seq(Operation)]
      BY <1>1, <1>9, <2>1, OpsType DEF OnIce, m
    <2> QED BY <1>1, <1>3, <1>5, <1>9, <2>2 DEF OnIce, TypeOK
  <1> QED BY <1>6, <1>7, <1>8, <1>9 DEF OnMessage

(* What the peer connection does next.                                     *)
LEMMA HeadType ==
  ASSUME TypeOK, NEW t \in Tabs, ops[t] # <<>>
  PROVE  /\ Head(ops[t]) \in Operation
         /\ Head(ops[t]).op \in {"setLocal", "setRemote"} => Head(ops[t]).sdp \in Desc
         /\ Head(ops[t]).op = "addIce" => Head(ops[t]).c \in Candidate
         /\ Finished(t) => ops' \in [Tabs -> Seq(Operation)]
         /\ \A o \in Operation : GoesOn(t, o) => ops' \in [Tabs -> Seq(Operation)]
  <1>1. [op |-> "createOffer"] \in Operation
    BY DEF Operation
  <1>2. Head(ops[t]) \in Operation
    BY <1>1, OpsType
  <1>3. Finished(t) => ops' \in [Tabs -> Seq(Operation)]
    BY <1>1, OpsType DEF Finished
  <1>4. ASSUME NEW o \in Operation, GoesOn(t, o)
        PROVE  ops' \in [Tabs -> Seq(Operation)]
    BY <1>4, OpsType DEF GoesOn
  <1>5. \A o \in Operation : /\ o.op \in {"setLocal", "setRemote"} => o.sdp \in Desc
                             /\ o.op = "addIce" => o.c \in Candidate
    BY OperationFields
  <1> QED BY <1>2, <1>3, <1>4, <1>5

LEMMA OperateTypeInv ==
  ASSUME TypeInv, NEW t \in Tabs, Operate(t)
  PROVE  TypeInv'
  <1> DEFINE d == Head(ops[t]).sdp
  <1>1. /\ TypeOK /\ ChannelInv(chan)
        /\ \A u \in Tabs : sig[u] = "have-remote-offer" => remote[u] \in Desc
    BY TypeInvIs
  <1>2. ops[t] # <<>> /\ UNCHANGED <<page, peerId, role, gathered, dc>>
    BY DEF Operate, CreateOffer, SetLocal, SetRemote, CreateAnswer, AddIce, Pending
  <1>3. ASSUME ChannelInv(chan'), ops' \in [Tabs -> Seq(Operation)],
               sig' \in [Tabs -> {"stable", "have-local-offer", "have-remote-offer"}],
               local' \in [Tabs -> Desc \cup {NoDesc}],
               remote' \in [Tabs -> Desc \cup {NoDesc}],
               added' \in [Tabs -> SUBSET Candidate], refused' \in [Tabs -> SUBSET Candidate],
               \A u \in Tabs : sig'[u] = "have-remote-offer" => remote'[u] \in Desc
        PROVE  TypeInv'
    <2>1. TypeOK'
      BY <1>1, <1>2, <1>3 DEF TypeOK, ChannelInv, Messages
    <2> QED BY <1>3, <2>1 DEF TypeInv, HelloInv, ChannelInv
  <1>4. CASE CreateOffer(t)
    <2>1. [op |-> "setLocal", sdp |-> Offer(t)] \in Operation
      BY DEF Operation, Offer, Desc
    <2>2. ops' \in [Tabs -> Seq(Operation)]
      BY <1>1, <1>2, <1>4, <2>1, HeadType DEF CreateOffer
    <2> QED BY <1>1, <1>3, <1>4, <2>2 DEF CreateOffer, pcVars, TypeOK
  <1>5. CASE CreateAnswer(t)
    <2>1. ASSUME sig[t] = "have-remote-offer"
          PROVE  [op |-> "setLocal", sdp |-> Answer(t, remote[t])] \in Operation
      BY <1>1, <2>1 DEF Operation, Answer, Desc
    <2>2. ops' \in [Tabs -> Seq(Operation)]
      BY <1>1, <1>2, <1>5, <2>1, HeadType DEF CreateAnswer
    <2> QED BY <1>1, <1>3, <1>5, <2>2 DEF CreateAnswer, pcVars, TypeOK
  <1>6. CASE SetLocal(t)
    <2>1. d \in Desc /\ ops' \in [Tabs -> Seq(Operation)]
      BY <1>1, <1>2, <1>6, HeadType DEF SetLocal, Pending
    <2>2. [t |-> "sdp", sdp |-> d] \in Message
      BY <2>1 DEF Message
    <2>3. ChannelInv(Posted(chan, t, [t |-> "sdp", sdp |-> d]))
      BY <1>1, <2>2, PostedChannel
    <2>4. /\ ChannelInv(chan')
          /\ sig' \in [Tabs -> {"stable", "have-local-offer", "have-remote-offer"}]
          /\ local' \in [Tabs -> Desc \cup {NoDesc}]
          /\ \A u \in Tabs : sig'[u] = "have-remote-offer" => sig[u] = "have-remote-offer"
      BY <1>1, <1>6, <2>1, <2>3 DEF SetLocal, Announced, TypeOK
    <2> QED BY <1>1, <1>3, <1>6, <2>1, <2>4 DEF SetLocal, TypeOK
  <1>7. CASE SetRemote(t)
    <2>1. d \in Desc
      BY <1>1, <1>2, <1>7, HeadType DEF SetRemote, Pending
    <2>2. [op |-> "createAnswer"] \in Operation
      BY DEF Operation
    <2>3. CASE RefuseRemote(t)
      <3>1. ops' \in [Tabs -> Seq(Operation)]
        BY <1>1, <1>2, <2>3, HeadType DEF RefuseRemote
      <3> QED BY <1>1, <1>3, <1>7, <2>3, <3>1 DEF SetRemote, RefuseRemote, TypeOK
    <2>4. CASE ApplyRemote(t, d)
      <3>1. ops' \in [Tabs -> Seq(Operation)]
        BY <1>1, <1>2, <2>2, <2>4, HeadType DEF ApplyRemote
      <3> HIDE DEF d
      <3>2. /\ remote' \in [Tabs -> Desc \cup {NoDesc}]
            /\ remote' = [remote EXCEPT ![t] = d]
        BY <1>1, <2>1, <2>4 DEF ApplyRemote, TypeOK
      <3>3. sig' \in [Tabs -> {"stable", "have-local-offer", "have-remote-offer"}]
            /\ \A u \in Tabs : u # t => sig'[u] = sig[u]
        BY <1>1, <2>4 DEF ApplyRemote, TypeOK
      <3>4. local' \in [Tabs -> Desc \cup {NoDesc}]
        BY <1>1, <2>4 DEF ApplyRemote, TypeOK
      <3>5. \A u \in Tabs : sig'[u] = "have-remote-offer" => remote'[u] \in Desc
        BY <1>1, <2>1, <3>2, <3>3 DEF TypeOK
      <3> QED BY <1>1, <1>3, <1>7, <3>1, <3>2, <3>3, <3>4, <3>5 DEF SetRemote, TypeOK
    <2> QED BY <1>7, <2>3, <2>4 DEF SetRemote
  <1>8. CASE AddIce(t)
    <2>1. Head(ops[t]).c \in Candidate /\ ops' \in [Tabs -> Seq(Operation)]
      BY <1>1, <1>2, <1>8, HeadType DEF AddIce, Pending
    <2>2. added' \in [Tabs -> SUBSET Candidate] /\ refused' \in [Tabs -> SUBSET Candidate]
      <3> DEFINE c == Head(ops[t]).c
      <3>1. \/ added' = [added EXCEPT ![t] = @ \cup {c}] /\ refused' = refused
            \/ refused' = [refused EXCEPT ![t] = @ \cup {c}] /\ added' = added
        BY <1>8 DEF AddIce
      <3>2. c \in Candidate
        BY <2>1
      <3>3. added \in [Tabs -> SUBSET Candidate] /\ refused \in [Tabs -> SUBSET Candidate]
        BY <1>1 DEF TypeOK
      <3> HIDE DEF c
      <3>4. ASSUME NEW f \in [Tabs -> SUBSET Candidate]
            PROVE  [f EXCEPT ![t] = @ \cup {c}] \in [Tabs -> SUBSET Candidate]
        <4>1. f[t] \cup {c} \in SUBSET Candidate
          BY <3>2
        <4> QED BY <4>1
      <3> QED BY <3>1, <3>3, <3>4
    <2> QED BY <1>1, <1>3, <1>8, <2>1, <2>2 DEF AddIce, TypeOK
  <1> QED BY <1>4, <1>5, <1>6, <1>7, <1>8 DEF Operate

LEMMA CandidateTypeInv ==
  ASSUME TypeInv, NEW t \in Tabs, OnIceCandidate(t)
  PROVE  TypeInv'
  <1> DEFINE m == [t |-> "ice", c |-> [by |-> t, no |-> gathered[t] + 1]]
  <1>1. /\ TypeOK /\ ChannelInv(chan)
        /\ \A u \in Tabs : sig[u] = "have-remote-offer" => remote[u] \in Desc
    BY TypeInvIs
  <1>2. gathered[t] + 1 \in 1..MaxIce
    BY <1>1, SignalingAssumption DEF OnIceCandidate, TypeOK
  <1>3. m \in Message
    BY <1>2 DEF Message, Candidate
  <1>4. ChannelInv(chan')
    BY <1>1, <1>3, PostedChannel DEF OnIceCandidate
  <1>5. gathered' \in [Tabs -> 0..MaxIce]
    BY <1>1, <1>2, SignalingAssumption DEF OnIceCandidate, TypeOK
  <1>6. TypeOK'
    BY <1>1, <1>4, <1>5 DEF OnIceCandidate, TypeOK, pcVars, ChannelInv, Messages
  <1> QED BY <1>1, <1>4, <1>6 DEF OnIceCandidate, TypeInv, HelloInv, ChannelInv, pcVars

LEMMA OpenTypeInv ==
  ASSUME TypeInv, NEW t \in Tabs, NEW u \in Tabs, OnOpen(t, u)
  PROVE  TypeInv'
  BY DEF TypeInv, TypeOK, HelloInv, OnOpen, pcVars

LEMMA NextTypeInv == TypeInv /\ [Next]_vars => TypeInv'
  <1> SUFFICES ASSUME TypeInv, [Next]_vars PROVE TypeInv'
    OBVIOUS
  <1>1. CASE UNCHANGED vars
    BY <1>1 DEF vars, pcVars, TypeInv, TypeOK, HelloInv
  <1> QED BY <1>1, PageTypeInv, MessageTypeInv, OperateTypeInv, CandidateTypeInv, OpenTypeInv
          DEF Next

(* Every variable keeps its type, and no tab takes itself for its peer,    *)
(* however many tabs share the room.                                       *)
THEOREM TypeCorrect == Spec => []TypeOK
  <1>1. TypeInv => TypeOK
    BY DEF TypeInv
  <1> QED BY <1>1, InitTypeInv, NextTypeInv, PTL DEF Spec

-----------------------------------------------------------------------------
(* Roles.                                                                  *)

(* A role is settled by the hello that was answered, and only a tab with a *)
(* role has an open data channel, to another tab.                          *)
RoleInv ==
  \A t \in Tabs :
    /\ role[t] = IF peerId[t] = NoTab THEN "none" ELSE RoleOf(t, peerId[t])
    /\ dc[t] # NoTab => dc[t] # t /\ role[t] # "none"

(* Tabs that chose each other take opposite roles.                         *)
OppositeRoles ==
  \A t, u \in Tabs : peerId[t] = u /\ peerId[u] = t
    => {role[t], role[u]} = {"offerer", "answerer"}

LEMMA InitRoleInv == Init => RoleInv
  BY DEF Init, RoleInv

LEMMA NextRoleInv == TypeInv /\ RoleInv /\ [Next]_vars => RoleInv'
  <1> SUFFICES ASSUME TypeInv, RoleInv, [Next]_vars PROVE RoleInv'
    OBVIOUS
  <1>0. TypeOK
    BY DEF TypeInv
  <1>1. CASE UNCHANGED <<peerId, role, dc>>
    BY <1>1 DEF RoleInv, RoleOf
  <1>2. ASSUME NEW t \in Tabs, NEW s \in Tabs, OnHello(t, s) PROVE RoleInv'
    <2> DEFINE id == First(s, t).id
    <2>1. id \in Tabs /\ id # NoTab
      <3>1. ChannelInv(chan) /\ chan[s][t] # <<>> /\ First(s, t).t = "hello"
        BY <1>2, TypeInvIs DEF OnHello
      <3> QED BY <3>1, TakenChannel, SignalingAssumption
    <2>2. /\ peerId' = [peerId EXCEPT ![t] = id]
          /\ role' = [role EXCEPT ![t] = RoleOf(t, id)]
          /\ dc' = dc
      BY <1>2 DEF OnHello
    <2> HIDE DEF id
    <2>3. RoleOf(t, id) # "none"
      BY DEF RoleOf
    <2> QED BY <1>0, <2>1, <2>2, <2>3 DEF RoleInv, TypeOK
  <1>3. ASSUME NEW t \in Tabs, NEW u \in Tabs, OnOpen(t, u) PROVE RoleInv'
    <2>1. t # u
      <3>1. Linked(t, t) => FALSE
        BY DEF Linked, Offer, Answer
      <3> QED BY <1>3, <3>1 DEF OnOpen
    <2> QED BY <1>0, <1>3, <2>1 DEF OnOpen, RoleInv, TypeOK
  <1>4. ASSUME NEW t \in Tabs, OpenPage(t) \/ ClosePage(t) \/ Operate(t) \/ OnIceCandidate(t)
        PROVE  RoleInv'
    BY <1>1, <1>4 DEF OpenPage, ClosePage, OnIceCandidate, Operate, CreateOffer, SetLocal,
                      SetRemote, CreateAnswer, AddIce
  <1>5. ASSUME NEW t \in Tabs, NEW s \in Tabs, OnMessage(t, s) PROVE RoleInv'
    BY <1>1, <1>2, <1>5 DEF OnMessage, OnLaterHello, OnSdp, OnIce
  <1>6. CASE UNCHANGED vars
    BY <1>1, <1>6 DEF vars
  <1> QED BY <1>3, <1>4, <1>5, <1>6 DEF Next

LEMMA RoleInvHolds == Spec => [](TypeInv /\ RoleInv)
  <1>1. Init => TypeInv /\ RoleInv
    BY InitTypeInv, InitRoleInv
  <1>2. TypeInv /\ RoleInv /\ [Next]_vars => (TypeInv /\ RoleInv)'
    BY NextTypeInv, NextRoleInv
  <1> QED BY <1>1, <1>2, PTL DEF Spec

(* However the hellos of a crowded room cross, two tabs that chose each    *)
(* other do not both make the offer, nor both wait for it.                 *)
THEOREM ChosenRolesOppose == Spec => []OppositeRoles
  <1>1. ASSUME TypeInv, RoleInv PROVE OppositeRoles
    <2> SUFFICES ASSUME NEW t \in Tabs, NEW u \in Tabs, peerId[t] = u, peerId[u] = t
                 PROVE  {role[t], role[u]} = {"offerer", "answerer"}
      BY DEF OppositeRoles
    <2>1. t # u /\ t \in Nat /\ u \in Nat /\ t # NoTab /\ u # NoTab
      BY <1>1, SignalingAssumption DEF TypeInv, TypeOK
    <2>2. role[t] = RoleOf(t, u) /\ role[u] = RoleOf(u, t)
      BY <1>1, <2>1 DEF RoleInv
    <2>3. CASE t > u
      BY <2>1, <2>2, <2>3 DEF RoleOf
    <2>4. CASE u > t
      BY <2>1, <2>2, <2>4 DEF RoleOf
    <2> QED BY <2>1, <2>3, <2>4
  <1> QED BY <1>1, RoleInvHolds, PTL

-----------------------------------------------------------------------------
(* Two tabs.  The one with the greater id makes the offer.                 *)

Pair == \E t, u \in Tabs : t # u /\ Tabs = {t, u}
Kind(s, t) == IF s > t THEN "offer" ELSE "answer"

Operations(q) == [i \in DOMAIN q |-> q[i].op]
Kinds(q) == [i \in DOMAIN q |-> q[i].t]
OpTags(t) == Operations(ops[t])
Tags(s, t) == Kinds(chan[s][t])

In(q, x) == \E i \in DOMAIN q : q[i] = x
Once(q, X) == \A i, j \in DOMAIN q : q[i] \in X /\ q[j] \in X => i = j
(* Before every y there is an x.                                           *)
Led(q, x, y) ==
  \A i \in DOMAIN q : q[i] = y => \E j \in DOMAIN q : j < i /\ q[j] = x

LocalTags == {"createOffer", "createAnswer", "setLocal"}

(* A description of s that t has not applied, and an operation by which t  *)
(* makes its own.                                                          *)
Coming(s, t) == In(Tags(s, t), "sdp") \/ In(OpTags(t), "setRemote")
Making(t) == \E x \in LocalTags : In(OpTags(t), x)

(* Messages and operations speak of the tab they come from.                *)
MessagesOf(s, t) ==
  \A m \in Range(chan[s][t]) :
    /\ m.t = "sdp" => m.sdp.by = s /\ m.sdp.type = Kind(s, t)
    /\ m.t = "ice" => m.c.by = s
OperationsOf(s, t) ==
  \A o \in Range(ops[t]) :
    /\ o.op = "setRemote" => o.sdp.by = s /\ o.sdp.type = Kind(s, t)
    /\ o.op = "addIce" => o.c.by = s
    /\ o.op = "setLocal" => o.sdp.by = t /\ o.sdp.type = Kind(t, s)
    /\ o.op = "createOffer" => Kind(t, s) = "offer"
    /\ o.op = "createAnswer" => Kind(t, s) = "answer"
RemoteOf(s, t) == remote[t] # NoDesc => remote[t].by = s

(* A closed page has nothing to do; before s is opened nothing happens.    *)
PagesInv(s, t) ==
  /\ page[t] # "open" => ops[t] = <<>> /\ chan[s][t] = <<>>
  /\ page[s] = "unopened" => /\ chan[s][t] = <<>> /\ peerId[t] = NoTab
                             /\ local[s] = NoDesc /\ local[t] = NoDesc

(* A description is posted once, when it is set, and applied once.         *)
OneDescription(s, t) ==
  /\ local[s] = NoDesc => ~Coming(s, t) /\ remote[t] = NoDesc
  /\ Coming(s, t) => remote[t] = NoDesc
  /\ Once(Tags(s, t), {"sdp"}) /\ Once(OpTags(t), {"setRemote"})
  /\ ~(In(Tags(s, t), "sdp") /\ In(OpTags(t), "setRemote"))
  /\ local[s] # NoDesc /\ page[t] = "open" => Coming(s, t) \/ remote[t] # NoDesc

(* It is made once: an offer after the first hello, an answer after the    *)
(* offer.                                                                  *)
MadeOnce(s, t) ==
  /\ Making(t) => local[t] = NoDesc
  /\ Once(OpTags(t), LocalTags)
  /\ Kind(t, s) = "offer" =>
       /\ peerId[t] = NoTab => ~Making(t) /\ local[t] = NoDesc
       /\ local[t] # NoDesc /\ remote[t] = NoDesc => sig[t] = "have-local-offer"
  /\ Kind(t, s) = "answer" =>
       /\ Making(t) \/ local[t] # NoDesc => remote[t] # NoDesc
       /\ sig[t] # "have-local-offer"

(* No candidate of s overtakes the description of s on the way to t.       *)
NotOvertaken(s, t) ==
  /\ remote[t] # NoDesc \/ Led(OpTags(t), "setRemote", "addIce")
  /\ \/ remote[t] # NoDesc \/ In(OpTags(t), "setRemote")
     \/ Led(Tags(s, t), "sdp", "ice")

LinkInv(s, t) ==
  /\ MessagesOf(s, t) /\ OperationsOf(s, t) /\ RemoteOf(s, t)
  /\ PagesInv(s, t)
  /\ OneDescription(s, t)
  /\ MadeOnce(s, t)
  /\ NotOvertaken(s, t)
  /\ refused[t] = {}

PairInv == \A s, t \in Tabs : s # t => LinkInv(s, t)

(* With two tabs, the ends of a data channel take opposite roles: one      *)
(* dials, the other accepts.                                               *)
THEOREM OneDials == ASSUME Pair PROVE Spec => []OneInitiator
  <1>1. ASSUME TypeInv, RoleInv PROVE OneInitiator
    <2> SUFFICES ASSUME NEW t \in Tabs, NEW u \in Tabs, dc[t] = u, dc[u] = t
                 PROVE  {role[t], role[u]} = {"offerer", "answerer"}
      BY DEF OneInitiator
    <2>1. t # NoTab /\ u # NoTab
      BY SignalingAssumption
    <2>2. t # u /\ role[t] # "none" /\ role[u] # "none"
      BY <1>1, <2>1 DEF RoleInv
    <2>3. t \in Nat /\ u \in Nat
      BY SignalingAssumption
    <2>4. peerId[t] \in Tabs \ {t} /\ peerId[u] \in Tabs \ {u}
      BY <1>1, <2>2 DEF RoleInv, TypeInv, TypeOK
    <2>5. Tabs = {t, u}
      BY <2>2 DEF Pair
    <2>6. peerId[t] = u /\ peerId[u] = t
      BY <2>4, <2>5
    <2>7. role[t] = RoleOf(t, u) /\ role[u] = RoleOf(u, t)
      BY <1>1, <2>1, <2>6 DEF RoleInv
    <2>8. CASE t > u
      BY <2>3, <2>7, <2>8 DEF RoleOf
    <2>9. CASE u > t
      BY <2>3, <2>7, <2>9 DEF RoleOf
    <2> QED BY <2>2, <2>3, <2>8, <2>9
  <1> QED BY <1>1, RoleInvHolds, PTL

-----------------------------------------------------------------------------
(* What is in a sequence, how often and in which order.                    *)

LEMMA NamesOfTail ==
  ASSUME NEW S, NEW w \in Seq(S), w # <<>>
  PROVE  /\ Tail(w) \in Seq(S)
         /\ \A x : In(w, x) <=> In(Tail(w), x) \/ x = Head(w)
         /\ \A X : Once(w, X) => /\ Once(Tail(w), X)
                                 /\ Head(w) \in X => \A x \in X : ~In(Tail(w), x)
         /\ \A x, y : Led(w, x, y) /\ Head(w) # x => Led(Tail(w), x, y) /\ Head(w) # y
  <1> DEFINE r == Tail(w)
  <1>1. /\ Len(w) \in Nat \ {0} /\ DOMAIN w = 1..Len(w) /\ DOMAIN r = 1..(Len(w) - 1)
        /\ \A i \in DOMAIN r : r[i] = w[i + 1]
        /\ Head(w) = w[1] /\ r \in Seq(S)
    OBVIOUS
  <1> HIDE DEF r
  <1>2. \A j \in DOMAIN w : j = 1 \/ (j - 1 \in DOMAIN r /\ r[j - 1] = w[j])
    BY <1>1
  <1>3. \A i \in DOMAIN r : i + 1 \in DOMAIN w /\ r[i] = w[i + 1]
    BY <1>1
  <1>4. 1 \in DOMAIN w /\ DOMAIN w \subseteq Nat /\ DOMAIN r \subseteq Nat /\ 0 \notin DOMAIN r
    BY <1>1
  <1>5. \A x : In(w, x) <=> In(r, x) \/ x = Head(w)
    BY <1>1, <1>2, <1>3, <1>4 DEF In
  <1>6. ASSUME NEW X, Once(w, X) PROVE Once(r, X)
    <2>1. \A i, j \in DOMAIN r : r[i] \in X /\ r[j] \in X => i + 1 = j + 1
      BY <1>3, <1>6 DEF Once
    <2> QED BY <1>4, <2>1 DEF Once
  <1>7. ASSUME NEW X, Once(w, X), Head(w) \in X, NEW i \in DOMAIN r, r[i] \in X PROVE FALSE
    <2>1. i + 1 = 1
      BY <1>1, <1>3, <1>4, <1>7 DEF Once
    <2> QED BY <1>4, <2>1
  <1>8. ASSUME NEW x, NEW y, Led(w, x, y), Head(w) # x PROVE Led(r, x, y) /\ Head(w) # y
    <2>1. ASSUME NEW i \in DOMAIN r, r[i] = y PROVE \E j \in DOMAIN r : j < i /\ r[j] = x
      <3>1. PICK j \in DOMAIN w : j < i + 1 /\ w[j] = x
        BY <1>3, <1>8, <2>1 DEF Led
      <3>2. j # 1
        BY <1>1, <1>8, <3>1
      <3> QED BY <1>2, <1>4, <3>1, <3>2
    <2>2. Head(w) # y
      BY <1>1, <1>4, <1>8 DEF Led
    <2> QED BY <2>1, <2>2 DEF Led
  <1> QED BY <1>1, <1>5, <1>6, <1>7, <1>8 DEF In, r

LEMMA NamesOfAppend ==
  ASSUME NEW S, NEW w \in Seq(S), NEW z \in S
  PROVE  /\ Append(w, z) \in Seq(S)
         /\ \A x : In(Append(w, z), x) <=> In(w, x) \/ x = z
         /\ \A X : Once(w, X) /\ (z \in X => \A x \in X : ~In(w, x)) => Once(Append(w, z), X)
         /\ \A x, y : Led(w, x, y) /\ (z = y => In(w, x)) => Led(Append(w, z), x, y)
  <1> DEFINE r == Append(w, z)
             n == Len(w) + 1
  <1>1. /\ r \in Seq(S)
        /\ DOMAIN r = DOMAIN w \cup {n} /\ n \notin DOMAIN w
        /\ \A i \in DOMAIN w : r[i] = w[i] /\ i < n
        /\ r[n] = z
    OBVIOUS
  <1> HIDE DEF r, n
  <1>2. \A x : In(r, x) <=> In(w, x) \/ x = z
    BY <1>1 DEF In
  <1>3. ASSUME NEW X, Once(w, X), z \in X => \A x \in X : ~In(w, x) PROVE Once(r, X)
    BY <1>1, <1>3 DEF Once, In
  <1>4. ASSUME NEW x, NEW y, Led(w, x, y), z = y => In(w, x) PROVE Led(r, x, y)
    BY <1>1, <1>4 DEF Led, In
  <1> QED BY <1>1, <1>2, <1>3, <1>4 DEF r

LEMMA NamesOfEmpty ==
  /\ \A x : ~In(<<>>, x)
  /\ \A X : Once(<<>>, X)
  /\ \A x, y : Led(<<>>, x, y)
  BY DEF In, Once, Led

(* The names of operations and of messages.                                *)
OpNames == {"createOffer", "createAnswer", "setLocal", "setRemote", "addIce"}
MsgNames == {"hello", "sdp", "ice"}

LEMMA OperationsAre ==
  ASSUME NEW q \in Seq(Operation)
  PROVE  /\ Operations(q) \in Seq(OpNames)
         /\ \A o \in Operation : Operations(Append(q, o)) = Append(Operations(q), o.op)
         /\ q = <<>> => Operations(q) = <<>>
         /\ q # <<>> => /\ Operations(q) # <<>> /\ Head(Operations(q)) = Head(q).op
                        /\ Operations(Tail(q)) = Tail(Operations(q))
                        /\ Tail(q) \in Seq(Operation)
  <1>1. \A o \in Operation : o.op \in OpNames
    BY OperationFields DEF OpNames
  <1>2. Operations(q) \in Seq(OpNames) /\ Len(Operations(q)) = Len(q)
    BY <1>1 DEF Operations
  <1>3. ASSUME NEW o \in Operation PROVE Operations(Append(q, o)) = Append(Operations(q), o.op)
    BY <1>1, <1>2 DEF Operations
  <1>4. q = <<>> => Operations(q) = <<>>
    BY <1>2
  <1>5. ASSUME q # <<>> PROVE Operations(q) # <<>> /\ Head(Operations(q)) = Head(q).op
    BY <1>2, <1>5 DEF Operations
  <1>6. ASSUME q # <<>>
        PROVE  Operations(Tail(q)) = Tail(Operations(q)) /\ Tail(q) \in Seq(Operation)
    BY <1>2, <1>6 DEF Operations
  <1> QED BY <1>2, <1>3, <1>4, <1>5, <1>6

LEMMA KindsAre ==
  ASSUME NEW q \in Seq(Message)
  PROVE  /\ Kinds(q) \in Seq(MsgNames)
         /\ \A m \in Message : Kinds(Append(q, m)) = Append(Kinds(q), m.t)
         /\ q = <<>> => Kinds(q) = <<>>
         /\ q # <<>> => /\ Kinds(q) # <<>> /\ Head(Kinds(q)) = Head(q).t
                        /\ Kinds(Tail(q)) = Tail(Kinds(q))
                        /\ Tail(q) \in Seq(Message)
  <1>1. \A m \in Message : m.t \in MsgNames
    BY MessageFields DEF MsgNames
  <1>2. Kinds(q) \in Seq(MsgNames) /\ Len(Kinds(q)) = Len(q)
    BY <1>1 DEF Kinds
  <1>3. ASSUME NEW m \in Message PROVE Kinds(Append(q, m)) = Append(Kinds(q), m.t)
    BY <1>1, <1>2 DEF Kinds
  <1>4. q = <<>> => Kinds(q) = <<>>
    BY <1>2
  <1>5. ASSUME q # <<>> PROVE Kinds(q) # <<>> /\ Head(Kinds(q)) = Head(q).t
    BY <1>2, <1>5 DEF Kinds
  <1>6. ASSUME q # <<>>
        PROVE  Kinds(Tail(q)) = Tail(Kinds(q)) /\ Tail(q) \in Seq(Message)
    BY <1>2, <1>6 DEF Kinds
  <1> QED BY <1>2, <1>3, <1>4, <1>5, <1>6

-----------------------------------------------------------------------------
(* What one operation more or less, and one message more or less, changes. *)

LEMMA OpDone ==
  ASSUME TypeOK, NEW t \in Tabs, ops[t] # <<>>, ops'[t] = Tail(ops[t])
  PROVE  /\ Head(ops[t]) \in Operation /\ Head(ops[t]) \in Range(ops[t])
         /\ Range(ops'[t]) \subseteq Range(ops[t])
         /\ \A x : In(OpTags(t), x) <=> In(OpTags(t)', x) \/ x = Head(ops[t]).op
         /\ \A X : Once(OpTags(t), X) =>
              /\ Once(OpTags(t)', X)
              /\ Head(ops[t]).op \in X => \A x \in X : ~In(OpTags(t)', x)
         /\ \A x, y : Led(OpTags(t), x, y) /\ Head(ops[t]).op # x =>
              Led(OpTags(t)', x, y) /\ Head(ops[t]).op # y
  <1>1. ops[t] \in Seq(Operation)
    BY DEF TypeOK
  <1>2. /\ Operations(ops[t]) \in Seq(OpNames) /\ Operations(ops[t]) # <<>>
        /\ Head(Operations(ops[t])) = Head(ops[t]).op
        /\ Operations(ops'[t]) = Tail(Operations(ops[t]))
    BY <1>1, OperationsAre
  <1>3. /\ Head(ops[t]) \in Operation /\ Head(ops[t]) \in Range(ops[t])
        /\ Range(ops'[t]) \subseteq Range(ops[t])
    BY <1>1, RangeOfTail
  <1> DEFINE w == Operations(ops[t])
             z == Head(ops[t]).op
  <1>4. OpTags(t) = w /\ OpTags(t)' = Tail(w) /\ w \in Seq(OpNames) /\ w # <<>> /\ Head(w) = z
    BY <1>2 DEF OpTags
  <1> HIDE DEF w, z
  <1>5. /\ \A x : In(w, x) <=> In(Tail(w), x) \/ x = Head(w)
        /\ \A X : Once(w, X) => /\ Once(Tail(w), X)
                                /\ Head(w) \in X => \A x \in X : ~In(Tail(w), x)
        /\ \A x, y : Led(w, x, y) /\ Head(w) # x => Led(Tail(w), x, y) /\ Head(w) # y
    BY <1>4, NamesOfTail
  <1> QED BY <1>3, <1>4, <1>5 DEF z

LEMMA OpAdded ==
  ASSUME TypeOK, NEW t \in Tabs, NEW o \in Operation, ops'[t] = Append(ops[t], o)
  PROVE  /\ Range(ops'[t]) = Range(ops[t]) \cup {o}
         /\ \A x : In(OpTags(t)', x) <=> In(OpTags(t), x) \/ x = o.op
         /\ \A X : Once(OpTags(t), X) /\ (o.op \in X => \A x \in X : ~In(OpTags(t), x)) =>
              Once(OpTags(t)', X)
         /\ \A x, y : Led(OpTags(t), x, y) /\ (o.op = y => In(OpTags(t), x)) =>
              Led(OpTags(t)', x, y)
  <1>1. ops[t] \in Seq(Operation)
    BY DEF TypeOK
  <1>2. o.op \in OpNames
    BY OperationFields DEF OpNames
  <1>3. /\ Operations(ops[t]) \in Seq(OpNames)
        /\ Operations(ops'[t]) = Append(Operations(ops[t]), o.op)
    BY <1>1, OperationsAre
  <1>4. Range(ops'[t]) = Range(ops[t]) \cup {o}
    BY <1>1, RangeOfAppend
  <1> DEFINE w == Operations(ops[t])
             z == o.op
  <1>5. OpTags(t) = w /\ OpTags(t)' = Append(w, z)
    BY <1>3 DEF OpTags
  <1> HIDE DEF w
  <1>6. w \in Seq(OpNames) /\ z \in OpNames
    BY <1>2, <1>3 DEF w
  <1> HIDE DEF z
  <1>7. /\ \A x : In(Append(w, z), x) <=> In(w, x) \/ x = z
        /\ \A X : Once(w, X) /\ (z \in X => \A x \in X : ~In(w, x)) => Once(Append(w, z), X)
        /\ \A x, y : Led(w, x, y) /\ (z = y => In(w, x)) => Led(Append(w, z), x, y)
    BY <1>6, NamesOfAppend
  <1> QED BY <1>4, <1>5, <1>7 DEF z

(* A handler goes on: its operation gives way to the next one.             *)
LEMMA OpReplaced ==
  ASSUME TypeOK, NEW t \in Tabs, ops[t] # <<>>, NEW o \in Operation,
         ops'[t] = Append(Tail(ops[t]), o)
  PROVE  /\ Head(ops[t]) \in Operation /\ Head(ops[t]) \in Range(ops[t])
         /\ Range(ops'[t]) \subseteq Range(ops[t]) \cup {o}
         /\ \A x : In(OpTags(t), x) => In(OpTags(t)', x) \/ x = Head(ops[t]).op
         /\ \A x : In(OpTags(t)', x) => In(OpTags(t), x) \/ x = o.op
         /\ In(OpTags(t), Head(ops[t]).op)
         /\ \A X : Once(OpTags(t), X) /\ o.op \notin X =>
              /\ Once(OpTags(t)', X)
              /\ Head(ops[t]).op \in X => \A x \in X : ~In(OpTags(t)', x)
         /\ \A X : Once(OpTags(t), X) /\ (Head(ops[t]).op \in X \/ \A x \in X : ~In(OpTags(t), x))
              => Once(OpTags(t)', X)
         /\ \A x, y : Led(OpTags(t), x, y) /\ Head(ops[t]).op # x /\ o.op # y =>
              Led(OpTags(t)', x, y)
  <1> DEFINE q == Tail(ops[t])
             w == Operations(ops[t])
             r == Tail(w)
  <1>1. ops[t] \in Seq(Operation) /\ q \in Seq(Operation)
    BY DEF TypeOK
  <1>2. o.op \in OpNames
    BY OperationFields DEF OpNames
  <1>3. w \in Seq(OpNames) /\ w # <<>> /\ Head(w) = Head(ops[t]).op /\ Operations(q) = r
    BY <1>1, OperationsAre
  <1>4. Operations(ops'[t]) = Append(r, o.op)
    <2>1. ops'[t] = Append(q, o)
      OBVIOUS
    <2> HIDE DEF q, r
    <2>2. Operations(Append(q, o)) = Append(Operations(q), o.op)
      BY <1>1, OperationsAre
    <2> QED BY <1>3, <2>1, <2>2
  <1>5. /\ Head(ops[t]) \in Operation /\ Head(ops[t]) \in Range(ops[t])
        /\ Range(ops'[t]) \subseteq Range(ops[t]) \cup {o}
    <2>1. Range(Append(q, o)) = Range(q) \cup {o}
      BY <1>1, RangeOfAppend
    <2> QED BY <1>1, <2>1, RangeOfTail
  <1> HIDE DEF q, w, r
  <1>6. /\ r \in Seq(OpNames)
        /\ \A x : In(w, x) <=> In(r, x) \/ x = Head(w)
        /\ \A X : Once(w, X) => Once(r, X) /\ (Head(w) \in X => \A x \in X : ~In(r, x))
        /\ \A x, y : Led(w, x, y) /\ Head(w) # x => Led(r, x, y)
    BY <1>3, NamesOfTail DEF r
  <1>7. /\ \A x : In(Append(r, o.op), x) <=> In(r, x) \/ x = o.op
        /\ \A X : Once(r, X) /\ (o.op \in X => \A x \in X : ~In(r, x)) => Once(Append(r, o.op), X)
        /\ \A x, y : Led(r, x, y) /\ (o.op = y => In(r, x)) => Led(Append(r, o.op), x, y)
    <2> DEFINE z == o.op
    <2>1. z \in OpNames
      BY <1>2
    <2> HIDE DEF z
    <2>2. /\ \A x : In(Append(r, z), x) <=> In(r, x) \/ x = z
          /\ \A X : Once(r, X) /\ (z \in X => \A x \in X : ~In(r, x)) => Once(Append(r, z), X)
          /\ \A x, y : Led(r, x, y) /\ (z = y => In(r, x)) => Led(Append(r, z), x, y)
      BY <1>6, <2>1, NamesOfAppend
    <2> QED BY <2>2 DEF z
  <1>8. OpTags(t) = w /\ OpTags(t)' = Append(r, o.op)
    BY <1>4 DEF OpTags, w
  <1> QED BY <1>3, <1>5, <1>6, <1>7, <1>8

LEMMA MessageTaken ==
  ASSUME TypeOK, NEW s \in Tabs, NEW t \in Tabs, chan[s][t] # <<>>,
         chan'[s][t] = Tail(chan[s][t])
  PROVE  /\ First(s, t) \in Message /\ First(s, t) \in Range(chan[s][t])
         /\ Range(chan'[s][t]) \subseteq Range(chan[s][t])
         /\ \A x : In(Tags(s, t), x) <=> In(Tags(s, t)', x) \/ x = First(s, t).t
         /\ \A X : Once(Tags(s, t), X) =>
              /\ Once(Tags(s, t)', X)
              /\ First(s, t).t \in X => \A x \in X : ~In(Tags(s, t)', x)
         /\ \A x, y : Led(Tags(s, t), x, y) /\ First(s, t).t # x =>
              Led(Tags(s, t)', x, y) /\ First(s, t).t # y
  <1>1. chan[s][t] \in Seq(Message)
    BY DEF TypeOK
  <1>2. /\ Kinds(chan[s][t]) \in Seq(MsgNames) /\ Kinds(chan[s][t]) # <<>>
        /\ Head(Kinds(chan[s][t])) = First(s, t).t
        /\ Kinds(chan'[s][t]) = Tail(Kinds(chan[s][t]))
    BY <1>1, KindsAre DEF First
  <1>3. /\ First(s, t) \in Message /\ First(s, t) \in Range(chan[s][t])
        /\ Range(chan'[s][t]) \subseteq Range(chan[s][t])
    BY <1>1, RangeOfTail DEF First
  <1> DEFINE w == Kinds(chan[s][t])
             z == First(s, t).t
  <1>4. Tags(s, t) = w /\ Tags(s, t)' = Tail(w) /\ w \in Seq(MsgNames) /\ w # <<>> /\ Head(w) = z
    BY <1>2 DEF Tags
  <1> HIDE DEF w, z
  <1>5. /\ \A x : In(w, x) <=> In(Tail(w), x) \/ x = Head(w)
        /\ \A X : Once(w, X) => /\ Once(Tail(w), X)
                                /\ Head(w) \in X => \A x \in X : ~In(Tail(w), x)
        /\ \A x, y : Led(w, x, y) /\ Head(w) # x => Led(Tail(w), x, y) /\ Head(w) # y
    BY <1>4, NamesOfTail
  <1> QED BY <1>3, <1>4, <1>5 DEF z

LEMMA MessagePosted ==
  ASSUME TypeOK, NEW s \in Tabs, NEW t \in Tabs, NEW m \in Message,
         chan'[s][t] = Append(chan[s][t], m)
  PROVE  /\ Range(chan'[s][t]) = Range(chan[s][t]) \cup {m}
         /\ \A x : In(Tags(s, t)', x) <=> In(Tags(s, t), x) \/ x = m.t
         /\ \A X : Once(Tags(s, t), X) /\ (m.t \in X => \A x \in X : ~In(Tags(s, t), x)) =>
              Once(Tags(s, t)', X)
         /\ \A x, y : Led(Tags(s, t), x, y) /\ (m.t = y => In(Tags(s, t), x)) =>
              Led(Tags(s, t)', x, y)
  <1>1. chan[s][t] \in Seq(Message)
    BY DEF TypeOK
  <1>2. m.t \in MsgNames
    BY MessageFields DEF MsgNames
  <1>3. /\ Kinds(chan[s][t]) \in Seq(MsgNames)
        /\ Kinds(chan'[s][t]) = Append(Kinds(chan[s][t]), m.t)
    BY <1>1, KindsAre
  <1>4. Range(chan'[s][t]) = Range(chan[s][t]) \cup {m}
    BY <1>1, RangeOfAppend
  <1> DEFINE w == Kinds(chan[s][t])
             z == m.t
  <1>5. Tags(s, t) = w /\ Tags(s, t)' = Append(w, z)
    BY <1>3 DEF Tags
  <1> HIDE DEF w
  <1>6. w \in Seq(MsgNames) /\ z \in MsgNames
    BY <1>2, <1>3 DEF w
  <1> HIDE DEF z
  <1>7. /\ \A x : In(Append(w, z), x) <=> In(w, x) \/ x = z
        /\ \A X : Once(w, X) /\ (z \in X => \A x \in X : ~In(w, x)) => Once(Append(w, z), X)
        /\ \A x, y : Led(w, x, y) /\ (z = y => In(w, x)) => Led(Append(w, z), x, y)
    BY <1>6, NamesOfAppend
  <1> QED BY <1>4, <1>5, <1>7 DEF z

LEMMA OpTagsEmpty ==
  ASSUME NEW s \in Tabs, NEW t \in Tabs
  PROVE  /\ ops'[t] = <<>> => OpTags(t)' = <<>>
         /\ chan'[s][t] = <<>> => Tags(s, t)' = <<>>
  <1>1. <<>> \in Seq(Operation) /\ <<>> \in Seq(Message)
    OBVIOUS
  <1>2. Operations(<<>>) = <<>> /\ Kinds(<<>>) = <<>>
    BY <1>1, OperationsAre, KindsAre
  <1> QED BY <1>2 DEF OpTags, Tags

LEMMA KindsDiffer ==
  ASSUME NEW s \in Tabs, NEW t \in Tabs, s # t
  PROVE  /\ Kind(s, t) = "offer" <=> t < s
         /\ Kind(s, t) = "offer" <=> Kind(t, s) = "answer"
         /\ Kind(s, t) = "answer" <=> Kind(t, s) = "offer"
  <1>1. s \in Nat /\ t \in Nat
    BY SignalingAssumption
  <1> QED BY <1>1 DEF Kind

(* What a tab does leaves what it has no part in as it is.                 *)
LEMMA LinkStill ==
  ASSUME NEW s, NEW t, LinkInv(s, t),
         chan'[s][t] = chan[s][t], ops'[t] = ops[t], page'[s] = page[s], page'[t] = page[t],
         peerId'[t] = peerId[t], sig'[t] = sig[t], local'[s] = local[s], local'[t] = local[t],
         remote'[t] = remote[t], refused'[t] = refused[t]
  PROVE  LinkInv(s, t)'
  BY DEF LinkInv, MessagesOf, OperationsOf, RemoteOf, PagesInv, OneDescription, MadeOnce,
         NotOvertaken, Coming, Making, Tags, OpTags

-----------------------------------------------------------------------------
(* Pages and greetings.                                                    *)

LEMMA GreetingMoves ==
  ASSUME TypeOK, NEW s \in Tabs, NEW t \in Tabs,
         \/ chan'[s][t] = chan[s][t]
         \/ \E m \in Message : m.t = "hello" /\ chan'[s][t] = Append(chan[s][t], m)
         \/ /\ chan[s][t] # <<>> /\ First(s, t).t = "hello"
            /\ chan'[s][t] = Tail(chan[s][t])
  PROVE  /\ In(Tags(s, t)', "sdp") <=> In(Tags(s, t), "sdp")
         /\ Once(Tags(s, t), {"sdp"}) => Once(Tags(s, t)', {"sdp"})
         /\ Led(Tags(s, t), "sdp", "ice") => Led(Tags(s, t)', "sdp", "ice")
         /\ MessagesOf(s, t) => MessagesOf(s, t)'
  <1>1. CASE chan'[s][t] = chan[s][t]
    BY <1>1 DEF Tags, MessagesOf
  <1>2. ASSUME NEW m \in Message, m.t = "hello", chan'[s][t] = Append(chan[s][t], m)
        PROVE  /\ In(Tags(s, t)', "sdp") <=> In(Tags(s, t), "sdp")
               /\ Once(Tags(s, t), {"sdp"}) => Once(Tags(s, t)', {"sdp"})
               /\ Led(Tags(s, t), "sdp", "ice") => Led(Tags(s, t)', "sdp", "ice")
               /\ MessagesOf(s, t) => MessagesOf(s, t)'
    <2>1. /\ Range(chan'[s][t]) = Range(chan[s][t]) \cup {m}
          /\ In(Tags(s, t)', "sdp") <=> In(Tags(s, t), "sdp") \/ m.t = "sdp"
          /\ Once(Tags(s, t), {"sdp"}) /\ m.t # "sdp" => Once(Tags(s, t)', {"sdp"})
          /\ Led(Tags(s, t), "sdp", "ice") /\ m.t # "ice" => Led(Tags(s, t)', "sdp", "ice")
      <3>1. /\ Range(chan'[s][t]) = Range(chan[s][t]) \cup {m}
            /\ \A x : In(Tags(s, t)', x) <=> In(Tags(s, t), x) \/ x = m.t
            /\ \A X : Once(Tags(s, t), X) /\ (m.t \in X => \A x \in X : ~In(Tags(s, t), x)) =>
                 Once(Tags(s, t)', X)
            /\ \A x, y : Led(Tags(s, t), x, y) /\ (m.t = y => In(Tags(s, t), x)) =>
                 Led(Tags(s, t)', x, y)
        BY <1>2, MessagePosted
      <3> QED BY <3>1
    <2>2. MessagesOf(s, t) => MessagesOf(s, t)'
      BY <1>2, <2>1 DEF MessagesOf
    <2> QED BY <1>2, <2>1, <2>2
  <1>3. CASE /\ chan[s][t] # <<>> /\ First(s, t).t = "hello"
             /\ chan'[s][t] = Tail(chan[s][t])
    BY <1>3, MessageTaken DEF MessagesOf
  <1> QED BY <1>1, <1>2, <1>3

LEMMA LinkGreeted ==
  ASSUME TypeOK, NEW s \in Tabs, NEW t \in Tabs, LinkInv(s, t), PagesInv(s, t)',
         \/ chan'[s][t] = chan[s][t]
         \/ \E m \in Message : m.t = "hello" /\ chan'[s][t] = Append(chan[s][t], m)
         \/ /\ chan[s][t] # <<>> /\ First(s, t).t = "hello"
            /\ chan'[s][t] = Tail(chan[s][t]),
         page'[t] = "open" => page[t] = "open" \/ local[s] = NoDesc,
         peerId'[t] = NoTab => peerId[t] = NoTab,
         ops'[t] = ops[t], local'[s] = local[s], local'[t] = local[t],
         remote'[t] = remote[t], sig'[t] = sig[t], refused'[t] = refused[t]
  PROVE  LinkInv(s, t)'
  <1>1. /\ In(Tags(s, t)', "sdp") <=> In(Tags(s, t), "sdp")
        /\ Once(Tags(s, t), {"sdp"}) => Once(Tags(s, t)', {"sdp"})
        /\ Led(Tags(s, t), "sdp", "ice") => Led(Tags(s, t)', "sdp", "ice")
        /\ MessagesOf(s, t) => MessagesOf(s, t)'
    BY GreetingMoves
  <1>2. OpTags(t)' = OpTags(t) /\ (OperationsOf(s, t) => OperationsOf(s, t)')
    BY DEF OpTags, OperationsOf
  <1>3. (Coming(s, t)' <=> Coming(s, t)) /\ (Making(t)' <=> Making(t))
    BY <1>1, <1>2 DEF Coming, Making
  <1>4. OneDescription(s, t)'
    BY <1>1, <1>2, <1>3 DEF LinkInv, OneDescription
  <1>5. MadeOnce(s, t)' /\ RemoteOf(s, t)'
    BY <1>2, <1>3 DEF LinkInv, MadeOnce, RemoteOf
  <1>6. NotOvertaken(s, t)'
    BY <1>1, <1>2 DEF LinkInv, NotOvertaken
  <1> QED BY <1>1, <1>2, <1>4, <1>5, <1>6 DEF LinkInv

(* What a tab posts and takes, seen from the two ends of a pair.           *)
LEMMA PostedBetween ==
  ASSUME TypeOK, NEW ch \in Messages, NEW a \in Tabs, NEW b \in Tabs, a # b,
         NEW m \in Message, chan' = Posted(ch, a, m)
  PROVE  /\ chan'[b][a] = ch[b][a]
         /\ chan'[a][b] = IF page[b] = "open" THEN Append(ch[a][b], m) ELSE ch[a][b]
  BY PostedAt

LEMMA OpenLinkInv ==
  ASSUME TypeInv, NEW a \in Tabs, NEW b \in Tabs, a # b, LinkInv(a, b), LinkInv(b, a),
         OpenPage(a)
  PROVE  LinkInv(a, b)' /\ LinkInv(b, a)'
  <1>1. TypeOK /\ chan \in Messages
    BY DEF TypeInv, TypeOK, Messages
  <1>2. chan' = Posted(chan, a, Hello(a)) /\ Hello(a) \in Message /\ Hello(a).t = "hello"
    BY HelloType DEF OpenPage
  <1>3. /\ chan'[b][a] = chan[b][a]
        /\ chan'[a][b] = IF page[b] = "open" THEN Append(chan[a][b], Hello(a)) ELSE chan[a][b]
    BY <1>1, <1>2, PostedBetween
  <1>4. /\ page[a] = "unopened" /\ page'[a] = "open" /\ page'[b] = page[b]
        /\ UNCHANGED <<peerId, ops, sig, local, remote, refused>>
    BY <1>1 DEF OpenPage, TypeOK, pcVars
  <1>5. PagesInv(a, b)' /\ PagesInv(b, a)'
    BY <1>3, <1>4 DEF LinkInv, PagesInv
  <1>6. local[b] = NoDesc
    BY <1>4 DEF LinkInv, PagesInv
  <1>7. LinkInv(a, b)'
    BY <1>1, <1>2, <1>3, <1>4, <1>5, LinkGreeted
  <1>8. LinkInv(b, a)'
    BY <1>1, <1>3, <1>4, <1>5, <1>6, LinkGreeted
  <1> QED BY <1>7, <1>8

LEMMA CloseLinkInv ==
  ASSUME TypeInv, NEW a \in Tabs, NEW b \in Tabs, a # b, LinkInv(a, b), LinkInv(b, a),
         ClosePage(a)
  PROVE  LinkInv(a, b)' /\ LinkInv(b, a)'
  <1>1. TypeOK
    BY DEF TypeInv
  <1>2. /\ page[a] = "open" /\ page'[a] = "closed" /\ page'[b] = page[b]
        /\ chan'[a][b] = chan[a][b] /\ chan'[b][a] = <<>>
        /\ ops'[b] = ops[b] /\ ops'[a] = <<>>
        /\ UNCHANGED <<peerId, sig, local, remote, refused>>
    BY <1>1 DEF ClosePage, TypeOK, pcVars
  <1>3. PagesInv(a, b)' /\ PagesInv(b, a)'
    BY <1>2 DEF LinkInv, PagesInv
  <1>4. LinkInv(a, b)'
    BY <1>1, <1>2, <1>3, LinkGreeted
  <1>5. OpTags(a)' = <<>> /\ Tags(b, a)' = <<>>
    BY <1>1, <1>2, OpTagsEmpty
  <1>6. ~Coming(b, a)' /\ ~Making(a)'
    BY <1>5, NamesOfEmpty DEF Coming, Making
  <1>7. MessagesOf(b, a)' /\ OperationsOf(b, a)'
    BY <1>2, RangeOfEmpty DEF MessagesOf, OperationsOf
  <1>8. OneDescription(b, a)'
    BY <1>2, <1>5, <1>6, NamesOfEmpty DEF LinkInv, OneDescription
  <1>9. MadeOnce(b, a)' /\ RemoteOf(b, a)' /\ NotOvertaken(b, a)'
    BY <1>2, <1>5, <1>6, NamesOfEmpty DEF LinkInv, MadeOnce, RemoteOf, NotOvertaken
  <1> QED BY <1>2, <1>3, <1>4, <1>7, <1>8, <1>9 DEF LinkInv

-----------------------------------------------------------------------------
(* Messages.  The tab a receives one of b.                                 *)

LEMMA Received ==
  ASSUME TypeInv, NEW a \in Tabs, NEW b \in Tabs, a # b, LinkInv(b, a), OnMessage(a, b)
  PROVE  /\ TypeOK /\ chan \in Messages /\ chan[b][a] # <<>>
         /\ Taken(b, a) \in Messages
         /\ Taken(b, a)[b][a] = Tail(chan[b][a]) /\ Taken(b, a)[a][b] = chan[a][b]
         /\ First(b, a) \in Message /\ First(b, a) \in Range(chan[b][a])
         /\ First(b, a).t = "hello" => First(b, a).id = b
         /\ page[a] = "open" /\ page[b] # "unopened"
         /\ UNCHANGED <<page, sig, local, remote, refused>>
  <1>1. TypeOK /\ ChannelInv(chan) /\ chan \in Messages
    BY TypeInvIs DEF ChannelInv
  <1>2. chan[b][a] # <<>> /\ UNCHANGED <<page, sig, local, remote, refused>>
    BY DEF OnMessage, OnHello, OnLaterHello, OnSdp, OnIce, pcVars
  <1>3. page[a] = "open" /\ page[b] # "unopened"
    BY <1>2 DEF LinkInv, PagesInv
  <1>4. /\ First(b, a) \in Message
        /\ First(b, a).t = "hello" => First(b, a).id = b
    BY <1>1, <1>2, TakenChannel
  <1> QED BY <1>1, <1>2, <1>3, <1>4, TakenAt

LEMMA HelloLinkInv ==
  ASSUME TypeInv, NEW a \in Tabs, NEW b \in Tabs, a # b, LinkInv(a, b), LinkInv(b, a),
         OnHello(a, b)
  PROVE  LinkInv(a, b)' /\ LinkInv(b, a)'
  <1>1. /\ TypeOK /\ Taken(b, a) \in Messages /\ chan[b][a] # <<>>
        /\ Taken(b, a)[b][a] = Tail(chan[b][a]) /\ Taken(b, a)[a][b] = chan[a][b]
        /\ First(b, a).t = "hello" /\ First(b, a).id = b
        /\ page[a] = "open" /\ page[b] # "unopened"
        /\ UNCHANGED <<page, sig, local, remote, refused>>
    BY Received DEF OnMessage, OnHello
  <1>2. /\ chan'[b][a] = Tail(chan[b][a])
        /\ chan'[a][b] = IF page[b] = "open" THEN Append(chan[a][b], Hello(a)) ELSE chan[a][b]
    <2>1. chan' = Posted(Taken(b, a), a, Hello(a)) /\ Hello(a) \in Message
      BY HelloType DEF OnHello, Reply
    <2> QED BY <1>1, <2>1, PostedBetween
  <1>3. /\ peerId[a] = NoTab /\ peerId'[a] = b /\ b # NoTab /\ peerId'[b] = peerId[b]
        /\ ops'[b] = ops[b]
        /\ \/ ops'[a] = ops[a]
           \/ a > b /\ ops'[a] = Append(ops[a], [op |-> "createOffer"])
    BY <1>1, SignalingAssumption DEF OnHello, RoleOf, TypeOK
  <1>4. PagesInv(a, b)' /\ PagesInv(b, a)'
    BY <1>1, <1>2, <1>3 DEF LinkInv, PagesInv
  <1>5. LinkInv(a, b)'
    BY <1>1, <1>2, <1>3, <1>4, HelloType, LinkGreeted
  <1>6. CASE ops'[a] = ops[a]
    BY <1>1, <1>2, <1>3, <1>4, <1>5, <1>6, LinkGreeted
  <1>7. CASE a > b /\ ops'[a] = Append(ops[a], [op |-> "createOffer"])
    <2> DEFINE o == [op |-> "createOffer"]
    <2>1. o \in Operation /\ o.op = "createOffer"
      BY DEF Operation
    <2> HIDE DEF o
    <2>2. /\ Range(ops'[a]) = Range(ops[a]) \cup {o}
          /\ \A x : In(OpTags(a)', x) <=> In(OpTags(a), x) \/ x = "createOffer"
          /\ \A X : Once(OpTags(a), X) /\ ("createOffer" \in X => \A x \in X : ~In(OpTags(a), x))
               => Once(OpTags(a)', X)
          /\ Led(OpTags(a), "setRemote", "addIce") => Led(OpTags(a)', "setRemote", "addIce")
      <3>1. ops'[a] = Append(ops[a], o)
        BY <1>7 DEF o
      <3>2. /\ Range(ops'[a]) = Range(ops[a]) \cup {o}
            /\ \A x : In(OpTags(a)', x) <=> In(OpTags(a), x) \/ x = o.op
            /\ \A X : Once(OpTags(a), X) /\ (o.op \in X => \A x \in X : ~In(OpTags(a), x)) =>
                 Once(OpTags(a)', X)
            /\ \A x, y : Led(OpTags(a), x, y) /\ (o.op = y => In(OpTags(a), x)) =>
                 Led(OpTags(a)', x, y)
        BY <1>1, <2>1, <3>1, OpAdded
      <3> QED BY <2>1, <3>2
    <2>3. Kind(a, b) = "offer" /\ Kind(a, b) # "answer"
      BY <1>7 DEF Kind
    <2>4. /\ In(Tags(b, a)', "sdp") <=> In(Tags(b, a), "sdp")
          /\ Once(Tags(b, a), {"sdp"}) => Once(Tags(b, a)', {"sdp"})
          /\ Led(Tags(b, a), "sdp", "ice") => Led(Tags(b, a)', "sdp", "ice")
          /\ MessagesOf(b, a) => MessagesOf(b, a)'
      BY <1>1, <1>2, GreetingMoves
    <2>5. ~Making(a) /\ local[a] = NoDesc
      BY <1>3, <2>3 DEF LinkInv, MadeOnce
    <2>6. OperationsOf(b, a)'
      BY <2>1, <2>2, <2>3 DEF LinkInv, OperationsOf
    <2>7. OneDescription(b, a)'
      <3>1. Coming(b, a)' <=> Coming(b, a)
        BY <2>2, <2>4 DEF Coming
      <3>2. Once(OpTags(a), {"setRemote"}) => Once(OpTags(a)', {"setRemote"})
        BY <2>2
      <3> QED BY <1>1, <2>2, <2>4, <3>1, <3>2 DEF LinkInv, OneDescription
    <2>8. MadeOnce(b, a)'
      <3>1. \A x \in LocalTags : ~In(OpTags(a), x)
        BY <2>5 DEF Making
      <3>2. Once(OpTags(a)', LocalTags)
        BY <2>2, <3>1 DEF LinkInv, MadeOnce
      <3> QED BY <1>1, <1>3, <2>3, <2>5, <3>2 DEF MadeOnce
    <2>9. NotOvertaken(b, a)' /\ RemoteOf(b, a)'
      BY <1>1, <2>2, <2>4 DEF LinkInv, NotOvertaken, RemoteOf
    <2> QED BY <1>1, <1>4, <1>5, <2>4, <2>6, <2>7, <2>8, <2>9 DEF LinkInv
  <1> QED BY <1>3, <1>6, <1>7

LEMMA LaterHelloLinkInv ==
  ASSUME TypeInv, NEW a \in Tabs, NEW b \in Tabs, a # b, LinkInv(a, b), LinkInv(b, a),
         OnLaterHello(a, b)
  PROVE  LinkInv(a, b)' /\ LinkInv(b, a)'
  <1>1. /\ TypeOK /\ Taken(b, a) \in Messages /\ chan[b][a] # <<>>
        /\ Taken(b, a)[b][a] = Tail(chan[b][a]) /\ Taken(b, a)[a][b] = chan[a][b]
        /\ First(b, a).t = "hello"
        /\ page[a] = "open" /\ page[b] # "unopened"
        /\ UNCHANGED <<page, sig, local, remote, refused, peerId, ops>> /\ chan' = Taken(b, a)
    BY Received DEF OnMessage, OnLaterHello
  <1>2. PagesInv(a, b)' /\ PagesInv(b, a)'
    BY <1>1 DEF LinkInv, PagesInv
  <1>3. LinkInv(a, b)'
    BY <1>1, <1>2, LinkGreeted
  <1>4. LinkInv(b, a)'
    BY <1>1, <1>2, LinkGreeted
  <1> QED BY <1>3, <1>4

(* A message whose handling begins an operation of the same content.       *)
LEMMA Handled ==
  ASSUME TypeInv, NEW a \in Tabs, NEW b \in Tabs, a # b, LinkInv(a, b), LinkInv(b, a),
         OnSdp(a, b) \/ OnIce(a, b), NEW o \in Operation,
         chan' = Taken(b, a), ops' = [ops EXCEPT ![a] = Append(@, o)]
  PROVE  /\ LinkInv(a, b)' /\ PagesInv(b, a)' /\ MessagesOf(b, a)' /\ RemoteOf(b, a)'
         /\ chan[b][a] # <<>> /\ First(b, a) \in Range(chan[b][a])
         /\ Range(ops'[a]) = Range(ops[a]) \cup {o}
         /\ \A x : In(Tags(b, a), x) <=> In(Tags(b, a)', x) \/ x = First(b, a).t
         /\ \A X : Once(Tags(b, a), X) =>
              /\ Once(Tags(b, a)', X)
              /\ First(b, a).t \in X => \A x \in X : ~In(Tags(b, a)', x)
         /\ \A x, y : Led(Tags(b, a), x, y) /\ First(b, a).t # x =>
              Led(Tags(b, a)', x, y) /\ First(b, a).t # y
         /\ \A x : In(OpTags(a)', x) <=> In(OpTags(a), x) \/ x = o.op
         /\ \A X : Once(OpTags(a), X) /\ (o.op \in X => \A x \in X : ~In(OpTags(a), x)) =>
              Once(OpTags(a)', X)
         /\ \A x, y : Led(OpTags(a), x, y) /\ (o.op = y => In(OpTags(a), x)) =>
              Led(OpTags(a)', x, y)
  <1>1. /\ TypeOK /\ chan[b][a] # <<>>
        /\ Taken(b, a)[b][a] = Tail(chan[b][a]) /\ Taken(b, a)[a][b] = chan[a][b]
        /\ First(b, a) \in Range(chan[b][a])
        /\ page[a] = "open" /\ page[b] # "unopened"
        /\ UNCHANGED <<page, sig, local, remote, refused>>
    BY Received DEF OnMessage
  <1>2. /\ chan'[b][a] = Tail(chan[b][a]) /\ chan'[a][b] = chan[a][b]
        /\ ops'[a] = Append(ops[a], o) /\ ops'[b] = ops[b]
        /\ peerId' = peerId
    BY <1>1 DEF OnSdp, OnIce, TypeOK
  <1>3. LinkInv(a, b)'
    BY <1>1, <1>2, LinkStill
  <1>4. PagesInv(b, a)' /\ RemoteOf(b, a)'
    BY <1>1, <1>2 DEF LinkInv, PagesInv, RemoteOf
  <1>5. Range(chan'[b][a]) \subseteq Range(chan[b][a])
    BY <1>1, <1>2, MessageTaken
  <1>6. MessagesOf(b, a)'
    BY <1>5 DEF LinkInv, MessagesOf
  <1>7. /\ \A x : In(Tags(b, a), x) <=> In(Tags(b, a)', x) \/ x = First(b, a).t
        /\ \A X : Once(Tags(b, a), X) =>
             /\ Once(Tags(b, a)', X)
             /\ First(b, a).t \in X => \A x \in X : ~In(Tags(b, a)', x)
        /\ \A x, y : Led(Tags(b, a), x, y) /\ First(b, a).t # x =>
             Led(Tags(b, a)', x, y) /\ First(b, a).t # y
    BY <1>1, <1>2, MessageTaken
  <1>8. /\ Range(ops'[a]) = Range(ops[a]) \cup {o}
        /\ \A x : In(OpTags(a)', x) <=> In(OpTags(a), x) \/ x = o.op
        /\ \A X : Once(OpTags(a), X) /\ (o.op \in X => \A x \in X : ~In(OpTags(a), x)) =>
             Once(OpTags(a)', X)
        /\ \A x, y : Led(OpTags(a), x, y) /\ (o.op = y => In(OpTags(a), x)) =>
             Led(OpTags(a)', x, y)
    BY <1>1, <1>2, OpAdded
  <1> QED BY <1>1, <1>3, <1>4, <1>6, <1>7, <1>8

LEMMA SdpLinkInv ==
  ASSUME TypeInv, NEW a \in Tabs, NEW b \in Tabs, a # b, LinkInv(a, b), LinkInv(b, a),
         OnSdp(a, b)
  PROVE  LinkInv(a, b)' /\ LinkInv(b, a)'
  <1> DEFINE m == First(b, a)
             o == [op |-> "setRemote", sdp |-> m.sdp]
  <1>1. /\ m \in Message /\ m \in Range(chan[b][a]) /\ m.t = "sdp"
        /\ chan' = Taken(b, a) /\ ops' = [ops EXCEPT ![a] = Append(@, o)]
        /\ page' = page /\ sig' = sig /\ local' = local /\ remote' = remote
        /\ refused' = refused /\ peerId' = peerId
    BY Received DEF OnMessage, OnSdp, pcVars
  <1>2. o \in Operation
    BY <1>1, MessageFields DEF Operation
  <1>3. o.sdp.by = b /\ o.sdp.type = Kind(b, a) /\ o.op = "setRemote"
    BY <1>1 DEF LinkInv, MessagesOf
  <1> HIDE DEF o
  <1>4. /\ LinkInv(a, b)' /\ PagesInv(b, a)' /\ MessagesOf(b, a)' /\ RemoteOf(b, a)'
        /\ Range(ops'[a]) = Range(ops[a]) \cup {o}
        /\ \A x : In(Tags(b, a), x) <=> In(Tags(b, a)', x) \/ x = m.t
        /\ \A X : Once(Tags(b, a), X) =>
             /\ Once(Tags(b, a)', X)
             /\ m.t \in X => \A x \in X : ~In(Tags(b, a)', x)
        /\ \A x : In(OpTags(a)', x) <=> In(OpTags(a), x) \/ x = o.op
        /\ \A X : Once(OpTags(a), X) /\ (o.op \in X => \A x \in X : ~In(OpTags(a), x)) =>
             Once(OpTags(a)', X)
        /\ \A x, y : Led(OpTags(a), x, y) /\ (o.op = y => In(OpTags(a), x)) =>
             Led(OpTags(a)', x, y)
    BY <1>1, <1>2, Handled
  <1>5. /\ In(Tags(b, a), "sdp") /\ In(OpTags(a)', "setRemote")
        /\ ~In(OpTags(a), "setRemote") /\ remote[a] = NoDesc /\ local[b] # NoDesc
    BY <1>1, <1>3, <1>4 DEF LinkInv, OneDescription, Coming
  <1>6. /\ ~In(Tags(b, a)', "sdp") /\ Once(Tags(b, a)', {"sdp"})
        /\ Once(OpTags(a)', {"setRemote"}) /\ Coming(b, a)'
    <2>1. Once(Tags(b, a), {"sdp"}) /\ Once(OpTags(a), {"setRemote"})
      BY DEF LinkInv, OneDescription
    <2>2. ~In(Tags(b, a)', "sdp") /\ Once(Tags(b, a)', {"sdp"})
      BY <1>1, <1>4, <2>1
    <2>3. Once(OpTags(a)', {"setRemote"})
      BY <1>3, <1>4, <1>5, <2>1
    <2> QED BY <1>5, <2>2, <2>3 DEF Coming
  <1>7. OneDescription(b, a)'
    BY <1>1, <1>5, <1>6 DEF OneDescription
  <1>8. OperationsOf(b, a)'
    BY <1>3, <1>4 DEF LinkInv, OperationsOf
  <1>9. MadeOnce(b, a)'
    <2>1. Making(a)' <=> Making(a)
      BY <1>3, <1>4 DEF Making, LocalTags
    <2>2. Once(OpTags(a)', LocalTags)
      BY <1>3, <1>4 DEF LinkInv, MadeOnce, LocalTags
    <2> QED BY <1>1, <2>1, <2>2 DEF LinkInv, MadeOnce
  <1>10. NotOvertaken(b, a)'
    BY <1>1, <1>3, <1>4, <1>5 DEF LinkInv, NotOvertaken
  <1> QED BY <1>1, <1>4, <1>7, <1>8, <1>9, <1>10 DEF LinkInv

LEMMA IceLinkInv ==
  ASSUME TypeInv, NEW a \in Tabs, NEW b \in Tabs, a # b, LinkInv(a, b), LinkInv(b, a),
         OnIce(a, b)
  PROVE  LinkInv(a, b)' /\ LinkInv(b, a)'
  <1> DEFINE m == First(b, a)
             o == [op |-> "addIce", c |-> m.c]
  <1>1. /\ m \in Message /\ m \in Range(chan[b][a]) /\ m.t = "ice"
        /\ chan' = Taken(b, a) /\ ops' = [ops EXCEPT ![a] = Append(@, o)]
        /\ page' = page /\ sig' = sig /\ local' = local /\ remote' = remote
        /\ refused' = refused /\ peerId' = peerId
    BY Received DEF OnMessage, OnIce, pcVars
  <1>2. o \in Operation
    BY <1>1, MessageFields DEF Operation
  <1>3. o.c.by = b /\ o.op = "addIce"
    BY <1>1 DEF LinkInv, MessagesOf
  <1> HIDE DEF o
  <1>4. /\ LinkInv(a, b)' /\ PagesInv(b, a)' /\ MessagesOf(b, a)' /\ RemoteOf(b, a)'
        /\ Range(ops'[a]) = Range(ops[a]) \cup {o}
        /\ \A x : In(Tags(b, a), x) <=> In(Tags(b, a)', x) \/ x = m.t
        /\ \A X : Once(Tags(b, a), X) => Once(Tags(b, a)', X)
        /\ \A x, y : Led(Tags(b, a), x, y) /\ m.t # x =>
             Led(Tags(b, a)', x, y) /\ m.t # y
        /\ \A x : In(OpTags(a)', x) <=> In(OpTags(a), x) \/ x = o.op
        /\ \A X : Once(OpTags(a), X) /\ (o.op \in X => \A x \in X : ~In(OpTags(a), x)) =>
             Once(OpTags(a)', X)
        /\ \A x, y : Led(OpTags(a), x, y) /\ (o.op = y => In(OpTags(a), x)) =>
             Led(OpTags(a)', x, y)
    BY <1>1, <1>2, Handled
  <1>5. /\ In(Tags(b, a)', "sdp") <=> In(Tags(b, a), "sdp")
        /\ In(OpTags(a)', "setRemote") <=> In(OpTags(a), "setRemote")
        /\ Making(a)' <=> Making(a)
    BY <1>1, <1>3, <1>4 DEF Making, LocalTags
  <1>6. Once(Tags(b, a)', {"sdp"}) /\ Once(OpTags(a)', {"setRemote"}) /\ Once(OpTags(a)', LocalTags)
    BY <1>3, <1>4 DEF LinkInv, OneDescription, MadeOnce, LocalTags
  <1>7. OneDescription(b, a)'
    BY <1>1, <1>5, <1>6 DEF LinkInv, OneDescription, Coming
  <1>8. OperationsOf(b, a)'
    BY <1>3, <1>4 DEF LinkInv, OperationsOf
  <1>9. MadeOnce(b, a)'
    BY <1>1, <1>5, <1>6 DEF LinkInv, MadeOnce
  <1>10. remote[a] # NoDesc \/ In(OpTags(a), "setRemote")
    BY <1>1, <1>4 DEF LinkInv, NotOvertaken
  <1>11. NotOvertaken(b, a)'
    BY <1>1, <1>3, <1>4, <1>5, <1>10 DEF LinkInv, NotOvertaken
  <1> QED BY <1>1, <1>4, <1>7, <1>8, <1>9, <1>11 DEF LinkInv

-----------------------------------------------------------------------------
(* Operations of the peer connection of a.                                 *)

(* One that ends, other than setRemoteDescription.                         *)
LEMMA OpEnds ==
  ASSUME TypeOK, NEW a \in Tabs, NEW b \in Tabs, a # b, LinkInv(a, b), LinkInv(b, a),
         ops[a] # <<>>, Head(ops[a]).op # "setRemote", Finished(a),
         UNCHANGED <<page, chan, peerId, sig, local, remote, refused>>
  PROVE  LinkInv(a, b)' /\ LinkInv(b, a)'
  <1>1. ops'[a] = Tail(ops[a]) /\ ops'[b] = ops[b]
    BY DEF Finished, TypeOK
  <1>2. LinkInv(a, b)'
    BY <1>1, LinkStill
  <1>3. /\ Range(ops'[a]) \subseteq Range(ops[a])
        /\ \A x : In(OpTags(a), x) <=> In(OpTags(a)', x) \/ x = Head(ops[a]).op
        /\ \A X : Once(OpTags(a), X) => Once(OpTags(a)', X)
        /\ Led(OpTags(a), "setRemote", "addIce") => Led(OpTags(a)', "setRemote", "addIce")
    BY <1>1, OpDone
  <1>4. /\ In(OpTags(a)', "setRemote") <=> In(OpTags(a), "setRemote")
        /\ Making(a)' => Making(a)
        /\ Tags(b, a)' = Tags(b, a)
    BY <1>3 DEF Making, Tags
  <1>5. page[a] = "open"
    BY DEF LinkInv, PagesInv
  <1>6. PagesInv(b, a)' /\ MessagesOf(b, a)' /\ RemoteOf(b, a)'
    BY <1>5 DEF LinkInv, PagesInv, MessagesOf, RemoteOf
  <1>7. OperationsOf(b, a)'
    BY <1>3 DEF LinkInv, OperationsOf
  <1>8. OneDescription(b, a)'
    BY <1>3, <1>4 DEF LinkInv, OneDescription, Coming
  <1>9. MadeOnce(b, a)'
    BY <1>3, <1>4 DEF LinkInv, MadeOnce
  <1>10. NotOvertaken(b, a)'
    BY <1>3, <1>4 DEF LinkInv, NotOvertaken
  <1> QED BY <1>2, <1>6, <1>7, <1>8, <1>9, <1>10 DEF LinkInv

(* A description is created, to be set next.                               *)
LEMMA OpGoesOn ==
  ASSUME TypeOK, NEW a \in Tabs, NEW b \in Tabs, a # b, LinkInv(a, b), LinkInv(b, a),
         ops[a] # <<>>, Head(ops[a]).op \in {"createOffer", "createAnswer"},
         NEW o \in Operation, o.op = "setLocal", o.sdp.by = a, o.sdp.type = Kind(a, b),
         GoesOn(a, o),
         UNCHANGED <<page, chan, peerId, sig, local, remote, refused>>
  PROVE  LinkInv(a, b)' /\ LinkInv(b, a)'
  <1>1. ops'[a] = Append(Tail(ops[a]), o) /\ ops'[b] = ops[b]
    BY DEF GoesOn, TypeOK
  <1>2. LinkInv(a, b)'
    BY <1>1, LinkStill
  <1>3. /\ Range(ops'[a]) \subseteq Range(ops[a]) \cup {o}
        /\ \A x : In(OpTags(a), x) => In(OpTags(a)', x) \/ x = Head(ops[a]).op
        /\ \A x : In(OpTags(a)', x) => In(OpTags(a), x) \/ x = o.op
        /\ In(OpTags(a), Head(ops[a]).op)
        /\ \A X : Once(OpTags(a), X) /\ o.op \notin X => Once(OpTags(a)', X)
        /\ \A X : Once(OpTags(a), X) /\ Head(ops[a]).op \in X => Once(OpTags(a)', X)
        /\ \A x, y : Led(OpTags(a), x, y) /\ Head(ops[a]).op # x /\ o.op # y =>
             Led(OpTags(a)', x, y)
    BY <1>1, OpReplaced
  <1>4. /\ In(OpTags(a)', "setRemote") <=> In(OpTags(a), "setRemote")
        /\ Making(a)
        /\ Tags(b, a)' = Tags(b, a)
        /\ Led(OpTags(a), "setRemote", "addIce") => Led(OpTags(a)', "setRemote", "addIce")
    BY <1>3 DEF Making, Tags, LocalTags
  <1>5. /\ Once(OpTags(a), {"setRemote"}) => Once(OpTags(a)', {"setRemote"})
        /\ Once(OpTags(a), LocalTags) => Once(OpTags(a)', LocalTags)
    BY <1>3 DEF LocalTags
  <1>6. page[a] = "open"
    BY DEF LinkInv, PagesInv
  <1>7. PagesInv(b, a)' /\ MessagesOf(b, a)' /\ RemoteOf(b, a)'
    BY <1>6 DEF LinkInv, PagesInv, MessagesOf, RemoteOf
  <1>8. OperationsOf(b, a)'
    BY <1>3 DEF LinkInv, OperationsOf
  <1>9. OneDescription(b, a)'
    BY <1>4, <1>5 DEF LinkInv, OneDescription, Coming
  <1>10. MadeOnce(b, a)'
    BY <1>4, <1>5 DEF LinkInv, MadeOnce
  <1>11. NotOvertaken(b, a)'
    BY <1>4 DEF LinkInv, NotOvertaken
  <1> QED BY <1>2, <1>7, <1>8, <1>9, <1>10, <1>11 DEF LinkInv

LEMMA CreateLinkInv ==
  ASSUME TypeInv, NEW a \in Tabs, NEW b \in Tabs, a # b, LinkInv(a, b), LinkInv(b, a),
         CreateOffer(a) \/ CreateAnswer(a)
  PROVE  LinkInv(a, b)' /\ LinkInv(b, a)'
  <1>1. /\ TypeOK /\ ops[a] # <<>>
        /\ Head(ops[a]).op \in {"createOffer", "createAnswer"}
        /\ Head(ops[a]) \in Range(ops[a])
        /\ UNCHANGED <<page, chan, peerId, sig, local, remote, refused>>
    <2>1. TypeOK /\ ops[a] # <<>>
      BY DEF TypeInv, CreateOffer, CreateAnswer, Pending
    <2>2. ops[a] \in Seq(Operation)
      BY <2>1 DEF TypeOK
    <2> QED BY <2>1, <2>2, RangeOfTail DEF CreateOffer, CreateAnswer, Pending, pcVars
  <1>2. CASE Finished(a)
    BY <1>1, <1>2, OpEnds
  <1>3. CASE CreateOffer(a) /\ GoesOn(a, [op |-> "setLocal", sdp |-> Offer(a)])
    <2> DEFINE o == [op |-> "setLocal", sdp |-> Offer(a)]
    <2>1. Head(ops[a]).op = "createOffer"
      BY <1>3 DEF CreateOffer, Pending
    <2>2. Kind(a, b) = "offer"
      BY <1>1, <2>1 DEF LinkInv, OperationsOf
    <2>3. o \in Operation /\ o.op = "setLocal" /\ o.sdp.by = a /\ o.sdp.type = Kind(a, b)
      BY <2>2 DEF Operation, Offer, Desc
    <2> QED BY <1>1, <1>3, <2>3, OpGoesOn
  <1>4. CASE /\ CreateAnswer(a) /\ sig[a] = "have-remote-offer"
             /\ GoesOn(a, [op |-> "setLocal", sdp |-> Answer(a, remote[a])])
    <2> DEFINE o == [op |-> "setLocal", sdp |-> Answer(a, remote[a])]
    <2>1. Head(ops[a]).op = "createAnswer"
      BY <1>4 DEF CreateAnswer, Pending
    <2>2. Kind(a, b) = "answer"
      BY <1>1, <2>1 DEF LinkInv, OperationsOf
    <2>3. remote[a] \in Desc
      BY <1>4, TypeInvIs
    <2>4. o \in Operation /\ o.op = "setLocal" /\ o.sdp.by = a /\ o.sdp.type = Kind(a, b)
      BY <2>2, <2>3 DEF Operation, Answer, Desc
    <2> QED BY <1>1, <1>4, <2>4, OpGoesOn
  <1> QED BY <1>2, <1>3, <1>4 DEF CreateOffer, CreateAnswer

LEMMA AddIceLinkInv ==
  ASSUME TypeInv, NEW a \in Tabs, NEW b \in Tabs, a # b, LinkInv(a, b), LinkInv(b, a),
         AddIce(a)
  PROVE  LinkInv(a, b)' /\ LinkInv(b, a)'
  <1>1. /\ TypeOK /\ ops[a] # <<>> /\ Head(ops[a]).op = "addIce"
        /\ UNCHANGED <<page, chan, peerId, sig, local, remote>> /\ Finished(a)
    BY DEF TypeInv, AddIce, Pending
  <1>2. Head(ops[a]).c.by = b
    <2>1. ops[a] \in Seq(Operation)
      BY <1>1 DEF TypeOK
    <2>2. Head(ops[a]) \in Range(ops[a])
      BY <1>1, <2>1, RangeOfTail
    <2> QED BY <1>1, <2>2 DEF LinkInv, OperationsOf
  <1>3. remote[a] # NoDesc
    <2>1. ops'[a] = Tail(ops[a])
      BY <1>1 DEF Finished, TypeOK
    <2>2. ~Led(OpTags(a), "setRemote", "addIce")
      BY <1>1, <2>1, OpDone
    <2> QED BY <2>2 DEF LinkInv, NotOvertaken
  <1>4. remote[a].by = b
    BY <1>3 DEF LinkInv, RemoteOf
  <1>5. refused' = refused
    BY <1>2, <1>3, <1>4 DEF AddIce
  <1> QED BY <1>1, <1>5, OpEnds

LEMMA SetLocalLinkInv ==
  ASSUME TypeInv, NEW a \in Tabs, NEW b \in Tabs, a # b, LinkInv(a, b), LinkInv(b, a),
         SetLocal(a)
  PROVE  LinkInv(a, b)' /\ LinkInv(b, a)'
  <1> DEFINE d == Head(ops[a]).sdp
             m == [t |-> "sdp", sdp |-> d]
  <1>1. /\ TypeOK /\ chan \in Messages /\ ops[a] # <<>> /\ Head(ops[a]).op = "setLocal"
        /\ Finished(a) /\ UNCHANGED <<page, peerId, remote, refused>>
    BY DEF TypeInv, TypeOK, SetLocal, Pending, Messages
  <1>2. CASE UNCHANGED <<local, sig, chan>>
    BY <1>1, <1>2, OpEnds
  <1>3. CASE LocalIsLegal(a, d)
    <2>1. d \in Desc /\ d.by = a /\ d.type = Kind(a, b)
      <3>1. ops[a] \in Seq(Operation)
        BY <1>1 DEF TypeOK
      <3>2. Head(ops[a]) \in Range(ops[a]) /\ Head(ops[a]) \in Operation
        BY <1>1, <3>1, RangeOfTail
      <3> QED BY <1>1, <3>2, OperationFields DEF LinkInv, OperationsOf
    <2>2. m \in Message /\ m.t = "sdp" /\ m.sdp = d
      BY <2>1 DEF Message
    <2>3. /\ local' = [local EXCEPT ![a] = d]
          /\ sig' = [sig EXCEPT ![a] = IF d.type = "offer" THEN "have-local-offer" ELSE "stable"]
          /\ chan' = Posted(chan, a, m)
      BY <1>3 DEF SetLocal, Announced
    <2> HIDE DEF d, m
    <2>4. /\ chan'[b][a] = chan[b][a]
          /\ chan'[a][b] = IF page[b] = "open" THEN Append(chan[a][b], m) ELSE chan[a][b]
      BY <1>1, <2>2, <2>3, PostedBetween
    <2>5. /\ ops'[a] = Tail(ops[a]) /\ ops'[b] = ops[b]
          /\ local'[a] = d /\ local'[a] # NoDesc /\ local'[b] = local[b]
          /\ sig'[a] = (IF d.type = "offer" THEN "have-local-offer" ELSE "stable")
          /\ sig'[b] = sig[b]
      BY <1>1, <2>1, <2>3, DescType DEF Finished, TypeOK
    <2>6. /\ Range(ops'[a]) \subseteq Range(ops[a])
          /\ \A x : In(OpTags(a), x) <=> In(OpTags(a)', x) \/ x = "setLocal"
          /\ \A X : Once(OpTags(a), X) =>
               /\ Once(OpTags(a)', X)
               /\ "setLocal" \in X => \A x \in X : ~In(OpTags(a)', x)
          /\ Led(OpTags(a), "setRemote", "addIce") => Led(OpTags(a)', "setRemote", "addIce")
      BY <1>1, <2>5, OpDone
    <2>7. /\ Making(a) /\ ~Making(a)'
          /\ In(OpTags(a)', "setRemote") <=> In(OpTags(a), "setRemote")
          /\ Tags(b, a)' = Tags(b, a)
      <3>1. Once(OpTags(a), LocalTags)
        BY DEF LinkInv, MadeOnce
      <3> QED BY <2>4, <2>6, <3>1 DEF Making, Tags, LocalTags
    <2>8. local[a] = NoDesc /\ ~Coming(a, b) /\ remote[b] = NoDesc
      BY <2>7 DEF LinkInv, MadeOnce, OneDescription
    <2>9. page[a] = "open" /\ page[b] # "unopened"
      <3>1. page[a] = "open"
        BY <1>1 DEF LinkInv, PagesInv
      <3>2. Kind(a, b) = "offer" => peerId[a] # NoTab
        BY <2>7 DEF LinkInv, MadeOnce
      <3>3. Kind(a, b) = "answer" => local[b] # NoDesc
        BY <2>7 DEF LinkInv, MadeOnce, OneDescription
      <3> QED BY <3>1, <3>2, <3>3 DEF LinkInv, PagesInv, Kind
    <2>10. LinkInv(a, b)'
      <3>1. OpTags(b)' = OpTags(b) /\ (Making(b)' <=> Making(b))
        BY <2>5 DEF OpTags, Making
      <3>2. CASE page[b] = "open"
        <4>1. /\ Range(chan'[a][b]) = Range(chan[a][b]) \cup {m}
              /\ \A x : In(Tags(a, b)', x) <=> In(Tags(a, b), x) \/ x = m.t
              /\ \A X : Once(Tags(a, b), X) /\ (m.t \in X => \A x \in X : ~In(Tags(a, b), x)) =>
                   Once(Tags(a, b)', X)
              /\ \A x, y : Led(Tags(a, b), x, y) /\ (m.t = y => In(Tags(a, b), x)) =>
                   Led(Tags(a, b)', x, y)
          BY <1>1, <2>2, <2>4, <3>2, MessagePosted
        <4>2. /\ Coming(a, b)' /\ ~In(Tags(a, b), "sdp") /\ ~In(OpTags(b), "setRemote")
              /\ Once(Tags(a, b)', {"sdp"})
              /\ Led(Tags(a, b), "sdp", "ice") => Led(Tags(a, b)', "sdp", "ice")
          BY <2>2, <2>8, <4>1 DEF Coming, LinkInv, OneDescription
        <4>3. MessagesOf(a, b)' /\ OperationsOf(a, b)' /\ RemoteOf(a, b)'
          BY <1>1, <2>1, <2>2, <2>5, <4>1 DEF LinkInv, MessagesOf, OperationsOf, RemoteOf
        <4>4. PagesInv(a, b)'
          BY <1>1, <2>5, <2>9, <3>2 DEF PagesInv
        <4>5. OneDescription(a, b)'
          BY <1>1, <2>5, <2>8, <3>1, <4>2 DEF LinkInv, OneDescription
        <4>6. MadeOnce(a, b)'
          BY <1>1, <2>5, <3>1 DEF LinkInv, MadeOnce
        <4>7. NotOvertaken(a, b)'
          BY <1>1, <3>1, <4>2 DEF LinkInv, NotOvertaken
        <4> QED BY <1>1, <4>3, <4>4, <4>5, <4>6, <4>7 DEF LinkInv
      <3>3. CASE page[b] # "open"
        <4>1. Tags(a, b)' = Tags(a, b) /\ chan'[a][b] = chan[a][b]
          BY <2>4, <3>3 DEF Tags
        <4>2. MessagesOf(a, b)' /\ OperationsOf(a, b)' /\ RemoteOf(a, b)'
          BY <1>1, <2>5, <4>1 DEF LinkInv, MessagesOf, OperationsOf, RemoteOf
        <4>3. PagesInv(a, b)'
          BY <1>1, <2>5, <2>9, <4>1 DEF LinkInv, PagesInv
        <4>4. OneDescription(a, b)'
          BY <1>1, <2>5, <3>1, <3>3, <4>1 DEF LinkInv, OneDescription, Coming
        <4>5. MadeOnce(a, b)'
          BY <1>1, <2>5, <3>1 DEF LinkInv, MadeOnce
        <4>6. NotOvertaken(a, b)'
          BY <1>1, <3>1, <4>1 DEF LinkInv, NotOvertaken
        <4> QED BY <1>1, <4>2, <4>3, <4>4, <4>5, <4>6 DEF LinkInv
      <3> QED BY <3>2, <3>3
    <2>11. LinkInv(b, a)'
      <3>1. MessagesOf(b, a)' /\ OperationsOf(b, a)' /\ RemoteOf(b, a)' /\ PagesInv(b, a)'
        BY <1>1, <2>4, <2>5, <2>6, <2>9 DEF LinkInv, MessagesOf, OperationsOf, RemoteOf, PagesInv
      <3>2. OneDescription(b, a)'
        BY <1>1, <2>5, <2>6, <2>7 DEF LinkInv, OneDescription, Coming
      <3>3. MadeOnce(b, a)'
        <4>1. Once(OpTags(a)', LocalTags)
          BY <2>6 DEF LinkInv, MadeOnce
        <4>2. Kind(a, b) = "offer" => sig'[a] = "have-local-offer" /\ peerId[a] # NoTab
          BY <2>1, <2>5, <2>7 DEF LinkInv, MadeOnce
        <4>3. Kind(a, b) = "answer" => sig'[a] = "stable" /\ remote[a] # NoDesc
          BY <2>1, <2>5, <2>7 DEF LinkInv, MadeOnce
        <4> QED BY <1>1, <2>7, <4>1, <4>2, <4>3 DEF MadeOnce
      <3>4. NotOvertaken(b, a)'
        BY <1>1, <2>6, <2>7 DEF LinkInv, NotOvertaken
      <3> QED BY <1>1, <3>1, <3>2, <3>3, <3>4 DEF LinkInv
    <2> QED BY <2>10, <2>11
  <1> QED BY <1>2, <1>3 DEF SetLocal

(* The description of b comes once, where it is expected: it is applied.   *)
LEMMA SetRemoteLinkInv ==
  ASSUME TypeInv, NEW a \in Tabs, NEW b \in Tabs, a # b, LinkInv(a, b), LinkInv(b, a),
         SetRemote(a)
  PROVE  LinkInv(a, b)' /\ LinkInv(b, a)'
  <1> DEFINE d == Head(ops[a]).sdp
             o == [op |-> "createAnswer"]
  <1>1. /\ TypeOK /\ ops[a] # <<>> /\ Head(ops[a]).op = "setRemote"
        /\ ops[a] \in Seq(Operation)
        /\ UNCHANGED <<page, chan, peerId, refused>>
    BY DEF TypeInv, TypeOK, SetRemote, Pending
  <1>2. d \in Desc /\ d.by = b /\ d.type = Kind(b, a)
    <2>1. Head(ops[a]) \in Range(ops[a]) /\ Head(ops[a]) \in Operation
      BY <1>1, RangeOfTail
    <2> QED BY <1>1, <2>1, OperationFields DEF LinkInv, OperationsOf
  <1>3. In(OpTags(a), "setRemote")
    <2>1. /\ OpTags(a) \in Seq(OpNames) /\ OpTags(a) # <<>>
          /\ Head(OpTags(a)) = "setRemote"
      BY <1>1, OperationsAre DEF OpTags
    <2> QED BY <2>1, NamesOfTail
  <1>4. /\ remote[a] = NoDesc /\ local[b] # NoDesc
        /\ ~In(Tags(b, a), "sdp") /\ Once(OpTags(a), {"setRemote"})
    BY <1>3 DEF LinkInv, OneDescription, Coming
  <1>5. Kind(b, a) = "answer" => Kind(a, b) = "offer" /\ sig[a] = "have-local-offer"
    <2>1. SUFFICES ASSUME Kind(b, a) = "answer"
                   PROVE  Kind(a, b) = "offer" /\ sig[a] = "have-local-offer"
      OBVIOUS
    <2>2. Kind(a, b) = "offer"
      BY <2>1, KindsDiffer
    <2>3. remote[b] # NoDesc
      BY <1>4, <2>1 DEF LinkInv, MadeOnce
    <2>4. local[a] # NoDesc
      BY <2>3 DEF LinkInv, OneDescription
    <2> QED BY <1>4, <2>2, <2>4 DEF LinkInv, MadeOnce
  <1>6. Kind(b, a) = "offer" => /\ Kind(a, b) = "answer" /\ sig[a] # "have-local-offer"
                                /\ ~Making(a) /\ local[a] = NoDesc
    <2>1. SUFFICES ASSUME Kind(b, a) = "offer"
                   PROVE  /\ Kind(a, b) = "answer" /\ sig[a] # "have-local-offer"
                          /\ ~Making(a) /\ local[a] = NoDesc
      OBVIOUS
    <2>2. Kind(a, b) = "answer"
      BY <2>1, KindsDiffer
    <2> QED BY <1>4, <2>2 DEF LinkInv, MadeOnce
  <1>7. ApplyRemote(a, d)
    <2>1. RemoteIsLegal(a, d) /\ ~Renegotiates(a, d)
      BY <1>2, <1>4, <1>5 DEF RemoteIsLegal, Renegotiates, Kind
    <2> QED BY <2>1 DEF SetRemote
  <1>8. /\ remote'[a] = d /\ d # NoDesc /\ remote'[b] = remote[b]
        /\ sig'[a] = (IF d.type = "offer" THEN "have-remote-offer" ELSE "stable")
        /\ sig'[b] = sig[b]
        /\ local' = local /\ ops'[b] = ops[b]
        /\ IF d.type = "offer" THEN ops'[a] = Append(Tail(ops[a]), o)
                               ELSE ops'[a] = Tail(ops[a])
    <2>1. ~(d.type = "offer" /\ sig[a] = "have-local-offer")
      BY <1>2, <1>6
    <2>2. d # NoDesc
      BY <1>2, DescType
    <2>3. remote' = [remote EXCEPT ![a] = d] /\ local' = local
          /\ sig' = [sig EXCEPT ![a] = IF d.type = "offer" THEN "have-remote-offer" ELSE "stable"]
      BY <1>7, <2>1 DEF ApplyRemote
    <2>4. /\ ops'[b] = ops[b]
          /\ IF d.type = "offer" THEN ops'[a] = Append(Tail(ops[a]), o)
                                 ELSE ops'[a] = Tail(ops[a])
      BY <1>1, <1>7 DEF ApplyRemote, GoesOn, Finished, TypeOK
    <2> HIDE DEF d, o
    <2> QED BY <1>1, <2>2, <2>3, <2>4 DEF TypeOK
  <1>9. LinkInv(a, b)'
    BY <1>1, <1>8, LinkStill
  <1>10. o \in Operation /\ o.op = "createAnswer"
    BY DEF Operation
  <1> HIDE DEF d, o
  <1>11. /\ Range(ops'[a]) \subseteq Range(ops[a]) \cup (IF d.type = "offer" THEN {o} ELSE {})
         /\ ~In(OpTags(a)', "setRemote") /\ Once(OpTags(a)', {"setRemote"})
         /\ Making(a)' => Making(a) \/ d.type = "offer"
         /\ Once(OpTags(a)', LocalTags)
    <2>1. CASE d.type = "offer"
      <3>1. /\ Range(ops'[a]) \subseteq Range(ops[a]) \cup {o}
            /\ \A x : In(OpTags(a)', x) => In(OpTags(a), x) \/ x = o.op
            /\ \A X : Once(OpTags(a), X) /\ o.op \notin X =>
                 /\ Once(OpTags(a)', X)
                 /\ Head(ops[a]).op \in X => \A x \in X : ~In(OpTags(a)', x)
            /\ \A X : Once(OpTags(a), X) /\ (\A x \in X : ~In(OpTags(a), x)) => Once(OpTags(a)', X)
        BY <1>1, <1>8, <1>10, <2>1, OpReplaced
      <3>2. \A x \in LocalTags : ~In(OpTags(a), x)
        BY <1>2, <1>6, <2>1 DEF Making
      <3>3. Once(OpTags(a)', LocalTags)
        BY <3>1, <3>2 DEF LinkInv, MadeOnce
      <3>4. ~In(OpTags(a)', "setRemote") /\ Once(OpTags(a)', {"setRemote"})
        BY <1>1, <1>4, <1>10, <3>1
      <3> QED BY <2>1, <3>1, <3>3, <3>4
    <2>2. CASE d.type # "offer"
      <3>1. /\ Range(ops'[a]) \subseteq Range(ops[a])
            /\ \A x : In(OpTags(a), x) <=> In(OpTags(a)', x) \/ x = Head(ops[a]).op
            /\ \A X : Once(OpTags(a), X) =>
                 /\ Once(OpTags(a)', X)
                 /\ Head(ops[a]).op \in X => \A x \in X : ~In(OpTags(a)', x)
        BY <1>1, <1>8, <2>2, OpDone
      <3>2. Making(a)' => Making(a)
        BY <3>1 DEF Making
      <3>3. ~In(OpTags(a)', "setRemote") /\ Once(OpTags(a)', {"setRemote"})
        BY <1>1, <1>4, <3>1
      <3> QED BY <2>2, <3>1, <3>2, <3>3 DEF LinkInv, MadeOnce
    <2> QED BY <2>1, <2>2
  <1>12. Tags(b, a)' = Tags(b, a) /\ ~Coming(b, a)'
    BY <1>1, <1>4, <1>11 DEF Tags, Coming
  <1>13. page[a] = "open"
    BY <1>1 DEF LinkInv, PagesInv
  <1>14. MessagesOf(b, a)' /\ RemoteOf(b, a)' /\ PagesInv(b, a)'
    BY <1>1, <1>2, <1>8, <1>13 DEF LinkInv, MessagesOf, RemoteOf, PagesInv
  <1>15. OperationsOf(b, a)'
    BY <1>2, <1>6, <1>10, <1>11 DEF LinkInv, OperationsOf
  <1>16. OneDescription(b, a)'
    BY <1>4, <1>8, <1>11, <1>12 DEF LinkInv, OneDescription
  <1>17. MadeOnce(b, a)'
    <2>1. CASE Kind(b, a) = "offer"
      BY <1>1, <1>2, <1>6, <1>8, <1>11, <2>1 DEF MadeOnce
    <2>2. CASE Kind(b, a) = "answer"
      BY <1>1, <1>2, <1>5, <1>8, <1>11, <2>2 DEF LinkInv, MadeOnce
    <2> QED BY <2>1, <2>2 DEF Kind
  <1>18. NotOvertaken(b, a)'
    BY <1>8 DEF NotOvertaken
  <1> QED BY <1>1, <1>9, <1>14, <1>15, <1>16, <1>17, <1>18 DEF LinkInv

LEMMA CandidateLinkInv ==
  ASSUME TypeInv, NEW a \in Tabs, NEW b \in Tabs, a # b, LinkInv(a, b), LinkInv(b, a),
         OnIceCandidate(a)
  PROVE  LinkInv(a, b)' /\ LinkInv(b, a)'
  <1> DEFINE m == [t |-> "ice", c |-> [by |-> a, no |-> gathered[a] + 1]]
  <1>1. /\ TypeOK /\ chan \in Messages /\ page[a] = "open" /\ local[a] # NoDesc
        /\ UNCHANGED <<page, peerId, ops, sig, local, remote, refused>>
        /\ chan' = Posted(chan, a, m)
    BY DEF TypeInv, TypeOK, Messages, OnIceCandidate, pcVars
  <1>2. m \in Message /\ m.t = "ice" /\ m.c.by = a
    <2>1. gathered[a] + 1 \in 1..MaxIce
      BY <1>1, SignalingAssumption DEF OnIceCandidate, TypeOK
    <2> QED BY <2>1 DEF Message, Candidate
  <1> HIDE DEF m
  <1>3. /\ chan'[b][a] = chan[b][a]
        /\ chan'[a][b] = IF page[b] = "open" THEN Append(chan[a][b], m) ELSE chan[a][b]
    BY <1>1, <1>2, PostedBetween
  <1>4. LinkInv(b, a)'
    BY <1>1, <1>3, LinkStill
  <1>5. CASE page[b] # "open"
    BY <1>1, <1>3, <1>4, <1>5, LinkStill
  <1>6. CASE page[b] = "open"
    <2>1. /\ Range(chan'[a][b]) = Range(chan[a][b]) \cup {m}
          /\ \A x : In(Tags(a, b)', x) <=> In(Tags(a, b), x) \/ x = m.t
          /\ \A X : Once(Tags(a, b), X) /\ (m.t \in X => \A x \in X : ~In(Tags(a, b), x)) =>
               Once(Tags(a, b)', X)
          /\ \A x, y : Led(Tags(a, b), x, y) /\ (m.t = y => In(Tags(a, b), x)) =>
               Led(Tags(a, b)', x, y)
      BY <1>1, <1>2, <1>3, <1>6, MessagePosted
    <2>2. /\ In(Tags(a, b)', "sdp") <=> In(Tags(a, b), "sdp")
          /\ Once(Tags(a, b), {"sdp"}) => Once(Tags(a, b)', {"sdp"})
          /\ Led(Tags(a, b), "sdp", "ice") /\ In(Tags(a, b), "sdp") =>
               Led(Tags(a, b)', "sdp", "ice")
      BY <1>2, <2>1
    <2>3. OpTags(b)' = OpTags(b) /\ (Making(b)' <=> Making(b)) /\ (Coming(a, b)' <=> Coming(a, b))
      BY <1>1, <2>2 DEF OpTags, Making, Coming
    <2>4. Coming(a, b) \/ remote[b] # NoDesc
      BY <1>1, <1>6 DEF LinkInv, OneDescription
    <2>5. MessagesOf(a, b)' /\ OperationsOf(a, b)' /\ RemoteOf(a, b)'
      BY <1>1, <1>2, <2>1 DEF LinkInv, MessagesOf, OperationsOf, RemoteOf
    <2>6. PagesInv(a, b)'
      BY <1>1, <1>6 DEF PagesInv
    <2>7. OneDescription(a, b)'
      BY <1>1, <2>2, <2>3 DEF LinkInv, OneDescription
    <2>8. MadeOnce(a, b)'
      BY <1>1, <2>3 DEF LinkInv, MadeOnce
    <2>9. NotOvertaken(a, b)'
      BY <1>1, <2>2, <2>3, <2>4 DEF LinkInv, NotOvertaken, Coming
    <2> QED BY <1>1, <1>4, <2>5, <2>6, <2>7, <2>8, <2>9 DEF LinkInv
  <1> QED BY <1>5, <1>6

-----------------------------------------------------------------------------
LEMMA InitPairInv == Init => PairInv
  <1> SUFFICES ASSUME Init, NEW s \in Tabs, NEW t \in Tabs, s # t PROVE LinkInv(s, t)
    BY DEF PairInv
  <1>1. /\ chan[s][t] = <<>> /\ ops[t] = <<>> /\ remote[t] = NoDesc /\ refused[t] = {}
        /\ local[s] = NoDesc /\ local[t] = NoDesc /\ peerId[t] = NoTab /\ sig[t] = "stable"
    BY DEF Init
  <1>2. OpTags(t) = <<>> /\ Tags(s, t) = <<>>
    <2>1. <<>> \in Seq(Operation) /\ <<>> \in Seq(Message)
      OBVIOUS
    <2> QED BY <1>1, <2>1, OperationsAre, KindsAre DEF OpTags, Tags
  <1>3. ~Coming(s, t) /\ ~Making(t)
    BY <1>2, NamesOfEmpty DEF Coming, Making
  <1>4. MessagesOf(s, t) /\ OperationsOf(s, t) /\ RemoteOf(s, t) /\ PagesInv(s, t)
    BY <1>1, RangeOfEmpty DEF MessagesOf, OperationsOf, RemoteOf, PagesInv
  <1>5. OneDescription(s, t) /\ MadeOnce(s, t) /\ NotOvertaken(s, t)
    BY <1>1, <1>2, <1>3, NamesOfEmpty DEF OneDescription, MadeOnce, NotOvertaken
  <1> QED BY <1>1, <1>4, <1>5 DEF LinkInv

LEMMA NextPairInv ==
  ASSUME Pair
  PROVE  TypeInv /\ PairInv /\ [Next]_vars => PairInv'
  <1> SUFFICES ASSUME TypeInv, PairInv, [Next]_vars PROVE PairInv'
    OBVIOUS
  <1>1. ASSUME NEW a \in Tabs
        PROVE  \E b \in Tabs : a # b /\ Tabs = {a, b} /\ LinkInv(a, b) /\ LinkInv(b, a)
    BY DEF Pair, PairInv
  <1>2. ASSUME NEW a \in Tabs, NEW b \in Tabs, Tabs = {a, b}, LinkInv(a, b)', LinkInv(b, a)'
        PROVE  PairInv'
    BY <1>2 DEF PairInv
  <1>3. CASE \A s, t \in Tabs : s # t => UNCHANGED <<page, chan, peerId, ops, sig, local,
                                                     remote, refused>>
    <2>1. ASSUME NEW s \in Tabs, NEW t \in Tabs, s # t PROVE LinkInv(s, t)'
      BY <1>3, <2>1, LinkStill DEF PairInv
    <2> QED BY <2>1 DEF PairInv
  <1>4. ASSUME NEW a \in Tabs, OpenPage(a) \/ ClosePage(a) \/ Operate(a) \/ OnIceCandidate(a)
        PROVE  PairInv'
    <2>1. PICK b \in Tabs : a # b /\ Tabs = {a, b} /\ LinkInv(a, b) /\ LinkInv(b, a)
      BY <1>1
    <2>2. LinkInv(a, b)' /\ LinkInv(b, a)'
      BY <1>4, <2>1, OpenLinkInv, CloseLinkInv, CreateLinkInv, SetLocalLinkInv,
         SetRemoteLinkInv, AddIceLinkInv, CandidateLinkInv DEF Operate
    <2> QED BY <1>2, <2>1, <2>2
  <1>5. ASSUME NEW a \in Tabs, NEW s \in Tabs, OnMessage(a, s) PROVE PairInv'
    <2>1. PICK b \in Tabs : a # b /\ Tabs = {a, b} /\ LinkInv(a, b) /\ LinkInv(b, a)
      BY <1>1
    <2>2. s = b
      <3>1. chan[s][a] # <<>>
        BY <1>5 DEF OnMessage, OnHello, OnLaterHello, OnSdp, OnIce
      <3> QED BY <2>1, <3>1 DEF TypeInv, HelloInv
    <2>3. LinkInv(a, b)' /\ LinkInv(b, a)'
      BY <1>5, <2>1, <2>2, HelloLinkInv, LaterHelloLinkInv, SdpLinkInv, IceLinkInv DEF OnMessage
    <2> QED BY <1>2, <2>1, <2>3
  <1>6. ASSUME NEW a \in Tabs, NEW s \in Tabs, OnOpen(a, s) PROVE PairInv'
    BY <1>3, <1>6 DEF OnOpen, pcVars
  <1>7. CASE UNCHANGED vars
    BY <1>3, <1>7 DEF vars, pcVars
  <1> QED BY <1>4, <1>5, <1>6, <1>7 DEF Next

(* With two tabs, opened and closed at any time, no candidate reaches a    *)
(* peer connection before the description it belongs to, although the      *)
(* handlers of later messages run while the description is awaited.        *)
THEOREM CandidatesInTime == ASSUME Pair PROVE Spec => []NoCandidateRefused
  <1>1. Init => TypeInv /\ PairInv
    BY InitTypeInv, InitPairInv
  <1>2. TypeInv /\ PairInv /\ [Next]_vars => (TypeInv /\ PairInv)'
    BY NextTypeInv, NextPairInv
  <1>3. PairInv => NoCandidateRefused
    <2> SUFFICES ASSUME PairInv, NEW t \in Tabs PROVE refused[t] = {}
      BY DEF NoCandidateRefused
    <2>1. \E s \in Tabs : s # t
      BY DEF Pair
    <2> QED BY <2>1 DEF PairInv, LinkInv
  <1> QED BY <1>1, <1>2, <1>3, PTL DEF Spec
=============================================================================

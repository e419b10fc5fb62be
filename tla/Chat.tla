-------------------------------- MODULE Chat --------------------------------
(***************************************************************************)
(* The chat application over one open data channel (src/src/chat.rs): the  *)
(* offerer's start_chat dials and opens a bi-stream, the answerer's        *)
(* ProtocolHandler accepts it, and on each side a write loop and a read    *)
(* loop move length-framed messages between the Chat handle, the stream    *)
(* and the JS callback.                                                    *)
(*                                                                         *)
(* A dial is one call of start_chat as initiator; the page may call it     *)
(* again on the same data channel after a dial or its connection failed,   *)
(* while the responder keeps its endpoint.  QUIC is external: a stream is  *)
(* reliable and ordered while its connection is up, a connection may fail  *)
(* at any time, and what it then still held may be lost.                   *)
(***************************************************************************)
EXTENDS Naturals, Sequences

CONSTANTS
  Dials,      \* calls of start_chat as initiator: 1, 2, ...
  Responder,  \* the one call as responder
  Sizes,      \* the sizes of message a user may send, see Size
  MaxSent     \* bound on the calls of Chat::send, per end

(* What the framing tells apart: no bytes, up to MAX_MSG, more.            *)
Size == {"empty", "text", "tooLong"}

Ends == Dials \cup {Responder}

ASSUME ChatAssumption ==
  /\ Dials \subseteq Nat \ {0}
  /\ Responder \notin Nat
  /\ Sizes \subseteq Size
  /\ MaxSent \in [Ends -> Nat]

NoDial == 0

(* The two directions of a dial's bi-stream, named by the side that writes.*)
Lanes == Dials \X {"initiator", "responder"}
WriterOf(l) == IF l[2] = "initiator" THEN l[1] ELSE Responder
ReaderOf(l) == IF l[2] = "initiator" THEN Responder ELSE l[1]

(* The no-th message an end sent; the priming frame is number 0.           *)
Msg == [by : Ends, no : Nat, size : Size]
NoMsg == [by |-> Responder, no |-> 0, size |-> "empty"]
Frame == [part : {"len", "text"}, msg : Msg]

VARIABLES
  dial,    \* per dial: how far its start_chat has come
  conn,    \* per dial: its QUIC connection
  serve,   \* per dial: ChatProto::accept at the responder
  voice,   \* the dial that took the outbound receiver, or NoDial
  handle,  \* per end: its Chat handle
  sent,    \* per end: every message passed to Chat::send (history)
  out,     \* per end: the outbound channel
  writer,  \* per end: its write loop and the message it is writing
  pipe,    \* per lane: the frames written and not yet read
  reader,  \* per lane: its read loop
  inq,     \* per end: the inbound channel
  got      \* per end: what the JS callback was called with

startVars == <<dial, serve, voice, handle>>
writeVars == <<out, writer>>
readVars == <<reader, inq>>
vars == <<startVars, conn, sent, writeVars, pipe, readVars, got>>

(* Every variable has its type, and a channel whose receiver is gone holds *)
(* nothing: its write loop has ended, or the responder was dropped before  *)
(* there was one.                                                          *)
TypeOK ==
  /\ dial \in [Dials -> {"idle", "connecting", "connected", "opened", "live",
                         "failed"}]
  /\ conn \in [Dials -> {"none", "up", "down"}]
  /\ serve \in [Dials -> {"none", "accepting", "serving"}]
  /\ voice \in Dials \cup {NoDial}
  /\ handle \in [Ends -> {"none", "live", "freed"}]
  /\ sent \in [Ends -> Seq(Msg)]
  /\ out \in [Ends -> Seq(Msg)]
  /\ writer \in [Ends -> [st : {"none", "idle", "text", "done"}, msg : Msg]]
  /\ pipe \in [Lanes -> Seq(Frame)]
  /\ reader \in [Lanes -> {"none", "len", "text", "done"}]
  /\ inq \in [Ends -> Seq(Msg)]
  /\ got \in [Ends -> Seq(Msg)]
  /\ \A e \in Ends : writer[e].st = "done" => out[e] = <<>>
  /\ writer[Responder].st = "none" /\ handle[Responder] = "freed"
       => out[Responder] = <<>>

Init ==
  /\ dial = [d \in Dials |-> "idle"]
  /\ conn = [d \in Dials |-> "none"]
  /\ serve = [d \in Dials |-> "none"]
  /\ voice = NoDial
  /\ handle = [e \in Ends |-> "none"]
  /\ sent = [e \in Ends |-> <<>>]
  /\ out = [e \in Ends |-> <<>>]
  /\ writer = [e \in Ends |-> [st |-> "none", msg |-> NoMsg]]
  /\ pipe = [l \in Lanes |-> <<>>]
  /\ reader = [l \in Lanes |-> "none"]
  /\ inq = [e \in Ends |-> <<>>]
  /\ got = [e \in Ends |-> <<>>]

(* The lane an end's write loop writes to, and its connection.             *)
LaneOf(e) ==
  IF e = Responder THEN <<voice, "responder">> ELSE <<e, "initiator">>
ConnOf(e) == conn[LaneOf(e)[1]]

-----------------------------------------------------------------------------
(* start_chat.                                                             *)

(* The responder: endpoint bound, router and delivery task spawned.        *)
StartResponder ==
  /\ handle[Responder] = "none"
  /\ handle' = [handle EXCEPT ![Responder] = "live"]
  /\ UNCHANGED <<dial, conn, serve, voice, sent, writeVars, pipe, readVars, got>>

StartInitiator(d) ==
  /\ dial[d] = "idle"
  /\ \A c \in Dials : c < d => dial[c] = "failed" \/ conn[c] = "down"
  /\ dial' = [dial EXCEPT ![d] = "connecting"]
  /\ UNCHANGED <<serve, voice, handle, conn, sent, writeVars, pipe, readVars, got>>

(* endpoint.connect resolves: the responder's router is there to accept.   *)
Connect(d) ==
  /\ dial[d] = "connecting" /\ handle[Responder] = "live"
  /\ dial' = [dial EXCEPT ![d] = "connected"]
  /\ conn' = [conn EXCEPT ![d] = "up"]
  /\ UNCHANGED <<serve, voice, handle, sent, writeVars, pipe, readVars, got>>

(* open_bi sends nothing: the peer learns of the stream from a write.      *)
OpenBi(d) ==
  /\ dial[d] = "connected" /\ conn[d] = "up"
  /\ dial' = [dial EXCEPT ![d] = "opened"]
  /\ UNCHANGED <<serve, voice, handle, conn, sent, writeVars, pipe, readVars, got>>

(* Mutated: the stream is not primed.                                      *)
NoPrimingFrames(d) == <<>>

(* A length of zero and no text.                                           *)
PrimingFrames(d) ==
  <<[part |-> "len", msg |-> [by |-> d, no |-> 0, size |-> "empty"]]>>

(* The priming frame is written, the loops are spawned, start_chat returns.*)
Prime(d) ==
  /\ dial[d] = "opened" /\ conn[d] = "up"
  /\ pipe' = [pipe EXCEPT ![<<d, "initiator">>] = @ \o PrimingFrames(d)]
  /\ reader' = [reader EXCEPT ![<<d, "responder">>] = "len"]
  /\ writer' = [writer EXCEPT ![d].st = "idle"]
  /\ dial' = [dial EXCEPT ![d] = "live"]
  /\ handle' = [handle EXCEPT ![d] = "live"]
  /\ UNCHANGED <<serve, voice, conn, sent, out, inq, got>>

(* bind, connect, open_bi or the priming write fails; start_chat returns   *)
(* an error and drops everything it had.                                   *)
DialFails(d) ==
  /\ \/ dial[d] = "connecting"
     \/ dial[d] \in {"connected", "opened"} /\ conn[d] = "down"
  /\ dial' = [dial EXCEPT ![d] = "failed"]
  /\ UNCHANGED <<serve, voice, handle, conn, sent, writeVars, pipe, readVars, got>>

-----------------------------------------------------------------------------
(* ChatProto::accept.                                                      *)

(* Mutated: the outbound receiver is taken before the stream is there.     *)
AcceptTakesFirst(d) ==
  /\ conn[d] = "up" /\ serve[d] = "none" /\ handle[Responder] = "live"
  /\ serve' = [serve EXCEPT ![d] = "accepting"]
  /\ voice' = IF voice = NoDial THEN d ELSE voice
  /\ UNCHANGED <<dial, handle, conn, sent, writeVars, pipe, readVars, got>>

(* The router calls accept, which waits for the bi-stream.                 *)
Accept(d) ==
  /\ conn[d] = "up" /\ serve[d] = "none" /\ handle[Responder] = "live"
  /\ serve' = [serve EXCEPT ![d] = "accepting"]
  /\ UNCHANGED <<dial, voice, handle, conn, sent, writeVars, pipe, readVars, got>>

(* accept_bi resolves once something was written.  Every connection gets a *)
(* read loop, only the first one a write loop.                             *)
AcceptBi(d) ==
  /\ conn[d] = "up" /\ serve[d] = "accepting" /\ handle[Responder] = "live"
  /\ pipe[<<d, "initiator">>] # <<>>
  /\ serve' = [serve EXCEPT ![d] = "serving"]
  /\ reader' = [reader EXCEPT ![<<d, "initiator">>] = "len"]
  /\ IF voice = NoDial
     THEN voice' = d /\ writer' = [writer EXCEPT ![Responder].st = "idle"]
     ELSE UNCHANGED <<voice, writer>>
  /\ UNCHANGED <<dial, handle, conn, sent, out, pipe, inq, got>>

-----------------------------------------------------------------------------
(* The Chat handle and the write loop.                                     *)

(* Mutated: the channel takes messages although its receiver is gone.      *)
SendToNobody(e, size) ==
  /\ handle[e] = "live" /\ Len(sent[e]) < MaxSent[e]
  /\ LET m == [by |-> e, no |-> Len(sent[e]) + 1, size |-> size]
     IN /\ sent' = [sent EXCEPT ![e] = Append(@, m)]
        /\ out' = [out EXCEPT ![e] = Append(@, m)]
  /\ UNCHANGED <<startVars, conn, writer, pipe, readVars, got>>

(* Chat::send: the error of a channel whose receiver is gone is ignored.   *)
Send(e, size) ==
  /\ handle[e] = "live" /\ Len(sent[e]) < MaxSent[e]
  /\ LET m == [by |-> e, no |-> Len(sent[e]) + 1, size |-> size]
     IN /\ sent' = [sent EXCEPT ![e] = Append(@, m)]
        /\ out' = IF writer[e].st = "done" THEN out
                  ELSE [out EXCEPT ![e] = Append(@, m)]
  /\ UNCHANGED <<startVars, conn, writer, pipe, readVars, got>>

(* The router's protocol handler owns an outbound receiver that no         *)
(* connection has taken: what it holds is lost with the router.  A write   *)
(* loop is a task of its own and keeps its receiver.                       *)
DropAnchor(e) ==
  out' = IF e = Responder /\ writer[e].st = "none"
         THEN [out EXCEPT ![e] = <<>>] ELSE out

(* The page drops the handle, and with it the endpoint or the router.      *)
Free(e) ==
  /\ handle[e] = "live"
  /\ handle' = [handle EXCEPT ![e] = "freed"]
  /\ DropAnchor(e)
  /\ UNCHANGED <<dial, serve, voice, conn, sent, writer, pipe, readVars, got>>

(* A frame enters the stream, unless its reader has stopped it.            *)
WriteFrame(l, part, m) ==
  pipe' = IF reader[l] = "done" THEN pipe
          ELSE [pipe EXCEPT ![l] = Append(@, [part |-> part, msg |-> m])]

(* The write loop takes a message and writes its length.                   *)
WriteLen(e) ==
  /\ writer[e].st = "idle" /\ out[e] # <<>> /\ ConnOf(e) = "up"
  /\ out' = [out EXCEPT ![e] = Tail(@)]
  /\ writer' = [writer EXCEPT ![e] = [st |-> "text", msg |-> Head(out[e])]]
  /\ WriteFrame(LaneOf(e), "len", Head(out[e]))
  /\ UNCHANGED <<startVars, conn, sent, readVars, got>>

(* It writes the text; writing no bytes adds nothing to the stream.        *)
WriteText(e) ==
  /\ writer[e].st = "text" /\ ConnOf(e) = "up"
  /\ writer' = [writer EXCEPT ![e] = [st |-> "idle", msg |-> NoMsg]]
  /\ IF writer[e].msg.size = "empty" THEN UNCHANGED pipe
     ELSE WriteFrame(LaneOf(e), "text", writer[e].msg)
  /\ UNCHANGED <<startVars, conn, sent, out, readVars, got>>

(* The loop has something to write that the connection, which is lost, or  *)
(* the reader, which has stopped the stream, does not take.                *)
WriteErrs(e) ==
  /\ \/ writer[e].st = "text"
     \/ writer[e].st = "idle" /\ out[e] # <<>>
  /\ ConnOf(e) = "down" \/ reader[LaneOf(e)] = "done"

(* A write fails: the loop ends and drops what is queued.                  *)
WriteFails(e) ==
  /\ WriteErrs(e)
  /\ writer' = [writer EXCEPT ![e] = [st |-> "done", msg |-> NoMsg]]
  /\ out' = [out EXCEPT ![e] = <<>>]
  /\ UNCHANGED <<startVars, conn, sent, pipe, readVars, got>>

(* The handle is gone and everything is written: the stream is finished.   *)
Finish(e) ==
  /\ writer[e].st = "idle" /\ out[e] = <<>> /\ handle[e] = "freed"
  /\ writer' = [writer EXCEPT ![e].st = "done"]
  /\ UNCHANGED <<startVars, conn, sent, out, pipe, readVars, got>>

-----------------------------------------------------------------------------
(* The read loop and the delivery to JS.                                   *)

(* Mutated: the loop skips a message that is too long by its length only.  *)
SkipTooLong(m) == IF m.size \in {"empty", "tooLong"} THEN "len" ELSE "text"

(* What the loop does after it has read a length.                          *)
AfterLen(m) ==
  CASE m.size = "empty"   -> "len"
    [] m.size = "text"    -> "text"
    [] m.size = "tooLong" -> "done"

(* The reader takes the length at the head of the stream; when it breaks,  *)
(* the rest of the stream is discarded.                                    *)
ReadLen(l) ==
  /\ reader[l] = "len" /\ pipe[l] # <<>>
  /\ LET next == AfterLen(Head(pipe[l]).msg)
     IN /\ reader' = [reader EXCEPT ![l] = next]
        /\ pipe' = [pipe EXCEPT ![l] = IF next = "done" THEN <<>> ELSE Tail(@)]
  /\ UNCHANGED <<startVars, conn, sent, writeVars, inq, got>>

ReadText(l) ==
  /\ reader[l] = "text" /\ pipe[l] # <<>>
  /\ pipe' = [pipe EXCEPT ![l] = Tail(@)]
  /\ inq' = [inq EXCEPT ![ReaderOf(l)] = Append(@, Head(pipe[l]).msg)]
  /\ reader' = [reader EXCEPT ![l] = "len"]
  /\ UNCHANGED <<startVars, conn, sent, writeVars, got>>

(* The stream ended: the connection is lost, with what was still in it, or *)
(* the peer's write loop has finished it and all of it was read.           *)
ReadFails(l) ==
  /\ reader[l] \in {"len", "text"}
  /\ \/ conn[l[1]] = "down"
     \/ /\ LaneOf(WriterOf(l)) = l /\ writer[WriterOf(l)].st = "done"
        /\ pipe[l] = <<>>
  /\ reader' = [reader EXCEPT ![l] = "done"]
  /\ pipe' = [pipe EXCEPT ![l] = <<>>]
  /\ UNCHANGED <<startVars, conn, sent, writeVars, inq, got>>

(* Mutated: the callback gets the newest message first.                    *)
DeliverNewest(e) ==
  /\ inq[e] # <<>>
  /\ got' = [got EXCEPT ![e] = Append(@, inq[e][Len(inq[e])])]
  /\ inq' = [inq EXCEPT ![e] = SubSeq(@, 1, Len(@) - 1)]
  /\ UNCHANGED <<startVars, conn, sent, writeVars, pipe, reader>>

(* The delivery task passes a message to the JS callback.                  *)
Deliver(e) ==
  /\ inq[e] # <<>>
  /\ got' = [got EXCEPT ![e] = Append(@, Head(inq[e]))]
  /\ inq' = [inq EXCEPT ![e] = Tail(@)]
  /\ UNCHANGED <<startVars, conn, sent, writeVars, pipe, reader>>

(* The connection is lost: closed by either side, idle too long, or its    *)
(* data channel is gone.                                                   *)
ConnDown(d) ==
  /\ conn[d] = "up"
  /\ conn' = [conn EXCEPT ![d] = "down"]
  /\ UNCHANGED <<startVars, sent, writeVars, pipe, readVars, got>>

-----------------------------------------------------------------------------
DialTask(d) == OpenBi(d) \/ Prime(d)
AcceptTask(d) == Accept(d) \/ AcceptBi(d)
WriteTask(e) == WriteLen(e) \/ WriteText(e)
ReadTask(l) == ReadLen(l) \/ ReadText(l)

Next ==
  \/ StartResponder
  \/ \E d \in Dials : StartInitiator(d) \/ Connect(d) \/ DialFails(d)
  \/ \E d \in Dials : DialTask(d) \/ AcceptTask(d) \/ ConnDown(d)
  \/ \E e \in Ends : (\E size \in Sizes : Send(e, size)) \/ Free(e)
  \/ \E e \in Ends : WriteTask(e) \/ WriteFails(e) \/ Finish(e) \/ Deliver(e)
  \/ \E l \in Lanes : ReadTask(l) \/ ReadFails(l)

Spec == Init /\ [][Next]_vars

(* The executor runs every task that is ready, and QUIC delivers what is   *)
(* written while the connection is up.  Nothing makes users talk, pages    *)
(* dial, or connections fail.                                              *)
FairSpec ==
  /\ Spec
  /\ \A d \in Dials : WF_vars(DialTask(d)) /\ WF_vars(AcceptTask(d))
  /\ \A e \in Ends : WF_vars(WriteTask(e)) /\ WF_vars(Deliver(e))
  /\ \A l \in Lanes : WF_vars(ReadTask(l))

-----------------------------------------------------------------------------
(* Delivered in order, once, and without a gap: whatever the callback got  *)
(* was sent, and it got every earlier text of that sender before.  Losing  *)
(* one message, in a queue that is dropped or a write that failed, means   *)
(* losing all that follow.                                                 *)
InOrder ==
  \A e \in Ends : \A i \in DOMAIN got[e] :
    LET m == got[e][i]
    IN /\ m.no \in DOMAIN sent[m.by] /\ m = sent[m.by][m.no]
       /\ m.size = "text"
       /\ \A k \in 1..(m.no - 1) : sent[m.by][k].size # "empty" =>
            \E j \in 1..(i - 1) : got[e][j] = sent[m.by][k]
       /\ \A j \in 1..(i - 1) : got[e][j].by = m.by => got[e][j].no < m.no

(* The read loop never takes text for a length or a length for text: the   *)
(* frames on a stream alternate as its reader expects, whatever sizes and  *)
(* failed writes the write loop met.                                       *)
NextPart(l) == IF reader[l] = "text" THEN "text" ELSE "len"
FollowedBy(f) ==
  IF f.part = "len" /\ f.msg.size # "empty" THEN "text" ELSE "len"
FramesAligned ==
  \A l \in Lanes :
    /\ pipe[l] # <<>> => Head(pipe[l]).part = NextPart(l)
    /\ \A i \in 1..(Len(pipe[l]) - 1) :
         pipe[l][i + 1].part = FollowedBy(pipe[l][i])

(* A connection that dies before its stream arrives does not take the      *)
(* responder's voice with it: until a write loop runs or the page drops    *)
(* the handle, all the responder was told to send is still queued, for a   *)
(* later connection to take.                                               *)
HeldUntilHeard ==
  writer[Responder].st = "none" /\ handle[Responder] # "freed"
    => voice = NoDial /\ out[Responder] = sent[Responder]

Said(e, k) == Len(sent[e]) >= k /\ sent[e][k].size # "empty"
Heard(e, f, k) == \E i \in DOMAIN got[e] : got[e][i].by = f /\ got[e][i].no = k
Choked(e) == \E i \in DOMAIN sent[e] : sent[e][i].size = "tooLong"

(* A message is delivered unless its connection is lost or its stream was  *)
(* ended by a message that is too long.  The responder's messages need a   *)
(* connection that has its write loop, which the priming frame brings      *)
(* about even when the initiator never speaks.                             *)
Delivered ==
  \A d \in Dials :
    /\ \A k \in 1..MaxSent[d] :
         Said(d, k) ~>
           (Heard(Responder, d, k) \/ conn[d] = "down" \/ Choked(d)
              \/ handle[Responder] = "freed")
    /\ \A k \in 1..MaxSent[Responder] :
         (Said(Responder, k) /\ dial[d] = "live") ~>
           (Heard(d, Responder, k) \/ conn[d] = "down" \/ Choked(Responder)
              \/ voice \notin {NoDial, d} \/ handle[Responder] = "freed")

(* Chat::send is described as "delivered in order", with no limit on the   *)
(* text: a message of an initiator whose connection stays up, and whose    *)
(* responder stays, is delivered.                                          *)
DeliveredWhileUp ==
  \A d \in Dials : \A k \in 1..MaxSent[d] :
    Said(d, k) ~>
      (Heard(Responder, d, k) \/ conn[d] = "down"
         \/ handle[Responder] = "freed")
=============================================================================

----------------------------- MODULE Chat_proofs -----------------------------
(***************************************************************************)
(* Proofs about the chat, for any number of dials and of messages.         *)
(***************************************************************************)
EXTENDS Chat, TLAPS

(* The responder writes to the connection that took its outbound receiver. *)
VoiceTaken == writer[Responder].st # "none" => voice # NoDial

TypeInv == TypeOK /\ VoiceTaken

LEMMA LaneType ==
  /\ Responder \in Ends /\ Responder \notin Dials /\ Dials \subseteq Ends
  /\ NoDial \notin Dials
  /\ \A d \in Dials : <<d, "initiator">> \in Lanes /\ <<d, "responder">> \in Lanes
  /\ \A l \in Lanes : /\ l[1] \in Dials
                      /\ WriterOf(l) \in Ends /\ ReaderOf(l) \in Ends
  BY ChatAssumption DEF Ends, Lanes, NoDial, WriterOf, ReaderOf

(* A running write loop has a lane.                                        *)
LEMMA LaneOfType ==
  ASSUME TypeInv, NEW e \in Ends, writer[e].st \in {"idle", "text"}
  PROVE  LaneOf(e) \in Lanes /\ WriterOf(LaneOf(e)) = e
  BY LaneType DEF LaneOf, TypeInv, TypeOK, VoiceTaken, WriterOf, Ends

-----------------------------------------------------------------------------
(* Type correctness.                                                       *)

LEMMA InitTypeInv == Init => TypeInv
  <1> SUFFICES ASSUME Init PROVE TypeInv
    OBVIOUS
  <1>1. NoMsg \in Msg
    BY LaneType DEF NoMsg, Msg, Size
  <1>2. TypeOK
    BY <1>1, LaneType DEF Init, TypeOK
  <1>3. VoiceTaken
    BY LaneType DEF Init, VoiceTaken
  <1> QED BY <1>2, <1>3 DEF TypeInv

(* start_chat and ChatProto::accept.                                       *)
LEMMA DialTypeInv ==
  ASSUME TypeInv, NEW d \in Dials,
         StartInitiator(d) \/ Connect(d) \/ DialFails(d) \/ ConnDown(d)
  PROVE  TypeInv'
  BY DEF StartInitiator, Connect, DialFails, ConnDown, startVars, writeVars,
         readVars, TypeInv, TypeOK, VoiceTaken

LEMMA StreamTypeInv ==
  ASSUME TypeInv, NEW d \in Dials, DialTask(d) \/ AcceptTask(d)
  PROVE  TypeInv'
  <1> USE DEF TypeInv, TypeOK, VoiceTaken
  <1>1. CASE OpenBi(d)
    BY <1>1 DEF OpenBi, writeVars, readVars
  <1>2. CASE Prime(d)
    <2>1. PrimingFrames(d) \in Seq(Frame)
      BY LaneType DEF PrimingFrames, Frame, Msg, Size
    <2>2. pipe' \in [Lanes -> Seq(Frame)]
      BY <1>2, <2>1, LaneType DEF Prime
    <2>3. writer' \in [Ends -> [st : {"none", "idle", "text", "done"}, msg : Msg]]
          /\ writer'[Responder] = writer[Responder]
          /\ \A e \in Ends : writer'[e].st = "done" => writer[e].st = "done"
      BY <1>2, LaneType DEF Prime
    <2> QED BY <1>2, <2>2, <2>3, LaneType DEF Prime
  <1>3. CASE Accept(d)
    BY <1>3 DEF Accept, writeVars, readVars
  <1>4. CASE AcceptBi(d)
    <2>1. /\ dial' = dial /\ handle' = handle /\ conn' = conn /\ sent' = sent
          /\ out' = out /\ pipe' = pipe /\ inq' = inq /\ got' = got
          /\ serve' \in [Dials -> {"none", "accepting", "serving"}]
          /\ reader' \in [Lanes -> {"none", "len", "text", "done"}]
      BY <1>4 DEF AcceptBi
    <2>2. CASE voice = NoDial
      <3>1. voice' = d /\ writer' = [writer EXCEPT ![Responder].st = "idle"]
        BY <1>4, <2>2 DEF AcceptBi
      <3>2. writer' \in [Ends -> [st : {"none", "idle", "text", "done"},
                                  msg : Msg]]
            /\ \A e \in Ends : writer'[e].st = "done" => writer[e].st = "done"
        BY <3>1, LaneType
      <3> QED BY <2>1, <3>1, <3>2, LaneType
    <2>3. CASE voice # NoDial
      <3>1. UNCHANGED <<voice, writer>>
        BY <1>4, <2>3 DEF AcceptBi
      <3> QED BY <2>1, <3>1
    <2> QED BY <2>2, <2>3
  <1> QED BY <1>1, <1>2, <1>3, <1>4 DEF DialTask, AcceptTask

(* The handles.                                                            *)
LEMMA HandleTypeInv ==
  ASSUME TypeInv, NEW e \in Ends,
         Free(e) \/ StartResponder \/ \E size \in Sizes : Send(e, size)
  PROVE  TypeInv'
  <1> USE DEF TypeInv, TypeOK, VoiceTaken
  <1>1. CASE Free(e)
    <2>1. /\ handle' = [handle EXCEPT ![e] = "freed"]
          /\ (out' = out \/ out' = [out EXCEPT ![e] = <<>>])
          /\ e = Responder /\ writer[e].st = "none" => out' = [out EXCEPT ![e] = <<>>]
          /\ UNCHANGED <<dial, serve, voice, conn, sent, writer, pipe, reader, inq,
                         got>>
      BY <1>1 DEF Free, DropAnchor, readVars
    <2>2. /\ out' \in [Ends -> Seq(Msg)]
          /\ \A f \in Ends : writer[f].st = "done" => out'[f] = <<>>
      <3>1. CASE out' = out
        BY <3>1
      <3>2. CASE out' = [out EXCEPT ![e] = <<>>]
        <4>1. <<>> \in Seq(Msg)
          OBVIOUS
        <4>2. \A f \in Ends : out'[f] = out[f] \/ out'[f] = <<>>
          BY <3>2
        <4> QED BY <3>2, <4>1, <4>2
      <3> QED BY <2>1, <3>1, <3>2
    <2>3. writer[Responder].st = "none" /\ handle'[Responder] = "freed"
            => out'[Responder] = <<>>
      BY <2>1, LaneType
    <2> QED BY <2>1, <2>2, <2>3
  <1>2. CASE StartResponder
    BY <1>2 DEF StartResponder, writeVars, readVars
  <1>3. ASSUME NEW size \in Sizes, Send(e, size) PROVE TypeInv'
    <2> DEFINE m == [by |-> e, no |-> Len(sent[e]) + 1, size |-> size]
    <2>1. m \in Msg
      BY ChatAssumption DEF Msg
    <2>2. sent' \in [Ends -> Seq(Msg)] /\ out' \in [Ends -> Seq(Msg)]
      BY <1>3, <2>1 DEF Send
    <2>3. \A f \in Ends : writer[f].st = "done" => out'[f] = <<>>
      BY <1>3 DEF Send
    <2>4. handle[Responder] = "freed" => out'[Responder] = out[Responder]
      BY <1>3, LaneType DEF Send
    <2> QED BY <1>3, <2>2, <2>3, <2>4 DEF Send, startVars, readVars
  <1> QED BY <1>1, <1>2, <1>3

LEMMA WriteFrameType ==
  ASSUME TypeInv, NEW l \in Lanes, NEW part \in {"len", "text"}, NEW m \in Msg,
         WriteFrame(l, part, m)
  PROVE  pipe' \in [Lanes -> Seq(Frame)]
  <1>1. [part |-> part, msg |-> m] \in Frame
    BY DEF Frame
  <1> QED BY <1>1 DEF WriteFrame, TypeInv, TypeOK

(* The write loop.                                                         *)
LEMMA WriteTypeInv ==
  ASSUME TypeInv, NEW e \in Ends, WriteTask(e) \/ WriteFails(e) \/ Finish(e)
  PROVE  TypeInv'
  <1>0. NoMsg \in Msg
    BY LaneType DEF NoMsg, Msg, Size
  <1>1. CASE WriteLen(e)
    <2>1. Head(out[e]) \in Msg /\ LaneOf(e) \in Lanes
      BY <1>1, LaneOfType DEF WriteLen, TypeInv, TypeOK
    <2>2. pipe' \in [Lanes -> Seq(Frame)]
      BY <1>1, <2>1, WriteFrameType DEF WriteLen
    <2> QED BY <1>1, <2>1, <2>2
      DEF WriteLen, startVars, readVars, TypeInv, TypeOK, VoiceTaken
  <1>2. CASE WriteText(e)
    <2>1. writer[e].msg \in Msg /\ LaneOf(e) \in Lanes
      BY <1>2, LaneOfType DEF WriteText, TypeInv, TypeOK
    <2>2. pipe' \in [Lanes -> Seq(Frame)]
      BY <1>2, <2>1, WriteFrameType DEF WriteText, TypeInv, TypeOK
    <2> QED BY <1>0, <1>2, <2>2
      DEF WriteText, startVars, readVars, TypeInv, TypeOK, VoiceTaken
  <1>3. CASE WriteFails(e)
    <2>1. writer' = [writer EXCEPT ![e] = [st |-> "done", msg |-> NoMsg]]
          /\ out' = [out EXCEPT ![e] = <<>>]
          /\ writer[e].st # "none"
      BY <1>3 DEF WriteFails, WriteErrs
    <2>2. writer' \in [Ends -> [st : {"none", "idle", "text", "done"}, msg : Msg]]
      BY <1>0, <2>1 DEF TypeInv, TypeOK
    <2>3. out' \in [Ends -> Seq(Msg)]
          /\ \A f \in Ends : writer'[f].st = "done" => out'[f] = <<>>
      BY <2>1 DEF TypeInv, TypeOK
    <2>4. VoiceTaken'
      BY <1>3, <2>1, LaneType
      DEF WriteFails, startVars, TypeInv, TypeOK, VoiceTaken
    <2>5. UNCHANGED <<dial, conn, serve, voice, handle, sent, pipe, reader, inq,
                      got>>
      BY <1>3 DEF WriteFails, startVars, readVars
    <2>6. writer'[Responder].st = "none" => writer[Responder].st = "none"
          /\ (out[Responder] = <<>> => out'[Responder] = <<>>)
      BY <2>1, LaneType DEF TypeInv, TypeOK
    <2>7. TypeOK'
      BY <2>2, <2>3, <2>5, <2>6 DEF TypeInv, TypeOK
    <2> QED BY <2>4, <2>7 DEF TypeInv
  <1>4. CASE Finish(e)
    <2>1. writer' = [writer EXCEPT ![e].st = "done"] /\ out[e] = <<>>
          /\ writer[e].st # "none"
      BY <1>4 DEF Finish
    <2>2. writer' \in [Ends -> [st : {"none", "idle", "text", "done"}, msg : Msg]]
          /\ \A f \in Ends : writer'[f].st = "done" => out[f] = <<>>
      BY <2>1 DEF TypeInv, TypeOK
    <2>3. UNCHANGED <<dial, conn, serve, voice, handle, sent, out, pipe, reader,
                      inq, got>>
      BY <1>4 DEF Finish, startVars, readVars
    <2>4. writer'[Responder].st = "none" => writer[Responder].st = "none"
      BY <2>1, LaneType DEF TypeInv, TypeOK
    <2>5. TypeOK'
      BY <2>2, <2>3, <2>4 DEF TypeInv, TypeOK
    <2>6. VoiceTaken'
      BY <2>1, <2>3, LaneType DEF TypeInv, TypeOK, VoiceTaken
    <2> QED BY <2>5, <2>6 DEF TypeInv
  <1> QED BY <1>1, <1>2, <1>3, <1>4 DEF WriteTask

LEMMA HeadType ==
  ASSUME TypeInv, NEW l \in Lanes, pipe[l] # <<>>
  PROVE  /\ Head(pipe[l]) \in Frame
         /\ Head(pipe[l]).msg \in Msg
         /\ Head(pipe[l]).part \in {"len", "text"}
  <1>1. Head(pipe[l]) \in Frame
    BY DEF TypeInv, TypeOK
  <1> QED BY <1>1 DEF Frame

(* The read loop and the delivery.                                         *)
LEMMA ReadTypeInv ==
  ASSUME TypeInv, NEW l \in Lanes, ReadTask(l) \/ ReadFails(l)
  PROVE  TypeInv'
  <1> USE DEF TypeInv, TypeOK, VoiceTaken
  <1>1. CASE ReadLen(l)
    <2>1. Head(pipe[l]).msg.size \in Size
      BY <1>1, HeadType DEF ReadLen, Msg
    <2>2. AfterLen(Head(pipe[l]).msg) \in {"len", "text", "done"}
      BY <2>1 DEF AfterLen, Size
    <2> QED BY <1>1, <2>2 DEF ReadLen, startVars, writeVars
  <1>2. CASE ReadText(l)
    <2>1. Head(pipe[l]).msg \in Msg
      BY <1>2, HeadType DEF ReadText
    <2>2. /\ inq' \in [Ends -> Seq(Msg)] /\ pipe' \in [Lanes -> Seq(Frame)]
          /\ reader' \in [Lanes -> {"none", "len", "text", "done"}]
      BY <1>2, <2>1, LaneType DEF ReadText
    <2>3. UNCHANGED <<dial, conn, serve, voice, handle, sent, out, writer, got>>
      BY <1>2 DEF ReadText, startVars, writeVars
    <2> QED BY <2>2, <2>3
  <1>3. CASE ReadFails(l)
    BY <1>3 DEF ReadFails, startVars, writeVars
  <1> QED BY <1>1, <1>2, <1>3 DEF ReadTask

LEMMA DeliverTypeInv ==
  ASSUME TypeInv, NEW e \in Ends, Deliver(e)
  PROVE  TypeInv'
  <1>1. Head(inq[e]) \in Msg
    BY DEF Deliver, TypeInv, TypeOK
  <1> QED BY <1>1
    DEF Deliver, startVars, writeVars, TypeInv, TypeOK, VoiceTaken

LEMMA NextTypeInv == TypeInv /\ [Next]_vars => TypeInv'
  <1> SUFFICES ASSUME TypeInv, [Next]_vars PROVE TypeInv'
    OBVIOUS
  <1>1. CASE UNCHANGED vars
    BY <1>1 DEF vars, startVars, writeVars, readVars, TypeInv, TypeOK, VoiceTaken
  <1>2. CASE Next
    BY <1>2, LaneType, DialTypeInv, StreamTypeInv, HandleTypeInv, WriteTypeInv,
       ReadTypeInv, DeliverTypeInv
    DEF Next
  <1> QED BY <1>1, <1>2

LEMMA TypeInvHolds == Spec => []TypeInv
  BY InitTypeInv, NextTypeInv, PTL DEF Spec

(* Every variable keeps its type, and nothing is queued for a write loop   *)
(* that has ended.                                                         *)
THEOREM TypeCorrect == Spec => []TypeOK
  <1>1. TypeInv => TypeOK
    BY DEF TypeInv
  <1> QED BY <1>1, TypeInvHolds, PTL

-----------------------------------------------------------------------------
(* The responder's voice.                                                  *)

LEMMA InitHeld == Init => HeldUntilHeard
  BY LaneType DEF Init, HeldUntilHeard

(* Nothing brings a dropped responder back.                                *)
LEMMA FreedStays ==
  ASSUME TypeInv, [Next]_vars, handle[Responder] = "freed"
  PROVE  handle'[Responder] = "freed"
  <1> USE LaneType DEF TypeInv, TypeOK
  <1>1. CASE handle' = handle
    BY <1>1
  <1>2. ASSUME NEW d \in Dials, Prime(d) PROVE handle'[Responder] = "freed"
    BY <1>2 DEF Prime
  <1>3. ASSUME NEW e \in Ends, Free(e) PROVE handle'[Responder] = "freed"
    BY <1>3 DEF Free
  <1>4. handle' = handle \/ (\E d \in Dials : Prime(d)) \/ (\E e \in Ends : Free(e))
    BY DEF vars, startVars, Next, StartResponder, StartInitiator, Connect, DialFails,
           DialTask, OpenBi, AcceptTask, Accept, AcceptBi, ConnDown, Send, WriteTask,
           WriteLen, WriteText, WriteFails, Finish, Deliver, ReadTask, ReadLen,
           ReadText, ReadFails
  <1> QED BY <1>1, <1>2, <1>3, <1>4

(* Only accept_bi, once a stream is there, gives the outbound receiver to  *)
(* a write loop; until then Chat::send is all that touches the queue of a  *)
(* responder that was not dropped.                                         *)
LEMMA NextHeld == TypeInv /\ HeldUntilHeard /\ [Next]_vars => HeldUntilHeard'
  <1> SUFFICES ASSUME TypeInv, HeldUntilHeard, [Next]_vars,
                      writer'[Responder].st = "none", handle'[Responder] # "freed"
               PROVE  voice' = NoDial /\ out'[Responder] = sent'[Responder]
    BY DEF HeldUntilHeard
  <1>0. handle[Responder] # "freed"
    BY FreedStays
  <1> USE <1>0, LaneType DEF HeldUntilHeard
  <1>1. ASSUME UNCHANGED <<voice, writer, out, sent>>
        PROVE  voice' = NoDial /\ out'[Responder] = sent'[Responder]
    BY <1>1
  <1>2. CASE UNCHANGED vars
    BY <1>1, <1>2 DEF vars, startVars, writeVars
  <1>3. ASSUME NEW d \in Dials,
               StartInitiator(d) \/ Connect(d) \/ DialFails(d) \/ ConnDown(d)
                 \/ OpenBi(d) \/ Accept(d)
        PROVE  voice' = NoDial /\ out'[Responder] = sent'[Responder]
    BY <1>1, <1>3 DEF StartInitiator, Connect, DialFails, ConnDown, OpenBi, Accept,
                      startVars, writeVars
  <1>4. ASSUME NEW d \in Dials, Prime(d)
        PROVE  voice' = NoDial /\ out'[Responder] = sent'[Responder]
    <2>1. writer'[Responder] = writer[Responder]
      BY <1>4 DEF Prime, TypeInv, TypeOK
    <2> QED BY <1>4, <2>1 DEF Prime
  <1>5. ASSUME NEW d \in Dials, AcceptBi(d)
        PROVE  voice' = NoDial /\ out'[Responder] = sent'[Responder]
    BY <1>5 DEF AcceptBi, TypeInv, TypeOK, VoiceTaken
  <1>6. ASSUME NEW e \in Ends, NEW size \in Sizes, Send(e, size)
        PROVE  voice' = NoDial /\ out'[Responder] = sent'[Responder]
    BY <1>6 DEF Send, startVars, TypeInv, TypeOK
  <1>7. ASSUME NEW e \in Ends,
               WriteLen(e) \/ WriteText(e) \/ WriteFails(e) \/ Finish(e)
        PROVE  voice' = NoDial /\ out'[Responder] = sent'[Responder]
    <2>1. writer[e].st # "none"
      BY <1>7 DEF WriteLen, WriteText, WriteFails, WriteErrs, Finish
    <2>2. e # Responder
      BY <1>7, <2>1
      DEF WriteLen, WriteText, WriteFails, WriteErrs, Finish, TypeInv, TypeOK
    <2>3. /\ voice' = voice /\ sent' = sent /\ writer'[Responder] = writer[Responder]
          /\ out'[Responder] = out[Responder]
      BY <1>7, <2>2
      DEF WriteLen, WriteText, WriteFails, Finish, startVars, TypeInv, TypeOK
    <2> QED BY <2>3
  <1>8. ASSUME NEW e \in Ends, Free(e) \/ Deliver(e) \/ StartResponder
        PROVE  voice' = NoDial /\ out'[Responder] = sent'[Responder]
    <2>1. CASE Free(e)
      <3>1. e # Responder
        BY <2>1 DEF Free, TypeInv, TypeOK
      <3> QED BY <1>1, <2>1, <3>1 DEF Free, DropAnchor
    <2> QED BY <1>1, <1>8, <2>1 DEF Deliver, StartResponder, startVars, writeVars
  <1>9. ASSUME NEW l \in Lanes, ReadLen(l) \/ ReadText(l) \/ ReadFails(l)
        PROVE  voice' = NoDial /\ out'[Responder] = sent'[Responder]
    BY <1>1, <1>9 DEF ReadLen, ReadText, ReadFails, startVars, writeVars
  <1> QED BY <1>2, <1>3, <1>4, <1>5, <1>6, <1>7, <1>8, <1>9
    DEF Next, DialTask, AcceptTask, WriteTask, ReadTask

(* However often dialling fails, and wherever, nothing a responder that is *)
(* not dropped said is lost before a stream has arrived to carry it.       *)
THEOREM VoiceHeld == Spec => []HeldUntilHeard
  BY InitHeld, NextHeld, TypeInvHolds, PTL DEF Spec

-----------------------------------------------------------------------------
(* The framing.  What the end of a stream calls for next is what the write *)
(* loop is about to write, unless that loop ended in the middle of a       *)
(* message, in which case nothing more is written.                         *)

EndPart(l) ==
  IF pipe[l] = <<>> THEN NextPart(l) ELSE FollowedBy(pipe[l][Len(pipe[l])])

Writing(l) ==
  /\ LaneOf(WriterOf(l)) = l
  /\ writer[WriterOf(l)].st = "text"
  /\ writer[WriterOf(l)].msg.size # "empty"
WritePart(l) == IF Writing(l) THEN "text" ELSE "len"

Alternates(s) == \A i \in 1..(Len(s) - 1) : s[i + 1].part = FollowedBy(s[i])

LaneInv(l) ==
  /\ pipe[l] # <<>> => Head(pipe[l]).part = NextPart(l)
  /\ Alternates(pipe[l])
  /\ reader[l] # "done" /\ writer[WriterOf(l)].st # "done"
       => EndPart(l) = WritePart(l)

(* A stopped stream is empty, and one that was not opened is untouched.    *)
StreamsClean ==
  /\ \A l \in Lanes : reader[l] = "done" => pipe[l] = <<>>
  /\ \A d \in Dials : dial[d] # "live" =>
       /\ writer[d].st = "none"
       /\ pipe[<<d, "initiator">>] = <<>>
       /\ reader[<<d, "initiator">>] = "none"
       /\ reader[<<d, "responder">>] = "none"
  /\ \A d \in Dials : serve[d] # "serving" => reader[<<d, "initiator">>] = "none"
  /\ \A d \in Dials : d # voice =>
       /\ pipe[<<d, "responder">>] = <<>>
       /\ reader[<<d, "responder">>] # "text"

FrameInv == TypeInv /\ StreamsClean /\ \A l \in Lanes : LaneInv(l)

LEMMA InitFrameInv == Init => FrameInv
  <1> SUFFICES ASSUME Init PROVE FrameInv
    OBVIOUS
  <1>1. StreamsClean
    BY LaneType DEF Init, StreamsClean
  <1>2. ASSUME NEW l \in Lanes PROVE LaneInv(l)
    <2>1. pipe[l] = <<>> /\ reader[l] = "none"
          /\ writer[WriterOf(l)].st = "none"
      BY LaneType DEF Init
    <2>2. Alternates(pipe[l])
      BY <2>1 DEF Alternates
    <2> QED BY <2>1, <2>2 DEF LaneInv, EndPart, NextPart, WritePart, Writing
  <1> QED BY <1>1, <1>2, InitTypeInv DEF FrameInv

(* Writing one more frame, the one its predecessor calls for.              *)
LEMMA AppendAlternates ==
  ASSUME NEW s \in Seq(Frame), NEW f \in Frame, Alternates(s),
         s # <<>> => FollowedBy(s[Len(s)]) = f.part
  PROVE  /\ Alternates(Append(s, f))
         /\ Append(s, f) # <<>>
         /\ Append(s, f)[Len(Append(s, f))] = f
         /\ s = <<>> => Head(Append(s, f)) = f
         /\ s # <<>> => Head(Append(s, f)) = Head(s)
  <1>1. Len(s) \in Nat /\ Len(Append(s, f)) = Len(s) + 1
    OBVIOUS
  <1>2. \A i \in 1..Len(s) : Append(s, f)[i] = s[i]
    OBVIOUS
  <1>3. Append(s, f)[Len(s) + 1] = f
    OBVIOUS
  <1>4. s # <<>> => Len(s) > 0
    OBVIOUS
  <1>5. Alternates(Append(s, f))
    <2> SUFFICES ASSUME NEW i \in 1..Len(s)
                 PROVE  Append(s, f)[i + 1].part = FollowedBy(Append(s, f)[i])
      BY <1>1 DEF Alternates
    <2>1. CASE i = Len(s)
      BY <1>1, <1>2, <1>3, <1>4, <2>1
    <2>2. CASE i # Len(s)
      BY <1>1, <1>2, <2>2 DEF Alternates
    <2> QED BY <2>1, <2>2
  <1>6. Append(s, f) # <<>> /\ Head(Append(s, f)) = Append(s, f)[1]
    OBVIOUS
  <1>7. Append(s, f)[Len(Append(s, f))] = f
    BY <1>1, <1>3
  <1>8. s = <<>> => Head(Append(s, f)) = f
    BY <1>3, <1>6
  <1>9. s # <<>> => Head(Append(s, f)) = Head(s)
    BY <1>1, <1>2, <1>4, <1>6
  <1> QED BY <1>5, <1>6, <1>7, <1>8, <1>9

(* Reading one frame.                                                      *)
LEMMA TailAlternates ==
  ASSUME NEW s \in Seq(Frame), s # <<>>, Alternates(s)
  PROVE  /\ Alternates(Tail(s))
         /\ Tail(s) # <<>> => /\ Head(Tail(s)).part = FollowedBy(Head(s))
                              /\ Tail(s)[Len(Tail(s))] = s[Len(s)]
         /\ Tail(s) = <<>> => Head(s) = s[Len(s)]
  <1>1. Len(s) \in Nat /\ Len(s) > 0 /\ Len(Tail(s)) = Len(s) - 1
    OBVIOUS
  <1>2. \A i \in 1..(Len(s) - 1) : Tail(s)[i] = s[i + 1]
    OBVIOUS
  <1>3. Alternates(Tail(s))
    BY <1>1, <1>2 DEF Alternates
  <1>4. ASSUME Tail(s) # <<>>
        PROVE  /\ Head(Tail(s)).part = FollowedBy(Head(s))
               /\ Tail(s)[Len(Tail(s))] = s[Len(s)]
    <2>1. Len(s) > 1 /\ Head(Tail(s)) = s[2] /\ Head(s) = s[1]
      BY <1>1, <1>2, <1>4
    <2> QED BY <1>1, <1>2, <2>1 DEF Alternates
  <1>5. Tail(s) = <<>> => Head(s) = s[Len(s)]
    BY <1>1
  <1> QED BY <1>3, <1>4, <1>5

(* A lane none of whose parts moves, or whose writer ends.                 *)
LEMMA LaneUntouched ==
  ASSUME NEW l \in Lanes, LaneInv(l),
         pipe'[l] = pipe[l], NextPart(l)' = NextPart(l),
         reader[l] = "done" => reader'[l] = "done",
         writer'[WriterOf(l)].st # "done"
           => writer[WriterOf(l)].st # "done" /\ (Writing(l)' <=> Writing(l))
  PROVE  LaneInv(l)'
  <1>1. EndPart(l)' = EndPart(l) /\ WriterOf(l)' = WriterOf(l)
    BY DEF EndPart, WriterOf
  <1> QED BY <1>1 DEF LaneInv, WritePart

LEMMA SameLanes ==
  ASSUME FrameInv, UNCHANGED <<pipe, reader, writer, voice>>, TypeInv',
         \A d \in Dials : dial[d] = "live" => dial'[d] = "live",
         \A d \in Dials : serve[d] = "serving" => serve'[d] = "serving"
  PROVE  FrameInv'
  <1>1. ASSUME NEW l \in Lanes PROVE LaneInv(l)'
    <2>1. LaneInv(l) /\ (Writing(l)' <=> Writing(l)) /\ NextPart(l)' = NextPart(l)
      BY DEF FrameInv, Writing, LaneOf, WriterOf, NextPart
    <2> QED BY <2>1, LaneUntouched
  <1>2. StreamsClean'
    BY DEF FrameInv, StreamsClean
  <1> QED BY <1>1, <1>2 DEF FrameInv

LEMMA QuietStep ==
  ASSUME FrameInv, TypeInv',
         \/ UNCHANGED vars
         \/ StartResponder
         \/ \E d \in Dials : StartInitiator(d) \/ Connect(d) \/ DialFails(d)
                               \/ OpenBi(d) \/ Accept(d) \/ ConnDown(d)
         \/ \E e \in Ends : \/ \E size \in Sizes : Send(e, size)
                            \/ Free(e) \/ Deliver(e)
  PROVE  FrameInv'
  <1>1. UNCHANGED <<pipe, reader, writer, voice>>
    BY DEF vars, startVars, writeVars, readVars, StartResponder, StartInitiator,
           Connect, DialFails, OpenBi, Accept, ConnDown, Send, Free, Deliver
  <1>2. \A d \in Dials : dial[d] = "live" => dial'[d] = "live"
    <2>1. CASE \E d \in Dials : StartInitiator(d) \/ Connect(d) \/ DialFails(d)
                                  \/ OpenBi(d)
      BY <2>1 DEF StartInitiator, Connect, DialFails, OpenBi, FrameInv, TypeInv,
                  TypeOK
    <2>2. CASE dial' = dial
      BY <2>2
    <2> QED BY <2>1, <2>2 DEF vars, startVars, StartResponder, Accept, ConnDown,
                              Send, Free, Deliver
  <1>3. \A d \in Dials : serve[d] = "serving" => serve'[d] = "serving"
    <2>1. CASE \E d \in Dials : Accept(d)
      BY <2>1 DEF Accept, FrameInv, TypeInv, TypeOK
    <2>2. CASE serve' = serve
      BY <2>2
    <2> QED BY <2>1, <2>2 DEF vars, startVars, StartResponder, StartInitiator,
                              Connect, DialFails, OpenBi, ConnDown, Send, Free,
                              Deliver
  <1> QED BY <1>1, <1>2, <1>3, SameLanes

(* Two lanes differ in their dial or in their side.                        *)
LEMMA LaneSides ==
  ASSUME NEW l \in Lanes
  PROVE  \/ l = <<l[1], "initiator">> /\ WriterOf(l) = l[1]
         \/ l = <<l[1], "responder">> /\ WriterOf(l) = Responder
  BY DEF Lanes, WriterOf

(* The priming frame is the first of its lane, and its writer is new.      *)
LEMMA PrimeFrameInv ==
  ASSUME FrameInv, TypeInv', NEW d \in Dials, Prime(d)
  PROVE  FrameInv'
  <1> DEFINE up == <<d, "initiator">>
             down == <<d, "responder">>
             f == [part |-> "len", msg |-> [by |-> d, no |-> 0, size |-> "empty"]]
  <1> USE LaneType DEF FrameInv
  <1>1. /\ writer[d].st = "none" /\ pipe[up] = <<>>
        /\ reader[up] = "none" /\ reader[down] = "none"
    BY DEF Prime, StreamsClean
  <1>2. up # down /\ d # Responder
    OBVIOUS
  <1>3. f \in Frame
    BY DEF Frame, Msg, Size
  <1>4. /\ pipe' = [pipe EXCEPT ![up] = <<f>>]
        /\ reader' = [reader EXCEPT ![down] = "len"]
        /\ writer' = [writer EXCEPT ![d].st = "idle"]
        /\ voice' = voice /\ serve' = serve
    BY <1>1, <1>3 DEF Prime, PrimingFrames, TypeInv, TypeOK
  <1>5. ASSUME NEW l \in Lanes, l # up PROVE LaneInv(l)'
    <2>1. WriterOf(l) # d
      BY <1>5, LaneSides
    <2>2. writer'[WriterOf(l)] = writer[WriterOf(l)]
      BY <1>4, <2>1 DEF TypeInv, TypeOK
    <2>3. Writing(l)' <=> Writing(l)
      BY <1>4, <2>2 DEF Writing, LaneOf, WriterOf
    <2>4. pipe'[l] = pipe[l]
      BY <1>4, <1>5 DEF TypeInv, TypeOK
    <2>5. NextPart(l)' = NextPart(l) /\ (reader[l] = "done" => reader'[l] = "done")
      <3>1. CASE l = down
        BY <1>1, <1>4, <3>1 DEF NextPart, TypeInv, TypeOK
      <3>2. CASE l # down
        BY <1>4, <3>2 DEF NextPart, TypeInv, TypeOK
      <3> QED BY <3>1, <3>2
    <2> QED BY <2>2, <2>3, <2>4, <2>5, LaneUntouched
  <1>6. LaneInv(up)'
    <2>1. pipe'[up] = <<f>> /\ reader'[up] = "none" /\ writer'[d].st = "idle"
      BY <1>1, <1>2, <1>4 DEF TypeInv, TypeOK
    <2>2. /\ <<f>> # <<>> /\ Len(<<f>>) = 1 /\ Head(<<f>>) = f /\ <<f>>[1] = f
      BY <1>3
    <2>3. Alternates(<<f>>)
      BY <2>2 DEF Alternates
    <2>4. EndPart(up)' = "len" /\ WritePart(up)' = "len" /\ NextPart(up)' = "len"
      BY <2>1, <2>2 DEF EndPart, FollowedBy, WritePart, Writing, WriterOf, NextPart
    <2> QED BY <2>1, <2>2, <2>3, <2>4 DEF LaneInv
  <1>7. StreamsClean'
    <2>1. \A l \in Lanes : reader'[l] = "done" => pipe'[l] = <<>>
      <3>1. \A l \in Lanes : reader'[l] = "done" => reader[l] = "done"
        BY <1>4 DEF TypeInv, TypeOK
      <3>2. \A l \in Lanes : l # up => pipe'[l] = pipe[l]
        BY <1>4 DEF TypeInv, TypeOK
      <3> QED BY <1>1, <3>1, <3>2 DEF StreamsClean
    <2>2. \A c \in Dials : dial'[c] # "live" => c # d /\ dial[c] # "live"
      BY DEF Prime, TypeInv, TypeOK
    <2>3. \A c \in Dials : dial'[c] # "live" =>
            /\ writer'[c].st = "none"
            /\ pipe'[<<c, "initiator">>] = <<>>
            /\ reader'[<<c, "initiator">>] = "none"
            /\ reader'[<<c, "responder">>] = "none"
      BY <1>4, <2>2 DEF StreamsClean, TypeInv, TypeOK
    <2>4. \A c \in Dials : serve'[c] # "serving"
            => reader'[<<c, "initiator">>] = "none"
      BY <1>2, <1>4 DEF StreamsClean, TypeInv, TypeOK
    <2>5. \A c \in Dials : c # voice' =>
            /\ pipe'[<<c, "responder">>] = <<>>
            /\ reader'[<<c, "responder">>] # "text"
      <3> SUFFICES ASSUME NEW c \in Dials, c # voice'
                   PROVE  /\ pipe'[<<c, "responder">>] = <<>>
                          /\ reader'[<<c, "responder">>] # "text"
        OBVIOUS
      <3>1. pipe[<<c, "responder">>] = <<>> /\ reader[<<c, "responder">>] # "text"
        BY <1>4 DEF StreamsClean
      <3>2. <<c, "responder">> # up /\ <<c, "responder">> \in Lanes
        OBVIOUS
      <3> QED BY <1>4, <3>1, <3>2 DEF TypeInv, TypeOK
    <2> QED BY <2>1, <2>3, <2>4, <2>5 DEF StreamsClean
  <1> QED BY <1>5, <1>6, <1>7

(* The read loop starts on a lane nobody has read, and the lane that gets  *)
(* the responder's voice had no writer.                                    *)
LEMMA AcceptFrameInv ==
  ASSUME FrameInv, TypeInv', NEW d \in Dials, AcceptBi(d)
  PROVE  FrameInv'
  <1> DEFINE up == <<d, "initiator">>
  <1> USE LaneType DEF FrameInv
  <1>1. reader[up] = "none" /\ dial[d] = "live" /\ serve[d] = "accepting"
    BY DEF AcceptBi, StreamsClean
  <1>2. /\ pipe' = pipe /\ dial' = dial
        /\ reader' = [reader EXCEPT ![up] = "len"]
        /\ serve' = [serve EXCEPT ![d] = "serving"]
        /\ \/ voice' = voice /\ writer' = writer
           \/ /\ voice = NoDial /\ voice' = d
              /\ writer' = [writer EXCEPT ![Responder].st = "idle"]
    BY DEF AcceptBi
  <1>3. ASSUME NEW l \in Lanes PROVE LaneInv(l)'
    <2>1. pipe'[l] = pipe[l] /\ NextPart(l)' = NextPart(l)
          /\ (reader[l] = "done" => reader'[l] = "done")
      <3>1. CASE l = up
        BY <1>1, <1>2, <3>1 DEF NextPart, TypeInv, TypeOK
      <3>2. CASE l # up
        BY <1>2, <3>2 DEF NextPart, TypeInv, TypeOK
      <3> QED BY <3>1, <3>2
    <2>2. CASE voice' = voice /\ writer' = writer
      <3>1. Writing(l)' <=> Writing(l)
        BY <2>2 DEF Writing, LaneOf, WriterOf
      <3> QED BY <2>1, <2>2, <3>1, LaneUntouched
    <2>3. CASE /\ voice = NoDial /\ voice' = d
               /\ writer' = [writer EXCEPT ![Responder].st = "idle"]
      <3>1. writer[Responder].st = "none" /\ writer'[Responder].st = "idle"
        BY <2>3 DEF TypeInv, TypeOK, VoiceTaken
      <3>2. CASE WriterOf(l) = Responder
        <4>1. ~Writing(l) /\ ~Writing(l)'
          BY <3>1, <3>2 DEF Writing, WriterOf
        <4> QED BY <2>1, <3>1, <3>2, <4>1, LaneUntouched
      <3>3. CASE WriterOf(l) # Responder
        <4>1. writer'[WriterOf(l)] = writer[WriterOf(l)]
          BY <2>3, <3>3 DEF TypeInv, TypeOK
        <4>2. Writing(l)' <=> Writing(l)
          BY <3>3, <4>1 DEF Writing, LaneOf, WriterOf
        <4> QED BY <2>1, <4>1, <4>2, LaneUntouched
      <3> QED BY <3>2, <3>3
    <2> QED BY <1>2, <2>2, <2>3
  <1>4. StreamsClean'
    <2>1. \A l \in Lanes : l # up => reader'[l] = reader[l]
      BY <1>2 DEF TypeInv, TypeOK
    <2>2. \A l \in Lanes : reader'[l] = "done" => pipe'[l] = <<>>
      BY <1>2, <2>1 DEF StreamsClean, TypeInv, TypeOK
    <2>3. \A c \in Dials : writer'[c] = writer[c]
      <3> SUFFICES ASSUME NEW c \in Dials PROVE writer'[c] = writer[c]
        OBVIOUS
      <3>1. c # Responder /\ c \in Ends
        OBVIOUS
      <3>2. CASE voice' = d /\ writer' = [writer EXCEPT ![Responder].st = "idle"]
        BY <3>1, <3>2 DEF TypeInv, TypeOK
      <3>3. CASE voice' = voice /\ writer' = writer
        BY <3>3
      <3> QED BY <1>2, <3>2, <3>3
    <2>4. \A c \in Dials : c # d => <<c, "initiator">> # up
      OBVIOUS
    <2>5. \A c \in Dials : <<c, "responder">> # up
      OBVIOUS
    <2>6. \A c \in Dials : dial'[c] # "live" =>
            /\ writer'[c].st = "none"
            /\ pipe'[<<c, "initiator">>] = <<>>
            /\ reader'[<<c, "initiator">>] = "none"
            /\ reader'[<<c, "responder">>] = "none"
      BY <1>1, <1>2, <2>1, <2>3, <2>4, <2>5 DEF StreamsClean
    <2>7. ASSUME NEW c \in Dials, serve'[c] # "serving"
          PROVE  reader'[<<c, "initiator">>] = "none"
      <3>1. c # d /\ serve[c] # "serving"
        BY <1>2, <2>7 DEF TypeInv, TypeOK
      <3> QED BY <2>1, <2>4, <3>1 DEF StreamsClean
    <2>8. \A c \in Dials : c # voice' =>
            /\ pipe'[<<c, "responder">>] = <<>>
            /\ reader'[<<c, "responder">>] # "text"
      BY <1>2, <2>1, <2>5 DEF StreamsClean
    <2> QED BY <2>2, <2>6, <2>7, <2>8 DEF StreamsClean
  <1> QED BY <1>3, <1>4

(* A write loop moves on without touching the stream.                      *)
LEMMA WriterMoves ==
  ASSUME FrameInv, TypeInv', NEW e \in Ends, writer[e].st \in {"idle", "text"},
         UNCHANGED <<pipe, reader, voice, dial, serve>>,
         \A f \in Ends : f # e => writer'[f] = writer[f],
         \/ writer'[e].st = "done"
         \/ writer'[e].st = "idle" /\ writer[e].msg.size = "empty"
  PROVE  FrameInv'
  <1> USE LaneType DEF FrameInv
  <1>1. ASSUME NEW l \in Lanes PROVE LaneInv(l)'
    <2>1. WriterOf(l)' = WriterOf(l) /\ NextPart(l)' = NextPart(l)
          /\ LaneOf(WriterOf(l))' = LaneOf(WriterOf(l))
      BY DEF WriterOf, NextPart, LaneOf
    <2>2. CASE WriterOf(l) # e
      <3>1. Writing(l)' <=> Writing(l)
        BY <2>1, <2>2 DEF Writing
      <3> QED BY <2>1, <2>2, <3>1, LaneUntouched
    <2>3. CASE WriterOf(l) = e
      <3>1. writer'[e].st # "done" => (Writing(l)' <=> Writing(l))
        BY <2>1, <2>3 DEF Writing
      <3> QED BY <2>1, <2>3, <3>1, LaneUntouched
    <2> QED BY <2>2, <2>3
  <1>2. \A d \in Dials : dial[d] # "live" => d # e
    BY DEF StreamsClean
  <1>3. StreamsClean'
    BY <1>2 DEF StreamsClean
  <1> QED BY <1>1, <1>3

(* A write loop writes the part its lane calls for.                        *)
LEMMA WriterWrites ==
  ASSUME FrameInv, TypeInv', NEW e \in Ends, writer[e].st \in {"idle", "text"},
         NEW l \in Lanes, l = LaneOf(e),
         NEW m \in Msg, WriteFrame(l, WritePart(l), m),
         UNCHANGED <<reader, voice, dial, serve>>,
         \A f \in Ends : f # e => writer'[f] = writer[f],
         writer'[e].st \in {"idle", "text"},
         FollowedBy([part |-> WritePart(l), msg |-> m])
           = IF writer'[e].st = "text" /\ writer'[e].msg.size # "empty"
             THEN "text" ELSE "len"
  PROVE  FrameInv'
  <1> DEFINE f == [part |-> WritePart(l), msg |-> m]
  <1> USE LaneType DEF FrameInv
  <1>1. WriterOf(l) = e /\ LaneOf(e)' = l
    BY LaneOfType DEF LaneOf
  <1>2. f \in Frame
    BY DEF Frame, WritePart
  <1>3. ASSUME NEW k \in Lanes, k # l PROVE LaneInv(k)' /\ pipe'[k] = pipe[k]
    <2>1. pipe'[k] = pipe[k]
      BY <1>1, <1>3 DEF WriteFrame, TypeInv, TypeOK
    <2>2. WriterOf(k)' = WriterOf(k) /\ NextPart(k)' = NextPart(k)
          /\ LaneOf(WriterOf(k))' = LaneOf(WriterOf(k))
      BY DEF WriterOf, NextPart, LaneOf
    <2>3. CASE WriterOf(k) # e
      <3>1. Writing(k)' <=> Writing(k)
        BY <2>2, <2>3 DEF Writing
      <3> QED BY <2>1, <2>2, <2>3, <3>1, LaneUntouched
    <2>4. CASE WriterOf(k) = e
      <3>1. ~Writing(k) /\ ~Writing(k)'
        BY <1>3, <2>2, <2>4 DEF Writing
      <3> QED BY <2>1, <2>2, <2>4, <3>1, LaneUntouched
    <2> QED BY <2>3, <2>4
  <1>4. LaneInv(l)'
    <2>1. WriterOf(l)' = e /\ NextPart(l)' = NextPart(l)
      BY <1>1 DEF WriterOf, NextPart
    <2>2. CASE reader[l] = "done"
      <3>1. pipe'[l] = pipe[l]
        BY <2>2 DEF WriteFrame
      <3> QED BY <1>1, <2>1, <2>2, <3>1 DEF LaneInv
    <2>3. CASE reader[l] # "done"
      <3> DEFINE p == pipe[l]
      <3>1. pipe'[l] = Append(p, f) /\ p \in Seq(Frame)
        BY <1>1, <2>3 DEF WriteFrame, TypeInv, TypeOK
      <3>2. Alternates(p) /\ EndPart(l) = WritePart(l)
            /\ (p # <<>> => Head(p).part = NextPart(l))
        BY <1>1, <2>3 DEF LaneInv
      <3>3. p # <<>> => FollowedBy(p[Len(p)]) = f.part
        BY <3>2 DEF EndPart
      <3>4. p = <<>> => f.part = NextPart(l)
        BY <3>2 DEF EndPart
      <3> HIDE DEF p, f
      <3>5. /\ Alternates(Append(p, f))
            /\ Append(p, f) # <<>>
            /\ Append(p, f)[Len(Append(p, f))] = f
            /\ p = <<>> => Head(Append(p, f)) = f
            /\ p # <<>> => Head(Append(p, f)) = Head(p)
        BY <1>2, <3>1, <3>2, <3>3, AppendAlternates
      <3>6. Head(Append(p, f)).part = NextPart(l)
        BY <3>2, <3>4, <3>5
      <3>7. EndPart(l)' = FollowedBy(f)
        BY <1>1, <3>1, <3>5 DEF EndPart
      <3>8. WritePart(l)' = FollowedBy(f)
        BY <1>1, <2>1 DEF WritePart, Writing, f
      <3> QED BY <1>1, <2>1, <3>1, <3>5, <3>6, <3>7, <3>8 DEF LaneInv
    <2> QED BY <2>2, <2>3
  <1>5. StreamsClean'
    <2>1. ASSUME NEW k \in Lanes, reader'[k] = "done" PROVE pipe'[k] = <<>>
      BY <1>1, <1>3, <2>1 DEF StreamsClean, WriteFrame
    <2>2. ASSUME NEW d \in Dials, dial'[d] # "live"
          PROVE  /\ writer'[d].st = "none"
                 /\ pipe'[<<d, "initiator">>] = <<>>
                 /\ reader'[<<d, "initiator">>] = "none"
                 /\ reader'[<<d, "responder">>] = "none"
      <3>1. d # e
        BY <2>2 DEF StreamsClean
      <3>2. <<d, "initiator">> # l
        BY <1>1, <3>1 DEF WriterOf
      <3> QED BY <1>3, <2>2, <3>1, <3>2 DEF StreamsClean
    <2>3. ASSUME NEW d \in Dials, d # voice'
          PROVE  /\ pipe'[<<d, "responder">>] = <<>>
                 /\ reader'[<<d, "responder">>] # "text"
      <3>1. <<d, "responder">> # l
        BY <2>3 DEF LaneOf
      <3> QED BY <1>3, <2>3, <3>1 DEF StreamsClean
    <2> QED BY <2>1, <2>2, <2>3 DEF StreamsClean
  <1> QED BY <1>3, <1>4, <1>5

LEMMA WriteFrameInv ==
  ASSUME FrameInv, TypeInv', NEW e \in Ends,
         WriteTask(e) \/ WriteFails(e) \/ Finish(e)
  PROVE  FrameInv'
  <1>1. writer[e].st \in {"idle", "text"}
    BY DEF WriteTask, WriteLen, WriteText, WriteFails, WriteErrs, Finish
  <1>2. LaneOf(e) \in Lanes /\ WriterOf(LaneOf(e)) = e
    BY <1>1, LaneOfType DEF FrameInv
  <1>3. CASE WriteLen(e)
    <2>1. Head(out[e]) \in Msg
      BY <1>3 DEF WriteLen, FrameInv, TypeInv, TypeOK
    <2>2. writer' = [writer EXCEPT ![e] = [st |-> "text", msg |-> Head(out[e])]]
          /\ UNCHANGED <<reader, voice, dial, serve>>
      BY <1>3 DEF WriteLen, startVars, readVars
    <2>3. writer'[e] = [st |-> "text", msg |-> Head(out[e])]
          /\ \A f \in Ends : f # e => writer'[f] = writer[f]
      BY <2>2 DEF FrameInv, TypeInv, TypeOK
    <2>4. WritePart(LaneOf(e)) = "len"
      BY <1>2, <1>3 DEF WriteLen, WritePart, Writing
    <2>5. WriteFrame(LaneOf(e), WritePart(LaneOf(e)), Head(out[e]))
      BY <1>3, <2>4 DEF WriteLen
    <2>6. FollowedBy([part |-> WritePart(LaneOf(e)), msg |-> Head(out[e])])
            = IF writer'[e].st = "text" /\ writer'[e].msg.size # "empty"
              THEN "text" ELSE "len"
      BY <2>3, <2>4 DEF FollowedBy
    <2> QED BY <1>1, <1>2, <2>1, <2>2, <2>3, <2>5, <2>6, WriterWrites
  <1>4. CASE WriteText(e)
    <2>1. writer' = [writer EXCEPT ![e] = [st |-> "idle", msg |-> NoMsg]]
          /\ UNCHANGED <<reader, voice, dial, serve>>
      BY <1>4 DEF WriteText, startVars, readVars
    <2>2. writer'[e].st = "idle" /\ \A f \in Ends : f # e => writer'[f] = writer[f]
      BY <2>1 DEF FrameInv, TypeInv, TypeOK
    <2>3. CASE writer[e].msg.size = "empty"
      <3>1. pipe' = pipe
        BY <1>4, <2>3 DEF WriteText
      <3> QED BY <1>1, <2>1, <2>2, <2>3, <3>1, WriterMoves
    <2>4. CASE writer[e].msg.size # "empty"
      <3>1. WritePart(LaneOf(e)) = "text"
        BY <1>2, <1>4, <2>4 DEF WriteText, WritePart, Writing
      <3>2. WriteFrame(LaneOf(e), WritePart(LaneOf(e)), writer[e].msg)
            /\ writer[e].msg \in Msg
        BY <1>4, <2>4, <3>1 DEF WriteText, FrameInv, TypeInv, TypeOK
      <3>3. FollowedBy([part |-> WritePart(LaneOf(e)), msg |-> writer[e].msg])
              = IF writer'[e].st = "text" /\ writer'[e].msg.size # "empty"
                THEN "text" ELSE "len"
        BY <2>2, <3>1 DEF FollowedBy
      <3> QED BY <1>1, <1>2, <2>1, <2>2, <3>2, <3>3, WriterWrites
    <2> QED BY <2>3, <2>4
  <1>5. CASE WriteFails(e) \/ Finish(e)
    <2>1. UNCHANGED <<pipe, reader, voice, dial, serve>>
      BY <1>5 DEF WriteFails, Finish, startVars, readVars
    <2>2. writer'[e].st = "done" /\ \A f \in Ends : f # e => writer'[f] = writer[f]
      BY <1>5 DEF WriteFails, Finish, FrameInv, TypeInv, TypeOK
    <2> QED BY <1>1, <2>1, <2>2, WriterMoves
  <1> QED BY <1>3, <1>4, <1>5 DEF WriteTask

(* A read loop takes a frame, of the part it expects, or ends; then what   *)
(* remains of the stream is gone.                                          *)
LEMMA ReadFrameInv ==
  ASSUME FrameInv, TypeInv', NEW l \in Lanes, ReadTask(l) \/ ReadFails(l)
  PROVE  FrameInv'
  <1> USE LaneType DEF FrameInv
  <1> DEFINE p == pipe[l]
  <1>1. /\ UNCHANGED <<dial, serve, voice, writer>>
        /\ reader[l] \in {"len", "text"}
        /\ \A k \in Lanes : k # l => pipe'[k] = pipe[k] /\ reader'[k] = reader[k]
    <2>1. CASE ReadLen(l)
      BY <2>1 DEF ReadLen, startVars, writeVars, TypeInv, TypeOK
    <2>2. CASE ReadText(l)
      BY <2>2 DEF ReadText, startVars, writeVars, TypeInv, TypeOK
    <2>3. CASE ReadFails(l)
      BY <2>3 DEF ReadFails, startVars, writeVars, TypeInv, TypeOK
    <2> QED BY <2>1, <2>2, <2>3 DEF ReadTask
  <1>2. \/ reader'[l] = "done" /\ pipe'[l] = <<>>
        \/ /\ p # <<>> /\ pipe'[l] = Tail(p)
           /\ reader'[l] = FollowedBy(Head(p))
    <2>1. CASE ReadFails(l)
      BY <2>1 DEF ReadFails, TypeInv, TypeOK
    <2>2. CASE ReadLen(l)
      <3>1. Head(p).msg.size \in Size /\ Head(p).part = "len"
        BY <2>2, HeadType DEF ReadLen, LaneInv, NextPart, Msg
      <3>2. AfterLen(Head(p).msg) = "done"
              \/ AfterLen(Head(p).msg) = FollowedBy(Head(p))
        BY <3>1 DEF AfterLen, FollowedBy, Size
      <3> QED BY <2>2, <3>2 DEF ReadLen, TypeInv, TypeOK
    <2>3. CASE ReadText(l)
      <3>1. Head(p).part = "text"
        BY <2>3 DEF ReadText, LaneInv, NextPart
      <3>2. FollowedBy(Head(p)) = "len"
        BY <3>1 DEF FollowedBy
      <3> QED BY <2>3, <3>2 DEF ReadText, TypeInv, TypeOK
    <2> QED BY <2>1, <2>2, <2>3 DEF ReadTask
  <1>3. ASSUME NEW k \in Lanes, k # l PROVE LaneInv(k)'
    <2>1. (Writing(k)' <=> Writing(k)) /\ NextPart(k)' = NextPart(k)
      BY <1>1, <1>3 DEF Writing, LaneOf, WriterOf, NextPart
    <2> QED BY <1>1, <1>3, <2>1, LaneUntouched
  <1>5. LaneInv(l)'
    <2>1. CASE reader'[l] = "done" /\ pipe'[l] = <<>>
      <3>1. Alternates(<<>>)
        BY DEF Alternates
      <3> QED BY <2>1, <3>1 DEF LaneInv
    <2>2. CASE /\ p # <<>> /\ pipe'[l] = Tail(p)
               /\ reader'[l] = FollowedBy(Head(p))
      <3>1. p \in Seq(Frame) /\ Alternates(p)
        BY DEF TypeInv, TypeOK, LaneInv
      <3>2. /\ Alternates(Tail(p))
            /\ Tail(p) # <<>> => /\ Head(Tail(p)).part = FollowedBy(Head(p))
                                 /\ Tail(p)[Len(Tail(p))] = p[Len(p)]
            /\ Tail(p) = <<>> => Head(p) = p[Len(p)]
        BY <2>2, <3>1, TailAlternates
      <3>3. NextPart(l)' = FollowedBy(Head(p))
        BY <2>2 DEF NextPart, FollowedBy
      <3>4. EndPart(l)' = EndPart(l)
        BY <2>2, <3>2, <3>3 DEF EndPart
      <3>5. WritePart(l)' = WritePart(l) /\ WriterOf(l)' = WriterOf(l)
        BY <1>1 DEF WritePart, Writing, LaneOf, WriterOf
      <3> QED BY <1>1, <2>2, <3>2, <3>3, <3>4, <3>5 DEF LaneInv
    <2> QED BY <1>2, <2>1, <2>2
  <1>6. StreamsClean'
    <2>1. FollowedBy(Head(p)) # "done"
      BY DEF FollowedBy
    <2>2. ASSUME NEW k \in Lanes, reader'[k] = "done" PROVE pipe'[k] = <<>>
      BY <1>1, <1>2, <2>1, <2>2 DEF StreamsClean
    <2>3. ASSUME NEW d \in Dials, dial'[d] # "live"
          PROVE  /\ writer'[d].st = "none"
                 /\ pipe'[<<d, "initiator">>] = <<>>
                 /\ reader'[<<d, "initiator">>] = "none"
                 /\ reader'[<<d, "responder">>] = "none"
      <3>1. <<d, "initiator">> # l /\ <<d, "responder">> # l
        BY <1>1, <2>3 DEF StreamsClean
      <3> QED BY <1>1, <2>3, <3>1 DEF StreamsClean
    <2>4. ASSUME NEW d \in Dials, serve'[d] # "serving"
          PROVE  reader'[<<d, "initiator">>] = "none"
      <3>1. <<d, "initiator">> # l
        BY <1>1, <2>4 DEF StreamsClean
      <3> QED BY <1>1, <2>4, <3>1 DEF StreamsClean
    <2>5. ASSUME NEW d \in Dials, d # voice'
          PROVE  /\ pipe'[<<d, "responder">>] = <<>>
                 /\ reader'[<<d, "responder">>] # "text"
      <3>1. pipe[<<d, "responder">>] = <<>> /\ reader[<<d, "responder">>] # "text"
        BY <1>1, <2>5 DEF StreamsClean
      <3>2. CASE <<d, "responder">> = l
        BY <1>2, <3>1, <3>2
      <3>3. CASE <<d, "responder">> # l
        BY <1>1, <3>1, <3>3
      <3> QED BY <3>2, <3>3
    <2> QED BY <2>2, <2>3, <2>4, <2>5 DEF StreamsClean
  <1> QED BY <1>3, <1>5, <1>6

LEMMA NextFrameInv == FrameInv /\ [Next]_vars => FrameInv'
  <1> SUFFICES ASSUME FrameInv, [Next]_vars PROVE FrameInv'
    OBVIOUS
  <1>1. TypeInv'
    BY NextTypeInv DEF FrameInv
  <1> QED BY <1>1, QuietStep, PrimeFrameInv, AcceptFrameInv, WriteFrameInv,
             ReadFrameInv
    DEF Next, DialTask, AcceptTask

(* The read loop never takes text for a length or a length for text, with  *)
(* any messages, and wherever writes fail, loops end or streams stop.      *)
THEOREM FramingHolds == Spec => []FramesAligned
  <1>1. FrameInv => FramesAligned
    BY DEF FrameInv, LaneInv, Alternates, FramesAligned
  <1> QED BY <1>1, InitFrameInv, NextFrameInv, PTL DEF Spec

-----------------------------------------------------------------------------
(* Order.  What a receiver has got or has queued, in the order it came; a  *)
(* sequence of messages with every text of a sender in its place.          *)

Arrived(r) == got[r] \o inq[r]
Has(q, m) == \E i \in DOMAIN q : q[i] = m

InPlace(q, s) ==
  \A i \in DOMAIN q :
    LET m == q[i]
    IN /\ m.no \in DOMAIN s[m.by] /\ m = s[m.by][m.no]
       /\ m.size = "text"
       /\ \A k \in 1..(m.no - 1) : s[m.by][k].size # "empty" =>
            \E j \in 1..(i - 1) : q[j] = s[m.by][k]
       /\ \A j \in 1..(i - 1) : q[j].by = m.by => q[j].no < m.no

(* How many messages of f its write loop has taken.                        *)
TakenBy(f) == Len(sent[f]) - Len(out[f])

(* Messages are numbered as they are sent, the channel holds those not yet *)
(* taken, or lost with their responder, and the write loop is at the last  *)
(* one taken.  That the responder's begins with the first is VoiceHeld.    *)
SentInv(f) ==
  /\ \A k \in DOMAIN sent[f] : sent[f][k].by = f /\ sent[f][k].no = k
  /\ writer[f].st # "done" =>
       /\ TakenBy(f) \in Nat
       /\ \A i \in DOMAIN out[f] : out[f][i] = sent[f][TakenBy(f) + i]
  /\ f # Responder /\ writer[f].st = "none" => TakenBy(f) = 0
  /\ writer[f].st = "text" =>
       TakenBy(f) \in DOMAIN sent[f] /\ writer[f].msg = sent[f][TakenBy(f)]

(* A write loop runs on the lane, and the reader can still read from it.   *)
Active(l) ==
  LaneOf(WriterOf(l)) = l /\ writer[WriterOf(l)].st \in {"idle", "text"}
Flowing(l) == reader[l] # "done" /\ (pipe[l] # <<>> \/ Active(l))

(* The frames on a lane carry the messages one after the other, up to the  *)
(* one the write loop is at, and only a write loop puts them there.        *)
FrameOf(fr, s) ==
  \/ fr.msg.no = 0 /\ fr.msg.size = "empty"
  \/ fr.msg.no \in DOMAIN s /\ fr.msg = s[fr.msg.no]
Numbered(p) ==
  \A i \in 1..(Len(p) - 1) :
    p[i + 1].msg.no = p[i].msg.no + (IF p[i + 1].part = "len" THEN 1 ELSE 0)
PipeInv(l) ==
  /\ \A i \in DOMAIN pipe[l] : FrameOf(pipe[l][i], sent[WriterOf(l)])
  /\ Numbered(pipe[l])
  /\ Active(l) /\ pipe[l] # <<>> => pipe[l][Len(pipe[l])].msg.no = TakenBy(WriterOf(l))
  /\ pipe[l] # <<>> => LaneOf(WriterOf(l)) = l /\ writer[WriterOf(l)].st # "none"

(* The number of the message the reader reads next or is in.               *)
NextNo(l) ==
  IF pipe[l] # <<>> THEN Head(pipe[l]).msg.no
  ELSE IF reader[l] = "text" THEN TakenBy(WriterOf(l)) ELSE TakenBy(WriterOf(l)) + 1

(* Every text before that one has arrived, and none from it on; the reader *)
(* waits for the text of a message that has one.  Nothing comes from a     *)
(* write loop that has not started.                                        *)
ReachInv(l) ==
  LET f == WriterOf(l)
      r == ReaderOf(l)
  IN /\ Flowing(l) =>
          /\ \A k \in 1..(NextNo(l) - 1) :
               k \in DOMAIN sent[f]
                 /\ (sent[f][k].size # "empty" => Has(Arrived(r), sent[f][k]))
          /\ \A m \in Msg : Has(Arrived(r), m) /\ m.by = f => m.no < NextNo(l)
          /\ reader[l] = "text" =>
               NextNo(l) \in DOMAIN sent[f] /\ sent[f][NextNo(l)].size = "text"
     /\ LaneOf(f) # l \/ writer[f].st = "none" =>
          \A m \in Msg : Has(Arrived(r), m) => m.by # f

OrderInv ==
  /\ FrameInv
  /\ \A f \in Ends : SentInv(f)
  /\ \A l \in Lanes : PipeInv(l) /\ ReachInv(l)
  /\ \A r \in Ends : InPlace(Arrived(r), sent)

-----------------------------------------------------------------------------
LEMMA ConcatIs ==
  ASSUME NEW S, NEW g \in Seq(S), NEW h \in Seq(S)
  PROVE  /\ g \o h \in Seq(S) /\ Len(g \o h) = Len(g) + Len(h)
         /\ \A i \in 1..Len(g) : (g \o h)[i] = g[i]
         /\ \A i \in 1..Len(h) : (g \o h)[Len(g) + i] = h[i]
  OBVIOUS

(* A message delivered stays where it was, and one that comes is the last. *)
LEMMA DeliveredStays ==
  ASSUME NEW S, NEW g \in Seq(S), NEW h \in Seq(S), h # <<>>
  PROVE  Append(g, Head(h)) \o Tail(h) = g \o h
  <1> DEFINE a == Append(g, Head(h))
             t == Tail(h)
  <1>1. a \in Seq(S) /\ t \in Seq(S)
    OBVIOUS
  <1>2. /\ Len(a) = Len(g) + 1 /\ Len(t) = Len(h) - 1 /\ Len(h) > 0
        /\ Len(g) \in Nat /\ Len(h) \in Nat
        /\ \A i \in 1..Len(g) : a[i] = g[i]
        /\ a[Len(g) + 1] = h[1]
        /\ \A i \in 1..(Len(h) - 1) : t[i] = h[i + 1]
    OBVIOUS
  <1> HIDE DEF a, t
  <1>3. /\ a \o t \in Seq(S) /\ g \o h \in Seq(S)
        /\ Len(a \o t) = Len(a) + Len(t) /\ Len(g \o h) = Len(g) + Len(h)
        /\ \A i \in 1..Len(a) : (a \o t)[i] = a[i]
        /\ \A i \in 1..Len(t) : (a \o t)[Len(a) + i] = t[i]
        /\ \A i \in 1..Len(g) : (g \o h)[i] = g[i]
        /\ \A i \in 1..Len(h) : (g \o h)[Len(g) + i] = h[i]
    BY <1>1, ConcatIs
  <1>4. ASSUME NEW i \in 1..Len(g \o h) PROVE (a \o t)[i] = (g \o h)[i]
    <2>1. CASE i \in 1..Len(g)
      BY <1>2, <1>3, <2>1
    <2>2. CASE i = Len(g) + 1
      <3>1. (a \o t)[i] = a[i]
        BY <1>2, <1>3, <2>2
      <3>2. (g \o h)[i] = h[1]
        BY <1>2, <1>3, <2>2
      <3> QED BY <1>2, <2>2, <3>1, <3>2
    <2>3. CASE i > Len(g) + 1
      <3> DEFINE n == i - Len(a)
      <3>1. n \in 1..Len(t) /\ i = Len(a) + n /\ n + 1 \in 1..Len(h) /\ i = Len(g) + (n + 1)
            /\ n \in 1..(Len(h) - 1)
        BY <1>2, <1>3, <2>3
      <3> HIDE DEF n
      <3>2. (a \o t)[i] = t[n]
        BY <1>3, <3>1
      <3>3. (g \o h)[i] = h[n + 1]
        BY <1>3, <3>1
      <3> QED BY <1>2, <3>1, <3>2, <3>3
    <2> QED BY <1>2, <1>3, <2>1, <2>2, <2>3
  <1>5. Len(a \o t) = Len(g \o h)
    BY <1>2, <1>3
  <1> QED BY <1>3, <1>4, <1>5 DEF a, t

LEMMA ArrivesLast ==
  ASSUME NEW S, NEW g \in Seq(S), NEW h \in Seq(S), NEW m \in S
  PROVE  g \o Append(h, m) = Append(g \o h, m)
  <1> DEFINE a == Append(h, m)
             c == g \o h
  <1>1. a \in Seq(S) /\ Len(g) \in Nat /\ Len(h) \in Nat /\ Len(a) = Len(h) + 1
        /\ (\A i \in 1..Len(h) : a[i] = h[i]) /\ a[Len(h) + 1] = m
    OBVIOUS
  <1>2. /\ c \in Seq(S) /\ Len(c) = Len(g) + Len(h)
        /\ \A i \in 1..Len(g) : c[i] = g[i]
        /\ \A i \in 1..Len(h) : c[Len(g) + i] = h[i]
    BY ConcatIs
  <1> HIDE DEF a, c
  <1>3. /\ g \o a \in Seq(S) /\ Len(g \o a) = Len(g) + Len(a)
        /\ \A i \in 1..Len(g) : (g \o a)[i] = g[i]
        /\ \A i \in 1..Len(a) : (g \o a)[Len(g) + i] = a[i]
    <2>1. a \in Seq(S)
      BY <1>1
    <2> QED BY <2>1, ConcatIs
  <1>4. /\ Append(c, m) \in Seq(S) /\ Len(Append(c, m)) = Len(c) + 1
        /\ \A i \in 1..Len(c) : Append(c, m)[i] = c[i]
        /\ Append(c, m)[Len(c) + 1] = m
    BY <1>2
  <1>5. ASSUME NEW i \in 1..Len(g \o a) PROVE (g \o a)[i] = Append(c, m)[i]
    <2>1. CASE i \in 1..Len(g)
      BY <1>1, <1>2, <1>3, <1>4, <2>1
    <2>2. CASE i > Len(g)
      <3> DEFINE n == i - Len(g)
      <3>1. n \in 1..Len(a) /\ i = Len(g) + n
        BY <1>1, <1>3, <2>2
      <3> HIDE DEF n
      <3>2. (g \o a)[i] = a[n]
        BY <1>3, <3>1
      <3>3. CASE n \in 1..Len(h)
        BY <1>1, <1>2, <1>4, <3>1, <3>2, <3>3
      <3>4. CASE n = Len(h) + 1
        <4>1. i = Len(c) + 1
          BY <1>1, <1>2, <3>1, <3>4
        <4> QED BY <1>1, <1>4, <3>2, <3>4, <4>1
      <3>5. n \in 1..Len(h) \/ n = Len(h) + 1
        BY <1>1, <3>1
      <3> QED BY <3>3, <3>4, <3>5
    <2>3. i \in Nat /\ i > 0
      BY <1>1, <1>3
    <2>4. i \in 1..Len(g) \/ i > Len(g)
      BY <1>1, <2>3
    <2> QED BY <2>1, <2>2, <2>4
  <1>6. Len(g \o a) = Len(Append(c, m))
    BY <1>1, <1>2, <1>3, <1>4
  <1> QED BY <1>3, <1>4, <1>5, <1>6 DEF a, c

LEMMA HasAppend ==
  ASSUME NEW S, NEW q \in Seq(S), NEW m \in S
  PROVE  \A x : Has(Append(q, m), x) <=> Has(q, x) \/ x = m
  <1>1. /\ DOMAIN Append(q, m) = 1..(Len(q) + 1) /\ DOMAIN q = 1..Len(q) /\ Len(q) \in Nat
        /\ \A i \in DOMAIN q : Append(q, m)[i] = q[i]
        /\ Append(q, m)[Len(q) + 1] = m
    OBVIOUS
  <1> HIDE DEF Has
  <1>2. DOMAIN Append(q, m) = DOMAIN q \cup {Len(q) + 1}
    BY <1>1
  <1> QED BY <1>1, <1>2 DEF Has

(* Nothing moves when more is sent.                                        *)
Grown(s, s2) ==
  \A f \in Ends : \A k \in DOMAIN s[f] : k \in DOMAIN s2[f] /\ s2[f][k] = s[f][k]

LEMMA InPlaceGrown ==
  ASSUME NEW q \in Seq(Msg), NEW s \in [Ends -> Seq(Msg)], NEW s2, Grown(s, s2),
         InPlace(q, s)
  PROVE  InPlace(q, s2)
  <1> SUFFICES ASSUME NEW i \in DOMAIN q
               PROVE  LET m == q[i]
                      IN /\ m.no \in DOMAIN s2[m.by] /\ m = s2[m.by][m.no]
                         /\ m.size = "text"
                         /\ \A k \in 1..(m.no - 1) : s2[m.by][k].size # "empty" =>
                              \E j \in 1..(i - 1) : q[j] = s2[m.by][k]
                         /\ \A j \in 1..(i - 1) : q[j].by = m.by => q[j].no < m.no
    BY DEF InPlace
  <1> DEFINE m == q[i]
  <1>1. m \in Msg /\ m.by \in Ends
    <2>1. m \in Msg
      OBVIOUS
    <2> QED BY <2>1 DEF Msg
  <1>2. /\ m.no \in DOMAIN s[m.by] /\ m = s[m.by][m.no]
        /\ m.size = "text"
        /\ \A k \in 1..(m.no - 1) : s[m.by][k].size # "empty" =>
             \E j \in 1..(i - 1) : q[j] = s[m.by][k]
        /\ \A j \in 1..(i - 1) : q[j].by = m.by => q[j].no < m.no
    BY DEF InPlace
  <1> HIDE DEF m
  <1>3. s[m.by] \in Seq(Msg) /\ DOMAIN s[m.by] = 1..Len(s[m.by]) /\ Len(s[m.by]) \in Nat
    BY <1>1
  <1>4. \A k \in 1..(m.no - 1) : k \in DOMAIN s[m.by]
    BY <1>2, <1>3
  <1>5. \A k \in 1..(m.no - 1) : s2[m.by][k] = s[m.by][k]
    BY <1>1, <1>4 DEF Grown
  <1>6. m.no \in DOMAIN s2[m.by] /\ m = s2[m.by][m.no]
    BY <1>1, <1>2 DEF Grown
  <1> QED BY <1>2, <1>5, <1>6 DEF m

(* The message that is due.                                                *)
Due(m, q, s) ==
  /\ m.no \in DOMAIN s[m.by] /\ m = s[m.by][m.no] /\ m.size = "text"
  /\ \A k \in 1..(m.no - 1) : s[m.by][k].size # "empty" => Has(q, s[m.by][k])
  /\ \A x \in Msg : Has(q, x) /\ x.by = m.by => x.no < m.no

LEMMA InPlaceAppend ==
  ASSUME NEW q \in Seq(Msg), NEW s, InPlace(q, s), NEW m \in Msg, Due(m, q, s)
  PROVE  InPlace(Append(q, m), s)
  <1> DEFINE p == Append(q, m)
             n == Len(q)
  <1>1. /\ DOMAIN q = 1..n /\ n \in Nat
        /\ DOMAIN p = 1..(n + 1)
        /\ \A i \in 1..n : p[i] = q[i] /\ q[i] \in Msg
        /\ p[n + 1] = m
    OBVIOUS
  <1> HIDE DEF p, n
  <1> SUFFICES ASSUME NEW i \in DOMAIN p
               PROVE  /\ p[i].no \in DOMAIN s[p[i].by] /\ p[i] = s[p[i].by][p[i].no]
                      /\ p[i].size = "text"
                      /\ \A k \in 1..(p[i].no - 1) : s[p[i].by][k].size # "empty" =>
                           \E j \in 1..(i - 1) : p[j] = s[p[i].by][k]
                      /\ \A j \in 1..(i - 1) : p[j].by = p[i].by => p[j].no < p[i].no
    BY DEF InPlace, p
  <1>2. CASE i \in 1..n
    <2>1. /\ q[i].no \in DOMAIN s[q[i].by] /\ q[i] = s[q[i].by][q[i].no]
          /\ q[i].size = "text"
          /\ \A k \in 1..(q[i].no - 1) : s[q[i].by][k].size # "empty" =>
               \E j \in 1..(i - 1) : q[j] = s[q[i].by][k]
          /\ \A j \in 1..(i - 1) : q[j].by = q[i].by => q[j].no < q[i].no
      BY <1>1, <1>2 DEF InPlace
    <2>2. p[i] = q[i] /\ \A j \in 1..(i - 1) : p[j] = q[j]
      BY <1>1, <1>2
    <2> QED BY <2>1, <2>2
  <1>3. CASE i = n + 1
    <2>1. p[i] = m /\ \A j \in 1..(i - 1) : j \in DOMAIN q /\ p[j] = q[j] /\ q[j] \in Msg
      BY <1>1, <1>3
    <2>2. 1..(i - 1) = DOMAIN q
      BY <1>1, <1>3
    <2> QED BY <2>1, <2>2 DEF Has, Due
  <1> QED BY <1>1, <1>2, <1>3

LEMMA InPlacePrefix ==
  ASSUME NEW g \in Seq(Msg), NEW h \in Seq(Msg), NEW s, InPlace(g \o h, s)
  PROVE  InPlace(g, s)
  <1> DEFINE p == g \o h
  <1>1. /\ DOMAIN g = 1..Len(g) /\ Len(g) \in Nat /\ DOMAIN g \subseteq DOMAIN p
        /\ \A i \in 1..Len(g) : p[i] = g[i]
    BY ConcatIs
  <1> HIDE DEF p
  <1>2. \A i \in DOMAIN g : p[i] = g[i] /\ \A j \in 1..(i - 1) : p[j] = g[j]
    BY <1>1
  <1>3. InPlace(p, s)
    BY DEF p
  <1> QED BY <1>1, <1>2, <1>3 DEF InPlace

LEMMA ArrivedType ==
  ASSUME TypeInv, NEW r \in Ends
  PROVE  Arrived(r) \in Seq(Msg)
  <1>1. got[r] \in Seq(Msg) /\ inq[r] \in Seq(Msg)
    BY DEF TypeInv, TypeOK
  <1> QED BY <1>1, ConcatIs DEF Arrived

(* A lane on which nothing is written or read, or whose write loop ends.   *)
LEMMA LaneKeeps ==
  ASSUME OrderInv, NEW l \in Lanes, NEW f, f = WriterOf(l), NEW r, r = ReaderOf(l),
         Grown(sent, sent'), pipe'[l] = pipe[l],
         reader'[l] = "text" <=> reader[l] = "text",
         reader[l] = "done" => reader'[l] = "done",
         Active(l)' => Active(l) /\ TakenBy(f)' = TakenBy(f),
         \A x \in Msg : x.by = f => (Has(Arrived(r)', x) <=> Has(Arrived(r), x)),
         LaneOf(f)' # l \/ writer'[f].st = "none" => LaneOf(f) # l \/ writer[f].st = "none"
  PROVE  PipeInv(l)' /\ ReachInv(l)'
  <1>1. f \in Ends /\ r \in Ends /\ f = WriterOf(l)' /\ r = ReaderOf(l)'
    BY LaneType DEF WriterOf, ReaderOf
  <1>2. PipeInv(l) /\ ReachInv(l) /\ TypeOK
    BY DEF OrderInv, FrameInv, TypeInv
  <1>3. \A k \in DOMAIN sent[f] : /\ sent[f][k] \in Msg /\ sent[f][k].by = f
                                  /\ k \in DOMAIN sent'[f] /\ sent'[f][k] = sent[f][k]
    <2>1. \A k \in DOMAIN sent[f] : sent[f][k] \in Msg
      BY <1>1, <1>2 DEF TypeOK
    <2>2. \A k \in DOMAIN sent[f] : sent[f][k].by = f
      BY <1>1 DEF OrderInv, SentInv
    <2>3. \A k \in DOMAIN sent[f] : k \in DOMAIN sent'[f] /\ sent'[f][k] = sent[f][k]
      BY <1>1 DEF Grown
    <2> QED BY <2>1, <2>2, <2>3
  <1>4. PipeInv(l)'
    <2>1. ASSUME NEW i \in DOMAIN pipe'[l] PROVE FrameOf(pipe'[l][i], sent'[f])
      <3>1. FrameOf(pipe[l][i], sent[f])
        BY <1>1, <1>2, <2>1 DEF PipeInv
      <3> QED BY <1>3, <3>1 DEF FrameOf
    <2>2. Active(l)' /\ pipe'[l] # <<>> => pipe'[l][Len(pipe'[l])].msg.no = TakenBy(f)'
      BY <1>2 DEF PipeInv
    <2>3. pipe'[l] # <<>> => LaneOf(f)' = l /\ writer'[f].st # "none"
      BY <1>2 DEF PipeInv
    <2> QED BY <1>1, <1>2, <2>1, <2>2, <2>3 DEF PipeInv
  <1>5. Flowing(l)' => Flowing(l) /\ NextNo(l)' = NextNo(l)
    BY <1>1 DEF Flowing, NextNo
  <1>6. ASSUME Flowing(l)'
        PROVE  /\ \A k \in 1..(NextNo(l) - 1) :
                    k \in DOMAIN sent'[f]
                      /\ (sent'[f][k].size # "empty" => Has(Arrived(r)', sent'[f][k]))
               /\ \A m \in Msg : Has(Arrived(r)', m) /\ m.by = f => m.no < NextNo(l)
               /\ reader'[l] = "text" =>
                    NextNo(l) \in DOMAIN sent'[f] /\ sent'[f][NextNo(l)].size = "text"
    <2>1. /\ \A k \in 1..(NextNo(l) - 1) :
               k \in DOMAIN sent[f]
                 /\ (sent[f][k].size # "empty" => Has(Arrived(r), sent[f][k]))
          /\ \A m \in Msg : Has(Arrived(r), m) /\ m.by = f => m.no < NextNo(l)
          /\ reader[l] = "text" =>
               NextNo(l) \in DOMAIN sent[f] /\ sent[f][NextNo(l)].size = "text"
      BY <1>2, <1>5, <1>6 DEF ReachInv
    <2> QED BY <1>3, <2>1
  <1>7. LaneOf(f)' # l \/ writer'[f].st = "none" =>
          \A m \in Msg : Has(Arrived(r)', m) => m.by # f
    BY <1>2 DEF ReachInv
  <1> QED BY <1>1, <1>4, <1>5, <1>6, <1>7 DEF ReachInv, Has

(* What a write loop has taken when only its state changes.                *)
LEMMA SentKeeps ==
  ASSUME NEW f \in Ends, SentInv(f), sent'[f] = sent[f],
         \/ out'[f] = out[f] /\ writer'[f].st = "idle"
         \/ out'[f] = out[f] /\ writer'[f] = writer[f]
         \/ writer'[f].st = "done",
         writer'[f].st # "done" => writer[f].st # "done"
  PROVE  SentInv(f)'
  BY DEF SentInv, TakenBy

(* Sending.                                                                *)
LEMMA SendSentInv ==
  ASSUME OrderInv, NEW e \in Ends, NEW size \in Sizes, Send(e, size), NEW f \in Ends
  PROVE  /\ SentInv(f)' /\ Grown(sent, sent')
         /\ writer[f].st # "done" => TakenBy(f)' = TakenBy(f)
  <1> DEFINE m == [by |-> e, no |-> Len(sent[e]) + 1, size |-> size]
  <1>1. TypeOK /\ \A g \in Ends : SentInv(g)
    BY DEF OrderInv, FrameInv, TypeInv
  <1>2. /\ sent' = [sent EXCEPT ![e] = Append(@, m)] /\ writer' = writer
        /\ out' = IF writer[e].st = "done" THEN out ELSE [out EXCEPT ![e] = Append(@, m)]
    BY DEF Send
  <1>3. m \in Msg /\ m.by = e /\ m.no = Len(sent[e]) + 1
    BY <1>1, ChatAssumption DEF Msg, TypeOK
  <1> HIDE DEF m
  <1>4. /\ sent[e] \in Seq(Msg) /\ out[e] \in Seq(Msg)
        /\ sent[f] \in Seq(Msg) /\ out[f] \in Seq(Msg)
    BY <1>1 DEF TypeOK
  <1>5. sent'[e] = Append(sent[e], m) /\ \A g \in Ends : g # e => sent'[g] = sent[g]
    BY <1>1, <1>2 DEF TypeOK
  <1>6. /\ Len(sent'[e]) = Len(sent[e]) + 1 /\ Len(sent[e]) \in Nat
        /\ DOMAIN sent[e] = 1..Len(sent[e]) /\ DOMAIN sent'[e] = 1..(Len(sent[e]) + 1)
        /\ \A k \in DOMAIN sent[e] : sent'[e][k] = sent[e][k]
        /\ sent'[e][Len(sent[e]) + 1] = m
    BY <1>3, <1>4, <1>5
  <1>7. Grown(sent, sent')
    <2>1. \A k \in DOMAIN sent[e] : k \in DOMAIN sent'[e]
      BY <1>6
    <2> QED BY <1>5, <1>6, <2>1 DEF Grown
  <1>8. CASE f # e
    <2>1. out'[f] = out[f]
      <3>1. CASE writer[e].st = "done"
        BY <1>2, <3>1
      <3>2. CASE writer[e].st # "done"
        BY <1>1, <1>2, <1>8, <3>2 DEF TypeOK
      <3> QED BY <3>1, <3>2
    <2>2. sent'[f] = sent[f] /\ writer'[f] = writer[f]
      BY <1>2, <1>5, <1>8
    <2>3. SentInv(f)'
      BY <1>1, <2>1, <2>2, SentKeeps
    <2> QED BY <1>7, <2>1, <2>2, <2>3 DEF TakenBy
  <1>9. CASE f = e
    <2>1. \A k \in DOMAIN sent'[e] : sent'[e][k].by = e /\ sent'[e][k].no = k
      <3>1. \A k \in DOMAIN sent[e] : sent[e][k].by = e /\ sent[e][k].no = k
        BY <1>1 DEF SentInv
      <3>2. \A k \in DOMAIN sent'[e] : k \in DOMAIN sent[e] \/ k = Len(sent[e]) + 1
        BY <1>6
      <3> QED BY <1>3, <1>6, <3>1, <3>2
    <2>2. CASE writer[e].st = "done"
      BY <1>2, <1>7, <1>9, <2>1, <2>2 DEF SentInv
    <2>3. CASE writer[e].st # "done"
      <3>1. out'[e] = Append(out[e], m)
        BY <1>1, <1>2, <2>3 DEF TypeOK
      <3>2. /\ Len(out'[e]) = Len(out[e]) + 1 /\ Len(out[e]) \in Nat
            /\ DOMAIN out[e] = 1..Len(out[e]) /\ DOMAIN out'[e] = 1..(Len(out[e]) + 1)
            /\ \A k \in DOMAIN out[e] : out'[e][k] = out[e][k]
            /\ out'[e][Len(out[e]) + 1] = m
        BY <1>3, <1>4, <3>1
      <3>7. TakenBy(e) \in Nat
        BY <1>1, <2>3 DEF SentInv
      <3>3. TakenBy(e)' = TakenBy(e) /\ TakenBy(e) + Len(out[e]) = Len(sent[e])
            /\ TakenBy(e) \in Nat
        BY <1>6, <3>2, <3>7 DEF TakenBy
      <3>4. ASSUME NEW i \in DOMAIN out'[e] PROVE out'[e][i] = sent'[e][TakenBy(e) + i]
        <4>1. CASE i \in DOMAIN out[e]
          <5>1. TakenBy(e) + i \in DOMAIN sent[e]
            BY <1>6, <3>2, <3>3, <4>1
          <5>2. out[e][i] = sent[e][TakenBy(e) + i]
            BY <1>1, <2>3, <4>1 DEF SentInv
          <5>3. out'[e][i] = out[e][i]
            BY <3>2, <4>1
          <5>4. sent'[e][TakenBy(e) + i] = sent[e][TakenBy(e) + i]
            BY <1>6, <5>1
          <5> QED BY <5>2, <5>3, <5>4
        <4>2. CASE i = Len(out[e]) + 1
          <5>1. /\ TakenBy(e) \in Nat /\ TakenBy(e) + Len(out[e]) = Len(sent[e])
                /\ Len(out[e]) \in Nat
            BY <3>2, <3>3
          <5>2. TakenBy(e) + i = Len(sent[e]) + 1
            BY <4>2, <5>1
          <5>3. out'[e][i] = m /\ sent'[e][Len(sent[e]) + 1] = m
            BY <1>6, <3>2, <4>2
          <5> QED BY <5>2, <5>3
        <4> QED BY <3>2, <4>1, <4>2
      <3>5. writer'[e].st = "text" =>
              TakenBy(e) \in DOMAIN sent'[e] /\ writer'[e].msg = sent'[e][TakenBy(e)]
        <4>1. writer[e].st = "text" =>
                TakenBy(e) \in DOMAIN sent[e] /\ writer[e].msg = sent[e][TakenBy(e)]
          BY <1>1 DEF SentInv
        <4> QED BY <1>2, <1>6, <4>1
      <3>6. e # Responder /\ writer'[e].st = "none" => TakenBy(e) = 0
        BY <1>1, <1>2 DEF SentInv
      <3> QED BY <1>7, <1>9, <2>1, <3>3, <3>4, <3>5, <3>6 DEF SentInv
    <2> QED BY <2>2, <2>3
  <1> QED BY <1>8, <1>9

(* A stopped lane.                                                         *)
LEMMA LaneStopped ==
  ASSUME NEW l \in Lanes, ReachInv(l), NEW f, f = WriterOf(l), NEW r, r = ReaderOf(l),
         pipe'[l] = <<>>, reader'[l] = "done",
         \A x \in Msg : x.by = f => (Has(Arrived(r)', x) <=> Has(Arrived(r), x)),
         LaneOf(f)' # l \/ writer'[f].st = "none" => LaneOf(f) # l \/ writer[f].st = "none"
  PROVE  PipeInv(l)' /\ ReachInv(l)'
  <1>1. f = WriterOf(l)' /\ r = ReaderOf(l)'
    BY DEF WriterOf, ReaderOf
  <1>2. PipeInv(l)'
    BY DEF PipeInv, Numbered
  <1>3. ~Flowing(l)'
    BY DEF Flowing
  <1>4. LaneOf(f)' # l \/ writer'[f].st = "none" =>
          \A m \in Msg : Has(Arrived(r)', m) => m.by # f
    BY DEF ReachInv
  <1> QED BY <1>1, <1>2, <1>3, <1>4 DEF ReachInv, Has

LEMMA InitOrderInv == Init => OrderInv
  <1> SUFFICES ASSUME Init PROVE OrderInv
    OBVIOUS
  <1>1. \A e \in Ends : /\ sent[e] = <<>> /\ out[e] = <<>> /\ inq[e] = <<>> /\ got[e] = <<>>
                        /\ writer[e].st = "none"
    BY DEF Init
  <1>2. \A l \in Lanes : pipe[l] = <<>> /\ reader[l] = "none"
    BY DEF Init
  <1>3. \A e \in Ends : Arrived(e) = <<>>
    BY <1>1 DEF Arrived
  <1>4. ASSUME NEW f \in Ends PROVE SentInv(f)
    <2>1. sent[f] = <<>> /\ out[f] = <<>> /\ writer[f].st = "none"
      BY <1>1
    <2>2. TakenBy(f) = 0 /\ DOMAIN sent[f] = {} /\ DOMAIN out[f] = {}
      BY <2>1 DEF TakenBy
    <2> QED BY <2>1, <2>2 DEF SentInv
  <1>5. ASSUME NEW l \in Lanes PROVE PipeInv(l) /\ ReachInv(l)
    <2>1. WriterOf(l) \in Ends /\ ReaderOf(l) \in Ends
      BY LaneType
    <2>2. PipeInv(l) /\ ~Flowing(l)
      BY <1>1, <1>2, <2>1 DEF PipeInv, Numbered, Active, Flowing
    <2>3. \A m : ~Has(Arrived(ReaderOf(l)), m)
      BY <1>3, <2>1 DEF Has
    <2> QED BY <2>2, <2>3 DEF ReachInv
  <1>6. \A r \in Ends : InPlace(Arrived(r), sent)
    BY <1>3 DEF InPlace
  <1> QED BY <1>4, <1>5, <1>6, InitFrameInv DEF OrderInv

(* Whoever dials, waits or is called back, nothing is sent, taken, written *)
(* or read.                                                                *)
LEMMA OrderUntouched ==
  ASSUME OrderInv, FrameInv', UNCHANGED <<sent, out, writer, voice, pipe, reader>>,
         \A r \in Ends : Arrived(r)' = Arrived(r)
  PROVE  OrderInv'
  <1>1. \A f \in Ends : SentInv(f)'
    <2> SUFFICES ASSUME NEW f \in Ends PROVE SentInv(f)'
      OBVIOUS
    <2>1. SentInv(f)
      BY DEF OrderInv
    <2> QED BY <2>1 DEF SentInv, TakenBy
  <1>2. ASSUME NEW l \in Lanes PROVE PipeInv(l)' /\ ReachInv(l)'
    <2>1. WriterOf(l) \in Ends /\ ReaderOf(l) \in Ends
      BY LaneType
    <2>2. Grown(sent, sent')
      BY DEF Grown
    <2>3. Active(l)' => Active(l) /\ TakenBy(WriterOf(l))' = TakenBy(WriterOf(l))
      BY DEF Active, LaneOf, WriterOf, TakenBy
    <2>4. Arrived(ReaderOf(l))' = Arrived(ReaderOf(l))
      BY <2>1 DEF ReaderOf
    <2>5. LaneOf(WriterOf(l))' = LaneOf(WriterOf(l))
      BY DEF LaneOf, WriterOf
    <2> DEFINE f == WriterOf(l)
               r == ReaderOf(l)
    <2>6. /\ pipe'[l] = pipe[l] /\ (reader'[l] = "text" <=> reader[l] = "text")
          /\ reader[l] = "done" => reader'[l] = "done"
          /\ \A x \in Msg : x.by = f => (Has(Arrived(r)', x) <=> Has(Arrived(r), x))
          /\ LaneOf(f)' # l \/ writer'[f].st = "none" => LaneOf(f) # l \/ writer[f].st = "none"
      BY <2>4, <2>5
    <2> QED BY <2>2, <2>3, <2>6, LaneKeeps
  <1>3. \A r \in Ends : InPlace(Arrived(r)', sent')
    BY DEF OrderInv
  <1> QED BY <1>1, <1>2, <1>3 DEF OrderInv, InPlace

(* When an end is dropped and its queue with it, it had no write loop:     *)
(* nothing of what is lost was on a lane.                                  *)
LEMMA FreeOrder ==
  ASSUME OrderInv, FrameInv', NEW e \in Ends, Free(e)
  PROVE  OrderInv'
  <1>1. UNCHANGED <<sent, writer, voice, pipe, reader, inq, got>>
    BY DEF Free, readVars
  <1>2. \A r \in Ends : Arrived(r)' = Arrived(r)
    BY <1>1 DEF Arrived
  <1>3. CASE out' = out
    BY <1>1, <1>2, <1>3, OrderUntouched
  <1>4. CASE out' # out
    <2>1. /\ e = Responder /\ writer[e].st = "none" /\ out'[e] = <<>>
          /\ \A f \in Ends : f # e => out'[f] = out[f]
      BY <1>4 DEF Free, DropAnchor, OrderInv, FrameInv, TypeInv, TypeOK
    <2>2. ASSUME NEW f \in Ends PROVE SentInv(f)'
      <3>1. SentInv(f)
        BY DEF OrderInv
      <3>2. CASE f # e
        BY <1>1, <2>1, <3>1, <3>2, SentKeeps
      <3>3. CASE f = e
        <4>1. Len(sent[e]) \in Nat
          BY DEF OrderInv, FrameInv, TypeInv, TypeOK
        <4>2. TakenBy(e)' \in Nat /\ DOMAIN out'[e] = {}
          BY <1>1, <2>1, <4>1 DEF TakenBy
        <4> QED BY <1>1, <2>1, <3>1, <3>3, <4>2 DEF SentInv
      <3> QED BY <3>2, <3>3
    <2>3. ASSUME NEW l \in Lanes PROVE PipeInv(l)' /\ ReachInv(l)'
      <3>f. PICK f \in Ends : f = WriterOf(l)
        BY LaneType
      <3>r. PICK r \in Ends : r = ReaderOf(l)
        BY LaneType
      <3>1. LaneOf(f)' = LaneOf(f) /\ WriterOf(l)' = f /\ Arrived(r)' = Arrived(r)
        BY <1>1, <1>2, <3>f DEF LaneOf, WriterOf
      <3>2. Active(l)' => Active(l) /\ TakenBy(f)' = TakenBy(f)
        <4>1. Active(l)' => LaneOf(f) = l /\ writer[f].st \in {"idle", "text"}
          BY <1>1, <3>1 DEF Active
        <4>2. f # e => TakenBy(f)' = TakenBy(f)
          BY <1>1, <2>1 DEF TakenBy
        <4> QED BY <2>1, <3>f, <4>1, <4>2 DEF Active
      <3>3. Grown(sent, sent')
        BY <1>1 DEF Grown
      <3>4. /\ pipe'[l] = pipe[l] /\ (reader'[l] = "text" <=> reader[l] = "text")
            /\ reader[l] = "done" => reader'[l] = "done"
            /\ \A x \in Msg : x.by = f => (Has(Arrived(r)', x) <=> Has(Arrived(r), x))
            /\ LaneOf(f)' # l \/ writer'[f].st = "none" => LaneOf(f) # l \/ writer[f].st = "none"
        BY <1>1, <3>1
      <3> QED BY <3>f, <3>r, <3>2, <3>3, <3>4, LaneKeeps
    <2>4. \A r \in Ends : InPlace(Arrived(r)', sent')
      BY <1>1, <1>2 DEF OrderInv
    <2> QED BY <2>2, <2>3, <2>4 DEF OrderInv, InPlace
  <1> QED BY <1>3, <1>4

LEMMA SendOrder ==
  ASSUME OrderInv, FrameInv', NEW e \in Ends, NEW size \in Sizes, Send(e, size)
  PROVE  OrderInv'
  <1>1. UNCHANGED <<voice, writer, pipe, reader, inq, got>>
    BY DEF Send, startVars, readVars
  <1>2. \A f \in Ends : /\ SentInv(f)'
                        /\ writer[f].st # "done" => TakenBy(f)' = TakenBy(f)
    BY SendSentInv
  <1>3. Grown(sent, sent')
    BY SendSentInv
  <1>4. ASSUME NEW l \in Lanes PROVE PipeInv(l)' /\ ReachInv(l)'
    <2> DEFINE f == WriterOf(l)
               r == ReaderOf(l)
    <2>1. f \in Ends
      BY LaneType
    <2>2. LaneOf(f)' = LaneOf(f) /\ Arrived(r)' = Arrived(r)
      BY <1>1 DEF LaneOf, WriterOf, ReaderOf, Arrived
    <2>3. Active(l)' => Active(l) /\ TakenBy(f)' = TakenBy(f)
      BY <1>1, <1>2, <2>1 DEF Active, LaneOf, WriterOf
    <2>4. /\ pipe'[l] = pipe[l] /\ (reader'[l] = "text" <=> reader[l] = "text")
          /\ reader[l] = "done" => reader'[l] = "done"
          /\ \A x \in Msg : x.by = f => (Has(Arrived(r)', x) <=> Has(Arrived(r), x))
          /\ LaneOf(f)' # l \/ writer'[f].st = "none" => LaneOf(f) # l \/ writer[f].st = "none"
      BY <1>1, <2>2
    <2> QED BY <1>3, <2>3, <2>4, LaneKeeps
  <1>5. ASSUME NEW r \in Ends PROVE InPlace(Arrived(r)', sent')
    <2>1. Arrived(r)' = Arrived(r)
      BY <1>1 DEF Arrived
    <2>2. Arrived(r) \in Seq(Msg) /\ sent \in [Ends -> Seq(Msg)] /\ InPlace(Arrived(r), sent)
      BY ArrivedType DEF OrderInv, FrameInv, TypeInv, TypeOK
    <2>3. InPlace(Arrived(r), sent')
      BY <1>3, <2>2, InPlaceGrown
    <2> QED BY <2>1, <2>3
  <1> QED BY <1>2, <1>4, <1>5 DEF OrderInv, InPlace

(* The lanes an action of an end's write loop does not write to.           *)
LEMMA OtherLanes ==
  ASSUME OrderInv, NEW e \in Ends, writer[e].st \in {"idle", "text"},
         UNCHANGED <<sent, voice, reader>>,
         \A r \in Ends : Arrived(r)' = Arrived(r),
         \A g \in Ends : g # e => writer'[g] = writer[g] /\ out'[g] = out[g],
         writer'[e].st # "none",
         NEW l \in Lanes, pipe'[l] = pipe[l],
         \/ LaneOf(e) # l
         \/ writer'[e].st = "done"
         \/ out'[e] = out[e]
  PROVE  PipeInv(l)' /\ ReachInv(l)'
  <1> DEFINE f == WriterOf(l)
             r == ReaderOf(l)
  <1>1. f \in Ends /\ r \in Ends
    BY LaneType
  <1>2. LaneOf(f)' = LaneOf(f) /\ Arrived(r)' = Arrived(r)
    BY <1>1 DEF LaneOf, WriterOf, ReaderOf
  <1>3. Grown(sent, sent')
    BY DEF Grown
  <1>4. Active(l)' => Active(l) /\ TakenBy(f)' = TakenBy(f)
    <2>1. CASE f = e
      BY <1>2, <2>1 DEF Active, WriterOf, TakenBy
    <2>2. CASE f # e
      BY <1>1, <1>2, <2>2 DEF Active, WriterOf, TakenBy
    <2> QED BY <2>1, <2>2
  <1>5. writer'[f].st = "none" => writer[f].st = "none"
    BY <1>1
  <1>6. /\ (reader'[l] = "text" <=> reader[l] = "text")
        /\ reader[l] = "done" => reader'[l] = "done"
        /\ \A x \in Msg : x.by = f => (Has(Arrived(r)', x) <=> Has(Arrived(r), x))
        /\ LaneOf(f)' # l \/ writer'[f].st = "none" => LaneOf(f) # l \/ writer[f].st = "none"
    BY <1>2, <1>5
  <1> QED BY <1>3, <1>4, <1>6, LaneKeeps

(* The lane of a write loop that writes the frame due.                     *)
LEMMA FrameWritten ==
  ASSUME OrderInv, NEW l \in Lanes, NEW f, f = WriterOf(l), NEW r, r = ReaderOf(l),
         Active(l), Active(l)', reader[l] # "done",
         UNCHANGED <<sent, reader>>, Arrived(r)' = Arrived(r),
         LaneOf(f)' = l, writer'[f].st # "none",
         NEW part, part = WritePart(l),
         NEW m \in Msg, m.no \in DOMAIN sent[f], m = sent[f][m.no],
         pipe'[l] = Append(pipe[l], [part |-> part, msg |-> m]),
         m.no = TakenBy(f)',
         m.no = TakenBy(f) + (IF part = "len" THEN 1 ELSE 0)
  PROVE  PipeInv(l)' /\ ReachInv(l)'
  <1> DEFINE p == pipe[l]
             fr == [part |-> part, msg |-> m]
             n == Len(p)
             q == Append(p, fr)
  <1>1. f \in Ends /\ r \in Ends /\ f = WriterOf(l)' /\ r = ReaderOf(l)'
    BY LaneType DEF WriterOf, ReaderOf
  <1>2. /\ PipeInv(l) /\ ReachInv(l) /\ LaneInv(l)
        /\ p \in Seq(Frame) /\ fr \in Frame
    <2>1. part \in {"len", "text"}
      BY DEF WritePart
    <2>2. fr \in Frame
      BY <2>1 DEF Frame
    <2> QED BY <2>2 DEF OrderInv, FrameInv, TypeInv, TypeOK
  <1>3. /\ n \in Nat /\ DOMAIN p = 1..n /\ DOMAIN q = 1..(n + 1) /\ Len(q) = n + 1
        /\ \A i \in 1..n : q[i] = p[i]
        /\ q[n + 1] = fr /\ q # <<>>
        /\ (p = <<>> => Head(q) = fr) /\ (p # <<>> => Head(q) = p[1] /\ n > 0 /\ Head(p) = p[1])
    BY <1>2
  <1>4. fr.part = part /\ fr.msg = m
    OBVIOUS
  <1>5. pipe'[l] = q
    OBVIOUS
  <1> HIDE DEF p, fr, n, q
  <1>6. /\ \A i \in DOMAIN p : FrameOf(p[i], sent[f])
        /\ Numbered(p)
        /\ p # <<>> => p[n].msg.no = TakenBy(f)
    BY <1>2 DEF PipeInv, p, n
  <1>7. \A i \in DOMAIN q : FrameOf(q[i], sent[f])
    <2>1. FrameOf(fr, sent[f])
      BY <1>4 DEF FrameOf
    <2>2. \A i \in DOMAIN q : i \in DOMAIN p \/ i = n + 1
      BY <1>3
    <2> QED BY <1>3, <1>6, <2>1, <2>2
  <1>8. Numbered(q)
    <2> SUFFICES ASSUME NEW i \in 1..(Len(q) - 1)
                 PROVE q[i + 1].msg.no = q[i].msg.no + (IF q[i + 1].part = "len" THEN 1 ELSE 0)
      BY DEF Numbered
    <2>1. CASE i \in 1..(n - 1)
      <3>1. q[i] = p[i] /\ q[i + 1] = p[i + 1]
        BY <1>3, <2>1
      <3>2. i \in 1..(Len(p) - 1)
        BY <2>1 DEF n
      <3>3. p[i + 1].msg.no = p[i].msg.no + (IF p[i + 1].part = "len" THEN 1 ELSE 0)
        BY <1>6, <3>2 DEF Numbered
      <3> QED BY <3>1, <3>3
    <2>2. CASE i = n
      <3>1. n > 0 /\ p # <<>>
        BY <1>2, <1>3, <2>2 DEF n, p
      <3>2. q[i] = p[n] /\ q[i + 1] = fr
        BY <1>3, <2>2
      <3>3. p[n].msg.no = TakenBy(f)
        BY <1>6, <3>1
      <3> QED BY <1>4, <3>2, <3>3
    <2> QED BY <1>3, <2>1, <2>2
  <1>9. PipeInv(l)'
    <2>1. q[Len(q)].msg.no = TakenBy(f)'
      BY <1>3, <1>4
    <2> QED BY <1>1, <1>5, <1>7, <1>8, <2>1 DEF PipeInv
  <1>10. NextNo(l)' = NextNo(l)
    <2>1. NextNo(l)' = Head(q).msg.no
      BY <1>3, <1>5 DEF NextNo
    <2>2. CASE p # <<>>
      <3>1. NextNo(l) = Head(p).msg.no
        BY <2>2 DEF NextNo, p
      <3> QED BY <1>3, <2>1, <2>2, <3>1
    <2>3. CASE p = <<>>
      <3>1. NextPart(l) = part
        <4>1. writer[f].st # "done"
          BY DEF Active
        <4> QED BY <1>2, <2>3, <4>1 DEF LaneInv, EndPart, p
      <3>2. part = "len" <=> reader[l] # "text"
        BY <3>1 DEF NextPart
      <3>3. NextNo(l) = IF reader[l] = "text" THEN TakenBy(f) ELSE TakenBy(f) + 1
        BY <2>3 DEF NextNo, p
      <3>4. NextNo(l) = m.no
        <4>1. TakenBy(f) \in Nat
          BY <1>1 DEF OrderInv, SentInv, Active
        <4>2. CASE reader[l] = "text"
          BY <3>2, <3>3, <4>1, <4>2
        <4>3. CASE reader[l] # "text"
          BY <3>2, <3>3, <4>1, <4>3
        <4> QED BY <4>2, <4>3
      <3> QED BY <1>3, <1>4, <2>1, <2>3, <3>4
    <2> QED BY <2>2, <2>3
  <1>11. Flowing(l)
    BY DEF Flowing
  <1>12. /\ \A k \in 1..(NextNo(l) - 1) :
              k \in DOMAIN sent[f]
                /\ (sent[f][k].size # "empty" => Has(Arrived(r), sent[f][k]))
         /\ \A x \in Msg : Has(Arrived(r), x) /\ x.by = f => x.no < NextNo(l)
         /\ reader[l] = "text" =>
              NextNo(l) \in DOMAIN sent[f] /\ sent[f][NextNo(l)].size = "text"
    BY <1>2, <1>11 DEF ReachInv
  <1> QED BY <1>1, <1>9, <1>10, <1>12 DEF ReachInv, Has

(* What a write loop has taken of what was sent.                           *)
LEMMA HeadOut ==
  ASSUME OrderInv, NEW e \in Ends, writer[e].st \in {"idle", "text"}, out[e] # <<>>
  PROVE  /\ TakenBy(e) \in Nat
         /\ Head(out[e]) \in Msg
         /\ Head(out[e]) = sent[e][TakenBy(e) + 1] /\ TakenBy(e) + 1 \in DOMAIN sent[e]
         /\ Head(out[e]).no = TakenBy(e) + 1
         /\ Len(sent[e]) - Len(Tail(out[e])) = TakenBy(e) + 1
         /\ \A i \in DOMAIN Tail(out[e]) : Tail(out[e])[i] = sent[e][TakenBy(e) + 1 + i]
  <1> DEFINE o == out[e]
             s == sent[e]
  <1>1. SentInv(e) /\ o \in Seq(Msg) /\ s \in Seq(Msg)
    BY DEF OrderInv, FrameInv, TypeInv, TypeOK
  <1>2. o # <<>>
    OBVIOUS
  <1> HIDE DEF o, s
  <1>3. /\ Len(o) \in Nat /\ Len(o) > 0 /\ DOMAIN o = 1..Len(o) /\ Head(o) = o[1] /\ Head(o) \in Msg
        /\ Tail(o) \in Seq(Msg) /\ Len(Tail(o)) = Len(o) - 1
        /\ DOMAIN Tail(o) = 1..(Len(o) - 1)
        /\ \A i \in 1..(Len(o) - 1) : Tail(o)[i] = o[i + 1]
        /\ Len(s) \in Nat /\ DOMAIN s = 1..Len(s)
    BY <1>1, <1>2
  <1>4. /\ TakenBy(e) \in Nat
        /\ \A i \in DOMAIN o : o[i] = s[TakenBy(e) + i]
        /\ \A k \in DOMAIN s : s[k].no = k
    BY <1>1 DEF SentInv, o, s
  <1>5. TakenBy(e) = Len(s) - Len(o)
    BY DEF TakenBy, o, s
  <1>6. o[1] = s[TakenBy(e) + 1]
    BY <1>3, <1>4
  <1>7. TakenBy(e) + 1 \in DOMAIN s /\ Len(s) - Len(Tail(o)) = TakenBy(e) + 1
    BY <1>3, <1>4, <1>5
  <1>8. ASSUME NEW i \in DOMAIN Tail(o) PROVE Tail(o)[i] = s[TakenBy(e) + 1 + i]
    <2>1. i + 1 \in DOMAIN o /\ i \in 1..(Len(o) - 1) /\ i \in Nat
      BY <1>3
    <2>2. o[i + 1] = s[TakenBy(e) + (i + 1)]
      BY <1>4, <2>1
    <2>3. TakenBy(e) + (i + 1) = TakenBy(e) + 1 + i
      BY <1>4, <2>1
    <2> QED BY <1>3, <2>1, <2>2, <2>3
  <1> QED BY <1>3, <1>4, <1>6, <1>7, <1>8 DEF o, s

LEMMA WriteOrder ==
  ASSUME OrderInv, FrameInv', NEW e \in Ends,
         WriteTask(e) \/ WriteFails(e) \/ Finish(e)
  PROVE  OrderInv'
  <1>1. writer[e].st \in {"idle", "text"}
    BY DEF WriteTask, WriteLen, WriteText, WriteFails, WriteErrs, Finish
  <1>l. PICK l \in Lanes : l = LaneOf(e)
    BY <1>1, LaneOfType DEF OrderInv, FrameInv
  <1>r. PICK r \in Ends : r = ReaderOf(l)
    BY LaneType
  <1>2. WriterOf(l) = e
    BY <1>1, <1>l, LaneOfType DEF OrderInv, FrameInv
  <1>3. UNCHANGED <<sent, voice, reader, inq, got>>
    BY DEF WriteTask, WriteLen, WriteText, WriteFails, Finish, startVars, readVars
  <1>4. \A s \in Ends : Arrived(s)' = Arrived(s)
    BY <1>3 DEF Arrived
  <1>5. /\ \A g \in Ends : g # e => writer'[g] = writer[g] /\ out'[g] = out[g]
        /\ writer'[e].st # "none"
    <2> USE DEF OrderInv, FrameInv, TypeInv, TypeOK
    <2>1. CASE WriteLen(e)
      BY <2>1 DEF WriteLen
    <2>2. CASE WriteText(e)
      BY <2>2 DEF WriteText
    <2>3. CASE WriteFails(e)
      BY <2>3 DEF WriteFails
    <2>4. CASE Finish(e)
      BY <2>4 DEF Finish
    <2> QED BY <2>1, <2>2, <2>3, <2>4 DEF WriteTask
  <1>6. LaneOf(e)' = l /\ WriterOf(l)' = e /\ Arrived(r)' = Arrived(r)
    BY <1>2, <1>3, <1>4, <1>l DEF LaneOf, WriterOf
  <1>7. \A k \in Lanes : k # l => pipe'[k] = pipe[k]
    <2>1. CASE WriteLen(e)
      BY <1>l, <2>1 DEF WriteLen, WriteFrame, OrderInv, FrameInv, TypeInv, TypeOK
    <2>2. CASE WriteText(e)
      BY <1>l, <2>2 DEF WriteText, WriteFrame, OrderInv, FrameInv, TypeInv, TypeOK
    <2>3. CASE WriteFails(e) \/ Finish(e)
      BY <2>3 DEF WriteFails, Finish
    <2> QED BY <2>1, <2>2, <2>3 DEF WriteTask
  <1>8. \A k \in Lanes : k # l => PipeInv(k)' /\ ReachInv(k)'
    BY <1>1, <1>3, <1>4, <1>5, <1>7, <1>l, OtherLanes
  <1>9. \A g \in Ends : g # e => SentInv(g)'
    <2> SUFFICES ASSUME NEW g \in Ends, g # e PROVE SentInv(g)'
      OBVIOUS
    <2>1. SentInv(g) /\ sent'[g] = sent[g] /\ out'[g] = out[g] /\ writer'[g] = writer[g]
      BY <1>3, <1>5 DEF OrderInv
    <2> QED BY <2>1, SentKeeps
  <1>10. SentInv(e) /\ TakenBy(e) \in Nat
    BY <1>1 DEF OrderInv, SentInv
  <1>11. reader[l] = "done" /\ pipe'[l] = pipe[l] => PipeInv(l)' /\ ReachInv(l)'
    <2> SUFFICES ASSUME reader[l] = "done", pipe'[l] = pipe[l] PROVE PipeInv(l)' /\ ReachInv(l)'
      OBVIOUS
    <2>1. pipe'[l] = <<>> /\ reader'[l] = "done" /\ ReachInv(l)
      BY <1>2, <1>3 DEF OrderInv, FrameInv, StreamsClean
    <2>3. \A x \in Msg : x.by = e => (Has(Arrived(r)', x) <=> Has(Arrived(r), x))
      BY <1>6
    <2>4. ~(LaneOf(e)' # l \/ writer'[e].st = "none")
      BY <1>5, <1>6
    <2> QED BY <1>2, <1>r, <2>1, <2>3, <2>4, LaneStopped
  <1>12. SentInv(e)' /\ PipeInv(l)' /\ ReachInv(l)'
    <2>1. CASE WriteLen(e)
      <3>m. PICK m \in Msg : m = Head(out[e])
        BY <1>1, <2>1, HeadOut DEF WriteLen
      <3>1. /\ writer[e].st = "idle" /\ out[e] # <<>>
            /\ out' = [out EXCEPT ![e] = Tail(@)]
            /\ writer' = [writer EXCEPT ![e] = [st |-> "text", msg |-> m]]
            /\ WriteFrame(l, "len", m)
        BY <1>l, <2>1, <3>m DEF WriteLen
      <3>2. out'[e] = Tail(out[e]) /\ writer'[e] = [st |-> "text", msg |-> m]
        BY <3>1 DEF OrderInv, FrameInv, TypeInv, TypeOK
      <3>3. /\ m = sent[e][TakenBy(e) + 1] /\ TakenBy(e) + 1 \in DOMAIN sent[e]
            /\ m.no = TakenBy(e) + 1
            /\ Len(sent[e]) - Len(Tail(out[e])) = TakenBy(e) + 1
            /\ \A i \in DOMAIN Tail(out[e]) : Tail(out[e])[i] = sent[e][TakenBy(e) + 1 + i]
        BY <1>1, <3>1, <3>m, HeadOut
      <3>4. TakenBy(e)' = TakenBy(e) + 1
        BY <1>3, <3>2, <3>3 DEF TakenBy
      <3>5. SentInv(e)'
        <4>1. writer'[e].st = "text" /\ writer'[e].msg = m
          BY <3>2
        <4>2. \A k \in DOMAIN sent[e] : sent[e][k].by = e /\ sent[e][k].no = k
          BY <1>10 DEF SentInv
        <4>3. TakenBy(e) + 1 \in Nat
          BY <1>10
        <4>4. \A i \in DOMAIN out'[e] : out'[e][i] = sent'[e][TakenBy(e)' + i]
          BY <1>3, <3>2, <3>3, <3>4
        <4> QED BY <1>3, <3>3, <3>4, <4>1, <4>2, <4>3, <4>4 DEF SentInv
      <3>6. CASE reader[l] = "done"
        <4>1. pipe' = pipe
          BY <3>1, <3>6 DEF WriteFrame
        <4> QED BY <1>11, <3>5, <3>6, <4>1
      <3>7. CASE reader[l] # "done"
        <4>1. pipe'[l] = Append(pipe[l], [part |-> "len", msg |-> m])
          BY <1>2, <3>1, <3>7 DEF WriteFrame, OrderInv, FrameInv, TypeInv, TypeOK
        <4>2. WritePart(l) = "len"
          BY <1>2, <3>1 DEF WritePart, Writing
        <4>3. Active(l) /\ Active(l)'
          BY <1>1, <1>2, <1>6, <1>l, <3>2 DEF Active
        <4>4. m.no \in DOMAIN sent[e] /\ m = sent[e][m.no] /\ m.no = TakenBy(e)'
              /\ m.no = TakenBy(e) + (IF "len" = "len" THEN 1 ELSE 0)
          BY <3>3, <3>4
        <4>6. PipeInv(l)' /\ ReachInv(l)'
          BY <1>2, <1>3, <1>5, <1>6, <1>r, <3>3, <3>7, <4>1, <4>2, <4>3, <4>4, FrameWritten
        <4> QED BY <3>5, <4>6
      <3> QED BY <3>6, <3>7
    <2>2. CASE WriteText(e)
      <3>m. PICK m \in Msg : m = writer[e].msg
        BY DEF OrderInv, FrameInv, TypeInv, TypeOK
      <3>1. /\ writer[e].st = "text" /\ out' = out
            /\ writer' = [writer EXCEPT ![e] = [st |-> "idle", msg |-> NoMsg]]
            /\ IF m.size = "empty" THEN pipe' = pipe ELSE WriteFrame(l, "text", m)
        BY <1>l, <2>2, <3>m DEF WriteText
      <3>2. writer'[e] = [st |-> "idle", msg |-> NoMsg]
        BY <3>1 DEF OrderInv, FrameInv, TypeInv, TypeOK
      <3>3. TakenBy(e) \in DOMAIN sent[e] /\ m = sent[e][TakenBy(e)]
            /\ m.no = TakenBy(e)
        BY <1>10, <3>1, <3>m DEF SentInv
      <3>4. SentInv(e)' /\ TakenBy(e)' = TakenBy(e)
        <4>1. sent'[e] = sent[e] /\ out'[e] = out[e] /\ writer'[e].st = "idle"
          BY <1>3, <3>1, <3>2
        <4>2. SentInv(e)'
          BY <1>10, <3>1, <4>1, SentKeeps
        <4> QED BY <4>1, <4>2 DEF TakenBy
      <3>5. CASE reader[l] = "done"
        <4>1. pipe' = pipe
          BY <3>1, <3>5 DEF WriteFrame
        <4> QED BY <1>11, <3>4, <3>5, <4>1
      <3>6. CASE m.size = "empty"
        <4>1. pipe'[l] = pipe[l] /\ out'[e] = out[e]
          BY <3>1, <3>6
        <4>2. PipeInv(l)' /\ ReachInv(l)'
          BY <1>1, <1>2, <1>3, <1>4, <1>5, <4>1, OtherLanes
        <4> QED BY <3>4, <4>2
      <3>7. CASE reader[l] # "done" /\ m.size # "empty"
        <4>1. pipe'[l] = Append(pipe[l], [part |-> "text", msg |-> m])
          BY <1>2, <3>1, <3>7 DEF WriteFrame, OrderInv, FrameInv, TypeInv, TypeOK
        <4>2. WritePart(l) = "text"
          BY <1>2, <1>l, <3>1, <3>7, <3>m DEF WritePart, Writing
        <4>3. Active(l) /\ Active(l)'
          BY <1>1, <1>2, <1>6, <1>l, <3>2 DEF Active
        <4>4. m.no \in DOMAIN sent[e] /\ m = sent[e][m.no] /\ m.no = TakenBy(e)'
              /\ m.no = TakenBy(e) + (IF "text" = "len" THEN 1 ELSE 0)
          BY <1>10, <3>3, <3>4
        <4>6. PipeInv(l)' /\ ReachInv(l)'
          BY <1>2, <1>3, <1>5, <1>6, <1>r, <3>3, <3>7, <4>1, <4>2, <4>3, <4>4, FrameWritten
        <4> QED BY <3>4, <4>6
      <3> QED BY <3>5, <3>6, <3>7
    <2>3. CASE WriteFails(e) \/ Finish(e)
      <3>1. writer'[e].st = "done" /\ pipe' = pipe
        BY <2>3 DEF WriteFails, Finish, OrderInv, FrameInv, TypeInv, TypeOK
      <3>2. SentInv(e)'
        BY <1>3, <1>10, <3>1, SentKeeps
      <3>3. PipeInv(l)' /\ ReachInv(l)'
        BY <1>1, <1>2, <1>3, <1>4, <1>5, <3>1, OtherLanes
      <3> QED BY <3>2, <3>3
    <2> QED BY <2>1, <2>2, <2>3 DEF WriteTask
  <1>13. \A s \in Ends : InPlace(Arrived(s)', sent')
    BY <1>3, <1>4 DEF OrderInv
  <1>14. \A s \in Ends : InPlace(Arrived(s), sent)'
    BY <1>13 DEF InPlace
  <1>15. \A k \in Lanes : PipeInv(k)' /\ ReachInv(k)'
    BY <1>8, <1>12
  <1> QED BY <1>9, <1>12, <1>14, <1>15 DEF OrderInv

(* The write loop that starts has taken nothing, and on its lane nothing   *)
(* has come.                                                               *)
LEMMA LaneStarts ==
  ASSUME OrderInv, NEW l \in Lanes, NEW f, f = WriterOf(l), NEW r, r = ReaderOf(l),
         LaneOf(f) # l \/ writer[f].st = "none", writer[f].st = "none",
         TakenBy(f) = 0,
         UNCHANGED <<sent, out>>, Arrived(r)' = Arrived(r),
         LaneOf(f)' = l, writer'[f].st = "idle", reader'[l] # "text",
         \/ pipe'[l] = <<>>
         \/ pipe'[l] = <<[part |-> "len", msg |-> [by |-> f, no |-> 0, size |-> "empty"]]>>
  PROVE  PipeInv(l)' /\ ReachInv(l)'
  <1>1. f \in Ends /\ r \in Ends /\ f = WriterOf(l)' /\ r = ReaderOf(l)'
    BY LaneType DEF WriterOf, ReaderOf
  <1>2. TakenBy(f)' = 0
    BY DEF TakenBy
  <1>3. \A m \in Msg : Has(Arrived(r), m) => m.by # f
    BY DEF OrderInv, ReachInv
  <1>4. PipeInv(l)' /\ (NextNo(l)' = 0 \/ NextNo(l)' = 1)
    <2>1. CASE pipe'[l] = <<>>
      BY <1>1, <1>2, <2>1 DEF PipeInv, Numbered, NextNo
    <2>2. CASE pipe'[l] = <<[part |-> "len", msg |-> [by |-> f, no |-> 0, size |-> "empty"]]>>
      <3>1. /\ Len(pipe'[l]) = 1 /\ DOMAIN pipe'[l] = {1} /\ pipe'[l] # <<>>
            /\ pipe'[l][1].msg.no = 0 /\ pipe'[l][1].msg.size = "empty"
            /\ Head(pipe'[l]).msg.no = 0
        BY <2>2
      <3>2. Numbered(pipe'[l]) /\ \A i \in DOMAIN pipe'[l] : FrameOf(pipe'[l][i], sent'[f])
        BY <3>1 DEF Numbered, FrameOf
      <3> QED BY <1>1, <1>2, <3>1, <3>2 DEF PipeInv, NextNo
    <2> QED BY <2>1, <2>2
  <1> QED BY <1>1, <1>3, <1>4 DEF ReachInv, Has

LEMMA PrimeOrder ==
  ASSUME OrderInv, FrameInv', NEW d \in Dials, Prime(d)
  PROVE  OrderInv'
  <1>1. PICK l \in Lanes : l = <<d, "initiator">>
    BY LaneType
  <1>2. d \in Ends /\ d # Responder /\ WriterOf(l) = d /\ ReaderOf(l) = Responder
        /\ LaneOf(d) = l /\ LaneOf(d)' = l
    BY <1>1, LaneType DEF WriterOf, ReaderOf, LaneOf
  <1>3. /\ writer[d].st = "none" /\ pipe[l] = <<>> /\ reader[l] = "none"
        /\ reader[<<d, "responder">>] = "none"
    BY <1>1 DEF Prime, OrderInv, FrameInv, StreamsClean
  <1>4. /\ UNCHANGED <<sent, out, voice, inq, got>>
        /\ writer'[d].st = "idle" /\ \A e \in Ends : e # d => writer'[e] = writer[e]
        /\ \A k \in Lanes : k # l => pipe'[k] = pipe[k]
        /\ \A k \in Lanes : k # <<d, "responder">> => reader'[k] = reader[k]
        /\ reader'[<<d, "responder">>] = "len"
        /\ pipe'[l] = pipe[l] \o PrimingFrames(d)
    <2>1. /\ writer \in [Ends -> [st : {"none", "idle", "text", "done"}, msg : Msg]]
          /\ pipe \in [Lanes -> Seq(Frame)]
          /\ reader \in [Lanes -> {"none", "len", "text", "done"}]
      BY DEF OrderInv, FrameInv, TypeInv, TypeOK
    <2>2. UNCHANGED <<sent, out, voice, inq, got>>
      BY DEF Prime
    <2>3. writer'[d].st = "idle" /\ \A e \in Ends : e # d => writer'[e] = writer[e]
      BY <1>2, <2>1 DEF Prime
    <2>4. /\ \A k \in Lanes : k # l => pipe'[k] = pipe[k]
          /\ pipe'[l] = pipe[l] \o PrimingFrames(d)
      BY <1>1, <2>1 DEF Prime
    <2>5. /\ \A k \in Lanes : k # <<d, "responder">> => reader'[k] = reader[k]
          /\ reader'[<<d, "responder">>] = "len"
      BY <2>1, LaneType DEF Prime
    <2> QED BY <2>2, <2>3, <2>4, <2>5
  <1>5. pipe'[l] = <<[part |-> "len", msg |-> [by |-> d, no |-> 0, size |-> "empty"]]>>
    BY <1>3, <1>4 DEF PrimingFrames
  <1>6. \A r \in Ends : Arrived(r)' = Arrived(r)
    BY <1>4 DEF Arrived
  <1>7. ASSUME NEW f \in Ends PROVE SentInv(f)'
    <2>1. SentInv(f) /\ sent'[f] = sent[f] /\ out'[f] = out[f]
      BY <1>4 DEF OrderInv
    <2>2. writer'[f] = writer[f] \/ (writer'[f].st = "idle" /\ writer[f].st = "none")
      <3>1. CASE f = d
        BY <1>3, <1>4, <3>1
      <3>2. CASE f # d
        BY <1>4, <3>2
      <3> QED BY <3>1, <3>2
    <2> QED BY <2>1, <2>2, SentKeeps
  <1>8. PipeInv(l)' /\ ReachInv(l)'
    <2>1. reader'[l] # "text"
      BY <1>1, <1>3, <1>4
    <2>2. Arrived(Responder)' = Arrived(Responder)
      BY <1>6, LaneType
    <2>3. TakenBy(d) = 0
      BY <1>2, <1>3 DEF OrderInv, SentInv
    <2> QED BY <1>2, <1>3, <1>4, <1>5, <2>1, <2>2, <2>3, LaneStarts
  <1>9. ASSUME NEW k \in Lanes, k # l PROVE PipeInv(k)' /\ ReachInv(k)'
    <2>1. PICK f \in Ends : f = WriterOf(k)
      BY LaneType
    <2>2. PICK r \in Ends : r = ReaderOf(k)
      BY LaneType
    <2>3. f # d
      BY <1>1, <1>9, <2>1, LaneType DEF WriterOf, Lanes
    <2>4. writer'[f] = writer[f] /\ LaneOf(f)' = LaneOf(f) /\ WriterOf(k)' = f
          /\ Arrived(r)' = Arrived(r)
      BY <1>4, <1>6, <2>1, <2>3 DEF LaneOf, WriterOf
    <2>5. Active(k)' => Active(k) /\ TakenBy(f)' = TakenBy(f)
      <3>1. TakenBy(f)' = TakenBy(f)
        BY <1>4 DEF TakenBy
      <3>2. Active(k)' => LaneOf(f)' = k /\ writer'[f].st \in {"idle", "text"}
        BY <2>4 DEF Active
      <3>3. LaneOf(f) = k /\ writer[f].st \in {"idle", "text"} => Active(k)
        BY <2>1 DEF Active
      <3> QED BY <2>4, <3>1, <3>2, <3>3
    <2>6. reader'[k] = reader[k] \/ (reader[k] = "none" /\ reader'[k] = "len")
      BY <1>3, <1>4
    <2>7. Grown(sent, sent')
      BY <1>4 DEF Grown
    <2>8. /\ pipe'[k] = pipe[k] /\ (reader'[k] = "text" <=> reader[k] = "text")
          /\ reader[k] = "done" => reader'[k] = "done"
          /\ \A x \in Msg : x.by = f => (Has(Arrived(r)', x) <=> Has(Arrived(r), x))
          /\ LaneOf(f)' # k \/ writer'[f].st = "none" => LaneOf(f) # k \/ writer[f].st = "none"
      BY <1>4, <1>9, <2>4, <2>6
    <2> QED BY <2>1, <2>2, <2>5, <2>7, <2>8, LaneKeeps
  <1>10. \A r \in Ends : InPlace(Arrived(r), sent)'
    BY <1>4, <1>6 DEF OrderInv, InPlace
  <1>11. \A k \in Lanes : PipeInv(k)' /\ ReachInv(k)'
    BY <1>8, <1>9
  <1> QED BY <1>7, <1>10, <1>11 DEF OrderInv

LEMMA AcceptOrder ==
  ASSUME OrderInv, HeldUntilHeard, FrameInv', NEW d \in Dials, AcceptBi(d)
  PROVE  OrderInv'
  <1>1. PICK l \in Lanes : l = <<d, "responder">>
    BY LaneType
  <1>2. Responder \in Ends /\ WriterOf(l) = Responder /\ ReaderOf(l) = d /\ d \in Ends
    BY <1>1, LaneType DEF WriterOf, ReaderOf
  <1>3. reader[<<d, "initiator">>] = "none"
    BY DEF AcceptBi, OrderInv, FrameInv, StreamsClean
  <1>4. /\ UNCHANGED <<sent, out, pipe, inq, got>>
        /\ \A k \in Lanes : k # <<d, "initiator">> => reader'[k] = reader[k]
        /\ reader'[<<d, "initiator">>] = "len"
        /\ \/ voice' = voice /\ writer' = writer
           \/ /\ voice = NoDial /\ voice' = d
              /\ writer' = [writer EXCEPT ![Responder].st = "idle"]
    <2>1. UNCHANGED <<sent, out, pipe, inq, got>>
      BY DEF AcceptBi
    <2>2. reader \in [Lanes -> {"none", "len", "text", "done"}]
      BY DEF OrderInv, FrameInv, TypeInv, TypeOK
    <2>3. /\ \A k \in Lanes : k # <<d, "initiator">> => reader'[k] = reader[k]
          /\ reader'[<<d, "initiator">>] = "len"
      BY <2>2, LaneType DEF AcceptBi
    <2>4. \/ voice' = voice /\ writer' = writer
          \/ /\ voice = NoDial /\ voice' = d
             /\ writer' = [writer EXCEPT ![Responder].st = "idle"]
      BY DEF AcceptBi
    <2> QED BY <2>1, <2>3, <2>4
  <1>5. \A r \in Ends : Arrived(r)' = Arrived(r)
    BY <1>4 DEF Arrived
  <1>6. /\ \A e \in Ends : e # Responder => writer'[e] = writer[e]
        /\ \/ voice' = voice /\ writer'[Responder] = writer[Responder]
           \/ /\ voice = NoDial /\ voice' = d
              /\ writer[Responder].st = "none" /\ writer'[Responder].st = "idle"
    <2>1. writer \in [Ends -> [st : {"none", "idle", "text", "done"}, msg : Msg]]
          /\ (writer[Responder].st # "none" => voice # NoDial)
      BY DEF OrderInv, FrameInv, TypeInv, TypeOK, VoiceTaken
    <2>2. CASE voice' = voice /\ writer' = writer
      BY <2>2
    <2>3. CASE /\ voice = NoDial /\ voice' = d
               /\ writer' = [writer EXCEPT ![Responder].st = "idle"]
      BY <1>2, <2>1, <2>3
    <2> QED BY <1>4, <2>2, <2>3
  <1>7. ASSUME NEW f \in Ends PROVE SentInv(f)'
    <2>1. SentInv(f) /\ sent'[f] = sent[f] /\ out'[f] = out[f]
      BY <1>4 DEF OrderInv
    <2>2. writer'[f] = writer[f] \/ (writer'[f].st = "idle" /\ writer[f].st = "none")
      <3>1. CASE f = Responder
        BY <1>6, <3>1
      <3>2. CASE f # Responder
        BY <1>6, <3>2
      <3> QED BY <3>1, <3>2
    <2> QED BY <2>1, <2>2, SentKeeps
  <1>8. ASSUME NEW k \in Lanes, k # l \/ voice' = voice PROVE PipeInv(k)' /\ ReachInv(k)'
    <2>1. PICK f \in Ends : f = WriterOf(k)
      BY LaneType
    <2>2. PICK r \in Ends : r = ReaderOf(k)
      BY LaneType
    <2>3. WriterOf(k)' = f /\ Arrived(r)' = Arrived(r)
      BY <1>5, <2>1 DEF WriterOf
    <2>4. \/ LaneOf(f)' = LaneOf(f) /\ writer'[f] = writer[f]
          \/ LaneOf(f)' # k /\ LaneOf(f) # k
      <3>1. CASE f # Responder \/ voice' = voice
        <4>1. LaneOf(f)' = LaneOf(f)
          BY <3>1 DEF LaneOf
        <4>2. writer'[f] = writer[f]
          BY <1>2, <1>6, <3>1, LaneType DEF NoDial
        <4> QED BY <4>1, <4>2
      <3>2. CASE f = Responder /\ voice' # voice
        <4>1. LaneOf(f)' = l /\ LaneOf(f) = <<NoDial, "responder">>
          BY <1>1, <1>6, <3>2 DEF LaneOf
        <4>2. k # <<NoDial, "responder">>
          BY LaneType DEF Lanes
        <4> QED BY <1>8, <3>2, <4>1, <4>2
      <3> QED BY <3>1, <3>2
    <2>5. Active(k)' => Active(k) /\ TakenBy(f)' = TakenBy(f)
      <3>1. TakenBy(f)' = TakenBy(f)
        BY <1>4 DEF TakenBy
      <3>2. Active(k)' => LaneOf(f)' = k /\ writer'[f].st \in {"idle", "text"}
        BY <2>3 DEF Active
      <3>3. LaneOf(f) = k /\ writer[f].st \in {"idle", "text"} => Active(k)
        BY <2>1 DEF Active
      <3> QED BY <2>4, <3>1, <3>2, <3>3
    <2>6. reader'[k] = reader[k] \/ (reader[k] = "none" /\ reader'[k] = "len")
      BY <1>3, <1>4
    <2>7. Grown(sent, sent')
      BY <1>4 DEF Grown
    <2>8. /\ pipe'[k] = pipe[k] /\ (reader'[k] = "text" <=> reader[k] = "text")
          /\ reader[k] = "done" => reader'[k] = "done"
          /\ \A x \in Msg : x.by = f => (Has(Arrived(r)', x) <=> Has(Arrived(r), x))
          /\ LaneOf(f)' # k \/ writer'[f].st = "none" => LaneOf(f) # k \/ writer[f].st = "none"
      BY <1>4, <2>3, <2>4, <2>6
    <2> QED BY <2>1, <2>2, <2>5, <2>7, <2>8, LaneKeeps
  <1>9. ASSUME voice' # voice PROVE PipeInv(l)' /\ ReachInv(l)'
    <2>1. voice = NoDial /\ voice' = d
          /\ writer[Responder].st = "none" /\ writer'[Responder].st = "idle"
      BY <1>6, <1>9
    <2>2. pipe'[l] = <<>> /\ reader'[l] # "text" /\ LaneOf(Responder)' = l
      BY <1>1, <1>4, <2>1, LaneType DEF OrderInv, FrameInv, StreamsClean, LaneOf
    <2>3. Arrived(d)' = Arrived(d)
      BY <1>2, <1>5
    <2>4. TakenBy(Responder) = 0
      <3>1. out[Responder] = sent[Responder]
        BY <2>1 DEF AcceptBi, HeldUntilHeard
      <3>2. Len(sent[Responder]) \in Nat
        BY <1>2 DEF OrderInv, FrameInv, TypeInv, TypeOK
      <3> QED BY <3>1, <3>2 DEF TakenBy
    <2> QED BY <1>2, <1>4, <2>1, <2>2, <2>3, <2>4, LaneStarts
  <1>10. \A r \in Ends : InPlace(Arrived(r), sent)'
    BY <1>4, <1>5 DEF OrderInv, InPlace
  <1>11. \A k \in Lanes : PipeInv(k)' /\ ReachInv(k)'
    BY <1>8, <1>9
  <1> QED BY <1>7, <1>10, <1>11 DEF OrderInv

(* The read loop takes the frame at the head of its lane.                  *)
LEMMA PopNumbered ==
  ASSUME NEW p \in Seq(Frame), p # <<>>, Numbered(p)
  PROVE  /\ Numbered(Tail(p)) /\ Tail(p) \in Seq(Frame)
         /\ DOMAIN Tail(p) = 1..(Len(p) - 1) /\ Len(Tail(p)) = Len(p) - 1 /\ Len(p) \in Nat
         /\ DOMAIN p = 1..Len(p) /\ 1 \in DOMAIN p /\ Head(p) = p[1] /\ p[1] \in Frame
         /\ \A i \in 1..(Len(p) - 1) : Tail(p)[i] = p[i + 1] /\ i + 1 \in DOMAIN p
         /\ Tail(p) = <<>> => Head(p) = p[Len(p)]
         /\ Tail(p) # <<>> =>
              /\ Head(Tail(p)) = p[2] /\ Tail(p)[Len(Tail(p))] = p[Len(p)]
              /\ p[2].msg.no = p[1].msg.no + (IF p[2].part = "len" THEN 1 ELSE 0)
  <1> DEFINE t == Tail(p)
             n == Len(p)
  <1>1. /\ t \in Seq(Frame) /\ DOMAIN t = 1..(n - 1) /\ Len(t) = n - 1 /\ n \in Nat /\ n > 0
        /\ DOMAIN p = 1..n /\ Head(p) = p[1] /\ p[1] \in Frame
        /\ \A i \in 1..(n - 1) : t[i] = p[i + 1]
        /\ (t = <<>> => n = 1) /\ (t # <<>> => Head(t) = t[1] /\ n > 1)
    <2>1. /\ t \in Seq(Frame) /\ n \in Nat /\ n > 0 /\ Len(t) = n - 1
          /\ DOMAIN p = 1..n /\ Head(p) = p[1] /\ p[1] \in Frame
          /\ \A i \in 1..(n - 1) : t[i] = p[i + 1]
      OBVIOUS
    <2> HIDE DEF t, n
    <2>2. DOMAIN t = 1..(n - 1)
      BY <2>1
    <2>3. t = <<>> => n = 1
      BY <2>1
    <2>4. t # <<>> => Head(t) = t[1] /\ n > 1
      BY <2>1
    <2> QED BY <2>1, <2>2, <2>3, <2>4
  <1> HIDE DEF t, n
  <1>2. \A i \in 1..(n - 1) :
          p[i + 1].msg.no = p[i].msg.no + (IF p[i + 1].part = "len" THEN 1 ELSE 0)
    BY DEF Numbered, n
  <1>3. Numbered(t)
    <2> SUFFICES ASSUME NEW i \in 1..(Len(t) - 1)
                 PROVE t[i + 1].msg.no = t[i].msg.no + (IF t[i + 1].part = "len" THEN 1 ELSE 0)
      BY DEF Numbered
    <2>1. i \in Nat /\ i \in 1..(n - 1) /\ i + 1 \in 1..(n - 1)
      BY <1>1
    <2>2. t[i] = p[i + 1] /\ t[i + 1] = p[i + 1 + 1]
      BY <1>1, <2>1
    <2> QED BY <1>2, <2>1, <2>2
  <1>4. t # <<>> => /\ Head(t) = p[2] /\ t[Len(t)] = p[n]
                    /\ p[2].msg.no = p[1].msg.no + (IF p[2].part = "len" THEN 1 ELSE 0)
    <2> SUFFICES ASSUME t # <<>>
                 PROVE  /\ Head(t) = p[2] /\ t[Len(t)] = p[n]
                        /\ p[2].msg.no = p[1].msg.no + (IF p[2].part = "len" THEN 1 ELSE 0)
      OBVIOUS
    <2>1. 1 \in 1..(n - 1) /\ n - 1 \in 1..(n - 1) /\ 1 + 1 = 2 /\ n - 1 + 1 = n
      BY <1>1
    <2>2. Head(t) = p[2]
      BY <1>1, <2>1
    <2>3. t[Len(t)] = p[n]
      BY <1>1, <2>1
    <2>4. p[2].msg.no = p[1].msg.no + (IF p[2].part = "len" THEN 1 ELSE 0)
      BY <1>2, <2>1
    <2> QED BY <2>2, <2>3, <2>4
  <1> QED BY <1>1, <1>3, <1>4 DEF t, n

LEMMA HeadTaken ==
  ASSUME OrderInv, NEW l \in Lanes, NEW f \in Ends, f = WriterOf(l),
         reader[l] # "done", pipe[l] # <<>>, pipe'[l] = Tail(pipe[l]),
         UNCHANGED <<sent, out, writer, voice>>,
         NEW fr, fr = Head(pipe[l]),
         reader'[l] = "text" <=> FollowedBy(fr) = "text"
  PROVE  /\ PipeInv(l)' /\ Flowing(l) /\ NextNo(l) = fr.msg.no
         /\ fr \in Frame /\ FrameOf(fr, sent[f]) /\ fr.part = NextPart(l)
         /\ Flowing(l)' =>
              NextNo(l)' = fr.msg.no + (IF FollowedBy(fr) = "text" THEN 0 ELSE 1)
  <1> DEFINE p == pipe[l]
             t == Tail(p)
  <1>1. /\ PipeInv(l) /\ LaneInv(l) /\ p \in Seq(Frame) /\ p # <<>>
    BY DEF OrderInv, FrameInv, TypeInv, TypeOK
  <1>2. pipe'[l] = t /\ fr = Head(p)
    OBVIOUS
  <1>3. WriterOf(l)' = f /\ LaneOf(f)' = LaneOf(f) /\ TakenBy(f)' = TakenBy(f)
    BY DEF WriterOf, LaneOf, TakenBy
  <1>4. Active(l)' <=> Active(l)
    <2>1. Active(l)' <=> LaneOf(f) = l /\ writer[f].st \in {"idle", "text"}
      BY <1>3 DEF Active
    <2>2. Active(l) <=> LaneOf(f) = l /\ writer[f].st \in {"idle", "text"}
      BY DEF Active
    <2> QED BY <2>1, <2>2
  <1> HIDE DEF p
  <1>5. Numbered(p) /\ (\A i \in DOMAIN p : FrameOf(p[i], sent[f]))
        /\ (Active(l) => p[Len(p)].msg.no = TakenBy(f))
        /\ Alternates(p) /\ Head(p).part = NextPart(l)
    BY <1>1 DEF PipeInv, LaneInv, p
  <1>6. /\ Numbered(t) /\ t \in Seq(Frame)
        /\ DOMAIN t = 1..(Len(p) - 1) /\ Len(t) = Len(p) - 1 /\ Len(p) \in Nat
        /\ DOMAIN p = 1..Len(p) /\ 1 \in DOMAIN p /\ Head(p) = p[1] /\ p[1] \in Frame
        /\ \A i \in 1..(Len(p) - 1) : t[i] = p[i + 1] /\ i + 1 \in DOMAIN p
        /\ t = <<>> => Head(p) = p[Len(p)]
        /\ t # <<>> =>
             /\ Head(t) = p[2] /\ t[Len(t)] = p[Len(p)]
             /\ p[2].msg.no = p[1].msg.no + (IF p[2].part = "len" THEN 1 ELSE 0)
    BY <1>1, <1>5, PopNumbered
  <1>7. t # <<>> => p[2].part = FollowedBy(p[1])
    <2> SUFFICES ASSUME t # <<>> PROVE p[2].part = FollowedBy(p[1])
      OBVIOUS
    <2>1. Len(t) # 0
      BY <1>6
    <2>2. 1 \in 1..(Len(p) - 1) /\ 1 + 1 = 2
      BY <1>6, <2>1
    <2> QED BY <1>5, <2>2 DEF Alternates
  <1> HIDE DEF t
  <1>8. PipeInv(l)'
    <2>1. \A i \in DOMAIN t : FrameOf(t[i], sent[f])
      BY <1>5, <1>6
    <2>2. Active(l) /\ t # <<>> => t[Len(t)].msg.no = TakenBy(f)
      BY <1>5, <1>6
    <2>3. t # <<>> => LaneOf(f)' = l /\ writer'[f].st # "none"
      BY <1>1, <1>3 DEF PipeInv, p
    <2> QED BY <1>2, <1>3, <1>4, <1>6, <2>1, <2>2, <2>3 DEF PipeInv
  <1>9. Flowing(l) /\ NextNo(l) = fr.msg.no
    BY <1>1, <1>2 DEF Flowing, NextNo, p
  <1>10. ASSUME Flowing(l)'
         PROVE  NextNo(l)' = fr.msg.no + (IF FollowedBy(fr) = "text" THEN 0 ELSE 1)
    <2>0. fr.msg.no \in Nat /\ (FollowedBy(fr) = "len" \/ FollowedBy(fr) = "text")
      BY <1>2, <1>6 DEF Frame, Msg, FollowedBy
    <2>1. CASE t # <<>>
      <3>1. NextNo(l)' = p[2].msg.no
        BY <1>2, <1>6, <2>1 DEF NextNo
      <3>2. p[2].part = FollowedBy(fr) /\ p[1] = fr
        BY <1>2, <1>6, <1>7, <2>1
      <3> QED BY <1>6, <2>0, <2>1, <3>1, <3>2
    <2>2. CASE t = <<>>
      <3>1. Active(l)
        BY <1>2, <1>4, <1>10, <2>2 DEF Flowing
      <3>2. fr.msg.no = TakenBy(f)
        BY <1>2, <1>5, <1>6, <2>2, <3>1
      <3>3. NextNo(l)' = IF reader'[l] = "text" THEN TakenBy(f) ELSE TakenBy(f) + 1
        BY <1>2, <1>3, <2>2 DEF NextNo
      <3> QED BY <2>0, <3>2, <3>3
    <2> QED BY <2>1, <2>2
  <1> QED BY <1>2, <1>5, <1>6, <1>8, <1>9, <1>10

(* A lane nothing is read from, when its reader may get a message that     *)
(* came on another.                                                        *)
LEMMA ReadElsewhere ==
  ASSUME OrderInv, NEW l \in Lanes, NEW f \in Ends, f = WriterOf(l),
         NEW r \in Ends, r = ReaderOf(l),
         UNCHANGED <<sent, out, writer, voice>>,
         pipe'[l] = pipe[l], reader'[l] = reader[l],
         \A x \in Msg : x.by = f => (Has(Arrived(r)', x) <=> Has(Arrived(r), x))
  PROVE  PipeInv(l)' /\ ReachInv(l)'
  <1>1. WriterOf(l)' = f /\ LaneOf(f)' = LaneOf(f) /\ TakenBy(f)' = TakenBy(f)
    BY DEF WriterOf, LaneOf, TakenBy
  <1>2. Active(l)' => Active(l) /\ TakenBy(f)' = TakenBy(f)
    <2>1. Active(l)' => LaneOf(f) = l /\ writer[f].st \in {"idle", "text"}
      BY <1>1 DEF Active
    <2>2. Active(l) <=> LaneOf(f) = l /\ writer[f].st \in {"idle", "text"}
      BY DEF Active
    <2> QED BY <1>1, <2>1, <2>2
  <1>3. Grown(sent, sent')
    BY DEF Grown
  <1>4. /\ reader'[l] = "text" <=> reader[l] = "text"
        /\ reader[l] = "done" => reader'[l] = "done"
        /\ LaneOf(f)' # l \/ writer'[f].st = "none" => LaneOf(f) # l \/ writer[f].st = "none"
    BY <1>1
  <1> QED BY <1>2, <1>3, <1>4, LaneKeeps

(* Reader and writer tell a lane from every other.                         *)
LEMMA OneLane ==
  ASSUME NEW k \in Lanes, NEW l \in Lanes,
         WriterOf(k) = WriterOf(l), ReaderOf(k) = ReaderOf(l)
  PROVE  k = l
  BY LaneType DEF Lanes, WriterOf, ReaderOf

(* What the steps of a read loop have in common.                           *)
LEMMA ReadOrder ==
  ASSUME OrderInv, FrameInv', NEW l \in Lanes, ReadTask(l) \/ ReadFails(l)
  PROVE  OrderInv'
  <1>f. PICK f \in Ends : f = WriterOf(l)
    BY LaneType
  <1>r. PICK r \in Ends : r = ReaderOf(l)
    BY LaneType
  <1>1. /\ UNCHANGED <<sent, out, writer, voice, got>>
        /\ reader[l] \in {"len", "text"}
    BY DEF ReadTask, ReadLen, ReadText, ReadFails, startVars, writeVars
  <1>2. /\ TypeInv /\ ReachInv(l)
        /\ pipe \in [Lanes -> Seq(Frame)]
        /\ reader \in [Lanes -> {"none", "len", "text", "done"}]
        /\ inq \in [Ends -> Seq(Msg)] /\ got \in [Ends -> Seq(Msg)]
        /\ sent \in [Ends -> Seq(Msg)]
    BY DEF OrderInv, FrameInv, TypeInv, TypeOK
  <1>3. \A k \in Lanes : k # l => pipe'[k] = pipe[k] /\ reader'[k] = reader[k]
    <2>1. CASE ReadLen(l)
      BY <1>2, <2>1 DEF ReadLen
    <2>2. CASE ReadText(l)
      BY <1>2, <2>2 DEF ReadText
    <2>3. CASE ReadFails(l)
      BY <1>2, <2>3 DEF ReadFails
    <2> QED BY <2>1, <2>2, <2>3 DEF ReadTask
  <1>4. \A g \in Ends : SentInv(g)'
    <2> SUFFICES ASSUME NEW g \in Ends PROVE SentInv(g)'
      OBVIOUS
    <2>1. SentInv(g) /\ sent'[g] = sent[g] /\ out'[g] = out[g] /\ writer'[g] = writer[g]
      BY <1>1 DEF OrderInv
    <2> QED BY <2>1, SentKeeps
  <1>5. /\ LaneOf(f)' = LaneOf(f) /\ WriterOf(l)' = f /\ ReaderOf(l)' = r
        /\ writer'[f] = writer[f]
    BY <1>1, <1>f, <1>r DEF LaneOf, WriterOf, ReaderOf
  <1>6. CASE ~ReadText(l)
    <2>1. inq' = inq /\ (ReadLen(l) \/ ReadFails(l))
      BY <1>6 DEF ReadTask, ReadLen, ReadFails
    <2>2. \A s \in Ends : Arrived(s)' = Arrived(s)
      BY <1>1, <2>1 DEF Arrived
    <2>3. \A k \in Lanes : k # l => PipeInv(k)' /\ ReachInv(k)'
      <3> SUFFICES ASSUME NEW k \in Lanes, k # l PROVE PipeInv(k)' /\ ReachInv(k)'
        OBVIOUS
      <3>1. PICK g \in Ends : g = WriterOf(k)
        BY LaneType
      <3>2. PICK s \in Ends : s = ReaderOf(k)
        BY LaneType
      <3>3. \A x \in Msg : x.by = g => (Has(Arrived(s)', x) <=> Has(Arrived(s), x))
        BY <2>2
      <3>4. pipe'[k] = pipe[k] /\ reader'[k] = reader[k]
        BY <1>3
      <3> QED BY <1>1, <3>1, <3>2, <3>3, <3>4, ReadElsewhere
    <2>4. PipeInv(l)' /\ ReachInv(l)'
      <3>1. CASE pipe'[l] = <<>> /\ reader'[l] = "done"
        <4>1. \A x \in Msg : x.by = f => (Has(Arrived(r)', x) <=> Has(Arrived(r), x))
          BY <2>2
        <4>2. LaneOf(f)' # l \/ writer'[f].st = "none" => LaneOf(f) # l \/ writer[f].st = "none"
          BY <1>5
        <4> QED BY <1>2, <1>f, <1>r, <3>1, <4>1, <4>2, LaneStopped
      <3>2. CASE ~(pipe'[l] = <<>> /\ reader'[l] = "done")
        <4>1. ReadLen(l)
          BY <1>2, <2>1, <3>2 DEF ReadFails
        <4>fr. PICK fr : fr = Head(pipe[l])
          OBVIOUS
        <4>2. reader[l] = "len" /\ pipe[l] # <<>> /\ fr.msg \in Msg
          BY <1>2, <4>1, <4>fr, HeadType DEF ReadLen
        <4>3. /\ reader'[l] = AfterLen(fr.msg)
              /\ pipe'[l] = IF AfterLen(fr.msg) = "done" THEN <<>> ELSE Tail(pipe[l])
          BY <1>2, <4>1, <4>fr DEF ReadLen
        <4>4. \/ AfterLen(fr.msg) = "text" /\ fr.msg.size = "text"
              \/ AfterLen(fr.msg) = "len" /\ fr.msg.size = "empty"
          BY <3>2, <4>2, <4>3 DEF AfterLen, Msg, Size
        <4>5. Head(pipe[l]).part = "len"
          BY <4>2 DEF OrderInv, FrameInv, LaneInv, NextPart
        <4>6. (FollowedBy(fr) = "text" <=> fr.msg.size = "text")
              /\ pipe'[l] = Tail(pipe[l]) /\ (reader'[l] = "text" <=> fr.msg.size = "text")
          BY <4>fr, <4>3, <4>4, <4>5 DEF FollowedBy
        <4>7. /\ PipeInv(l)' /\ Flowing(l) /\ NextNo(l) = fr.msg.no
              /\ FrameOf(fr, sent[f])
              /\ Flowing(l)' =>
                   NextNo(l)' = fr.msg.no + (IF FollowedBy(fr) = "text" THEN 0 ELSE 1)
          BY <1>1, <1>f, <4>fr, <4>2, <4>6, HeadTaken
        <4>n. PICK n \in Nat : n = fr.msg.no
          BY <4>2 DEF Msg
        <4>8. /\ \A k \in 1..(n - 1) :
                   k \in DOMAIN sent[f]
                     /\ (sent[f][k].size # "empty" => Has(Arrived(r), sent[f][k]))
              /\ \A x \in Msg : Has(Arrived(r), x) /\ x.by = f => x.no < n
              /\ LaneOf(f) # l \/ writer[f].st = "none" =>
                   \A x \in Msg : Has(Arrived(r), x) => x.by # f
          BY <1>2, <1>f, <1>r, <4>7, <4>n DEF ReachInv
        <4>9. \/ n \in DOMAIN sent[f] /\ fr.msg = sent[f][n]
              \/ n = 0 /\ fr.msg.size = "empty"
          BY <4>7, <4>n DEF FrameOf
        <4>10. ASSUME Flowing(l)'
               PROVE  /\ \A k \in 1..(NextNo(l)' - 1) :
                           k \in DOMAIN sent[f]
                             /\ (sent[f][k].size # "empty" => Has(Arrived(r), sent[f][k]))
                      /\ \A x \in Msg : Has(Arrived(r), x) /\ x.by = f => x.no < NextNo(l)'
                      /\ reader'[l] = "text" =>
                           NextNo(l)' \in DOMAIN sent[f] /\ sent[f][NextNo(l)'].size = "text"
          <5>1. CASE fr.msg.size = "text"
            <6>1. NextNo(l)' = n
              BY <4>6, <4>7, <4>n, <4>10, <5>1
            <6>2. n \in DOMAIN sent[f] /\ sent[f][n].size = "text"
              BY <4>9, <5>1
            <6> QED BY <4>8, <6>1, <6>2
          <5>2. CASE fr.msg.size = "empty"
            <6>1. NextNo(l)' = n + 1 /\ reader'[l] # "text"
              BY <4>6, <4>7, <4>n, <4>10, <5>2
            <6>2. n = 0 \/ (n \in DOMAIN sent[f] /\ sent[f][n].size = "empty")
              BY <4>9, <5>2
            <6>3. \A k \in 1..n : k \in 1..(n - 1) \/ (k = n /\ n # 0)
              OBVIOUS
            <6>4. \A k \in 1..n :
                    k \in DOMAIN sent[f]
                      /\ (sent[f][k].size # "empty" => Has(Arrived(r), sent[f][k]))
              BY <4>8, <6>2, <6>3
            <6>5. \A x \in Msg : Has(Arrived(r), x) /\ x.by = f => x.no < n + 1
              <7>1. \A x \in Msg : x.no \in Nat
                BY DEF Msg
              <7> QED BY <4>8, <7>1
            <6>6. n + 1 - 1 = n
              OBVIOUS
            <6> QED BY <6>1, <6>4, <6>5, <6>6
          <5> QED BY <4>4, <5>1, <5>2
        <4>11. sent'[f] = sent[f] /\ Arrived(r)' = Arrived(r)
          BY <1>1, <2>2
        <4> QED BY <1>5, <4>7, <4>8, <4>10, <4>11 DEF ReachInv, Has
      <3> QED BY <3>1, <3>2
    <2>5. \A s \in Ends : InPlace(Arrived(s), sent)'
      BY <1>1, <2>2 DEF OrderInv, InPlace
    <2>6. \A k \in Lanes : PipeInv(k)' /\ ReachInv(k)'
      BY <2>3, <2>4
    <2> QED BY <1>4, <2>5, <2>6 DEF OrderInv
  <1>7. CASE ReadText(l)
    <2>fr. PICK fr : fr = Head(pipe[l])
      OBVIOUS
    <2>1. /\ reader[l] = "text" /\ pipe[l] # <<>> /\ reader'[l] = "len"
          /\ pipe'[l] = Tail(pipe[l]) /\ fr.msg \in Msg
          /\ inq'[r] = Append(inq[r], fr.msg)
          /\ \A s \in Ends : s # r => inq'[s] = inq[s]
      BY <1>2, <1>r, <1>7, <2>fr, HeadType DEF ReadText
    <2>2. Head(pipe[l]).part = "text"
      BY <2>1 DEF OrderInv, FrameInv, LaneInv, NextPart
    <2>3. FollowedBy(fr) = "len"
      BY <2>fr, <2>2 DEF FollowedBy
    <2>4. /\ PipeInv(l)' /\ Flowing(l) /\ NextNo(l) = fr.msg.no
          /\ FrameOf(fr, sent[f])
          /\ Flowing(l)' =>
               NextNo(l)' = fr.msg.no + (IF FollowedBy(fr) = "text" THEN 0 ELSE 1)
      BY <1>1, <1>f, <2>fr, <2>1, <2>3, HeadTaken
    <2>m. PICK m \in Msg : m = fr.msg
      BY <2>1
    <2>5. m.no \in Nat /\ m.by \in Ends
      BY DEF Msg
    <2>6. /\ \A k \in 1..(m.no - 1) :
               k \in DOMAIN sent[f]
                 /\ (sent[f][k].size # "empty" => Has(Arrived(r), sent[f][k]))
          /\ \A x \in Msg : Has(Arrived(r), x) /\ x.by = f => x.no < m.no
          /\ m.no \in DOMAIN sent[f] /\ sent[f][m.no].size = "text"
          /\ LaneOf(f) # l \/ writer[f].st = "none" =>
               \A x \in Msg : Has(Arrived(r), x) => x.by # f
      BY <1>2, <1>f, <1>r, <2>1, <2>4, <2>m DEF ReachInv
    <2>7. m = sent[f][m.no] /\ m.by = f /\ m.size = "text"
      <3>1. DOMAIN sent[f] = 1..Len(sent[f])
        BY <1>2
      <3>2. m.no # 0
        BY <2>6, <3>1
      <3>3. m = sent[f][m.no]
        BY <2>4, <2>m, <3>2 DEF FrameOf
      <3>4. sent[f][m.no].by = f
        BY <2>6 DEF OrderInv, SentInv
      <3> QED BY <2>6, <3>3, <3>4
    <2>8. Arrived(r)' = Append(Arrived(r), m) /\ Arrived(r) \in Seq(Msg)
      <3>g. PICK g \in Seq(Msg) : g = got[r]
        BY <1>2
      <3>h. PICK h \in Seq(Msg) : h = inq[r]
        BY <1>2
      <3>1. g \o Append(h, m) = Append(g \o h, m)
        BY ArrivesLast
      <3>2. Arrived(r) = g \o h /\ Arrived(r)' = g \o Append(h, m)
        BY <1>1, <2>1, <2>m, <3>g, <3>h DEF Arrived
      <3> QED BY <1>2, <3>1, <3>2, ArrivedType
    <2>9. \A x : Has(Arrived(r)', x) <=> Has(Arrived(r), x) \/ x = m
      <3>1. \A x : Has(Append(Arrived(r), m), x) <=> Has(Arrived(r), x) \/ x = m
        BY <2>8, HasAppend
      <3> QED BY <2>8, <3>1
    <2>10. \A s \in Ends : s # r => Arrived(s)' = Arrived(s)
      BY <1>1, <2>1 DEF Arrived
    <2>11. ASSUME NEW s \in Ends PROVE InPlace(Arrived(s), sent)'
      <3>1. InPlace(Arrived(s), sent)
        BY DEF OrderInv
      <3>2. CASE s # r
        BY <1>1, <2>10, <3>1, <3>2 DEF InPlace
      <3>3. CASE s = r
        <4>1. InPlace(Append(Arrived(r), m), sent)
          <5>1. Due(m, Arrived(r), sent)
            BY <2>6, <2>7 DEF Due
          <5>2. InPlace(Arrived(r), sent)
            BY DEF OrderInv
          <5>3. Arrived(r) \in Seq(Msg)
            BY <2>8
          <5> QED BY <5>1, <5>2, <5>3, InPlaceAppend
        <4>2. InPlace(Arrived(r)', sent')
          BY <1>1, <2>8, <4>1
        <4> QED BY <3>3, <4>2 DEF InPlace
      <3> QED BY <3>2, <3>3
    <2>12. ASSUME NEW k \in Lanes, k # l PROVE PipeInv(k)' /\ ReachInv(k)'
      <3>1. PICK g \in Ends : g = WriterOf(k)
        BY LaneType
      <3>2. PICK s \in Ends : s = ReaderOf(k)
        BY LaneType
      <3>3. \A x \in Msg : x.by = g => (Has(Arrived(s)', x) <=> Has(Arrived(s), x))
        <4>1. CASE s # r
          BY <2>10, <4>1
        <4>2. CASE s = r
          <5>1. g # f
            BY <1>f, <1>r, <2>12, <3>1, <3>2, <4>2, OneLane
          <5> QED BY <2>7, <2>9, <4>2, <5>1
        <4> QED BY <4>1, <4>2
      <3>4. pipe'[k] = pipe[k] /\ reader'[k] = reader[k]
        BY <1>3, <2>12
      <3> QED BY <1>1, <3>1, <3>2, <3>3, <3>4, ReadElsewhere
    <2>13. ReachInv(l)'
      <3>1. ASSUME Flowing(l)'
            PROVE  /\ \A k \in 1..(NextNo(l)' - 1) :
                        k \in DOMAIN sent[f]
                          /\ (sent[f][k].size # "empty" => Has(Arrived(r)', sent[f][k]))
                   /\ \A x \in Msg : Has(Arrived(r)', x) /\ x.by = f => x.no < NextNo(l)'
        <4>1. NextNo(l)' = m.no + 1
          BY <2>3, <2>4, <2>m, <3>1
        <4>2. \A k \in 1..m.no : k \in 1..(m.no - 1) \/ k = m.no
          BY <2>5
        <4>3. \A k \in 1..m.no :
                k \in DOMAIN sent[f]
                  /\ (sent[f][k].size # "empty" => Has(Arrived(r)', sent[f][k]))
          BY <2>6, <2>7, <2>9, <4>2
        <4>4. \A x \in Msg : Has(Arrived(r)', x) /\ x.by = f => x.no < m.no + 1
          <5>1. \A x \in Msg : x.no \in Nat
            BY DEF Msg
          <5>2. \A x \in Msg : Has(Arrived(r), x) /\ x.by = f => x.no < m.no + 1
            BY <2>5, <2>6, <5>1
          <5>3. m.no < m.no + 1
            BY <2>5
          <5> SUFFICES ASSUME NEW x \in Msg, Has(Arrived(r)', x), x.by = f
                       PROVE  x.no < m.no + 1
            OBVIOUS
          <5>4. Has(Arrived(r), x) \/ x = m
            BY <2>9
          <5> QED BY <5>2, <5>3, <5>4
        <4>5. NextNo(l)' - 1 = m.no
          BY <2>5, <4>1
        <4>6. \A x \in Msg : Has(Arrived(r)', x) /\ x.by = f => x.no < NextNo(l)'
          BY <4>1, <4>4
        <4>7. \A k \in 1..(NextNo(l)' - 1) :
                k \in DOMAIN sent[f]
                  /\ (sent[f][k].size # "empty" => Has(Arrived(r)', sent[f][k]))
          BY <4>3, <4>5
        <4> QED BY <4>6, <4>7
      <3>2. LaneOf(f) = l /\ writer[f].st # "none"
        BY <1>f, <2>1 DEF OrderInv, PipeInv
      <3>3. sent'[f] = sent[f] /\ reader'[l] # "text"
        BY <1>1, <2>1
      <3> QED BY <1>5, <3>1, <3>2, <3>3 DEF ReachInv, Has
    <2>14. \A k \in Lanes : PipeInv(k)' /\ ReachInv(k)'
      BY <2>4, <2>12, <2>13
    <2> QED BY <1>4, <2>11, <2>14 DEF OrderInv
  <1> QED BY <1>6, <1>7

(* A message passes from the queue to the callback, in its place.          *)
LEMMA DeliverOrder ==
  ASSUME OrderInv, FrameInv', NEW e \in Ends, Deliver(e)
  PROVE  OrderInv'
  <1>1. UNCHANGED <<sent, out, writer, voice, pipe, reader>>
    BY DEF Deliver, startVars, writeVars
  <1>2. inq \in [Ends -> Seq(Msg)] /\ got \in [Ends -> Seq(Msg)]
    BY DEF OrderInv, FrameInv, TypeInv, TypeOK
  <1>3. ASSUME NEW r \in Ends PROVE Arrived(r)' = Arrived(r)
    <2>1. CASE r # e
      BY <1>2, <2>1 DEF Deliver, Arrived
    <2>2. CASE r = e
      <3>g. PICK g \in Seq(Msg) : g = got[e]
        BY <1>2
      <3>h. PICK h \in Seq(Msg) : h = inq[e]
        BY <1>2
      <3>1. h # <<>> /\ got'[e] = Append(g, Head(h)) /\ inq'[e] = Tail(h)
        BY <1>2, <3>g, <3>h DEF Deliver
      <3>2. Append(g, Head(h)) \o Tail(h) = g \o h
        BY <3>1, DeliveredStays
      <3> QED BY <2>2, <3>g, <3>h, <3>1, <3>2 DEF Arrived
    <2> QED BY <2>1, <2>2
  <1> QED BY <1>1, <1>3, OrderUntouched

LEMMA NextOrderInv == OrderInv /\ HeldUntilHeard /\ [Next]_vars => OrderInv'
  <1> SUFFICES ASSUME OrderInv, HeldUntilHeard, [Next]_vars PROVE OrderInv'
    OBVIOUS
  <1>1. FrameInv'
    BY NextFrameInv DEF OrderInv
  <1>2. ASSUME UNCHANGED <<sent, out, writer, voice, pipe, reader, inq, got>>
        PROVE  OrderInv'
    <2>1. \A r \in Ends : Arrived(r)' = Arrived(r)
      BY <1>2 DEF Arrived
    <2> QED BY <1>1, <1>2, <2>1, OrderUntouched
  <1>3. CASE UNCHANGED vars
    BY <1>2, <1>3 DEF vars, startVars, writeVars, readVars
  <1>4. ASSUME NEW d \in Dials,
               StartInitiator(d) \/ Connect(d) \/ DialFails(d) \/ ConnDown(d)
                 \/ OpenBi(d) \/ Accept(d)
        PROVE  OrderInv'
    BY <1>2, <1>4 DEF StartInitiator, Connect, DialFails, ConnDown, OpenBi, Accept,
                      startVars, writeVars, readVars
  <1>5. CASE StartResponder
    BY <1>2, <1>5 DEF StartResponder, writeVars, readVars
  <1> QED BY <1>1, <1>3, <1>4, <1>5, LaneType, PrimeOrder, AcceptOrder, FreeOrder,
             SendOrder, WriteOrder, ReadOrder, DeliverOrder
    DEF Next, DialTask, AcceptTask

(* The callback gets what a sender said in the order it was said, once and *)
(* without a gap, however many dials fail, loops end or streams stop, and  *)
(* whatever is sent meanwhile.                                             *)
THEOREM DeliveredInOrder == Spec => []InOrder
  <1>1. ASSUME OrderInv PROVE InOrder
    <2> SUFFICES ASSUME NEW e \in Ends PROVE InPlace(got[e], sent)
      BY DEF InOrder, InPlace
    <2>1. got[e] \in Seq(Msg) /\ inq[e] \in Seq(Msg)
      BY <1>1 DEF OrderInv, FrameInv, TypeInv, TypeOK
    <2>2. InPlace(got[e] \o inq[e], sent)
      BY <1>1 DEF OrderInv, Arrived
    <2> QED BY <2>1, <2>2, InPlacePrefix
  <1>2. OrderInv => InOrder
    BY <1>1
  <1> QED BY <1>2, InitOrderInv, NextOrderInv, VoiceHeld, PTL DEF Spec
=============================================================================

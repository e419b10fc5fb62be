----------------------------- MODULE WasmStrings -----------------------------
(***************************************************************************)
(* How texts cross between the page and the wasm memory (the generated     *)
(* glue, src/examples/chat/pkg/iroh_webrtc_transport.js).  Text is UTF-16  *)
(* on the page and UTF-8 in the memory.  The glue keeps one Uint8Array and *)
(* one DataView over the memory; when the memory grows, its buffer is      *)
(* detached: both have length 0, and what is written through them is gone. *)
(***************************************************************************)
EXTENDS Naturals, SequencesExt

(* Kinds of characters by their length in UTF-8; a "pair" takes two UTF-16 *)
(* units, and a "lone" half of one has no UTF-8 of its own.                *)
Chars == {"ascii", "latin", "wide", "pair", "lone"}
Utf8Length ==
  [ascii |-> 1, latin |-> 2, wide |-> 3, pair |-> 4, replacement |-> 3]

(* The TextEncoder writes U+FFFD for what is not well-formed.              *)
Encode(c) == LET d == IF c = "lone" THEN "replacement" ELSE c
             IN [i \in 1..Utf8Length[d] |-> <<d, i>>]
Utf8(text) == FlattenSeq([i \in DOMAIN text |-> Encode(text[i])])

(* The units a text has on the page, and how many: String.length.          *)
Utf16(c) == IF c = "pair" THEN <<"high", "low">> ELSE <<c>>
Units(text) == Len(FlattenSeq([i \in DOMAIN text |-> Utf16(text[i])]))

View == {"none", "fresh", "detached"}

(* The memory grows, or not, in a call into wasm.                          *)
After(view, grew) == IF grew /\ view = "fresh" THEN "detached" ELSE view

(* Mutated: a view is replaced only when there is none yet.                *)
FirstView(view) == IF view = "none" THEN "fresh" ELSE view

(* getUint8ArrayMemory0, getDataViewMemory0: a detached view is replaced.  *)
CurrentView(view) == "fresh"

(* malloc and realloc: what was there is kept, the rest is arbitrary.      *)
Resize(buf, n) == [i \in 1..n |-> IF i <= Len(buf) THEN buf[i] ELSE <<"junk", 0>>]

(* The bytes of a buffer once some have been written after the first at.   *)
Written(view, buf, at, bytes) ==
  IF view # "fresh" THEN buf
  ELSE [i \in DOMAIN buf |->
          IF i \in (at + 1)..(at + Len(bytes)) THEN bytes[i - at] ELSE buf[i]]

(* encodeInto: the whole characters that fit.                              *)
EncodeInto(text, room) ==
  LET fitting == {k \in 0..Len(text) : Len(Utf8(SubSeq(text, 1, k))) <= room}
  IN Utf8(SubSeq(text, 1, Max(fitting)))

(* Mutated: two bytes for each unit.                                       *)
RoomForTwo(text) == 2 * Units(text)

(* How much room the glue makes for a text it has not encoded yet.         *)
Room(text) == 3 * Units(text)

AsciiPrefix(text) ==
  LET others == {i \in DOMAIN text : text[i] # "ascii"}
  IN SubSeq(text, 1, IF others = {} THEN Len(text) ELSE Min(others) - 1)

(* passStringToWasm0, when the memory grew[i] in its i-th call into wasm:  *)
(* the ASCII prefix is written as it is read, for the rest the buffer is   *)
(* made larger, filled by the encoder and cut to what was written.         *)
(* The bytes are those at the returned pointer, as far as WASM_VECTOR_LEN. *)
PassString(text, view, grew) ==
  LET prefix == AsciiPrefix(text)
      rest == SubSeq(text, Len(prefix) + 1, Len(text))
      v1 == CurrentView(After(view, grew[1]))
      ascii == Written(v1, Resize(<<>>, Units(text)), 0, Utf8(prefix))
      v2 == CurrentView(After(v1, grew[2]))
      room == IF v2 = "fresh" THEN Room(rest) ELSE 0
      bytes == EncodeInto(rest, room)
      large == Resize(ascii, Len(prefix) + Room(rest))
  IN IF rest = <<>>
     THEN [bytes |-> ascii, view |-> v1]
     ELSE [bytes |-> Resize(Written(v2, large, Len(prefix), bytes),
                            Len(prefix) + Len(bytes)),
           view |-> After(v2, grew[3])]
=============================================================================

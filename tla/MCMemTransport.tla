--------------------------- MODULE MCMemTransport ---------------------------
(* Two endpoints, under two keys or one after the other under the same;    *)
(* one transmit is a GSO batch whose last segment is short, one is longer  *)
(* than a receive slot.                                                    *)
EXTENDS MemTransport

CONSTANTS a, b, ka, kb, batchOf5, single

TwoKeys == [e \in Eps |-> IF e = a THEN ka ELSE kb]
OneKey == [e \in Eps |-> kb]
MCLength == [t \in Transmits |-> IF t = batchOf5 THEN 5 ELSE 3]
MCSegmentSize == [t \in Transmits |-> IF t = batchOf5 THEN 2 ELSE NoSize]
=============================================================================

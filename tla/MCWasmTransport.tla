--------------------------- MODULE MCWasmTransport ---------------------------
(* The two ends of one data channel; a GSO batch of two segments and a     *)
(* single datagram, either of which may leave from either end.             *)
EXTENDS WasmTransport

CONSTANTS a, b, ka, kb, batchOf3, single

TwoKeys == [e \in Eps |-> IF e = a THEN ka ELSE kb]
MCLength == [t \in Transmits |-> IF t = batchOf3 THEN 3 ELSE 2]
MCSegmentSize == [t \in Transmits |-> IF t = batchOf3 THEN 2 ELSE NoSize]
=============================================================================

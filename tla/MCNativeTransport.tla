-------------------------- MODULE MCNativeTransport --------------------------
(* The two ends of one data channel; a GSO batch of two segments and a     *)
(* single datagram, either of which may leave from either end.             *)
EXTENDS NativeTransport

CONSTANTS a, b, ka, kb, batchOf3, single

TwoKeys == [e \in Eps |-> IF e = a THEN ka ELSE kb]
MCLength == [t \in Transmits |-> 3]
MCSegmentSize == [t \in Transmits |-> IF t = batchOf3 THEN 2 ELSE NoSize]
=============================================================================

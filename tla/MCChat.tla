------------------------------- MODULE MCChat -------------------------------
(* One dial, or a second one after the first has failed, to a responder    *)
(* that keeps its endpoint.                                                *)
EXTENDS Chat

OneDial == 1..1
TwoDials == 1..2
TwoAndOne == [e \in Ends |-> IF e = Responder THEN 1 ELSE 2]
OneAndTwo == [e \in Ends |-> IF e = Responder THEN 2 ELSE 1]
=============================================================================

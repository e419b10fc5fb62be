---------------------------- MODULE MCPageStartup ----------------------------
(* Three STUN servers, two of which are used; a round of probes takes two  *)
(* ticks and a ranking keeps for two, so that it can go stale and be       *)
(* replaced before the clock stops.                                        *)
EXTENDS PageStartup

CONSTANTS google, cloudflare, twilio

ThreeServers == <<google, cloudflare, twilio>>
=============================================================================

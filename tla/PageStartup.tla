----------------------------- MODULE PageStartup -----------------------------
(***************************************************************************)
(* What a page does before it signals (src/examples/chat/chat.js): probe   *)
(* the STUN pool or reuse the cached ranking, create the connection with   *)
(* the best servers, and wait for the wasm module, which the generated     *)
(* loader (pkg/iroh_webrtc_transport.js) has been fetching meanwhile from  *)
(* the demo's server (serve.mjs) or another static host.                   *)
(*                                                                         *)
(* One tab is opened, closed and reloaded; sessionStorage outlives a load. *)
(* The STUN servers, the network and the browser are external.  The clock  *)
(* counts in fractions of the probe's timeout; the page is responsive: the *)
(* clock does not pass a timer or a reaction that is due.                  *)
(***************************************************************************)
EXTENDS Naturals, FiniteSets, SequencesExt

CONSTANTS
  Pool,          \* STUN_POOL, a sequence
  TopN,          \* TOP_N
  ProbeTimeout,  \* PROBE_TIMEOUT_MS
  Ttl,           \* CACHE_TTL_MS
  MaxTime        \* bound: the clock stops here

ASSUME StartupAssumption ==
  /\ Pool \in Seq(Range(Pool)) /\ IsInjective(Pool) /\ Pool # <<>>
  /\ TopN \in Nat \ {0} /\ ProbeTimeout \in Nat \ {0}
  /\ Ttl \in Nat /\ MaxTime \in Nat

Servers == Range(Pool)

VARIABLES
  now,        \* Date.now(), performance.now()
  cache,      \* sessionStorage[CACHE_KEY]
  phase,      \* where bootstrap is
  t0,         \* when the last round of probes began
  probe,      \* per server: the last round's probe of it
  chosen,     \* the connection's iceServers, <<>> before there is one
  wasm,       \* the promise `ready`
  resp        \* the response the loader works on

tab == <<phase, t0, probe, chosen>>
loader == <<wasm, resp>>
vars == <<now, cache, tab, loader>>

NoCache == [ranked |-> <<>>, ts |-> 0]
NoResponse == [ok |-> FALSE, mime |-> "none", good |-> FALSE]

(* Every variable has its type, a ranking names no server twice, and the   *)
(* connection never has more servers than it should.                       *)
TypeOK ==
  /\ now \in 0..MaxTime /\ t0 \in 0..now
  /\ cache.ranked \in Seq(Servers) /\ IsInjective(cache.ranked)
  /\ cache.ts \in 0..now
  /\ phase \in {"closed", "probing", "waiting", "up", "failed"}
  /\ probe \in [Servers -> [conn : BOOLEAN, timer : BOOLEAN, settled : BOOLEAN,
                            ok : BOOLEAN, ms : 0..ProbeTimeout]]
  /\ chosen = Pool \/ (chosen \in Seq(Servers) /\ Len(chosen) <= TopN)
  /\ wasm \in {"none", "fetching", "streaming", "buffering", "ready", "rejected"}
  /\ resp \in [ok : BOOLEAN, mime : {"application/wasm", "other", "none"},
               good : BOOLEAN]

Init ==
  /\ now = 0 /\ t0 = 0
  /\ cache = NoCache
  /\ phase = "closed"
  /\ probe = [s \in Servers |-> [conn |-> FALSE, timer |-> FALSE,
                                 settled |-> TRUE, ok |-> FALSE, ms |-> 0]]
  /\ chosen = <<>>
  /\ wasm = "none" /\ resp = NoResponse

-----------------------------------------------------------------------------
(* STUN servers.                                                           *)

(* Mutated: the age of the ranking is not looked at.                       *)
UsableAtAnyAge(c) == c.ranked # <<>>

(* readStunCache.                                                          *)
Usable(c) == c.ranked # <<>> /\ now - c.ts <= Ttl

(* The end of resolveIceServers, and bootstrap as far as `await ready`: if *)
(* the connection cannot be created the startup has failed.                *)
Connect(ranked) ==
  LET top == SubSeq(ranked, 1, IF TopN < Len(ranked) THEN TopN ELSE Len(ranked))
  IN /\ chosen' = IF top = <<>> THEN Pool ELSE top
     /\ phase' \in {"waiting", "failed"}

(* Mutated: a probe is started without its timer.                          *)
UntimedProbe(works) ==
  [conn |-> works, timer |-> FALSE, settled |-> ~works, ok |-> FALSE, ms |-> 0]

(* probeStun up to its return: if the constructor throws it is settled.    *)
NewProbe(works) ==
  [conn |-> works, timer |-> works, settled |-> ~works, ok |-> FALSE, ms |-> 0]

(* The page loads: `ready` starts to load wasm, then bootstrap runs.       *)
OpenPage ==
  /\ phase = "closed" /\ now + ProbeTimeout <= MaxTime
  /\ wasm' = "fetching" /\ resp' = NoResponse
  /\ IF Usable(cache)
     THEN Connect(cache.ranked) /\ UNCHANGED <<t0, probe>>
     ELSE /\ phase' = "probing" /\ chosen' = <<>>
          /\ t0' = now
          /\ \E working \in SUBSET Servers :
               probe' = [s \in Servers |-> NewProbe(s \in working)]
  /\ UNCHANGED <<now, cache>>

(* The tab closes or reloads: all but sessionStorage is gone.              *)
ClosePage ==
  /\ phase # "closed"
  /\ phase' = "closed" /\ chosen' = <<>>
  /\ probe' = [s \in Servers |-> [probe[s] EXCEPT
                 !.conn = FALSE, !.timer = FALSE, !.settled = TRUE]]
  /\ wasm' = "none" /\ resp' = NoResponse
  /\ UNCHANGED <<now, cache, t0>>

(* Mutated: the timer is cleared only if the server answered.              *)
FinishedButTimed(s, isOk) ==
  [conn |-> FALSE, timer |-> ~isOk, settled |-> TRUE, ok |-> isOk,
   ms |-> IF isOk THEN now - t0 ELSE 0]

(* finish(ok) in probeStun, unless it is settled.                          *)
Finished(s, isOk) ==
  [conn |-> FALSE, timer |-> FALSE, settled |-> TRUE, ok |-> isOk,
   ms |-> IF isOk THEN now - t0 ELSE 0]

Finish(s, isOk) ==
  /\ ~probe[s].settled
  /\ probe' = [probe EXCEPT ![s] = Finished(s, isOk)]
  /\ UNCHANGED <<now, cache, phase, t0, chosen, loader>>

(* A public candidate: the server has answered.                            *)
Answer(s) == probe[s].conn /\ Finish(s, TRUE)

(* The offer cannot be made or applied.                                    *)
OfferFails(s) == probe[s].conn /\ Finish(s, FALSE)

Timeout(s) ==
  probe[s].timer /\ now = t0 + ProbeTimeout /\ Finish(s, FALSE)

(* Mutated: the first of the pool that answered, not the fastest.          *)
RankedAsListed == SelectSeq(Pool, LAMBDA s : probe[s].ok)

(* Places in the pool: filter of the results.                              *)
Answered == {i \in DOMAIN Pool : probe[Pool[i]].ok}

(* The answered ones that the sort, which is stable, puts before place i.  *)
Ahead(i) ==
  {j \in Answered : \/ probe[Pool[j]].ms < probe[Pool[i]].ms
                    \/ probe[Pool[j]].ms = probe[Pool[i]].ms /\ j < i}

(* filter, sort and map of the results.                                    *)
Ranked ==
  [k \in 1..Cardinality(Answered) |->
     Pool[CHOOSE i \in Answered : Cardinality(Ahead(i)) = k - 1]]

AllSettled == \A s \in Servers : probe[s].settled

(* Promise.all: every probe has settled.  setItem may throw.               *)
Resolve ==
  /\ phase = "probing" /\ AllSettled
  /\ cache' \in {cache, [ranked |-> Ranked, ts |-> now]}
  /\ Connect(Ranked)
  /\ UNCHANGED <<now, t0, probe, loader>>

-----------------------------------------------------------------------------
(* The wasm module.                                                        *)

(* serve.mjs: the file if it can be read, typed by its extension.          *)
Static ==
  {[ok |-> TRUE, mime |-> "application/wasm", good |-> TRUE],
   [ok |-> FALSE, mime |-> "none", good |-> FALSE]}

(* Other hosts may not know the type, or send a broken or another file.    *)
Responses(host) ==
  IF host = "serve.mjs" THEN Static
  ELSE [ok : BOOLEAN, mime : {"application/wasm", "other"}, good : BOOLEAN]

(* fetch fails, or __wbg_load gets a response: an error status is thrown.  *)
(* Not every browser has instantiateStreaming.                             *)
Fetched ==
  /\ wasm = "fetching"
  /\ \/ wasm' = "rejected" /\ UNCHANGED resp
     \/ \E host \in {"serve.mjs", "other"}, streaming \in BOOLEAN :
          \E r \in Responses(host) :
          /\ resp' = r
          /\ wasm' = IF ~r.ok THEN "rejected"
                     ELSE IF streaming THEN "streaming" ELSE "buffering"
  /\ UNCHANGED <<now, cache, tab>>

(* Mutated: whatever instantiateStreaming throws is thrown on.             *)
NeverAgain(r) == "rejected"

(* Where the loader goes when instantiateStreaming has thrown: the page's  *)
(* own fetch has a valid response type, so only the MIME type counts.      *)
AfterStreaming(r) ==
  IF r.mime # "application/wasm" THEN "buffering" ELSE "rejected"

(* instantiateStreaming refuses other types before it reads the body.      *)
Streamed ==
  /\ wasm = "streaming"
  /\ wasm' = IF resp.mime = "application/wasm" /\ resp.good
             THEN "ready" ELSE AfterStreaming(resp)
  /\ UNCHANGED <<now, cache, tab, resp>>

Buffered ==
  /\ wasm = "buffering"
  /\ wasm' = IF resp.good THEN "ready" ELSE "rejected"
  /\ UNCHANGED <<now, cache, tab, resp>>

(* bootstrap after `await ready`: signaling starts, or "startup failed".   *)
Start ==
  /\ phase = "waiting" /\ wasm \in {"ready", "rejected"}
  /\ phase' = IF wasm = "ready" THEN "up" ELSE "failed"
  /\ UNCHANGED <<now, cache, t0, probe, chosen, loader>>

Tick ==
  /\ now < MaxTime
  /\ \A s \in Servers : probe[s].timer => now < t0 + ProbeTimeout
  /\ ~(phase = "probing" /\ AllSettled)
  /\ now' = now + 1
  /\ UNCHANGED <<cache, tab, loader>>

Next ==
  \/ OpenPage \/ ClosePage \/ Resolve \/ Start \/ Tick
  \/ Fetched \/ Streamed \/ Buffered
  \/ \E s \in Servers : Answer(s) \/ OfferFails(s) \/ Timeout(s)

Spec == Init /\ [][Next]_vars

(* Time passes, timers fire, promises are settled by the browser and their *)
(* reactions run; no server owes an answer and nobody opens a page.        *)
FairSpec ==
  /\ Spec
  /\ WF_vars(Tick) /\ WF_vars(Resolve) /\ WF_vars(Start)
  /\ WF_vars(Fetched) /\ WF_vars(Streamed) /\ WF_vars(Buffered)
  /\ \A s \in Servers : WF_vars(Timeout(s))

-----------------------------------------------------------------------------
(* Servers taken from a ranking answered a probe not long ago: no longer   *)
(* than the ranking may be kept and a probe may take.                      *)
Fresh(servers) ==
  \A i \in DOMAIN servers :
    LET p == probe'[servers[i]]
    IN p.ok /\ now' <= t0' + p.ms + ProbeTimeout + Ttl

(* The whole pool is a last resort: this very load has probed, and nobody  *)
(* answered; that nobody answered an earlier load is not held against it.  *)
NobodyAnswered == phase = "probing" /\ \A s \in Servers : ~probe[s].ok

(* Whichever servers the connection gets, this network has just shown that *)
(* they answer, or that none does.                                         *)
ServersJustified ==
  [][chosen' \notin {chosen, <<>>} =>
       (chosen' = Pool /\ NobodyAnswered) \/ Fresh(chosen')]_vars

(* After a live round no server that was left out was faster than one that *)
(* was taken, and none was left out while there was room.                  *)
FastestKept ==
  [][Resolve /\ chosen' # Pool =>
       \A s \in Servers \ Range(chosen') : probe[s].ok =>
         /\ Len(chosen') = TopN
         /\ \A i \in DOMAIN chosen' : probe[chosen'[i]].ms <= probe[s].ms]_vars

(* Once the connection's servers are known no probe holds a connection or  *)
(* a timer, however its answer, its timer and its failed offer raced.      *)
ProbesReleased ==
  phase # "probing" => \A s \in Servers : ~probe[s].conn /\ ~probe[s].timer

(* A module that arrives whole is loaded whatever type the host gives it.  *)
LoadedWhateverType == wasm = "rejected" => ~(resp.ok /\ resp.good)

(* A page that opens comes up or says that it has failed, unless closed.   *)
StartsOrTells ==
  phase \in {"probing", "waiting"} ~> phase \in {"up", "failed", "closed"}
=============================================================================

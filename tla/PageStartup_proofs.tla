------------------------- MODULE PageStartup_proofs -------------------------
(***************************************************************************)
(* Proofs about what a page does around its connection (chat.js): how it   *)
(* starts, for any pool, timeouts and lifetimes, and, in the second half,  *)
(* how two of them signal by hand, for any number of loads of each.        *)
(***************************************************************************)
EXTENDS PageStartup, ManualLink, FiniteSetTheorems, TLAPS

(* A probe that has settled holds nothing, and a page that is not probing  *)
(* has none that has not.                                                  *)
SettledReleased ==
  /\ \A s \in Servers : probe[s].settled => ~probe[s].conn /\ ~probe[s].timer
  /\ phase # "probing" => AllSettled

(* A round of probes is over when its time is.                             *)
InTime ==
  /\ \A s \in Servers : ~probe[s].settled => probe[s].timer /\ now <= t0 + ProbeTimeout
  /\ phase = "probing" => now <= t0 + ProbeTimeout

(* A ranking that is still good is the last round's: no load has probed    *)
(* since, and each server on it has answered in that round.                *)
LastRound ==
  Usable(cache) =>
    /\ phase # "probing" /\ cache.ts <= t0 + ProbeTimeout
    /\ \A i \in DOMAIN cache.ranked : probe[cache.ranked[i]].ok

(* The loader gets no response before the fetch has ended, and gives up    *)
(* only without one, or on one that is an error or broken.                 *)
GivesUpOnBad ==
  /\ wasm \in {"none", "fetching"} => resp = NoResponse
  /\ wasm = "rejected" => ~(resp.ok /\ resp.good)

Inv == TypeOK /\ SettledReleased /\ InTime /\ LastRound /\ GivesUpOnBad

(* The parts of TypeOK that different steps leave alone.                   *)
ClockTypes == now \in 0..MaxTime /\ t0 \in 0..now
CacheTypes ==
  /\ cache.ranked \in Seq(Servers) /\ IsInjective(cache.ranked)
  /\ cache.ts \in 0..now
Probes == [conn : BOOLEAN, timer : BOOLEAN, settled : BOOLEAN,
           ok : BOOLEAN, ms : 0..ProbeTimeout]
ProbeTypes == probe \in [Servers -> Probes]
PageTypes ==
  /\ phase \in {"closed", "probing", "waiting", "up", "failed"}
  /\ chosen = Pool \/ (chosen \in Seq(Servers) /\ Len(chosen) <= TopN)
LoaderTypes ==
  /\ wasm \in {"none", "fetching", "streaming", "buffering", "ready", "rejected"}
  /\ resp \in [ok : BOOLEAN, mime : {"application/wasm", "other", "none"}, good : BOOLEAN]

LEMMA TypeParts ==
  /\ TypeOK <=> ClockTypes /\ CacheTypes /\ ProbeTypes /\ PageTypes /\ LoaderTypes
  /\ TypeOK' <=> ClockTypes' /\ CacheTypes' /\ ProbeTypes' /\ PageTypes' /\ LoaderTypes'
  BY DEF TypeOK, ClockTypes, CacheTypes, ProbeTypes, Probes, PageTypes, LoaderTypes

LEMMA Constants ==
  /\ TopN \in Nat \ {0} /\ ProbeTimeout \in Nat \ {0} /\ Ttl \in Nat /\ MaxTime \in Nat
  BY StartupAssumption

-----------------------------------------------------------------------------
(* The ranking (filter, sort and map in resolveIceServers).                *)

LEMMA PoolFacts ==
  /\ Pool \in Seq(Servers) /\ Len(Pool) \in Nat \ {0} /\ DOMAIN Pool = 1..Len(Pool)
  /\ \A i \in DOMAIN Pool : Pool[i] \in Servers
  /\ \A i, j \in DOMAIN Pool : Pool[i] = Pool[j] => i = j
  /\ \A s \in Servers : \E i \in DOMAIN Pool : s = Pool[i]
  <1>1. Pool \in Seq(Servers)
    BY StartupAssumption DEF Servers
  <1>2. Len(Pool) \in Nat \ {0} /\ DOMAIN Pool = 1..Len(Pool)
    BY <1>1, StartupAssumption
  <1> QED BY <1>1, <1>2, StartupAssumption DEF Servers, Range, IsInjective

LEMMA AnsweredIsFinite ==
  /\ IsFiniteSet(Answered) /\ Cardinality(Answered) \in Nat
  /\ Answered \subseteq 1..Len(Pool) /\ Answered \in SUBSET DOMAIN Pool
  <1>1. Answered \subseteq 1..Len(Pool) /\ Len(Pool) \in Nat
    BY PoolFacts DEF Answered
  <1>2. IsFiniteSet(1..Len(Pool))
    BY <1>1, FS_Interval
  <1> QED BY <1>1, <1>2, FS_Subset, FS_CardinalityType, PoolFacts

(* Of two places that answered, one is ahead of the other, and has fewer   *)
(* ahead of itself.                                                        *)
LEMMA AheadIsStrict ==
  ASSUME ProbeTypes
  PROVE  /\ \A i \in Answered : /\ Ahead(i) \subseteq Answered
                                /\ Cardinality(Ahead(i)) \in 0..(Cardinality(Answered) - 1)
         /\ \A i, j \in Answered : i \in Ahead(j) => Cardinality(Ahead(i)) < Cardinality(Ahead(j))
         /\ \A i, j \in Answered : i # j => i \in Ahead(j) \/ j \in Ahead(i)
  <1>1. \A i \in Answered : i \in Nat /\ probe[Pool[i]].ms \in Nat
    <2>1. \A i \in Answered : i \in Nat /\ Pool[i] \in Servers
      BY AnsweredIsFinite, PoolFacts
    <2> QED BY <2>1, Constants DEF ProbeTypes, Probes
  <1>2. \A i \in Answered : Ahead(i) \subseteq Answered /\ i \notin Ahead(i)
    BY <1>1 DEF Ahead
  <1>3. ASSUME NEW S \in SUBSET Answered, NEW T \in SUBSET S, NEW i \in S, i \notin T
        PROVE  /\ Cardinality(S) \in Nat /\ Cardinality(T) \in Nat
               /\ Cardinality(T) < Cardinality(S)
    <2>1. IsFiniteSet(S) /\ IsFiniteSet(T)
      BY AnsweredIsFinite, FS_Subset
    <2>2. Cardinality(S) \in Nat /\ Cardinality(T) \in Nat
      BY <2>1, FS_CardinalityType
    <2>3. Cardinality(T) <= Cardinality(S) /\ Cardinality(T) # Cardinality(S)
      BY <2>1, <1>3, FS_Subset
    <2> QED BY <2>2, <2>3
  <1>4. ASSUME NEW i \in Answered
        PROVE  Cardinality(Ahead(i)) \in 0..(Cardinality(Answered) - 1)
    <2>1. /\ Cardinality(Ahead(i)) \in Nat /\ Cardinality(Answered) \in Nat
          /\ Cardinality(Ahead(i)) < Cardinality(Answered)
      BY <1>2, <1>3
    <2> QED BY <2>1
  <1>5. ASSUME NEW i \in Answered, NEW j \in Answered, i \in Ahead(j)
        PROVE  Cardinality(Ahead(i)) < Cardinality(Ahead(j))
    <2>1. Ahead(i) \subseteq Ahead(j)
      BY <1>1, <1>5 DEF Ahead
    <2> QED BY <1>2, <1>3, <1>5, <2>1
  <1>6. \A i, j \in Answered : i # j => i \in Ahead(j) \/ j \in Ahead(i)
    BY <1>1 DEF Ahead
  <1> QED BY <1>2, <1>4, <1>5, <1>6

(* Every place that answered has one rank, and every rank one place.       *)
LEMMA RanksArePlaces ==
  ASSUME ProbeTypes
  PROVE  \E place \in [1..Cardinality(Answered) -> Answered] :
           /\ Ranked = [k \in 1..Cardinality(Answered) |-> Pool[place[k]]]
           /\ \A k \in 1..Cardinality(Answered) : Cardinality(Ahead(place[k])) = k - 1
           /\ \A i \in Answered : \E k \in 1..Cardinality(Answered) : place[k] = i
  <1> DEFINE n == Cardinality(Answered)
             rank == [i \in Answered |-> Cardinality(Ahead(i)) + 1]
             place == [k \in 1..n |-> CHOOSE i \in Answered : Cardinality(Ahead(i)) = k - 1]
  <1>1. n \in Nat /\ IsFiniteSet(Answered)
    BY AnsweredIsFinite
  <1>2. \A i \in Answered : Cardinality(Ahead(i)) \in 0..(n - 1)
    BY AheadIsStrict
  <1>3. \A i, j \in Answered : Cardinality(Ahead(i)) = Cardinality(Ahead(j)) => i = j
    <2> SUFFICES ASSUME NEW i \in Answered, NEW j \in Answered, i # j
                 PROVE  Cardinality(Ahead(i)) # Cardinality(Ahead(j))
      OBVIOUS
    <2>1. /\ Cardinality(Ahead(i)) \in Nat /\ Cardinality(Ahead(j)) \in Nat
          /\ Cardinality(Ahead(i)) < Cardinality(Ahead(j)) \/ Cardinality(Ahead(j)) < Cardinality(Ahead(i))
      BY <1>1, <1>2, AheadIsStrict
    <2> QED BY <2>1
  <1>4. rank \in Injection(Answered, 1..n)
    <2>1. \A i \in Answered : rank[i] \in 1..n /\ rank[i] - 1 = Cardinality(Ahead(i))
      BY <1>1, <1>2
    <2>2. rank \in [Answered -> 1..n]
      BY <2>1
    <2> HIDE DEF rank, n
    <2> QED BY <1>3, <2>1, <2>2 DEF Injection, IsInjective
  <1>5. rank \in Surjection(Answered, 1..n)
    <2>1. IsFiniteSet(1..n) /\ Cardinality(1..n) = n
      BY <1>1, FS_Interval
    <2> HIDE DEF rank
    <2> QED BY <1>4, <2>1, FS_Injection
  <1>6. \A k \in 1..n : \E i \in Answered : Cardinality(Ahead(i)) = k - 1
    <2> SUFFICES ASSUME NEW k \in 1..n PROVE \E i \in Answered : Cardinality(Ahead(i)) = k - 1
      OBVIOUS
    <2>1. PICK i \in Answered : rank[i] = k
      <3> HIDE DEF rank, n
      <3> QED BY <1>5 DEF Surjection
    <2>2. Cardinality(Ahead(i)) \in Nat
      BY <1>1, <1>2
    <2> QED BY <2>1, <2>2
  <1>7. /\ place \in [1..n -> Answered]
        /\ \A k \in 1..n : Cardinality(Ahead(place[k])) = k - 1
    BY <1>6
  <1>8. ASSUME NEW i \in Answered
        PROVE  \E k \in 1..n : place[k] = i
    <2>1. /\ Cardinality(Ahead(i)) + 1 \in 1..n
          /\ Cardinality(Ahead(i)) = (Cardinality(Ahead(i)) + 1) - 1
      BY <1>1, <1>2
    <2> HIDE DEF place
    <2>2. Cardinality(Ahead(place[Cardinality(Ahead(i)) + 1])) = Cardinality(Ahead(i))
      BY <1>7, <2>1
    <2> QED BY <1>3, <1>7, <2>1, <2>2
  <1>9. Ranked = [k \in 1..n |-> Pool[place[k]]]
    BY DEF Ranked
  <1> HIDE DEF place, n
  <1> QED BY <1>7, <1>8, <1>9 DEF n

(* The ranking names every server that answered, once, the fastest first.  *)
LEMMA RankedFacts ==
  ASSUME ProbeTypes
  PROVE  /\ Ranked \in Seq(Servers) /\ IsInjective(Ranked)
         /\ \A k \in DOMAIN Ranked : probe[Ranked[k]].ok
         /\ \A s \in Servers : probe[s].ok => \E k \in DOMAIN Ranked : Ranked[k] = s
         /\ \A j, k \in DOMAIN Ranked : j < k => probe[Ranked[j]].ms <= probe[Ranked[k]].ms
  <1> DEFINE n == Cardinality(Answered)
  <1>1. PICK place \in [1..n -> Answered] :
           /\ Ranked = [k \in 1..n |-> Pool[place[k]]]
           /\ \A k \in 1..n : Cardinality(Ahead(place[k])) = k - 1
           /\ \A i \in Answered : \E k \in 1..n : place[k] = i
    BY RanksArePlaces
  <1>2. n \in Nat
    BY AnsweredIsFinite
  <1> HIDE DEF n
  <1>3. \A k \in 1..n : /\ place[k] \in Answered /\ place[k] \in DOMAIN Pool
                        /\ Ranked[k] = Pool[place[k]] /\ Ranked[k] \in Servers
    BY <1>1, AnsweredIsFinite, PoolFacts
  <1>4. Ranked \in Seq(Servers) /\ DOMAIN Ranked = 1..n
    BY <1>1, <1>2, <1>3
  <1>5. \A j, k \in 1..n : Ranked[j] = Ranked[k] => j = k
    <2> SUFFICES ASSUME NEW j \in 1..n, NEW k \in 1..n, Ranked[j] = Ranked[k] PROVE j = k
      OBVIOUS
    <2>1. place[j] = place[k]
      BY <1>3, PoolFacts
    <2>2. j - 1 = k - 1
      BY <1>1, <2>1
    <2> QED BY <1>2, <2>2
  <1>6. \A k \in 1..n : probe[Ranked[k]].ok
    BY <1>3 DEF Answered
  <1>7. ASSUME NEW s \in Servers, probe[s].ok
        PROVE  \E k \in 1..n : Ranked[k] = s
    <2>1. PICK i \in DOMAIN Pool : Pool[i] = s
      BY PoolFacts
    <2>2. i \in Answered
      BY <1>7, <2>1 DEF Answered
    <2> QED BY <1>1, <1>3, <2>1, <2>2
  <1>8. ASSUME NEW j \in 1..n, NEW k \in 1..n, j < k
        PROVE  probe[Ranked[j]].ms <= probe[Ranked[k]].ms
    <2>1. place[j] # place[k] /\ ~(Cardinality(Ahead(place[k])) < Cardinality(Ahead(place[j])))
      BY <1>1, <1>2, <1>8
    <2>2. place[j] \in Ahead(place[k])
      BY <1>3, <2>1, AheadIsStrict
    <2>3. probe[Ranked[j]].ms \in Nat /\ probe[Ranked[k]].ms \in Nat
      BY <1>3, Constants DEF ProbeTypes, Probes
    <2> QED BY <1>3, <2>2, <2>3 DEF Ahead
  <1> QED BY <1>4, <1>5, <1>6, <1>7, <1>8 DEF IsInjective

-----------------------------------------------------------------------------
(* The servers of the connection (the end of resolveIceServers).           *)

Top(ranked) == SubSeq(ranked, 1, IF TopN < Len(ranked) THEN TopN ELSE Len(ranked))

LEMMA TopFacts ==
  ASSUME NEW ranked \in Seq(Servers)
  PROVE  /\ Top(ranked) \in Seq(Servers) /\ Len(Top(ranked)) <= TopN
         /\ Len(Top(ranked)) < TopN => Top(ranked) = ranked
         /\ Len(Top(ranked)) \in Nat /\ DOMAIN ranked \subseteq Nat
         /\ DOMAIN Top(ranked) = {i \in DOMAIN ranked : i <= TopN}
         /\ \A i \in DOMAIN Top(ranked) : Top(ranked)[i] = ranked[i] /\ ranked[i] \in Servers
         /\ Top(ranked) = <<>> <=> ranked = <<>>
  <1>1. /\ TopN \in Nat \ {0} /\ Len(ranked) \in Nat /\ DOMAIN ranked = 1..Len(ranked)
        /\ \A i \in DOMAIN ranked : ranked[i] \in Servers
        /\ Len(ranked) > 0 => ranked # <<>>
    BY Constants
  <1>2. CASE TopN < Len(ranked)
    <2> DEFINE top == SubSeq(ranked, 1, TopN)
    <2>1. \A i \in 1..TopN : i \in 1..Len(ranked)
      BY <1>1, <1>2
    <2>2. /\ top \in Seq(Servers) /\ Len(top) = TopN /\ DOMAIN top = 1..TopN
          /\ \A i \in 1..TopN : top[i] = ranked[i]
      BY <1>1, <1>2
    <2>3. Top(ranked) = top
      BY <1>2 DEF Top
    <2> HIDE DEF top
    <2>4. 1..TopN = {i \in 1..Len(ranked) : i <= TopN}
      BY <1>1, <1>2
    <2>5. top # <<>>
      BY <1>1, <2>2
    <2> QED BY <1>1, <2>2, <2>3, <2>4, <2>5
  <1>3. CASE ~(TopN < Len(ranked))
    <2>1. Top(ranked) = ranked
      BY <1>1, <1>3 DEF Top
    <2> QED BY <1>1, <1>3, <2>1
  <1> QED BY <1>2, <1>3

LEMMA ConnectFacts ==
  ASSUME NEW ranked \in Seq(Servers), Connect(ranked)
  PROVE  /\ chosen' = IF ranked = <<>> THEN Pool ELSE Top(ranked)
         /\ phase' \in {"waiting", "failed"} /\ PageTypes'
  <1>1. chosen' = IF ranked = <<>> THEN Pool ELSE Top(ranked)
    BY TopFacts DEF Connect, Top
  <1>2. chosen' = Pool \/ (chosen' \in Seq(Servers) /\ Len(chosen') <= TopN)
    BY <1>1, TopFacts
  <1> QED BY <1>1, <1>2 DEF Connect, PageTypes

-----------------------------------------------------------------------------
LEMMA InitInv == Init => Inv
  <1> SUFFICES ASSUME Init PROVE Inv
    OBVIOUS
  <1>1. ClockTypes /\ LoaderTypes /\ GivesUpOnBad
    BY Constants DEF Init, ClockTypes, LoaderTypes, GivesUpOnBad, NoResponse
  <1>2. CacheTypes /\ LastRound
    BY DEF Init, CacheTypes, LastRound, Usable, NoCache, IsInjective
  <1>3. PageTypes
    BY Constants DEF Init, PageTypes
  <1>4. ProbeTypes /\ SettledReleased /\ InTime
    BY Constants DEF Init, ProbeTypes, Probes, SettledReleased, AllSettled, InTime
  <1> QED BY <1>1, <1>2, <1>3, <1>4, TypeParts DEF Inv

(* A ranking that is out of date stays so: while the cache is not written, *)
(* what a later clock calls usable was usable before.                      *)
LEMMA AgesOnly ==
  ASSUME ClockTypes, CacheTypes, UNCHANGED cache, now' \in Nat, now <= now', Usable(cache)'
  PROVE  Usable(cache)
  BY Constants DEF ClockTypes, CacheTypes, Usable

(* However a probe ends, it ends with nothing in its hands (finish).       *)
LEMMA FinishInv ==
  ASSUME Inv, NEW s \in Servers, NEW isOk \in BOOLEAN, Finish(s, isOk)
  PROVE  Inv'
  <1> DEFINE p == Finished(s, isOk)
  <1>1. /\ probe' = [probe EXCEPT ![s] = p] /\ ~probe[s].settled
        /\ UNCHANGED <<now, cache, phase, t0, chosen, wasm, resp>>
    BY DEF Finish, loader
  <1>2. phase = "probing" /\ now <= t0 + ProbeTimeout
    BY <1>1 DEF Inv, SettledReleased, AllSettled, InTime
  <1>3. p \in Probes /\ ~p.conn /\ ~p.timer /\ p.settled
    <2>1. now - t0 \in 0..ProbeTimeout /\ 0 \in 0..ProbeTimeout
      BY <1>2, Constants DEF Inv, TypeOK
    <2> QED BY <2>1 DEF Finished, Probes
  <1> HIDE DEF p
  <1>4. ProbeTypes' /\ ProbeTypes
    BY <1>1, <1>3, TypeParts DEF Inv, ProbeTypes
  <1>5. probe'[s] = p /\ \A r \in Servers : r # s => probe'[r] = probe[r]
    BY <1>1, <1>4 DEF ProbeTypes
  <1>6. ClockTypes' /\ CacheTypes' /\ PageTypes' /\ LoaderTypes' /\ GivesUpOnBad'
    BY <1>1, TypeParts DEF Inv, ClockTypes, CacheTypes, PageTypes, LoaderTypes, GivesUpOnBad
  <1>7. SettledReleased'
    BY <1>1, <1>2, <1>3, <1>5 DEF Inv, SettledReleased
  <1>8. InTime'
    BY <1>1, <1>3, <1>5 DEF Inv, InTime
  <1>9. LastRound'
    BY <1>1, <1>2 DEF Inv, LastRound, Usable
  <1> QED BY <1>4, <1>6, <1>7, <1>8, <1>9, TypeParts DEF Inv

LEMMA OpenInv == Inv /\ OpenPage => Inv'
  <1> SUFFICES ASSUME Inv, OpenPage PROVE Inv'
    OBVIOUS
  <1>1. /\ ClockTypes /\ CacheTypes /\ ProbeTypes
        /\ UNCHANGED <<now, cache>> /\ phase = "closed"
    BY TypeParts DEF Inv, OpenPage
  <1>2. LoaderTypes' /\ GivesUpOnBad'
    BY DEF OpenPage, LoaderTypes, GivesUpOnBad, NoResponse
  <1>3. CacheTypes'
    BY <1>1 DEF CacheTypes
  <1>4. CASE Usable(cache)
    <2>1. UNCHANGED <<t0, probe>> /\ Connect(cache.ranked)
      BY <1>4 DEF OpenPage
    <2>2. PageTypes' /\ phase' # "probing"
      BY <1>1, <2>1, ConnectFacts DEF CacheTypes
    <2>3. ClockTypes' /\ ProbeTypes'
      BY <1>1, <2>1 DEF ClockTypes, ProbeTypes
    <2>4. SettledReleased' /\ InTime' /\ LastRound'
      BY <1>1, <2>1, <2>2 DEF Inv, SettledReleased, AllSettled, InTime, LastRound, Usable
    <2> QED BY <1>2, <1>3, <2>2, <2>3, <2>4, TypeParts DEF Inv
  <1>5. CASE ~Usable(cache)
    <2>1. /\ phase' = "probing" /\ chosen' = <<>> /\ t0' = now
      BY <1>5 DEF OpenPage
    <2>2. PICK working \in SUBSET Servers :
            probe' = [s \in Servers |-> NewProbe(s \in working)]
      BY <1>5 DEF OpenPage
    <2>3. \A works \in BOOLEAN :
            /\ NewProbe(works) \in Probes
            /\ NewProbe(works).settled => ~NewProbe(works).conn /\ ~NewProbe(works).timer
            /\ ~NewProbe(works).settled => NewProbe(works).timer
      <3>1. 0 \in 0..ProbeTimeout
        BY Constants
      <3>2. NewProbe(TRUE) \in Probes /\ NewProbe(TRUE).timer /\ ~NewProbe(TRUE).settled
        BY <3>1 DEF NewProbe, Probes
      <3>3. /\ NewProbe(FALSE) \in Probes /\ NewProbe(FALSE).settled
            /\ ~NewProbe(FALSE).conn /\ ~NewProbe(FALSE).timer
        BY <3>1 DEF NewProbe, Probes
      <3> QED BY <3>2, <3>3
    <2>4. ProbeTypes' /\ \A s \in Servers : \E works \in BOOLEAN : probe'[s] = NewProbe(works)
      <3>1. \A s \in Servers : (s \in working) \in BOOLEAN
        OBVIOUS
      <3> QED BY <2>2, <2>3, <3>1 DEF ProbeTypes
    <2>5. PageTypes' /\ ClockTypes'
      BY <1>1, <2>1, Constants DEF PageTypes, ClockTypes
    <2>6. SettledReleased' /\ InTime'
      <3>1. now \in Nat /\ now <= now + ProbeTimeout
        BY <1>1, Constants DEF ClockTypes
      <3> QED BY <1>1, <2>1, <2>3, <2>4, <3>1 DEF SettledReleased, InTime
    <2>7. LastRound'
      BY <1>1, <1>5 DEF LastRound, Usable
    <2> QED BY <1>2, <1>3, <2>4, <2>5, <2>6, <2>7, TypeParts DEF Inv
  <1> QED BY <1>4, <1>5

LEMMA CloseInv == Inv /\ ClosePage => Inv'
  <1> SUFFICES ASSUME Inv, ClosePage PROVE Inv'
    OBVIOUS
  <1>1. /\ ClockTypes /\ CacheTypes /\ ProbeTypes
        /\ UNCHANGED <<now, cache, t0>> /\ phase' = "closed" /\ chosen' = <<>>
        /\ wasm' = "none" /\ resp' = NoResponse
    BY TypeParts DEF Inv, ClosePage
  <1>2. probe' = [s \in Servers |-> [probe[s] EXCEPT !.conn = FALSE, !.timer = FALSE,
                                                     !.settled = TRUE]]
    BY DEF ClosePage
  <1>3. \A s \in Servers :
          /\ probe'[s] \in Probes /\ probe'[s].settled /\ probe'[s].ok = probe[s].ok
          /\ ~probe'[s].conn /\ ~probe'[s].timer
    BY <1>1, <1>2 DEF ProbeTypes, Probes
  <1>4. ProbeTypes'
    BY <1>2, <1>3 DEF ProbeTypes
  <1>5. ClockTypes' /\ CacheTypes' /\ PageTypes' /\ LoaderTypes' /\ GivesUpOnBad'
    BY <1>1, Constants
    DEF ClockTypes, CacheTypes, PageTypes, LoaderTypes, GivesUpOnBad, NoResponse
  <1>6. SettledReleased' /\ InTime'
    BY <1>1, <1>3 DEF SettledReleased, AllSettled, InTime
  <1>7. LastRound'
    <2>1. cache.ranked \in Seq(Servers)
      BY <1>1 DEF CacheTypes
    <2>2. \A i \in DOMAIN cache.ranked : cache.ranked[i] \in Servers
      BY <2>1
    <2> QED BY <1>1, <1>3, <2>2 DEF Inv, LastRound, Usable
  <1> QED BY <1>4, <1>5, <1>6, <1>7, TypeParts DEF Inv

LEMMA ResolveInv == Inv /\ Resolve => Inv'
  <1> SUFFICES ASSUME Inv, Resolve PROVE Inv'
    OBVIOUS
  <1>1. /\ ClockTypes /\ CacheTypes /\ ProbeTypes /\ LoaderTypes
        /\ UNCHANGED <<now, t0, probe, wasm, resp>>
        /\ phase = "probing" /\ AllSettled /\ Connect(Ranked)
        /\ cache' \in {cache, [ranked |-> Ranked, ts |-> now]}
    BY TypeParts DEF Inv, Resolve, loader
  <1>2. PageTypes' /\ phase' # "probing"
    BY <1>1, RankedFacts, ConnectFacts
  <1>3. ClockTypes' /\ ProbeTypes' /\ LoaderTypes' /\ GivesUpOnBad'
    BY <1>1 DEF Inv, ClockTypes, ProbeTypes, LoaderTypes, GivesUpOnBad
  <1>4. SettledReleased' /\ InTime'
    BY <1>1, <1>2 DEF Inv, SettledReleased, AllSettled, InTime
  <1>5. CASE cache' = cache
    BY <1>1, <1>2, <1>3, <1>4, <1>5, TypeParts DEF Inv, CacheTypes, LastRound, Usable
  <1>6. CASE cache' = [ranked |-> Ranked, ts |-> now]
    <2>1. cache'.ranked = Ranked /\ cache'.ts = now
      BY <1>6
    <2>2. CacheTypes'
      BY <1>1, <2>1, RankedFacts DEF CacheTypes, ClockTypes
    <2>3. LastRound'
      BY <1>1, <1>2, <2>1, RankedFacts DEF Inv, InTime, LastRound
    <2> QED BY <1>2, <1>3, <1>4, <2>2, <2>3, TypeParts DEF Inv
  <1> QED BY <1>1, <1>5, <1>6

LEMMA TickInv == Inv /\ Tick => Inv'
  <1> SUFFICES ASSUME Inv, Tick PROVE Inv'
    OBVIOUS
  <1>1. /\ ClockTypes /\ CacheTypes /\ UNCHANGED <<cache, phase, t0, probe, chosen, wasm, resp>>
        /\ now < MaxTime /\ now' = now + 1
    BY TypeParts DEF Inv, Tick, tab, loader
  <1>2. ProbeTypes' /\ PageTypes' /\ LoaderTypes' /\ GivesUpOnBad' /\ SettledReleased'
    BY <1>1, TypeParts
    DEF Inv, ProbeTypes, PageTypes, LoaderTypes, GivesUpOnBad, SettledReleased, AllSettled
  <1>3. ClockTypes' /\ CacheTypes'
    BY <1>1, Constants DEF ClockTypes, CacheTypes
  <1>4. InTime'
    <2>1. \A s \in Servers : ~probe[s].settled => probe[s].timer /\ now < t0 + ProbeTimeout
      BY DEF Inv, InTime, Tick
    <2>2. phase = "probing" => now < t0 + ProbeTimeout
      BY <2>1 DEF Tick, AllSettled
    <2>3. now < t0 + ProbeTimeout => now + 1 <= t0 + ProbeTimeout
      BY <1>1, Constants DEF ClockTypes
    <2> QED BY <1>1, <2>1, <2>2, <2>3 DEF InTime
  <1>5. LastRound'
    <2>1. Usable(cache)' => Usable(cache)
      BY <1>1, AgesOnly DEF ClockTypes
    <2> QED BY <1>1, <2>1 DEF Inv, LastRound
  <1> QED BY <1>2, <1>3, <1>4, <1>5, TypeParts DEF Inv

(* Steps of the loader leave the page's own variables alone.               *)
LEMMA LoaderInv ==
  ASSUME Inv, UNCHANGED <<now, cache, tab>>, LoaderTypes', GivesUpOnBad'
  PROVE  Inv'
  <1>1. UNCHANGED <<now, cache, phase, t0, probe, chosen>>
    BY DEF tab
  <1>2. ClockTypes' /\ CacheTypes' /\ ProbeTypes' /\ PageTypes'
    BY <1>1, TypeParts DEF Inv, ClockTypes, CacheTypes, ProbeTypes, PageTypes
  <1>3. SettledReleased' /\ InTime' /\ LastRound'
    BY <1>1 DEF Inv, SettledReleased, AllSettled, InTime, LastRound, Usable
  <1> QED BY <1>2, <1>3, TypeParts DEF Inv

LEMMA NextInv == Inv /\ [Next]_vars => Inv'
  <1> SUFFICES ASSUME Inv, [Next]_vars PROVE Inv'
    OBVIOUS
  <1>1. CASE OpenPage
    BY <1>1, OpenInv
  <1>2. CASE ClosePage
    BY <1>2, CloseInv
  <1>3. CASE Resolve
    BY <1>3, ResolveInv
  <1>4. CASE Start
    <2>1. /\ UNCHANGED <<now, cache, t0, probe, chosen, wasm, resp>>
          /\ phase # "probing" /\ phase' \in {"up", "failed"}
      BY <1>4 DEF Start, loader
    <2>2. ClockTypes' /\ CacheTypes' /\ ProbeTypes' /\ PageTypes' /\ LoaderTypes'
      BY <2>1, TypeParts DEF Inv, ClockTypes, CacheTypes, ProbeTypes, PageTypes, LoaderTypes
    <2>3. SettledReleased' /\ InTime' /\ LastRound' /\ GivesUpOnBad'
      BY <2>1 DEF Inv, SettledReleased, AllSettled, InTime, LastRound, Usable, GivesUpOnBad
    <2> QED BY <2>2, <2>3, TypeParts DEF Inv
  <1>5. CASE Tick
    BY <1>5, TickInv
  <1>6. CASE Fetched
    <2>1. LoaderTypes' /\ GivesUpOnBad'
      <3>1. CASE wasm' = "rejected" /\ UNCHANGED resp
        BY <1>6, <3>1, TypeParts DEF Fetched, Inv, LoaderTypes, GivesUpOnBad, NoResponse
      <3>2. ASSUME NEW host \in {"serve.mjs", "other"}, NEW streaming \in BOOLEAN,
                   NEW r \in Responses(host), resp' = r,
                   wasm' = IF ~r.ok THEN "rejected"
                           ELSE IF streaming THEN "streaming" ELSE "buffering"
            PROVE  LoaderTypes' /\ GivesUpOnBad'
        <4>1. r \in [ok : BOOLEAN, mime : {"application/wasm", "other", "none"}, good : BOOLEAN]
          <5>1. CASE host = "serve.mjs"
            <6>1. \/ r = [ok |-> TRUE, mime |-> "application/wasm", good |-> TRUE]
                  \/ r = [ok |-> FALSE, mime |-> "none", good |-> FALSE]
              BY <5>1 DEF Responses, Static
            <6>2. /\ "application/wasm" \in {"application/wasm", "other", "none"}
                  /\ "none" \in {"application/wasm", "other", "none"}
              OBVIOUS
            <6>3. CASE r = [ok |-> TRUE, mime |-> "application/wasm", good |-> TRUE]
              BY <6>2, <6>3
            <6>4. CASE r = [ok |-> FALSE, mime |-> "none", good |-> FALSE]
              BY <6>2, <6>4
            <6> QED BY <6>1, <6>3, <6>4
          <5>2. CASE host = "other"
            BY <5>2 DEF Responses
          <5> QED BY <5>1, <5>2
        <4> QED BY <3>2, <4>1 DEF LoaderTypes, GivesUpOnBad
      <3> QED BY <1>6, <3>1, <3>2 DEF Fetched
    <2> QED BY <1>6, <2>1, LoaderInv DEF Fetched
  <1>7. CASE Streamed \/ Buffered
    <2>1. LoaderTypes' /\ GivesUpOnBad'
      BY <1>7, TypeParts DEF Streamed, Buffered, AfterStreaming, Inv, LoaderTypes, GivesUpOnBad
    <2> QED BY <1>7, <2>1, LoaderInv DEF Streamed, Buffered
  <1>8. ASSUME NEW s \in Servers, Answer(s) \/ OfferFails(s) \/ Timeout(s)
        PROVE  Inv'
    BY <1>8, FinishInv DEF Answer, OfferFails, Timeout
  <1>9. CASE UNCHANGED vars
    <2>1. UNCHANGED <<now, cache, phase, t0, probe, chosen, wasm, resp>>
      BY <1>9 DEF vars, tab, loader
    <2> QED BY <2>1 DEF Inv, TypeOK, SettledReleased, AllSettled, InTime, LastRound, Usable,
                        GivesUpOnBad
  <1> QED BY <1>1, <1>2, <1>3, <1>4, <1>5, <1>6, <1>7, <1>8, <1>9 DEF Next

LEMMA Invariance == Spec => []Inv
  BY InitInv, NextInv, PTL DEF Spec

-----------------------------------------------------------------------------
(* Every variable keeps its type, the ranking kept names no server twice   *)
(* and the connection gets no more servers than it should (chat.js).       *)
THEOREM TypeCorrect == Spec => []TypeOK
  <1>1. Inv => TypeOK
    BY DEF Inv
  <1> QED BY <1>1, Invariance, PTL

(* Once the servers are known no probe holds a connection or a timer,      *)
(* however many servers there are and however their answers, timers and    *)
(* failures raced (probeStun).                                             *)
THEOREM NothingLeftBehind == Spec => []ProbesReleased
  <1>1. Inv => ProbesReleased
    BY DEF Inv, SettledReleased, AllSettled, ProbesReleased
  <1> QED BY <1>1, Invariance, PTL

(* The loader gives up on a module only if none arrived whole, whatever    *)
(* the host says it is (__wbg_load).                                       *)
THEOREM GoodModuleLoads == Spec => []LoadedWhateverType
  <1>1. Inv => LoadedWhateverType
    BY DEF Inv, GivesUpOnBad, LoadedWhateverType
  <1> QED BY <1>1, Invariance, PTL

(* Only two steps give the connection its servers.                         *)
LEMMA ChoosingSteps ==
  ASSUME [Next]_vars, chosen' \notin {chosen, <<>>}
  PROVE  \/ Resolve
         \/ OpenPage /\ Usable(cache) /\ Connect(cache.ranked) /\ UNCHANGED <<now, t0, probe>>
  <1>1. CASE OpenPage
    BY <1>1 DEF OpenPage
  <1>2. ~(ClosePage \/ Start \/ Tick \/ Fetched \/ Streamed \/ Buffered)
    BY DEF ClosePage, Start, Tick, Fetched, Streamed, Buffered, tab
  <1>3. \A s \in Servers : ~(Answer(s) \/ OfferFails(s) \/ Timeout(s))
    BY DEF Answer, OfferFails, Timeout, Finish
  <1>4. ~UNCHANGED vars
    BY DEF vars, tab
  <1> QED BY <1>1, <1>2, <1>3, <1>4 DEF Next

(* Whichever servers the connection gets, from a live round or the cache,  *)
(* have answered a probe within the lifetime of a ranking and of a probe,  *)
(* or they are the whole pool and nobody answered (resolveIceServers).     *)
THEOREM AlwaysJustified == Spec => ServersJustified
  <1>1. ASSUME Inv, [Next]_vars, chosen' \notin {chosen, <<>>}
        PROVE  (chosen' = Pool /\ NobodyAnswered) \/ Fresh(chosen')
    <2>1. ClockTypes /\ CacheTypes /\ ProbeTypes
      BY <1>1, TypeParts DEF Inv
    <2>2. ASSUME NEW ranked \in Seq(Servers), chosen' = Top(ranked), UNCHANGED <<now, t0, probe>>,
                 \A i \in DOMAIN ranked : probe[ranked[i]].ok,
                 now <= t0 + ProbeTimeout + Ttl
          PROVE  Fresh(chosen')
      <3>1. \A i \in DOMAIN Top(ranked) : /\ Top(ranked)[i] \in Servers
                                          /\ probe[Top(ranked)[i]].ok
        BY <2>2, TopFacts
      <3>2. \A s \in Servers : probe[s].ms \in Nat
        BY <2>1, Constants DEF ProbeTypes, Probes
      <3>3. \A s \in Servers : now <= t0 + probe[s].ms + ProbeTimeout + Ttl
        BY <2>1, <2>2, <3>2, Constants DEF ClockTypes
      <3> QED BY <2>2, <3>1, <3>3 DEF Fresh
    <2>3. CASE Resolve
      <3>1. /\ phase = "probing" /\ Connect(Ranked) /\ UNCHANGED <<now, t0, probe>>
            /\ now <= t0 + ProbeTimeout
        BY <1>1, <2>3 DEF Resolve, Inv, InTime
      <3>2. chosen' = IF Ranked = <<>> THEN Pool ELSE Top(Ranked)
        BY <2>1, <3>1, RankedFacts, ConnectFacts
      <3>3. CASE Ranked = <<>>
        BY <2>1, <3>1, <3>2, <3>3, RankedFacts DEF NobodyAnswered
      <3>4. CASE Ranked # <<>>
        <4>1. now <= t0 + ProbeTimeout + Ttl
          BY <2>1, <3>1, Constants DEF ClockTypes
        <4> QED BY <2>1, <2>2, <3>1, <3>2, <3>4, <4>1, RankedFacts
      <3> QED BY <3>3, <3>4
    <2>4. CASE OpenPage /\ Usable(cache) /\ Connect(cache.ranked) /\ UNCHANGED <<now, t0, probe>>
      <3>1. /\ cache.ranked \in Seq(Servers) /\ cache.ranked # <<>>
            /\ \A i \in DOMAIN cache.ranked : probe[cache.ranked[i]].ok
            /\ cache.ts <= t0 + ProbeTimeout /\ now - cache.ts <= Ttl
        BY <1>1, <2>1, <2>4 DEF Inv, LastRound, Usable, CacheTypes
      <3>2. chosen' = Top(cache.ranked)
        BY <2>4, <3>1, ConnectFacts
      <3>3. now <= t0 + ProbeTimeout + Ttl
        BY <2>1, <3>1, Constants DEF ClockTypes, CacheTypes
      <3> QED BY <2>2, <2>4, <3>1, <3>2, <3>3
    <2> QED BY <1>1, <2>3, <2>4, ChoosingSteps
  <1> QED BY <1>1, Invariance, PTL DEF Spec, ServersJustified

(* A live round keeps the fastest: a server that answered is left out only *)
(* for as many as may be taken, none of which was slower.                  *)
THEOREM FastestFirst == Spec => FastestKept
  <1>1. ASSUME Inv, Resolve, chosen' # Pool, NEW s \in Servers \ Range(chosen'), probe[s].ok
        PROVE  /\ Len(chosen') = TopN
               /\ \A i \in DOMAIN chosen' : probe[chosen'[i]].ms <= probe[s].ms
    <2>1. ProbeTypes /\ Connect(Ranked)
      BY <1>1, TypeParts DEF Inv, Resolve
    <2>2. Ranked \in Seq(Servers) /\ chosen' = Top(Ranked)
      BY <1>1, <2>1, RankedFacts, ConnectFacts
    <2>3. PICK k \in DOMAIN Ranked : Ranked[k] = s
      BY <1>1, <2>1, RankedFacts
    <2>4. k \notin DOMAIN Top(Ranked)
      BY <1>1, <2>2, <2>3, TopFacts DEF Range
    <2>5. k \in Nat /\ TopN \in Nat /\ ~(k <= TopN) /\ Len(Top(Ranked)) \in Nat
      BY <2>2, <2>3, <2>4, TopFacts, Constants
    <2>6. Len(Top(Ranked)) = TopN
      <3>1. CASE Len(Top(Ranked)) < TopN
        BY <2>2, <2>3, <2>4, <3>1, TopFacts
      <3>2. Len(Top(Ranked)) <= TopN
        BY <2>2, TopFacts
      <3> QED BY <2>5, <3>1, <3>2
    <2>7. \A i \in DOMAIN Top(Ranked) : /\ i \in DOMAIN Ranked /\ i < k
                                        /\ Top(Ranked)[i] = Ranked[i]
      <3>1. \A i \in DOMAIN Top(Ranked) : /\ i \in DOMAIN Ranked /\ i <= TopN /\ i \in Nat
                                          /\ Top(Ranked)[i] = Ranked[i]
        BY <2>2, TopFacts
      <3> QED BY <2>5, <3>1
    <2> QED BY <2>1, <2>2, <2>3, <2>6, <2>7, RankedFacts
  <1>2. Inv /\ [Next]_vars =>
          (Resolve /\ chosen' # Pool =>
             \A s \in Servers \ Range(chosen') : probe[s].ok =>
               /\ Len(chosen') = TopN
               /\ \A i \in DOMAIN chosen' : probe[chosen'[i]].ms <= probe[s].ms)
    BY <1>1
  <1> QED BY <1>2, Invariance, PTL DEF Spec, FastestKept

-----------------------------------------------------------------------------
(* Signaling by hand: what a link keeps of a description (packSdp and      *)
(* unpackSdp).                                                             *)

(* The k-th of a finite set of numbers is there for each k up to their     *)
(* count, and they come in order, each once.                               *)
LEMMA NthPlaces ==
  ASSUME NEW places \in SUBSET Nat, IsFiniteSet(places)
  PROVE  /\ Cardinality(places) \in Nat
         /\ \A k \in 1..Cardinality(places) : Nth(places, k) \in places
         /\ \A j, k \in 1..Cardinality(places) : j < k => Nth(places, j) < Nth(places, k)
         /\ \A i \in places : \E k \in 1..Cardinality(places) : Nth(places, k) = i
  <1> DEFINE n == Cardinality(places)
             below(i) == {j \in places : j < i}
             rank == [i \in places |-> Cardinality(below(i)) + 1]
  <1>1. n \in Nat
    BY FS_CardinalityType
  <1>2. \A i \in places : Cardinality(below(i)) \in 0..(n - 1)
    <2> SUFFICES ASSUME NEW i \in places PROVE Cardinality(below(i)) \in 0..(n - 1)
      OBVIOUS
    <2>1. below(i) \subseteq places /\ below(i) # places
      OBVIOUS
    <2> HIDE DEF below
    <2>2. IsFiniteSet(below(i)) /\ Cardinality(below(i)) <= n /\ Cardinality(below(i)) # n
      BY <2>1, FS_Subset
    <2>3. Cardinality(below(i)) \in Nat
      BY <2>2, FS_CardinalityType
    <2> QED BY <1>1, <2>2, <2>3
  <1>3. \A i, j \in places : i < j => Cardinality(below(i)) < Cardinality(below(j))
    <2> SUFFICES ASSUME NEW i \in places, NEW j \in places, i < j
                 PROVE  Cardinality(below(i)) < Cardinality(below(j))
      OBVIOUS
    <2>1. below(i) \subseteq below(j) /\ below(i) # below(j) /\ below(j) \subseteq places
      <3>1. \A h \in places : h \in Nat
        OBVIOUS
      <3>2. \A h \in places : h < i => h < j
        BY <3>1
      <3>3. ~(i < i)
        BY <3>1
      <3>4. i \in below(j) /\ i \notin below(i)
        BY <3>3
      <3> QED BY <3>2, <3>4
    <2> HIDE DEF below
    <2>2. IsFiniteSet(below(j))
      BY <2>1, FS_Subset
    <2>3. /\ Cardinality(below(i)) <= Cardinality(below(j))
          /\ Cardinality(below(i)) # Cardinality(below(j))
      BY <2>1, <2>2, FS_Subset
    <2> QED BY <1>1, <1>2, <2>3
  <1>4. rank \in Injection(places, 1..n)
    <2>1. \A i \in places : rank[i] \in 1..n /\ rank[i] - 1 = Cardinality(below(i))
      BY <1>1, <1>2
    <2>2. rank \in [places -> 1..n]
      BY <2>1
    <2> HIDE DEF rank, n, below
    <2>3. \A i, j \in places : i # j => i < j \/ j < i
      OBVIOUS
    <2>4. \A i, j \in places : rank[i] = rank[j] => i = j
      <3> SUFFICES ASSUME NEW i \in places, NEW j \in places, rank[i] = rank[j], i # j PROVE FALSE
        OBVIOUS
      <3>1. Cardinality(below(i)) = Cardinality(below(j)) /\ Cardinality(below(i)) \in Nat
        BY <2>1, <1>2
      <3> QED BY <3>1, <2>3, <1>3
    <2> QED BY <2>2, <2>4 DEF Injection, IsInjective
  <1>5. rank \in Surjection(places, 1..n)
    <2>1. IsFiniteSet(1..n) /\ Cardinality(1..n) = n
      BY <1>1, FS_Interval
    <2> HIDE DEF rank
    <2> QED BY <1>4, <2>1, FS_Injection
  <1>6. \A i \in places : rank[i] = Cardinality(below(i)) + 1 /\ rank[i] \in 1..n
    BY <1>1, <1>2
  <1>7. \A k \in 1..n : \E i \in places : Cardinality(below(i)) = k - 1
    <2> SUFFICES ASSUME NEW k \in 1..n PROVE \E i \in places : Cardinality(below(i)) = k - 1
      OBVIOUS
    <2> HIDE DEF rank, n, below
    <2>1. PICK i \in places : rank[i] = k
      BY <1>5 DEF Surjection
    <2>2. Cardinality(below(i)) \in Nat
      BY <1>1, <1>2
    <2> QED BY <2>1, <2>2, <1>6
  <1>8. \A k \in 1..n : Nth(places, k) \in places /\ Cardinality(below(Nth(places, k))) = k - 1
    BY <1>7 DEF Nth
  <1> HIDE DEF rank, n, below
  <1>9. ASSUME NEW j \in 1..n, NEW k \in 1..n, j < k
        PROVE  Nth(places, j) < Nth(places, k)
    <2> DEFINE x == Nth(places, j)
               y == Nth(places, k)
    <2>1. /\ x \in places /\ y \in places
          /\ Cardinality(below(x)) = j - 1 /\ Cardinality(below(y)) = k - 1
      BY <1>8
    <2> HIDE DEF x, y
    <2>2. x \in Nat /\ y \in Nat /\ j - 1 < k - 1
      BY <1>1, <1>9, <2>1
    <2>3. x # y
      BY <1>1, <1>9, <2>1, <2>2
    <2>4. ~(y < x)
      BY <1>3, <2>1, <2>2
    <2>5. x < y
      BY <2>2, <2>3, <2>4
    <2> QED BY <2>5 DEF x, y
  <1>10. ASSUME NEW i \in places PROVE \E k \in 1..n : Nth(places, k) = i
    <2> DEFINE k == rank[i]
               y == Nth(places, k)
    <2>1. k \in 1..n /\ Cardinality(below(i)) = k - 1
      BY <1>1, <1>2, <1>6
    <2>2. y \in places /\ Cardinality(below(y)) = k - 1
      BY <1>8, <2>1
    <2> HIDE DEF k, y
    <2>3. i = y
      <3>1. i \in Nat /\ y \in Nat /\ Cardinality(below(i)) \in Nat
        BY <1>2, <1>1, <2>2
      <3> QED BY <1>3, <2>1, <2>2, <3>1
    <2> QED BY <2>1, <2>3 DEF y
  <1> QED BY <1>1, <1>8, <1>9, <1>10 DEF n

(* A list of candidates without those that are not UDP.                    *)
LEMMA MatchAllFacts ==
  ASSUME NEW cs \in Seq(Candidate)
  PROVE  /\ DOMAIN MatchAll(cs) = 1..Cardinality(Udp(cs)) /\ Cardinality(Udp(cs)) \in Nat
         /\ \A k \in DOMAIN MatchAll(cs) :
              /\ Nth(Udp(cs), k) \in DOMAIN cs
              /\ MatchAll(cs)[k] = cs[Nth(Udp(cs), k)]
              /\ MatchAll(cs)[k] \in Candidate /\ MatchAll(cs)[k].proto = "udp"
         /\ UdpOf(MatchAll(cs), cs)
  <1> DEFINE U == Udp(cs)
             n == Cardinality(U)
             place == [k \in 1..n |-> Nth(U, k)]
  <1>1. U \in SUBSET Nat /\ IsFiniteSet(U)
    <2>1. Len(cs) \in Nat /\ DOMAIN cs = 1..Len(cs)
      OBVIOUS
    <2>2. U \subseteq 1..Len(cs)
      BY <2>1 DEF Udp
    <2>3. IsFiniteSet(1..Len(cs))
      BY <2>1, FS_Interval
    <2>4. IsFiniteSet(U)
      BY <2>2, <2>3, FS_Subset
    <2>5. 1..Len(cs) \subseteq Nat
      BY <2>1
    <2> HIDE DEF U
    <2> QED BY <2>2, <2>4, <2>5
  <1>2. /\ n \in Nat
        /\ \A k \in 1..n : Nth(U, k) \in U
        /\ \A j, k \in 1..n : j < k => Nth(U, j) < Nth(U, k)
        /\ \A i \in U : \E k \in 1..n : Nth(U, k) = i
    <2> HIDE DEF U
    <2> QED BY <1>1, NthPlaces
  <1>3. MatchAll(cs) = [k \in 1..n |-> cs[Nth(U, k)]]
    BY DEF MatchAll
  <1>4. \A i \in U : i \in DOMAIN cs /\ cs[i] \in Candidate /\ cs[i].proto = "udp"
    BY DEF Udp
  <1>5. place \in [1..n -> U] /\ \A k \in 1..n : place[k] = Nth(U, k)
    BY <1>2
  <1> HIDE DEF n, place
  <1>6. UdpOf(MatchAll(cs), cs)
    <2>1. DOMAIN MatchAll(cs) = 1..n
      BY <1>3
    <2>2. /\ \A j, k \in DOMAIN MatchAll(cs) : j < k => place[j] < place[k]
          /\ \A i \in Udp(cs) : \E k \in DOMAIN MatchAll(cs) : place[k] = i
          /\ \A k \in DOMAIN MatchAll(cs) : MatchAll(cs)[k] = cs[place[k]]
      BY <1>2, <1>3, <1>5, <2>1
    <2>3. place \in [DOMAIN MatchAll(cs) -> Udp(cs)]
      BY <1>5, <2>1
    <2> HIDE DEF U
    <2> QED BY <2>2, <2>3 DEF UdpOf
  <1> QED BY <1>2, <1>3, <1>4, <1>6 DEF n

(* expand() restores the type that packing cut to a letter, or left out.   *)
LEMMA ExpandPacked ==
  ASSUME NEW c \in Candidate, c.proto = "udp"
  PROVE  Expand(PackedCandidate(c)) = c
  <1>1. /\ c = [proto |-> c.proto, typ |-> c.typ, at |-> c.at]
        /\ c.typ \in {"host", "srflx", "relay"}
    BY DEF Candidate
  <1>2. CASE c.typ = "host"
    <2>1. PackedCandidate(c) = [at |-> c.at]
      BY <1>2 DEF PackedCandidate
    <2>2. Expand(PackedCandidate(c)) = [proto |-> "udp", at |-> c.at, typ |-> "host"]
      BY <2>1 DEF Expand
    <2> QED BY <1>1, <1>2, <2>2
  <1>3. CASE c.typ # "host"
    <2>1. PackedCandidate(c) = [at |-> c.at, typ |-> Letter[c.typ]]
      BY <1>3 DEF PackedCandidate
    <2>2. (CHOOSE t \in DOMAIN Letter : Letter[t] = Letter[c.typ]) = c.typ
      BY <1>1 DEF Letter
    <2>3. Expand(PackedCandidate(c)) = [proto |-> "udp", at |-> c.at, typ |-> c.typ]
      <3> DEFINE p == [at |-> c.at, typ |-> Letter[c.typ]]
      <3>1. "typ" \in DOMAIN p /\ p.typ = Letter[c.typ] /\ p.at = c.at
        OBVIOUS
      <3> HIDE DEF p
      <3>2. Expand(p) = [proto |-> "udp", at |-> c.at, typ |-> c.typ]
        BY <2>2, <3>1 DEF Expand
      <3> QED BY <2>1, <3>2 DEF p
    <2> QED BY <1>1, <2>3
  <1> QED BY <1>2, <1>3

(* A description made by a page, packed and unpacked.                      *)
Made(p, load, gathered) ==
  [type |-> IF p = offerer THEN "offer" ELSE "answer",
   setup |-> IF p = offerer THEN "actpass" ELSE "active",
   creds |-> [page |-> p, load |-> load],
   cands |-> gathered]

LEMMA DescriptionIsMade ==
  ASSUME NEW p, NEW gathered
  PROVE  Description(p, gathered) = Made(p, loads[p], gathered)
  BY DEF Description, Made

LEMMA UnpackPacked ==
  ASSUME NEW p, NEW load, NEW cs \in Seq(Candidate)
  PROVE  LET d == Made(p, load, cs)
             unpacked == UnpackSdp(PackSdp(d))
         IN /\ unpacked.type = d.type /\ unpacked.setup = d.setup
            /\ unpacked.creds = d.creds
            /\ unpacked.cands = MatchAll(cs)
  <1> DEFINE d == Made(p, load, cs)
             k == PackSdp(d)
             unpacked == UnpackSdp(k)
             udp == MatchAll(cs)
  <1>1. /\ d.type = IF p = offerer THEN "offer" ELSE "answer"
        /\ d.setup = IF p = offerer THEN "actpass" ELSE "active"
        /\ d.cands = cs
    BY DEF Made
  <1> HIDE DEF d
  <1>2. /\ k.t = IF d.type = "offer" THEN "o" ELSE "a"
        /\ k.su = CASE d.setup = "actpass" -> "A" [] d.setup = "active" -> "a" [] OTHER -> "p"
        /\ k.creds = d.creds
        /\ k.cands = [i \in DOMAIN udp |-> PackedCandidate(udp[i])]
    BY <1>1 DEF PackSdp
  <1> HIDE DEF k
  <1>3. /\ unpacked.type = IF k.t = "o" THEN "offer" ELSE "answer"
        /\ unpacked.setup = CASE k.su = "A" -> "actpass" [] k.su = "a" -> "active" [] OTHER -> "passive"
        /\ unpacked.creds = k.creds
        /\ unpacked.cands = [i \in DOMAIN k.cands |-> Expand(k.cands[i])]
    BY DEF UnpackSdp
  <1> HIDE DEF unpacked
  <1>4. unpacked.type = d.type /\ unpacked.setup = d.setup /\ unpacked.creds = d.creds
    <2>1. unpacked.type = d.type
      BY <1>1, <1>2, <1>3
    <2>2. CASE p = offerer
      <3>1. k.su = "A"
        BY <1>1, <1>2, <2>2
      <3> QED BY <1>1, <1>2, <1>3, <2>1, <2>2, <3>1
    <2>3. CASE p # offerer
      <3>1. k.su = "a"
        BY <1>1, <1>2, <2>3
      <3> QED BY <1>1, <1>2, <1>3, <2>1, <2>3, <3>1
    <2> QED BY <2>2, <2>3
  <1>5. unpacked.cands = udp
    <2>1. \A i \in DOMAIN udp : Expand(PackedCandidate(udp[i])) = udp[i]
      BY MatchAllFacts, ExpandPacked
    <2>2. udp = [i \in DOMAIN udp |-> udp[i]]
      BY DEF MatchAll
    <2> HIDE DEF udp
    <2>3. DOMAIN k.cands = DOMAIN udp
      BY <1>2
    <2>4. unpacked.cands = [i \in DOMAIN udp |-> Expand(PackedCandidate(udp[i]))]
      BY <1>2, <1>3, <2>3
    <2> QED BY <2>1, <2>2, <2>4
  <1> QED BY <1>4, <1>5 DEF unpacked, d, k

-----------------------------------------------------------------------------
(* What holds of the links that were shown.                                *)

(* What a page may have gathered.                                          *)
Gatherings(p) ==
  {<<>>, <<Host(p), HostTcp(p)>>, <<Host(p), HostTcp(p), Public(p)>>}
Gathered == \A p \in Pages : cands[p] \in Gatherings(p)

(* A link was packed by a load of its page, from what that had gathered;   *)
(* the current load has shown its own link and warns by it.                *)
MadeBy(l, p, load, gathered) ==
  /\ l = Link(p, Made(p, load, gathered))
  /\ load = loads[p] => at[p] = "shown" /\ (warned[p] <=> ~HasPublicCandidate(gathered))
LinksMade ==
  \A l \in links : \E p \in Pages : \E load \in 0..loads[p], gathered \in Gatherings(p) :
    MadeBy(l, p, load, gathered)

(* An answerer's page began with an offer.                                 *)
AnswersOffer == at[answerer] # "closed" => remote[answerer] # NoLink

LinkInv == LinkTypeOK /\ Gathered /\ LinksMade /\ AnswersOffer

(* LinkTypeOK in its two parts.                                            *)
LinkTypes ==
  /\ sameLan \in BOOLEAN
  /\ loads \in [Pages -> 0..MaxLoads]
  /\ at \in [Pages -> {"closed", "negotiating", "described", "waiting", "shown"}]
  /\ gathering \in [Pages -> {"new", "gathering", "complete"}]
  /\ cands \in [Pages -> Seq(Candidate)]
  /\ warned \in [Pages -> BOOLEAN]
RemoteTypes ==
  /\ remote \in [Pages -> links \cup {NoLink}]
  /\ chat \in [Pages -> {<<>>, <<1, 2>>, <<2, 1>>}]
  /\ \A p \in Pages :
       /\ remote[p] # NoLink => remote[p].from.creds.page # p
       /\ chat[p] # <<>> => remote[p] # NoLink

LEMMA LinkTypeParts ==
  /\ LinkTypeOK <=> LinkTypes /\ RemoteTypes
  /\ LinkTypeOK' <=> LinkTypes' /\ RemoteTypes'
  BY DEF LinkTypeOK, LinkTypes, RemoteTypes

LEMMA LinkFields ==
  ASSUME NEW p, NEW load, NEW cs, NEW l, l = Link(p, Made(p, load, cs))
  PROVE  /\ l.key = IF p = offerer THEN "offer" ELSE "answer"
         /\ l.from = Made(p, load, cs) /\ l.hash = PackSdp(l.from)
         /\ l.from.cands = cs
         /\ l.from.creds.page = p /\ l.from.creds.load = load
         /\ l.hash.creds = [page |-> p, load |-> load]
  <1> DEFINE d == Made(p, load, cs)
  <1>1. /\ d.creds = [page |-> p, load |-> load]
        /\ d.creds.page = p /\ d.creds.load = load /\ d.cands = cs
    BY DEF Made
  <1> HIDE DEF d
  <1>2. PackSdp(d).creds = d.creds
    BY DEF PackSdp
  <1> DEFINE k == PackSdp(d)
  <1> HIDE DEF k
  <1>3. /\ l.key = IF p = offerer THEN "offer" ELSE "answer"
        /\ l.from = d /\ l.hash = k
    BY DEF Link, d, k
  <1> QED BY <1>1, <1>2, <1>3 DEF d, k

LEMMA GatheringsTyped ==
  ASSUME NEW p \in Pages, NEW g \in Gatherings(p)
  PROVE  /\ g \in Seq(Candidate)
         /\ \A i \in DOMAIN g : g[i].typ = "srflx" => g[i].proto = "udp"
  <1>1. /\ Host(p) \in Candidate /\ HostTcp(p) \in Candidate /\ Public(p) \in Candidate
        /\ Host(p).typ = "host" /\ HostTcp(p).typ = "host" /\ Public(p).proto = "udp"
    BY DEF Candidate, Host, HostTcp, Public
  <1> DEFINE H == Host(p)
             T == HostTcp(p)
             P == Public(p)
  <1> HIDE DEF H, T, P
  <1>2. g = <<>> \/ g = <<H, T>> \/ g = <<H, T, P>>
    BY DEF Gatherings, H, T, P
  <1>3. /\ H \in Candidate /\ T \in Candidate /\ P \in Candidate
        /\ H.typ = "host" /\ T.typ = "host" /\ P.proto = "udp"
    BY <1>1 DEF H, T, P
  <1>4. CASE g = <<>>
    BY <1>4
  <1>5. CASE g = <<H, T>>
    BY <1>3, <1>5
  <1>6. CASE g = <<H, T, P>>
    BY <1>3, <1>6
  <1> QED BY <1>2, <1>4, <1>5, <1>6

LEMMA LinkInitInv == LinkInit => LinkInv
  <1> SUFFICES ASSUME LinkInit PROVE LinkInv
    OBVIOUS
  <1> USE DEF LinkInit
  <1>1. LinkTypes
    <2>1. <<>> \in Seq(Candidate) /\ 0 \in 0..MaxLoads
      BY ManualAssumption
    <2> QED BY <2>1 DEF LinkTypes
  <1>2. RemoteTypes
    BY DEF RemoteTypes
  <1>3. Gathered /\ LinksMade
    BY DEF Gathered, Gatherings, LinksMade
  <1>4. AnswersOffer
    BY DEF AnswersOffer, Pages
  <1> QED BY <1>1, <1>2, <1>3, <1>4, LinkTypeParts DEF LinkInv

(* A step that shows no link keeps the links made well, if each page stays *)
(* in its load and leaves a link that it has shown, or begins a new load.  *)
LEMMA LinksKept ==
  ASSUME LinkTypeOK, LinksMade, links' = links,
         \A p \in Pages :
           \/ /\ loads'[p] = loads[p]
              /\ at[p] = "shown" => at'[p] = "shown" /\ warned'[p] = warned[p]
           \/ loads'[p] = loads[p] + 1
  PROVE  LinksMade'
  <1> SUFFICES ASSUME NEW l \in links
               PROVE  \E p \in Pages : \E load \in 0..(loads'[p]), g \in Gatherings(p) :
                        MadeBy(l, p, load, g)'
    BY DEF LinksMade, Gatherings
  <1>1. PICK p \in Pages : \E load \in 0..loads[p], g \in Gatherings(p) : MadeBy(l, p, load, g)
    BY DEF LinksMade
  <1>2. PICK load \in 0..loads[p], g \in Gatherings(p) : MadeBy(l, p, load, g)
    BY <1>1
  <1>3. loads[p] \in Nat /\ load \in Nat /\ load <= loads[p]
    BY ManualAssumption DEF LinkTypeOK
  <1>4. load \in 0..(loads'[p])
    BY <1>3
  <1>5. load = loads'[p] => load = loads[p] /\ loads'[p] = loads[p]
    BY <1>3
  <1>6. MadeBy(l, p, load, g)'
    BY <1>2, <1>5 DEF MadeBy
  <1> QED BY <1>4, <1>6

(* Who made a link.                                                        *)
LEMMA LinkMaker ==
  ASSUME LinkInv, NEW l \in links
  PROVE  \E p \in Pages : \E load \in 0..loads[p], g \in Gatherings(p) :
           /\ MadeBy(l, p, load, g)
           /\ l.key = IF p = offerer THEN "offer" ELSE "answer"
           /\ l.key # "none" /\ l # NoLink
           /\ l.from = Made(p, load, g) /\ l.hash = PackSdp(l.from)
           /\ l.from.cands = g
           /\ l.from.creds.page = p /\ l.from.creds.load = load
           /\ l.hash.creds = [page |-> p, load |-> load]
  <1>1. PICK p \in Pages : \E load \in 0..loads[p], g \in Gatherings(p) : MadeBy(l, p, load, g)
    BY DEF LinkInv, LinksMade
  <1>2. PICK load \in 0..loads[p], g \in Gatherings(p) : MadeBy(l, p, load, g)
    BY <1>1
  <1>3. l = Link(p, Made(p, load, g))
    BY <1>2 DEF MadeBy
  <1>4. /\ l.key = IF p = offerer THEN "offer" ELSE "answer"
        /\ l.from = Made(p, load, g) /\ l.hash = PackSdp(l.from)
        /\ l.from.cands = g
        /\ l.from.creds.page = p /\ l.from.creds.load = load
        /\ l.hash.creds = [page |-> p, load |-> load]
    BY <1>3, LinkFields
  <1>5. NoLink.key = "none" /\ l.key # "none"
    BY <1>4 DEF NoLink
  <1> QED BY <1>2, <1>4, <1>5

LEMMA LoadInv ==
  ASSUME LinkInv, NEW p \in Pages, Load(p)
  PROVE  LinkInv'
  <1> USE DEF Load
  <1>1. LinkTypes /\ RemoteTypes
    BY LinkTypeParts DEF LinkInv
  <1>2. loads[p] \in Nat /\ MaxLoads \in Nat /\ loads[p] + 1 \in 0..MaxLoads
    BY <1>1, ManualAssumption DEF LinkTypes
  <1>3. LinkTypes'
    <2>1. <<>> \in Seq(Candidate)
      OBVIOUS
    <2> QED BY <1>1, <1>2, <2>1 DEF LinkTypes
  <1>4. \E l \in links \cup {NoLink} :
          /\ remote' = [remote EXCEPT ![p] = l]
          /\ l # NoLink => l.from.creds.page # p
          /\ p # offerer => l # NoLink
    <2>1. CASE p = offerer
      BY <2>1
    <2>2. CASE p # offerer
      <3>1. PICK l \in links : l.key = "offer" /\ remote' = [remote EXCEPT ![p] = l]
        BY <2>2
      <3>2. l # NoLink /\ l.from.creds.page = offerer
        BY <3>1, LinkMaker
      <3> QED BY <2>2, <3>1, <3>2
    <2> QED BY <2>1, <2>2
  <1>5. RemoteTypes'
    <2>1. remote' \in [Pages -> links' \cup {NoLink}]
      BY <1>1, <1>4 DEF RemoteTypes
    <2>2. chat' \in [Pages -> {<<>>, <<1, 2>>, <<2, 1>>}] /\ chat'[p] = <<>>
      BY <1>1 DEF RemoteTypes
    <2>3. ASSUME NEW q \in Pages
          PROVE  /\ remote'[q] # NoLink => remote'[q].from.creds.page # q
                 /\ chat'[q] # <<>> => remote'[q] # NoLink
      BY <1>1, <1>4, <2>2 DEF RemoteTypes
    <2> QED BY <2>1, <2>2, <2>3 DEF RemoteTypes
  <1>6. Gathered'
    BY <1>1 DEF LinkInv, Gathered, Gatherings, LinkTypes
  <1>7. LinksMade'
    <2>1. \A q \in Pages :
           \/ /\ loads'[q] = loads[q]
              /\ at[q] = "shown" => at'[q] = "shown" /\ warned'[q] = warned[q]
           \/ loads'[q] = loads[q] + 1
      BY <1>1 DEF LinkTypes
    <2> QED BY <2>1, LinksKept DEF LinkInv
  <1>8. AnswersOffer'
    <2>1. CASE p = answerer
      BY <1>1, <1>4, <2>1, ManualAssumption DEF AnswersOffer, RemoteTypes
    <2>2. CASE p # answerer
      BY <1>1, <1>4, <2>2 DEF AnswersOffer, RemoteTypes, LinkTypes, LinkInv, Pages
    <2> QED BY <2>1, <2>2
  <1> QED BY <1>3, <1>5, <1>6, <1>7, <1>8, LinkTypeParts DEF LinkInv

(* The page goes on or gathers, and shows nothing yet.                     *)
LEMMA GoesOnInv ==
  ASSUME LinkInv, NEW p \in Pages, LinkTypes', Gathered',
         UNCHANGED <<loads, warned, remote, chat, links>>,
         \A q \in Pages : at[q] = "shown" => at'[q] = "shown",
         at[answerer] = "closed" => at'[answerer] = "closed"
  PROVE  LinkInv'
  <1>1. RemoteTypes /\ RemoteTypes'
    BY LinkTypeParts DEF LinkInv, RemoteTypes
  <1>2. LinksMade'
    BY LinksKept DEF LinkInv
  <1>3. AnswersOffer'
    BY DEF LinkInv, AnswersOffer
  <1> QED BY <1>1, <1>2, <1>3, LinkTypeParts DEF LinkInv

(* The wait ends: the one link of this load is shown.                      *)
LEMMA ShowInv ==
  ASSUME LinkInv, NEW p \in Pages, at[p] \in {"described", "waiting"},
         NEW gathered \in Gatherings(p), Show(p, gathered), LinkTypes', Gathered'
  PROVE  LinkInv'
  <1> DEFINE new == Link(p, Made(p, loads[p], gathered))
  <1>1. /\ links' = links \cup {new}
        /\ at' = [at EXCEPT ![p] = "shown"]
        /\ warned' = [warned EXCEPT ![p] = ~HasPublicCandidate(gathered)]
        /\ UNCHANGED <<sameLan, loads, remote, chat>>
    BY DescriptionIsMade DEF Show, CurrentCandidates
  <1> HIDE DEF new
  <1>2. LinkTypes /\ RemoteTypes
    BY LinkTypeParts DEF LinkInv
  <1>3. RemoteTypes'
    BY <1>1, <1>2 DEF RemoteTypes
  <1>4. LinksMade'
    <2> SUFFICES ASSUME NEW l \in links'
                 PROVE  \E q \in Pages : \E load \in 0..(loads'[q]), g \in Gatherings(q) :
                          MadeBy(l, q, load, g)'
      BY DEF LinksMade, Gatherings
    <2>1. CASE l \in links
      <3>0. PICK q \in Pages : \E load \in 0..loads[q], g \in Gatherings(q) : MadeBy(l, q, load, g)
        BY <2>1, LinkMaker
      <3>1. PICK load \in 0..loads[q], g \in Gatherings(q) : MadeBy(l, q, load, g)
        BY <3>0
      <3>2. load = loads[q] => q # p
        BY <3>1 DEF MadeBy
      <3>3. MadeBy(l, q, load, g)'
        BY <1>1, <1>2, <3>1, <3>2 DEF MadeBy, LinkTypes
      <3> QED BY <1>1, <3>1, <3>3
    <2>2. CASE l = new
      <3>1. PICK n \in 0..MaxLoads : n = loads[p]
        BY <1>2 DEF LinkTypes
      <3>2. /\ at'[p] = "shown" /\ warned'[p] = ~HasPublicCandidate(gathered)
            /\ loads'[p] = n
        BY <1>1, <1>2, <3>1 DEF LinkTypes
      <3>3. MadeBy(l, p, n, gathered)'
        BY <2>2, <3>1, <3>2 DEF MadeBy, new
      <3>4. n \in 0..(loads'[p])
        BY <3>1, <3>2, ManualAssumption
      <3> QED BY <3>3, <3>4
    <2> QED BY <1>1, <2>1, <2>2
  <1>5. AnswersOffer'
    BY <1>1, <1>2 DEF LinkInv, AnswersOffer, LinkTypes
  <1> QED BY <1>3, <1>4, <1>5, LinkTypeParts DEF LinkInv

LEMMA GatherInv ==
  ASSUME LinkInv, NEW p \in Pages,
         \/ /\ at[p] = "waiting" /\ Show(p, cands'[p])
         \/ NotYet,
         LinkTypes', Gathered'
  PROVE  LinkInv'
  <1>1. CASE at[p] = "waiting" /\ Show(p, cands'[p])
    <2>1. PICK g \in Gatherings(p) : g = cands'[p]
      BY DEF Gathered, Gatherings
    <2>2. Show(p, g)
      BY <1>1, <2>1
    <2> QED BY <1>1, <2>2, ShowInv
  <1>2. CASE NotYet
    <2>1. /\ UNCHANGED <<loads, warned, remote, chat, links>>
          /\ at' = at
      BY <1>2 DEF NotYet
    <2> QED BY <2>1, GoesOnInv
  <1> QED BY <1>1, <1>2

LEMMA PageInv ==
  ASSUME LinkInv, NEW p \in Pages,
         \/ SetLocal(p) \/ Resume(p) \/ Cap(p)
         \/ GatherHost(p) \/ GatherPublic(p) \/ GatherDone(p)
  PROVE  LinkInv'
  <1>1. LinkTypes /\ RemoteTypes /\ Gathered
    BY LinkTypeParts DEF LinkInv
  <1>2. /\ Host(p) \in Candidate /\ HostTcp(p) \in Candidate /\ Public(p) \in Candidate
    BY DEF Candidate, Host, HostTcp, Public
  <1>3. cands[p] \in Gatherings(p) /\ cands[p] \in Seq(Candidate)
    BY <1>1 DEF Gathered, LinkTypes
  <1>4. CASE SetLocal(p)
    <2>1. /\ LinkTypes' /\ cands' = cands
          /\ UNCHANGED <<loads, warned, remote, chat, links>>
          /\ \A q \in Pages : at[q] = "shown" => at'[q] = "shown"
          /\ at[answerer] = "closed" => at'[answerer] = "closed"
      BY <1>1, <1>4 DEF SetLocal, LinkTypes, Pages
    <2>2. Gathered'
      BY <1>1, <2>1 DEF Gathered, Gatherings
    <2> QED BY <2>1, <2>2, GoesOnInv
  <1>5. CASE Resume(p)
    <2>1. CASE gathering[p] = "complete"
      <3>1. Show(p, cands[p]) /\ UNCHANGED <<gathering, cands>>
        BY <1>5, <2>1 DEF Resume
      <3>2. LinkTypes'
        BY <1>1, <3>1 DEF LinkTypes, Show
      <3>3. Gathered'
        BY <1>1, <3>1 DEF Gathered, Gatherings
      <3>4. PICK g \in Gatherings(p) : g = cands[p]
        BY <1>3
      <3>5. Show(p, g)
        BY <3>1, <3>4
      <3> QED BY <1>5, <3>2, <3>3, <3>5, ShowInv DEF Resume
    <2>2. CASE gathering[p] # "complete"
      <3>1. /\ LinkTypes' /\ cands' = cands
            /\ UNCHANGED <<loads, warned, remote, chat, links>>
            /\ \A q \in Pages : at[q] = "shown" => at'[q] = "shown"
            /\ at[answerer] = "closed" => at'[answerer] = "closed"
        BY <1>1, <1>5, <2>2 DEF Resume, LinkTypes, Pages
      <3>2. Gathered'
        BY <1>1, <3>1 DEF Gathered, Gatherings
      <3> QED BY <3>1, <3>2, GoesOnInv
    <2> QED BY <2>1, <2>2
  <1>6. CASE Cap(p)
    <2>1. at[p] = "waiting" /\ Show(p, cands[p]) /\ UNCHANGED <<gathering, cands>>
      BY <1>6 DEF Cap, CapExpires
    <2>2. LinkTypes'
      BY <1>1, <2>1 DEF LinkTypes, Show
    <2>3. Gathered'
      BY <1>1, <2>1 DEF Gathered, Gatherings
    <2> QED BY <2>1, <2>2, <2>3, GatherInv
  <1>7. CASE GatherHost(p)
    <2>1. cands' = [cands EXCEPT ![p] = <<Host(p), HostTcp(p)>>] /\ NotYet /\ gathering' = gathering
      BY <1>7 DEF GatherHost
    <2>2. <<Host(p), HostTcp(p)>> \in Seq(Candidate)
      BY <1>2
    <2>3. LinkTypes'
      BY <1>1, <2>1, <2>2 DEF LinkTypes, NotYet
    <2>4. Gathered'
      BY <1>1, <2>1 DEF Gathered, Gatherings, LinkTypes
    <2> QED BY <2>1, <2>3, <2>4, GatherInv
  <1>8. CASE GatherPublic(p)
    <2> DEFINE longer == Append(cands[p], Public(p))
    <2>1. /\ cands' = [cands EXCEPT ![p] = longer] /\ gathering' = gathering
          /\ Len(cands[p]) = 2
          /\ (at[p] = "waiting" /\ Show(p, cands'[p])) \/ NotYet
      BY <1>8 DEF GatherPublic
    <2>2. longer \in Seq(Candidate)
      BY <1>2, <1>3
    <2>3. longer = <<Host(p), HostTcp(p), Public(p)>>
      <3> DEFINE H == Host(p)
                 T == HostTcp(p)
                 P == Public(p)
      <3>1. cands[p] = <<>> \/ cands[p] = <<H, T>> \/ cands[p] = <<H, T, P>>
        BY <1>3 DEF Gatherings
      <3> HIDE DEF H, T, P
      <3>2. Len(<<>>) = 0 /\ Len(<<H, T, P>>) = 3
        OBVIOUS
      <3>3. cands[p] = <<H, T>>
        BY <2>1, <3>1, <3>2
      <3>4. Append(<<H, T>>, P) = <<H, T, P>>
        <4> DEFINE s == Append(<<H, T>>, P)
                   t == <<H, T, P>>
        <4>1. <<H, T>> \in Seq({H, T, P}) /\ t \in Seq({H, T, P}) /\ P \in {H, T, P}
          OBVIOUS
        <4>2. /\ s \in Seq({H, T, P}) /\ Len(s) = 3
              /\ s[1] = H /\ s[2] = T /\ s[3] = P
          BY <4>1
        <4>3. Len(t) = 3 /\ t[1] = H /\ t[2] = T /\ t[3] = P
          OBVIOUS
        <4> HIDE DEF s, t
        <4>4. \A i \in 1..3 : s[i] = t[i]
          BY <4>2, <4>3
        <4>5. s = t
          BY <4>1, <4>2, <4>3, <4>4
        <4> QED BY <4>5 DEF s, t
      <3> QED BY <3>3, <3>4 DEF H, T, P
    <2> HIDE DEF longer
    <2>4. LinkTypes'
      BY <1>1, <2>1, <2>2 DEF LinkTypes, NotYet, Show
    <2>5. Gathered'
      BY <1>1, <2>1, <2>3 DEF Gathered, Gatherings, LinkTypes
    <2> QED BY <2>1, <2>4, <2>5, GatherInv
  <1>9. CASE GatherDone(p)
    <2>1. /\ gathering' = [gathering EXCEPT ![p] = "complete"] /\ cands' = cands
          /\ (at[p] = "waiting" /\ Show(p, cands'[p])) \/ NotYet
      BY <1>9 DEF GatherDone
    <2>2. LinkTypes'
      BY <1>1, <2>1 DEF LinkTypes, NotYet, Show
    <2>3. Gathered'
      BY <1>1, <2>1 DEF Gathered, Gatherings
    <2> QED BY <2>1, <2>2, <2>3, GatherInv
  <1> QED BY <1>4, <1>5, <1>6, <1>7, <1>8, <1>9

LEMMA PasteInv ==
  ASSUME LinkInv, NEW l \in links, Paste(l)
  PROVE  LinkInv'
  <1>1. LinkTypes /\ RemoteTypes
    BY LinkTypeParts DEF LinkInv
  <1>2. /\ l.key = "answer" /\ remote' = [remote EXCEPT ![offerer] = l]
        /\ UNCHANGED <<sameLan, loads, at, gathering, cands, warned, chat, links>>
    BY DEF Paste, IsAnswer
  <1>3. l # NoLink /\ l.from.creds.page # offerer
    BY <1>2, LinkMaker
  <1>4. LinkTypes'
    BY <1>1, <1>2 DEF LinkTypes
  <1>5. RemoteTypes'
    BY <1>1, <1>2, <1>3 DEF RemoteTypes
  <1>6. Gathered'
    BY <1>2 DEF LinkInv, Gathered, Gatherings
  <1>7. LinksMade'
    BY <1>2, LinksKept DEF LinkInv
  <1>8. AnswersOffer'
    BY <1>1, <1>2, ManualAssumption DEF LinkInv, AnswersOffer, RemoteTypes, Pages
  <1> QED BY <1>4, <1>5, <1>6, <1>7, <1>8, LinkTypeParts DEF LinkInv

(* Two pages that have each other's current links have links indeed.       *)
LEMMA MutualLinks ==
  ASSUME LinkInv, Mutual
  PROVE  remote[offerer] # NoLink /\ remote[answerer] # NoLink
  <1>1. LinkTypes /\ RemoteTypes
    BY LinkTypeParts DEF LinkInv
  <1>2. /\ remote[offerer].hash.creds = [page |-> answerer, load |-> loads[answerer]]
        /\ remote[answerer].hash.creds = [page |-> offerer, load |-> loads[offerer]]
    BY ManualAssumption DEF Mutual, Pages, Other
  <1>3. remote[offerer] # NoLink
    <2>1. NoLink.hash.creds.page = offerer
      BY DEF NoLink, Nobody
    <2>2. remote[offerer].hash.creds.page = answerer
      BY <1>2
    <2> QED BY <2>1, <2>2, ManualAssumption
  <1>4. remote[offerer] \in links
    BY <1>1, <1>3 DEF RemoteTypes, Pages
  <1>5. PICK q \in Pages : \E load \in 0..loads[q], g \in Gatherings(q) :
          /\ MadeBy(remote[offerer], q, load, g)
          /\ remote[offerer].hash.creds = [page |-> q, load |-> load]
    BY <1>4, LinkMaker
  <1>6. PICK load \in 0..loads[q], g \in Gatherings(q) :
          /\ MadeBy(remote[offerer], q, load, g)
          /\ remote[offerer].hash.creds = [page |-> q, load |-> load]
    BY <1>5
  <1>7. q = answerer /\ load = loads[answerer]
    <2>1. /\ remote[offerer].hash.creds.page = q /\ remote[offerer].hash.creds.load = load
          /\ remote[offerer].hash.creds.page = answerer
          /\ remote[offerer].hash.creds.load = loads[answerer]
      BY <1>2, <1>6
    <2> QED BY <2>1
  <1>8. remote[answerer] # NoLink
    BY <1>6, <1>7 DEF MadeBy, LinkInv, AnswersOffer
  <1> QED BY <1>3, <1>8

LEMMA ChannelOpensInv ==
  ASSUME LinkInv, NEW p \in Pages, ChannelOpens(p)
  PROVE  LinkInv'
  <1>1. LinkTypes /\ RemoteTypes
    BY LinkTypeParts DEF LinkInv
  <1>2. /\ chat' = [chat EXCEPT ![p] = Seeds(p)] /\ Mutual
        /\ UNCHANGED <<sameLan, loads, at, gathering, cands, warned, remote, links>>
    BY DEF ChannelOpens, Connected
  <1>3. remote[offerer] # NoLink /\ remote[answerer] # NoLink
    BY <1>2, MutualLinks
  <1>4. RemoteTypes'
    BY <1>1, <1>2, <1>3 DEF RemoteTypes, Seeds, Pages
  <1>5. LinkTypes'
    BY <1>1, <1>2 DEF LinkTypes
  <1>6. Gathered' /\ AnswersOffer'
    BY <1>2 DEF LinkInv, Gathered, Gatherings, AnswersOffer
  <1>7. LinksMade'
    BY <1>2, LinksKept DEF LinkInv
  <1> QED BY <1>4, <1>5, <1>6, <1>7, LinkTypeParts DEF LinkInv

LEMMA LinkNextInv == LinkInv /\ [LinkNext]_linkVars => LinkInv'
  <1> SUFFICES ASSUME LinkInv, [LinkNext]_linkVars PROVE LinkInv'
    OBVIOUS
  <1>1. ASSUME NEW p \in Pages, Load(p) PROVE LinkInv'
    BY <1>1, LoadInv
  <1>2. ASSUME NEW p \in Pages,
               \/ SetLocal(p) \/ Resume(p) \/ Cap(p)
               \/ GatherHost(p) \/ GatherPublic(p) \/ GatherDone(p)
        PROVE  LinkInv'
    BY <1>2, PageInv
  <1>3. ASSUME NEW p \in Pages, ChannelOpens(p) PROVE LinkInv'
    BY <1>3, ChannelOpensInv
  <1>4. ASSUME NEW l \in links, Paste(l) PROVE LinkInv'
    BY <1>4, PasteInv
  <1>5. CASE UNCHANGED linkVars
    <2>1. UNCHANGED <<sameLan, loads, at, gathering, cands, warned, remote, chat, links>>
      BY <1>5 DEF linkVars
    <2>2. LinkTypes' /\ RemoteTypes' /\ Gathered' /\ AnswersOffer'
      BY <2>1, LinkTypeParts
      DEF LinkInv, LinkTypes, RemoteTypes, Gathered, Gatherings, AnswersOffer
    <2>3. LinksMade'
      BY <2>1, LinksKept DEF LinkInv
    <2> QED BY <2>2, <2>3, LinkTypeParts DEF LinkInv
  <1> QED BY <1>1, <1>2, <1>3, <1>4, <1>5 DEF LinkNext

LEMMA LinkInvariance == LinkSpec => []LinkInv
  BY LinkInitInv, LinkNextInv, PTL DEF LinkSpec

(* Only links that were shown are applied, never to their own page, and a  *)
(* chat needs one (chat.js, manualSignaling and applyAns).                 *)
THEOREM LinksApplied == LinkSpec => []LinkTypeOK
  <1>1. LinkInv => LinkTypeOK
    BY DEF LinkInv
  <1> QED BY <1>1, LinkInvariance, PTL

LEMMA LinkUnpacked ==
  ASSUME LinkInv, NEW l \in links
  PROVE  \E p \in Pages : \E load \in Nat, g \in Gatherings(p) :
           /\ MadeBy(l, p, load, g) /\ g \in Seq(Candidate)
           /\ l.from = Made(p, load, g) /\ l.hash = PackSdp(l.from)
           /\ l.from.cands = g
           /\ l.from.creds.page = p /\ l.from.creds.load = load
           /\ UnpackSdp(l.hash).cands = MatchAll(g)
  <1>1. PICK p \in Pages : \E load \in 0..loads[p], g \in Gatherings(p) :
           /\ MadeBy(l, p, load, g)
           /\ l.from = Made(p, load, g) /\ l.hash = PackSdp(l.from)
           /\ l.from.cands = g
           /\ l.from.creds.page = p /\ l.from.creds.load = load
    BY LinkMaker
  <1>2. PICK load \in 0..loads[p], g \in Gatherings(p) :
           /\ MadeBy(l, p, load, g)
           /\ l.from = Made(p, load, g) /\ l.hash = PackSdp(l.from)
           /\ l.from.cands = g
           /\ l.from.creds.page = p /\ l.from.creds.load = load
    BY <1>1
  <1>3. g \in Seq(Candidate) /\ load \in Nat
    BY GatheringsTyped, ManualAssumption DEF LinkInv, LinkTypeOK
  <1>4. UnpackSdp(l.hash).cands = MatchAll(g)
    BY <1>2, <1>3, UnpackPacked
  <1> QED BY <1>2, <1>3, <1>4

(* What unpackSdp makes of a link is what packSdp was given: description   *)
(* type, DTLS role, credentials, and each UDP candidate with its type, in  *)
(* the order they were gathered in (chat.js, packSdp and unpackSdp).       *)
THEOREM PackingKeeps == LinkSpec => []PackKeeps
  <1>1. LinkInv => PackKeeps
    <2> SUFFICES ASSUME LinkInv, NEW l \in links
                 PROVE  LET unpacked == UnpackSdp(l.hash)
                        IN /\ unpacked.type = l.from.type /\ unpacked.setup = l.from.setup
                           /\ unpacked.creds = l.from.creds
                           /\ UdpOf(unpacked.cands, l.from.cands)
      BY DEF PackKeeps
    <2>1. PICK p \in Pages, load \in Nat, g \in Seq(Candidate) :
            /\ l.from = Made(p, load, g) /\ l.hash = PackSdp(l.from) /\ l.from.cands = g
      BY LinkUnpacked
    <2>2. LET unpacked == UnpackSdp(PackSdp(l.from))
          IN /\ unpacked.type = l.from.type /\ unpacked.setup = l.from.setup
             /\ unpacked.creds = l.from.creds
             /\ unpacked.cands = MatchAll(g)
      BY <2>1, UnpackPacked
    <2>3. UdpOf(MatchAll(g), g)
      BY MatchAllFacts
    <2> QED BY <2>1, <2>2, <2>3
  <1> QED BY <1>1, LinkInvariance, PTL

(* The warning beside a link says what its reader will find in it, however *)
(* gathering went on meanwhile (chat.js, lanOnlyWarning).                  *)
THEOREM WarningIsTrue == LinkSpec => []WarnsTruly
  <1>1. LinkInv => WarnsTruly
    <2> SUFFICES ASSUME LinkInv, NEW l \in links,
                        l.from.creds.load = loads[l.from.creds.page]
                 PROVE  warned[l.from.creds.page]
                          <=> ~HasPublicCandidate(UnpackSdp(l.hash).cands)
      BY DEF WarnsTruly
    <2>1. PICK p \in Pages, load \in Nat, g \in Seq(Candidate) :
            /\ MadeBy(l, p, load, g) /\ g \in Gatherings(p)
            /\ l.from.creds.page = p /\ l.from.creds.load = load
            /\ UnpackSdp(l.hash).cands = MatchAll(g)
      BY LinkUnpacked
    <2>2. warned[p] <=> ~HasPublicCandidate(g)
      BY <2>1 DEF MadeBy
    <2>3. HasPublicCandidate(MatchAll(g)) <=> HasPublicCandidate(g)
      <3>1. PICK place \in [DOMAIN MatchAll(g) -> Udp(g)] :
              /\ \A i \in Udp(g) : \E k \in DOMAIN MatchAll(g) : place[k] = i
              /\ \A k \in DOMAIN MatchAll(g) : MatchAll(g)[k] = g[place[k]]
        BY MatchAllFacts DEF UdpOf
      <3>2. \A i \in DOMAIN g : g[i].typ = "srflx" => i \in Udp(g)
        BY <2>1, GatheringsTyped DEF Udp
      <3>3. \A k \in DOMAIN MatchAll(g) : place[k] \in DOMAIN g
        BY <3>1 DEF Udp
      <3> QED BY <3>1, <3>2, <3>3 DEF HasPublicCandidate
    <2> QED BY <2>1, <2>2, <2>3
  <1> QED BY <1>1, LinkInvariance, PTL

-----------------------------------------------------------------------------
(* The safety half of Reaches.                                             *)

(* Each page then has a link that the other one showed.                    *)
LEMMA MutualMakers ==
  ASSUME LinkInv, Mutual, NEW p \in Pages
  PROVE  remote[p] \in links /\ remote[p].from.creds.page = Other(p)
  <1>1. LinkTypes /\ RemoteTypes
    BY LinkTypeParts DEF LinkInv
  <1>2. remote[p] # NoLink /\ remote[p] \in links
    BY <1>1, MutualLinks DEF RemoteTypes, Pages
  <1>3. remote[p].from.creds.page # p
    BY <1>1, <1>2 DEF RemoteTypes
  <1>4. remote[p].from.creds.page \in Pages
    BY <1>2, LinkUnpacked
  <1> QED BY <1>2, <1>3, <1>4 DEF Pages, Other

(* A path there is between what two pages gathered, there is between what  *)
(* their links bring over: only UDP candidates make one.                   *)
LEMMA PathPacked ==
  ASSUME NEW p \in Pages, NEW q \in Pages, NEW g \in Gatherings(p), NEW h \in Gatherings(q)
  PROVE  PathBetween(MatchAll(g), MatchAll(h)) <=> PathBetween(g, h)
  <1>1. /\ g \in Seq(Candidate) /\ \A i \in DOMAIN g : g[i].typ = "srflx" => g[i].proto = "udp"
        /\ h \in Seq(Candidate) /\ \A i \in DOMAIN h : h[i].typ = "srflx" => h[i].proto = "udp"
    BY GatheringsTyped
  <1> HIDE DEF Gatherings
  <1>2. PICK gp \in [DOMAIN MatchAll(g) -> Udp(g)] :
          /\ \A i \in Udp(g) : \E k \in DOMAIN MatchAll(g) : gp[k] = i
          /\ \A k \in DOMAIN MatchAll(g) : MatchAll(g)[k] = g[gp[k]]
    BY <1>1, MatchAllFacts DEF UdpOf
  <1>3. PICK hp \in [DOMAIN MatchAll(h) -> Udp(h)] :
          /\ \A i \in Udp(h) : \E k \in DOMAIN MatchAll(h) : hp[k] = i
          /\ \A k \in DOMAIN MatchAll(h) : MatchAll(h)[k] = h[hp[k]]
    BY <1>1, MatchAllFacts DEF UdpOf
  <1>4. ASSUME PathBetween(MatchAll(g), MatchAll(h)) PROVE PathBetween(g, h)
    <2>1. PICK i \in DOMAIN MatchAll(g), j \in DOMAIN MatchAll(h) :
            Path(MatchAll(g)[i], MatchAll(h)[j])
      BY <1>4 DEF PathBetween
    <2>2. gp[i] \in DOMAIN g /\ hp[j] \in DOMAIN h
      BY <1>2, <1>3 DEF Udp
    <2>3. Path(g[gp[i]], h[hp[j]])
      BY <1>2, <1>3, <2>1
    <2> QED BY <2>2, <2>3 DEF PathBetween
  <1>5. ASSUME PathBetween(g, h) PROVE PathBetween(MatchAll(g), MatchAll(h))
    <2>1. PICK i \in DOMAIN g, j \in DOMAIN h : Path(g[i], h[j])
      BY <1>5 DEF PathBetween
    <2>2. i \in Udp(g) /\ j \in Udp(h)
      BY <1>1, <2>1 DEF Path, Udp
    <2>3. PICK k \in DOMAIN MatchAll(g) : gp[k] = i
      BY <1>2, <2>2
    <2>4. PICK m \in DOMAIN MatchAll(h) : hp[m] = j
      BY <1>3, <2>2
    <2>5. Path(MatchAll(g)[k], MatchAll(h)[m])
      BY <1>2, <1>3, <2>1, <2>3, <2>4
    <2> QED BY <2>5 DEF PathBetween
  <1> QED BY <1>4, <1>5

(* What the link a page applied makes of its maker's description.          *)
LEMMA AppliedFacts ==
  ASSUME LinkInv, Mutual, NEW p \in Pages
  PROVE  /\ Applied(p).setup = IF Other(p) = offerer THEN "actpass" ELSE "active"
         /\ \E g \in Gatherings(Other(p)) :
              /\ remote[p].from.cands = g
              /\ Applied(p).cands = MatchAll(g)
  <1>1. remote[p] \in links /\ remote[p].from.creds.page = Other(p)
    BY MutualMakers
  <1>2. PICK q \in Pages : \E load \in Nat, g \in Gatherings(q) :
          /\ g \in Seq(Candidate)
          /\ remote[p].from = Made(q, load, g) /\ remote[p].hash = PackSdp(remote[p].from)
          /\ remote[p].from.cands = g
          /\ remote[p].from.creds.page = q
    BY <1>1, LinkUnpacked
  <1>3. q = Other(p)
    BY <1>1, <1>2
  <1>4. PICK load \in Nat, g \in Gatherings(q) :
          /\ g \in Seq(Candidate)
          /\ remote[p].from = Made(q, load, g) /\ remote[p].hash = PackSdp(remote[p].from)
          /\ remote[p].from.cands = g
    BY <1>2
  <1>5. /\ UnpackSdp(PackSdp(Made(q, load, g))).setup = Made(q, load, g).setup
        /\ UnpackSdp(PackSdp(Made(q, load, g))).cands = MatchAll(g)
    BY <1>4, UnpackPacked
  <1>6. Made(q, load, g).setup = IF q = offerer THEN "actpass" ELSE "active"
    BY DEF Made
  <1> QED BY <1>3, <1>4, <1>5, <1>6 DEF Applied

(* Two pages that have each other's current links connect exactly if what  *)
(* they had gathered offers a path: the compact form loses no path, settles*)
(* the DTLS roles and invents nothing (packSdp, unpackSdp).  What Reaches  *)
(* needs besides is that the browser connects what can be connected.       *)
THEOREM PathConnects == LinkSpec => [](HavePath <=> Connected)
  <1>1. LinkInv => (HavePath <=> Connected)
    <2> SUFFICES ASSUME LinkInv, Mutual PROVE HavePath <=> Connected
      BY DEF HavePath, Connected
    <2>1. /\ offerer \in Pages /\ answerer \in Pages /\ offerer # answerer
          /\ Other(offerer) = answerer /\ Other(answerer) = offerer
      BY ManualAssumption DEF Pages, Other
    <2>2. /\ Applied(answerer).setup = "actpass"
          /\ \E g \in Gatherings(offerer) :
               remote[answerer].from.cands = g /\ Applied(answerer).cands = MatchAll(g)
      BY <2>1, AppliedFacts
    <2>3. /\ Applied(offerer).setup = "active"
          /\ \E h \in Gatherings(answerer) :
               remote[offerer].from.cands = h /\ Applied(offerer).cands = MatchAll(h)
      BY <2>1, AppliedFacts
    <2>4. PICK g \in Gatherings(offerer) :
            remote[answerer].from.cands = g /\ Applied(answerer).cands = MatchAll(g)
      BY <2>2
    <2>5. PICK h \in Gatherings(answerer) :
            remote[offerer].from.cands = h /\ Applied(offerer).cands = MatchAll(h)
      BY <2>3
    <2>6. PathBetween(MatchAll(g), MatchAll(h)) <=> PathBetween(g, h)
      BY <2>1, PathPacked
    <2> QED BY <2>2, <2>3, <2>4, <2>5, <2>6 DEF HavePath, Connected
  <1> QED BY <1>1, LinkInvariance, PTL
=============================================================================

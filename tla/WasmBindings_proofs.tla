------------------------ MODULE WasmBindings_proofs ------------------------
(***************************************************************************)
(* Proofs about the ownership of closures and handles between the page and *)
(* wasm, for any closures, handles and depth of calls, and any budget, and *)
(* about the texts that cross into wasm, for texts of any length.          *)
(***************************************************************************)
EXTENDS WasmBindings, FiniteSetTheorems, SequenceTheorems, WellFoundedInduction, TLAPS

Frame == [of : Closures \cup Scoped, a : BOOLEAN]

(* How many of the calls in s are calls of c.                              *)
CallsOf(s, c) == {i \in DOMAIN s : s[i].of = c}
Count(s, c) == Cardinality(CallsOf(s, c))

(* The calls in progress are no deeper than they may be.                   *)
Shallow == Len(calls) <= MaxDepth

(* What is not made yet is nowhere, and what lives can be finalized.       *)
MadeOnce ==
  \A c \in Closures :
    /\ env[c] = "none" <=> rust[c] = "none"
    /\ env[c] = "none" => /\ state[c].cnt = 0 /\ ~state[c].a
                          /\ c \notin known /\ ~Running(c)
    /\ env[c] # "corrupt"
    /\ c \in watched <=> env[c] = "live"

(* A closure lives exactly as long as it has an owner, unless it was       *)
(* forgotten and the collector has taken it.                               *)
Collected(c) == rust[c] = "forgotten" /\ c \notin known /\ ~Running(c)
LivesByCount ==
  \A c \in Closures : env[c] # "none" =>
    /\ env[c] = "live" => rust[c] \in {"held", "forgotten"} \/ Running(c)
    /\ env[c] = "freed" => rust[c] = "dropped" \/ Collected(c)
    /\ rust[c] = "dropped" /\ ~Running(c) => env[c] = "freed"

(* Who has the pointer of a closure.  A shared one stays where it is; an   *)
(* exclusive one is with the outermost call of it, if there is any.        *)
Outermost(i) == \A j \in 1..(i - 1) : calls[j].of # calls[i].of
Pointers ==
  /\ \A c \in Closures : env[c] = "live" /\ (c \in Shared \/ ~Running(c)) => state[c].a
  /\ \A c \in Closures : state[c].a => env[c] = "live" \/ Collected(c)
  /\ \A c \in Exclusive : state[c].a => ~Running(c)
  /\ \A i \in DOMAIN calls : calls[i].of \in Shared =>
       (calls[i].a <=> env[calls[i].of] = "live")
  /\ \A i \in DOMAIN calls : calls[i].of \in Exclusive =>
       (calls[i].a <=> env[calls[i].of] = "live" /\ Outermost(i))

(* An executor is called once, and lives as long as that call.             *)
Executors ==
  /\ \A i \in DOMAIN calls : calls[i].of \in Scoped => env[calls[i].of] = "live"
  /\ \A i, j \in DOMAIN calls : calls[i].of \in Scoped /\ i # j => calls[i].of # calls[j].of
  /\ \A c \in Scoped : env[c] # "corrupt"

(* A handle's value lives until it is freed by hand or by the collector.   *)
HandleOwned ==
  \A h \in Handles :
    /\ env[h] # "corrupt"
    /\ h \in watched <=> env[h] = "live"
    /\ env[h] = "live" => pointer[h]
    /\ env[h] = "none" => h \notin known
    /\ pointer[h] /\ h \in known => env[h] = "live"

(* The current decoder's share is what the glue has counted.               *)
Counted == fed = decoded /\ decoded < DecoderBudget

ObjectInv ==
  Shallow /\ MadeOnce /\ LivesByCount /\ Pointers /\ Executors /\ HandleOwned
Inv == TypeOK /\ ObjectInv /\ Counted

-----------------------------------------------------------------------------
(* Counting calls.                                                         *)

LEMMA CallsFinite ==
  ASSUME NEW s \in Seq(Frame), NEW c
  PROVE  /\ IsFiniteSet(CallsOf(s, c))
         /\ Count(s, c) \in Nat /\ Count(s, c) <= Len(s)
         /\ Count(s, c) = 0 <=> \A i \in DOMAIN s : s[i].of # c
  <1>1. DOMAIN s = 1..Len(s) /\ Len(s) \in Nat
    OBVIOUS
  <1>2. IsFiniteSet(DOMAIN s) /\ Cardinality(DOMAIN s) = Len(s)
    BY <1>1, FS_Interval
  <1>3. CallsOf(s, c) \subseteq DOMAIN s
    BY DEF CallsOf
  <1>4. IsFiniteSet(CallsOf(s, c)) /\ Count(s, c) <= Len(s)
    BY <1>2, <1>3, FS_Subset DEF Count
  <1>5. Count(s, c) = 0 <=> CallsOf(s, c) = {}
    BY <1>4, FS_EmptySet DEF Count
  <1> QED BY <1>4, <1>5, FS_CardinalityType DEF CallsOf, Count

LEMMA CountAppend ==
  ASSUME NEW s \in Seq(Frame), NEW f \in Frame, NEW c
  PROVE  Count(Append(s, f), c) = Count(s, c) + IF f.of = c THEN 1 ELSE 0
  <1> DEFINE n == Len(s) + 1
  <1>1. /\ DOMAIN Append(s, f) = 1..n /\ DOMAIN s = 1..Len(s) /\ Len(s) \in Nat
        /\ \A i \in DOMAIN s : Append(s, f)[i] = s[i]
        /\ Append(s, f)[n] = f
    OBVIOUS
  <1>2. CallsOf(Append(s, f), c) =
          IF f.of = c THEN CallsOf(s, c) \cup {n} ELSE CallsOf(s, c)
    BY <1>1 DEF CallsOf
  <1>3. n \notin CallsOf(s, c)
    BY <1>1 DEF CallsOf
  <1>4. IsFiniteSet(CallsOf(s, c)) /\ Count(s, c) \in Nat
    BY CallsFinite
  <1>5. Cardinality(CallsOf(s, c) \cup {n}) = Cardinality(CallsOf(s, c)) + 1
    BY <1>3, <1>4, FS_AddElement
  <1> QED BY <1>2, <1>4, <1>5 DEF Count

LEMMA FrontLast ==
  ASSUME NEW s \in Seq(Frame), s # <<>>
  PROVE  /\ Front(s) \in Seq(Frame) /\ Last(s) \in Frame
         /\ Len(Front(s)) = Len(s) - 1 /\ Len(s) \in Nat \ {0}
         /\ \A i \in 1..(Len(s) - 1) : Front(s)[i] = s[i]
         /\ Last(s) = s[Len(s)]
         /\ s = Append(Front(s), Last(s))
  <1>1. Len(s) \in Nat \ {0} /\ DOMAIN s = 1..Len(s)
    OBVIOUS
  <1>2. \A i \in 1..Len(s) : s[i] \in Frame
    OBVIOUS
  <1>3. Front(s) = [i \in 1..(Len(s) - 1) |-> s[i]]
    BY <1>1 DEF Front
  <1>4. Front(s) \in Seq(Frame) /\ Len(Front(s)) = Len(s) - 1
    BY <1>1, <1>2, <1>3
  <1>5. Last(s) = s[Len(s)] /\ Last(s) \in Frame
    BY <1>1, <1>2 DEF Last
  <1>6. s = Append(Front(s), Last(s))
    BY <1>1, <1>3, <1>4, <1>5
  <1> QED BY <1>1, <1>3, <1>4, <1>5, <1>6

LEMMA CountFront ==
  ASSUME NEW s \in Seq(Frame), s # <<>>, NEW c
  PROVE  Count(s, c) = Count(Front(s), c) + IF Last(s).of = c THEN 1 ELSE 0
  <1>1. Front(s) \in Seq(Frame) /\ Last(s) \in Frame
    BY FrontLast
  <1>2. Count(Append(Front(s), Last(s)), c)
          = Count(Front(s), c) + IF Last(s).of = c THEN 1 ELSE 0
    BY <1>1, CountAppend
  <1> QED BY <1>2, FrontLast

(* The count of a closure's state is that of its owners.                   *)
LEMMA OwnersCounted ==
  ASSUME TypeOK, NEW c \in Closures
  PROVE  /\ state[c].cnt = Count(calls, c)
              + IF rust[c] \in {"held", "forgotten"} THEN 1 ELSE 0
         /\ Count(calls, c) \in Nat
         /\ Running(c) <=> Count(calls, c) # 0
  <1>1. calls \in Seq(Frame) /\ state[c].cnt = Owners(c)
    BY DEF TypeOK, Frame
  <1>2. Count(calls, c) \in Nat
    BY <1>1, CallsFinite
  <1>3. Running(c) <=> Count(calls, c) # 0
    BY <1>1, CallsFinite DEF Running
  <1> QED BY <1>1, <1>2, <1>3 DEF Owners, Count, CallsOf

(* A call makes its closure run; its return leaves the others running.     *)
LEMMA RunningCalled ==
  ASSUME TypeOK, NEW f \in Frame, calls' = Append(calls, f)
  PROVE  /\ \A d : Running(d)' <=> Running(d) \/ d = f.of
         /\ \A d : Count(calls', d) = Count(calls, d) + IF f.of = d THEN 1 ELSE 0
         /\ calls' \in Seq(Frame) /\ Len(calls') = Len(calls) + 1
         /\ Len(calls) \in Nat
         /\ \A i \in DOMAIN calls : calls'[i] = calls[i]
         /\ calls'[Len(calls')] = f
         /\ DOMAIN calls' = DOMAIN calls \cup {Len(calls')}
  <1>1. calls \in Seq(Frame)
    BY DEF TypeOK, Frame
  <1>2. /\ calls' \in Seq(Frame) /\ Len(calls') = Len(calls) + 1
        /\ Len(calls) \in Nat
        /\ DOMAIN calls = 1..Len(calls) /\ DOMAIN calls' = 1..(Len(calls) + 1)
        /\ \A i \in DOMAIN calls : calls'[i] = calls[i]
        /\ calls'[Len(calls')] = f
    BY <1>1
  <1>3. DOMAIN calls' = DOMAIN calls \cup {Len(calls')}
    BY <1>2
  <1>4. \A d : Running(d)' <=> Running(d) \/ d = f.of
    BY <1>2, <1>3 DEF Running
  <1>5. \A d : Count(calls', d) = Count(calls, d) + IF f.of = d THEN 1 ELSE 0
    <2> TAKE d
    <2> QED BY <1>1, CountAppend
  <1> QED BY <1>2, <1>3, <1>4, <1>5

LEMMA RunningReturned ==
  ASSUME TypeOK, calls # <<>>, calls' = Front(calls)
  PROVE  /\ \A d : Running(d) <=> Running(d)' \/ d = Last(calls).of
         /\ \A d : Count(calls, d)
                     = Count(calls', d) + IF Last(calls).of = d THEN 1 ELSE 0
         /\ \A d : Count(calls', d) \in Nat
         /\ \A d : Running(d)' <=> Count(calls', d) # 0
         /\ calls' \in Seq(Frame) /\ Len(calls') = Len(calls) - 1
         /\ Len(calls) \in Nat \ {0}
         /\ DOMAIN calls' = 1..(Len(calls) - 1) /\ DOMAIN calls = 1..Len(calls)
         /\ \A i \in DOMAIN calls' : calls'[i] = calls[i]
         /\ Last(calls) = calls[Len(calls)] /\ Last(calls) \in Frame
  <1>1. calls \in Seq(Frame)
    BY DEF TypeOK, Frame
  <1>2. /\ calls' \in Seq(Frame) /\ Len(calls') = Len(calls) - 1
        /\ Len(calls) \in Nat \ {0}
        /\ \A i \in 1..(Len(calls) - 1) : calls'[i] = calls[i]
        /\ Last(calls) = calls[Len(calls)] /\ Last(calls) \in Frame
    BY <1>1, FrontLast
  <1>3. DOMAIN calls' = 1..(Len(calls) - 1) /\ DOMAIN calls = 1..Len(calls)
    BY <1>1, <1>2
  <1>4. DOMAIN calls = DOMAIN calls' \cup {Len(calls)}
    BY <1>2, <1>3
  <1>5. \A d : Running(d) <=> Running(d)' \/ d = Last(calls).of
    BY <1>2, <1>3, <1>4 DEF Running
  <1>6. \A d : Count(calls, d)
                 = Count(calls', d) + IF Last(calls).of = d THEN 1 ELSE 0
    <2> TAKE d
    <2> QED BY <1>1, CountFront
  <1>7. \A d : Count(calls', d) \in Nat /\ (Running(d)' <=> Count(calls', d) # 0)
    <2> TAKE d
    <2> QED BY <1>2, CallsFinite DEF Running
  <1> QED BY <1>2, <1>3, <1>5, <1>6, <1>7

(* The owners of a closure after a step.                                   *)
LEMMA OwnersNext ==
  ASSUME NEW c
  PROVE  Owners(c)' = (IF rust'[c] \in {"held", "forgotten"} THEN 1 ELSE 0)
                      + Count(calls', c)
  BY DEF Owners, Count, CallsOf

LEMMA SameCalls ==
  ASSUME UNCHANGED calls
  PROVE  /\ \A d : Running(d)' <=> Running(d)
         /\ \A i : Outermost(i)' <=> Outermost(i)
  BY DEF Running, Outermost

(* What a closure's state is made of.                                      *)
LEMMA StateTypes ==
  ASSUME TypeOK, NEW c \in Closures \cup Scoped
  PROVE  /\ state[c].a \in BOOLEAN /\ state[c].cnt \in 0..(MaxDepth + 1)
         /\ state[c] = [a |-> state[c].a, cnt |-> state[c].cnt]
  BY DEF TypeOK

-----------------------------------------------------------------------------
(* The steps of closures.                                                  *)

Others == UNCHANGED <<decoderVars, view, arg>>

LEMMA MakeInv ==
  ASSUME Inv, NEW c \in Closures, Make(c), Others
  PROVE  Inv'
  <1> USE DEF Others, decoderVars
  <1>1. /\ env[c] = "none" /\ rust[c] = "none" /\ ~Running(c)
        /\ UNCHANGED <<pointer, calls, decoded, fed, view, arg>>
        /\ state' = [state EXCEPT ![c] = [a |-> TRUE, cnt |-> 1]]
        /\ env' = [env EXCEPT ![c] = "live"]
        /\ rust' = [rust EXCEPT ![c] = "held"]
        /\ known' = known \cup {c} /\ watched' = watched \cup {c}
    BY DEF Make, Inv, ObjectInv, MadeOnce
  <1>2. (\A d : Running(d)' <=> Running(d)) /\ (\A i : Outermost(i)' <=> Outermost(i))
    BY <1>1, SameCalls
  <1>3. Count(calls, c) = 0
    BY <1>1, OwnersCounted DEF Inv
  <1>4. \A d \in Closures : state'[d].cnt = Owners(d)'
    BY <1>1, <1>3, OwnersNext, OwnersCounted DEF Inv, TypeOK
  <1>5. TypeOK'
    BY <1>1, <1>4, BindingsAssumption
    DEF Inv, TypeOK, Env, View, Objects, Closures
  <1>6. MadeOnce'
    BY <1>1, <1>2 DEF Inv, TypeOK, ObjectInv, MadeOnce, Objects
  <1>7. LivesByCount'
    BY <1>1, <1>2 DEF Inv, TypeOK, ObjectInv, LivesByCount, Collected, Objects
  <1>8. Pointers'
    BY <1>1, <1>2, BindingsAssumption
    DEF Inv, TypeOK, ObjectInv, MadeOnce, Pointers, Collected, Objects, Closures, Running
  <1>9. Executors' /\ HandleOwned' /\ Shallow' /\ Counted'
    BY <1>1, BindingsAssumption
    DEF Inv, TypeOK, ObjectInv, Executors, HandleOwned, Shallow, Counted, Objects, Closures
  <1> QED BY <1>5, <1>6, <1>7, <1>8, <1>9 DEF Inv, ObjectInv

LEMMA CallInv ==
  ASSUME Inv, NEW c \in Closures, Call(c), Others
  PROVE  Inv'
  <1> USE DEF Others, decoderVars
  <1> DEFINE f == [of |-> c, a |-> state[c].a]
  <1>1. /\ c \in known /\ env[c] # "none" /\ Len(calls) < MaxDepth
        /\ UNCHANGED <<pointer, env, rust, known, watched, decoded, fed, view, arg>>
        /\ calls' = Append(calls, f)
        /\ state' = [state EXCEPT ![c] = Entered(c)]
        /\ Entered(c) = [a |-> IF c \in Exclusive THEN FALSE ELSE state[c].a,
                         cnt |-> state[c].cnt + 1]
    BY DEF Call, Entered, Inv, ObjectInv, MadeOnce
  <1>2. f \in Frame
    BY StateTypes DEF Inv, Frame
  <1>3. /\ \A d : Running(d)' <=> Running(d) \/ d = c
        /\ \A d : Count(calls', d) = Count(calls, d) + IF c = d THEN 1 ELSE 0
        /\ calls' \in Seq(Frame) /\ Len(calls') = Len(calls) + 1
        /\ Len(calls) \in Nat
        /\ \A i \in DOMAIN calls : calls'[i] = calls[i]
        /\ calls'[Len(calls')] = f
        /\ DOMAIN calls' = DOMAIN calls \cup {Len(calls')}
    BY <1>1, <1>2, RunningCalled DEF Inv
  <1>4. state[c].cnt + 1 \in 0..(MaxDepth + 1)
    <2>1. Count(calls, c) <= Len(calls) /\ Count(calls, c) \in Nat
      BY CallsFinite DEF Inv, TypeOK, Frame
    <2> QED BY <1>1, <1>3, <2>1, OwnersCounted, BindingsAssumption DEF Inv
  <1>5. \A d \in Closures : state'[d].cnt = Owners(d)'
    BY <1>1, <1>3, OwnersNext, OwnersCounted DEF Inv, TypeOK
  <1>6. TypeOK'
    <2>1. Entered(c) \in [a : BOOLEAN, cnt : 0..(MaxDepth + 1)]
      <3> DEFINE x == IF c \in Exclusive THEN FALSE ELSE state[c].a
      <3>1. x \in BOOLEAN
        BY StateTypes DEF Inv
      <3>2. Entered(c) = [a |-> x, cnt |-> state[c].cnt + 1]
        BY <1>1
      <3> HIDE DEF x
      <3> QED BY <1>4, <3>1, <3>2
    <2>2. state' \in [Closures \cup Scoped -> [a : BOOLEAN, cnt : 0..(MaxDepth + 1)]]
      BY <1>1, <2>1 DEF Inv, TypeOK
    <2> QED BY <1>1, <1>3, <1>5, <2>2 DEF Inv, TypeOK, Frame
  <1>7. MadeOnce'
    BY <1>1, <1>3 DEF Inv, TypeOK, ObjectInv, MadeOnce
  <1>8. LivesByCount'
    BY <1>1, <1>3 DEF Inv, ObjectInv, LivesByCount, Collected
  <1>9. Pointers'
    <2>1. \A i \in DOMAIN calls : i \in 1..Len(calls)
      BY DEF Inv, TypeOK
    <2>2. \A i \in DOMAIN calls : Outermost(i)' <=> Outermost(i)
      BY <1>3, <2>1 DEF Outermost
    <2>3. ASSUME NEW i, i = Len(calls') PROVE Outermost(i)' <=> ~Running(c)
      <3>1. i = Len(calls) + 1 /\ calls'[i].of = c
        BY <1>3, <2>3
      <3>2. DOMAIN calls = 1..(i - 1)
        BY <1>3, <3>1 DEF Inv, TypeOK
      <3> QED BY <1>3, <3>1, <3>2 DEF Outermost, Running
    <2>4. Shared \cap Exclusive = {} /\ Closures = Shared \cup Exclusive
      BY BindingsAssumption DEF Closures
    <2>5. \A d \in Closures : state'[d].a <=> state[d].a /\ (d # c \/ c \in Shared)
      <3>1. \A d \in Closures : d # c => state'[d] = state[d]
        BY <1>1 DEF Inv, TypeOK
      <3>2. state'[c].a = IF c \in Exclusive THEN FALSE ELSE state[c].a
        BY <1>1 DEF Inv, TypeOK
      <3> QED BY <2>4, <3>1, <3>2
    <2>6. \A d : Collected(d)' <=> Collected(d)
      BY <1>1, <1>3 DEF Collected
    <2>7. state[c].a <=> env[c] = "live" /\ (c \in Shared \/ ~Running(c))
      BY <1>1, <2>4 DEF Inv, ObjectInv, Pointers, Collected
    <2>8. /\ \A d \in Closures :
                env'[d] = "live" /\ (d \in Shared \/ ~Running(d)') => state'[d].a
          /\ \A d \in Closures : state'[d].a => env'[d] = "live" \/ Collected(d)'
          /\ \A d \in Exclusive : state'[d].a => ~Running(d)'
      BY <1>1, <1>3, <2>4, <2>5, <2>6 DEF Inv, ObjectInv, Pointers
    <2>9. ASSUME NEW i \in DOMAIN calls', i \notin DOMAIN calls
          PROVE  i = Len(calls') /\ calls'[i].of = c /\ calls'[i].a = state[c].a
      BY <1>3, <2>9
    <2>10. \A i \in DOMAIN calls' : calls'[i].of \in Shared =>
             (calls'[i].a <=> env'[calls'[i].of] = "live")
      BY <1>1, <1>3, <2>7, <2>9 DEF Inv, ObjectInv, Pointers
    <2>11. \A i \in DOMAIN calls' : calls'[i].of \in Exclusive =>
             (calls'[i].a <=> env'[calls'[i].of] = "live" /\ Outermost(i)')
      BY <1>1, <1>3, <2>2, <2>3, <2>4, <2>7, <2>9 DEF Inv, ObjectInv, Pointers
    <2> QED BY <2>8, <2>10, <2>11 DEF Pointers
  <1>10. Executors' /\ HandleOwned' /\ Shallow' /\ Counted'
    BY <1>1, <1>3, BindingsAssumption
    DEF Inv, ObjectInv, Executors, HandleOwned, Shallow, Counted, Closures
  <1> QED BY <1>6, <1>7, <1>8, <1>9, <1>10 DEF Inv, ObjectInv

(* The innermost call of a closure is its outermost one if and only if the *)
(* closure no longer runs after it.                                        *)
LEMMA InnermostReturns ==
  ASSUME TypeOK, calls # <<>>, calls' = Front(calls)
  PROVE  /\ \A i \in DOMAIN calls' :
              calls'[i] = calls[i] /\ i \in DOMAIN calls /\ (Outermost(i)' <=> Outermost(i))
         /\ Outermost(Len(calls)) <=> \A i \in DOMAIN calls' : calls'[i].of # Last(calls).of
         /\ Len(calls) \in DOMAIN calls /\ calls[Len(calls)] = Last(calls)
  <1>1. /\ Len(calls) \in Nat \ {0} /\ Last(calls) = calls[Len(calls)]
        /\ DOMAIN calls' = 1..(Len(calls) - 1) /\ DOMAIN calls = 1..Len(calls)
        /\ \A i \in DOMAIN calls' : calls'[i] = calls[i]
    BY RunningReturned
  <1>2. \A i \in DOMAIN calls' : i \in DOMAIN calls /\ (Outermost(i)' <=> Outermost(i))
    <2> TAKE i \in DOMAIN calls'
    <2>1. i \in DOMAIN calls /\ calls'[i] = calls[i]
      BY <1>1
    <2>2. \A j \in 1..(i - 1) : calls'[j] = calls[j]
      BY <1>1
    <2> QED BY <2>1, <2>2 DEF Outermost
  <1>3. Outermost(Len(calls)) <=> \A i \in DOMAIN calls' : calls'[i].of # Last(calls).of
    BY <1>1 DEF Outermost
  <1> QED BY <1>1, <1>2, <1>3

LEMMA ReturnInv ==
  ASSUME Inv, NEW c \in Closures, Return(c), Others
  PROVE  Inv'
  <1> USE DEF Others, decoderVars
  <1> DEFINE f == Last(calls)
             s == Left(f)
  <1>1. /\ calls # <<>> /\ f.of = c /\ calls' = Front(calls)
        /\ Unref(c, s)
        /\ UNCHANGED <<pointer, rust, known, decoded, fed, view, arg>>
    BY DEF Return
  <1>2. /\ \A d : Running(d) <=> Running(d)' \/ d = c
        /\ \A d : Count(calls, d) = Count(calls', d) + IF c = d THEN 1 ELSE 0
        /\ \A d : Count(calls', d) \in Nat
        /\ \A d : Running(d)' <=> Count(calls', d) # 0
        /\ calls' \in Seq(Frame) /\ Len(calls') = Len(calls) - 1
        /\ Len(calls) \in Nat \ {0} /\ f \in Frame
    BY <1>1, RunningReturned DEF Inv
  <1>3. /\ \A i \in DOMAIN calls' :
             calls'[i] = calls[i] /\ i \in DOMAIN calls /\ (Outermost(i)' <=> Outermost(i))
        /\ Outermost(Len(calls)) <=> ~Running(c)'
        /\ Len(calls) \in DOMAIN calls /\ calls[Len(calls)] = f
    BY <1>1, InnermostReturns DEF Inv, Running
  <1>4. Shared \cap Exclusive = {} /\ Closures = Shared \cup Exclusive
    BY BindingsAssumption DEF Closures
  <1>5. s.cnt = state[c].cnt /\ s.a = IF c \in Exclusive THEN f.a ELSE state[c].a
    BY <1>1, StateTypes DEF Left, Inv
  <1>6. s \in [a : BOOLEAN, cnt : 0..(MaxDepth + 1)]
    BY <1>1, <1>2 DEF Left, Inv, TypeOK, Frame
  <1>7. /\ Running(c) /\ env[c] \in {"live", "freed"} /\ rust[c] # "none"
        /\ rust[c] \in {"held", "dropped", "forgotten"}
    BY <1>2 DEF Inv, TypeOK, Env, Objects, ObjectInv, MadeOnce
  <1>8. s.a <=> env[c] = "live" /\ (c \in Shared \/ ~Running(c)')
    BY <1>1, <1>3, <1>4, <1>5, <1>7 DEF Inv, ObjectInv, Pointers, Collected
  <1>9. s.cnt = Count(calls', c) + 1 + IF rust[c] = "dropped" THEN 0 ELSE 1
    BY <1>2, <1>5, <1>7, OwnersCounted DEF Inv
  <1> HIDE DEF s, f
  <1>10. CASE s.cnt = 1
    <2>1. rust[c] = "dropped" /\ ~Running(c)'
      BY <1>2, <1>9, <1>10
    <2>2. /\ state' = [state EXCEPT ![c] = [a |-> FALSE, cnt |-> 0]]
          /\ watched' = watched \ {c} /\ env' = Destroyed(c, s.a)
      BY <1>1, <1>10 DEF Unref
    <2>3. env' = [env EXCEPT ![c] = "freed"]
      BY <1>7, <1>8, <2>1, <2>2 DEF Destroyed, Inv, TypeOK, Objects
    <2>4. \A d \in Closures : state'[d].cnt = Owners(d)'
      BY <1>1, <1>2, <2>1, <2>2, OwnersNext, OwnersCounted DEF Inv, TypeOK
    <2>5. TypeOK'
      <3>1. [a |-> FALSE, cnt |-> 0] \in [a : BOOLEAN, cnt : 0..(MaxDepth + 1)]
        BY BindingsAssumption
      <3>2. state' \in [Closures \cup Scoped -> [a : BOOLEAN, cnt : 0..(MaxDepth + 1)]]
        BY <2>2, <3>1 DEF Inv, TypeOK
      <3>3. env' \in [Objects -> Env] /\ watched' \in SUBSET (Closures \cup Handles)
        BY <2>2, <2>3 DEF Inv, TypeOK, Env
      <3> QED BY <1>1, <1>2, <2>4, <3>2, <3>3 DEF Inv, TypeOK, Frame
    <2>6. MadeOnce'
      BY <1>1, <1>2, <1>7, <2>1, <2>2, <2>3 DEF Inv, TypeOK, Objects, ObjectInv, MadeOnce
    <2>7. LivesByCount'
      BY <1>1, <1>2, <2>1, <2>3 DEF Inv, TypeOK, Objects, ObjectInv, LivesByCount, Collected
    <2>8. Pointers'
      <3>1. \A d \in Closures : d # c => state'[d] = state[d] /\ env'[d] = env[d]
        BY <2>2, <2>3 DEF Inv, TypeOK, Objects
      <3>2. ~state'[c].a /\ env'[c] = "freed"
        BY <2>2, <2>3 DEF Inv, TypeOK, Objects
      <3>3. \A i \in DOMAIN calls' : calls'[i].of # c
        BY <2>1 DEF Running
      <3>4. /\ \A d \in Closures :
                 env'[d] = "live" /\ (d \in Shared \/ ~Running(d)') => state'[d].a
            /\ \A d \in Closures : state'[d].a => env'[d] = "live" \/ Collected(d)'
            /\ \A d \in Exclusive : state'[d].a => ~Running(d)'
        BY <1>1, <1>2, <1>4, <3>1, <3>2 DEF Inv, ObjectInv, Pointers, Collected
      <3>5. /\ \A i \in DOMAIN calls' : calls'[i].of \in Shared =>
                 (calls'[i].a <=> env'[calls'[i].of] = "live")
            /\ \A i \in DOMAIN calls' : calls'[i].of \in Exclusive =>
                 (calls'[i].a <=> env'[calls'[i].of] = "live" /\ Outermost(i)')
        BY <1>3, <1>4, <3>1, <3>3 DEF Inv, ObjectInv, Pointers
      <3> QED BY <3>4, <3>5 DEF Pointers
    <2>9. Executors' /\ HandleOwned' /\ Shallow' /\ Counted'
      <3>1. \A o \in Scoped \cup Handles : o # c /\ env'[o] = env[o]
        BY <2>3, BindingsAssumption DEF Inv, TypeOK, Objects, Closures
      <3>2. Executors'
        BY <1>3, <3>1 DEF Inv, ObjectInv, Executors
      <3>3. HandleOwned'
        BY <1>1, <2>2, <3>1 DEF Inv, ObjectInv, HandleOwned
      <3> QED BY <1>1, <1>2, <3>2, <3>3, BindingsAssumption
          DEF Inv, ObjectInv, Shallow, Counted
    <2> QED BY <2>5, <2>6, <2>7, <2>8, <2>9 DEF Inv, ObjectInv
  <1>11. CASE s.cnt # 1
    <2>1. /\ state' = [state EXCEPT ![c] = [s EXCEPT !.cnt = @ - 1]]
          /\ UNCHANGED <<watched, env>>
      BY <1>1, <1>11 DEF Unref
    <2>2. state'[c].a = s.a /\ state'[c].cnt = s.cnt - 1
      BY <1>6, <2>1 DEF Inv, TypeOK
    <2>3. \A d \in Closures : d # c => state'[d] = state[d]
      BY <2>1 DEF Inv, TypeOK
    <2>4. \A d \in Closures : state'[d].cnt = Owners(d)'
      <3>1. state'[c].cnt = Owners(c)'
        <4>1. Count(calls', c) \in Nat /\ rust'[c] = rust[c]
          BY <1>1, <1>2
        <4>2. Owners(c)' = (IF rust[c] = "dropped" THEN 0 ELSE 1) + Count(calls', c)
          BY <1>7, <4>1, OwnersNext
        <4> QED BY <1>9, <2>2, <4>1, <4>2
      <3>2. \A d \in Closures : d # c => state'[d].cnt = Owners(d)'
        BY <1>1, <1>2, <2>3, OwnersNext, OwnersCounted DEF Inv
      <3> QED BY <3>1, <3>2
    <2>5. [s EXCEPT !.cnt = @ - 1] \in [a : BOOLEAN, cnt : 0..(MaxDepth + 1)]
      BY <1>2, <1>6, <1>9, BindingsAssumption
    <2>6. TypeOK'
      BY <1>1, <1>2, <2>1, <2>4, <2>5 DEF Inv, TypeOK, Frame
    <2>7. rust[c] = "dropped" => Running(c)'
      BY <1>2, <1>9, <1>11
    <2>8. MadeOnce'
      BY <1>1, <1>2, <1>7, <2>1, <2>3 DEF Inv, ObjectInv, MadeOnce
    <2>9. LivesByCount'
      BY <1>1, <1>2, <1>7, <2>1, <2>7 DEF Inv, ObjectInv, LivesByCount, Collected
    <2>10. Pointers'
      BY <1>1, <1>2, <1>3, <1>4, <1>7, <1>8, <2>1, <2>2, <2>3
      DEF Inv, ObjectInv, Pointers, Collected
    <2>11. Executors' /\ HandleOwned' /\ Shallow' /\ Counted'
      <3>1. Executors'
        BY <1>3, <2>1 DEF Inv, ObjectInv, Executors
      <3>2. HandleOwned'
        BY <1>1, <2>1 DEF Inv, ObjectInv, HandleOwned
      <3> QED BY <1>1, <1>2, <3>1, <3>2, BindingsAssumption
          DEF Inv, ObjectInv, Shallow, Counted
    <2> QED BY <2>6, <2>8, <2>9, <2>10, <2>11 DEF Inv, ObjectInv
  <1> QED BY <1>10, <1>11

LEMMA DropInv ==
  ASSUME Inv, NEW c \in Closures, Drop(c), Others
  PROVE  Inv'
  <1> USE DEF Others, decoderVars
  <1>1. /\ rust[c] = "held" /\ rust' = [rust EXCEPT ![c] = "dropped"]
        /\ Unref(c, state[c])
        /\ UNCHANGED <<pointer, known, calls, decoded, fed, view, arg>>
    BY DEF Drop
  <1>2. (\A d : Running(d)' <=> Running(d)) /\ (\A i : Outermost(i)' <=> Outermost(i))
    BY <1>1, SameCalls
  <1>3. rust'[c] = "dropped" /\ \A d \in Closures : d # c => rust'[d] = rust[d]
    BY <1>1 DEF Inv, TypeOK
  <1>4. env[c] = "live"
    BY <1>1 DEF Inv, TypeOK, Env, Objects, ObjectInv, MadeOnce, LivesByCount, Collected
  <1>5. /\ state[c].cnt = Count(calls, c) + 1 /\ Count(calls, c) \in Nat
        /\ Running(c) <=> Count(calls, c) # 0
    BY <1>1, OwnersCounted DEF Inv
  <1>6. Shared \cap Exclusive = {} /\ Closures = Shared \cup Exclusive
    BY BindingsAssumption DEF Closures
  <1>7. rust' \in [Closures -> {"none", "held", "dropped", "forgotten"}]
    BY <1>1 DEF Inv, TypeOK
  <1>8. CASE state[c].cnt = 1
    <2>1. ~Running(c) /\ state[c].a
      BY <1>4, <1>5, <1>8 DEF Inv, ObjectInv, Pointers
    <2>2. /\ state' = [state EXCEPT ![c] = [a |-> FALSE, cnt |-> 0]]
          /\ watched' = watched \ {c} /\ env' = Destroyed(c, state[c].a)
      BY <1>1, <1>8 DEF Unref
    <2>3. env' = [env EXCEPT ![c] = "freed"]
      BY <1>4, <2>1, <2>2 DEF Destroyed, Inv, TypeOK, Objects
    <2>4. /\ \A d \in Closures : d # c => state'[d] = state[d] /\ env'[d] = env[d]
          /\ ~state'[c].a /\ state'[c].cnt = 0 /\ env'[c] = "freed"
      BY <2>2, <2>3 DEF Inv, TypeOK, Objects
    <2>5. \A d \in Closures : state'[d].cnt = Owners(d)'
      BY <1>1, <1>3, <1>5, <1>8, <2>4, OwnersNext, OwnersCounted DEF Inv
    <2>6. TypeOK'
      <3>1. [a |-> FALSE, cnt |-> 0] \in [a : BOOLEAN, cnt : 0..(MaxDepth + 1)]
        BY BindingsAssumption
      <3>2. state' \in [Closures \cup Scoped -> [a : BOOLEAN, cnt : 0..(MaxDepth + 1)]]
        BY <2>2, <3>1 DEF Inv, TypeOK
      <3>3. env' \in [Objects -> Env] /\ watched' \in SUBSET (Closures \cup Handles)
        BY <2>2, <2>3 DEF Inv, TypeOK, Env
      <3> QED BY <1>1, <1>7, <2>5, <3>2, <3>3 DEF Inv, TypeOK, Frame
    <2>7. MadeOnce'
      BY <1>1, <1>2, <1>3, <2>2, <2>4 DEF Inv, ObjectInv, MadeOnce
    <2>8. LivesByCount'
      BY <1>1, <1>2, <1>3, <2>4 DEF Inv, ObjectInv, LivesByCount, Collected
    <2>9. Pointers'
      <3>1. \A i \in DOMAIN calls : calls[i].of # c
        BY <2>1 DEF Running
      <3>2. /\ \A d \in Closures :
                 env'[d] = "live" /\ (d \in Shared \/ ~Running(d)') => state'[d].a
            /\ \A d \in Closures : state'[d].a => env'[d] = "live" \/ Collected(d)'
            /\ \A d \in Exclusive : state'[d].a => ~Running(d)'
        BY <1>1, <1>2, <1>3, <1>6, <2>4 DEF Inv, ObjectInv, Pointers, Collected
      <3>3. /\ \A i \in DOMAIN calls' : calls'[i].of \in Shared =>
                 (calls'[i].a <=> env'[calls'[i].of] = "live")
            /\ \A i \in DOMAIN calls' : calls'[i].of \in Exclusive =>
                 (calls'[i].a <=> env'[calls'[i].of] = "live" /\ Outermost(i)')
        BY <1>1, <1>2, <1>6, <2>4, <3>1 DEF Inv, ObjectInv, Pointers
      <3> QED BY <3>2, <3>3 DEF Pointers
    <2>10. Executors' /\ HandleOwned' /\ Shallow' /\ Counted'
      <3>1. \A o \in Scoped \cup Handles : o # c /\ env'[o] = env[o]
        BY <2>3, BindingsAssumption DEF Inv, TypeOK, Objects, Closures
      <3>2. Executors'
        BY <1>1, <3>1 DEF Inv, ObjectInv, Executors
      <3>3. HandleOwned'
        BY <1>1, <2>2, <3>1 DEF Inv, ObjectInv, HandleOwned
      <3> QED BY <1>1, <3>2, <3>3 DEF Inv, ObjectInv, Shallow, Counted
    <2> QED BY <2>6, <2>7, <2>8, <2>9, <2>10 DEF Inv, ObjectInv
  <1>9. CASE state[c].cnt # 1
    <2>1. /\ state' = [state EXCEPT ![c] = [state[c] EXCEPT !.cnt = @ - 1]]
          /\ UNCHANGED <<watched, env>> /\ Running(c)
      BY <1>1, <1>5, <1>9 DEF Unref
    <2>2. /\ state'[c].a = state[c].a /\ state'[c].cnt = state[c].cnt - 1
          /\ \A d \in Closures : d # c => state'[d] = state[d]
      BY <2>1 DEF Inv, TypeOK
    <2>3. \A d \in Closures : state'[d].cnt = Owners(d)'
      BY <1>1, <1>3, <1>5, <2>2, OwnersNext, OwnersCounted DEF Inv
    <2>4. [state[c] EXCEPT !.cnt = @ - 1] \in [a : BOOLEAN, cnt : 0..(MaxDepth + 1)]
      <3>1. state[c] \in [a : BOOLEAN, cnt : 0..(MaxDepth + 1)] /\ state[c].cnt - 1 >= 0
        BY <1>5 DEF Inv, TypeOK
      <3> QED BY <3>1, BindingsAssumption
    <2>5. TypeOK'
      BY <1>1, <1>7, <2>1, <2>3, <2>4 DEF Inv, TypeOK, Frame
    <2>6. MadeOnce' /\ LivesByCount'
      BY <1>1, <1>2, <1>3, <2>1, <2>2 DEF Inv, ObjectInv, MadeOnce, LivesByCount, Collected
    <2>7. Pointers'
      BY <1>1, <1>2, <1>3, <1>6, <2>1, <2>2 DEF Inv, ObjectInv, Pointers, Collected
    <2>8. Executors' /\ HandleOwned' /\ Shallow' /\ Counted'
      BY <1>1, <2>1 DEF Inv, ObjectInv, Executors, HandleOwned, Shallow, Counted
    <2> QED BY <2>5, <2>6, <2>7, <2>8 DEF Inv, ObjectInv
  <1> QED BY <1>8, <1>9

LEMMA ForgetInv ==
  ASSUME Inv, NEW c \in Closures, Forget(c), Others
  PROVE  Inv'
  <1> USE DEF Others, decoderVars
  <1>1. /\ rust[c] = "held" /\ rust' = [rust EXCEPT ![c] = "forgotten"]
        /\ UNCHANGED <<state, pointer, env, known, watched, calls, decoded, fed, view, arg>>
    BY DEF Forget
  <1>2. (\A d : Running(d)' <=> Running(d)) /\ (\A i : Outermost(i)' <=> Outermost(i))
    BY <1>1, SameCalls
  <1>3. rust'[c] = "forgotten" /\ \A d \in Closures : d # c => rust'[d] = rust[d]
    BY <1>1 DEF Inv, TypeOK
  <1>4. \A d \in Closures : state'[d].cnt = Owners(d)'
    BY <1>1, <1>3, OwnersNext, OwnersCounted DEF Inv
  <1>5. TypeOK'
    BY <1>1, <1>4 DEF Inv, TypeOK
  <1>6. MadeOnce' /\ LivesByCount'
    BY <1>1, <1>2, <1>3 DEF Inv, ObjectInv, MadeOnce, LivesByCount, Collected
  <1>7. Pointers'
    BY <1>1, <1>2, <1>3 DEF Inv, ObjectInv, Pointers, Collected
  <1>8. Executors' /\ HandleOwned' /\ Shallow' /\ Counted'
    BY <1>1 DEF Inv, ObjectInv, Executors, HandleOwned, Shallow, Counted
  <1> QED BY <1>5, <1>6, <1>7, <1>8 DEF Inv, ObjectInv

-----------------------------------------------------------------------------
(* The steps of executors and handles.                                     *)

LEMMA NewPromiseInv ==
  ASSUME Inv, NEW c \in Scoped, NewPromise(c), Others
  PROVE  Inv'
  <1> USE DEF Others, decoderVars
  <1> DEFINE f == [of |-> c, a |-> TRUE]
  <1>1. /\ env[c] = "none" /\ Len(calls) < MaxDepth
        /\ UNCHANGED <<state, pointer, rust, known, watched, decoded, fed, view, arg>>
        /\ calls' = Append(calls, f) /\ env' = [env EXCEPT ![c] = "live"]
    BY DEF NewPromise
  <1>2. f \in Frame /\ f.of = c
    BY DEF Frame
  <1>3. /\ \A d : Running(d)' <=> Running(d) \/ d = c
        /\ \A d : Count(calls', d) = Count(calls, d) + IF c = d THEN 1 ELSE 0
        /\ calls' \in Seq(Frame) /\ Len(calls') = Len(calls) + 1
        /\ Len(calls) \in Nat
        /\ \A i \in DOMAIN calls : calls'[i] = calls[i]
        /\ calls'[Len(calls')] = f
        /\ DOMAIN calls' = DOMAIN calls \cup {Len(calls')}
    BY <1>1, <1>2, RunningCalled DEF Inv
  <1>4. /\ c \notin Closures \cup Handles
        /\ \A o \in Closures \cup Scoped \cup Handles : o # c => env'[o] = env[o]
        /\ env'[c] = "live" /\ Scoped \cap Closures = {} /\ Shared \cup Exclusive = Closures
    BY <1>1, BindingsAssumption DEF Inv, TypeOK, Objects, Closures
  <1>5. \A d \in Closures : (Running(d)' <=> Running(d)) /\ Count(calls', d) = Count(calls, d)
    BY <1>3, <1>4, OwnersCounted DEF Inv
  <1>6. \A d \in Closures : state'[d].cnt = Owners(d)'
    <2> TAKE d \in Closures
    <2>1. rust'[d] = rust[d] /\ state'[d] = state[d] /\ Count(calls', d) = Count(calls, d)
      BY <1>1, <1>5
    <2> QED BY <2>1, OwnersNext, OwnersCounted DEF Inv
  <1>7. TypeOK'
    BY <1>1, <1>3, <1>6 DEF Inv, TypeOK, Frame, Env
  <1>8. MadeOnce' /\ LivesByCount'
    BY <1>1, <1>4, <1>5 DEF Inv, ObjectInv, MadeOnce, LivesByCount, Collected
  <1>9. ASSUME NEW i \in DOMAIN calls', i \notin DOMAIN calls
        PROVE  calls'[i].of = c
    BY <1>2, <1>3, <1>9
  <1>10. \A i \in DOMAIN calls : calls'[i] = calls[i] /\ (Outermost(i)' <=> Outermost(i))
    <2> TAKE i \in DOMAIN calls
    <2>1. calls'[i] = calls[i] /\ \A j \in 1..(i - 1) : calls'[j] = calls[j]
      BY <1>3 DEF Inv, TypeOK
    <2> QED BY <2>1 DEF Outermost
  <1>11. Pointers'
    <2>1. /\ \A d \in Closures :
               env'[d] = "live" /\ (d \in Shared \/ ~Running(d)') => state'[d].a
          /\ \A d \in Closures : state'[d].a => env'[d] = "live" \/ Collected(d)'
          /\ \A d \in Exclusive : state'[d].a => ~Running(d)'
      BY <1>1, <1>4, <1>5 DEF Inv, ObjectInv, Pointers, Collected
    <2>2. /\ \A i \in DOMAIN calls' : calls'[i].of \in Shared =>
               (calls'[i].a <=> env'[calls'[i].of] = "live")
          /\ \A i \in DOMAIN calls' : calls'[i].of \in Exclusive =>
               (calls'[i].a <=> env'[calls'[i].of] = "live" /\ Outermost(i)')
      BY <1>4, <1>9, <1>10 DEF Inv, ObjectInv, Pointers
    <2> QED BY <2>1, <2>2 DEF Pointers
  <1>12. Executors'
    <2>1. \A i \in DOMAIN calls : calls[i].of # c
      BY <1>1 DEF Inv, ObjectInv, Executors
    <2>2. \A i \in DOMAIN calls' : calls'[i].of \in Scoped => env'[calls'[i].of] = "live"
      BY <1>4, <1>9, <1>10 DEF Inv, ObjectInv, Executors
    <2>3. \A i, j \in DOMAIN calls' :
            i \notin DOMAIN calls /\ j \notin DOMAIN calls => i = j
      BY <1>3
    <2>4. \A i, j \in DOMAIN calls' :
            calls'[i].of \in Scoped /\ i # j => calls'[i].of # calls'[j].of
      <3> TAKE i, j \in DOMAIN calls'
      <3>1. CASE i \in DOMAIN calls /\ j \in DOMAIN calls
        BY <1>10, <3>1 DEF Inv, ObjectInv, Executors
      <3>2. CASE i \notin DOMAIN calls \/ j \notin DOMAIN calls
        BY <1>9, <1>10, <2>1, <2>3, <3>2
      <3> QED BY <3>1, <3>2
    <2>5. \A d \in Scoped : env'[d] # "corrupt"
      BY <1>4 DEF Inv, ObjectInv, Executors
    <2> QED BY <2>2, <2>4, <2>5 DEF Executors
  <1>13. HandleOwned' /\ Shallow' /\ Counted'
    BY <1>1, <1>3, <1>4, BindingsAssumption
    DEF Inv, ObjectInv, HandleOwned, Shallow, Counted
  <1> QED BY <1>7, <1>8, <1>11, <1>12, <1>13 DEF Inv, ObjectInv

LEMMA PromiseMadeInv ==
  ASSUME Inv, NEW c \in Scoped, PromiseMade(c), Others
  PROVE  Inv'
  <1> USE DEF Others, decoderVars
  <1>1. /\ calls # <<>> /\ Last(calls).of = c /\ calls' = Front(calls)
        /\ UNCHANGED <<state, pointer, rust, known, watched, decoded, fed, view, arg>>
        /\ env' = [env EXCEPT ![c] = "freed"]
    BY DEF PromiseMade
  <1>2. /\ \A d : Running(d) <=> Running(d)' \/ d = c
        /\ \A d : Count(calls, d) = Count(calls', d) + IF c = d THEN 1 ELSE 0
        /\ \A d : Count(calls', d) \in Nat
        /\ calls' \in Seq(Frame) /\ Len(calls') = Len(calls) - 1
        /\ Len(calls) \in Nat \ {0} /\ DOMAIN calls' = 1..(Len(calls) - 1)
    BY <1>1, RunningReturned DEF Inv
  <1>3. /\ \A i \in DOMAIN calls' :
             calls'[i] = calls[i] /\ i \in DOMAIN calls /\ (Outermost(i)' <=> Outermost(i))
        /\ Len(calls) \in DOMAIN calls /\ calls[Len(calls)].of = c
    BY <1>1, InnermostReturns DEF Inv
  <1>4. /\ c \notin Closures \cup Handles
        /\ \A o \in Closures \cup Scoped \cup Handles : o # c => env'[o] = env[o]
        /\ env'[c] = "freed" /\ Scoped \cap Closures = {} /\ Shared \cup Exclusive = Closures
    BY <1>1, BindingsAssumption DEF Inv, TypeOK, Objects, Closures
  <1>5. \A d \in Closures : (Running(d)' <=> Running(d)) /\ Count(calls', d) = Count(calls, d)
    BY <1>2, <1>4
  <1>6. \A d \in Closures : state'[d].cnt = Owners(d)'
    <2> TAKE d \in Closures
    <2>1. rust'[d] = rust[d] /\ state'[d] = state[d] /\ Count(calls', d) = Count(calls, d)
      BY <1>1, <1>5
    <2> QED BY <2>1, OwnersNext, OwnersCounted DEF Inv
  <1>7. TypeOK'
    BY <1>1, <1>2, <1>6 DEF Inv, TypeOK, Frame, Env
  <1>8. MadeOnce' /\ LivesByCount'
    BY <1>1, <1>4, <1>5 DEF Inv, ObjectInv, MadeOnce, LivesByCount, Collected
  <1>9. Pointers'
    <2>1. /\ \A d \in Closures :
               env'[d] = "live" /\ (d \in Shared \/ ~Running(d)') => state'[d].a
          /\ \A d \in Closures : state'[d].a => env'[d] = "live" \/ Collected(d)'
          /\ \A d \in Exclusive : state'[d].a => ~Running(d)'
      BY <1>1, <1>4, <1>5 DEF Inv, ObjectInv, Pointers, Collected
    <2>2. /\ \A i \in DOMAIN calls' : calls'[i].of \in Shared =>
               (calls'[i].a <=> env'[calls'[i].of] = "live")
          /\ \A i \in DOMAIN calls' : calls'[i].of \in Exclusive =>
               (calls'[i].a <=> env'[calls'[i].of] = "live" /\ Outermost(i)')
      BY <1>3, <1>4 DEF Inv, ObjectInv, Pointers
    <2> QED BY <2>1, <2>2 DEF Pointers
  <1>10. Executors'
    <2>1. \A i \in DOMAIN calls' : calls'[i].of # c
      BY <1>2, <1>3 DEF Inv, ObjectInv, Executors
    <2> QED BY <1>3, <1>4, <2>1 DEF Inv, ObjectInv, Executors
  <1>11. HandleOwned' /\ Shallow' /\ Counted'
    BY <1>1, <1>2, <1>4, BindingsAssumption
    DEF Inv, ObjectInv, HandleOwned, Shallow, Counted
  <1> QED BY <1>7, <1>8, <1>9, <1>10, <1>11 DEF Inv, ObjectInv

(* What does not touch closures leaves them as they are.                   *)
ClosuresKept ==
  /\ UNCHANGED <<state, rust, calls>>
  /\ \A c \in Closures \cup Scoped :
       env'[c] = env[c] /\ (c \in known <=> c \in known') /\ (c \in watched <=> c \in watched')

LEMMA KeptInv ==
  ASSUME Inv, ClosuresKept
  PROVE  /\ MadeOnce' /\ LivesByCount' /\ Pointers' /\ Executors' /\ Shallow'
         /\ \A d \in Closures : state'[d].cnt = Owners(d)'
  <1>1. UNCHANGED <<state, rust, calls>>
    BY DEF ClosuresKept
  <1>2. (\A d : Running(d)' <=> Running(d)) /\ (\A i : Outermost(i)' <=> Outermost(i))
    BY <1>1, SameCalls
  <1>3. \A d \in Closures : state'[d].cnt = Owners(d)'
    BY <1>1, OwnersNext, OwnersCounted DEF Inv
  <1>4. \A d \in Closures : Collected(d)' <=> Collected(d)
    BY <1>1, <1>2 DEF ClosuresKept, Collected
  <1>5. MadeOnce' /\ LivesByCount'
    BY <1>1, <1>2, <1>4 DEF Inv, ObjectInv, MadeOnce, LivesByCount, ClosuresKept
  <1>6. Pointers'
    BY <1>1, <1>2, <1>4 DEF Inv, ObjectInv, Pointers, ClosuresKept, Closures
  <1>7. Executors' /\ Shallow'
    BY <1>1 DEF Inv, ObjectInv, Executors, Shallow, ClosuresKept
  <1> QED BY <1>3, <1>5, <1>6, <1>7

LEMMA HandleInv ==
  ASSUME Inv, NEW h \in Handles, Wrap(h) \/ Free(h), Others
  PROVE  Inv'
  <1> USE DEF Others, decoderVars
  <1>1. h \notin Closures \cup Scoped /\ \A o \in Handles : o \notin Closures \cup Scoped
    BY BindingsAssumption DEF Closures
  <1>2. CASE Wrap(h)
    <2>1. /\ env[h] = "none" /\ pointer' = [pointer EXCEPT ![h] = TRUE]
          /\ env' = [env EXCEPT ![h] = "live"]
          /\ known' = known \cup {h} /\ watched' = watched \cup {h}
          /\ UNCHANGED <<state, rust, calls, decoded, fed, view, arg>>
      BY <1>2 DEF Wrap
    <2>2. ClosuresKept
      BY <1>1, <2>1 DEF ClosuresKept, Inv, TypeOK, Objects
    <2>3. TypeOK'
      BY <2>1, <2>2, KeptInv DEF Inv, TypeOK, Env, Objects
    <2>4. HandleOwned'
      BY <2>1 DEF Inv, TypeOK, ObjectInv, HandleOwned, Objects
    <2> QED BY <2>1, <2>2, <2>3, <2>4, KeptInv DEF Inv, ObjectInv, Counted
  <1>3. CASE Free(h)
    <2>1. /\ h \in known /\ pointer' = [pointer EXCEPT ![h] = FALSE]
          /\ watched' = watched \ {h} /\ env' = Destroyed(h, pointer[h])
          /\ UNCHANGED <<state, rust, known, calls, decoded, fed, view, arg>>
      BY <1>3 DEF Free, DestroyIntoRaw
    <2>2. pointer[h] <=> env[h] = "live"
      BY <2>1 DEF Inv, ObjectInv, HandleOwned
    <2>3. env' = IF env[h] = "live" THEN [env EXCEPT ![h] = "freed"] ELSE env
      BY <2>1, <2>2 DEF Destroyed, Inv, TypeOK, Objects
    <2>4. ClosuresKept
      BY <1>1, <2>1, <2>3 DEF ClosuresKept, Inv, TypeOK, Objects
    <2>5. TypeOK'
      <3>1. env' \in [Objects -> Env]
        BY <2>3 DEF Inv, TypeOK, Env
      <3> QED BY <2>1, <2>4, <3>1, KeptInv DEF Inv, TypeOK
    <2>6. HandleOwned'
      BY <2>1, <2>3 DEF Inv, TypeOK, ObjectInv, HandleOwned, Objects
    <2> QED BY <2>1, <2>4, <2>5, <2>6, KeptInv DEF Inv, ObjectInv, Counted
  <1> QED BY <1>2, <1>3

-----------------------------------------------------------------------------
(* The collector, and the steps that touch no object.                      *)

LEMMA UnreachableInv ==
  ASSUME Inv, NEW o \in Objects, Unreachable(o), Others
  PROVE  Inv'
  <1> USE DEF Others, decoderVars
  <1>1. /\ known' = known \ {o}
        /\ UNCHANGED <<state, pointer, env, rust, watched, calls, decoded, fed, view, arg>>
    BY DEF Unreachable
  <1>2. (\A d : Running(d)' <=> Running(d)) /\ (\A i : Outermost(i)' <=> Outermost(i))
    BY <1>1, SameCalls
  <1>3. \A d \in Closures : state'[d].cnt = Owners(d)'
    BY <1>1, OwnersNext, OwnersCounted DEF Inv
  <1>4. TypeOK'
    BY <1>1, <1>3 DEF Inv, TypeOK
  <1>5. \A d \in Closures : Collected(d) => Collected(d)'
    BY <1>1, <1>2 DEF Collected
  <1>6. MadeOnce' /\ LivesByCount'
    BY <1>1, <1>2, <1>5 DEF Inv, ObjectInv, MadeOnce, LivesByCount
  <1>7. Pointers'
    BY <1>1, <1>2, <1>5 DEF Inv, ObjectInv, Pointers
  <1>8. Executors' /\ HandleOwned' /\ Shallow' /\ Counted'
    BY <1>1 DEF Inv, ObjectInv, Executors, HandleOwned, Shallow, Counted
  <1> QED BY <1>4, <1>6, <1>7, <1>8 DEF Inv, ObjectInv

LEMMA FinalizeInv ==
  ASSUME Inv, NEW o \in Objects, Finalize(o), Others
  PROVE  Inv'
  <1> USE DEF Others, decoderVars
  <1>1. /\ o \in watched /\ o \notin known /\ ~Running(o) /\ (o \in Closures => rust[o] # "held")
        /\ watched' = watched \ {o} /\ env' = Destroyed(o, o \in Closures => state[o].a)
        /\ UNCHANGED <<state, pointer, rust, known, calls, decoded, fed, view, arg>>
    BY DEF Finalize, Garbage
  <1>2. o \in Closures \cup Handles /\ Closures \cap (Scoped \cup Handles) = {}
        /\ Scoped \cap Handles = {} /\ Closures = Shared \cup Exclusive
    BY <1>1, BindingsAssumption DEF Inv, TypeOK, Closures
  <1>3. env[o] = "live"
    BY <1>1, <1>2 DEF Inv, ObjectInv, MadeOnce, HandleOwned
  <1>4. o \in Closures => Collected(o) /\ state[o].a
    BY <1>1, <1>3 DEF Inv, ObjectInv, LivesByCount, Pointers, Collected
  <1>5. env' = [env EXCEPT ![o] = "freed"]
    BY <1>1, <1>3, <1>4 DEF Destroyed, Inv, TypeOK
  <1>6. env'[o] = "freed" /\ \A p \in Objects : p # o => env'[p] = env[p]
    BY <1>5 DEF Inv, TypeOK
  <1>7. (\A d : Running(d)' <=> Running(d)) /\ (\A i : Outermost(i)' <=> Outermost(i))
    BY <1>1, SameCalls
  <1>8. \A d \in Closures : state'[d].cnt = Owners(d)'
    BY <1>1, OwnersNext, OwnersCounted DEF Inv
  <1>9. TypeOK'
    BY <1>1, <1>5, <1>8 DEF Inv, TypeOK, Env
  <1>10. \A d \in Closures : Collected(d)' <=> Collected(d)
    BY <1>1, <1>7 DEF Collected
  <1>11. MadeOnce' /\ LivesByCount'
    BY <1>1, <1>4, <1>6, <1>7, <1>10
    DEF Inv, ObjectInv, MadeOnce, LivesByCount, Objects, Collected
  <1>12. Pointers'
    <2>1. \A i \in DOMAIN calls : calls[i].of # o
      BY <1>1 DEF Running
    <2>2. /\ \A d \in Closures :
               env'[d] = "live" /\ (d \in Shared \/ ~Running(d)') => state'[d].a
          /\ \A d \in Closures : state'[d].a => env'[d] = "live" \/ Collected(d)'
          /\ \A d \in Exclusive : state'[d].a => ~Running(d)'
      BY <1>1, <1>2, <1>4, <1>6, <1>7, <1>10 DEF Inv, ObjectInv, Pointers, Objects
    <2>3. /\ \A i \in DOMAIN calls' : calls'[i].of \in Shared =>
               (calls'[i].a <=> env'[calls'[i].of] = "live")
          /\ \A i \in DOMAIN calls' : calls'[i].of \in Exclusive =>
               (calls'[i].a <=> env'[calls'[i].of] = "live" /\ Outermost(i)')
      BY <1>1, <1>2, <1>6, <1>7, <2>1 DEF Inv, ObjectInv, Pointers, Objects
    <2> QED BY <2>2, <2>3 DEF Pointers
  <1>13. Executors'
    BY <1>1, <1>2, <1>6 DEF Inv, ObjectInv, Executors, Objects
  <1>14. HandleOwned'
    BY <1>1, <1>2, <1>6 DEF Inv, ObjectInv, HandleOwned, Objects
  <1>15. Shallow' /\ Counted'
    BY <1>1 DEF Inv, ObjectInv, Shallow, Counted
  <1> QED BY <1>9, <1>11, <1>12, <1>13, <1>14, <1>15 DEF Inv, ObjectInv

LEMMA ObjectsKept ==
  ASSUME Inv, UNCHANGED objectVars
  PROVE  ObjectInv' /\ \A d \in Closures : state'[d].cnt = Owners(d)'
  <1>1. ClosuresKept
    BY DEF objectVars, ClosuresKept
  <1>2. HandleOwned'
    BY DEF Inv, ObjectInv, HandleOwned, objectVars
  <1> QED BY <1>1, <1>2, KeptInv DEF ObjectInv

(* A call into wasm leaves some view, and so does a look at the memory.    *)
LEMMA Views ==
  ASSUME NEW v \in View, NEW grew
  PROVE  After(v, grew) \in View /\ CurrentView(v) \in View
  BY DEF After, CurrentView, View

LEMMA PassTextInv ==
  ASSUME Inv, NEW h \in Handles, PassText(h)
  PROVE  Inv'
  <1>1. UNCHANGED objectVars /\ UNCHANGED decoderVars
    BY DEF PassText
  <1>2. PICK text \in Texts, grew \in [1..3 -> BOOLEAN] :
          /\ arg' = [text |-> text, bytes |-> PassString(text, view, grew).bytes, on |-> h]
          /\ view' = PassString(text, view, grew).view
    BY DEF PassText
  <1>3. view' \in View
    <2>1. \A g : After("fresh", g) \in View
      BY Views DEF View
    <2> QED BY <1>2, <2>1 DEF PassString, CurrentView, View
  <1>4. arg'.text \in Texts /\ arg'.on \in Handles
    BY <1>2
  <1> QED BY <1>1, <1>3, <1>4, ObjectsKept
      DEF Inv, TypeOK, Counted, decoderVars, objectVars

LEMMA ChatSendInv ==
  ASSUME Inv, ChatSend
  PROVE  Inv'
  <1>1. /\ UNCHANGED objectVars /\ UNCHANGED decoderVars /\ arg' = Nothing
        /\ \E grew \in BOOLEAN : view' = After(view, grew)
    BY DEF ChatSend
  <1>2. view' \in View
    BY <1>1, Views DEF Inv, TypeOK
  <1> QED BY <1>1, <1>2, ObjectsKept DEF Inv, TypeOK, Counted, decoderVars, objectVars

LEMMA DecodeInv ==
  ASSUME Inv, NEW n \in StringLengths, Decode(n)
  PROVE  Inv'
  <1>1. UNCHANGED objectVars /\ arg' = arg /\ view' = CurrentView(view)
    BY DEF Decode
  <1>2. n \in Nat /\ n < DecoderBudget /\ DecoderBudget \in Nat
    BY BindingsAssumption
  <1>3. Counted' /\ decoded' \in Nat /\ fed' \in Nat
    BY <1>2 DEF Decode, Recounted, Inv, TypeOK, Counted
  <1>4. view' \in View
    BY <1>1 DEF CurrentView, View
  <1> QED BY <1>1, <1>3, <1>4, ObjectsKept DEF Inv, TypeOK, objectVars

-----------------------------------------------------------------------------
(* The invariant.                                                          *)

LEMMA InitInv == Init => Inv
  <1> SUFFICES ASSUME Init PROVE Inv
    OBVIOUS
  <1>1. /\ \A c : ~Running(c) /\ CallsOf(calls, c) = {} /\ DOMAIN calls = {} /\ Len(calls) = 0
        /\ calls \in Seq(Frame)
    BY DEF Init, Running, CallsOf
  <1>2. \A c : Count(calls, c) = 0
    BY <1>1, FS_EmptySet DEF Count
  <1>3. \A c \in Closures : state[c].cnt = Owners(c)
    BY <1>2 DEF Init, Owners, Count, CallsOf
  <1>4. TypeOK
    BY <1>1, <1>3, BindingsAssumption DEF Init, TypeOK, Objects, Env, View, Frame
  <1>5. ObjectInv
    BY <1>1, BindingsAssumption
    DEF Init, Objects, Closures, ObjectInv, Shallow, MadeOnce, LivesByCount, Pointers,
        Executors, HandleOwned
  <1> QED BY <1>4, <1>5, BindingsAssumption DEF Init, Inv, Counted

LEMMA NextInv == Inv /\ [Next]_vars => Inv'
  <1> SUFFICES ASSUME Inv, [Next]_vars PROVE Inv'
    OBVIOUS
  <1>1. ASSUME ObjectStep, Others PROVE Inv'
    <2>1. ASSUME NEW c \in Closures,
                 Make(c) \/ Call(c) \/ Return(c) \/ Drop(c) \/ Forget(c)
          PROVE  Inv'
      BY <1>1, <2>1, MakeInv, CallInv, ReturnInv, DropInv, ForgetInv
    <2>2. ASSUME NEW c \in Scoped, NewPromise(c) \/ PromiseMade(c) PROVE Inv'
      BY <1>1, <2>2, NewPromiseInv, PromiseMadeInv
    <2>3. ASSUME NEW h \in Handles, Wrap(h) \/ Free(h) PROVE Inv'
      BY <1>1, <2>3, HandleInv
    <2>4. ASSUME NEW o \in Objects, Unreachable(o) \/ Finalize(o) PROVE Inv'
      BY <1>1, <2>4, UnreachableInv, FinalizeInv
    <2> QED BY <1>1, <2>1, <2>2, <2>3, <2>4 DEF ObjectStep
  <1>2. CASE UNCHANGED vars
    <2>1. /\ UNCHANGED objectVars
          /\ UNCHANGED <<decoded, fed, view, arg>>
      BY <1>2 DEF vars, decoderVars
    <2> QED BY <2>1, ObjectsKept DEF Inv, TypeOK, Counted, objectVars
  <1>3. CASE Next
    BY <1>1, <1>3, DecodeInv, PassTextInv, ChatSendInv DEF Next, Others
  <1> QED BY <1>2, <1>3

LEMMA Invariance == Spec => []Inv
  BY InitInv, NextInv, PTL DEF Spec

(* The glue keeps its types, and every closure's count is that of its      *)
(* owners, however calls nest (cnt in makeClosure and makeMutClosure).     *)
THEOREM TypeCorrect == Spec => []TypeOK
  BY Invariance, PTL DEF Inv

(* No call into wasm uses a closure or a Chat that was freed, and no FnMut *)
(* is entered while it runs (makeMutClosure, Chat.free).                   *)
THEOREM CallsAreSafe == Spec => []CallsSafe
  <1>1. ASSUME Inv PROVE CallsSafe
    <2>1. Closures = Shared \cup Exclusive
      BY DEF Closures
    <2>2. \A i \in DOMAIN calls : i \in 1..Len(calls) /\ calls[i].of \in Closures \cup Scoped
      <3>1. calls \in Seq(Frame)
        BY <1>1 DEF Inv, TypeOK, Frame
      <3>2. \A i \in DOMAIN calls : i \in 1..Len(calls) /\ calls[i] \in Frame
        BY <3>1
      <3>3. \A g \in Frame : g.of \in Closures \cup Scoped
        BY DEF Frame
      <3> QED BY <3>2, <3>3
    <2>3. RunsOnLive
      BY <1>1, <2>1, <2>2 DEF Inv, ObjectInv, Pointers, Executors, HandleOwned, RunsOnLive
    <2>4. ASSUME NEW i \in DOMAIN calls, NEW j \in DOMAIN calls, i < j,
                 calls[i].of = calls[j].of, calls[i].of \in Exclusive
          PROVE  ~calls[j].a
      <3>1. i \in 1..(j - 1)
        BY <2>2, <2>4
      <3> QED BY <1>1, <2>4, <3>1 DEF Inv, ObjectInv, Pointers, Outermost
    <2>5. MutExclusive
      BY <2>2, <2>4 DEF MutExclusive
    <2> QED BY <2>3, <2>5 DEF CallsSafe
  <1> QED BY <1>1, Invariance, PTL

(* Each value is freed once, when it is due and not before, by counts,     *)
(* free() and finalizers together (_wbg_cb_unref, ChatFinalization).       *)
THEOREM OwnershipHolds == Spec => []Ownership
  <1>1. ASSUME Inv PROVE Ownership
    <2>1. \A c \in Closures : env[c] \in {"none", "live", "freed"}
      BY <1>1 DEF Inv, TypeOK, Env, Objects, ObjectInv, MadeOnce
    <2>2. DroppedIsFreed
      BY <1>1 DEF Inv, ObjectInv, MadeOnce, LivesByCount, DroppedIsFreed
    <2>3. LiveWhileNeeded
      BY <1>1, <2>1
      DEF Inv, ObjectInv, MadeOnce, LivesByCount, Pointers, Collected, LiveWhileNeeded
    <2>4. FreedOnce
      BY <1>1 DEF Inv, ObjectInv, MadeOnce, Executors, HandleOwned, FreedOnce, Objects
    <2> QED BY <2>2, <2>3, <2>4 DEF Ownership
  <1> QED BY <1>1, Invariance, PTL

(* No TextDecoder is given its budget or more, for any lengths below it    *)
(* (decodeText).                                                           *)
THEOREM BudgetKept == Spec => []WithinBudget
  <1>1. Inv => WithinBudget
    BY DEF Inv, Counted, WithinBudget
  <1> QED BY <1>1, Invariance, PTL

-----------------------------------------------------------------------------
(* How texts cross.  No induction over data is to be had, but the least    *)
(* number at which a formula fails is a witness as good.                   *)

(* Every nonempty set of numbers has a least one.                          *)
LEMMA Least ==
  ASSUME NEW T \in SUBSET Nat, T # {}
  PROVE  \E m \in T : \A k \in T : m <= k
  <1>1. PICK m \in T : \A k \in T : <<k, m>> \notin OpToRel(<, Nat)
    BY NatLessThanWellFounded, WFMin
  <1>2. \A k \in T : ~(k < m)
    BY <1>1 DEF OpToRel
  <1> QED BY <1>2

(* What holds at 0, and at each number if at the one before, holds up to n: *)
(* the numbers in T are those it does not hold at.                         *)
LEMMA NoneLeft ==
  ASSUME NEW n \in Nat, NEW T \in SUBSET (0..n), 0 \notin T,
         \A i \in 1..n : i \in T => i - 1 \in T
  PROVE  T = {}
  <1> SUFFICES ASSUME T # {} PROVE FALSE
    OBVIOUS
  <1>1. T \in SUBSET Nat
    OBVIOUS
  <1>2. PICK m \in T : \A k \in T : m <= k
    BY <1>1, Least
  <1>3. m \in 1..n /\ ~(m <= m - 1)
    BY <1>2
  <1> QED BY <1>2, <1>3

(* The recursion by which FlattenSeq is defined has a solution.            *)
LEMMA FlattenExists ==
  ASSUME NEW s, NEW n \in Nat
  PROVE  \E g : g = [i \in 1..n |-> IF i = 1 THEN s[i] ELSE g[i-1] \o s[i]]
  <1> DEFINE Solves(g, m) == g = [i \in 1..m |-> IF i = 1 THEN s[i] ELSE g[i-1] \o s[i]]
             T == {m \in 0..n : ~\E g : Solves(g, m)}
  <1>1. 0 \notin T
    <2> DEFINE g == [i \in 1..0 |-> s[i]]
    <2>1. Solves(g, 0)
      OBVIOUS
    <2> HIDE DEF Solves, g
    <2> QED BY <2>1
  <1>2. ASSUME NEW m \in 1..n, m - 1 \notin T PROVE m \notin T
    <2>1. m - 1 \in 0..n
      OBVIOUS
    <2>2. PICK g : Solves(g, m - 1)
      BY <1>2, <2>1
    <2> DEFINE h == [i \in 1..m |-> IF i = 1 THEN s[i] ELSE g[i-1] \o s[i]]
    <2>3. \A i \in 1..(m - 1) : g[i] = h[i]
      <3> SUFFICES ASSUME NEW i \in 1..(m - 1) PROVE g[i] = h[i]
        OBVIOUS
      <3> DEFINE e == IF i = 1 THEN s[i] ELSE g[i-1] \o s[i]
      <3>1. i \in 1..m
        OBVIOUS
      <3>2. h[i] = e
        BY <3>1
      <3>3. g[i] = e
        BY <2>2
      <3> QED BY <3>2, <3>3
    <2>4. \A i \in 1..m : i # 1 => i - 1 \in 1..(m - 1)
      OBVIOUS
    <2>5. \A i \in 1..m : h[i] = IF i = 1 THEN s[i] ELSE h[i-1] \o s[i]
      BY <2>3, <2>4
    <2>6. Solves(h, m)
      BY <2>5
    <2> HIDE DEF Solves, h
    <2> QED BY <2>6
  <1> HIDE DEF Solves
  <1>3. T = {}
    <2>1. \A i \in 1..n : i \in T => i - 1 \in T
      BY <1>2
    <2> HIDE DEF T
    <2>2. T \in SUBSET (0..n)
      BY DEF T
    <2> QED BY <1>1, <2>1, <2>2, NoneLeft
  <1>4. \E g : Solves(g, n)
    BY <1>3
  <1> QED BY <1>4 DEF Solves

(* What FlattenSeq returns is the last value of its recursion.             *)
LEMMA FlattenIs ==
  ASSUME NEW s, Len(s) \in Nat \ {0}
  PROVE  \E f : /\ f = [i \in 1..Len(s) |-> IF i = 1 THEN s[i] ELSE f[i-1] \o s[i]]
                /\ FlattenSeq(s) = f[Len(s)]
  <1> DEFINE f == CHOOSE h : h = [i \in 1..Len(s) |-> IF i = 1 THEN s[i] ELSE h[i-1] \o s[i]]
  <1>1. f = [i \in 1..Len(s) |-> IF i = 1 THEN s[i] ELSE f[i-1] \o s[i]]
    <2>1. \E g : g = [i \in 1..Len(s) |-> IF i = 1 THEN s[i] ELSE g[i-1] \o s[i]]
      BY FlattenExists
    <2> QED BY <2>1
  <1>2. FlattenSeq(s) = f[Len(s)]
    BY DEF FlattenSeq
  <1> HIDE DEF f
  <1> QED BY <1>1, <1>2

(* The steps in which the sequences of s are put together.                 *)
Joins(f, s, B) ==
  /\ f \in [0..Len(s) -> Seq(B)] /\ f[0] = <<>>
  /\ \A i \in 1..Len(s) : f[i] = f[i - 1] \o s[i]
  /\ FlattenSeq(s) = f[Len(s)]

(* The recursion runs through sequences, from the empty one on.            *)
LEMMA FlattenJoins ==
  ASSUME NEW B, NEW s \in Seq(Seq(B))
  PROVE  \E f : Joins(f, s, B)
  <1> DEFINE n == Len(s)
  <1>1. n \in Nat /\ \A i \in 1..n : s[i] \in Seq(B)
    OBVIOUS
  <1>2. CASE n = 0
    <2> DEFINE f == [i \in 0..n |-> <<>>]
    <2>1. s = <<>> /\ FlattenSeq(s) = s
      BY <1>2 DEF FlattenSeq
    <2>2. <<>> \in Seq(B)
      OBVIOUS
    <2>3. f \in [0..n -> Seq(B)] /\ f[0] = <<>> /\ f[n] = <<>>
      BY <1>1, <1>2, <2>2
    <2>4. \A i \in 1..n : f[i] = f[i - 1] \o s[i]
      BY <1>2
    <2> HIDE DEF f
    <2>5. Joins(f, s, B)
      BY <2>1, <2>3, <2>4 DEF Joins
    <2> QED BY <2>5
  <1>3. CASE n # 0
    <2>1. PICK g : /\ g = [i \in 1..n |-> IF i = 1 THEN s[i] ELSE g[i-1] \o s[i]]
                   /\ FlattenSeq(s) = g[n]
      BY <1>1, <1>3, FlattenIs
    <2> DEFINE f == [i \in 0..n |-> IF i = 0 THEN <<>> ELSE g[i]]
               T == {i \in 0..n : f[i] \notin Seq(B)}
    <2>2. f[0] = <<>> /\ FlattenSeq(s) = f[n] /\ DOMAIN f = 0..n
      BY <1>1, <1>3, <2>1
    <2>3. \A i \in 1..n : f[i] = IF i = 1 THEN s[i] ELSE f[i - 1] \o s[i]
      <3> SUFFICES ASSUME NEW i \in 1..n
                   PROVE  f[i] = IF i = 1 THEN s[i] ELSE f[i - 1] \o s[i]
        OBVIOUS
      <3>1. g[i] = IF i = 1 THEN s[i] ELSE g[i-1] \o s[i]
        BY <2>1
      <3>2. i \in 0..n /\ i # 0 /\ (i # 1 => i - 1 \in 0..n /\ i - 1 # 0)
        BY <1>1
      <3>3. f[i] = g[i] /\ (i # 1 => f[i - 1] = g[i - 1])
        BY <3>2
      <3> HIDE DEF f
      <3> QED BY <3>1, <3>3
    <2>4. f = [i \in 0..n |-> f[i]]
      OBVIOUS
    <2> HIDE DEF f
    <2>5. T = {}
      <3>1. 0 \notin T
        <4>1. <<>> \in Seq(B)
          OBVIOUS
        <4> QED BY <2>2, <4>1
      <3>2. \A i \in 1..n : i \in T => i - 1 \in T
        <4> SUFFICES ASSUME NEW i \in 1..n, f[i - 1] \in Seq(B) PROVE f[i] \in Seq(B)
          BY <1>1
        <4>1. s[i] \in Seq(B) /\ f[i - 1] \o s[i] \in Seq(B)
          BY <1>1
        <4> QED BY <2>3, <4>1
      <3>3. T \in SUBSET (0..n)
        OBVIOUS
      <3> HIDE DEF T
      <3> QED BY <1>1, <3>1, <3>2, <3>3, NoneLeft
    <2>6. f \in [0..n -> Seq(B)]
      BY <2>4, <2>5
    <2>7. \A i \in 1..n : f[i] = f[i - 1] \o s[i]
      <3> SUFFICES ASSUME NEW i \in 1..n PROVE f[i] = f[i - 1] \o s[i]
        OBVIOUS
      <3>1. CASE i = 1
        <4>1. s[i] \in Seq(B) /\ f[i - 1] = <<>> /\ f[i] = s[i]
          BY <1>1, <2>2, <2>3, <3>1
        <4>2. <<>> \o s[i] = s[i]
          BY <4>1
        <4> QED BY <4>1, <4>2
      <3>2. CASE i # 1
        BY <2>3, <3>2
      <3> QED BY <3>1, <3>2
    <2>8. Joins(f, s, B)
      BY <2>2, <2>6, <2>7 DEF Joins
    <2> QED BY <2>8
  <1> QED BY <1>2, <1>3

LEMMA FlattenType ==
  ASSUME NEW B, NEW s \in Seq(Seq(B))
  PROVE  FlattenSeq(s) \in Seq(B) /\ Len(FlattenSeq(s)) \in Nat
  <1>1. PICK f : Joins(f, s, B)
    BY FlattenJoins
  <1>2. Len(s) \in 0..Len(s)
    OBVIOUS
  <1>3. FlattenSeq(s) \in Seq(B)
    BY <1>1, <1>2 DEF Joins
  <1> HIDE DEF FlattenSeq
  <1> QED BY <1>3

LEMMA ConcatLen ==
  ASSUME NEW B, NEW s \in Seq(B), NEW t \in Seq(B)
  PROVE  /\ Len(s) \in Nat /\ Len(t) \in Nat
         /\ Len(s \o t) = Len(s) + Len(t) /\ s \o t \in Seq(B)
  OBVIOUS

LEMMA ConcatItems ==
  ASSUME NEW B, NEW s \in Seq(B), NEW t \in Seq(B)
  PROVE  /\ DOMAIN (s \o t) = 1..(Len(s) + Len(t))
         /\ s \o t = [i \in 1..(Len(s) + Len(t)) |-> (s \o t)[i]]
         /\ \A i \in 1..(Len(s) + Len(t)) :
              (s \o t)[i] = IF i <= Len(s) THEN s[i] ELSE t[i - Len(s)]
  <1> DEFINE u == s \o t
             k == Len(s) + Len(t)
  <1>1. u \in Seq(B) /\ Len(u) = k /\ k \in Nat
    BY ConcatLen
  <1>2. \A i \in 1..k : u[i] = IF i <= Len(s) THEN s[i] ELSE t[i - Len(s)]
    OBVIOUS
  <1> HIDE DEF u, k
  <1>3. DOMAIN u = 1..k /\ u = [i \in 1..k |-> u[i]]
    BY <1>1
  <1> QED BY <1>2, <1>3 DEF u, k

(* Two lists one after the other are flattened one after the other.        *)
LEMMA FlattenConcat ==
  ASSUME NEW B, NEW s \in Seq(Seq(B)), NEW t \in Seq(Seq(B))
  PROVE  FlattenSeq(s \o t) = FlattenSeq(s) \o FlattenSeq(t)
  <1> DEFINE u == s \o t
             m == Len(s)
             n == Len(t)
  <1>1. m \in Nat /\ n \in Nat
    OBVIOUS
  <1>2. /\ u \in Seq(Seq(B)) /\ Len(u) = m + n
        /\ \A i \in 1..m : u[i] = s[i]
        /\ \A j \in 1..n : u[m + j] = t[j]
        /\ \A j \in 1..n : t[j] \in Seq(B)
    OBVIOUS
  <1> HIDE DEF u
  <1>3. PICK f : Joins(f, u, B)
    BY <1>2, FlattenJoins
  <1>4. PICK g : Joins(g, s, B)
    BY FlattenJoins
  <1>5. PICK h : Joins(h, t, B)
    BY FlattenJoins
  <1> HIDE DEF m, n
  <1>6. /\ f[0] = <<>> /\ \A i \in 1..(m + n) : f[i] = f[i - 1] \o u[i]
        /\ FlattenSeq(u) = f[m + n]
    BY <1>2, <1>3 DEF Joins
  <1>7. /\ g[0] = <<>> /\ \A i \in 1..m : g[i] = g[i - 1] \o s[i]
        /\ \A i \in 0..m : g[i] \in Seq(B)
        /\ FlattenSeq(s) = g[m]
    BY <1>4 DEF Joins, m
  <1>8. /\ h[0] = <<>> /\ \A j \in 1..n : h[j] = h[j - 1] \o t[j]
        /\ \A j \in 0..n : h[j] \in Seq(B)
        /\ FlattenSeq(t) = h[n]
    BY <1>5 DEF Joins, n
  <1>9. f[m] = g[m]
    <2> DEFINE T == {i \in 0..m : f[i] # g[i]}
    <2>1. 0 \notin T
      BY <1>6, <1>7
    <2>2. \A i \in 1..m : i \in T => i - 1 \in T
      <3> SUFFICES ASSUME NEW i \in 1..m, f[i - 1] = g[i - 1] PROVE f[i] = g[i]
        BY <1>1
      <3> HIDE DEF T
      <3>1. i \in 1..(m + n)
        BY <1>1
      <3>2. f[i] = f[i - 1] \o u[i] /\ u[i] = s[i] /\ g[i] = g[i - 1] \o s[i]
        BY <1>2, <1>6, <1>7, <3>1
      <3> QED BY <3>2
    <2>3. T \in SUBSET (0..m)
      OBVIOUS
    <2>4. T = {}
      <3> HIDE DEF T
      <3> QED BY <1>1, <2>1, <2>2, <2>3, NoneLeft
    <2> QED BY <1>1, <2>4
  <1>10. f[m + n] = g[m] \o h[n]
    <2> DEFINE T == {j \in 0..n : f[m + j] # g[m] \o h[j]}
    <2>1. g[m] \in Seq(B)
      BY <1>1, <1>7
    <2>2. 0 \notin T
      <3>1. g[m] \o <<>> = g[m]
        BY <2>1
      <3>2. m + 0 = m
        BY <1>1
      <3>3. f[m + 0] = g[m] \o h[0]
        BY <1>8, <1>9, <3>1, <3>2
      <3> QED BY <3>3
    <2>3. ASSUME NEW j \in 1..n, f[m + (j - 1)] = g[m] \o h[j - 1]
          PROVE  f[m + j] = g[m] \o h[j]
      <3> HIDE DEF T
      <3>1. m + j \in 1..(m + n) /\ (m + j) - 1 = m + (j - 1) /\ j - 1 \in 0..n
        BY <1>1
      <3>2. f[m + j] = f[m + (j - 1)] \o u[m + j]
        BY <1>6, <3>1
      <3>3. u[m + j] = t[j] /\ t[j] \in Seq(B)
        BY <1>2
      <3>4. h[j - 1] \in Seq(B) /\ h[j] = h[j - 1] \o t[j]
        BY <1>8, <3>1
      <3>5. (g[m] \o h[j - 1]) \o t[j] = g[m] \o (h[j - 1] \o t[j])
        <4> DEFINE a == g[m]
                   b == h[j - 1]
                   c == t[j]
        <4>1. a \in Seq(B) /\ b \in Seq(B) /\ c \in Seq(B)
          BY <2>1, <3>3, <3>4
        <4> HIDE DEF a, b, c
        <4>2. (a \o b) \o c = a \o (b \o c)
          <5>1. \A x, y, z \in Seq(B) : (x \o y) \o z = x \o (y \o z)
            BY ConcatAssociative
          <5> QED BY <4>1, <5>1
        <4> QED BY <4>2 DEF a, b, c
      <3> QED BY <2>3, <3>2, <3>3, <3>4, <3>5
    <2>4. \A j \in 1..n : j \in T => j - 1 \in T
      <3>1. \A j \in 1..n : j \in 0..n /\ j - 1 \in 0..n
        BY <1>1
      <3> QED BY <2>3, <3>1
    <2>5. T \in SUBSET (0..n)
      OBVIOUS
    <2>6. T = {}
      <3> HIDE DEF T
      <3> QED BY <1>1, <2>2, <2>4, <2>5, NoneLeft
    <2>7. n \in 0..n
      BY <1>1
    <2> QED BY <2>6, <2>7
  <1> QED BY <1>6, <1>7, <1>8, <1>10 DEF u

(* If every piece has at most three times the length, so has the whole.    *)
LEMMA FlattenLengths ==
  ASSUME NEW B, NEW s \in Seq(Seq(B)), NEW C, NEW t \in Seq(Seq(C)), Len(s) = Len(t),
         \A i \in 1..Len(s) : Len(s[i]) <= 3 * Len(t[i])
  PROVE  Len(FlattenSeq(s)) <= 3 * Len(FlattenSeq(t))
  <1> DEFINE n == Len(s)
  <1>1. n \in Nat
    OBVIOUS
  <1>2. \A i \in 1..n : s[i] \in Seq(B) /\ t[i] \in Seq(C) /\ Len(s[i]) <= 3 * Len(t[i])
    OBVIOUS
  <1>3. PICK f : Joins(f, s, B)
    BY FlattenJoins
  <1>4. PICK g : Joins(g, t, C)
    BY FlattenJoins
  <1>5. /\ f[0] = <<>> /\ \A i \in 0..n : f[i] \in Seq(B)
        /\ \A i \in 1..n : f[i] = f[i - 1] \o s[i]
        /\ FlattenSeq(s) = f[n]
    BY <1>3 DEF Joins
  <1>6. /\ g[0] = <<>> /\ \A i \in 0..n : g[i] \in Seq(C)
        /\ \A i \in 1..n : g[i] = g[i - 1] \o t[i]
        /\ FlattenSeq(t) = g[n]
    BY <1>4 DEF Joins
  <1> HIDE DEF n
  <1> DEFINE Within(i) == Len(f[i]) <= 3 * Len(g[i])
             T == {i \in 0..n : ~Within(i)}
  <1>7. Within(0)
    <2>1. Len(<<>>) = 0
      OBVIOUS
    <2> QED BY <1>5, <1>6, <2>1
  <1>8. ASSUME NEW i \in 1..n, Within(i - 1)
        PROVE  Within(i)
    <2>1. i - 1 \in 0..n
      BY <1>1
    <2> DEFINE a == f[i - 1]
               b == g[i - 1]
               c == s[i]
               d == t[i]
    <2>2. f[i] = a \o c /\ g[i] = b \o d
      BY <1>5, <1>6
    <2>3. a \in Seq(B) /\ c \in Seq(B) /\ b \in Seq(C) /\ d \in Seq(C)
      BY <1>2, <1>5, <1>6, <2>1
    <2>4. Len(a) <= 3 * Len(b) /\ Len(c) <= 3 * Len(d)
      BY <1>2, <1>8
    <2> HIDE DEF a, b, c, d, T
    <2>5. /\ Len(a) \in Nat /\ Len(b) \in Nat /\ Len(c) \in Nat /\ Len(d) \in Nat
          /\ Len(a \o c) = Len(a) + Len(c) /\ Len(b \o d) = Len(b) + Len(d)
      BY <2>3, ConcatLen
    <2>6. Len(a \o c) <= 3 * Len(b \o d)
      BY <2>4, <2>5
    <2> QED BY <2>2, <2>6
  <1> HIDE DEF Within
  <1>9. T = {}
    <2>1. \A i \in 1..n : i \in 0..n /\ i - 1 \in 0..n
      BY <1>1
    <2>2. 0 \notin T /\ \A i \in 1..n : i \in T => i - 1 \in T
      BY <1>7, <1>8, <2>1
    <2>3. T \in SUBSET (0..n)
      OBVIOUS
    <2> HIDE DEF T
    <2> QED BY <1>1, <2>2, <2>3, NoneLeft
  <1>10. n \in 0..n
    BY <1>1
  <1>11. Within(n)
    BY <1>9, <1>10
  <1> QED BY <1>5, <1>6, <1>11 DEF Within

(* Pieces that are not empty: at least as many items as pieces.            *)
LEMMA FlattenAtLeast ==
  ASSUME NEW B, NEW s \in Seq(Seq(B)), \A i \in 1..Len(s) : Len(s[i]) >= 1
  PROVE  /\ Len(FlattenSeq(s)) >= Len(s)
         /\ (\A i \in 1..Len(s) : Len(s[i]) = 1) => Len(FlattenSeq(s)) = Len(s)
  <1> DEFINE n == Len(s)
             ones == \A i \in 1..n : Len(s[i]) = 1
  <1>1. n \in Nat
    OBVIOUS
  <1>2. \A i \in 1..n : s[i] \in Seq(B) /\ Len(s[i]) >= 1
    OBVIOUS
  <1>3. PICK f : Joins(f, s, B)
    BY FlattenJoins
  <1>4. /\ f[0] = <<>>
        /\ \A i \in 0..n : f[i] \in Seq(B)
        /\ \A i \in 1..n : f[i] = f[i - 1] \o s[i]
        /\ FlattenSeq(s) = f[n]
    BY <1>3 DEF Joins
  <1> HIDE DEF n
  <1> DEFINE Counts(i) == Len(f[i]) >= i /\ (ones => Len(f[i]) = i)
             T == {i \in 0..n : ~Counts(i)}
  <1>5. Counts(0)
    <2>1. Len(<<>>) = 0
      OBVIOUS
    <2> QED BY <1>4, <2>1
  <1>6. ASSUME NEW i \in 1..n, Counts(i - 1)
        PROVE  Counts(i)
    <2>1. i - 1 \in 0..n /\ i \in Int
      BY <1>1
    <2> DEFINE a == f[i - 1]
               c == s[i]
    <2>2. f[i] = a \o c
      BY <1>4
    <2>3. a \in Seq(B) /\ c \in Seq(B) /\ Len(c) >= 1 /\ (ones => Len(c) = 1)
      BY <1>2, <1>4, <2>1
    <2>4. Len(a) >= i - 1 /\ (ones => Len(a) = i - 1)
      BY <1>6
    <2> HIDE DEF a, c, T, ones
    <2>5. /\ Len(a) \in Nat /\ Len(c) \in Nat /\ Len(a \o c) = Len(a) + Len(c)
      BY <2>3, ConcatLen
    <2>6. Len(a \o c) >= i
      BY <2>1, <2>3, <2>4, <2>5
    <2>7. ASSUME ones PROVE Len(a \o c) = i
      <3>1. Len(c) = 1 /\ Len(a) = i - 1
        BY <2>3, <2>4, <2>7
      <3> QED BY <2>1, <2>5, <3>1
    <2> QED BY <2>2, <2>6, <2>7
  <1> HIDE DEF Counts
  <1>7. T = {}
    <2>1. \A i \in 1..n : i \in 0..n /\ i - 1 \in 0..n
      BY <1>1
    <2>2. 0 \notin T /\ \A i \in 1..n : i \in T => i - 1 \in T
      BY <1>5, <1>6, <2>1
    <2>3. T \in SUBSET (0..n)
      OBVIOUS
    <2> HIDE DEF T
    <2> QED BY <1>1, <2>2, <2>3, NoneLeft
  <1>8. n \in 0..n
    BY <1>1
  <1>9. Counts(n)
    BY <1>7, <1>8
  <1> QED BY <1>4, <1>9 DEF Counts, n

-----------------------------------------------------------------------------
(* Texts: how long they are in UTF-8 and UTF-16, piece by piece.           *)

Byte == (Chars \cup {"replacement"}) \X (1..4)
Half == Chars \cup {"high", "low"}
Encoded(text) == [i \in DOMAIN text |-> Encode(text[i])]
Halved(text) == [i \in DOMAIN text |-> Utf16(text[i])]

(* A character takes at most three bytes for each of its UTF-16 units.     *)
LEMMA CharFacts ==
  ASSUME NEW c \in Chars
  PROVE  /\ Encode(c) \in Seq(Byte) /\ Utf16(c) \in Seq(Half)
         /\ Len(Encode(c)) >= 1 /\ Len(Utf16(c)) >= 1
         /\ Len(Encode(c)) <= 3 * Len(Utf16(c))
         /\ c = "ascii" => Len(Encode(c)) = 1 /\ Len(Utf16(c)) = 1
  <1> DEFINE d == IF c = "lone" THEN "replacement" ELSE c
             n == Utf8Length[d]
  <1>1. /\ d \in Chars \cup {"replacement"} /\ n \in 1..4
        /\ n = 4 <=> c = "pair"
        /\ c = "ascii" => n = 1
    BY DEF Chars, Utf8Length
  <1>2. Encode(c) = [i \in 1..n |-> <<d, i>>]
    BY DEF Encode
  <1> HIDE DEF d, n
  <1>3. Encode(c) \in Seq(Byte) /\ Len(Encode(c)) = n
    <2>1. \A i \in 1..n : <<d, i>> \in Byte
      BY <1>1 DEF Byte
    <2> QED BY <1>1, <1>2, <2>1
  <1>4. /\ c = "pair" => Utf16(c) = <<"high", "low">>
        /\ c # "pair" => Utf16(c) = <<c>>
    BY DEF Utf16
  <1>5. /\ Utf16(c) \in Seq(Half)
        /\ c = "pair" => Len(Utf16(c)) = 2
        /\ c # "pair" => Len(Utf16(c)) = 1
    <2>1. c \in Half /\ "high" \in Half /\ "low" \in Half
      BY DEF Half
    <2> HIDE DEF Half
    <2>2. /\ <<"high", "low">> \in Seq(Half) /\ Len(<<"high", "low">>) = 2
          /\ <<c>> \in Seq(Half) /\ Len(<<c>>) = 1
      BY <2>1
    <2> QED BY <1>4, <2>2
  <1>6. n \in Nat /\ n >= 1 /\ n <= 4 /\ (c # "pair" => n <= 3)
    BY <1>1
  <1>7. CASE c = "pair"
    <2>1. Len(Utf16(c)) = 2 /\ Len(Encode(c)) = n /\ c # "ascii"
      BY <1>3, <1>5, <1>7
    <2> QED BY <1>3, <1>5, <1>6, <2>1
  <1>8. CASE c # "pair"
    <2>1. Len(Utf16(c)) = 1 /\ Len(Encode(c)) = n /\ (c = "ascii" => n = 1)
      BY <1>1, <1>3, <1>5, <1>8
    <2> QED BY <1>3, <1>5, <1>6, <1>8, <2>1
  <1> QED BY <1>7, <1>8

(* So does a text; one of ASCII takes one byte and one unit for each.      *)
LEMMA TextFacts ==
  ASSUME NEW text \in Seq(Chars)
  PROVE  /\ Len(text) \in Nat /\ Utf8(text) \in Seq(Byte) /\ Len(Utf8(text)) \in Nat
         /\ Units(text) \in Nat /\ Units(text) >= Len(text)
         /\ Len(Utf8(text)) <= 3 * Units(text)
         /\ (\A i \in 1..Len(text) : text[i] = "ascii") =>
              Len(Utf8(text)) = Len(text) /\ Units(text) = Len(text)
  <1> DEFINE s == Encoded(text)
             t == Halved(text)
             n == Len(text)
  <1>1. n \in Nat /\ DOMAIN text = 1..n /\ \A i \in 1..n : text[i] \in Chars
    OBVIOUS
  <1>2. /\ \A i \in 1..n : s[i] = Encode(text[i]) /\ t[i] = Utf16(text[i])
        /\ DOMAIN s = 1..n /\ DOMAIN t = 1..n
    BY <1>1 DEF Encoded, Halved
  <1>3. s = [i \in 1..n |-> Encode(text[i])] /\ t = [i \in 1..n |-> Utf16(text[i])]
    BY <1>1 DEF Encoded, Halved
  <1>4. Utf8(text) = FlattenSeq(s) /\ Units(text) = Len(FlattenSeq(t))
    BY DEF Utf8, Units, Encoded, Halved
  <1> HIDE DEF s, t, n
  <1>5. s \in Seq(Seq(Byte)) /\ Len(s) = n /\ t \in Seq(Seq(Half)) /\ Len(t) = n
    <2>1. \A i \in 1..n : Encode(text[i]) \in Seq(Byte) /\ Utf16(text[i]) \in Seq(Half)
      BY <1>1, CharFacts
    <2> QED BY <1>1, <1>3, <2>1
  <1>6. /\ \A i \in 1..Len(s) : Len(s[i]) >= 1 /\ Len(s[i]) <= 3 * Len(t[i])
        /\ \A i \in 1..Len(t) : Len(t[i]) >= 1
    BY <1>1, <1>2, <1>5, CharFacts
  <1>7. /\ FlattenSeq(s) \in Seq(Byte) /\ Len(FlattenSeq(s)) \in Nat
        /\ Len(FlattenSeq(t)) \in Nat
    BY <1>5, FlattenType
  <1>8. Len(FlattenSeq(s)) <= 3 * Len(FlattenSeq(t))
    BY <1>5, <1>6, FlattenLengths
  <1>9. Len(FlattenSeq(t)) >= n
    BY <1>5, <1>6, FlattenAtLeast
  <1>10. ASSUME \A i \in 1..n : text[i] = "ascii"
         PROVE  Len(FlattenSeq(s)) = n /\ Len(FlattenSeq(t)) = n
    <2>1. \A i \in 1..n : Len(s[i]) = 1 /\ Len(t[i]) = 1
      BY <1>1, <1>2, <1>10, CharFacts
    <2>2. Len(FlattenSeq(s)) = n
      BY <1>5, <1>6, <2>1, FlattenAtLeast
    <2>3. Len(FlattenSeq(t)) = n
      BY <1>5, <1>6, <2>1, FlattenAtLeast
    <2> QED BY <2>2, <2>3
  <1> QED BY <1>1, <1>4, <1>7, <1>8, <1>9, <1>10 DEF n

LEMMA Utf8Empty == Utf8(<<>>) = <<>>
  <1> DEFINE e == <<>>
             u == Utf8(e)
  <1>1. e \in Seq(Chars) /\ Len(e) = 0 /\ \A i \in 1..Len(e) : e[i] = "ascii"
    OBVIOUS
  <1> HIDE DEF e
  <1>2. u \in Seq(Byte) /\ Len(u) = 0
    BY <1>1, TextFacts
  <1>3. u = <<>>
    <2> HIDE DEF u
    <2> QED BY <1>2
  <1> QED BY <1>3 DEF e

(* UTF-8 has no memory: a text cut anywhere can be encoded in two parts.   *)
LEMMA Utf8Concat ==
  ASSUME NEW text \in Seq(Chars), NEW more \in Seq(Chars)
  PROVE  Utf8(text \o more) = Utf8(text) \o Utf8(more)
  <1> DEFINE both == text \o more
             m == Len(text)
             n == Len(more)
  <1>1. m \in Nat /\ n \in Nat /\ DOMAIN text = 1..m /\ DOMAIN more = 1..n
    OBVIOUS
  <1>2. /\ both \in Seq(Chars) /\ DOMAIN both = 1..(m + n)
        /\ \A i \in 1..(m + n) : both[i] = IF i <= m THEN text[i] ELSE more[i - m]
    BY ConcatLen, ConcatItems
  <1> HIDE DEF both, m, n
  <1>3. /\ Encoded(text) = [i \in 1..m |-> Encode(text[i])]
        /\ Encoded(more) = [i \in 1..n |-> Encode(more[i])]
        /\ Encoded(both) = [i \in 1..(m + n) |-> Encode(both[i])]
    BY <1>1, <1>2 DEF Encoded
  <1>4. /\ \A i \in 1..m : Encode(text[i]) \in Seq(Byte)
        /\ \A i \in 1..n : Encode(more[i]) \in Seq(Byte)
    <2>1. /\ \A i \in 1..m : text[i] \in Chars
          /\ \A i \in 1..n : more[i] \in Chars
      BY DEF m, n
    <2> QED BY <2>1, CharFacts
  <1> DEFINE a == Encoded(text)
             b == Encoded(more)
             c == Encoded(both)
  <1>5. /\ a \in Seq(Seq(Byte)) /\ Len(a) = m /\ b \in Seq(Seq(Byte)) /\ Len(b) = n
        /\ \A i \in 1..m : a[i] = Encode(text[i])
        /\ \A i \in 1..n : b[i] = Encode(more[i])
    BY <1>1, <1>3, <1>4
  <1>6. c = [i \in 1..(m + n) |-> Encode(both[i])]
    BY <1>3
  <1> HIDE DEF a, b, c
  <1>7. /\ a \o b = [i \in 1..(m + n) |-> (a \o b)[i]]
        /\ \A i \in 1..(m + n) : (a \o b)[i] = IF i <= m THEN a[i] ELSE b[i - m]
    BY <1>5, ConcatItems
  <1>8. \A i \in 1..(m + n) : c[i] = (a \o b)[i]
    <2> SUFFICES ASSUME NEW i \in 1..(m + n) PROVE c[i] = (a \o b)[i]
      OBVIOUS
    <2>1. CASE i <= m
      <3>1. i \in 1..m
        BY <1>1, <2>1
      <3> QED BY <1>2, <1>5, <1>6, <1>7, <2>1, <3>1
    <2>2. CASE ~(i <= m)
      <3>1. i - m \in 1..n
        BY <1>1, <2>2
      <3> QED BY <1>2, <1>5, <1>6, <1>7, <2>2, <3>1
    <2> QED BY <2>1, <2>2
  <1>9. c = a \o b
    <2>1. DOMAIN c = 1..(m + n) /\ c = [i \in 1..(m + n) |-> c[i]]
      BY <1>6
    <2> QED BY <1>7, <1>8, <2>1
  <1>10. FlattenSeq(c) = FlattenSeq(a) \o FlattenSeq(b)
    BY <1>5, <1>9, FlattenConcat
  <1>11. Utf8(text) = FlattenSeq(a) /\ Utf8(more) = FlattenSeq(b) /\ Utf8(both) = FlattenSeq(c)
    BY DEF Utf8, Encoded, a, b, c
  <1> QED BY <1>10, <1>11 DEF both

(* A text is its ASCII prefix and what is left.                            *)
LEMMA PrefixFacts ==
  ASSUME NEW text \in Seq(Chars)
  PROVE  LET p == AsciiPrefix(text)
             r == SubSeq(text, Len(p) + 1, Len(text))
         IN /\ p \in Seq(Chars) /\ r \in Seq(Chars) /\ text = p \o r
            /\ \A i \in 1..Len(p) : p[i] = "ascii"
            /\ Len(text) = Len(p) + Len(r)
  <1> DEFINE n == Len(text)
             others == {i \in DOMAIN text : text[i] # "ascii"}
             k == IF others = {} THEN n ELSE Min(others) - 1
             p == SubSeq(text, 1, k)
             r == SubSeq(text, k + 1, n)
  <1>1. n \in Nat /\ DOMAIN text = 1..n /\ \A i \in 1..n : text[i] \in Chars
    OBVIOUS
  <1>2. k \in 0..n /\ \A i \in 1..k : text[i] = "ascii"
    <2>1. CASE others = {}
      BY <1>1, <2>1
    <2>2. CASE others # {}
      <3>1. others \in SUBSET Nat /\ others \subseteq 1..n
        BY <1>1
      <3> HIDE DEF others
      <3>2. \E m \in others : \A j \in others : m <= j
        BY <2>2, <3>1, Least
      <3>3. Min(others) \in others /\ \A j \in others : Min(others) <= j
        BY <3>2 DEF Min
      <3> DEFINE m == Min(others)
      <3>4. k = m - 1 /\ m \in 1..n /\ \A j \in others : m <= j
        BY <2>2, <3>1, <3>3
      <3> HIDE DEF m
      <3>5. k \in 0..n /\ \A i \in 1..k : i \in 1..n /\ ~(m <= i)
        BY <1>1, <3>4
      <3>6. \A i \in 1..k : i \notin others
        BY <3>4, <3>5
      <3> QED BY <1>1, <3>5, <3>6 DEF others
    <2> QED BY <2>1, <2>2
  <1>3. AsciiPrefix(text) = p
    BY DEF AsciiPrefix
  <1> HIDE DEF k, n
  <1>4. /\ p \in Seq(Chars) /\ Len(p) = k
        /\ \A i \in 1..k : p[i] = text[i]
    <2>1. \A i \in 1..k : text[i] \in Chars
      BY <1>1, <1>2
    <2>2. k \in Int /\ 1 \in Int /\ (IF 1 <= k THEN k - 1 + 1 ELSE 0) = k
      BY <1>1, <1>2
    <2>3. /\ p \in Seq(Chars) /\ Len(p) = IF 1 <= k THEN k - 1 + 1 ELSE 0
          /\ \A i \in 1..(k - 1 + 1) : p[i] = text[1 + i - 1]
      BY <2>1, <2>2, SubSeqProperties
    <2> HIDE DEF p
    <2>4. \A i \in 1..k : i \in 1..(k - 1 + 1) /\ 1 + i - 1 = i
      BY <1>1, <1>2
    <2> QED BY <2>2, <2>3, <2>4
  <1>5. r \in Seq(Chars) /\ Len(r) = n - k
    <2>1. \A i \in (k + 1)..n : text[i] \in Chars
      BY <1>1, <1>2
    <2>2. k + 1 \in Int /\ n \in Int /\ (IF k + 1 <= n THEN n - (k + 1) + 1 ELSE 0) = n - k
      BY <1>1, <1>2
    <2>3. r \in Seq(Chars) /\ Len(r) = IF k + 1 <= n THEN n - (k + 1) + 1 ELSE 0
      BY <2>1, <2>2, SubSeqProperties
    <2> QED BY <2>2, <2>3
  <1>6. text = p \o r
    <2>1. 1 \in 1..(n + 1) /\ k \in (1 - 1)..n /\ n \in k..n
      BY <1>1, <1>2
    <2>2. p \o r = SubSeq(text, 1, n)
      BY <2>1, ConcatAdjacentSubSeq DEF n
    <2>3. SubSeq(text, 1, n) = text
      BY SubSeqFull DEF n
    <2> QED BY <2>2, <2>3
  <1> HIDE DEF p
  <1>7. SubSeq(text, Len(p) + 1, Len(text)) = r
    BY <1>4 DEF n
  <1>8. n = Len(p) + Len(r)
    <2> HIDE DEF r
    <2> QED BY <1>1, <1>2, <1>4, <1>5
  <1> HIDE DEF r
  <1> QED BY <1>2, <1>3, <1>4, <1>5, <1>6, <1>7, <1>8 DEF n

(* The encoder stops at nothing when there is room for the whole text.     *)
LEMMA EncodeIntoAll ==
  ASSUME NEW text \in Seq(Chars), NEW room, Len(Utf8(text)) <= room
  PROVE  EncodeInto(text, room) = Utf8(text)
  <1> DEFINE n == Len(text)
             fitting == {k \in 0..n : Len(Utf8(SubSeq(text, 1, k))) <= room}
             m == Max(fitting)
  <1>1. n \in Nat /\ SubSeq(text, 1, n) = text
    BY SubSeqFull
  <1>2. n \in fitting /\ \A k \in fitting : k \in 0..n
    <2> DEFINE s == SubSeq(text, 1, n)
    <2>1. s = text
      BY <1>1
    <2> HIDE DEF s
    <2>2. Len(Utf8(s)) <= room
      BY <2>1
    <2>3. n \in 0..n
      BY <1>1
    <2> HIDE DEF n
    <2> QED BY <2>2, <2>3 DEF s
  <1>3. EncodeInto(text, room) = Utf8(SubSeq(text, 1, m))
    BY DEF EncodeInto
  <1> HIDE DEF n, fitting
  <1>4. \E x \in fitting : \A y \in fitting : x >= y
    BY <1>1, <1>2
  <1>5. m \in fitting /\ \A y \in fitting : m >= y
    BY <1>4 DEF Max
  <1> HIDE DEF m
  <1>6. m = n
    BY <1>1, <1>2, <1>5
  <1> QED BY <1>1, <1>3, <1>6

(* A buffer of n bytes.                                                    *)
LEMMA BufferLen ==
  ASSUME NEW n \in Nat, NEW buf, buf = [i \in 1..n |-> buf[i]]
  PROVE  DOMAIN buf = 1..n /\ Len(buf) = n
  <1>1. DOMAIN buf = 1..n
    OBVIOUS
  <1> QED BY <1>1

(* Whatever the glue knew of the memory before: both views it takes are    *)
(* fresh.                                                                  *)
LEMMA PassStringArrives ==
  ASSUME NEW text \in Seq(Chars), NEW last, NEW grew
  PROVE  PassString(text, last, grew).bytes = Utf8(text)
  <1> DEFINE p == AsciiPrefix(text)
             r == SubSeq(text, Len(p) + 1, Len(text))
             P == Len(p)
             U == Units(text)
             R == Room(r)
             a == Utf8(p)
             b == Utf8(r)
             L == Len(b)
             ascii == Written("fresh", Resize(<<>>, U), 0, a)
             large == Resize(ascii, P + R)
             full == Written("fresh", large, P, b)
             cut == Resize(full, P + L)
  <1>1. /\ p \in Seq(Chars) /\ r \in Seq(Chars) /\ text = p \o r
        /\ \A i \in 1..P : p[i] = "ascii"
        /\ Len(text) = P + Len(r)
    BY PrefixFacts
  <1> HIDE DEF p, r
  <1>2. /\ P \in Nat /\ Len(r) \in Nat
        /\ a \in Seq(Byte) /\ Len(a) = P
        /\ b \in Seq(Byte) /\ L \in Nat /\ L <= R /\ R \in Nat
        /\ U \in Nat /\ U >= P
    <2>1. P \in Nat /\ a \in Seq(Byte) /\ Len(a) = P
      BY <1>1, TextFacts
    <2>2. Len(r) \in Nat /\ b \in Seq(Byte) /\ L \in Nat /\ Units(r) \in Nat /\ L <= 3 * Units(r)
      BY <1>1, TextFacts
    <2>3. U \in Nat /\ U >= Len(text)
      BY TextFacts
    <2>4. R = 3 * Units(r)
      BY DEF Room
    <2> HIDE DEF P, U, R, a, b, L
    <2> QED BY <1>1, <2>1, <2>2, <2>3, <2>4
  <1>3. EncodeInto(r, R) = b
    BY <1>1, <1>2, EncodeIntoAll
  <1>4. PassString(text, last, grew).bytes = IF r = <<>> THEN ascii ELSE cut
    <2>1. \A v : CurrentView(v) = "fresh"
      BY DEF CurrentView
    <2>2. "fresh" = "fresh"
      OBVIOUS
    <2> QED BY <1>3, <2>1 DEF PassString, p, r
  <1>5. Utf8(text) = a \o b
    BY <1>1, Utf8Concat
  <1>6. ascii = [i \in 1..U |-> ascii[i]] /\ \A i \in 1..P : ascii[i] = a[i]
    <2> DEFINE blank == Resize(<<>>, U)
    <2>1. DOMAIN blank = 1..U
      BY DEF Resize
    <2> HIDE DEF blank
    <2>2. ascii = [i \in 1..U |-> IF i \in (0 + 1)..(0 + Len(a)) THEN a[i - 0] ELSE blank[i]]
      BY <2>1 DEF Written, blank
    <2> HIDE DEF ascii, a, P, U
    <2>3. \A i \in 1..P : i \in 1..U /\ i \in (0 + 1)..(0 + Len(a)) /\ i - 0 = i
      BY <1>2
    <2> QED BY <2>2, <2>3
  <1> HIDE DEF ascii
  <1>7. CASE r = <<>>
    <2>1. text = p /\ U = P
      <3>1. p \o <<>> = p
        BY <1>1
      <3>2. text = p
        BY <1>1, <1>7, <3>1
      <3> QED BY <1>1, <3>2, TextFacts
    <2>2. ascii = [i \in 1..P |-> ascii[i]] /\ a = [i \in 1..P |-> a[i]]
      BY <1>2, <1>6, <2>1
    <2>3. ascii = a
      <3> HIDE DEF a, P, U
      <3> QED BY <1>6, <2>2
    <2> QED BY <1>4, <1>7, <2>1, <2>3
  <1>8. CASE r # <<>>
    <2>1. DOMAIN ascii = 1..U /\ Len(ascii) = U
      <3> HIDE DEF U
      <3> QED BY <1>2, <1>6, BufferLen
    <2>2. /\ large = [i \in 1..(P + R) |-> large[i]]
          /\ \A i \in 1..P : large[i] = a[i]
      <3>1. large = [i \in 1..(P + R) |-> IF i <= U THEN ascii[i] ELSE <<"junk", 0>>]
        BY <2>1 DEF Resize
      <3> HIDE DEF large, P, U, R, a, L
      <3>2. \A i \in 1..P : i \in 1..(P + R) /\ i <= U
        BY <1>2
      <3> QED BY <1>6, <3>1, <3>2
    <2> HIDE DEF large
    <2>3. DOMAIN large = 1..(P + R)
      BY <2>2
    <2>4. /\ full = [i \in 1..(P + R) |-> full[i]]
          /\ \A i \in 1..P : full[i] = a[i]
          /\ \A i \in (P + 1)..(P + L) : full[i] = b[i - P]
      <3>1. full = [i \in 1..(P + R) |->
                      IF i \in (P + 1)..(P + L) THEN b[i - P] ELSE large[i]]
        BY <2>3 DEF Written
      <3> HIDE DEF full, P, U, R, a, b, L
      <3>2. /\ \A i \in 1..P : i \in 1..(P + R) /\ i \notin (P + 1)..(P + L)
            /\ \A i \in (P + 1)..(P + L) : i \in 1..(P + R)
        BY <1>2
      <3> QED BY <2>2, <3>1, <3>2
    <2> HIDE DEF full
    <2>5. Len(full) = P + R
      <3> HIDE DEF P, R
      <3>1. P + R \in Nat
        BY <1>2
      <3> QED BY <2>4, <3>1, BufferLen
    <2>6. /\ cut = [i \in 1..(P + L) |-> cut[i]]
          /\ \A i \in 1..(P + L) : cut[i] = full[i]
      <3>1. cut = [i \in 1..(P + L) |-> IF i <= Len(full) THEN full[i] ELSE <<"junk", 0>>]
        BY DEF Resize
      <3> HIDE DEF cut, P, R, L
      <3>2. \A i \in 1..(P + L) : i <= P + R
        BY <1>2
      <3> QED BY <2>5, <3>1, <3>2
    <2> HIDE DEF cut
    <2> DEFINE c == a \o b
    <2>7. /\ c = [i \in 1..(P + L) |-> c[i]]
          /\ \A i \in 1..(P + L) : c[i] = IF i <= P THEN a[i] ELSE b[i - P]
      <3> HIDE DEF a, b, P
      <3> QED BY <1>2, ConcatItems
    <2> HIDE DEF c, a, b, P, L, R, U
    <2>8. ASSUME NEW i \in 1..(P + L) PROVE cut[i] = c[i]
      <3>1. CASE i <= P
        <4>1. i \in 1..P
          BY <1>2, <3>1
        <4> QED BY <2>4, <2>6, <2>7, <3>1, <4>1
      <3>2. CASE ~(i <= P)
        <4>1. i \in (P + 1)..(P + L)
          BY <1>2, <3>2
        <4> QED BY <2>4, <2>6, <2>7, <3>2, <4>1
      <3> QED BY <3>1, <3>2
    <2>9. cut = c
      BY <2>6, <2>7, <2>8
    <2> QED BY <1>4, <1>5, <1>8, <2>9 DEF c
  <1> QED BY <1>7, <1>8

(* Whatever the text, its length, the view the glue has cached and the     *)
(* growth of the memory on the way, what chat_send is given is the text in *)
(* UTF-8 (passStringToWasm0).                                              *)
THEOREM TextsArrive == Spec => []TextArrives
  <1>1. Init => TextArrives
    <2>1. Utf8(<<>>) = <<>>
      BY Utf8Empty
    <2> QED BY <2>1 DEF Init, Nothing, TextArrives
  <1>2. ASSUME NEW h \in Handles, PassText(h) PROVE TextArrives'
    <2>1. PICK text \in Texts, grew \in [1..3 -> BOOLEAN] :
            arg' = [text |-> text, bytes |-> PassString(text, view, grew).bytes, on |-> h]
      BY <1>2 DEF PassText
    <2>2. text \in Seq(Chars)
      BY <2>1 DEF Texts
    <2>3. PassString(text, view, grew).bytes = Utf8(text)
      BY <2>2, PassStringArrives
    <2> QED BY <2>1, <2>3 DEF TextArrives
  <1>3. ChatSend => TextArrives'
    <2>1. SUFFICES ASSUME ChatSend, Utf8(<<>>) = <<>> PROVE TextArrives'
      BY Utf8Empty
    <2> QED BY <2>1 DEF ChatSend, Nothing, TextArrives
  <1>4. TextArrives /\ [Next]_vars => TextArrives'
    <2> SUFFICES ASSUME TextArrives, [Next]_vars PROVE TextArrives'
      OBVIOUS
    <2>1. CASE UNCHANGED arg
      BY <2>1 DEF TextArrives
    <2>2. CASE \E h \in Handles : PassText(h)
      BY <1>2, <2>2
    <2>3. CASE ChatSend
      BY <1>3, <2>3
    <2> QED BY <2>1, <2>2, <2>3 DEF Next, Decode, vars
  <1> QED BY <1>1, <1>4, PTL DEF Spec
============================================================================

----------------------------- MODULE WasmBindings ----------------------------
(***************************************************************************)
(* Who owns what between the page and wasm: the generated glue             *)
(* (src/examples/chat/pkg/iroh_webrtc_transport.js).                       *)
(*                                                                         *)
(* A Rust closure handed to the browser (an onmessage handler, a timer, a  *)
(* promise reaction) is a JS function that counts its owners: the Rust     *)
(* Closure and every call in progress.  A Chat is a JS object that owns a  *)
(* Rust value.  Either may be collected, and a finalizer then frees what   *)
(* it still owns.  Everything runs on one thread, but a call may lead, via *)
(* the page or the browser, to another one inside it.                      *)
(***************************************************************************)
EXTENDS WasmStrings

CONSTANTS
  Shared,         \* closures made by makeClosure (Fn)
  Exclusive,      \* closures made by makeMutClosure (FnMut)
  Scoped,         \* closures lent to one call of an import
  Handles,        \* Chat objects
  MaxDepth,       \* bound: calls of closures inside each other
  StringLengths,  \* lengths in bytes of the texts that come out of wasm
  DecoderBudget,  \* MAX_SAFARI_DECODE_BYTES
  MaxText         \* bound: characters in a text that is passed

ASSUME BindingsAssumption ==
  /\ Shared \cap Exclusive = {} /\ Scoped \cap Handles = {}
  /\ (Shared \cup Exclusive) \cap (Scoped \cup Handles) = {}
  /\ DecoderBudget \in Nat \ {0} /\ MaxDepth \in Nat /\ MaxText \in Nat
  /\ StringLengths \subseteq 0..(DecoderBudget - 1)

Closures == Shared \cup Exclusive
Objects == Closures \cup Scoped \cup Handles

VARIABLES
  state,    \* per closure: the pointer (a # 0) and the count (cnt)
  pointer,  \* per handle: __wbg_ptr # 0
  env,      \* per object: the Rust value it stands for
  rust,     \* per closure: what has become of the Rust Closure
  known,    \* the JS objects the page or the browser can still reach
  watched,  \* the JS objects registered with a finalizer
  calls,    \* the calls of closures in progress, the innermost last
  decoded,  \* numBytesDecoded
  fed,      \* bytes that went through the current TextDecoder
  view,     \* cachedUint8ArrayMemory0
  arg       \* what is about to be passed to chat_send, or Nothing

objectVars == <<state, pointer, env, rust, known, watched, calls>>
decoderVars == <<decoded, fed>>
vars == <<objectVars, decoderVars, view, arg>>

Nothing == [text |-> <<>>, bytes |-> <<>>, on |-> "nothing"]
Texts == UNION {[1..n -> Chars] : n \in 0..MaxText}

Env == {"none", "live", "freed", "corrupt"}

(* The owners of a closure: Rust, until it drops it, and its calls.        *)
Owners(c) ==
  (IF rust[c] \in {"held", "forgotten"} THEN 1 ELSE 0)
    + Cardinality({i \in DOMAIN calls : calls[i].of = c})

(* Every variable has its type, and a closure's count is that of its       *)
(* owners.                                                                 *)
TypeOK ==
  /\ state \in [Closures \cup Scoped -> [a : BOOLEAN, cnt : 0..(MaxDepth + 1)]]
  /\ pointer \in [Handles -> BOOLEAN]
  /\ env \in [Objects -> Env]
  /\ rust \in [Closures -> {"none", "held", "dropped", "forgotten"}]
  /\ known \in SUBSET Objects
  /\ watched \in SUBSET (Closures \cup Handles)
  /\ calls \in Seq([of : Closures \cup Scoped, a : BOOLEAN])
  /\ decoded \in Nat /\ fed \in Nat
  /\ view \in View
  /\ arg = Nothing \/ (arg.text \in Texts /\ arg.on \in Handles)
  /\ \A c \in Closures : state[c].cnt = Owners(c)

Init ==
  /\ state = [c \in Closures \cup Scoped |-> [a |-> FALSE, cnt |-> 0]]
  /\ pointer = [h \in Handles |-> FALSE]
  /\ env = [o \in Objects |-> "none"]
  /\ rust = [c \in Closures |-> "none"]
  /\ known = {} /\ watched = {} /\ calls = <<>>
  /\ decoded = 0 /\ fed = 0
  /\ view = "none" /\ arg = Nothing

Running(c) == \E i \in DOMAIN calls : calls[i].of = c

-----------------------------------------------------------------------------
(* The Rust side's destructors: a null pointer is ignored, and a value     *)
(* freed twice corrupts the heap.                                          *)
Destroyed(o, isPointer) ==
  IF ~isPointer THEN env
  ELSE [env EXCEPT ![o] = IF @ = "live" THEN "freed" ELSE "corrupt"]

(* real._wbg_cb_unref of a closure whose state is s: the last owner frees. *)
Unref(c, s) ==
  IF s.cnt = 1
  THEN /\ state' = [state EXCEPT ![c] = [a |-> FALSE, cnt |-> 0]]
       /\ env' = Destroyed(c, s.a)
       /\ watched' = watched \ {c}
  ELSE /\ state' = [state EXCEPT ![c] = [s EXCEPT !.cnt = @ - 1]]
       /\ UNCHANGED <<env, watched>>

(* makeClosure and makeMutClosure, and the browser is told the function.   *)
Make(c) ==
  /\ env[c] = "none"
  /\ state' = [state EXCEPT ![c] = [a |-> TRUE, cnt |-> 1]]
  /\ env' = [env EXCEPT ![c] = "live"]
  /\ rust' = [rust EXCEPT ![c] = "held"]
  /\ known' = known \cup {c} /\ watched' = watched \cup {c}
  /\ UNCHANGED <<pointer, calls>>

(* Mutated: calls do not count as owners until they return.                *)
EnteredUncounted(c) == [state[c] EXCEPT !.a = @ /\ c \in Shared]

(* Mutated: makeMutClosure leaves the pointer where a call inside finds it.*)
EnteredShared(c) == [state[c] EXCEPT !.cnt = @ + 1]

(* The state of a closure during a call: one more owner, and an FnMut's    *)
(* pointer is taken away.                                                  *)
Entered(c) ==
  [a |-> IF c \in Exclusive THEN FALSE ELSE state[c].a, cnt |-> state[c].cnt + 1]

(* The function is called, perhaps long after its Closure was dropped.     *)
Call(c) ==
  /\ c \in known /\ Len(calls) < MaxDepth
  /\ calls' = Append(calls, [of |-> c, a |-> state[c].a])
  /\ state' = [state EXCEPT ![c] = Entered(c)]
  /\ UNCHANGED <<pointer, env, rust, known, watched>>

(* The state once the finally block of a call has put the pointer back.    *)
Left(f) ==
  IF f.of \in Exclusive THEN [state[f.of] EXCEPT !.a = f.a] ELSE state[f.of]

(* The innermost call ends, by return or by exception (a call without a    *)
(* pointer is refused by the shim).                                        *)
Return(c) ==
  /\ calls # <<>> /\ Last(calls).of = c
  /\ calls' = Front(calls)
  /\ Unref(c, Left(Last(calls)))
  /\ UNCHANGED <<pointer, rust, known>>

(* __wbg_new_typed: a promise's executor, called inside the constructor    *)
(* and at no other time.                                                   *)
NewPromise(c) ==
  /\ env[c] = "none" /\ Len(calls) < MaxDepth
  /\ env' = [env EXCEPT ![c] = "live"]
  /\ calls' = Append(calls, [of |-> c, a |-> TRUE])
  /\ UNCHANGED <<state, pointer, rust, known, watched>>

(* Both finally blocks: put back, then cleared for good; the closure was   *)
(* on the stack of the import's caller.                                    *)
PromiseMade(c) ==
  /\ calls # <<>> /\ Last(calls).of = c
  /\ calls' = Front(calls)
  /\ env' = [env EXCEPT ![c] = "freed"]
  /\ UNCHANGED <<state, pointer, rust, known, watched>>

(* Rust drops the Closure: an executor does so from inside its own call.   *)
Drop(c) ==
  /\ rust[c] = "held"
  /\ rust' = [rust EXCEPT ![c] = "dropped"]
  /\ Unref(c, state[c])
  /\ UNCHANGED <<pointer, known, calls>>

(* Closure::forget, as start_chat does with onmessage.                     *)
Forget(c) ==
  /\ rust[c] = "held"
  /\ rust' = [rust EXCEPT ![c] = "forgotten"]
  /\ UNCHANGED <<state, pointer, env, known, watched, calls>>

(* Chat.__wrap, when start_chat resolves.                                  *)
Wrap(h) ==
  /\ env[h] = "none"
  /\ pointer' = [pointer EXCEPT ![h] = TRUE]
  /\ env' = [env EXCEPT ![h] = "live"]
  /\ known' = known \cup {h} /\ watched' = watched \cup {h}
  /\ UNCHANGED <<state, rust, calls>>

(* __destroy_into_raw.                                                     *)
DestroyIntoRaw(h) ==
  /\ pointer' = [pointer EXCEPT ![h] = FALSE]
  /\ watched' = watched \ {h}

(* free() or a `using` block; the second one is refused.                   *)
Free(h) ==
  /\ h \in known
  /\ DestroyIntoRaw(h)
  /\ env' = Destroyed(h, pointer[h])
  /\ UNCHANGED <<state, rust, known, calls>>

(* The last reference from the page or the browser goes.                   *)
Unreachable(o) ==
  /\ o \in known
  /\ known' = known \ {o}
  /\ UNCHANGED <<state, pointer, env, rust, watched, calls>>

(* Mutated: the Rust Closure does not keep its function alive.             *)
GarbageButHeld(o) == o \notin known /\ ~Running(o)

(* A Closure holds its function, and a call in progress does too.          *)
Garbage(o) ==
  /\ o \notin known /\ ~Running(o)
  /\ o \in Closures => rust[o] # "held"

(* The finalizers: CLOSURE_DTORS reads the closure's state when it runs,   *)
(* ChatFinalization has the pointer from when the handle was made.         *)
Finalize(o) ==
  /\ o \in watched /\ Garbage(o)
  /\ watched' = watched \ {o}
  /\ env' = Destroyed(o, o \in Closures => state[o].a)
  /\ UNCHANGED <<state, pointer, rust, known, calls>>

ObjectStep ==
  \/ \E c \in Closures : Make(c) \/ Call(c) \/ Return(c) \/ Drop(c) \/ Forget(c)
  \/ \E c \in Scoped : NewPromise(c) \/ PromiseMade(c)
  \/ \E h \in Handles : Wrap(h) \/ Free(h)
  \/ \E o \in Objects : Unreachable(o) \/ Finalize(o)

-----------------------------------------------------------------------------
(* Chat.send, first half: the text is copied into the memory, which may    *)
(* grow at each of its calls.  The page sends from a click handler.        *)
PassText(h) ==
  /\ h \in known /\ calls = <<>>
  /\ \E text \in Texts, grew \in [1..3 -> BOOLEAN] :
       LET passed == PassString(text, view, grew)
       IN /\ arg' = [text |-> text, bytes |-> passed.bytes, on |-> h]
          /\ view' = passed.view
  /\ UNCHANGED <<objectVars, decoderVars>>

(* Second half: chat_send takes it (or refuses a freed Chat); Rust runs,   *)
(* and may make the memory grow.                                           *)
ChatSend ==
  /\ arg # Nothing
  /\ arg' = Nothing
  /\ view' \in {After(view, grew) : grew \in BOOLEAN}
  /\ UNCHANGED <<objectVars, decoderVars>>

(* Mutated: the text that made the glue replace the decoder is not counted.*)
CountedAfterReset(n) == 0

(* numBytesDecoded once the decoder has been replaced for a text of n.     *)
Recounted(n) == n

(* decodeText: a decoder is replaced before its budget is spent.           *)
Decode(n) ==
  /\ IF decoded + n >= DecoderBudget
     THEN decoded' = Recounted(n) /\ fed' = n
     ELSE decoded' = decoded + n /\ fed' = fed + n
  /\ view' = CurrentView(view)
  /\ UNCHANGED <<objectVars, arg>>

(* Nothing runs between the two halves of a send.                          *)
Next ==
  \/ arg = Nothing /\ ObjectStep /\ UNCHANGED <<decoderVars, view, arg>>
  \/ \E n \in StringLengths : arg = Nothing /\ Decode(n)
  \/ \E h \in Handles : arg = Nothing /\ PassText(h)
  \/ ChatSend

Spec == Init /\ [][Next]_vars

-----------------------------------------------------------------------------
(* Rust code never runs on a closure that was freed, nor is a freed Chat   *)
(* sent to: not when the closure is dropped from inside its own call, nor  *)
(* when an event comes after the drop.                                     *)
RunsOnLive ==
  /\ \A i \in DOMAIN calls : calls[i].a => env[calls[i].of] = "live"
  /\ \A h \in Handles \cap known : pointer[h] => env[h] = "live"

(* An FnMut is never entered while it runs: one call at most has its       *)
(* pointer, however calls nest.                                            *)
MutExclusive ==
  \A i, j \in DOMAIN calls :
    i # j /\ calls[i].of = calls[j].of /\ calls[i].of \in Exclusive
      => ~(calls[i].a /\ calls[j].a)

(* Whatever is called, from where, and in whatever order things are        *)
(* dropped, wasm runs on values that are there, and alone if it may write. *)
CallsSafe == RunsOnLive /\ MutExclusive

(* A dropped closure is freed as soon as no call of it is in progress;     *)
(* nothing is left to the garbage collector.                               *)
DroppedIsFreed ==
  \A c \in Closures : rust[c] = "dropped" /\ ~Running(c) => env[c] = "freed"

(* What Rust still holds, and what it has forgotten but the browser can    *)
(* still call (the channel's onmessage), is there to be called.            *)
LiveWhileNeeded ==
  \A c \in Closures :
    rust[c] = "held" \/ (rust[c] = "forgotten" /\ c \in known)
      => env[c] = "live" /\ (state[c].a \/ Running(c))

(* Owner counts, explicit frees and finalizers together free each value at *)
(* most once, and none that is live is out of every finalizer's reach.     *)
FreedOnce ==
  /\ \A o \in Objects : env[o] # "corrupt"
  /\ \A o \in Closures \cup Handles : env[o] = "live" => o \in watched

(* The count in _wbg_cb_unref, free() and the finalizers agree on who      *)
(* frees what: each value once, when it is due, and not before.            *)
Ownership == DroppedIsFreed /\ LiveWhileNeeded /\ FreedOnce

(* No TextDecoder is given as many bytes as Safari's stops working at.     *)
WithinBudget == fed < DecoderBudget

(* Whatever the text, the view the glue has cached and the growth of the   *)
(* memory on the way, what chat_send is given is the text in UTF-8.        *)
TextArrives == arg.bytes = Utf8(arg.text)
=============================================================================

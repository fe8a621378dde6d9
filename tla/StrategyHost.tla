---------------------------- MODULE StrategyHost ----------------------------
(***************************************************************************)
(* The strategy host: the per-instance contexts of strategy/engine and the *)
(* WASM strategies it calls (strategy/wasm), each with a linear memory and *)
(* a bump allocator that every call resets when it returns.                *)
(*                                                                         *)
(* Callers are goroutines; nothing serialises two of them that use one     *)
(* strategy.  A step is a section under one mutex, one access to the       *)
(* module's memory, or one call of an exported function.  The function is  *)
(* external: it reads its input from the memory and answers with a signal, *)
(* with none, or with an error.                                            *)
(***************************************************************************)
EXTENDS Naturals, FiniteSets, Sequences

CONSTANTS HostCallers,
          Instances,        \* strategy instances, all of one WASM strategy
          Sizes,            \* sizes of a serialised input, in cells
          MaxSize,          \* maxSize: the largest allocation
          MemoryCells,      \* where the memory can grow no further
          MaxHostCalls,     \* bound: calls into the host
          MaxFills,         \* bound: fills of an instance's orders
          MaxLoads          \* bound: loads of the strategy

ASSUME HostAssumption ==
    /\ Sizes \subseteq Nat \ {0} /\ MaxSize \in Nat /\ MemoryCells \in Nat
    /\ MaxHostCalls \in Nat /\ MaxFills \in Nat /\ MaxLoads \in Nat \ {0}

VARIABLES
    context,    \* instance -> its RunContext: a generation and its position
    wasm,       \* the loaded strategy: generation, open, allocators, memory
    caller,     \* caller -> the call it is in
    calls,      \* calls so far
    filled,     \* instance -> fills the exchange has made
    generation  \* contexts made so far

hostVars == <<context, wasm, caller, calls, filled, generation>>

NoCall == [op |-> "none"]
NoContext == [gen |-> 0, position |-> 0]
\* The allocators the strategy has had, each by its next offset; the last is the
\* current one.  Those strayed (a ghost) were last used by a call begun with another.
NewWasm(g) == [gen |-> g, open |-> TRUE, next |-> <<0>>, strayed |-> {},
               memory |-> [x \in 0..MemoryCells - 1 |-> NoCall]]

HostInit ==
    /\ context = [i \in Instances |-> NoContext]
    /\ wasm = NewWasm(1)
    /\ caller = [c \in HostCallers |-> NoCall]
    /\ calls = 0
    /\ filled = [i \in Instances |-> 0]
    /\ generation = 0

InCall == {c \in HostCallers : caller[c] # NoCall}
Goes(c, where) == caller' = [caller EXCEPT ![c].at = where]
\* The buffer of a call: where its input was written.
Buffer(c) == caller[c].ptr .. caller[c].ptr + caller[c].size - 1

Begin(c, call) ==
    /\ c \notin InCall /\ calls < MaxHostCalls
    /\ calls' = calls + 1
    /\ caller' = [caller EXCEPT ![c] = call]

CallOf(op, i, size, n) ==
    [op |-> op, inst |-> i, ctx |-> context'[i].gen, gen |-> wasm.gen, fill |-> n,
     alloc |-> Len(wasm.next),   \* the receiver of the deferred reset
     size |-> size, at |-> "allocate", ptr |-> 0, disturbed |-> FALSE, heard |-> TRUE]

(***************************************************************************)
(* Tick finds or makes the instance's context, then calls on_tick.         *)
(***************************************************************************)
OnTick(c, i, size) ==
    /\ IF context[i] = NoContext
       THEN /\ generation' = generation + 1
            /\ context' = [context EXCEPT ![i] = [gen |-> generation + 1, position |-> 0]]
       ELSE UNCHANGED <<context, generation>>
    /\ Begin(c, CallOf("tick", i, size, 0))
    /\ UNCHANGED <<wasm, filled>>

\* The exchange fills an order: the fill carries the position it leads to.
OnOrderFilled(c, i, size) ==
    /\ filled[i] < MaxFills
    /\ filled' = [filled EXCEPT ![i] = @ + 1]
    /\ UNCHANGED <<wasm, generation>>
    /\ IF context[i] = NoContext
       THEN UNCHANGED <<context, caller, calls>>
       ELSE UNCHANGED context /\ Begin(c, CallOf("fill", i, size, filled[i] + 1))

OnOrderCanceled(c, i, size) ==
    /\ context[i] # NoContext
    /\ UNCHANGED context
    /\ Begin(c, CallOf("cancel", i, size, 0))
    /\ UNCHANGED <<wasm, filled, generation>>

-----------------------------------------------------------------------------
\* The call returns with an error, a fill without reaching the position.  Every
\* return resets the allocator that was its strategy's when the call began.
Alive(c) == caller[c].gen = wasm.gen

ResetAllocator(c) ==
    LET a == caller[c].alloc IN
    IF Alive(c) THEN [wasm EXCEPT !.next[a] = 0, !.strayed = @ \ {a}] ELSE wasm

\* Every other call begun with that allocator is disturbed: its buffer may be given
\* out again.  So is a call that allocates beside one of these.
Disturb(c) ==
    [d \in HostCallers |->
        IF d = c THEN NoCall
        ELSE IF d \in InCall /\ caller[d].gen = caller[c].gen /\ caller[d].alloc = caller[c].alloc
        THEN [caller[d] EXCEPT !.disturbed = TRUE] ELSE caller[d]]

Fails(c) ==
    /\ wasm' = ResetAllocator(c)
    /\ caller' = Disturb(c)
    /\ UNCHANGED <<context, calls, filled, generation>>

\* allocate: the next free offset, under the allocator's mutex.  The allocator is
\* the one writeToMemory finds, without a lock: the current one, or one that Reset
\* replaced since the call began.
Allocate(c) ==
    /\ c \in InCall /\ caller[c].at = "allocate"
    /\ IF ~Alive(c) \/ caller[c].size > MaxSize THEN Fails(c)
       ELSE \E a \in caller[c].alloc..Len(wasm.next) :
            /\ caller' = [caller EXCEPT ![c].at = "write", ![c].ptr = wasm.next[a],
                             ![c].disturbed = \E d \in InCall : caller[d].disturbed /\ Alive(d)]
            /\ wasm' = [wasm EXCEPT !.next[a] = @ + caller[c].size,
                           !.strayed = IF a = caller[c].alloc THEN @ ELSE @ \union {a}]
            /\ UNCHANGED <<context, calls, filled, generation>>

\* writeToMemory: the memory grows if it can, then takes the input.
WriteToMemory(c) ==
    /\ c \in InCall /\ caller[c].at = "write"
    /\ IF ~Alive(c) \/ caller[c].ptr + caller[c].size > MemoryCells THEN Fails(c)
       ELSE /\ wasm' = [wasm EXCEPT !.memory =
                           [x \in DOMAIN @ |-> IF x \in Buffer(c)
                                               THEN [by |-> c] ELSE @[x]]]
            /\ Goes(c, "call")
            /\ UNCHANGED <<context, calls, filled, generation>>

\* The exported function reads its input and answers.
CallFunction(c) ==
    /\ c \in InCall /\ caller[c].at = "call"
    /\ \/ Fails(c)
       \/ /\ Alive(c) /\ wasm.open
          /\ caller' = [caller EXCEPT ![c].at = "return",
                           ![c].heard = \A x \in Buffer(c) : wasm.memory[x] = [by |-> c]]
          /\ UNCHANGED <<context, wasm, calls, filled, generation>>

\* Slip: a call returns without resetting the allocator.
ReturnsWithoutReset(c) ==
    /\ c \in InCall /\ caller[c].at = "return"
    /\ caller' = IF caller[c].op = "fill" THEN [caller EXCEPT ![c].at = "apply"]
                 ELSE [caller EXCEPT ![c] = NoCall]
    /\ UNCHANGED <<context, wasm, calls, filled, generation>>

Returns(c) ==
    /\ c \in InCall /\ caller[c].at = "return"
    /\ wasm' = ResetAllocator(c)
    /\ caller' = IF caller[c].op = "fill"
                 THEN [Disturb(c) EXCEPT ![c] = [caller[c] EXCEPT !.at = "apply"]]
                 ELSE Disturb(c)
    /\ UNCHANGED <<context, calls, filled, generation>>

\* The last part of OnOrderFilled: the position goes to the context the call
\* began with, which Reset may have removed since.
AppliesFill(c) ==
    LET i == caller[c].inst IN
    /\ c \in InCall /\ caller[c].at = "apply"
    /\ context' = IF context[i].gen = caller[c].ctx
                  THEN [context EXCEPT ![i].position = caller[c].fill] ELSE context
    /\ caller' = [caller EXCEPT ![c] = NoCall]
    /\ UNCHANGED <<wasm, calls, filled, generation>>

\* UpdatePosition: the caller brings the position of the exchange.
UpdatePosition(i) ==
    /\ context[i] # NoContext
    /\ context' = [context EXCEPT ![i].position = filled[i]]
    /\ UNCHANGED <<wasm, caller, calls, filled, generation>>

\* Reset: the strategy's reset function, a new allocator, no context.
HostReset(i) ==
    /\ context[i] # NoContext /\ wasm.open
    /\ wasm' = [wasm EXCEPT !.next = Append(@, 0)]
    /\ caller' = [c \in HostCallers |->
                     IF c \in InCall /\ Alive(c)
                     THEN [caller[c] EXCEPT !.disturbed = TRUE] ELSE caller[c]]
    /\ context' = [context EXCEPT ![i] = NoContext]
    /\ UNCHANGED <<calls, filled, generation>>

\* UnloadStrategy closes the instance under whatever call is in it.
UnloadStrategy ==
    /\ wasm.open
    /\ wasm' = [wasm EXCEPT !.open = FALSE]
    /\ UNCHANGED <<context, caller, calls, filled, generation>>

\* LoadStrategy instantiates the module anew, once the old one is unloaded.
LoadStrategy ==
    /\ ~wasm.open /\ wasm.gen < MaxLoads
    /\ wasm' = NewWasm(wasm.gen + 1)
    /\ UNCHANGED <<context, caller, calls, filled, generation>>

HostNext ==
    \/ \E c \in HostCallers, i \in Instances, size \in Sizes :
          \/ OnTick(c, i, size)
          \/ OnOrderFilled(c, i, size)
          \/ OnOrderCanceled(c, i, size)
    \/ \E c \in HostCallers :
          \/ Allocate(c)
          \/ WriteToMemory(c)
          \/ CallFunction(c)
          \/ Returns(c)
          \/ AppliesFill(c)
    \/ \E i \in Instances : UpdatePosition(i)
    \/ \E i \in Instances : HostReset(i)
    \/ UnloadStrategy
    \/ LoadStrategy

HostSpec == HostInit /\ [][HostNext]_hostVars

-----------------------------------------------------------------------------
\* The state has the type the code gives it.
HostTypeOK ==
    /\ \A i \in Instances : context[i].position \in 0..MaxFills /\ context[i].gen \in Nat
    /\ wasm.gen \in 1..MaxLoads /\ wasm.next \in Seq(Nat) /\ wasm.open \in BOOLEAN
    /\ \A c \in InCall : caller[c].at \in {"allocate", "write", "call", "return", "apply"}

\* A strategy hears its own input: the function called for a caller never reads
\* what another caller wrote, unless a call that returned, or Reset, put the
\* allocator back while the caller, or one beside it, was in the strategy; and once
\* no call is in the strategy the allocator is back at its start, whatever path
\* each of them left by, unless a call that Reset overtook used the new allocator
\* and put back its old one (strategy.go:44-68, 100, 156, 189, 299, 320, 367-430).
HearsItsOwnInput ==
    /\ \A c \in InCall : caller[c].heard \/ caller[c].disturbed
    /\ (\A c \in InCall : ~Alive(c) \/ caller[c].at \in {"allocate", "apply"}) =>
          wasm.next[Len(wasm.next)] = 0 \/ Len(wasm.next) \in wasm.strayed
=============================================================================

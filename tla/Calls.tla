------------------------------- MODULE Calls --------------------------------
(***************************************************************************)
(* Calling a function of the debuggee (TypedVarFunction::call of           *)
(* source/typedvar.cpp): the arguments are written into the registers and  *)
(* onto the stack of the current thread, a breakpoint is set where that    *)
(* thread stands, its instruction pointer is moved to the function, with   *)
(* the breakpoint as return address, and the debuggee runs until the       *)
(* current thread is there again.  Then the result is read and the         *)
(* registers are put back.                                                 *)
(*                                                                         *)
(* The threads, and what the compiler makes of a function (Microsoft's     *)
(* conventions for 32 and 64 bit x86), are the debuggee's: external.  One  *)
(* call is made.                                                           *)
(*                                                                         *)
(* The stack is its bytes.  A byte is one of an argument, of what a number *)
(* is extended with, of an address, of the result, or of no interest.      *)
(***************************************************************************)
EXTENDS Integers, Sequences, FiniteSets

Registers == INSTANCE CpuContexts

CONSTANTS
  Threads,
  Caller,         (* the current thread when the call is made              *)
  Given,          (* the calls, each a function with arguments             *)
  Top,            (* where the stack of the caller ends, by alignment      *)
  MaxStops        (* bound: events that are not the end of the call        *)

ASSUME CallerAssumption == Caller \in Threads /\ MaxStops \in Nat

VARIABLES
  call,           (* never changes: the function, the arguments, and where *)
                  (* the caller stands                                     *)
  context,        (* context[t]: the registers of a thread                 *)
  memory,         (* bytes of the caller's stack that have been written    *)
  current,        (* the current thread                                    *)
  breakpoint,     (* the call's breakpoint is set                          *)
  stage,          (* "asked", "running", "ended"                           *)
  pending,        (* what the C++ frames of the call hold                  *)
  answer,         (* what the call returns, or Thrown                      *)
  received,       (* the arguments as the function found them              *)
  met,            (* what happened meanwhile                               *)
  stops

vars == <<call, context, memory, current, breakpoint, stage, pending, answer, received, met, stops>>

Thrown == <<"thrown">>
Nothing == [a \in {} |-> Thrown]
-----------------------------------------------------------------------------
(* Types are pairs of a kind and a size, values are a type and bytes.      *)
Kind(t) == t[1]
Size(t) == t[2]

Plain == {1, 2, 4, 8}   (* sizes of what is passed like a number           *)

WordOf(mode) == IF mode = "I386" THEN 4 ELSE 8
Word == WordOf(call.mode)

(* The types there are.  An array is no parameter, but may be an argument; *)
(* arguments that are floating point numbers are left out.                 *)
CommonTypes(mode) ==
  ({"base", "enum"} \X Plain) \cup {<<"pointer", WordOf(mode)>>} \cup ({"udt"} \X (Nat \ {0}))
ParameterTypes(mode) == CommonTypes(mode) \cup ({"float"} \X {4, 8})
ResultTypes(mode) == ParameterTypes(mode) \cup {<<"void", 0>>}
ArgumentTypes(mode) == CommonTypes(mode) \cup ({"array"} \X Nat)

IsList(list) == Len(list) \in Nat /\ list = [i \in 1..Len(list) |-> list[i]]
IsValue(v, mode) == v.type \in ArgumentTypes(mode) /\ IsList(v.bytes) /\ Len(v.bytes) = Size(v.type)

(* A method, a function that is a member and not static, has its object, a *)
(* pointer, as first parameter.                                            *)
IsCall(c) ==
  /\ IsList(c.params) /\ \A j \in 1..Len(c.params) : c.params[j] \in ParameterTypes(c.mode)
  /\ IsList(c.args) /\ \A j \in 1..Len(c.args) : IsValue(c.args[j], c.mode)
  /\ c.returns \in ResultTypes(c.mode)
  /\ c.convention = "ThisCall" => c.method
  /\ c.method => Len(c.params) > 0 /\ Kind(c.params[1]) = "pointer"
  /\ c.at \in {"here", "function"} /\ c.bound \in BOOLEAN /\ c.method \in BOOLEAN

ASSUME GivenAssumption == Top \subseteq Nat /\ \A c \in Given : IsCall(c)

Bytes(what, j, n) == [k \in 1..n |-> <<what, j, k>>]
First(bytes, n) == [k \in 1..n |-> bytes[k]]
Address(a) == Bytes("at", a, Word)
IsAddress(bytes) == bytes[1][1] = "at"

(* Bytes of the stack, the old ones where nothing has been written.        *)
Read(mem, at, n) == [k \in 1..n |-> IF at + k - 1 \in DOMAIN mem THEN mem[at + k - 1] ELSE <<"old", 0, 0>>]

Pointee(mem, bytes, n) == IF IsAddress(bytes) THEN Read(mem, bytes[1][2], n) ELSE Nothing

Span(at, n) == at..(at + n - 1)

Over(mem, at, bytes) ==
  [a \in DOMAIN mem \cup Span(at, Len(bytes)) |-> IF a \in Span(at, Len(bytes)) THEN bytes[a - at + 1] ELSE mem[a]]
-----------------------------------------------------------------------------
(* The caller's registers and stack while they are prepared: m.            *)
Prepared(thread, mem) == [thread |-> thread, memory |-> mem]

(* alignStackPointer, whose division is that of C, and stackAlloc, whose   *)
(* count is an unsigned short.                                             *)
ShortRange == 65536
AlignStackPointer(n) == IF n = 0 THEN Word ELSE ((n - 1) \div Word + 1) * Word

StackAlloc(m, n) ==
  [m EXCEPT !.thread.sp = @ - (AlignStackPointer(n % ShortRange) % ShortRange)]

Put(m, at, bytes) == [m EXCEPT !.memory = Over(@, at, bytes)]

(* A value is written to the stack that is allocated for it.               *)
Push(m, bytes) ==
  LET allocated == StackAlloc(m, Len(bytes)) IN Put(allocated, allocated.thread.sp, bytes)

(* TypedValue::writeBytes to a register accessor: the low bytes change.    *)
SetRegister(m, r, bytes) ==
  [m EXCEPT !.thread.registers[r] = [k \in DOMAIN @ |-> IF k <= Len(bytes) THEN bytes[k] ELSE @[k]]]

(* A loop over a list, from its last element to its first: the stack after *)
(* each number of steps.                                                   *)
Backward(Step(_, _, _), m, list) ==
  LET at[k \in 0..Len(list)] ==
        IF k = 0 THEN m ELSE Step(at[k - 1], Len(list) + 1 - k, list[Len(list) + 1 - k]) IN at
-----------------------------------------------------------------------------
(* castBaseArg, castPtrArg and castUdt.  ok is FALSE if they throw.        *)
Cast(m, arg) == [m |-> m, arg |-> arg, ok |-> TRUE]
Refused(m) == [m |-> m, arg |-> Nothing, ok |-> FALSE]

IsNumber(v) == Kind(v.type) \in {"base", "enum", "pointer"}

(* What a number becomes when it is given another size.                    *)
Converted(v, n) ==
  [k \in 1..n |-> IF k <= Len(v.bytes) THEN v.bytes[k] ELSE <<"extended", v.bytes[1][2], 0>>]

CastBaseArg(m, type, v) ==
  IF Kind(type) = "base" /\ IsNumber(v) THEN Cast(m, Converted(v, Size(type))) ELSE Refused(m)

(* An array is copied to the stack.                                        *)
CastPtrArg(m, v) ==
  CASE Kind(v.type) \in {"pointer", "base"} -> Cast(m, Converted(v, Word))
    [] Kind(v.type) = "array" -> Cast(Push(m, v.bytes), Address(Push(m, v.bytes).thread.sp))
    [] OTHER -> Refused(m)

(* A small structure becomes a number of the size of a register.           *)
CastUdt(m, type, v) ==
  CASE type # v.type -> Refused(m)
    [] type = v.type /\ Size(type) <= Word -> Cast(m, Converted(v, Word))
    [] type = v.type /\ Size(type) > Word -> Cast(m, v.bytes)

CastArg(m, type, v) ==
  CASE Kind(type) \in {"base", "float"} -> CastBaseArg(m, type, v)
    [] Kind(type) \in {"pointer", "array"} -> CastPtrArg(m, v)
    [] Kind(type) = "udt" -> CastUdt(m, type, v)
    [] OTHER -> Refused(m)

(* TypedVarMethodBound::call puts the object before the other arguments.   *)
This == [type |-> <<"base", 8>>, bytes |-> [k \in 1..8 |-> <<"this", 1, k>>]]
Arguments ==
  IF call.bound THEN [j \in 1..(Len(call.args) + 1) |-> IF j = 1 THEN This ELSE call.args[j - 1]] ELSE call.args

(* castArgs: one after the other, until one is refused.                    *)
Casts(m) ==
  LET cast[i \in 0..Len(call.params)] ==
        IF i = 0 THEN Cast(m, Nothing)
        ELSE IF cast[i - 1].ok THEN CastArg(cast[i - 1].m, call.params[i], Arguments[i])
        ELSE cast[i - 1] IN cast

CastArgs(m) ==
  IF Len(Arguments) # Len(call.params) THEN [m |-> m, args |-> Nothing, ok |-> FALSE]
  ELSE [m |-> Casts(m)[Len(call.params)].m, args |-> [j \in 1..Len(call.params) |-> Casts(m)[j].arg],
        ok |-> Casts(m)[Len(call.params)].ok]
-----------------------------------------------------------------------------
(* Room for a large result, of which the function is given the address,    *)
(* before the arguments; but the object of a method is in a register.      *)
IsLarge == Size(call.returns) > 8
WithRoom(m) == IF IsLarge THEN StackAlloc(m, Size(call.returns)) ELSE m

AddressPlace == IF call.mode = "I386" /\ call.convention = "ThisCall" THEN 2 ELSE 1
WithAddress(args, a) ==
  IF ~IsLarge THEN args
  ELSE [q \in 1..(Len(args) + 1) |->
          CASE q < AddressPlace -> args[q] [] q = AddressPlace -> Address(a) [] q > AddressPlace -> args[q - 1]]

(* callFast: the first two also go into registers.                         *)
FastRegister(m, i, bytes) ==
  IF i <= 2 /\ Len(bytes) <= 4 THEN SetRegister(m, <<"edx", "ecx">>[i], bytes) ELSE m

(* The loops of callCdecl, which is also callStd, callFast, callThis and   *)
(* callX64.                                                                *)
PassOne(m, i, bytes) ==
  CASE call.mode = "AMD64" /\ i <= 4 -> SetRegister(m, <<"rcx", "rdx", "r8", "r9">>[i], bytes)
    [] call.mode = "I386" /\ call.convention = "ThisCall" /\ i = 1 -> SetRegister(m, "ecx", bytes)
    [] call.mode = "I386" /\ call.convention = "NearFast" -> Push(FastRegister(m, i, bytes), bytes)
    [] OTHER -> Push(m, bytes)

(* Fault: the first argument is pushed first.                              *)
PassAll_Forward(m, all) ==
  LET at[k \in 0..Len(all)] == IF k = 0 THEN m ELSE PassOne(at[k - 1], k, all[k]) IN at[Len(all)]

PassAll(m, all) == Backward(PassOne, m, all)[Len(all)]

(* callX64 first copies those of the first four arguments that do not fit  *)
(* a register to the stack, and passes their addresses.                    *)
IsBig(i, bytes) == i <= 4 /\ Len(bytes) > 8
CopyBig(m, i, bytes) == IF IsBig(i, bytes) THEN Push(m, bytes) ELSE m

Copied(m, args) == Backward(CopyBig, m, args)
ByReference(m, args) ==
  [i \in 1..Len(args) |->
     IF IsBig(i, args[i]) THEN Address(Copied(m, args)[Len(args) + 1 - i].thread.sp) ELSE args[i]]

(* Fault: an odd number of arguments is not made up for.                   *)
AlignStack_Even(m, n) == [m EXCEPT !.thread.sp = (@ \div 16) * 16]

AlignStack(m, n) ==
  [m EXCEPT !.thread.sp = ((@ \div 16) * 16) - (IF n > 4 /\ n % 2 # 0 THEN 8 ELSE 0)]

(* The stack with the room for the result.                                 *)
Roomy(m, args) == WithRoom(IF call.mode = "AMD64" THEN Copied(m, args)[Len(args)] ELSE m)

CallX86(m, args) ==
  PassAll(Roomy(m, args), WithAddress(args, Roomy(m, args).thread.sp))

CallX64(m, args) ==
  LET all == WithAddress(ByReference(m, args), Roomy(m, args).thread.sp) IN
  StackAlloc(PassAll(AlignStack(Roomy(m, args), Len(all)), all), 32)

(* makeCallx86 and makeCallx64, until the debuggee runs: the address where *)
(* the thread stands is what the function will return to.                  *)
MakeCall(m) == [Push(m, Bytes("return", 0, Word)) EXCEPT !.thread.ip = "function"]

Supported ==
  \/ call.mode = "AMD64"
  \/ call.mode = "I386" /\ call.convention \in {"NearC", "NearStd", "NearFast", "ThisCall"}

Made(m, args) == MakeCall(IF call.mode = "AMD64" THEN CallX64(m, args) ELSE CallX86(m, args))
-----------------------------------------------------------------------------
(* The function, as the compiler made it.  0 is the address of the room    *)
(* for the result.  A method takes one for every structure that it         *)
(* returns, however small, and takes it after its object.                  *)
IsHidden == Kind(call.returns) = "udt" /\ (call.method \/ Size(call.returns) \notin Plain)

Places == IF IsHidden THEN Len(call.params) + 1 ELSE Len(call.params)
HiddenPlace == IF call.method THEN 2 ELSE 1
Passed ==
  [q \in 1..Places |->
     CASE ~IsHidden \/ q < HiddenPlace -> q
       [] IsHidden /\ q = HiddenPlace -> 0
       [] IsHidden /\ q > HiddenPlace -> q - 1]
PlaceOf(j) == CHOOSE q \in 1..Places : Passed[q] = j

IsIndirect(j) == j # 0 /\ call.mode = "AMD64" /\ Size(call.params[j]) \notin Plain
SizeAt(j) == IF j = 0 \/ IsIndirect(j) THEN Word ELSE Size(call.params[j])
FitsFast(j) == j = 0 \/ (Kind(call.params[j]) # "udt" /\ SizeAt(j) <= 4)

NoRegister == "none"
FastBefore(q) == Cardinality({p \in 1..(q - 1) : FitsFast(Passed[p])})
RegisterOf(q) ==
  CASE call.mode = "AMD64" /\ q <= 4 -> <<"rcx", "rdx", "r8", "r9">>[q]
    [] call.mode = "I386" /\ call.convention = "ThisCall" /\ q = 1 -> "ecx"
    [] call.mode = "I386" /\ call.convention = "NearFast" /\ FitsFast(Passed[q]) /\ FastBefore(q) < 2 ->
         <<"ecx", "edx">>[FastBefore(q) + 1]
    [] OTHER -> NoRegister

(* The bytes of stack that the arguments up to a place take.               *)
OnStack[q \in 0..Places] ==
  IF q = 0 THEN 0
  ELSE OnStack[q - 1] + (IF RegisterOf(q) = NoRegister THEN AlignStackPointer(SizeAt(Passed[q])) ELSE 0)

(* The room above the return address that is the function's own.           *)
Home == IF call.mode = "AMD64" THEN 32 ELSE 0

(* What the function finds in the place of an argument.                    *)
Found(m, j) ==
  IF RegisterOf(PlaceOf(j)) # NoRegister THEN First(m.thread.registers[RegisterOf(PlaceOf(j))], SizeAt(j))
  ELSE Read(m.memory, m.thread.sp + Word + Home + OnStack[PlaceOf(j) - 1], SizeAt(j))

(* An argument as the function finds it; what an array passed as pointer   *)
(* points to.                                                              *)
Receives(m, j) ==
  CASE IsIndirect(j) -> Pointee(m.memory, Found(m, j), Size(call.params[j]))
    [] ~IsIndirect(j) /\ Kind(Arguments[j].type) = "array" -> Pointee(m.memory, Found(m, j), Size(Arguments[j].type))
    [] OTHER -> Found(m, j)

(* On 64 bits, code relies on the alignment of the stack.                  *)
Received(m) ==
  IF call.mode = "AMD64" /\ (m.thread.sp + Word) % 16 # 0 THEN <<Nothing>>
  ELSE [j \in 1..Len(call.params) |-> Receives(m, j)]

Junk(n) == Bytes("junk", 0, n)
Result(n) == Bytes("result", 0, n)
Padded(n) == [k \in 1..8 |-> IF k <= n THEN <<"result", 0, k>> ELSE <<"junk", 0, k>>]
InRegister == ~IsHidden /\ Kind(call.returns) # "float" /\ Size(call.returns) > 0

ResultRegister(r) ==
  CASE InRegister /\ r \in {"eax", "rax"} -> First(Padded(Size(call.returns)), Word)
    [] InRegister /\ r = "edx" -> [k \in 1..4 |-> Padded(Size(call.returns))[k + 4]]
    [] OTHER -> Junk(Word)

(* Who takes the arguments off the stack.                                  *)
Popped ==
  IF call.mode = "I386" /\ call.convention # "NearC" THEN OnStack[Places] ELSE 0

Returned(m) ==
  [ip |-> IF Read(m.memory, m.thread.sp, Word) = Bytes("return", 0, Word) THEN call.at ELSE "lost",
   sp |-> m.thread.sp + Word + Popped,
   registers |-> [r \in DOMAIN m.thread.registers |-> ResultRegister(r)]]

(* The function changes its arguments and writes a hidden result to the    *)
(* address it finds.  If nobody passed one, the result goes anywhere and   *)
(* what else it changes is not followed: see CalledOtherwise.              *)
Left(m) ==
  LET used == Over(m.memory, m.thread.sp, Junk(Word + Home + IF Home = 0 THEN OnStack[Places] ELSE 0)) IN
  IF IsHidden /\ IsAddress(Found(m, 0))
  THEN Over(used, Found(m, 0)[1][2], Result(Size(call.returns))) ELSE used
-----------------------------------------------------------------------------
(* Fault: the call is over when the debuggee stops.                        *)
IsDone_AtStop == stops > 0 \/ context[current].ip = call.at

(* The loop of makeCallx86 and makeCallx64.                                *)
IsDone == context[current].ip = call.at
Running == stage = "running" /\ ~IsDone

(* Event: the function returns.                                            *)
Returns ==
  /\ Running
  /\ context' = [context EXCEPT ![Caller] = Returned(Prepared(@, memory))]
  /\ memory' = Left(Prepared(context[Caller], memory))
  /\ received' = Received(Prepared(context[Caller], memory))
  /\ current' = Caller
  /\ UNCHANGED <<call, breakpoint, stage, pending, answer, met, stops>>

(* Event: the function calls what the caller was stopped in.               *)
Recurs ==
  /\ Running /\ breakpoint
  /\ context' = [context EXCEPT ![Caller].ip = call.at, ![Caller].sp = @ - Word,
                                ![Caller].registers = [r \in DOMAIN @ |-> Junk(Word)]]
  /\ current' = Caller
  /\ met' = met \cup {"recursion"}
  /\ UNCHANGED <<call, memory, breakpoint, stage, pending, answer, received, stops>>

(* Event: another thread comes where the caller was stopped.               *)
Shares(t) ==
  /\ Running /\ breakpoint /\ t # Caller
  /\ context' = [context EXCEPT ![t].ip = call.at]
  /\ current' = t
  /\ met' = met \cup {"shared"}
  /\ UNCHANGED <<call, memory, breakpoint, stage, pending, answer, received, stops>>

(* Event: a breakpoint of somebody else, or an exception that is passed    *)
(* on, in any thread.                                                      *)
Stops(t) ==
  /\ Running /\ stops < MaxStops
  /\ current' = t
  /\ stops' = stops + 1
  /\ UNCHANGED <<call, context, memory, breakpoint, stage, pending, answer, received, met>>

(* Fault: only the stack and the instruction pointer are put back.         *)
Restored_Pointers(thread, saved) == [saved EXCEPT !.registers = thread.registers]

(* ~CPUContextAutoRestore: the context goes to the thread that is current. *)
Restored(thread, saved) == saved

Ends(t, result) ==
  /\ stage' = "ended"
  /\ answer' = result
  /\ breakpoint' = FALSE
  /\ context' = [context EXCEPT ![t] = Restored(@, pending.saved)]

(* Event: nobody handles an exception, and the call is given up.           *)
Raises(t) ==
  /\ Running
  /\ Ends(t, Thrown)
  /\ current' = t
  /\ met' = IF t = Caller THEN met ELSE met \cup {"foreign"}
  /\ UNCHANGED <<call, memory, pending, received, stops>>
-----------------------------------------------------------------------------
(* getReturnReg: the last of the registers is the low part.                *)
GetReturnReg(thread) ==
  LET names == Registers!ReturnRegisters(call.mode) IN
  [k \in 1..8 |-> thread.registers[names[Len(names) - ((k - 1) \div Word)]][((k - 1) % Word) + 1]]

(* The address is 4 bytes of it, unless it is 8.                           *)
PointerSize == IF call.mode = "AMD64" \/ call.convention = "NearFast" THEN 8 ELSE 4

Answer(thread) ==
  LET kind == Kind(call.returns) IN
  CASE IsLarge -> Read(memory, pending.room, Size(call.returns))
    [] ~IsLarge /\ kind \in {"base", "udt"} -> First(GetReturnReg(thread), Size(call.returns))
    [] ~IsLarge /\ kind = "pointer" -> First(GetReturnReg(thread), PointerSize)
    [] ~IsLarge /\ kind = "void" -> Nothing
    [] OTHER -> Thrown

Finish ==
  /\ stage = "running" /\ IsDone
  /\ Ends(current, Answer(context[current]))
  /\ UNCHANGED <<call, memory, current, pending, received, met, stops>>

(* castArgs, as it is begun.                                               *)
Begun == CastArgs(Prepared(context[current], memory))
IsCallable == call.body /\ Supported

(* TypedVarFunction::call, until the debuggee runs.                        *)
Ask ==
  /\ stage = "asked"
  /\ IsCallable /\ Begun.ok
  /\ context' = [context EXCEPT ![current] = Made(Begun.m, Begun.args).thread]
  /\ memory' = Made(Begun.m, Begun.args).memory
  /\ pending' = [saved |-> context[current], room |-> Roomy(Begun.m, Begun.args).thread.sp]
  /\ breakpoint' = TRUE
  /\ stage' = "running"
  /\ UNCHANGED <<call, current, answer, received, met, stops>>

(* It throws before that; what was written to the stack stays.             *)
Refuse ==
  /\ stage = "asked"
  /\ ~(IsCallable /\ Begun.ok)
  /\ stage' = "ended"
  /\ answer' = Thrown
  /\ memory' = IF IsCallable THEN Begun.m.memory ELSE memory
  /\ UNCHANGED <<call, context, current, breakpoint, pending, received, met, stops>>

RegisterNames ==
  IF call.mode = "I386" THEN {"eax", "ecx", "edx"} ELSE {"rax", "rcx", "rdx", "r8", "r9"}

Start(t, top) ==
  [ip |-> IF t = Caller THEN call.at ELSE "elsewhere",
   sp |-> IF t = Caller THEN top ELSE 0,
   registers |-> [r \in RegisterNames |-> Bytes("old", 0, Word)]]

Init ==
  /\ call \in Given
  /\ \E top \in Top : context = [t \in Threads |-> Start(t, top)]
  /\ memory = Nothing
  /\ current = Caller
  /\ breakpoint = FALSE
  /\ stage = "asked"
  /\ pending = [saved |-> context[Caller], room |-> 0]
  /\ answer = Nothing
  /\ received = Nothing
  /\ met = {}
  /\ stops = 0

Next ==
  \/ Ask
  \/ Refuse
  \/ Returns
  \/ Recurs
  \/ Finish
  \/ \E t \in Threads : Shares(t) \/ Stops(t) \/ Raises(t)

Spec == Init /\ [][Next]_vars
-----------------------------------------------------------------------------
(* Functions that are called otherwise than the compiler expects: see the  *)
(* README.  Of the methods that return structures only those are called    *)
(* right that are by thiscall, on 32 bits, and return one of more than 8   *)
(* bytes: smaller ones are given no address, on 64 bits and by other       *)
(* conventions the address comes before the object.                        *)
IsOdd(t) == Kind(t) = "udt" /\ Size(t) \in {3, 5, 6, 7}

IsHuge(n) == n > ShortRange - 8   (* more than stackAlloc can count        *)

CalledOtherwise ==
  \/ IsOdd(call.returns)
  \/ IsHuge(Size(call.returns)) \/ \E j \in 1..Len(Arguments) : IsHuge(Size(Arguments[j].type))
  \/ call.mode = "AMD64" /\ \E j \in 1..Len(call.params) :
       \/ IsOdd(call.params[j])
       \/ j > 4 /\ Size(call.params[j]) > 8
  \/ call.method /\ IsHidden /\ ~(call.mode = "I386" /\ call.convention = "ThisCall" /\ IsLarge)
  \/ call.mode = "I386" /\ call.convention = "NearFast" /\
       (IsHidden \/ Kind(call.returns) = "pointer" \/ \E j \in 1..Len(call.params) : FitsFast(j))

(* What C++ passes for the argument.                                       *)
Meant(j) ==
  LET v == Arguments[j] IN
  IF Kind(v.type) \in {"array", "udt"} THEN v.bytes ELSE Converted(v, Size(call.params[j]))

(* The call is the only one that comes back to where the caller was        *)
(* stopped.                                                                *)
IsAlone == met = {} /\ call.at # "function"


(* A call that returns something has run the function, with the arguments  *)
(* where the compiler expects them, and returns its result.                *)
CallsAnswer ==
  stage = "ended" /\ answer # Thrown /\ IsAlone /\ ~CalledOtherwise
    => /\ received = [j \in 1..Len(call.params) |-> Meant(j)]
       /\ answer = Result(Size(call.returns))

(* Whatever a call ends with, nothing of it is left: no breakpoint; in the *)
(* part of the stack that is in use, nothing; and, if it was alone, each   *)
(* thread has the registers it had.                                        *)
CallsLeaveNothing ==
  stage = "ended" =>
    /\ ~breakpoint
    /\ ~CalledOtherwise => \A a \in DOMAIN memory : a < pending.saved.sp
    /\ IsAlone => context = [t \in Threads |-> Start(t, pending.saved.sp)]
=============================================================================

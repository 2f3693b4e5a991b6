---------------------------- MODULE StackFrames -----------------------------
(***************************************************************************)
(* The stack of the current thread and what its frames show: the stack     *)
(* readers of source/win/cpucontext.cpp, the frames of source/stackimpl.h  *)
(* and source/stack.cpp, and the lookup of a name in the current frame     *)
(* (loadTypedVar of source/typedvar.cpp).                                  *)
(*                                                                         *)
(* A frame of the debuggee is <<epoch, thread, mode, k>>: the k-th from    *)
(* the top while the debuggee stood at its epoch-th stop, as the processor *)
(* mode sees it.  Registers are parts of it, and addresses of variables    *)
(* are relative to its registers, so two of them are the same only if they *)
(* are of the same frame.                                                  *)
(*                                                                         *)
(* Of the debug information: a function has a range of addresses, a range  *)
(* after its prologue, variables, blocks within blocks, and places where   *)
(* other functions are inlined.  Symbols are found by address, inlined     *)
(* functions are listed from the innermost.                                *)
(***************************************************************************)
EXTENDS TargetObjects, CpuContexts

CONSTANTS
  Processor,     (* of a system: its actual type                           *)
  OwnMode,       (* of a thread: the mode its code runs in                 *)
  Traces,        (* [<<thread, mode>> -> the addresses of its frames, top  *)
                 (* first, at each stop]                                   *)
  Unreadable,    (* stops <<thread, epoch>> at which the 32 bit context of *)
                 (* a thread cannot be read                                *)
  Code,          (* the functions there are symbols for                    *)
  Blocks,        (* their blocks, those within other blocks included       *)
  Mapped,        (* addresses within modules                               *)
  MaxFrames      (* how many frames the readers have room for, 1024        *)

EffectiveMode(e) == IF e.mode # "" THEN e.mode ELSE OwnMode[CurrentThread(e)]
Addresses(e, mode) == LET t == CurrentThread(e) IN
  IF <<t, mode>> \in DOMAIN Traces THEN Traces[<<t, mode>>][e.epoch + 1] ELSE <<>>
FrameAt(e, mode, k) == <<e.epoch, CurrentThread(e), mode, k>>
Quiet(e, on) == [e EXCEPT !.quiet = on]
-----------------------------------------------------------------------------
(* Debug information.                                                      *)
Covers(ip, r) == r.from <= ip /\ ip < r.to

FunctionsAt(ip) == {f \in Code : Covers(ip, f)}
FunctionAt(ip) == CHOOSE f \in FunctionsAt(ip) : TRUE

(* findInlineFramesByVA, from the innermost.                               *)
SitesOf(f, ip) == SelectSeq(f.inlined, LAMBDA r : Covers(ip, r))

(* Fault: the last address does not.                                       *)
InDebugRange_Before(ip, r) == r.from <= ip /\ ip < r.to - 1

(* inDebugRange: the end counts.                                           *)
InDebugRange(ip, r) == r.from <= ip /\ ip <= r.to

(* Fault: parameters are taken for locals.                                 *)
Wanted_ParamsToo(v, kind) ==
  CASE kind = "local" -> v.kind # "static"
    [] kind = "param" -> v.kind \in {"param", "this"}
    [] kind = "static" -> v.kind = "static" /\ v.name # ""

Wanted(v, kind) ==
  CASE kind = "local" -> v.kind = "local"
    [] kind = "param" -> v.kind \in {"param", "this"}
    [] kind = "static" -> v.kind = "static" /\ v.name # ""
OfKind(data, kind) == SelectSeq(data, LAMBDA v : Wanted(v, kind))

(* Fault: only the outermost blocks are looked at.                         *)
BlockVars_Flat(b, ip, kind) == IF InDebugRange(ip, b) THEN OfKind(b.data, kind) ELSE <<>>

(* getBlockLocalVars, getBlockStaticVars.                                  *)
BlockVars(b, ip, kind) ==
  LET vars[x \in Blocks] ==
        IF ~InDebugRange(ip, x) THEN <<>>
        ELSE FoldLeft(LAMBDA found, inner : found \o vars[inner], OfKind(x.data, kind), x.blocks) IN
  vars[b]

(* getLocalVars, getParams and getStaticVars: where there are no symbols   *)
(* the first two are empty, and the last one throws.  Parameters are there *)
(* in the prologue too.                                                    *)
Vars(ip, kind) ==
  LET f == FunctionAt(ip)
      scoped == FoldLeft(LAMBDA found, b : found \o BlockVars(b, ip, kind), OfKind(f.data, kind), f.blocks) IN
  CASE ip \notin Mapped -> [ok |-> FALSE, vars |-> <<>>]
    [] ip \in Mapped /\ FunctionsAt(ip) = {} -> [ok |-> kind # "static", vars |-> <<>>]
    [] OTHER -> [ok |-> TRUE, vars |-> IF kind = "param" THEN OfKind(f.data, kind)
                                      ELSE IF InDebugRange(ip, f.debug) THEN scoped ELSE <<>>]
-----------------------------------------------------------------------------
(* Frames and stacks: StackFrameImpl holds a copy of the registers.        *)
Frame(number, at, ip, context, cpu, inline) ==
  [kind |-> "frame", number |-> number, at |-> at, ip |-> ip, context |-> context, cpu |-> cpu, inline |-> inline]

(* GetContextStackTrace lists frames; GetContextStackTraceEx lists, above  *)
(* each of them, the functions inlined where it stands, which for a caller *)
(* is before the address it returns to.  There is as much of the list as   *)
(* there is room for.                                                      *)
AtMost(n) == IF n > MaxFrames THEN MaxFrames ELSE n

Walked(e, mode, inlineFrames) ==
  LET ips == Addresses(e, mode)
      place(k) == IF k = 1 THEN ips[k] ELSE ips[k] - 1
      sites(k) == IF ~inlineFrames \/ FunctionsAt(place(k)) = {} THEN 0 ELSE Len(SitesOf(FunctionAt(place(k)), place(k)))
      entry(k, isInline) == [k |-> k, ip |-> ips[k], isInline |-> isInline]
      listed(k) == [i \in 1..(sites(k) + 1) |-> entry(k, i <= sites(k))] IN
  FlattenSeq([k \in DOMAIN ips |-> listed(k)])

Entries(e, mode, inlineFrames) ==
  LET all == Walked(e, mode, inlineFrames) IN SubSeq(all, 1, AtMost(Len(all)))

(* Fault: the next entry is taken for the one that is not inlined.         *)
Depth_Next(entries, i) == IF entries[i].isInline THEN 1 ELSE 0

(* How many entries above the next one that is not inlined the i-th is.    *)
(* If the list is cut in between, the code reads what follows its buffer:  *)
(* then no depth can be chosen, and it may be any.                         *)
Depth(entries, i) ==
  CHOOSE d \in 0..(Len(entries) - i) : ~entries[i + d].isInline /\ \A m \in 0..(d - 1) : entries[i + m].isInline

(* getStackImpl.  An inlined frame is made from the first entry below it   *)
(* that is not, with how many there are to it.                             *)
ImplFrame(e, cpu, entries, i) ==
  Frame(i - 1, FrameAt(e, cpu.mode, entries[i + Depth(entries, i)].k), entries[i + Depth(entries, i)].ip,
        FrameAt(e, cpu.mode, entries[i].k), cpu, Depth(entries, i))

(* getStackWow64: of a thread that had no event the context is read from   *)
(* its memory, and is the context of every frame.                          *)
Readable(e) == <<CurrentThread(e), e.epoch>> \notin Unreadable

Wow64Frame(e, entries, i) ==
  Frame(i - 1, FrameAt(e, "I386", entries[i].k), entries[i].ip, FrameAt(e, "I386", 1), WOW64,
        IF entries[i].isInline THEN 1 ELSE 0)

Stacked(e, entries, FrameOf(_, _)) == Gives(Quiet(e, FALSE), [i \in DOMAIN entries |-> FrameOf(entries, i)])

Stack(e, cpu, inlineFrames) ==
  CASE cpu = WOW64 /\ (e.event = None \/ (e.event # CurrentThread(e) /\ ~Readable(e))) -> Throws(e)
    [] cpu = WOW64 /\ e.event \notin {None, CurrentThread(e)} /\ Readable(e) ->
         Stacked(e, Entries(e, "I386", inlineFrames), LAMBDA entries, i : Wow64Frame(e, entries, i))
    [] OTHER ->
         Stacked(e, Entries(e, cpu.mode, inlineFrames), LAMBDA entries, i : ImplFrame(e, cpu, entries, i))

(* getStack: the processor of the current thread decides.                  *)
CurrentContext(e) ==
  IF CurrentThread(e) = None THEN NoContext ELSE ContextFor(Processor[CurrentSystem(e)], EffectiveMode(e))

GetStack(e, inlineFrames) ==
  IF CurrentContext(e) = NoContext THEN Throws(e) ELSE Stack(e, CurrentContext(e), inlineFrames)

(* getStackFrameImpl and getStackFrameWow64: the frame that has the number *)
(* of the scope.  What lies beyond the stack is zero; beyond the buffer it *)
(* may be anything, and there is no case for it.                           *)
NoFrame == <<>>
FrameOfScope(e, cpu, context) ==
  LET ips == Addresses(e, cpu.mode)
      k == e.scope + 1 IN
  CASE k <= MaxFrames /\ k \in DOMAIN ips -> Frame(e.scope, FrameAt(e, cpu.mode, k), ips[k], context, cpu, 0)
    [] k <= MaxFrames /\ k \notin DOMAIN ips -> Frame(e.scope, NoFrame, 0, NoFrame, cpu, 0)

FrameImpl(e, cpu) ==
  Gives(Quiet(e, FALSE), FrameOfScope(e, cpu, FrameAt(e, cpu.mode, e.scope + 1)))

(* If the context cannot be read, notifications stay off.                  *)
FrameWow64(e) ==
  CASE e.event = None -> Throws(e)
    [] e.event = CurrentThread(e) -> FrameImpl(e, WOW64)
    [] OTHER -> IF Readable(e) THEN Gives(Quiet(e, FALSE), FrameOfScope(e, WOW64, FrameAt(e, "I386", 1)))
                ELSE Throws(Quiet(e, TRUE))

GetCurrentStackFrame(e) ==
  CASE CurrentContext(e) = NoContext -> Throws(e)
    [] CurrentContext(e) = WOW64 -> FrameWow64(e)
    [] OTHER -> FrameImpl(e, CurrentContext(e))

(* setCurrentStackFrame, setCurrentStackFrameByIndex, resetCurrent...      *)
SetCurrentStackFrame(e, f) == Gives([e EXCEPT !.scope = f.number], None)
SetCurrentStackFrameByIndex(e, i) ==
  IF CurrentThread(e) # None /\ i < Len(Addresses(e, EffectiveMode(e))) THEN Gives([e EXCEPT !.scope = i], None) ELSE Throws(e)
ResetCurrentStackFrame(e) == Gives([e EXCEPT !.scope = 0], None)

(* Of a thread object.                                                     *)
StackOf(e, o, inlineFrames) == About(e, o, LAMBDA in : GetStack(in, inlineFrames))
-----------------------------------------------------------------------------
(* Where a variable is.                                                    *)
NoPlace == <<"nowhere">>
Live(name) == <<"live", name>>
Copied(frame, part) == <<"copied", frame, part>>
Memory(frame, reg, off) == <<"memory", frame, reg, off>>

(* Fault: the frame and the stack pointer are taken for each other.        *)
RelativeTo_Swapped(f, which) ==
  CASE which = "ip" -> ContextIP(f.cpu) [] which = "fp" -> ContextSP(f.cpu) [] which = "sp" -> ContextFP(f.cpu)

RelativeTo(f, which) ==
  CASE which = "ip" -> ContextIP(f.cpu) [] which = "fp" -> ContextFP(f.cpu) [] which = "sp" -> ContextSP(f.cpu)

RegisterLive(f, i) == IF ContextRegisterName(f.cpu, i) = NoName THEN NoPlace ELSE Live(ContextRegisterName(f.cpu, i))
RegisterCopied(f, i) ==
  IF ContextRegisterName(f.cpu, i) = NoName \/ ContextRegister(f.cpu, i) = NoRegister THEN NoPlace
  ELSE Copied(f.context, ContextRegister(f.cpu, i))

Place(f, v, Register(_, _)) ==
  CASE v.at[1] = "register" /\ v.kind # "static" -> Register(f, v.at[2])
    [] v.at[1] = "relative" /\ v.kind # "static" -> Memory(f.context, RelativeTo(f, v.at[2]), v.at[3])
    [] v.at[1] = "null" /\ v.kind # "static" -> Memory(NoFrame, "", 0)
    [] v.at[1] = "static" /\ v.kind = "static" -> Memory(NoFrame, "", v.at[2])
    [] OTHER -> NoPlace

(* getLocalVar, getTypedParam, getStaticVar: by index, live; by name, a    *)
(* copy.  NoPlace if they throw.                                           *)
VarCount(f, kind) == Len(Vars(f.ip, kind).vars)

VarByIndex(f, kind, i) ==
  LET list == Vars(f.ip, kind).vars IN
  IF i < Len(list) THEN Place(f, list[i + 1], RegisterLive) ELSE NoPlace

NamedIn(list, name) == {i \in DOMAIN list : list[i].name = name}

VarByName(f, kind, name) ==
  LET list == Vars(f.ip, kind).vars
      found == NamedIn(list, name) IN
  IF found = {} THEN NoPlace ELSE Place(f, list[First(found)], RegisterCopied)

VarName(f, kind, i) == Vars(f.ip, kind).vars[i + 1].name

(* findLocalVar, findParam, findStaticVar.                                 *)
Finds(f, kind, name) == NamedIn(Vars(f.ip, kind).vars, name) # {}

(* loadTypedVar of a name without a module, as the names of expressions    *)
(* are looked up: a search that throws ends it.                            *)
Global(name) == <<"global", name>>
LoadTypedVar(f, name) ==
  LET looked(kind) == Vars(f.ip, kind).ok IN
  CASE ~looked("local") -> NoPlace
    [] looked("local") /\ Finds(f, "local", name) -> VarByName(f, "local", name)
    [] looked("local") /\ ~Finds(f, "local", name) ->
         IF Finds(f, "param", name) THEN VarByName(f, "param", name)
         ELSE CASE ~looked("static") -> NoPlace
                [] looked("static") /\ Finds(f, "static", name) -> VarByName(f, "static", name)
                [] OTHER -> Global(name)
-----------------------------------------------------------------------------
(* getFunction, findSymbol and getSourceLine of a frame.  The inlined      *)
(* function is looked for at the address, then just before it.             *)
NoFunction == [name |-> "", from |-> 0, to |-> 0]
Named(f) == [name |-> f.name, from |-> f.from, to |-> f.to]

(* Fault: counted from the innermost.                                      *)
InlineAt_Inner(f) ==
  LET sites(i) == SitesOf(FunctionAt(f.ip), f.ip - i)
      enough == {i \in {0, 1} : Len(sites(i)) >= f.inline} IN
  IF enough = {} THEN <<>>
  ELSE LET i == IF 0 \in enough THEN 0 ELSE 1 IN <<[site |-> sites(i)[f.inline], ip |-> f.ip - i]>>

InlineAt(f) ==
  LET sites(i) == SitesOf(FunctionAt(f.ip), f.ip - i)
      enough == {i \in {0, 1} : Len(sites(i)) >= f.inline} IN
  IF enough = {} THEN <<>>
  ELSE LET i == IF 0 \in enough THEN 0 ELSE 1 IN <<[site |-> Reverse(sites(i))[f.inline], ip |-> f.ip - i]>>

GetFunction(f) ==
  CASE f.ip \notin Mapped \/ FunctionsAt(f.ip) = {} -> NoFunction
    [] f.ip \in Mapped /\ FunctionsAt(f.ip) # {} ->
         IF f.inline = 0 THEN Named(FunctionAt(f.ip))
         ELSE IF InlineAt(f) = <<>> THEN NoFunction ELSE Named(InlineAt(f)[1].site)

FindSymbol(f) == LET g == GetFunction(f) IN <<g.name, f.ip - g.from>>

(* The line of an address is the address itself here, in a function.       *)
SourceLine(f) ==
  IF f.inline = 0 THEN <<"", f.ip>>
  ELSE IF InlineAt(f) = <<>> THEN <<"", 0>> ELSE <<InlineAt(f)[1].site.name, InlineAt(f)[1].ip>>
=============================================================================

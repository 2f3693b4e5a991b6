------------------------------ MODULE Targets -------------------------------
(***************************************************************************)
(* A debugger with several targets: the debuggee runs and stops, processes *)
(* leave, the user chooses what is current, keeps the stack of a thread    *)
(* and asks objects of systems, processes, threads and frames.             *)
(*                                                                         *)
(* The state of the engine is in one record:                               *)
(*   live      threads there are                                           *)
(*   system, process, thread   what is current: the system, the process of *)
(*             each system, the thread of each process                     *)
(*   scope     the number of the frame whose variables are in scope        *)
(*   mode      the processor mode that was set, "" if none was             *)
(*   event     the thread of the last event                                *)
(*   epoch     how often the debuggee has run, at most MaxEpoch times      *)
(*   quiet     m_quietNotification                                         *)
(***************************************************************************)
EXTENDS StackFrames

CONSTANTS
  MaxEpoch,
  Ending,         (* threads that may end                                  *)
  MaxGone,        (* processes that end, are detached or terminated        *)
  Frames,         (* numbers of frames that are chosen                     *)
  Keeping         (* whether kept stacks have inlined functions, or either *)

(* A thread's own code can run on the processor of its system, and its     *)
(* stack is known at each stop.                                            *)
ASSUME StacksAssumption ==
  /\ MaxEpoch \in Nat /\ MaxFrames \in Nat
  /\ \A t \in Threads :
       /\ OwnMode[t] # "" /\ ContextFor(Processor[SystemOf[ProcessOf[t]]], OwnMode[t]).mode = OwnMode[t]
       /\ <<t, OwnMode[t]>> \in DOMAIN Traces
       /\ Traces[<<t, OwnMode[t]>>] \in [1..(MaxEpoch + 1) -> Seq(Nat)]

VARIABLES
  engine,
  kept,           (* the stack that the user keeps                         *)
  looking         (* everything is being asked                             *)

vars == <<engine, kept, looking>>

Forget(e, gone) ==
  LET live == e.live \ gone
      processes == {ProcessOf[t] : t \in live}
      systems == {SystemOf[p] : p \in processes} IN
  [e EXCEPT !.live = live,
            !.system = IF @ \in systems THEN @ ELSE None,
            !.process = [s \in Systems |-> IF @[s] \in processes THEN @[s] ELSE None],
            !.thread = [p \in Processes |-> IF @[p] \in live THEN @[p] ELSE None],
            !.event = IF @ \in live THEN @ ELSE None]

(* The debuggee runs, a thread ends, and another has the next event.       *)
Run(ended, t) ==
  /\ engine.epoch < MaxEpoch /\ t \in engine.live \ ended /\ ended \subseteq engine.live
  /\ engine' = [SelectThread(Forget(engine, ended), t) EXCEPT !.event = t, !.epoch = @ + 1, !.mode = ""]
  /\ UNCHANGED <<kept, looking>>

(* A process is detached or terminated.                                    *)
Leave(p) ==
  /\ p \in LiveProcesses(engine) /\ Cardinality(Processes \ LiveProcesses(engine)) < MaxGone
  /\ engine' = Forget(engine, ThreadsIn(engine, p))
  /\ UNCHANGED <<kept, looking>>

Objects ==
  {SystemObject(s) : s \in Systems}
  \cup {ProcessObject(SystemOf[p], p) : p \in Processes}
  \cup {ThreadObject(SystemOf[ProcessOf[t]], ProcessOf[t], t) : t \in Threads}

Indices == 0..2
Lists(ids, others) ==
  {<<"byIndex", i>> : i \in Indices} \cup {<<"byId", i>> : i \in ids \cup {Unspecified}}
  \cup {<<"bySystemId", i>> : i \in others \cup {Unspecified}} \cup {<<"current">>}

Questions(o) ==
  CASE o.kind = "system" ->
         {<<"description">>, <<"dump">>, <<"64bit">>, <<"kernel">>, <<"processes">>}
         \cup Lists(Processes, {Pid[p] : p \in Processes} \ {None})
    [] o.kind = "process" ->
         {<<"executable">>, <<"peb">>, <<"modules">>, <<"breakpoints">>, <<"heap">>, <<"systemId">>, <<"kernel">>,
          <<"managed">>, <<"threads">>}
         \cup Lists(Threads, {Tid[t] : t \in Threads} \ {None})
    [] o.kind = "thread" ->
         {<<"teb">>, <<"ip">>, <<"sp">>, <<"fp">>, <<"systemId">>, <<"kernel">>, <<"process">>}

(* Functions that are given an id rather than an object.                   *)
FactOf(e, q) ==
  CASE q[1] = "description" -> GetSystemDesc(e, q[2])
    [] q[1] \in {"peb", "executable", "pid"} -> GetProcessFact(e, q[1], q[2])
    [] q[1] \in {"teb", "tid"} -> GetThreadFact(e, q[1], q[2])
FactQuestions ==
  {<<"description", s>> : s \in Systems} \cup {<<kind, p>> : kind \in {"peb", "executable", "pid"}, p \in Processes}
  \cup {<<kind, t>> : kind \in {"teb", "tid"}, t \in Threads}

StackObjects == {o \in Objects : o.kind = "thread"}

(* The user asks.                                                          *)
Becomes(a) == engine' = a.e /\ UNCHANGED <<kept, looking>>
Ask(o, q) == Becomes(AnswerOf(engine, o, q))
AskFact(q) == Becomes(FactOf(engine, q))
ReadFrame == Becomes(GetCurrentStackFrame(engine))
Keep(a) == engine' = a.e /\ kept' = (IF a.ok THEN a.value ELSE kept) /\ UNCHANGED looking
KeepStack(o, inlineFrames) == Keep(StackOf(engine, o, inlineFrames))

(* The user chooses.                                                       *)
Choose(o) == Becomes(SetCurrent(engine, o))
ChooseFrame(i) == i + 1 \in DOMAIN kept /\ Becomes(SetCurrentStackFrame(engine, kept[i + 1]))
ChooseFrameByIndex(i) == Becomes(SetCurrentStackFrameByIndex(engine, i))
ResetFrame == Becomes(ResetCurrentStackFrame(engine))

(* setCPUMode and switchCPUMode: the engine takes a mode of its processor. *)
(* For an unknown one it is given what the variable happens to hold;       *)
(* neither throws for it.                                                  *)
Modes(type) == IF type = "AMD64" THEN {"AMD64", "I386"} ELSE {type}
GivenMode(mode) == IF mode = "unknown" THEN {"AMD64", "I386", "ARM", "ARM64", "unknown"} ELSE {mode}
SetCPUMode(mode) ==
  /\ CurrentThread(engine) # None
  /\ \E given \in GivenMode(mode) :
       engine' = IF given \in Modes(Processor[CurrentSystem(engine)]) THEN [engine EXCEPT !.mode = given] ELSE engine
  /\ UNCHANGED <<kept, looking>>
Other(mode) == CASE mode = "I386" -> "AMD64" [] mode = "AMD64" -> "I386"
SwitchCPUMode ==
  /\ CurrentThread(engine) # None /\ EffectiveMode(engine) \in {"I386", "AMD64"}
  /\ SetCPUMode(Other(EffectiveMode(engine)))

Look == ~looking /\ looking' = TRUE /\ UNCHANGED <<engine, kept>>
Looked == looking /\ looking' = FALSE /\ UNCHANGED <<engine, kept>>

Init ==
  /\ engine = [live |-> Threads, system |-> First(Systems), scope |-> 0, mode |-> "", epoch |-> 0, quiet |-> FALSE,
               process |-> [s \in Systems |-> First({p \in Processes : SystemOf[p] = s})],
               thread |-> [p \in Processes |-> First({t \in Threads : ProcessOf[t] = p})],
               event |-> First(Threads)]
  /\ kept = <<>> /\ looking = FALSE

(* Nothing happens while everything is being asked.                        *)
Among(choices) == IF looking THEN {} ELSE choices

Next ==
  \/ \E t \in Among(Threads), ended \in {{}} \cup {{x} : x \in Ending} : Run(ended, t)
  \/ \E p \in Among(Processes) : Leave(p)
  \/ \E o \in Among(Objects) : Choose(o) \/ \E q \in Questions(o) : Ask(o, q)
  \/ \E q \in Among(FactQuestions) : AskFact(q)
  \/ \E o \in Among(StackObjects), inlineFrames \in Keeping : KeepStack(o, inlineFrames)
  \/ \E i \in Among(Frames) : ChooseFrame(i) \/ ChooseFrameByIndex(i)
  \/ \E mode \in Among({"I386", "AMD64", "unknown"}) : SetCPUMode(mode)
  \/ ~looking /\ (ReadFrame \/ ResetFrame \/ SwitchCPUMode)
  \/ Look
  \/ Looked

Spec == Init /\ [][Next]_vars
-----------------------------------------------------------------------------
(* What is current, as the user sees it.                                   *)
Seen(e) ==
  <<CurrentSystem(e), CurrentProcess(e), CurrentThread(e), e.scope, e.mode, e.event, e.live>>
Settled(e) == CurrentThread(e) # None

(* Afterwards everything is seen as before.                                *)
Traceless(e, a) == Seen(a.e) = Seen(e) /\ (a.e.quiet => e.quiet)

TracelessAll(e) ==
  /\ \A o \in Objects :
       /\ \A q \in Questions(o) : Traceless(e, AnswerOf(e, o, q))
       /\ LET a == SetCurrent(e, o) IN ~a.ok /\ (o.kind = "process" => o.system = e.system) => Traceless(e, a)
  /\ \A q \in FactQuestions : Traceless(e, FactOf(e, q))
  /\ \A o \in StackObjects, inlineFrames \in BOOLEAN : Traceless(e, StackOf(e, o, inlineFrames))
  /\ LET a == GetCurrentStackFrame(e) IN a.ok => Traceless(e, a)

(* A question that an object answers, or refuses to, leaves current what   *)
(* was current, and notifications on, whatever it had to make current to   *)
(* answer; and an object that cannot be made current leaves current what   *)
(* was, save that the system of a process that is gone becomes current.    *)
(* (If nothing is current there is nothing to go back to.  The one flag    *)
(* that silences notifications is left set by one function.)               *)
LeavesNoTrace == [][looking' /\ ~looking /\ Settled(engine) => TracelessAll(engine)]_vars
-----------------------------------------------------------------------------
(* What a question should be answered, from what there is.                 *)
Yields(v) == [ok |-> TRUE, value |-> v]
Refused == [ok |-> FALSE, value |-> None]

Alive(e, o) ==
  CASE o.kind = "system" -> o.system \in LiveSystems(e)
    [] o.kind = "process" -> o.process \in LiveProcesses(e)
    [] o.kind = "thread" -> o.thread \in e.live

(* One of those that an object has: by position, by id, by the id that the *)
(* system knows it by, or the one that is current there.                   *)
Member(q, ids, systemIds, current, Object(_)) ==
  LET whichever == q[1] = "current" \/ (q[1] # "byIndex" /\ q[2] = Unspecified)
      chosen == IF whichever THEN {current}
                ELSE CASE q[1] = "byIndex" -> {x \in ids : Cardinality({y \in ids : y < x}) = q[2]}
                       [] q[1] = "byId" -> {x \in ids : x = q[2]}
                       [] q[1] = "bySystemId" -> {x \in ids : systemIds[x] = q[2]} IN
  IF chosen = {} THEN Refused ELSE Yields(Object(First(chosen)))

SystemShould(e, s, q) ==
  LET ids == ProcessesIn(e, s) IN
  CASE q[1] \in {"description", "dump", "64bit"} -> Yields(<<q[1], s>>)
    [] q[1] = "kernel" -> Yields(s \in Kernels)
    [] q[1] = "processes" -> Yields(Cardinality(ids))
    [] OTHER -> Member(q, ids, Pid, OrFirst(e.process[s], ids), LAMBDA p : ProcessObject(s, p))

ProcessShould(e, p, q) ==
  LET ids == ThreadsIn(e, p) IN
  CASE q[1] \in {"executable", "peb", "modules", "breakpoints", "heap"} -> Yields(<<q[1], p>>)
    [] q[1] = "systemId" -> IF Pid[p] = None THEN Refused ELSE Yields(Pid[p])
    [] q[1] = "kernel" -> Yields(SystemOf[p] \in Kernels)
    [] q[1] = "managed" -> Yields(p \in Managed)
    [] q[1] = "threads" -> Yields(Cardinality(ids))
    [] OTHER -> Member(q, ids, Tid, OrFirst(e.thread[p], ids), LAMBDA t : ThreadObject(SystemOf[p], p, t))

ThreadShould(t, q) ==
  LET p == ProcessOf[t] IN
  CASE q[1] \in {"teb", "ip", "sp", "fp"} -> Yields(<<q[1], t>>)
    [] q[1] = "systemId" -> IF SystemOf[p] \in Kernels THEN Refused ELSE Yields(Tid[t])
    [] q[1] = "kernel" -> Yields(SystemOf[p] \in Kernels)
    [] q[1] = "process" -> Yields(ProcessObject(SystemOf[p], p))

Should(e, o, q) ==
  CASE o.kind = "system" -> SystemShould(e, o.system, q)
    [] o.kind = "process" -> ProcessShould(e, o.process, q)
    [] o.kind = "thread" -> ThreadShould(o.thread, q)

Agrees(a, should) == a.ok = should.ok /\ (a.ok => a.value = should.value)

(* If nothing is current, and for the process of a thread whose system is  *)
(* not, an object may refuse to answer; it never answers for another.      *)
MayRefuse(e, o, q) == ~Settled(e) \/ (q[1] = "process" /\ o.system # e.system)

(* A thread that is gone still knows its process.                          *)
Answerable(e, o, q) == IF q[1] = "process" THEN o.process \in LiveProcesses(e) ELSE Alive(e, o)

AnswersForItsOwn(e, o) ==
  LET chosen == SetCurrent(e, o) IN
  /\ \A q \in Questions(o) :
       LET a == AnswerOf(e, o, q) IN
       IF ~Answerable(e, o, q) THEN ~a.ok
       ELSE Agrees(a, Should(e, o, q)) \/ (MayRefuse(e, o, q) /\ ~a.ok)
  /\ chosen.ok => Alive(e, o) /\ IsCurrent(chosen.e, o) = Gives(chosen.e, TRUE)
  /\ Alive(e, o) /\ Settled(e) => chosen.ok
-----------------------------------------------------------------------------
(* Where a frame stands: a caller stands in its call, which is before the  *)
(* address it returns to.                                                  *)
Stands(f) == IF f.at[4] = 1 THEN f.ip ELSE f.ip - 1
HasSymbols(ip) == FunctionsAt(ip) # {}

BlocksAround(blocks, ip) ==
  LET around[b \in Blocks] ==
        IF Covers(ip, b) THEN {b} \cup UNION {around[inner] : inner \in ToSet(b.blocks)} ELSE {} IN
  UNION {around[b] : b \in ToSet(blocks)}

Kinds == [local |-> {"local"}, param |-> {"param", "this"}, static |-> {"static"}]

(* The variables in scope where a frame stands: of its function, once its  *)
(* prologue is done, and of the blocks around.                             *)
InScope(ip, kind) ==
  LET f == FunctionAt(ip)
      scopes == {f} \cup BlocksAround(f.blocks, ip) IN
  IF ~HasSymbols(ip) \/ (kind # "param" /\ ~Covers(ip, f.debug)) THEN {}
  ELSE UNION {{v \in ToSet(d.data) : v.kind \in Kinds[kind] /\ (v.name # "" \/ kind # "static")} : d \in scopes}

(* Where a block begins or ends, and a caller returns behind the end of    *)
(* what it called from, a frame may show what is not in scope.             *)
Borders(ip) ==
  LET f == FunctionAt(ip) IN
  ip = f.debug.to \/ BlocksAround(f.blocks, ip) # BlocksAround(f.blocks, ip - 1)
Astride(f) ==
  HasSymbols(f.ip) /\ (Borders(f.ip) \/ FunctionsAt(f.ip) # FunctionsAt(Stands(f))
                      \/ f.ip = FunctionAt(f.ip).debug.from)

(* What a register of a frame is, or a register of the current thread, if  *)
(* it is the one that the frame had: it is while nothing has moved.        *)
Means(e, p) ==
  IF p[1] # "live" THEN p
  ELSE Copied(FrameAt(e, EffectiveMode(e), 1), EngineRegister(EffectiveMode(e), p[2]))

OwnPlace(f, v) ==
  CASE v.at[1] = "register" -> Copied(f.at, ContextRegister(f.cpu, v.at[2]))
    [] v.at[1] = "relative" -> Memory(f.at, EngineRegister(f.cpu.mode, OffsetRegister(f.cpu.mode, v.at[2])).reg, v.at[3])
    [] v.at[1] = "null" -> Memory(NoFrame, "", 0)
    [] v.at[1] = "static" -> Memory(NoFrame, "", v.at[2])
    [] OTHER -> NoPlace

OnTop(e, f) == Settled(e) /\ f.at = FrameAt(e, f.cpu.mode, 1) /\ EffectiveMode(e) = f.cpu.mode

(* What a frame shows of one kind.                                         *)
Shows(e, f, kind) ==
  LET shown == Vars(f.ip, kind).vars
      scope == InScope(Stands(f), kind)
      alone(name) == Cardinality({v \in scope : v.name = name}) = 1 IN
  /\ scope \subseteq ToSet(shown) /\ IsInjective(shown)
  /\ ~Astride(f) => scope = ToSet(shown)
  /\ VarByIndex(f, kind, VarCount(f, kind)) = NoPlace
  /\ \A i \in 0..(VarCount(f, kind) - 1) :
       LET v == shown[i + 1]
           place == VarByIndex(f, kind, i) IN
       /\ VarName(f, kind, i) = v.name /\ Finds(f, kind, v.name)
       /\ place # NoPlace /\ (place[1] # "live" \/ OnTop(e, f) => Means(e, place) = OwnPlace(f, v))
       /\ v \in scope /\ alone(v.name) /\ ~Astride(f) => VarByName(f, kind, v.name) = OwnPlace(f, v)

(* A name means the variable in scope, if there is one only.               *)
Resolves(f, name) ==
  LET ip == Stands(f)
      named == {v \in InScope(ip, "local") \cup InScope(ip, "param") \cup InScope(ip, "static") : v.name = name} IN
  CASE Cardinality(named) = 1 -> LoadTypedVar(f, name) = OwnPlace(f, CHOOSE v \in named : TRUE)
    [] named = {} /\ HasSymbols(ip) -> LoadTypedVar(f, name) = Global(name)
    [] OTHER -> TRUE

(* The function of a frame, inlined functions included; not where one      *)
(* ends at the address that a caller returns to and another begins.        *)
InlinedAt(ip) == IF HasSymbols(ip) THEN SitesOf(FunctionAt(ip), ip) ELSE <<>>
Owner(f) ==
  LET sites == InlinedAt(Stands(f)) IN
  CASE ~HasSymbols(f.ip) -> NoFunction
    [] f.inline = 0 -> Named(FunctionAt(f.ip))
    [] OTHER -> Named(Reverse(sites)[f.inline])
Adjacent(f) == InlinedAt(f.ip) # InlinedAt(Stands(f)) /\ Len(InlinedAt(f.ip)) >= f.inline

(* Frames made for a 32 bit thread that had no event have the registers of *)
(* its uppermost one and do not say how deep an inlined one is.            *)
Shallow(f) == f.context # f.at

FrameIsRight(e, f) ==
  /\ f.inline = 0 /\ ~Shallow(f) =>
       /\ \A kind \in DOMAIN Kinds : Shows(e, f, kind)
       /\ ~Astride(f) => \A name \in {v.name : v \in UNION {InScope(g.from + i, kind) : kind \in DOMAIN Kinds, i \in 0..9, g \in Code}} :
                           Resolves(f, name)
  /\ ~Shallow(f) /\ ~Adjacent(f) => GetFunction(f) = Owner(f) /\ FindSymbol(f)[1] = Owner(f).name
  /\ f.inline > 0 /\ ~Shallow(f) /\ ~Adjacent(f) => SourceLine(f)[1] = Owner(f).name

(* The stack of a thread has the frames it stands in, from the top, and    *)
(* the functions inlined in each above it.                                 *)
Logical(ips) ==
  FlattenSeq([k \in DOMAIN ips |->
    LET n == Len(InlinedAt(IF k = 1 THEN ips[k] ELSE ips[k] - 1)) IN [i \in 1..(n + 1) |-> <<k, n + 1 - i>>]])

StackIsRight(e, o, inlineFrames) ==
  LET a == StackOf(e, o, inlineFrames)
      ips == Traces[<<o.thread, OwnMode[o.thread]>>][e.epoch + 1]
      logical == IF inlineFrames THEN Logical(ips) ELSE [k \in DOMAIN ips |-> <<k, 0>>] IN
  /\ Alive(e, o) /\ Settled(e) /\ e.mode = "" /\ <<o.thread, e.epoch>> \notin Unreadable /\ e.event # None => a.ok
  /\ a.ok /\ e.mode = "" =>
       /\ Len(a.value) = AtMost(Len(logical))
       /\ \A i \in DOMAIN a.value :
            LET f == a.value[i] IN
            /\ f.number = i - 1
            /\ i + logical[i][2] <= Len(a.value) =>
                 /\ f.at = <<e.epoch, o.thread, OwnMode[o.thread], logical[i][1]>>
                 /\ Shallow(f) => f.cpu = WOW64 /\ e.event # o.thread
                 /\ ~Shallow(f) /\ f.cpu # WOW64 => f.inline = logical[i][2]

(* An object answers about the target it was made for and no other, also   *)
(* while another is current and when the ids that the system gives are     *)
(* those of another; it refuses to, and to be made current, when its       *)
(* target is gone; and what is made current is current.  A thread of a     *)
(* kernel answers as any other, but refuses to say a system id.  A thread  *)
(* gives its own whole stack, or as much of it as there is room for: each  *)
(* frame once, in order and numbered, with the functions inlined where it  *)
(* stands, each knowing how far it is from the frame it is inlined in, or  *)
(* none of these if they are not asked for.  (Of an inlined function whose *)
(* frame there was no room for only the number is known.)                  *)
HandlesAnswer ==
  [][looking' /\ ~looking =>
       /\ \A o \in Objects : AnswersForItsOwn(engine, o)
       /\ \A o \in StackObjects, inlineFrames \in BOOLEAN : StackIsRight(engine, o, inlineFrames)]_vars

(* A register by its index in the copied registers of a frame is the one   *)
(* that the engine has under its name, but for the flags of x86 and the    *)
(* floating point registers of ARM64, as far as it has a name; only on ARM *)
(* does one exceed its processor.  An offset that is set is the one that   *)
(* frames take it from.                                                    *)
RegistersAgree ==
  \A cpu \in Contexts :
    /\ \A i \in 1..400 :
         LET r == ContextRegister(cpu, i)
             name == ContextRegisterName(cpu, i) IN
         r # NoRegister /\ name # NoName /\ r.reg \notin {"flags", "address"} =>
           r = EngineRegister(cpu.mode, name) /\ (cpu # ARM => r.pieces \subseteq WidthOf(cpu))
    /\ \A name \in ToSet(ReturnRegisters(cpu.mode)) : EngineRegister(cpu.mode, name).pieces = WidthOf(cpu)
    /\ EngineRegister(cpu.mode, OffsetRegister(cpu.mode, "ip")) = Part(ContextIP(cpu), WidthOf(cpu))
    /\ EngineRegister(cpu.mode, OffsetRegister(cpu.mode, "sp")) = Part(ContextSP(cpu), WidthOf(cpu))
    /\ EngineRegister(cpu.mode, OffsetRegister(cpu.mode, "fp")) = Part(ContextFP(cpu), WidthOf(cpu))

(* A frame shows the variables that are in scope where it stands, each     *)
(* where it is in that frame, as long as it is kept: a register variable   *)
(* is the register the frame had, by name always, by index while the frame *)
(* is the uppermost of the current thread.                                 *)
FramesShowTheirOwn ==
  [][looking' /\ ~looking =>
       /\ RegistersAgree
       /\ \A i \in DOMAIN kept : FrameIsRight(engine, kept[i])
       /\ LET a == GetCurrentStackFrame(engine) IN
          a.ok /\ a.value.at # NoFrame => a.value.number = engine.scope /\ FrameIsRight(engine, a.value)]_vars
=============================================================================

# kdlib in TLA+

kdlib is a C++ library over the Windows debug engine (DbgEng) and DIA: it runs and inspects debuggees, and
gives scripts typed access to their memory. This directory models the parts of it that have state and rules
of their own, checks the models with TLC on small instances, and proves theorems about them with TLAPS for
every value of their constants. Paths below are relative to `src/kdlib`. Line-by-line correspondence is in
`PROJECT.json`: `map` names the source lines of every definition that models code, `hazards` the places that
are hard to test and the properties that watch them.

    tlc -workers 2 -config EventDispatch_all.cfg MCEventDispatch      # a run
    tlapm EventDispatchProofs.tla                                      # the proofs of a module

## 1. The system

| part | source | state | operations |
|---|---|---|---|
| event delivery | `source/processmon.cpp`, `include/kdlib/eventhandler.h` | list of `DebugEventsCallback`, two recursive locks | register, remove, deliver one of 12 events |
| process map | `processmon.cpp`, `win/dbgeng.cpp`, `win/dbgmgr.cpp` | id -> `ProcessInfo` | start, attach, open a dump, exit, terminate, detach, all of them |
| module map | `processmon.cpp`, `module.cpp`, `win/dbgmod.cpp` | base -> module object with its symbol session | lookup by address or name, load and unload events, reload, symbol path |
| breakpoint map | `processmon.cpp`, `win/breakpoint.cpp`, `include/kdlib/breakpoint.h` | id -> `Breakpoint` object | set, remove, `AutoBreakpoint` copies, hits |
| type map | `processmon.cpp`, `typeinfo.cpp` | name -> type | lookup, insert |
| execution state | `win/dbgmgr.cpp`, `win/autoswitch.cpp`, `win/cpucontext.cpp` | previous status and thread, quiet flag, scopes | status and thread changes, scopes, stack reads, step-out |
| engine wrapper | `win/dbgeng.cpp` | none of its own | ~100 functions over DbgEng |
| target objects | `win/processimpl.cpp` | ids of system, process, thread | switch to the target, ask, switch back |
| processor mode | `win/cpucontext*.cpp` | WOW64 mode of the thread | register contexts, 32 and 64 bit stacks |
| stack | `stack.cpp` | a snapshot of frames | frames, local variables in scope |
| data accessors | `dataaccessor.cpp`, `dataaccessorimpl.h` | location, length, cached bytes | read, write, copy a part |
| memory access | `memaccess.cpp`, `win/dbgmem.cpp` | none | numbers, arrays, strings, pointer lists |
| numbers | `include/kdlib/variant.h` | a value and its type | promotion, conversion, arithmetic |
| expressions, type names | `clang/evalexpr.cpp`, `clang/basetypematcher.cpp` | token streams, operand stacks | evaluate, recognise a type |
| types | `typeinfo.cpp`, `typeinfoimp.h`, `udtfiled.cpp`, `customtypes.cpp` | type objects | layout, fields, user-defined types |
| typed variables | `typedvar.cpp`, `typedvarimp.h` | type and accessor | elements, dereference, lists, calls |
| symbols | `dia/*` | DIA session per module | names, types, functions of a module |
| managed code | `net/*` | ICorDebug interfaces | types and objects of the CLR |
| windbg support | `windbg/windbg.cpp` | reference count, output, a polling thread | extension entry points |

How they interact. The program calls the engine wrapper; the engine answers by return value and by calling
`DebugManager` back *on the same thread*. `DebugManager` turns that into a call of `ProcessMonitor`, which
first changes its maps and then, under the callbacks lock, calls every registered handler. Handlers are user
code: they may call the wrapper, look modules up, set breakpoints, register handlers. Target objects and stack
readers switch the engine's thread or process for a moment, with the quiet flag set so that subscribers do
not hear of it; two error paths leave the flag set. Types, typed variables and accessors sit on top and only read the module and type maps. Other
threads meet the engine's thread at the two locks.

Hard behaviour: user code that runs under a lock and calls back into the library; caches that follow the
engine through events which can fail, be silenced or come in an unexpected order; ids that the engine gives
out again; a flag that several nested pieces of code set and clear; operations that consist of an announcement
and an engine call, either of which may fail.

What makes each part correct:

* events: a handler is entered only while it is registered, by one thread at a time, and can be freed once
  `removeEventsCallback` returned; no two threads wait for each other;
* process map: subscribers know the processes there are; no process inherits what was cached for another;
* module map: an address is answered with the module that is loaded there, with the best symbols on offer;
* breakpoint map: it agrees with the engine, no dead callback is called, no breakpoint is left without owner;
* execution state: outside scopes subscribers know status and thread, as long as no error path loses the quiet flag;
  inside they hear nothing;
* target objects: a question about another target is answered for that target and leaves the engine as it found
  it;
* frames: a frame shows the variables in scope where it stands, each where it is in that frame;
* accessors: a view reads and writes what its parent has at its place and nothing else;
* types and typed variables: an element is the member, the bytes and the bits that the compiled program means;
* calls: a function of the debuggee finds its arguments where its compiler expects them, and the caller gets the
  result and its registers back, whatever happens meanwhile;
* numbers, expressions, type names: what is written means what it means in the debuggee's source.

## 2. The modules

| module | models | implements | proofs |
|---|---|---|---|
| `HandlerRegistry` | abstract: the promise to the owner of a handler | | |
| `EventDispatch` | the two locks, the delivery loop, breakpoint hits, any number of threads | `HandlerRegistry` | `EventDispatchProofs` |
| `ProcessMonitor` | life of debuggees: engine, process map, subscribers | | `ProcessMonitorProofs` |
| `EngineState` | status, current thread, quiet flag, scopes, readers, step-out | | `EngineStateProofs` |
| `Breakpoints` | engine, map, `Breakpoint` objects and `AutoBreakpoint` owners | | `BreakpointsProofs` |
| `ModuleCache` | module map and symbol sessions of one process | | `ModuleCacheProofs` |
| `DataViews` | abstract: accessors are views of stores | | |
| `DataAccessor` | accessors of every kind, what they call of memory access, `TypedVar::writeBytes` | `DataViews` | `DataAccessorProofs` |
| `Numbers` | operators: `NumVariant` | | |
| `Types`, `TypeText` | types and their layout, structures of the program itself; names of types | | |
| `TypedVars` | operators: values, elements, lists and methods of typed variables | | |
| `TypedData` | a program that looks at, and writes to, the debuggee's objects | | |
| `Operators`, `TypeNames`, `ExprEval` | operators: operations on typed values, types in expressions, the evaluator | | |
| `Language` | reference: what C++ says of expressions and types | | |
| `Expressions` | a user who writes expressions and types, beside the program of `TypedData` | | |
| `TargetObjects` | operators: the engine's current target, `TargetSystem`, `TargetProcess`, `TargetThread`, `ContextAutoRestore` | | |
| `CpuContexts` | tables: the registers of each processor | | |
| `StackFrames` | operators: stacks, frames, variables in scope | | |
| `Targets` | a debugger with several systems, processes and threads | | `TargetsProofs` |
| `Calls` | a call of a function of the debuggee, with its threads | | `CallsProofs` |

`TypedData` extends `TypedVars`, `TypeText`, `Types` and `Numbers`; `Expressions` extends it, with `Language`,
`ExprEval`, `TypeNames` and `Operators`, so that one debuggee is looked at and written about; `Targets` extends `StackFrames`, `TargetObjects` and `CpuContexts`, and `Calls`
takes the registers from an instance of `CpuContexts`.

`MC<module>` gives the constants their values for TLC. A definition named `X_Fault` is a plausible mistake in
`X`: putting it in `X`'s place must break the property listed with it under `mutants`.

**Circumstances.** Much of what kdlib promises depends on what callers and the engine do. Each module has a
constant `Givens` (`CallRules` in `EventDispatch`) and a variable `given` that is chosen once and never changes:
the set of circumstances this behaviour may meet. A property says under which of them it holds, so one run
covers them all and shows exactly what each circumstance costs.

| module | circumstance | what it costs |
|---|---|---|
| ProcessMonitor | `lookups`: a handler looks something up while an exit is delivered | the dead process's entry comes back: `QuietWhenGone`, `ExitFollowsStart`; `processAllDetach` need not end |
| | `failures`: an engine call fails half way | a living process that subscribers were told is gone (`AliveAreTold`) |
| | `defaultIds`: the default id -1 is used | all of them, see finding 1 |
| EngineState | `reads`: a stack is read inside a scope or step-out | the rest of the scope is announced (`SilentScopes`); with `nested`, a wrong thread stays announced (`ThreadInSync`) |
| | `nested`: a scope is opened inside a scope | nothing by itself |
| | `throws`: a handler throws a `DbgException` | `StatusInSync`, `ThreadInSync` |
| | `disturbed`: a step-out loses its process or thread, or one of its calls throws, in break or not | the quiet flag stays set: `QuietBalanced` and with it the others |
| | `unreadable`: the context of a 32 bit thread cannot be read outside a scope | the quiet flag stays set: the same |
| | `unreadableInside`: it cannot be read inside a scope | the scope puts the flag back; a thread that another reader let out stays announced (`ThreadInSync`) |
| Breakpoints | `foreign`: a breakpoint is removed while another process is current | it stays in the engine without owner and its callback may dangle |
| | `stale`: one is set while an owner holds one that is gone | the old owner removes the new one's breakpoint |
| | `early`: the `AutoBreakpoint` that made a breakpoint dies before the one it was moved to | the callback dangles |
| | `twice`: `set()` on one that is set | a breakpoint nobody removes; `onRemove` runs twice |
| ModuleCache | `unloaded`: somebody looks up an unloaded module | with `moved`, see finding 2 |
| | `handlers`: a handler looks up the module that is unloading | with `moved`, the same |
| | `unnamed`: an event does not find its module's name | the map is not updated |
| | `moved`: modules are loaded over part of where others were | with one of the others, old modules answer |

### EventDispatch

`callbacks` is `m_callbacks`, `breakpoints` the ids in `m_breakpointMap`, `stack[t]` the frames of thread `t`
that run user code. The locks are not variables: `scoped_lock` ties a lock to a C++ frame, so a thread holds the
callbacks lock exactly while a `dispatch` frame is on its stack and the breakpoint lock while a `hit` frame is;
recursion comes for free. `Call(t, r)` is user code asking for an operation; the operation itself is a later step
that needs its lock free, so every interleaving of other threads is in between. `BeginDispatch` and
`HandlerReturns` are the `for` loop over the list with its iterator; `BreakpointHit`/`OnHitReturns` are
`breakpointHit` in its two halves, since the breakpoint lock is released before handlers are told.
`RemoveBreakpoint` erases under the lock and calls `onRemove` after it.

`HandlerRegistry` states what an owner may rely on, without locks and lists. The refinement maps `registered` to
the set of list elements and `running[t]` to the handlers in the dispatch frames of `t`.

The callers' contract is `LegalUse`: `EventHandler` registers in its constructor and removes itself in its
destructor, and is not destroyed inside its own method. `CallRules` says what callbacks call: in `FreeHandlers`
handlers do everything and `onHit` nothing, in `FreeHits` the reverse. A program in which both do everything can
deadlock (`onHit` runs under the breakpoint lock and waits for the callbacks lock, a handler the other way
round); the models say so by leaving that combination out, not by hiding the locks.

### ProcessMonitor

`alive`, `current`, `era` are the engine; `processMap[p]` is the era in which the entry was made; `told` is what
subscribers believe. An operation is a sequence of steps kept in `op`: announce (`ProcessStop`), deliver
(`exiting`, during which `Lookup` may run), engine call (`EngineRemoves`, or `EngineCallFails`), report
(`ReportIfLast`). `terminateProcess`, `detachProcess` and `closeDump` differ only in the engine call.
`processAllTerminate` is `StopNext` until `LoopEnds`.

### EngineState

`ChangeStatus` and `Notice` are the two halves of `DebugManager::ChangeEngineState`; every action that makes the
engine notify uses them. `OpenScope`/`CloseScope` are `ContextAutoRestoreIf`, `ReadStack` the places of
`cpucontext.cpp` that set the flag and clear it, `ReadFrameThrows` the one between them where `getStackFrameWow64`
throws (the thread of the last event is not modelled, so any thread may meet it), `StepOut*` is `targetStepOut`, whose
loop `StepOutThrows` leaves with the target broken in, running or gone. `toldThread` follows a stop that
was announced: a subscriber who hears of a break looks up the thread.

### Breakpoints

`process` and `setter` are the engine's breakpoints, `registered` the map of each process, `idOf` the id an object
remembers for good, `callback` the `AutoBreakpoint` that made it, `holds` the current owner. `set()` is two steps
(`AddBreakpoint`, then `SetSucceeds` or `SetFails`) because an engine call in between may fail.

### ModuleCache

`loaded` and `past` are the engine's loaded and unloaded modules, `cache` is `m_moduleMap`. `Cached` is
`ProcessInfo::getModule` with its scan for a range; `LoadModule` is `loadModule(offset)`. Events are split where
handlers run. `offered` is the set of images whose symbols the symbol path in force provides; `ChangeSymbolPaths`
is the path change together with `DebugManager::ChangeSymbolState`.

### DataAccessor

`accessor[a]` is an object: its class, the store it looks into and where; `content[s]` are the cells of memory,
of a register or of a cache's buffer. Reading is the operators `ReadElement` (`readByte` ... `readDouble`) and
`ReadRange` (`readBytes` ... `readDoubles`); writing is `WriteElement` and `WriteRange`, which the actions `Write`,
`WriteAll` and `Transfer` perform. `Copied` is `copy` of each class. `actor` and `behind` are history variables.
The ten element types differ only in their size, and sizes are scaled: one and two cells stand for one to eight
bytes. Addresses are those of a 64 bit target, where `addr64` changes nothing. Callers ask for positions up to the
number of elements: `count > elements - pos` is computed in `size_t` and refuses nothing beyond that.

Four things the code does stand out, and the properties say so. A range that is read through a copy has only as
many right *bytes* as it should have *elements*, the rest is what the buffer was made with (`Reliable`).
A range that is written through a copy is compared with the number of doubles that fit: it may be refused where it
fits, and one that begins behind the last double (`Astray`) is put in its place but may end behind the copy, in its
cache (`Reach`); `StepsAreViewSteps` leaves out these only. An element on the edge of valid memory is refused by an
engine that refuses what is valid in part, which is what `memorytest.cpp:268` expects of `setQWord`. The code itself
does not see to it: `writeMemory` looks at the `HRESULT` and not at how much was written, so an engine that writes
what it can leaves the element `Torn` and success is reported. The model has both `Engines`, and `MovesItsBytes` says
what each does. `copy()` of a cache with its default length always throws.

### Numbers, Types, TypeText, TypedVars, TypedData

`Numbers` is `NumVariant` with scaled widths: `MaxType` and the conversions of every operator are the code's,
their arithmetic is C's modulo 2^width, floating point is fixed point. In `Types` a type is a tuple that begins
with its kind; `Symbols` holds what the symbol file says of a class, and `Fields` walks bases as
`TypeInfoUdt` does. `custom` are the structures the program made, grown by `AppendField`. `TypeText` has `getName` and
`loadType`, on texts that are sequences of pieces.

A typed variable is a type and data, `[type, data]`, data being a range of `memory` or a cached copy. `Element`,
`ElementAt`, `GetValue` and `SetValue` dispatch on the type as the classes of `typedvarimp.h` do. `TypedData` adds the
program: `WriteElement`, `DefineOwn`, `AppendOwn`, and `Look`, at which the properties compare everything that can be
named with what the language says of the same bytes (`ReadsAsCpp`, `MethodsAsCpp`: `CppValue` and `FoundIn` know
nothing of the code). `Relink` is the debuggee, which links its lists in every order, with circles.

What is seen otherwise is excepted by name (`IsKnownOtherwise`, `OutOfSight`), and each exception is needed:

* a member hidden by an intermediate base is taken from the innermost base class;
* a dotted name that leads through a virtual base ignores the displacement, and a class whose virtual base table's
  address is the first thing in it counts as having none;
* a bit field as wide as its number reads 0: the mask is computed by shifting by the width;
* a virtual base of a more derived object lies beyond the static type's size and cannot be read;
* a bound method of a base that is not the first gets `this` of the whole object (`MethodsAsCpp` compares `this`
  only where the offset is 0); a virtual method with a pointer as result is never found;
* a structure of the program's own that grows after it was embedded overlaps what follows it (`outgrown`); one
  that contains itself through an array is not refused;
* `loadTypedVarList` and `loadPtrList` never end on a circle without the head (`Endless`, `EndlessPtrs`).

### Operators, TypeNames, ExprEval, Language, Expressions

`ExprEval` is class `ExprEval` of `clang/evalexpr.cpp`, which goes through the tokens once with a stack of operations
waiting for their right operand; `Operators` has the operations and their priorities, `TypeNames` the matchers of
`typeparser.h` and the recogniser of `basetypematcher.cpp`, and the evaluator of constants in template arguments.
A definition takes the tokens and the index of the next one; what a C++ object keeps in members is in a record.

`Language` is the reference: a tree, its tokens (with brackets only where they are needed) and its meaning according to
the C++ standard. `Expressions` lets a user write every tree, word sequence, declarator and template up to a size;
`Evaluate` is where the properties compare. The exceptions (`ApartHere`, `ReadOtherwise`, `TwoMarks`) are:

* `|` with an unbracketed `^` beside it: their priorities are interchanged; `<` binds less than `<=`, `>`, `>=`, as
  `==`, `!=` do, since it returns the priority of `NotEqual`;
* shifts have the left operand's unpromoted type and are done in the common type; `~` on a small unsigned number
  and unary `+` do not promote; a decimal literal between `long` and `unsigned long` is unsigned;
* `*array` and `!pointer` are refused; conditions and casts to `bool` look at the low byte;
* `sizeof (x)[i]` and `sizeof (x)->y` apply `sizeof` first;
* the evaluator of constants does several marks before one operand from the left;
* `short int`, `char signed`, `__int64` with `int` or `long`, `signed`, `long` and `int` together in some orders are
  refused or misread; `long float` is accepted, which is no C++ but intended (`typeevaltest.cpp:103`).

Also seen and outside the properties: `&&`, `||` and `?:` evaluate both sides, which nothing here can observe;
`% 0` reaches the processor; the difference of pointers is unsigned; enumerators and bit fields are refused as operands;
template argument names have array dimensions reversed.

### TargetObjects, CpuContexts, StackFrames, Targets

The engine is a record `e`; an operator takes `e` and gives `[e, ok, value]`, the state it leaves, whether it returned or
threw, and what. `Within` is `ContextAutoRestore` around a question: it saves what is current, and restores system,
process, thread and frame in the order of the destructor, also when the question throws. `SystemAnswer`,
`ProcessAnswer` and `ThreadAnswer` are the methods of the three classes of `processimpl.cpp`. `CpuContexts` has the
register tables of the four `cpucontext*.cpp` files, by number, by name and by part. In `StackFrames`, `StackOf`
is the stack readers of `cpucontext.cpp` for native and 32 bit threads, `Vars` and `VarByName` are
`stack.cpp`. An address of a variable is relative to a register *of a frame*: frames are told apart by thread, stop and
position, so that a register of another frame is a different address.

In `Targets` the debuggee runs, a thread or process ends, the user chooses what is current or a frame, switches the
processor mode and keeps a stack. `Ask`, `AskFact` and `ReadFrame` are questions as steps; at `Look` *every* question
is asked in that state, and `LeavesNoTrace`, `HandlesAnswer` and `FramesShowTheirOwn` compare effect
and answer with what `SystemShould`, `Logical`, `InScope` and the other reference definitions say. Which frames a thread
object lists, in which order, and how deep the inlined ones are is part of `HandlesAnswer` (`StackIsRight`); what each of
them shows is `FramesShowTheirOwn`. What they except, or is seen beside them:

* a thread object cannot name its process while another system is current, and needs a current thread somewhere;
* `setCurrent` on a process that is gone leaves its system current; `getCurrentSystemId` chooses the first system
  when none is; questions change what is remembered as current *in* the other system or process;
* an enregistered variable asked by number is a register of the current thread, asked by name the copy in the frame;
  a name that is shadowed gives the outermost by name; `getXName(index)` beyond the end walks past the list;
* ranges of blocks and functions include their end; a frame of an inlined function shows the locals of the function
  around it; where two inlined functions adjoin, the caller's frame shows the wrong one;
* the stack readers have room for 1024 entries (`MaxFrames`) and cut a longer stack. If the cut is between an inlined
  function and the frame it is inlined in, the loop that looks for that frame runs behind the buffer: then only the
  number of the frame is known (`Depth` has no value, and the property asks for none). A frame number that is beyond the
  buffer is read behind it too (`FrameOfScope` has no case for it);
* a thread of a kernel has no system id: it refuses to say one, as `targettest.cpp:386` has it, and is found by none;
* frames of a 32 bit thread that had no event all have the registers of its top frame (`Shallow`);
* `getStackFrameWow64` leaves the quiet flag set when the context cannot be read (`Traceless` is asked of
  `getCurrentStackFrame` only when it returns; what it costs later is in `EngineState`);
* an unknown processor makes an exception object that is not thrown, and the mode is uninitialised; ARM64 `s` and `d`
  registers are addresses in the debugger, `x16` and `x17` are missing, `eflags` of x86 is no name of the engine.

### Calls

One call is made, by thread `Caller`, of one of the functions in `Given`. `Ask` is `TypedVarFunction::call` up to
`targetGo()`: argument conversion, hidden results, pushes, alignment, registers, return address. Each turn of the loop is an
event: the function `Returns`, it `Recurs` to the return address, another thread `Shares` it, something `Stops`
the debuggee, or an exception nobody handles `Raises`. `Finish` reads the result; `Restored` is
`~CPUContextAutoRestore`. The stack is bytes, each tagged with the argument it belongs to, so that `Received`, what
the compiler's conventions find there, can be compared with what was meant. The code calls these
wrong (`CalledOtherwise`, `IsAlone`), and TLC shows of each, but for the sizes, that the properties need the
exception:

* `__fastcall` on 32 bits: the first argument goes to `edx` and the second to `ecx`, and both are pushed as well, the
  address for a result among them (finding 3); a pointer result is taken from `edx:eax`;
* structures of 3, 5, 6 or 7 bytes get no room as results, and on 64 bits go by value; on 64 bits, arguments of
  more than 8 bytes from the fifth on are pushed whole;
* a method that returns a structure is a function that expects an address for it, even for 1, 2, 4 or 8 bytes, behind
  `this`. `callThis` and `callX64` pass one for more than 8 bytes, and only `callThis` passes it behind `this`. So
  only methods by `thiscall` that return more than 8 bytes are called right; the others write the structure to wherever
  what they find points, and only the breakpoint and the registers are sure to be as before (`CallsLeaveNothing`);
* when the caller stands at the function's own beginning, the loop ends at once and nothing is called;
* `stackAlloc` counts in an `unsigned short`: a result or an argument of more than 65528 bytes (on 32 bits, of more than
  65532, which `IsHuge` does not tell apart) gets the rest of its size only;
* when another thread, or a recursion, reaches the return address first, the call ends early, and the registers go
  to the thread that is current then; so they do when the exception is another thread's.

What the compiler makes of the function is stated apart from the code that serves it: `Passed` is the list of what it
takes (parameters by number, 0 the address of a large result), `RegisterOf` the register of a place in that list, if
it has one, and `OnStack` a recursive function: the stack that the places up to one take. The loops of the code are
recursive functions too (`Casts`, `Backward`), with the stack and the registers after each turn as values.

Floating point parameters are refused before the call, floating point and enumeration results after it. Floating point
arguments for parameters of another type are left out (`ArgumentTypes`), and so is that a process ends during the call,
whereupon `restore()` throws in a destructor. The stack does not reach address 0.

## 3. The engine as it is assumed

External definitions are marked so in `PROJECT.json`. They say: the engine runs callbacks on the thread that
waits for it and before the call returns; it reports NO_DEBUGGEE by itself when the last process exits; it
forgets a process after the `ExitProcess` callback and a module after the `UnloadModule` callback; its modules
do not overlap; `GetModuleByOffset` also finds modules it remembers as unloaded; ids of processes and
breakpoints are given out again, lowest free id first for breakpoints; `GetBreakpointById` finds breakpoints of
the current process; the notification of the current thread follows that of DEBUG_STATUS_BREAK; thread ids are
unique across processes. `Targets` adds: every system and process remembers what is current in it; choosing one
makes that current, and the first where there is none; a process is there as long as it has threads; ids are
positive, threads finitely many, and a kernel that is debugged is one process, whose threads the engine knows by no
system ids, and which it may not know by one itself (`TargetsAssumption`; `targettest.cpp:357`, `:386`).

`ReadVirtual` of less than was asked is a failure for readers; `WriteVirtual` of what is valid in part
either fails, as `memorytest.cpp:264-268` has it, or writes the valid part and succeeds unless that is nothing.

Of the compiler: Microsoft's layout of classes, tables of virtual bases and functions, and calling conventions for x86
and x64 (`Calls`: `Received`, `Left`, `Returned`): structures, which are plain data without constructors, come back in
registers if they have 1, 2, 4 or 8 bytes and the function is no method, and else through an address that is the first
argument, or the second after `this`. Of DIA: symbols are found by address, functions of a
class come in declaration order, inlined functions from the innermost.

## 4. The runs

| run | asks | bounds | states |
|---|---|---|---|
| `dispatch` | do handlers, iterators and locks keep their promise, whatever threads and callbacks do, and does every operation end | 2 threads, 2 handlers, 1 breakpoint, 3 frames deep, 5 calls per thread | 289 000 |
| `process_life` | are map, engine and subscribers consistent between operations | 3 ids, 2 incarnations | 34 000 |
| `process_default_id` | finding 1 | 3 ids | stops at the violation |
| `engine_state` | do subscribers know status and thread, are scopes silent | 3 threads, 3 scopes deep | 416 000 (symmetric) |
| `breakpoints` | who owns a breakpoint | 2 owners, 3 objects, 2 processes, 2 ids | 455 000 (symmetric) |
| `modules` | does the module map answer right | 4 images at 3 addresses, 3 symbol paths | 817 000 |
| `modules_unloaded` | finding 2 | the same | stops at the violation |
| `data_access` | are accessors views, and reads and writes whole | 3 accessors, 4 cells, element sizes 1 and 2, one write | 70 000 (symmetric) |
| `typed_values` | are elements, lists and methods those the compiled program means; does what is written mean what it means in C++ | 14 classes, 2 lists of 2, 2 writes; 2 structures of 2 fields; trees of depth 2 over 14 leaves, 4 words, 3 declarators, 3 nested templates | 206 557 |
| `targets` | do objects of systems, processes, threads and frames answer for their own and leave no trace | 2 systems, 3 processes, 4 threads, 1 run, 1 process leaving | 52 000 |
| `calls` | do arguments arrive, results come back, and nothing remain | 21 000 calls, 2 threads, 1 other stop | 432 000 |
| `calls_tested` | finding 3 | the 9 calls of `CallFunctionWithStruct` | stops at the violation |

Why the bounds are enough. Lock cycles and iterator races of this code need two threads; three frames allow an
event inside an event inside an event; five calls let one thread register two handlers and still do three
things. Three process ids give "the last", "another" and "the one whose id comes back", two incarnations the
reuse. Three threads and three scopes give a scope in a scope and a thread that belongs to neither. Two owners
suffice for every copy, assignment and theft; three objects and two ids make an id be reused while an old object
still has it. The four images are all the ways two ranges can meet: the same place, apart, across.
Three accessors give a cache, a copy and a copy of the copy; four cells hold two larger elements, so that an
element can begin inside, at the end and beyond. Every byte of every source differs, so that no two can be taken
for each other, and the properties try every read and write in every state, so that one write suffices to see
what another accessor sees of it.

The classes of `typed_values` have, between them, a base that is not the first, a base of a base with a name that is used
again, a virtual base, alone and behind other members, with its table first and not, bit fields within one number, arrays,
statics and virtual functions with overloads; two writes let one undo or disturb the other. Numbers are of
2, 4, 8 and 12 bits, so that every boundary of every type can be reached by literals and variables. Expressions are
written only while no object has been written or looked at and no structure been made: nothing of that changes what
they read. Trees of depth two have every operator beside
every other, which is what priorities are about; four words have every order and every repetition. In
`targets`, the x64 system has a 64 bit and a 32 bit process and the other is an ARM64 kernel, which gives every
pair of targets in the same or another system and process; a thread that ends, a process that leaves and one run make
every handle and kept frame stale. One of its stacks has six entries with the inlined functions, one more than there
is room for. In `calls`, up to two parameters of any type, after the object of a
method, and lists of three, five and six with one that does not fit a register, reach every branch; two stack tops
differ in alignment.
`CHECK_DEADLOCK FALSE` is set where the calls of a thread, what is written, or the one call of `calls` are bounded
and nothing may be left to do.

**Fairness.** `dispatch` assumes weak fairness of each thread's `Step`: user callbacks return and a thread
that can take a lock eventually takes it (the C++ locks give no more, and with finitely many calls no less is
needed). New calls (`Call`) are not fair: nobody has to ask. `OperationEnds` of `process_life` assumes weak
fairness of `Continue`: a handler and an engine call return. No strong fairness is used. The other runs state none:
their operations are single steps, or end when the debuggee lets them (`calls`), of which nothing is promised.

## 5. Findings

1. **The default process id** (`process_default_id`). `terminateProcess`, `detachProcess` and `closeDump` default
   their id to -1, "the current process", but hand it to `processStop` unresolved. No entry leaves the map,
   `onProcessExit` carries -1, and `getNumberProcesses()` still counts the dead process, so NoDebuggee is not
   announced.
2. **Unloaded modules answer** (`modules_unloaded`). The module map is searched by range and keeps modules that
   were looked up after they were unloaded. When another module is loaded over part of the range at a different
   base, a lookup inside the new module returns the old one.
3. **Structures by `__fastcall`** (`calls_tested`). `typedvartest.cpp:613` expects a `__fastcall` function that takes and
   returns a structure of 16 bytes to return what it does when C++ calls it. In a 32 bit program `callFast` writes the
   address for the result to `edx` and pushes it, while the compiler expects it in `ecx` and the argument at the top of the
   stack: the function takes the address for part of its argument, writes its result elsewhere, and the call returns
   what the stack held. The eight other calls of that test are answered right.

The lists in section 2 name what else the code does otherwise than C++, its compiler or its caller would expect; they are
exceptions in the properties. Three of them touch what a test says. `long float` is accepted on purpose. An element
written across the end of valid memory throws, as `memorytest.cpp:268` expects, if it is the engine that refuses it; the
code does not see to it. And the calls by `__fastcall` are finding 3.

## 6. The proofs

Each proof module extends its component and TLAPS. Theorems hold for every value of the constants that satisfies
the named assumptions: sets are disjoint from `None`, bounds are natural numbers, ids that are ordered are
natural numbers, and, for `Targets` alone, threads are finitely many and every process and system can be there
(`TargetsAssumption`), and each thread has, at each stop, a list of addresses it stands at in the mode its code runs
in, which is a mode of its processor (`StacksAssumption`).
`PROJECT.json` lists the theorems. Where a property says under which circumstances it holds, so does its invariant:
`SetOnceIf`, `QuietIf`, `LiveIf` and their like are implications, and the parts are proved inductive together.

* **EventDispatchProofs.** `IteratorsLive` is not inductive alone: removal takes the lock, so it needs
  `DispatchExclusive` (two threads are never both in handlers); erasing one node must not leave a second
  with the same handler, so the list is `Distinct`; and what a thread is waiting to do must still be legal when
  it gets the lock (`PendingLegal`: nobody registers a handler that is in the list, nobody removes one it stands
  on). `IInv` is the conjunction with `TypeOK`. `RemovalIsQuiescent` and `RegistryImplemented` (Init and each
  step of `HandlerRegistry`) follow from `IInv`. `NoLockCycles` is about the order of the locks. A rule of calls
  decides which kinds of frames K can stand above a frame of a kind and what W can be asked for there (`Confined`); K
  and W are closed under what the callbacks call (`RulesClose`), so every step keeps the order (`LockOrderStep`), and a
  thread that holds one lock never asks for the other. Its hypothesis is the freedom of section 2: in every rule of
  calls, `onHit` or the handlers stay off the other side's lock. The module begins with
  what `Append`, `Front`, `RemoveAt` and `ToSet` do to the elements of a list, proved from the definitions.
* **ProcessMonitorProofs.** `TypeCorrect` and `NoStaleEntry` rest on `TypeOK`, `Known` (an operation runs on a
  process there is), `Fresh` (an announced process has an entry of its era) and `Incarnated`; `Midway` says what
  is between announcement and engine call. `Complete` adds that nothing fails, `Exact` that nobody looks up; with
  both, a process whose exit is announced was announced before (`ExitsFollowStarts`).
* **EngineStateProofs.** What counts is what will be restored when the outermost scope closes: the flag and the thread at
  the bottom of the scopes (`Base`, `BaseThread`), which readers inside cannot change, whether they clear
  the flag or throw with it set. `QuietInv` says that flag is clear unless a step-out runs, and is inductive as long as
  no step-out and no reader outside the scopes fails; `StatusInv` relates the three copies of the status; `ThreadInv`, for
  `ThreadIsInSync`, the three of the current thread: what subscribers know is the bottom's, or, when a
  reader cleared the flag inside a single scope, the very thread that scope will switch from. `SilentInv`, for
  `ScopesAreSilent`, says scopes found the flag set, all but the first.
* **BreakpointsProofs.** `RegistryIsExact` needs that a registered id is the engine's (`Registered`), that the id
  under construction is registered nowhere (`Adding`), and that what is set has been constructed. `OwnershipIsSound` adds
  `OInv`: a free id has no setter (`Freed`), an owner that is no more holds nothing (`Dead`), and an object that is set
  once has at most one id in the engine, which it remembers and leaves once (`SetOnce`). `CallbacksLive` hangs on
  `NoLeftovers`: when an owner dies, it is the holder of whatever still calls it back.
* **ModuleCacheProofs.** `LookupsAreRight` has two invariants, one per discipline: `LiveInv` (nobody looks up
  what is not loaded: everything cached is loaded, or is the unloading module) and `PlaceInv` (modules take each
  other's place: what is cached at a place follows what is loaded there). `LookupsStayCurrent` says what the runs
  check, by the same two. `FallbacksAreFresh` holds without any discipline.
* **DataAccessorProofs.** `TypeOK` is inductive as it stands, since it says where an accessor of each class looks:
  a copy inside a cache, a cache at its own beginning. `AccessorsAreViews` shows each step to be one of
  `DataViews`; what it needs is arithmetic: element `pos` of `length \div size` ends at or before `length`
  (`ElementsFit`), so that what is put there is inside of the view (`PutWithin`). `BytesAreMoved` follows from
  `TypeOK` alone: an element, and then a range, is the bytes at its place (`RangeInside`; through a copy because doubles
  are the largest elements, `DoublesAreElements`), what is put changes that place and nothing else (`PutReplaces`), and
  whatever is refused has not been begun. What goes astray stays in the cache (`StrayInside`); what is torn is valid
  (`WritableIsValid`).
* **TargetsProofs.** `Sound`: what is current in a system or process is its own and lives. `AlwaysSound` shows that it is
  inductive. `AskingLeavesNoTrace` goes there and back: a question is asked of a debuggee that is `Kin` to the one before
  (the same, elsewhere), and what `ContextAutoRestore` restores is what was; each kind of question is shown to be
  `Steady` or `Pure`, and compositions keep that. `ObjectsAnswerForTheirOwn` needs more of the engine's
  lists: `InOrder` ascends and has every id once, positions and counts fit (least ids exist by well-foundedness).
  An object that is `AtHome` answers right; one that is `Elsewhere` is not taken for current, and then switching
  `Arrives` home and `Keeps` what its answers depend on, namely what the engine would make current where nothing is.
  A process of a kernel compares systems only, which is right since it is the only one there.
  For stacks (`StacksAreRight`), any debug information, stacks of any length and any room are allowed. The stack that is
  asked for is that of a debuggee at home (`StackAtHome`), where the processor of the thread is what reads it (`StackIs`). Both the list of the engine and the reference `Logical` are rows of parts, one for each frame, and
  `FlattenSeqLaysOut` says where each part of a flattened row is; hence where each entry is (`WalkedAre`, `EntriesAre`,
  `LogicalIs`), how far it is from its frame (`DepthIs`), and that the two lists agree place by place as far as there
  is room (`FramesAre`). The inductions are over sets of numbers (`Climbing`). That there are addresses at all needs
  `EpochIsKept`: the debuggee stops no more often than `MaxEpoch` says.
* **CallsProofs.** Both properties hold for any set of calls (any numbers and sizes of parameters and arguments), any threads
  and any address of the stack. Their invariant is `CallInv`: `Staged` says in which order things
  happen and what was saved; `Runs` says that, until the function has returned, it would find what was meant if it
  looked now (`IsPrepared`), and that, from then on, what it has answered is where `Answer` will look for it
  (`HasAnswered`). Neither property is inductive without these: while the debuggee runs, nothing says yet
  what the function will have received. That `Ask` establishes `IsPrepared` is most of the proof, and has four parts. (1) A loop
  that satisfies its recursive definition exists for each list (`LoopExists`), and whatever its first turn satisfies and
  each turn keeps holds at its end (`Induction`: by a least counterexample of the turns, written without a predicate as
  parameter, as a set of numbers). (2) `CastsAll`, `CopiesAll` and `PassesAll` say what the three loops leave: each argument at its
  place, nothing above where the stack began, and the stack lower by what they took. (3) `PlacesAre` compares two
  lists that were made apart, that of the code (`WithAddress`, `ByReference`) and that of the compiler (`Passed`),
  place by place; it is where most of the exceptions in `CalledOtherwise` are needed. (4) `MadeWell` puts these together, with the alignment on 64 bits (`CountedX64`, and `StackAligned`: an odd number of
  words and the 8 bytes that make up for it are a multiple of 16). After that, `ReceivesMeant` is about what the
  function finds, `LeavesBelow` about what it may overwrite, and `AnswerIs` about reading the result back.

Model-checked only, and why:

* `OperationsEnd` and `OperationEnds`: liveness under fairness is out of the proof system's reach.
* The properties of `typed_values`, `OwnLayout` among them: types, trees and tokens nest, and their
  modules are written with RECURSIVE operators, about which tlapm proves nothing. TLC compares what they compute with the reference on every input up
  to the bounds.
* `FramesShowTheirOwn`, that is, what a frame shows: a statement about tables (every register of every processor) whose names are put together from
  strings and numbers, of which the provers know nothing, and about the shape of the debug information that a compiler
  emits (functions and blocks that do not overlap, prologues, ranges of inlined functions), which TLC is given in
  samples. (Blocks are a recursive function over the constant `Blocks`, so that what else is in `Targets` can be
  proved about.)

## 7. The plan

What is left, in this order:

1. `Numbers` has no recursion: prove that conversion keeps a number within its type, and that arithmetic of two
   numbers has the type `MaxType` says, for every width.
2. The type map with several sets of symbols, and module objects in the hands of callers when the symbol path
   changes.
3. The windbg extension's reference count and its watching thread.

## 8. Not modelled

DIA, CLR and clang wrappers translate calls of external interfaces one by one and keep no state of their own.
Output, disassembly, path and string conversion are formatting or single calls of the operating system.
`uninitialize` deletes the monitor after everything else; no code here calls it concurrently. Data races on
`std::map` (`processAllTerminate` and `processAllDetach` read the process map without its lock) and on a shared module's
session (`ModuleImp::getSymSession`) are undefined behaviour that the models do not enumerate. A handler that is
destroyed inside its own callback erases the list node the loop stands on; `LegalUse` excludes it. A register accessor
keeps the index of a register and not the thread: it promises the register of whatever thread is current.
`addr64`'s sign extension is left out: addresses of the models are small. (`loadModule` looks its map up before
extending, so that a 32 bit address above 2^31 misses it.) That the first address after a function counts as inside it
(`funcLength`) depends on what DIA answers. The type map is only ever added to, see `hazards`. What handlers *answer* to an
event is left out of `EventDispatch`: it selects the engine's next status and nothing in these models depends on it.
`SizesAssumption` leaves out registers whose size is no multiple of an element's (80 bit floating point):
`RegisterAccessor::writeValues` makes a buffer of whole elements for them.

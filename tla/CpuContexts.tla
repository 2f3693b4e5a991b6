---------------------------- MODULE CpuContexts -----------------------------
(***************************************************************************)
(* The registers of each processor: what a context copied from a stack     *)
(* frame gives for a register (getRegisterByIndex and getRegisterName of   *)
(* source/win/cpucontexti386.cpp, cpucontextamd64.cpp, cpucontextarm.cpp   *)
(* and cpucontextarm64.cpp), and what source/win/cpucontext.cpp and        *)
(* dbgeng.cpp do with the registers of the current thread, by name.        *)
(*                                                                         *)
(* Registers have two numberings: the debug information's (CV_REG_EAX is   *)
(* 17), which is the one in this module, and the engine's, reached by      *)
(* name.  A register is named by its smallest whole name here ("a" for al, *)
(* ax, eax and rax), and its bits are in four pieces: 0 to 7, 8 to 15, 16  *)
(* to 31 and 32 to 63.                                                     *)
(***************************************************************************)
EXTENDS Naturals, Sequences, SequencesExt, FiniteSets, TLC

Low == {1}
High == {2}
Word == {1, 2}
DWord == {1, 2, 3}
QWord == {1, 2, 3, 4}

Part(reg, pieces) == [reg |-> reg, pieces |-> pieces]
NoRegister == Part("", {})   (* an index that is refused                   *)
NoName == ""

Each(regs, pieces) == [i \in DOMAIN regs |-> Part(regs[i], pieces)]
Numbered(prefix, from, to, suffix) == [i \in 1..(to - from + 1) |-> prefix \o ToString(from + i - 1) \o suffix]

(* A table whose rows begin at some index.                                 *)
Rows(first, rows) == [i \in first..(first + Len(rows) - 1) |-> rows[i - first + 1]]
Lookup(table, i, otherwise) == IF i \in DOMAIN table THEN table[i] ELSE otherwise

Letters == <<"a", "c", "d", "b">>
General == Letters \o <<"sp", "bp", "si", "di">>
Segments == <<"es", "cs", "ss", "ds", "fs", "gs">>
Numerals(suffix) == Numbered("r", 8, 15, suffix)
-----------------------------------------------------------------------------
(* Fault: the high bytes are not shifted down from, but the low ones.      *)
SmallValues_LowTwice ==
  Each(Letters, Low) \o Each(Letters, Low) \o Each(General, Word) \o Each(General, DWord) \o Each(Segments, Word)

(* x86, and x86 on an x64 processor.                                       *)
SmallValues ==
  Each(Letters, Low) \o Each(Letters, High) \o Each(General, Word) \o Each(General, DWord) \o Each(Segments, Word)

SmallNames ==
  <<"al", "cl", "dl", "bl", "ah", "ch", "dh", "bh", "ax", "cx", "dx", "bx", "sp", "bp", "si", "di",
    "eax", "ecx", "edx", "ebx", "esp", "ebp", "esi", "edi", "es", "cs", "ss", "ds", "fs", "gs">>

I386Values ==
  Rows(1, SmallValues \o <<Part("ip", Word), Part("flags", Word), Part("ip", DWord), Part("flags", DWord)>>)
I386Names == Rows(1, SmallNames \o <<"ip", "flags", "eip", "eflags">>)

(* x64.                                                                    *)
Wide == <<"a", "b", "c", "d", "si", "di", "bp", "sp">>

AMD64Values ==
  Rows(1, SmallValues) @@ (32 :> Part("flags", DWord)) @@ (33 :> Part("ip", QWord))
  @@ Rows(324, Each(<<"si", "di", "bp", "sp">>, Low) \o Each(Wide, QWord) \o Each(Numerals(""), QWord)
               \o Each(Numerals(""), Low) \o Each(Numerals(""), Word) \o Each(Numerals(""), DWord))

(* Fault: the wide registers in the order of the narrow ones.              *)
AMD64Names_NarrowOrder ==
  Rows(1, SmallNames) @@ (32 :> "eflags") @@ (33 :> "rip")
  @@ Rows(324, <<"sil", "dil", "bpl", "spl", "rax", "rcx", "rdx", "rbx", "rsp", "rbp", "rsi", "rdi">>
               \o Numerals("") \o Numerals("b") \o Numerals("w") \o Numerals("d"))
-----------------------------------------------------------------------------
(* ARM.  The double registers are given as the integer of their bits, the  *)
(* quad ones have names and cannot be read.                                *)
ArmValues ==
  Rows(10, Each(Numbered("r", 0, 12, "") \o <<"sp", "lr", "pc", "psr">>, DWord))
  @@ (40 :> Part("fpscr", DWord)) @@ Rows(300, Each(Numbered("d", 0, 31, ""), QWord))

AMD64Names ==
  Rows(1, SmallNames) @@ (32 :> "eflags") @@ (33 :> "rip")
  @@ Rows(324, <<"sil", "dil", "bpl", "spl", "rax", "rbx", "rcx", "rdx", "rsi", "rdi", "rbp", "rsp">>
               \o Numerals("") \o Numerals("b") \o Numerals("w") \o Numerals("d"))

ArmNames ==
  Rows(10, Numbered("r", 0, 12, "") \o <<"sp", "lr", "pc", "psr">>)
  @@ (40 :> "fpscr") @@ Rows(300, Numbered("d", 0, 31, "")) @@ Rows(400, Numbered("q", 0, 15, ""))

(* ARM64.  x16 and x17 are neither read nor named; nzcv is read from the   *)
(* flags of the context, and has no name; a float or double register is an *)
(* array in the context, and its address in the debugger is what is given. *)
InDebugger(n) == Part("address", {n})

Arm64Values ==
  Rows(10, Each(Numbered("x", 0, 28, "") \o <<"fp", "lr">>, DWord))
  @@ Rows(50, Each(Numbered("x", 0, 15, ""), QWord))
  @@ Rows(68, Each(Numbered("x", 18, 28, "") \o <<"fp", "lr", "sp">>, QWord)) @@ (83 :> Part("pc", QWord))
  @@ (90 :> Part("ContextFlags", DWord)) @@ (91 :> Part("cpsr", DWord))
  @@ Rows(100, [i \in 1..32 |-> InDebugger(i)]) @@ Rows(140, [i \in 1..32 |-> InDebugger(i)])
  @@ (220 :> Part("fpsr", DWord)) @@ (221 :> Part("fpcr", DWord))

Arm64Names ==
  Rows(10, Numbered("w", 0, 30, "")) @@ Rows(50, Numbered("x", 0, 15, ""))
  @@ Rows(68, Numbered("x", 18, 28, "") \o <<"fp", "lr", "sp">>) @@ (83 :> "pc") @@ (91 :> "cpsr")
  @@ Rows(100, Numbered("s", 0, 31, "")) @@ Rows(140, Numbered("d", 0, 31, ""))
  @@ Rows(180, Numbered("q", 0, 31, "")) @@ (220 :> "fpsr") @@ (221 :> "fpcr")
-----------------------------------------------------------------------------
(* By the kind of the context: [type, mode].                               *)
I386 == [type |-> "I386", mode |-> "I386"]
WOW64 == [type |-> "AMD64", mode |-> "I386"]
AMD64 == [type |-> "AMD64", mode |-> "AMD64"]
ARM == [type |-> "ARM", mode |-> "ARM"]
ARM64 == [type |-> "ARM64", mode |-> "ARM64"]
Contexts == {I386, WOW64, AMD64, ARM, ARM64}

ContextRegister(cpu, i) ==
  CASE cpu.mode = "I386" -> Lookup(I386Values, i, NoRegister)
    [] cpu = AMD64 -> Lookup(AMD64Values, i, NoRegister)
    [] cpu = ARM -> Lookup(ArmValues, i, NoRegister)
    [] cpu = ARM64 -> Lookup(Arm64Values, i, NoRegister)

ContextRegisterName(cpu, i) ==
  CASE cpu.mode = "I386" -> Lookup(I386Names, i, NoName)
    [] cpu = AMD64 -> Lookup(AMD64Names, i, NoName)
    [] cpu = ARM -> Lookup(ArmNames, i, NoName)
    [] cpu = ARM64 -> Lookup(Arm64Names, i, NoName)

(* getIP, getSP, getFP.                                                    *)
ContextIP(cpu) == IF cpu \in {ARM, ARM64} THEN "pc" ELSE "ip"
ContextSP(cpu) == "sp"
ContextFP(cpu) == CASE cpu = ARM64 -> "fp" [] cpu = ARM -> "r11" [] OTHER -> "bp"

(* The raw contexts hold as many pieces as the processor has bits.         *)
WidthOf(cpu) == IF cpu.mode \in {"AMD64", "ARM64"} THEN QWord ELSE DWord

(* loadCPUContext, and the choice among the stack readers: None if the     *)
(* processor and the mode it is in do not go together.                     *)
NoContext == [type |-> "", mode |-> ""]
ContextFor(type, mode) ==
  CASE type = "AMD64" -> IF mode \in {"AMD64", "I386"} THEN [type |-> type, mode |-> mode] ELSE NoContext
    [] type \in {"I386", "ARM", "ARM64"} -> [type |-> type, mode |-> type]
    [] OTHER -> NoContext
-----------------------------------------------------------------------------
(* The engine's registers, by name.                                        *)
Narrow(reg) == IF reg \in {"a", "b", "c", "d"} THEN reg \o "x" ELSE reg

X86Names(reg, word) ==
  {<<word, Part(reg, Word)>>, <<"e" \o word, Part(reg, DWord)>>}

EngineX86 ==
  UNION {X86Names(reg, Narrow(reg)) : reg \in ToSet(General) \cup {"ip"}}
  \cup UNION {{<<reg \o "l", Part(reg, Low)>>, <<reg \o "h", Part(reg, High)>>} : reg \in ToSet(Letters)}
  \cup {<<reg, Part(reg, Word)>> : reg \in ToSet(Segments)} \cup {<<"efl", Part("flags", DWord)>>}

EngineX64 ==
  EngineX86
  \cup {<<"r" \o Narrow(reg), Part(reg, QWord)>> : reg \in ToSet(General) \cup {"ip"}}
  \cup {<<reg \o "l", Part(reg, Low)>> : reg \in {"sp", "bp", "si", "di"}}
  \cup UNION {{<<"r" \o n, Part("r" \o n, QWord)>>, <<"r" \o n \o "d", Part("r" \o n, DWord)>>,
               <<"r" \o n \o "w", Part("r" \o n, Word)>>, <<"r" \o n \o "b", Part("r" \o n, Low)>>}
              : n \in {ToString(i) : i \in 8..15}}

EngineArm ==
  {<<reg, Part(reg, DWord)>> : reg \in {"r" \o ToString(i) : i \in 0..12} \cup {"sp", "lr", "pc", "psr", "fpscr"}}
  \cup {<<reg, Part(reg, QWord)>> : reg \in {"d" \o ToString(i) : i \in 0..31}}

EngineArm64 ==
  UNION {{<<"x" \o n, Part("x" \o n, QWord)>>, <<"w" \o n, Part("x" \o n, DWord)>>} : n \in {ToString(i) : i \in 0..28}}
  \cup {<<reg, Part(reg, QWord)>> : reg \in {"fp", "lr", "sp", "pc"}}
  \cup {<<"w29", Part("fp", DWord)>>, <<"w30", Part("lr", DWord)>>}
  \cup {<<reg, Part(reg, DWord)>> : reg \in {"cpsr", "fpsr", "fpcr"}}
  \cup UNION {{<<"s" \o n, Part("v" \o n, DWord)>>, <<"d" \o n, Part("v" \o n, QWord)>>} : n \in {ToString(i) : i \in 0..31}}

AsFunction(pairs) == [n \in {p[1] : p \in pairs} |-> (CHOOSE p \in pairs : p[1] = n)[2]]
EngineTable == [m \in {"I386", "AMD64", "ARM", "ARM64"} |->
  AsFunction(CASE m = "I386" -> EngineX86 [] m = "AMD64" -> EngineX64 [] m = "ARM" -> EngineArm [] OTHER -> EngineArm64)]

(* getRegisterIndex: a name that there is not is refused.                  *)
EngineRegister(mode, name) == IF name \in DOMAIN EngineTable[mode] THEN EngineTable[mode][name] ELSE NoRegister
-----------------------------------------------------------------------------
(* setInstructionOffset, setStackOffset, setFrameOffset, getReturnReg: the *)
(* names they use.                                                         *)
OffsetRegister(mode, which) ==
  CASE which = "ip" -> (CASE mode = "I386" -> "eip" [] mode = "AMD64" -> "rip" [] OTHER -> "pc")
    [] which = "sp" -> (CASE mode = "I386" -> "esp" [] mode = "AMD64" -> "rsp" [] OTHER -> "sp")
    [] which = "fp" -> (CASE mode = "I386" -> "ebp" [] mode = "AMD64" -> "rbp" [] mode = "ARM64" -> "fp" [] OTHER -> "r11")

ReturnRegisters(mode) ==
  CASE mode = "I386" -> <<"edx", "eax">> [] mode = "AMD64" -> <<"rax">>
    [] mode = "ARM64" -> <<"x0">> [] mode = "ARM" -> <<"r0">>
=============================================================================

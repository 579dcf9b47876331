----------------------------- MODULE MCPipeline -----------------------------
(***************************************************************************)
(* Jobs and machine states for TLC.  Immediates are taken around every     *)
(* boundary: of imm8 (-2..1), of an A64 immediate (7), of the 16-bit lanes *)
(* (16), of imm32 (-128..127) and of the word.                             *)
(***************************************************************************)
EXTENDS Pipeline

MC_Boundary == {0, 1, Word \div 2 - 1, Word \div 2, Word - 1}

\* x0 and x9 run over all pairs of boundary values, RSP follows x9.
MC_Starts ==
  { [ x |-> [r \in 0..15 |-> CASE r = 0 -> p[1] [] r = 9 -> p[2] [] r = 4 -> (p[2] + 40) % Word
                               [] OTHER -> 100 * r],
      n |-> p[1] < p[2], z |-> p[1] = p[2], v |-> p[1] = Word - 1, mem |-> <<>>, pc |-> 0 ]
    : p \in MC_Boundary \X MC_Boundary }

Insn(kd, d, s, imm, form) ==
  [k |-> kd, dst |-> d, src |-> s, imm |-> imm, cc |-> "EQ", form |-> form, w |-> TRUE]
Narrow(x) == [x EXCEPT !.w = FALSE]
Jump(kd, c, rel, form) == [Insn(kd, 0, 0, rel, form) EXCEPT !.cc = c, !.w = FALSE]

RET == Narrow(Insn("RET", 0, 0, 0, "byte"))
ENDBR == Narrow(Insn("ENDBR", 0, 0, 0, "endbr"))

Imm8  == -2..1
Imm32 == {-128, -17, -16, -9, -8, -7, -1, 0, 1, 7, 8, 9, 16, 127}
Imm64 == {0, 15, 16, 240, 255, 256, 3840, 4096, 3855, 32768, 65535, -1}
Regs  == {0, 4, 9}

RegRegs == { Insn(kd, d, s, 0, "mr") : kd \in {"MOV", "ADD", "SUB", "XOR", "AND", "OR", "CMP", "TEST"},
                                       d \in Regs, s \in Regs }
             \cup { Insn(kd, d, s, 0, "rm") : kd \in {"MOV", "CMP"}, d \in Regs, s \in Regs }
Immediates == { Insn(kd, d, 0, i, "i8") : kd \in {"ADDI", "SUBI", "CMPI"}, d \in Regs, i \in Imm8 }
                \cup { Insn(kd, d, 0, i, "i32") : kd \in {"ADDI", "SUBI", "CMPI"}, d \in {0, 9}, i \in Imm32 }
Leas == { Insn("LEA", d, s, 0, "lea0") : d \in {0, 9}, s \in {0, 4, 5, 9, 12, 13} }
          \cup { Insn("LEA", d, s, i, "lea8") : d \in Regs, s \in {0, 4, 9, 13}, i \in Imm8 }
          \cup { Insn("LEA", d, s, i, "lea32") : d \in {0, 9}, s \in {9, 12}, i \in Imm32 }
Moves == { Insn("MOVI", d, 0, i, "c7") : d \in {0, 9}, i \in Imm32 }
           \cup { Insn("MOVI", d, 0, i, "b8") : d \in {0, 9}, i \in Imm64 }
           \cup { Narrow(Insn("MOVI", d, 0, i, "b8")) : d \in {0, 9}, i \in {0, 1, 128, 240, 255} }
Stack == { Narrow(Insn(kd, d, 0, 0, "byte")) : kd \in {"PUSH", "POP"}, d \in {0, 9} }
Jumps == { Jump("JCC", c, i, "rel8") : c \in Conditions \cup {"B"}, i \in Imm8 }
           \cup { Jump("JCC", c, i, "rel32") : c \in Conditions \cup {"B"}, i \in {-128, -1, 127} }
           \cup { Jump("JMP", "EQ", i, "rel8") : i \in Imm8 }
           \cup { Jump(kd, "EQ", i, "rel32") : kd \in {"JMP", "CALL"}, i \in {-128, 0, 127} }
Odd == { Narrow(Insn("ADD", 0, 1, 0, "mr")), Narrow(Insn("ADDI", 0, 0, 1, "i8")),
         Narrow(Insn("MOVI", 0, 0, 1, "c7")), Narrow(Insn("LEA", 0, 1, 1, "lea8")),
         Insn("MOV", 0, 1, 1, "mem"), Insn("MOV", 4, 0, 1, "mem"), Insn("ANDI", 0, 0, 1, "i8"),
         Insn("ANDI", 9, 0, 1, "i32"), Narrow(Insn("NOP", 0, 0, 0, "byte")),
         Narrow(Insn("CPUID", 0, 0, 0, "0f")) }

Image(base, pc, src, bytes) ==
  [how |-> "image", base |-> base, pc |-> pc, src |-> src, bytes |-> bytes, ops |-> <<>>,
   len |-> 0, policy |-> "DRF", strength |-> "TSO"]
Program(src) == <<Image(64, 64, src, Assemble(src))>>

Singles == { Program(<<x, RET>>) : x \in RegRegs \cup Immediates \cup Leas \cup Moves \cup Stack \cup Odd }
             \cup { Program(<<x, RET>>) : x \in Jumps }

\* Flags set by one instruction reach the branch across others that must not touch them.
FlagsKept ==
  { Program(<<s, x, Jump("JCC", c, 1, "rel8")>>) :
      s \in {Insn("CMP", 0, 9, 0, "mr"), Insn("TEST", 0, 9, 0, "mr"), Insn("SUBI", 9, 0, 1, "i8")},
      x \in {Insn("LEA", 0, 9, 8, "lea32"), Insn("LEA", 9, 9, -3, "lea32"), Insn("MOV", 9, 4, 0, "mr"),
             Narrow(Insn("PUSH", 9, 0, 0, "byte")), Narrow(Insn("POP", 0, 0, 0, "byte")),
             Insn("MOVI", 0, 0, 4096, "b8")},
      c \in Conditions }

\* Images cut at every byte, entered in the middle, before and behind them; too many ops.
Whole == { <<ENDBR, Insn("ADDI", 9, 0, 9, "i32"), Jump("JCC", "LT", 3, "rel32")>>,
           <<ENDBR, Insn("LEA", 0, 9, 9, "lea32"), Jump("CALL", "EQ", 3, "rel32")>>,
           <<Insn("MOV", 9, 0, 0, "mr"), Insn("CMP", 0, 9, 0, "rm"), RET>>,
           <<Insn("MOVI", 9, 0, 300, "b8"), Jump("JCC", "NE", 1, "rel8")>>,
           <<Insn("MOVI", 9, 0, 30, "c7"), Insn("CMPI", 0, 0, 1, "i8"), Jump("JMP", "EQ", 1, "rel8")>>,
           <<Narrow(Insn("MOVI", 0, 0, 30, "b8")), Insn("LEA", 0, 9, 1, "lea8"), Jump("JMP", "EQ", 1, "rel32")>>,
           <<Narrow(Insn("PUSH", 9, 0, 0, "byte")), Narrow(Insn("POP", 9, 0, 0, "byte")), RET>> }
Cuts == UNION { { <<Image(64, 64, src, SubSeq(Assemble(src), 1, n))>> : n \in 0..Len(Assemble(src)) }
                : src \in Whole }
Entries == { <<Image(64, 64 + d, <<RET>>, <<\h90, \h90>> \o Assemble(<<RET>>))>> : d \in {-1, 2, 3} }
\* Images whose last byte is the last of the address space, or the one before.
LastBlock == <<Insn("MOV", 9, 0, 0, "mr"), Insn("CMP", 0, 9, 0, "rm"), Jump("JCC", "LT", 1, "rel8")>>
EndingAt(last, d) ==
  LET base == last + 1 - Len(Assemble(LastBlock))
  IN  <<Image(base, base + d, LastBlock, Assemble(LastBlock))>>
AtTop == { EndingAt(last, d) : last \in {Word - 2, Word - 1}, d \in {-1, 0} }
Long == { Program([j \in 1..n |-> Insn("ADD", 0, 9, 0, "mr")] \o <<x, RET>>) :
            n \in {Cap - 2, Cap},
            x \in {Insn("MOV", 0, 9, 0, "mr"), Insn("LEA", 0, 9, 1, "lea8"), Insn("MOVI", 0, 0, 1, "c7"), Insn("ADDI", 0, 0, 1, "i8"),
                   Insn("MOVI", 0, 0, 1, "b8"), Narrow(Insn("PUSH", 0, 0, 0, "byte")),
                   Narrow(Insn("POP", 0, 0, 0, "byte")), Jump("JCC", "LE", 1, "rel8"),
                   Jump("JCC", "LE", 1, "rel32"), Jump("JMP", "EQ", 1, "rel8"),
                   Jump("CALL", "EQ", 1, "rel32"), ENDBR} }

-----------------------------------------------------------------------------
(* IR of a front end other than the decoder *)

Op(op, d, s, imm) == [Ginsn EXCEPT !.op = op, !.rd = d, !.rn = s, !.imm = imm]
RETOP == Op("RET", 0, 0, 0)
HALTS == Insn("HALT", 0, 0, 0, "ir")

Ir(o, src, policy, strength) ==
  [how |-> "ir", base |-> 0, pc |-> 64, src |-> src, bytes |-> <<>>, ops |-> o,
   len |-> 6, policy |-> policy, strength |-> strength]

Access(kd, d, s, imm, class, policy, strength) ==
  Ir(<<[Op(kd, d, s, imm) EXCEPT !.mclass = class], RETOP>>,
     <<Insn(kd, d, s, imm, "ir"), HALTS>>, policy, strength)

Policies  == {"CONSERVATIVE", "DRF"}
Strengths == {"TSO", "SC", "RCPC"}
Classes   == {"LOCAL", "SHARED"}

Accesses == { <<Access(kd, d, s, i, c, p, st)>> :
                kd \in {"LOAD", "STORE"}, d \in {0, 9}, s \in {9}, i \in {-2, 0, 1, 2, 6, 7, 8, 14, 16},
                c \in Classes, p \in Policies, st \in Strengths }
Irs ==
  { <<Ir(<<Op(o[1], o[3], o[4], 0), RETOP>>, <<Insn(o[2], o[3], o[4], 0, "ir"), HALTS>>, "DRF", "TSO")>> :
      o \in {"ATOMIC_ADD"} \X {"LOCKADD"} \X {0, 9} \X {9} \cup {"ATOMIC_CAS"} \X {"CMPXCHG"} \X {9} \X {9, 4} }
  \cup { <<Ir(<<[Op("SETCC", 9, 0, 0) EXCEPT !.cc = c], RETOP>>,
              <<[Insn("SETCC", 9, 0, 0, "ir") EXCEPT !.cc = c], HALTS>>, "DRF", "TSO")>> : c \in Conditions }
  \cup { <<Ir(<<[Op("FENCE", 0, 0, 0) EXCEPT !.cc = f], RETOP>>,
              <<Insn("FENCE", 0, 0, 0, "ir"), HALTS>>, "DRF", "TSO")>> : f \in {"LD", "ST", "FULL"} }
  \cup { <<Ir(o, <<HALTS>>, "DRF", "TSO")>> :
           o \in {<<>>, <<RETOP, RETOP>>, <<Op("MOV_RR", 0, 9, 0)>>, <<Op("MOV_RR", 16, 9, 0), RETOP>>,
                  <<Op("JMP", 0, 0, 0), Op("MOV_RR", 0, 9, 0)>>, <<Op("NONE", 0, 0, 0), RETOP>>,
                  [j \in 1..(MaxBlock + 1) |-> Op("MOV_RR", 0, 9, 0)]} }

\* A branch or SETcc behind a locked instruction, with and without a comparison between.
Locked(between, ir) ==
  { <<Ir(<<Op(o[1], o[3], 9, 0)>> \o ir \o <<[Op("BR", 0, 0, 0) EXCEPT !.cc = c, !.target = 80]>>,
         <<Insn(o[2], o[3], 9, 0, "ir")>> \o between \o <<Jump("JCC", c, 10, "ir")>>, "DRF", "TSO")>> :
      o \in {<<"ATOMIC_ADD", "LOCKADD", 0>>, <<"ATOMIC_CAS", "CMPXCHG", 9>>}, c \in Conditions }
AfterLocked ==
  Locked(<<>>, <<>>) \cup Locked(<<Insn("CMP", 0, 9, 0, "ir")>>, <<Op("CMP_RR", 0, 9, 0)>>)
  \cup { <<Ir(<<Op("ATOMIC_ADD", 0, 9, 0), [Op("SETCC", 9, 0, 0) EXCEPT !.cc = c], RETOP>>,
              <<Insn("LOCKADD", 0, 9, 0, "ir"), [Insn("SETCC", 9, 0, 0, "ir") EXCEPT !.cc = c], HALTS>>,
              "DRF", "TSO")>> : c \in Conditions }

\* Two translations whose keys must tell them apart.
Pairs == { <<Access("LOAD", 0, 9, 0, c, p, st), Access("LOAD", 0, 9, 0, c2, p2, st2)>> :
             c \in Classes, c2 \in Classes, p \in Policies, p2 \in Policies,
             st \in Strengths, st2 \in Strengths }
           \cup { Program(<<x, RET>>) \o Program(<<y, RET>>) :
                    x \in {Insn("ADDI", 0, 0, 1, "i8"), Insn("ADDI", 0, 0, 9, "i32")},
                    y \in {Insn("ADDI", 0, 0, 1, "i32"), Insn("ADDI", 9, 0, 1, "i8")} }

MC_Jobs == Singles \cup FlagsKept \cup Cuts \cup Entries \cup AtTop \cup Long \cup Accesses \cup Irs
             \cup AfterLocked \cup Pairs

\* PUSH and POP of RSP itself
MC_RspJobs == { Program(<<Narrow(Insn(kd, GR_RSP, 0, 0, "byte")), RET>>) : kd \in {"PUSH", "POP"} }

=============================================================================

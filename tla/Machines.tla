------------------------------ MODULE Machines ------------------------------
(***************************************************************************)
(* The two machines the translation pipeline sits between, both external   *)
(* to the repository: the x86-64 instructions its comments name, with      *)
(* their encodings and effects, and the AArch64 instructions it emits.     *)
(*                                                                         *)
(* A machine state has registers x, the flags n (sign), z (zero), v        *)
(* (signed overflow) and memory mem, which holds whole words at the        *)
(* addresses written so far and Fill everywhere else.                      *)
(***************************************************************************)
EXTENDS Words, Sequences, Bitwise

Fill(a) == (5 * a + 3) % Word
Load(mem, a) == IF a \in DOMAIN mem THEN mem[a] ELSE Fill(a)
Store(mem, a, v) == [b \in DOMAIN mem \cup {a} |-> IF b = a THEN v ELSE mem[b]]

Neg(v) == 2 * v >= Word
Flags(s, r, v) == [s EXCEPT !.n = Neg(r), !.z = r = 0, !.v = v]
AddFlags(s, a, b) ==
  LET r == (a + b) % Word IN Flags(s, r, Signed(a, Word) + Signed(b, Word) # Signed(r, Word))
SubFlags(s, a, b) ==
  LET r == (a - b) % Word IN Flags(s, r, Signed(a, Word) - Signed(b, Word) # Signed(r, Word))
LogicFlags(s, r) == Flags(s, r, FALSE)

-----------------------------------------------------------------------------
(* x86-64.  An instruction: kind k, registers dst and src, immediate or        *)
(* displacement imm, condition cc, encoding form, REX.W bit w.                 *)

X86Holds(cc, s) == CASE cc = "EQ" -> s.z [] cc = "NE" -> ~s.z
                     [] cc = "LT" -> s.n # s.v [] cc = "GE" -> s.n = s.v
                     [] cc = "LE" -> s.z \/ s.n # s.v [] cc = "GT" -> ~s.z /\ s.n = s.v

Conditions == {"EQ", "NE", "LT", "GE", "LE", "GT"}

Ends(x) == x.k \in {"CALL", "JCC", "JMP", "RET", "HALT"}

Atomic(x)    == x.k \in {"LOCKADD", "CMPXCHG"}
SetsFlags(x) == Atomic(x) \/ x.k \in {"ADD", "SUB", "XOR", "AND", "OR", "CMP", "TEST",
                                      "ADDI", "SUBI", "CMPI"}

\* The effect of x, s.pc being the address behind it.
X86Exec(x, s) ==
  LET a   == s.x[x.dst]
      b   == s.x[x.src]
      imm == x.imm % Word
      rsp == s.x[GR_RSP]
      Set(t, r) == [t EXCEPT !.x[x.dst] = r]
  IN  CASE x.k = "MOV"  -> Set(s, b)
        [] x.k = "MOVI" -> Set(s, IF x.w THEN imm ELSE x.imm % Half)
        [] x.k = "ADD"  -> Set(AddFlags(s, a, b), (a + b) % Word)
        [] x.k = "SUB"  -> Set(SubFlags(s, a, b), (a - b) % Word)
        [] x.k = "XOR"  -> Set(LogicFlags(s, a ^^ b), a ^^ b)
        [] x.k = "AND"  -> Set(LogicFlags(s, a & b), a & b)
        [] x.k = "OR"   -> Set(LogicFlags(s, a | b), a | b)
        [] x.k = "CMP"  -> SubFlags(s, a, b)
        [] x.k = "TEST" -> LogicFlags(s, a & b)
        [] x.k = "ADDI" -> Set(AddFlags(s, a, imm), (a + imm) % Word)
        [] x.k = "SUBI" -> Set(SubFlags(s, a, imm), (a - imm) % Word)
        [] x.k = "CMPI" -> SubFlags(s, a, imm)
        [] x.k = "LEA"  -> Set(s, (b + imm) % Word)
        [] x.k = "PUSH" -> [s EXCEPT !.x[GR_RSP] = (rsp - Slot) % Word,
                                     !.mem = Store(s.mem, (rsp - Slot) % Word, a)]
        [] x.k = "POP"  -> [s EXCEPT !.x = [@ EXCEPT ![GR_RSP] = (rsp + Slot) % Word,
                                                      ![x.dst] = Load(s.mem, rsp)]]
        [] x.k = "CALL" -> [s EXCEPT !.x[GR_RSP] = (rsp - Slot) % Word,
                                     !.mem = Store(s.mem, (rsp - Slot) % Word, s.pc),
                                     !.pc = (s.pc + imm) % Word]
        [] x.k = "RET"  -> [s EXCEPT !.x[GR_RSP] = (rsp + Slot) % Word, !.pc = Load(s.mem, rsp)]
        [] x.k = "JCC"  -> IF X86Holds(x.cc, s) THEN [s EXCEPT !.pc = (s.pc + imm) % Word] ELSE s
        [] x.k = "JMP"  -> [s EXCEPT !.pc = (s.pc + imm) % Word]
        [] x.k = "ENDBR" -> s
        \* instructions only a front end other than the decoder produces
        [] x.k = "LOAD"  -> Set(s, Load(s.mem, (b + imm) % Word))
        [] x.k = "STORE" -> [s EXCEPT !.mem = Store(s.mem, (b + imm) % Word, a)]
        [] x.k = "SETCC" -> Set(s, IF X86Holds(x.cc, s) THEN 1 ELSE 0)
        [] x.k = "LOCKADD" ->
             LET old == Load(s.mem, b)
             IN  [AddFlags(s, old, a) EXCEPT !.mem = Store(s.mem, b, (old + a) % Word)]
        [] x.k = "CMPXCHG" ->
             LET old == Load(s.mem, b)
             IN  [SubFlags(s, s.x[GR_RAX], old) EXCEPT
                    !.mem = IF old = s.x[GR_RAX] THEN Store(s.mem, b, a) ELSE s.mem,
                    !.x[GR_RAX] = old]
        [] x.k = "FENCE" -> s
        [] x.k = "HALT"  -> [s EXCEPT !.pc = HALT]

\* n digits of v, the least significant first
Number(v, n) ==
  LET u == v % (CASE n = 1 -> Radix [] n = 4 -> Half [] OTHER -> Word)
  IN  [ j \in 1..n |-> (u \div (Radix ^ (j - 1))) % Radix ]

Rex(x, r, b) ==
  LET v == (IF x.w THEN 8 ELSE 0) + 4 * (r \div 8) + (b \div 8)
  IN  IF v = 0 THEN <<>> ELSE <<\h40 + v>>

ModRM(mod, reg, rm) == 64 * mod + 8 * (reg % 8) + (rm % 8)

CcBits(cc) == CASE cc = "EQ" -> \h4 [] cc = "NE" -> \h5 [] cc = "LT" -> \hC [] cc = "GE" -> \hD
                [] cc = "LE" -> \hE [] cc = "GT" -> \hF [] OTHER -> \h2

MrOpcode(k) == CASE k = "MOV" -> \h89 [] k = "ADD" -> \h01 [] k = "SUB" -> \h29 [] k = "XOR" -> \h31
                 [] k = "AND" -> \h21 [] k = "OR" -> \h09 [] k = "CMP" -> \h39 [] k = "TEST" -> \h85
RmOpcode(k) == IF k = "MOV" THEN \h8B ELSE \h3B
GroupDigit(k) == CASE k = "ADDI" -> 0 [] k = "SUBI" -> 5 [] k = "CMPI" -> 7 [] OTHER -> 4

Encode(x) ==
  CASE x.form = "mr"   -> Rex(x, x.src, x.dst) \o <<MrOpcode(x.k), ModRM(3, x.src, x.dst)>>
    [] x.form = "rm"   -> Rex(x, x.dst, x.src) \o <<RmOpcode(x.k), ModRM(3, x.dst, x.src)>>
    [] x.form = "mem"  -> Rex(x, x.src, x.dst) \o <<MrOpcode(x.k), ModRM(1, x.src, x.dst)>> \o Number(x.imm, 1)
    [] x.form = "lea0" -> Rex(x, x.dst, x.src) \o <<\h8D, ModRM(0, x.dst, x.src)>>
    [] x.form = "lea8" -> Rex(x, x.dst, x.src) \o <<\h8D, ModRM(1, x.dst, x.src)>> \o Number(x.imm, 1)
    [] x.form = "lea32" -> Rex(x, x.dst, x.src) \o <<\h8D, ModRM(2, x.dst, x.src)>> \o Number(x.imm, 4)
    [] x.form = "c7"   -> Rex(x, 0, x.dst) \o <<\hC7, ModRM(3, 0, x.dst)>> \o Number(x.imm, 4)
    [] x.form = "i8"   -> Rex(x, 0, x.dst) \o <<\h83, ModRM(3, GroupDigit(x.k), x.dst)>> \o Number(x.imm, 1)
    [] x.form = "i32"  -> Rex(x, 0, x.dst) \o <<\h81, ModRM(3, GroupDigit(x.k), x.dst)>> \o Number(x.imm, 4)
    [] x.form = "b8"   -> Rex(x, 0, x.dst) \o <<\hB8 + (x.dst % 8)>> \o Number(x.imm, IF x.w THEN 8 ELSE 4)
    [] x.form = "rel8" -> <<IF x.k = "JMP" THEN \hEB ELSE \h70 + CcBits(x.cc)>> \o Number(x.imm, 1)
    [] x.form = "rel32" -> (CASE x.k = "JMP" -> <<\hE9>> [] x.k = "CALL" -> <<\hE8>>
                              [] OTHER -> <<\h0F, \h80 + CcBits(x.cc)>>) \o Number(x.imm, 4)
    [] x.form = "byte" -> Rex(x, 0, x.dst) \o
         << CASE x.k = "PUSH" -> \h50 + (x.dst % 8) [] x.k = "POP" -> \h58 + (x.dst % 8)
              [] x.k = "RET" -> \hC3 [] OTHER -> \h90 >>
    [] x.form = "endbr" -> <<\hF3, \h0F, \h1E, \hFA>>
    [] x.form = "0f"    -> <<\h0F, \hA2>>

\* What the cases of the decoder's switch accept.  The header lists PUSH, POP and
\* CALL as refused and AND reg,imm as handled: see ReturnCodes in module Pipeline.
Translatable(x) ==
  /\ x.form \notin {"mem", "0f"}
  /\ x.form \in {"mr", "rm", "lea0", "lea8", "lea32", "c7", "i8", "i32"} => x.w
  /\ x.k \notin {"NOP", "ANDI"}
  /\ x.k = "JCC" => x.cc \in Conditions
  /\ x.k = "LEA" => x.src % 8 # 4 /\ (x.form = "lea0" => x.src % 8 # 5)

-----------------------------------------------------------------------------
(* AArch64.  h is the index of the next instruction of the linked code.         *)

A64Holds(cond, s) == CASE cond = \h0 -> s.z [] cond = \h1 -> ~s.z
                       [] cond = \hA -> s.n = s.v [] cond = \hB -> s.n # s.v
                       [] cond = \hC -> ~s.z /\ s.n = s.v [] cond = \hD -> s.z \/ s.n # s.v
                       [] OTHER -> TRUE

A64Exec(c, s) ==
  LET X(r) == IF r = 31 THEN 0 ELSE s.x[r]
      Put(t, r, v) == IF r = 31 THEN t ELSE [t EXCEPT !.x[r] = v]
      n == X(c.n)
      m == X(c.m)
      lane == CASE c.n = 0 -> 1 [] c.n = 1 -> Lane [] c.n = 2 -> Half [] OTHER -> Half * Lane
      next == [s EXCEPT !.h = @ + 1]
  IN  CASE c.i = "ORR"    -> Put(next, c.d, n | m)
        [] c.i = "EOR"    -> Put(next, c.d, n ^^ m)
        [] c.i = "ANDS"   -> Put(LogicFlags(next, n & m), c.d, n & m)
        [] c.i = "ADD_R"  -> Put(next, c.d, (n + m) % Word)
        [] c.i = "ADDS_R" -> Put(AddFlags(next, n, m), c.d, (n + m) % Word)
        [] c.i = "SUBS_R" -> Put(SubFlags(next, n, m), c.d, (n - m) % Word)
        [] c.i = "ADD"    -> Put(next, c.d, (n + c.imm) % Word)
        [] c.i = "SUB"    -> Put(next, c.d, (n - c.imm) % Word)
        [] c.i = "ADDS"   -> Put(AddFlags(next, n, c.imm), c.d, (n + c.imm) % Word)
        [] c.i = "SUBS"   -> Put(SubFlags(next, n, c.imm), c.d, (n - c.imm) % Word)
        [] c.i = "MOVZ"   -> Put(next, c.d, c.imm * lane)
        [] c.i = "MOVK"   -> Put(next, c.d, X(c.d) - (((X(c.d) \div lane) % Lane) * lane) + c.imm * lane)
        [] c.i \in {"LDR", "LDAR", "LDAPR"} ->
             Put(next, c.d, Load(s.mem, (n + Slot * c.imm) % Word))
        [] c.i \in {"STR", "STLR"} ->
             [next EXCEPT !.mem = Store(s.mem, (n + Slot * c.imm) % Word, X(c.d))]
        [] c.i = "LDADDAL" ->
             Put([next EXCEPT !.mem = Store(s.mem, n, (Load(s.mem, n) + m) % Word)],
                 c.d, Load(s.mem, n))
        [] c.i = "CASAL" ->
             LET old == Load(s.mem, n)
             IN  Put([next EXCEPT !.mem = IF old = m THEN Store(s.mem, n, X(c.d)) ELSE s.mem],
                     c.m, old)
        [] c.i = "CSINC"  -> Put(next, c.d, IF A64Holds(c.n, s) THEN 0 ELSE 1)
        [] c.i \in {"DMB_ISH", "DMB_ISHLD", "DMB_ISHST"} -> next
        [] c.i = "B"      -> [s EXCEPT !.h = @ + c.imm]
        [] c.i = "B_COND" -> [s EXCEPT !.h = IF A64Holds(c.d, s) THEN @ + c.imm ELSE @ + 1]
        [] c.i = "RET"    -> [s EXCEPT !.h = 0]

=============================================================================

------------------------- MODULE TranslationProofs -------------------------
(***************************************************************************)
(* The two halves of a translation, for every guest image and every block: *)
(* the decoder stays inside its image and its buffer; what the linker      *)
(* demands of a unit the translator delivers; a stored unit is read back   *)
(* as it was; units with one key have one code.  The elements of code do   *)
(* not matter for the linker, its length and its last element do.          *)
(***************************************************************************)
EXTENDS Units, WellFoundedInduction, TLAPS

\* A sequence, of whatever elements
IsSequence(s) == \E S : s \in Seq(S)

-----------------------------------------------------------------------------
(* The decoder *)

(***************************************************************************)
(* Append makes a sequence one longer, whatever is appended.               *)
(***************************************************************************)
LEMMA AppendLonger ==
  ASSUME NEW s, IsSequence(s), NEW e
  PROVE  IsSequence(Append(s, e)) /\ Len(s) \in Nat /\ Len(Append(s, e)) = Len(s) + 1
<1>1. PICK S : s \in Seq(S)
  BY DEF IsSequence
<1> DEFINE T == S \cup {e}
<1>2. s \in Seq(T) /\ e \in T
  BY <1>1
<1>3. Append(s, e) \in Seq(T) /\ Len(s) \in Nat /\ Len(Append(s, e)) = Len(s) + 1
  BY <1>2
<1> QED
  BY <1>3 DEF IsSequence

\* The cursor is inside the image while the loop runs, and so is every byte looked at.
Inside ==
  /\ Size \in Nat /\ off \in Nat /\ seen \in Nat
  /\ img.base \in Nat /\ entry \in Nat
  /\ IsSequence(ops) /\ Len(ops) <= Cap
  /\ seen <= Size
  /\ dst = "decode" => off <= Size

(***************************************************************************)
(* Whatever decode_modrm returns, it has passed over no byte behind the    *)
(* image.                                                                  *)
(***************************************************************************)
LEMMA ModrmInside ==
  ASSUME Size \in Nat, NEW i \in Nat, Fits(i)
  PROVE  decode_modrm(i).next \in Nat /\ Fits(decode_modrm(i).next)
<1> DEFINE mod  == At(i) \div 64
           rm   == At(i) % 8
           mem  == mod # 3
           size == CASE mod = 1 -> 1 [] mod = 2 -> 4 [] OTHER -> 0
<1>1. size \in Nat
  OBVIOUS
<1>2. CASE ~Fits(i + 1)
  BY <1>2 DEF decode_modrm, Modrm, Fits
<1>3. CASE Fits(i + 1) /\ mem /\ (rm = 4 \/ (rm = 5 /\ mod = 0))
  BY <1>3 DEF decode_modrm, Modrm, Fits
<1>4. CASE Fits(i + 1) /\ ~(mem /\ (rm = 4 \/ (rm = 5 /\ mod = 0))) /\ ~Fits(i + 1 + size)
  BY <1>4 DEF decode_modrm, Modrm, Fits
<1>5. CASE Fits(i + 1) /\ ~(mem /\ (rm = 4 \/ (rm = 5 /\ mod = 0))) /\ Fits(i + 1 + size)
  BY <1>1, <1>5 DEF decode_modrm, Modrm, Fits
<1> QED
  BY <1>2, <1>3, <1>4, <1>5

\* decode_modrm returns an error code or ORYX_OK, never "go on".
LEMMA ModrmCodes ==
  ASSUME NEW i
  PROVE  decode_modrm(i).rc # "decode"
BY DEF decode_modrm, Modrm

\* There are 64-bit numbers, however small a byte is scaled.
LEMMA WordPositive == Word \in Nat \ {0}
<1>1. Lane \in Nat \ {0}
  BY WordsAssumption DEF Lane
<1>2. Half \in Nat \ {0}
  BY <1>1 DEF Half
<1> QED
  BY <1>2 DEF Word

\* A 64-bit sum that wraps is not larger than the sum.
LEMMA RemainderNotLarger ==
  ASSUME NEW n \in Nat, NEW w \in Nat \ {0}
  PROVE  n % w \in Nat /\ n % w <= n
<1>1. n % w \in 0..(w - 1)
  OBVIOUS
<1>2. CASE w <= n
  BY <1>1, <1>2
<1>3. CASE n < w
  BY <1>3
<1> QED
  BY <1>1, <1>2, <1>3

\* Where the bytes behind the opcode start, once the opcode is known to be there.
LEMMA RestInside ==
  ASSUME Inside, NEW S, Opcode(S)
  PROVE  Rest \in Nat /\ Fits(Rest) /\ Size \in Nat
BY DEF Inside, Opcode, Rest, OpAt

(***************************************************************************)
(* The two ways out of a handler: a refusal and an emitted op.             *)
(***************************************************************************)
LEMMA RefuseInside ==
  ASSUME Inside, NEW rc, rc # "decode", NEW end \in Nat, Fits(end), Refuse(rc, end)
  PROVE  Inside'
BY DEF Inside, Refuse, Read, Fits, Size, IsSequence

\* EMIT tests cap before it writes, and moves on to an offset already tested.
LEMMA EmitInside ==
  ASSUME Inside, NEW insn, NEW end \in Nat, Fits(end), NEW done, Emit(insn, end, done)
  PROVE  Inside'
<1>1. IsSequence(ops') /\ Len(ops') <= Cap
  <2>1. /\ IsSequence(Append(ops, insn)) /\ Len(ops) \in Nat
        /\ Len(Append(ops, insn)) = Len(ops) + 1
    BY AppendLonger DEF Inside
  <2>2. CASE Len(ops) >= Cap
    BY <2>2 DEF Inside, Emit, IsSequence
  <2>3. CASE ~(Len(ops) >= Cap)
    BY <2>1, <2>3, DecoderAssumption DEF Emit, IsSequence
  <2> QED
    BY <2>2, <2>3
<1> QED
  BY <1>1 DEF Inside, Emit, Read, Fits, Size

(***************************************************************************)
(* Every step of the loop keeps the cursor inside.                         *)
(***************************************************************************)
LEMMA StepInside ==
  ASSUME Inside, Decode
  PROVE  Inside'
<1>1. ASSUME Open PROVE Inside'
  <2>1. (img.base + Size) % Word <= img.base + Size /\ (img.base + Size) % Word \in Nat
    BY RemainderNotLarger, WordPositive DEF Inside
  <2>2. CASE entry < img.base \/ entry >= (img.base + Size) % Word
    BY <1>1, <2>2 DEF Open, Inside, Size, IsSequence
  <2>3. CASE ~(entry < img.base \/ entry >= (img.base + Size) % Word)
    <3>1. off' = entry - img.base /\ off' \in Nat /\ off' <= Size
      BY <1>1, <2>1, <2>3 DEF Open, Inside
    <3> QED
      BY <1>1, <3>1 DEF Open, Inside, Size, IsSequence
  <2> QED
    BY <2>2, <2>3
<1> USE RestInside, RefuseInside, EmitInside
<1>2. ASSUME Truncated PROVE Inside'
  <2>1. CASE ~Fits(off + 1) /\ Refuse("FORMAT", off)
    BY <1>2, <2>1 DEF Truncated, Inside, Fits
  <2>2. CASE Fits(off + 1) /\ Refuse("FORMAT", off + 1)
    BY <1>2, <2>2 DEF Truncated, Inside
  <2> QED
    BY <1>2, <2>1, <2>2 DEF Truncated
<1>3. ASSUME SkipEndbr PROVE Inside'
  BY <1>3 DEF SkipEndbr, Endbr, Inside, Read, Fits, Size, IsSequence
<1>4. ASSUME RegReg PROVE Inside'
  <2>1. decode_modrm(Rest).next \in Nat /\ Fits(decode_modrm(Rest).next)
    BY <1>4, ModrmInside DEF RegReg
  <2>2. CASE Refuse(decode_modrm(Rest).rc, decode_modrm(Rest).next)
    BY <2>1, <2>2, ModrmCodes
  <2>3. CASE Refuse("UNSUPPORTED", decode_modrm(Rest).next)
    BY <2>1, <2>3
  <2>4. ASSUME NEW insn, Emit(insn, decode_modrm(Rest).next, FALSE) PROVE Inside'
    BY <2>1, <2>4
  <2> QED
    BY <1>4, <2>2, <2>3, <2>4 DEF RegReg
<1>5. ASSUME Lea PROVE Inside'
  <2>1. decode_modrm(Rest).next \in Nat /\ Fits(decode_modrm(Rest).next)
    BY <1>5, ModrmInside DEF Lea
  <2>2. CASE Refuse(decode_modrm(Rest).rc, decode_modrm(Rest).next)
    BY <2>1, <2>2, ModrmCodes
  <2>3. CASE Refuse("UNSUPPORTED", decode_modrm(Rest).next)
    BY <2>1, <2>3
  <2>4. ASSUME NEW insn, Emit(insn, decode_modrm(Rest).next, FALSE) PROVE Inside'
    BY <2>1, <2>4
  <2> QED
    BY <1>5, <2>2, <2>3, <2>4 DEF Lea
<1>6. ASSUME MovImm32 PROVE Inside'
  <2> DEFINE next == decode_modrm(Rest).next
  <2>0. next \in Nat /\ Fits(next)
    BY <1>6, ModrmInside DEF MovImm32
  <2> HIDE DEF next
  <2>1. next \in Nat /\ Fits(next) /\ next + 4 \in Nat
    BY <2>0
  <2>2. CASE Refuse(decode_modrm(Rest).rc, next)
    BY <2>1, <2>2, ModrmCodes DEF next
  <2>3. CASE Refuse("UNSUPPORTED", next) \/ Refuse("FORMAT", next)
    BY <2>1, <2>3
  <2>4. ASSUME NEW insn, Fits(next + 4), Emit(insn, next + 4, FALSE) PROVE Inside'
    BY <2>1, <2>4
  <2> QED
    BY <1>6, <2>2, <2>3, <2>4 DEF MovImm32, next
<1>7. ASSUME Group1 PROVE Inside'
  <2> DEFINE next == decode_modrm(Rest).next
             end  == IF opcode = \h83 THEN next + 1 ELSE next + 4
  <2>0. next \in Nat /\ Fits(next)
    BY <1>7, ModrmInside DEF Group1
  <2> HIDE DEF next
  <2>1. next \in Nat /\ Fits(next) /\ end \in Nat
    BY <2>0
  <2>2. CASE Refuse(decode_modrm(Rest).rc, next)
    BY <2>1, <2>2, ModrmCodes DEF next
  <2>3. CASE Refuse("UNSUPPORTED", next) \/ Refuse("FORMAT", next)
    BY <2>1, <2>3
  <2>4. CASE Fits(end) /\ Refuse("UNSUPPORTED", end)
    BY <2>1, <2>4
  <2>5. ASSUME NEW insn, Fits(end), Emit(insn, end, FALSE) PROVE Inside'
    BY <2>1, <2>5
  <2> QED
    BY <1>7, <2>2, <2>3, <2>4, <2>5 DEF Group1, next
<1>8. ASSUME MovImm PROVE Inside'
  <2> DEFINE end == IF rexW THEN Rest + 8 ELSE Rest + 4
  <2>1. Rest \in Nat /\ Fits(Rest) /\ end \in Nat
    BY <1>8 DEF MovImm
  <2>2. CASE Refuse("FORMAT", Rest)
    BY <2>1, <2>2
  <2>3. ASSUME NEW insn, Fits(end), Emit(insn, end, FALSE) PROVE Inside'
    BY <2>1, <2>3
  <2> QED
    BY <1>8, <2>2, <2>3 DEF MovImm
<1>9. ASSUME Push PROVE Inside'
  BY <1>9 DEF Push
<1>10. ASSUME Pop PROVE Inside'
  BY <1>10 DEF Pop
<1>11. ASSUME Call PROVE Inside'
  <2>1. Rest \in Nat /\ Fits(Rest) /\ Rest + 4 \in Nat
    BY <1>11 DEF Call
  <2>2. CASE Refuse("FORMAT", Rest)
    BY <2>1, <2>2
  <2>3. ASSUME NEW insn, Fits(Rest + 4), Emit(insn, Rest + 4, TRUE) PROVE Inside'
    BY <2>1, <2>3
  <2> QED
    BY <1>11, <2>2, <2>3 DEF Call
<1>12. ASSUME NEW t, NEW rel, NEW i \in Nat, NEW end \in Nat, Fits(i), Branch(t, rel, i, end)
       PROVE Inside'
  BY <1>12 DEF Branch
<1>13. ASSUME Jcc8 PROVE Inside'
  BY <1>12, <1>13 DEF Jcc8
<1>14. ASSUME TwoByte PROVE Inside'
  <2>1. Rest \in Nat /\ Fits(Rest)
    BY <1>14 DEF TwoByte
  <2>2. CASE Refuse("FORMAT", Rest)
    BY <2>1, <2>2
  <2>3. CASE Fits(Rest + 1) /\ Refuse("UNSUPPORTED", Rest + 1)
    BY <2>1, <2>3
  <2>4. CASE Fits(Rest + 1) /\ Branch(At(Rest) % 16, sx32(Rest + 1), Rest + 1, Rest + 5)
    BY <1>12, <2>1, <2>4
  <2> QED
    BY <1>14, <2>2, <2>3, <2>4 DEF TwoByte
<1>15. ASSUME Jmp PROVE Inside'
  <2> DEFINE end == IF opcode = \hEB THEN Rest + 1 ELSE Rest + 4
  <2>1. Rest \in Nat /\ Fits(Rest) /\ end \in Nat
    BY <1>15 DEF Jmp
  <2>2. CASE Refuse("FORMAT", Rest)
    BY <2>1, <2>2
  <2>3. ASSUME NEW insn, Fits(end), Emit(insn, end, TRUE) PROVE Inside'
    BY <2>1, <2>3
  <2> QED
    BY <1>15, <2>2, <2>3 DEF Jmp
<1>16. ASSUME Ret PROVE Inside'
  BY <1>16 DEF Ret
<1>17. ASSUME Unknown PROVE Inside'
  BY <1>17 DEF Unknown
<1> QED
  BY <1>1, <1>2, <1>3, <1>4, <1>5, <1>6, <1>7, <1>8, <1>9, <1>10, <1>11, <1>13, <1>14,
     <1>15, <1>16, <1>17 DEF Decode

(***************************************************************************)
(* For every image, entry and cap, oryx_x86_decode_block reads no byte     *)
(* outside the image and writes no op behind its buffer.                   *)
(***************************************************************************)
THEOREM StaysInBounds == DecoderSpec => []InBounds
<1>1. DecoderInit => Inside
  BY WordPositive, DecoderAssumption DEF DecoderInit, Inside, Size, IsSequence
<1>2. Inside /\ [Decode]_dvars => Inside'
  BY StepInside DEF dvars, Inside, Size, IsSequence
<1>3. Inside => InBounds
  BY DEF Inside, InBounds
<1> QED
  BY <1>1, <1>2, <1>3, PTL DEF DecoderSpec

-----------------------------------------------------------------------------
(* The translator *)

\* Its length is a number.
LEMMA SequenceLen ==
  ASSUME NEW s, IsSequence(s)
  PROVE  Len(s) \in Nat
BY DEF IsSequence

(***************************************************************************)
(* A sequence of one element, and a concatenation, are what they seem.     *)
(***************************************************************************)
LEMMA Single ==
  ASSUME NEW e
  PROVE  IsSequence(<<e>>) /\ Len(<<e>>) = 1 /\ <<e>>[1] = e
<1>1. <<e>> \in Seq({e})
  OBVIOUS
<1> QED
  BY <1>1 DEF IsSequence

\* The empty sequence is one.
LEMMA Empty == IsSequence(<<>>) /\ Len(<<>>) = 0
<1>1. <<>> \in Seq({})
  OBVIOUS
<1> QED
  BY <1>1 DEF IsSequence

\* Lengths add up, and a nonempty second part gives the last element.
LEMMA Concatenation ==
  ASSUME NEW s, NEW t, IsSequence(s), IsSequence(t)
  PROVE  /\ IsSequence(s \o t) /\ Len(s \o t) = Len(s) + Len(t)
         /\ Len(t) > 0 => (s \o t)[Len(s \o t)] = t[Len(t)]
<1>1. PICK S : s \in Seq(S)
  BY DEF IsSequence
<1>2. PICK T : t \in Seq(T)
  BY DEF IsSequence
<1> DEFINE U == S \cup T
<1>3. s \in Seq(U) /\ t \in Seq(U)
  BY <1>1, <1>2
<1> HIDE DEF U
<1>4. s \o t \in Seq(U) /\ Len(s \o t) = Len(s) + Len(t) /\ Len(s) \in Nat /\ Len(t) \in Nat
  BY <1>3
<1>5. ASSUME Len(t) > 0 PROVE (s \o t)[Len(s) + Len(t)] = t[Len(t)]
  BY <1>3, <1>4, <1>5
<1> QED
  BY <1>4, <1>5 DEF IsSequence

-----------------------------------------------------------------------------
(* What is emitted for one op *)

\* A nonempty sequence
Some(s) == IsSequence(s) /\ Len(s) > 0

\* One instruction is some.
LEMMA SomeSingle == ASSUME NEW e PROVE Some(<<e>>)
BY Single DEF Some

\* Some instructions, followed by any number of others, are some.
LEMMA SomeFollowed ==
  ASSUME NEW s, NEW t, Some(s), IsSequence(t)
  PROVE  Some(s \o t)
BY Concatenation, SequenceLen DEF Some

\* Any number of instructions before some end as those do.
LEMMA SomeEnding ==
  ASSUME NEW s, NEW t, IsSequence(s), Some(t)
  PROVE  Some(s \o t) /\ (s \o t)[Len(s \o t)] = t[Len(t)]
BY Concatenation, SequenceLen DEF Some

\* Two instructions are some.
LEMMA SomePair == ASSUME NEW e, NEW f PROVE Some(<<e, f>>)
<1> DEFINE S == {e, f}
<1>1. <<e, f>> \in Seq(S) /\ Len(<<e, f>>) = 2
  OBVIOUS
<1>2. IsSequence(<<e, f>>)
  BY <1>1, Zenon DEF IsSequence
<1> QED
  BY <1>1, <1>2 DEF Some

(***************************************************************************)
(* Materializing an immediate takes at least one instruction.              *)
(***************************************************************************)
LEMMA MovimmSome ==
  ASSUME NEW reg, NEW v
  PROVE  Some(emit_movimm(reg, v))
<1> DEFINE K(hw) == IF LaneOf(v, hw) = 0 THEN <<>> ELSE <<Mov("MOVK", reg, LaneOf(v, hw), hw)>>
           z == <<Mov("MOVZ", reg, LaneOf(v, 0), 0)>>
<1>1. \A hw : IsSequence(K(hw))
  <2> TAKE hw
  <2>1. CASE LaneOf(v, hw) = 0
    BY <2>1, Empty
  <2>2. CASE LaneOf(v, hw) # 0
    BY <2>2, Single
  <2> QED
    BY <2>1, <2>2
<1>2. Some(z)
  BY SomeSingle
<1>3. emit_movimm(reg, v) = z \o K(1) \o K(2) \o K(3)
  BY DEF emit_movimm
<1> HIDE DEF K, z
<1>4. Some(z \o K(1))
  BY <1>1, <1>2, SomeFollowed
<1>5. Some(z \o K(1) \o K(2))
  BY <1>1, <1>4, SomeFollowed
<1>6. Some(z \o K(1) \o K(2) \o K(3))
  BY <1>1, <1>5, SomeFollowed
<1> QED
  BY <1>3, <1>6

\* LEA, ADD, SUB and CMP with an immediate emit an instruction in each of the three ranges.
LEMMA WithImmediateSome ==
  ASSUME NEW up, NEW down, NEW reg, NEW d, NEW n, NEW v
  PROVE  Some(WithImmediate(up, down, reg, d, n, v))
<1>1. Some(<<Rri(up, d, n, v)>>) /\ Some(<<Rri(down, d, n, -v)>>)
  BY SomeSingle
<1>2. Some(emit_movimm(ORYX_SCRATCH, v % Word) \o <<Rrr(reg, d, n, ORYX_SCRATCH)>>)
  BY MovimmSome, SomeSingle, SomeFollowed DEF Some
<1> QED
  BY <1>1, <1>2, Zenon DEF WithImmediate

\* A load or store emits an instruction for every policy and strength.
LEMMA MemoryOpSome ==
  ASSUME NEW b, NEW in
  PROVE  Some(MemoryOp(b, in))
<1> DEFINE base  == IF in.imm # 0 THEN ORYX_SCRATCH ELSE in.rn
           index == in.imm \div Slot
           plain == <<Rri(IF in.op = "LOAD" THEN "LDR" ELSE "STR", in.rd, in.rn, index)>>
           acq   == IF b.strength = "RCPC" THEN "LDAPR" ELSE "LDAR"
           first == IF in.imm # 0 THEN <<Rri("ADD", ORYX_SCRATCH, in.rn, in.imm)>> ELSE <<>>
           last  == <<Rri(IF in.op = "LOAD" THEN acq ELSE "STLR", in.rd, base, 0)>>
<1>1. Some(plain) /\ Some(last) /\ Some(<<enc_dmb("LD")>>) /\ Some(<<enc_dmb("ST")>>)
  BY SomeSingle
<1>2. IsSequence(first)
  BY Single, Empty, Zenon
<1>3. Some(plain \o <<enc_dmb("LD")>>) /\ Some(<<enc_dmb("ST")>> \o plain)
  BY <1>1, SomeFollowed DEF Some
<1>4. Some(first \o last)
  BY <1>1, <1>2, SomeEnding
<1> QED
  BY <1>1, <1>3, <1>4, Zenon DEF MemoryOp

(***************************************************************************)
(* Every op of the IR emits at least one instruction, and what it emits    *)
(* for the two returns ends in RET.                                        *)
(***************************************************************************)
LEMMA EmittedSome ==
  ASSUME NEW b, NEW in, in.op \in Gop
  PROVE  /\ Some(Emitted(b, in))
         /\ in.op \in {"X86RET", "RET"} => Emitted(b, in)[Len(Emitted(b, in))] = enc_ret
<1>1. CASE in.op \in {"MOV_RR", "ADD_RR", "SUB_RR", "CMP_RR", "TEST_RR", "AND_RR"}
  <2>1. \E e : Emitted(b, in) = <<e>>
    BY <1>1 DEF Emitted
  <2> QED
    BY <1>1, <2>1, SomeSingle
<1>2. CASE in.op \in {"ATOMIC_ADD", "ATOMIC_CAS", "FENCE", "SETCC", "BR", "JMP"}
  <2>1. \E e : Emitted(b, in) = <<e>>
    BY <1>2 DEF Emitted
  <2> QED
    BY <1>2, <2>1, SomeSingle
<1>3. CASE in.op \in {"XOR_RR", "OR_RR", "PUSH", "POP"}
  <2>1. \E e, f : Emitted(b, in) = <<e, f>>
    BY <1>3 DEF Emitted, Enter, Leave
  <2> QED
    BY <1>3, <2>1, SomePair
<1>4. CASE in.op = "MOV_RI"
  BY <1>4, MovimmSome DEF Emitted
<1>5. CASE in.op \in {"LOAD", "STORE"}
  BY <1>5, MemoryOpSome DEF Emitted
<1>6. CASE in.op \in {"LEA", "ADD_RI", "SUB_RI", "CMP_RI"}
  <2>1. Some(LeaCode(in)) /\ Some(AddImm(in)) /\ Some(CmpImm(in))
    BY WithImmediateSome DEF LeaCode, AddImm, CmpImm
  <2> QED
    BY <1>6, <2>1 DEF Emitted
<1>7. CASE in.op = "CALL"
  <2> DEFINE v == emit_movimm(ORYX_SCRATCH, in.imm % Word)
  <2>1. Some(v) /\ Some(Enter(ORYX_SCRATCH)) /\ Some(<<Br("B", 0)>>)
    BY MovimmSome, SomePair, SomeSingle DEF Enter
  <2>2. Emitted(b, in) = v \o Enter(ORYX_SCRATCH) \o <<Br("B", 0)>>
    BY <1>7 DEF Emitted
  <2>3. Some(v \o Enter(ORYX_SCRATCH))
    BY <2>1, SomeFollowed DEF Some
  <2> QED
    BY <1>7, <2>1, <2>2, <2>3, SomeFollowed DEF Some
<1>8. CASE in.op = "X86RET"
  <2>1. Some(Leave(ORYX_NEXTPC)) /\ Some(<<enc_ret>>) /\ Len(<<enc_ret>>) = 1 /\ <<enc_ret>>[1] = enc_ret
    BY SomePair, SomeSingle, Single DEF Leave
  <2>2. Emitted(b, in) = Leave(ORYX_NEXTPC) \o <<enc_ret>>
    BY <1>8 DEF Emitted
  <2> DEFINE r == <<enc_ret>>
             e == Leave(ORYX_NEXTPC) \o r
  <2>3. Some(e) /\ e[Len(e)] = r[Len(r)]
    <3>1. IsSequence(Leave(ORYX_NEXTPC)) /\ Some(r)
      BY <2>1, Zenon DEF Some
    <3> QED
      BY <3>1, SomeEnding, Zenon
  <2>4. r[Len(r)] = enc_ret
    BY <2>1, Zenon
  <2> QED
    BY <2>2, <2>3, <2>4, Zenon
<1>9. CASE in.op = "RET"
  <2>1. Emitted(b, in) = <<enc_ret>>
    BY <1>9 DEF Emitted
  <2> QED
    BY <2>1, Single, SomeSingle
<1> QED
  BY <1>1, <1>2, <1>3, <1>4, <1>5, <1>6, <1>7, <1>8, <1>9 DEF Gop

-----------------------------------------------------------------------------
(* The loop *)

\* Code that ends in its one branch, or in RET without any branch
Ended ==
  /\ Some(code)
  /\ \/ /\ Len(relocs) = 1 /\ relocs[1].offset + 4 = 4 * Len(code)
        /\ Len(exits) >= 1
     \/ Len(relocs) = 0 /\ code[Len(code)] = enc_ret

\* Nothing to link before the terminator, everything the linker wants after it.
Ready ==
  /\ IsSequence(code)
  /\ terminated \in BOOLEAN
  /\ ~terminated => relocs = <<>> /\ exits = <<>>
  /\ terminated => Ended
  /\ tst = "OK" => terminated

(***************************************************************************)
(* One op translated: the four ways a step of the loop body can leave the  *)
(* relocations and exits.                                                  *)
(***************************************************************************)
LEMMA OpReady ==
  ASSUME Ready, TranslateOp, ~terminated, Encodable(block, block.ops[at]),
         code' = code \o Emitted(block, block.ops[at]), tst' = tst, tst = "translate"
  PROVE  Ready'
<1> DEFINE in == block.ops[at]
           all == code \o Emitted(block, in)
<1>1. in.op \in Gop
  BY DEF Encodable
<1>2. /\ Some(Emitted(block, in))
      /\ in.op \in {"X86RET", "RET"} => Emitted(block, in)[Len(Emitted(block, in))] = enc_ret
  BY <1>1, EmittedSome
<1>3. Some(all) /\ all[Len(all)] = Emitted(block, in)[Len(Emitted(block, in))] /\ Len(all) \in Nat
  BY <1>2, SomeEnding, SequenceLen DEF Ready, Some
<1>4. relocs = <<>> /\ exits = <<>>
  BY DEF Ready
<1>5. /\ relocs' = IF in.op \in Branches
                   THEN Append(relocs, [offset |-> BranchSite(all), target |-> in.target])
                   ELSE relocs
      /\ exits' = CASE in.op = "BR" -> exits \o <<in.target, (block.guest_pc + block.guest_len) % Word>>
                    [] in.op \in {"JMP", "CALL"} -> Append(exits, in.target)
                    [] OTHER -> exits
      /\ terminated' = (terminated \/ Terminator(in.op))
      /\ code' = all
  BY DEF TranslateOp
<1> HIDE DEF in, all
<1>6. CASE in.op \in Branches
  <2>1. relocs' = <<[offset |-> BranchSite(all), target |-> in.target]>>
    BY <1>4, <1>5, <1>6
  <2>2. Len(relocs') = 1 /\ relocs'[1].offset + 4 = 4 * Len(code')
    <3> DEFINE r == [offset |-> BranchSite(all), target |-> in.target]
    <3>1. r.offset = 4 * (Len(all) - 1)
      BY DEF BranchSite
    <3> HIDE DEF r
    <3>2. Len(<<r>>) = 1 /\ <<r>>[1] = r
      BY Single
    <3>3. relocs' = <<r>>
      BY <2>1 DEF r
    <3>4. Len(relocs') = 1 /\ relocs'[1] = r
      BY <3>2, <3>3, Zenon
    <3>5. r.offset + 4 = 4 * Len(all)
      BY <1>3, <3>1
    <3> QED
      BY <1>5, <3>4, <3>5, Zenon
  <2>3. CASE in.op = "BR"
    <3>1. exits' = exits \o <<in.target, (block.guest_pc + block.guest_len) % Word>>
      BY <1>5, <2>3
    <3>2. Some(exits')
      BY <1>4, <3>1, Empty, SomePair, SomeEnding
    <3>3. Len(exits') >= 1
      BY <3>2, SequenceLen DEF Some
    <3> QED
      BY <1>3, <1>5, <1>6, <2>2, <3>3 DEF Ready, Ended, Some, Terminator, IsSequence
  <2>4. CASE in.op \in {"JMP", "CALL"}
    <3>1. exits' = <<in.target>>
      BY <1>4, <1>5, <2>4
    <3>2. Len(exits') >= 1
      BY <3>1
    <3> QED
      BY <1>3, <1>5, <1>6, <2>2, <3>2 DEF Ready, Ended, Some, Terminator, IsSequence
  <2> QED
    BY <1>6, <2>3, <2>4 DEF Branches
<1>7. CASE in.op \notin Branches /\ Terminator(in.op)
  <2>1. in.op \in {"X86RET", "RET"}
    BY <1>7 DEF Terminator
  <2>2. relocs' = <<>> /\ code'[Len(code')] = enc_ret
    BY <1>2, <1>3, <1>4, <1>5, <1>7, <2>1
  <2> QED
    BY <1>3, <1>5, <1>7, <2>2 DEF Ready, Ended, Some, IsSequence
<1>8. CASE ~Terminator(in.op)
  <2>1. relocs' = <<>> /\ exits' = <<>>
    BY <1>4, <1>5, <1>8 DEF Terminator, Branches
  <2> QED
    BY <1>3, <1>5, <1>8, <2>1 DEF Ready, Some, IsSequence
<1> QED
  BY <1>6, <1>7, <1>8

\* Every step of oryx_translate_ex keeps the invariant; the failing ones change nothing.
LEMMA StepReady ==
  ASSUME Ready, Translate
  PROVE  Ready'
<1>1. ASSUME UNCHANGED <<code, relocs, exits, terminated>>, tst' = "OK" => terminated
      PROVE  Ready'
  BY <1>1 DEF Ready, Ended, Some, IsSequence
<1>2. CASE Start
  BY <1>1, <1>2 DEF Start
<1>3. CASE TranslateOp
  <2>1. CASE ~terminated /\ Encodable(block, block.ops[at]) /\ tst' = tst
                /\ code' = code \o Emitted(block, block.ops[at])
    BY <1>3, <2>1, OpReady DEF TranslateOp
  <2>2. CASE tst' \in {"INVAL", "NOMEM"} /\ UNCHANGED <<code, relocs, exits, terminated>>
    BY <1>1, <2>2
  <2> QED
    BY <1>3, <2>1, <2>2 DEF TranslateOp
<1>4. CASE Finish
  BY <1>1, <1>4 DEF Finish
<1> QED
  BY <1>2, <1>3, <1>4 DEF Translate

(***************************************************************************)
(* For every block, whatever its ops, registers and immediates: a unit     *)
(* oryx_translate_ex finishes is one oryx_exec_map_linked accepts.         *)
(***************************************************************************)
THEOREM AlwaysLinkable == TranslatorSpec => []Linkable
<1>1. TranslatorInit => Ready
  BY Empty DEF TranslatorInit, Ready
<1>2. Ready /\ [Translate]_tvars => Ready'
  BY StepReady DEF tvars, Ready, Ended, Some, IsSequence
<1>3. Ready => Linkable
  <2> SUFFICES ASSUME Ready, tst = "OK" PROVE Accepted(Unit)
    BY DEF Linkable
  <2>1. Ended /\ code # <<>>
    BY Empty DEF Ready, Ended, Some
  <2>2. Unit.code = code /\ Unit.relocs = relocs /\ Unit.exits = exits
    BY DEF Unit
  <2>3. CASE Len(relocs) = 1 /\ relocs[1].offset + 4 = 4 * Len(code) /\ Len(exits) >= 1
    <3>1. 1 <= 1
      OBVIOUS
    <3> QED
      BY <2>1, <2>2, <2>3, <3>1, Zenon DEF Accepted
  <2>4. CASE Len(relocs) = 0 /\ code[Len(code)] = enc_ret
    <3>1. 0 <= 1 /\ 0 # 1
      OBVIOUS
    <3> QED
      BY <2>1, <2>2, <2>4, <3>1, Zenon DEF Accepted
  <2> QED
    BY <2>1, <2>3, <2>4 DEF Ended
<1> QED
  BY <1>1, <1>2, <1>3, PTL DEF TranslatorSpec

-----------------------------------------------------------------------------
(* The stored form *)

\* A 64-bit number is what its two halves say.
LEMMA Halves ==
  ASSUME NEW v \in Int
  PROVE  Get64(Put64(v, 0), Put64(v, 1)) = v
<1>1. Half \in Nat \ {0}
  BY WordsAssumption DEF Lane, Half
<1>2. \A h \in Nat \ {0} : v = h * (v \div h) + (v % h) /\ v \div h \in Int /\ v % h \in Int
  OBVIOUS
<1>3. PICK h \in Nat \ {0} : h = Half
  BY <1>1
<1> QED
  BY <1>2, <1>3 DEF Get64, Put64

\* A function on 1..n is a sequence of n elements.
LEMMA FromFunction ==
  ASSUME NEW n \in Nat, NEW s, s = [j \in 1..n |-> s[j]]
  PROVE  IsSequence(s) /\ Len(s) = n
<1> DEFINE S == { s[j] : j \in 1..n }
<1>1. s \in [1..n -> S]
  OBVIOUS
<1>2. s \in Seq(S) /\ Len(s) = n
  BY <1>1
<1> QED
  BY <1>2 DEF IsSequence

\* The beginning of a sequence.
LEMMA Beginning ==
  ASSUME NEW s, NEW t, IsSequence(s), IsSequence(t), Len(t) <= Len(s),
         \A j \in 1..Len(t) : s[j] = t[j]
  PROVE  SubSeq(s, 1, Len(t)) = t
<1>1. PICK S : s \in Seq(S)
  BY DEF IsSequence
<1>2. PICK T : t \in Seq(T)
  BY DEF IsSequence
<1>3. Len(s) \in Nat /\ Len(t) \in Nat
  BY <1>1, <1>2
<1>4. SubSeq(s, 1, Len(t)) = [j \in 1..Len(t) |-> s[j]]
  BY <1>1, <1>3
<1>5. t = [j \in 1..Len(t) |-> t[j]]
  BY <1>2
<1> QED
  BY <1>4, <1>5

\* Where the elements of a concatenation come from.
LEMMA Joined ==
  ASSUME NEW s, NEW t, IsSequence(s), IsSequence(t)
  PROVE  /\ \A j \in 1..Len(s) : (s \o t)[j] = s[j]
         /\ \A j \in 1..Len(t) : (s \o t)[Len(s) + j] = t[j]
<1>1. PICK S : s \in Seq(S)
  BY DEF IsSequence
<1>2. PICK T : t \in Seq(T)
  BY DEF IsSequence
<1> DEFINE U == S \cup T
<1>3. s \in Seq(U) /\ t \in Seq(U)
  BY <1>1, <1>2
<1> HIDE DEF U
<1>4. Len(s) \in Nat /\ Len(t) \in Nat
  BY <1>3
<1>5. \A j \in 1..Len(s) : (s \o t)[j] = s[j]
  BY <1>3, <1>4
<1>6. \A j \in 1..Len(t) : (s \o t)[Len(s) + j] = t[j]
  BY <1>3, <1>4
<1> QED
  BY <1>5, <1>6

\* The cells of the i-th relocation, and of the i-th exit.
LEMMA Quads ==
  ASSUME NEW n \in Nat, NEW i \in 1..n, NEW d \in 1..4, NEW e, e = 4 * (i - 1) + d
  PROVE  /\ e \in 1..(4 * n) /\ (e - 1) % 4 = d - 1 /\ ((e - 1) \div 4) + 1 = i
<1>1. e \in 1..(4 * n)
  OBVIOUS
<1>2. e - 1 = 4 * (i - 1) + (d - 1) /\ i - 1 \in Int /\ d - 1 \in 0..3 /\ e - 1 \in Int
  OBVIOUS
<1>3. \A p, j, c \in Int : c \in 0..3 /\ p = 4 * j + c => p % 4 = c /\ p \div 4 = j
  OBVIOUS
<1>4. (e - 1) % 4 = d - 1 /\ (e - 1) \div 4 = i - 1
  BY <1>2, <1>3
<1> QED
  BY <1>1, <1>4

LEMMA Pairs ==
  ASSUME NEW n \in Nat, NEW i \in 1..n, NEW d \in 1..2, NEW e, e = 2 * (i - 1) + d
  PROVE  /\ e \in 1..(2 * n) /\ (e - 1) % 2 = d - 1 /\ ((e - 1) \div 2) + 1 = i
<1>1. e \in 1..(2 * n)
  OBVIOUS
<1>2. e - 1 = 2 * (i - 1) + (d - 1) /\ i - 1 \in Int /\ d - 1 \in 0..1 /\ e - 1 \in Int
  OBVIOUS
<1>3. \A p, j, c \in Int : c \in 0..1 /\ p = 2 * j + c => p % 2 = c /\ p \div 2 = j
  OBVIOUS
<1>4. (e - 1) % 2 = d - 1 /\ (e - 1) \div 2 = i - 1
  BY <1>2, <1>3
<1> QED
  BY <1>1, <1>4

\* The first n elements of s lie in cells behind m others.
Laid(cells, m, s, n) == \A j \in 1..n : cells[m + j] = s[j]

\* So cells are found a stride of four, or of two, at a time.
Fourths(cells, m, s, n) ==
  \A i \in 1..n : /\ cells[m + 4 * (i - 1) + 1] = s[4 * (i - 1) + 1]
                  /\ cells[m + 4 * (i - 1) + 3] = s[4 * (i - 1) + 3]
                  /\ cells[m + 4 * (i - 1) + 4] = s[4 * (i - 1) + 4]
Seconds(cells, m, s, n) ==
  \A i \in 1..n : /\ cells[m + 2 * (i - 1) + 1] = s[2 * (i - 1) + 1]
                  /\ cells[m + 2 * (i - 1) + 2] = s[2 * (i - 1) + 2]

LEMMA FourthsBehind ==
  ASSUME NEW n \in Nat, NEW m \in Nat, NEW cells, NEW R,
         Laid(cells, m, R, 4 * n)
  PROVE  Fourths(cells, m, R, n)
<1> SUFFICES ASSUME NEW i \in 1..n
             PROVE  /\ cells[m + 4 * (i - 1) + 1] = R[4 * (i - 1) + 1]
                    /\ cells[m + 4 * (i - 1) + 3] = R[4 * (i - 1) + 3]
                    /\ cells[m + 4 * (i - 1) + 4] = R[4 * (i - 1) + 4]
  BY DEF Fourths
<1>1. ASSUME NEW d \in 1..4
      PROVE  cells[m + 4 * (i - 1) + d] = R[4 * (i - 1) + d]
  <2>1. PICK e : e = 4 * (i - 1) + d
    OBVIOUS
  <2>2. e \in 1..(4 * n) /\ m + e = m + 4 * (i - 1) + d
    BY <2>1
  <2>3. cells[m + e] = R[e]
    BY <2>2 DEF Laid
  <2> QED
    BY <2>1, <2>2, <2>3
<1> QED
  BY <1>1

LEMMA SecondsBehind ==
  ASSUME NEW n \in Nat, NEW m \in Nat, NEW cells, NEW X,
         Laid(cells, m, X, 2 * n)
  PROVE  Seconds(cells, m, X, n)
<1> SUFFICES ASSUME NEW i \in 1..n
             PROVE  /\ cells[m + 2 * (i - 1) + 1] = X[2 * (i - 1) + 1]
                    /\ cells[m + 2 * (i - 1) + 2] = X[2 * (i - 1) + 2]
  BY DEF Seconds
<1>1. ASSUME NEW d \in 1..2
      PROVE  cells[m + 2 * (i - 1) + d] = X[2 * (i - 1) + d]
  <2>1. PICK e : e = 2 * (i - 1) + d
    OBVIOUS
  <2>2. e \in 1..(2 * n) /\ m + e = m + 2 * (i - 1) + d
    BY <2>1
  <2>3. cells[m + e] = X[e]
    BY <2>2 DEF Laid
  <2> QED
    BY <2>1, <2>2, <2>3
<1> QED
  BY <1>1

\* Reading what was written gives back any unit.
LEMMA RoundTrip ==
  ASSUME NEW u, IsSequence(u.code), u.relocs \in Seq([offset : Int, target : Int]),
         u.exits \in Seq(Int),
         u = [ guest_entry_pc |-> u.guest_entry_pc, guest_len |-> u.guest_len,
               profile_id |-> u.profile_id, guest_hash |-> u.guest_hash,
               code |-> u.code, relocs |-> u.relocs, exits |-> u.exits ]
  PROVE  oryx_tu_parse(oryx_tu_serialize(u)) = u
<1> DEFINE c == u.code
           r == u.relocs
           x == u.exits
           R == [ j \in 1..(4 * Len(r)) |->
                    CASE (j - 1) % 4 = 0 -> r[((j - 1) \div 4) + 1].offset
                      [] (j - 1) % 4 = 1 -> "BRANCH_GUEST_PC"
                      [] OTHER -> Put64(r[((j - 1) \div 4) + 1].target, ((j - 1) % 4) - 2) ]
           X == [ j \in 1..(2 * Len(x)) |-> Put64(x[((j - 1) \div 2) + 1], (j - 1) % 2) ]
           b == oryx_tu_serialize(u)
<1>1. PICK nc \in Nat, nr \in Nat, ne \in Nat : nc = Len(c) /\ nr = Len(r) /\ ne = Len(x)
  BY SequenceLen
<1>2. IsSequence(R) /\ Len(R) = 4 * nr
  <2>1. 4 * nr \in Nat /\ R = [j \in 1..(4 * nr) |-> R[j]]
    BY <1>1
  <2> QED
    BY <2>1, FromFunction
<1>3. IsSequence(X) /\ Len(X) = 2 * ne
  <2>1. 2 * ne \in Nat /\ X = [j \in 1..(2 * ne) |-> X[j]]
    BY <1>1
  <2> QED
    BY <2>1, FromFunction
<1>4. b.cells = c \o R \o X
  BY Zenon DEF oryx_tu_serialize
<1>5. /\ b.header.guest_entry_pc = u.guest_entry_pc /\ b.header.guest_len = u.guest_len
      /\ b.header.profile_id = u.profile_id /\ b.header.guest_hash = u.guest_hash
      /\ b.header.code_len = 4 * nc /\ b.header.reloc_count = nr /\ b.header.exit_count = ne
  BY <1>1 DEF oryx_tu_serialize
<1>6. \A i \in 1..nr : /\ R[4 * (i - 1) + 1] = r[i].offset
                       /\ R[4 * (i - 1) + 3] = Put64(r[i].target, 0)
                       /\ R[4 * (i - 1) + 4] = Put64(r[i].target, 1)
  <2> TAKE i \in 1..nr
  <2>1. PICK e : e = 4 * (i - 1) + 1
    OBVIOUS
  <2>2. PICK f : f = 4 * (i - 1) + 3
    OBVIOUS
  <2>3. PICK g : g = 4 * (i - 1) + 4
    OBVIOUS
  <2>4. /\ e \in 1..(4 * nr) /\ (e - 1) % 4 = 1 - 1 /\ ((e - 1) \div 4) + 1 = i
        /\ f \in 1..(4 * nr) /\ (f - 1) % 4 = 3 - 1 /\ ((f - 1) \div 4) + 1 = i
        /\ g \in 1..(4 * nr) /\ (g - 1) % 4 = 4 - 1 /\ ((g - 1) \div 4) + 1 = i
    BY <2>1, <2>2, <2>3, Quads
  <2>5. R[e] = r[i].offset
    BY <1>1, <2>4
  <2>6. R[f] = Put64(r[i].target, 0)
    <3>1. (f - 1) % 4 = 2 /\ 2 - 2 = 0
      BY <2>4
    <3>2. f \in 1..(4 * Len(r)) /\ ~((f - 1) % 4 = 0) /\ ~((f - 1) % 4 = 1)
      <4>1. ~((f - 1) % 4 = 0) /\ ~((f - 1) % 4 = 1)
        BY <3>1
      <4>2. f \in 1..(4 * Len(r))
        <5>1. f \in 1..(4 * nr)
          BY <2>4, Zenon
        <5> QED
          BY <1>1, <5>1, Zenon
      <4> QED
        BY <4>1, <4>2, Zenon
    <3>3. R[f] = Put64(r[((f - 1) \div 4) + 1].target, ((f - 1) % 4) - 2)
      BY <3>2, Zenon
    <3> QED
      BY <2>4, <3>1, <3>3
  <2>7. R[g] = Put64(r[i].target, 1)
    <3>1. (g - 1) % 4 = 3 /\ 3 - 2 = 1
      BY <2>4
    <3>2. g \in 1..(4 * Len(r)) /\ ~((g - 1) % 4 = 0) /\ ~((g - 1) % 4 = 1)
      <4>1. ~((g - 1) % 4 = 0) /\ ~((g - 1) % 4 = 1)
        BY <3>1
      <4>2. g \in 1..(4 * Len(r))
        <5>1. g \in 1..(4 * nr)
          BY <2>4, Zenon
        <5> QED
          BY <1>1, <5>1, Zenon
      <4> QED
        BY <4>1, <4>2, Zenon
    <3>3. R[g] = Put64(r[((g - 1) \div 4) + 1].target, ((g - 1) % 4) - 2)
      BY <3>2, Zenon
    <3> QED
      BY <2>4, <3>1, <3>3
  <2> QED
    BY <2>1, <2>2, <2>3, <2>5, <2>6, <2>7
<1>7. \A i \in 1..ne : X[2 * (i - 1) + 1] = Put64(x[i], 0) /\ X[2 * (i - 1) + 2] = Put64(x[i], 1)
  <2> TAKE i \in 1..ne
  <2>1. PICK e : e = 2 * (i - 1) + 1
    OBVIOUS
  <2>2. PICK f : f = 2 * (i - 1) + 2
    OBVIOUS
  <2>3. /\ e \in 1..(2 * ne) /\ (e - 1) % 2 = 1 - 1 /\ ((e - 1) \div 2) + 1 = i
        /\ f \in 1..(2 * ne) /\ (f - 1) % 2 = 2 - 1 /\ ((f - 1) \div 2) + 1 = i
    BY <2>1, <2>2, Pairs
  <2>4. X[e] = Put64(x[i], 0) /\ X[f] = Put64(x[i], 1)
    BY <1>1, <2>3
  <2> QED
    BY <2>1, <2>2, <2>4
<1>8. \A i \in 1..nr : /\ r[i] = [offset |-> r[i].offset, target |-> r[i].target]
                       /\ r[i].target \in Int
  <2> TAKE i \in 1..nr
  <2>1. r[i] \in [offset : Int, target : Int]
    <3>1. \A S, q : q \in Seq(S) => \A j \in 1..Len(q) : q[j] \in S
      OBVIOUS
    <3> QED
      BY <1>1, <3>1, Zenon
  <2> HIDE DEF r
  <2> QED
    BY <2>1
<1>9. \A i \in 1..ne : x[i] \in Int
  BY <1>1
<1>10. r = [i \in 1..nr |-> r[i]] /\ x = [i \in 1..ne |-> x[i]]
  BY <1>1
<1>11. IsSequence(c)
  OBVIOUS
<1> HIDE DEF R, X, b, c, r, x
<1> DEFINE front == c \o R
<1>12. IsSequence(front) /\ Len(front) = nc + 4 * nr
  BY <1>1, <1>2, <1>11, Concatenation
<1>13. /\ \A j \in 1..nc : front[j] = c[j]
       /\ \A j \in 1..(4 * nr) : front[nc + j] = R[j]
  BY <1>1, <1>2, <1>11, Joined
<1>14. /\ \A j \in 1..(nc + 4 * nr) : b.cells[j] = front[j]
       /\ \A j \in 1..(2 * ne) : b.cells[nc + 4 * nr + j] = X[j]
  <2>1. b.cells = front \o X
    BY <1>4
  <2> HIDE DEF front
  <2> QED
    <3>1. /\ \A j \in 1..Len(front) : (front \o X)[j] = front[j]
          /\ \A j \in 1..Len(X) : (front \o X)[Len(front) + j] = X[j]
      <4>1. IsSequence(front) /\ IsSequence(X)
        BY <1>3, <1>12
      <4> HIDE <1>1, <1>2, <1>3, <1>4, <1>12
      <4> QED
        BY <4>1, Joined
    <3>2. Len(front) = nc + 4 * nr /\ Len(X) = 2 * ne
      BY <1>3, <1>12
    <3> QED
      BY <2>1, <3>1, <3>2
<1>15. SubSeq(b.cells, 1, nc) = c
  <2>1. IsSequence(b.cells) /\ Len(b.cells) = nc + 4 * nr + 2 * ne
    BY <1>3, <1>4, <1>12, Concatenation
  <2>2. nc <= nc + 4 * nr + 2 * ne /\ \A j \in 1..nc : j \in 1..(nc + 4 * nr)
    OBVIOUS
  <2>3. \A j \in 1..nc : b.cells[j] = c[j]
    BY <1>13, <1>14, <2>2
  <2> QED
    BY <1>1, <1>11, <2>1, <2>2, <2>3, Beginning
<1> HIDE DEF front
<1>16. (4 * nc) \div 4 = nc
  OBVIOUS
<1>17. \A i \in 1..nr : /\ b.cells[nc + 4 * (i - 1) + 1] = R[4 * (i - 1) + 1]
                        /\ b.cells[nc + 4 * (i - 1) + 3] = R[4 * (i - 1) + 3]
                        /\ b.cells[nc + 4 * (i - 1) + 4] = R[4 * (i - 1) + 4]
  <2>1. Laid(b.cells, nc, R, 4 * nr)
    <3> SUFFICES ASSUME NEW j \in 1..(4 * nr) PROVE b.cells[nc + j] = R[j]
      BY DEF Laid
    <3>1. nc + j \in 1..(nc + 4 * nr)
      OBVIOUS
    <3> QED
      BY <1>13, <1>14, <3>1
  <2>2. nr \in Nat /\ nc \in Nat
    OBVIOUS
  <2>3. Fourths(b.cells, nc, R, nr)
    BY <2>1, <2>2, FourthsBehind, Zenon
  <2> QED
    BY <2>3, Zenon DEF Fourths
<1>18. PICK m \in Nat :
         /\ m = nc + 4 * nr
         /\ \A i \in 1..ne : /\ b.cells[m + 2 * (i - 1) + 1] = X[2 * (i - 1) + 1]
                             /\ b.cells[m + 2 * (i - 1) + 2] = X[2 * (i - 1) + 2]
  <2>1. PICK m \in Nat : m = nc + 4 * nr
    OBVIOUS
  <2>2. Laid(b.cells, m, X, 2 * ne)
    BY <1>14, <2>1 DEF Laid
  <2>3. ne \in Nat /\ m \in Nat
    OBVIOUS
  <2>4. Seconds(b.cells, m, X, ne)
    BY <2>2, <2>3, SecondsBehind, Zenon
  <2>5. \A i \in 1..ne : /\ b.cells[m + 2 * (i - 1) + 1] = X[2 * (i - 1) + 1]
                         /\ b.cells[m + 2 * (i - 1) + 2] = X[2 * (i - 1) + 2]
    BY <2>4, Zenon DEF Seconds
  <2> QED
    BY <2>1, <2>5, Zenon
<1>19. oryx_tu_parse(b) = [ guest_entry_pc |-> u.guest_entry_pc, guest_len |-> u.guest_len,
                            profile_id |-> u.profile_id, guest_hash |-> u.guest_hash,
                            code |-> c, relocs |-> r, exits |-> x ]
  <2>1. [ i \in 1..nr |-> [offset |-> b.cells[nc + 4 * (i - 1) + 1],
                           target |-> Get64(b.cells[nc + 4 * (i - 1) + 3],
                                            b.cells[nc + 4 * (i - 1) + 4])] ] = r
    <3>1. \A i \in 1..nr : Get64(Put64(r[i].target, 0), Put64(r[i].target, 1)) = r[i].target
      BY <1>8, Halves
    <3>2. ASSUME NEW i \in 1..nr
          PROVE  [offset |-> b.cells[nc + 4 * (i - 1) + 1],
                  target |-> Get64(b.cells[nc + 4 * (i - 1) + 3], b.cells[nc + 4 * (i - 1) + 4])]
                   = r[i]
      <4>1. /\ R[4 * (i - 1) + 1] = r[i].offset
            /\ R[4 * (i - 1) + 3] = Put64(r[i].target, 0)
            /\ R[4 * (i - 1) + 4] = Put64(r[i].target, 1)
        BY <1>6
      <4>2. /\ b.cells[nc + 4 * (i - 1) + 1] = R[4 * (i - 1) + 1]
            /\ b.cells[nc + 4 * (i - 1) + 3] = R[4 * (i - 1) + 3]
            /\ b.cells[nc + 4 * (i - 1) + 4] = R[4 * (i - 1) + 4]
        BY <1>17
      <4>3. Get64(b.cells[nc + 4 * (i - 1) + 3], b.cells[nc + 4 * (i - 1) + 4]) = r[i].target
        BY <3>1, <4>1, <4>2, Zenon
      <4>4. r[i] = [offset |-> r[i].offset, target |-> r[i].target]
        BY <1>8
      <4> QED
        BY <4>1, <4>2, <4>3, <4>4, Zenon
    <3> QED
      BY <1>10, <3>2, Zenon
  <2>2. [ i \in 1..ne |-> Get64(b.cells[m + 2 * (i - 1) + 1], b.cells[m + 2 * (i - 1) + 2]) ] = x
    <3>1. \A i \in 1..ne : Get64(Put64(x[i], 0), Put64(x[i], 1)) = x[i]
      BY <1>9, Halves
    <3>2. ASSUME NEW i \in 1..ne
          PROVE  Get64(b.cells[m + 2 * (i - 1) + 1], b.cells[m + 2 * (i - 1) + 2]) = x[i]
      <4>1. X[2 * (i - 1) + 1] = Put64(x[i], 0) /\ X[2 * (i - 1) + 2] = Put64(x[i], 1)
        BY <1>7
      <4>2. /\ b.cells[m + 2 * (i - 1) + 1] = X[2 * (i - 1) + 1]
            /\ b.cells[m + 2 * (i - 1) + 2] = X[2 * (i - 1) + 2]
        BY <1>18
      <4> QED
        BY <3>1, <4>1, <4>2, Zenon
    <3> QED
      BY <1>10, <3>2, Zenon
  <2> QED
    BY <1>5, <1>15, <1>16, <1>18, <2>1, <2>2, Zenon DEF oryx_tu_parse
<1> QED
  BY <1>19 DEF b, c, r, x

\* The numbers of the block and of what has been made of it
Numbers ==
  /\ block.ops \in Seq([op : STRING, rd : Int, rn : Int, imm : Int, target : Nat,
                        cc : STRING, mclass : STRING])
  /\ block.guest_pc \in Int /\ block.guest_len \in Int
  /\ at \in Nat \ {0}
  /\ relocs \in Seq([offset : Int, target : Int]) /\ exits \in Seq(Int)

\* Elements of S make sequences over S, and sequences over S have elements of S.
LEMMA Elements ==
  ASSUME NEW S, NEW s \in Seq(S)
  PROVE  /\ \A j \in 1..Len(s) : s[j] \in S
         /\ \A e \in S : Append(s, e) \in Seq(S)
         /\ \A e, f \in S : s \o <<e, f>> \in Seq(S)
OBVIOUS

\* Every step of oryx_translate_ex keeps them.
LEMMA StepNumbers ==
  ASSUME Ready, Numbers, Translate
  PROVE  Numbers'
<1>1. ASSUME UNCHANGED <<block, at, relocs, exits>>
      PROVE  Numbers'
  BY <1>1 DEF Numbers
<1>2. CASE Start
  BY <1>1, <1>2 DEF Start
<1>3. CASE TranslateOp
  <2> DEFINE in == block.ops[at]
             all == code \o Emitted(block, in)
  <2>1. CASE UNCHANGED <<block, at, relocs, exits>>
    BY <1>1, <2>1
  <2>2. CASE /\ Encodable(block, in) /\ at <= Len(block.ops) /\ at' = at + 1 /\ block' = block
             /\ relocs' = IF in.op \in Branches
                          THEN Append(relocs, [offset |-> BranchSite(all), target |-> in.target])
                          ELSE relocs
             /\ exits' = CASE in.op = "BR" -> exits \o <<in.target,
                                                (block.guest_pc + block.guest_len) % Word>>
                           [] in.op \in {"JMP", "CALL"} -> Append(exits, in.target)
                           [] OTHER -> exits
    <3>1. in.target \in Int
      <4>1. at \in 1..Len(block.ops)
        BY <2>2, SequenceLen DEF Numbers, IsSequence
      <4> DEFINE T == [op : STRING, rd : Int, rn : Int, imm : Int, target : Nat,
                       cc : STRING, mclass : STRING]
      <4>2. block.ops \in Seq(T)
        BY DEF Numbers
      <4>3. in \in T
        <5> HIDE DEF T
        <5> QED
          BY <4>1, <4>2, Elements
      <4> QED
        BY <4>3
    <3>2. BranchSite(all) \in Int
      <4>1. IsSequence(all)
        BY <2>2, EmittedSome, Concatenation DEF Ready, Some, Encodable
      <4> HIDE DEF all
      <4> QED
        BY <4>1, SequenceLen DEF BranchSite
    <3>3. (block.guest_pc + block.guest_len) % Word \in Int
      BY WordPositive DEF Numbers
    <3> DEFINE r == [offset |-> BranchSite(all), target |-> in.target]
               g == (block.guest_pc + block.guest_len) % Word
    <3>4. r \in [offset : Int, target : Int]
      BY <3>1, <3>2
    <3> HIDE DEF in, all, r, g
    <3>5. relocs' \in Seq([offset : Int, target : Int])
      <4>1. relocs' = Append(relocs, r) \/ relocs' = relocs
        BY <2>2 DEF r
      <4> DEFINE T == [offset : Int, target : Int]
      <4>2. relocs \in Seq(T) /\ r \in T
        BY <3>4 DEF Numbers
      <4> HIDE DEF T
      <4>3. relocs' \in Seq(T)
        BY <4>1, <4>2, Elements, Zenon
      <4> QED
        BY <4>3 DEF T
    <3>6. exits' \in Seq(Int)
      <4>1. \/ exits' = exits \o <<in.target, g>> \/ exits' = Append(exits, in.target)
            \/ exits' = exits
        BY <2>2 DEF g
      <4>2. g \in Int
        BY <3>3 DEF g
      <4>3. exits \in Seq(Int)
        BY DEF Numbers
      <4> QED
        BY <3>1, <4>1, <4>2, <4>3, Elements, Zenon
    <3> QED
      BY <2>2, <3>5, <3>6 DEF Numbers
  <2> QED
    BY <1>3, <2>1, <2>2 DEF TranslateOp
<1>4. CASE Finish
  BY <1>1, <1>4 DEF Finish
<1> QED
  BY <1>2, <1>3, <1>4 DEF Translate

(***************************************************************************)
(* For every block, whatever its length: the unit oryx_translate_ex        *)
(* finishes survives oryx_tu_serialize and oryx_tu_parse unchanged.        *)
(***************************************************************************)
THEOREM StoredUnchanged == TranslatorSpec => []ReadBack
<1>1. TranslatorInit => Ready /\ Numbers
  <2>1. <<>> \in Seq([offset : Int, target : Int]) /\ <<>> \in Seq(Int)
    OBVIOUS
  <2>2. TranslatorInit => block.guest_pc \in Int /\ block.guest_len \in Int
    BY WordPositive, WordsAssumption DEF TranslatorInit
  <2> QED
    <3>1. TranslatorInit => Ready
      BY Empty DEF TranslatorInit, Ready
    <3>2. TranslatorInit => block.ops \in Seq([op : STRING, rd : Int, rn : Int, imm : Int, target : Nat,
                                               cc : STRING, mclass : STRING])
      BY DEF TranslatorInit
    <3>3. TranslatorInit => at \in Nat \ {0}
      BY DEF TranslatorInit
    <3>4. TranslatorInit => relocs = <<>> /\ exits = <<>>
      BY DEF TranslatorInit
    <3> QED
      BY <2>1, <2>2, <3>1, <3>2, <3>3, <3>4, Zenon DEF Numbers
<1>2. (Ready /\ Numbers) /\ [Translate]_tvars => (Ready /\ Numbers)'
  <2>1. ASSUME Ready, Numbers, Translate PROVE Ready' /\ Numbers'
    BY <2>1, StepReady, StepNumbers
  <2>2. ASSUME Ready, Numbers, UNCHANGED tvars PROVE Ready' /\ Numbers'
    BY <2>2 DEF tvars, Ready, Ended, Some, IsSequence, Numbers
  <2> QED
    BY <2>1, <2>2
<1>3. Ready /\ Numbers => ReadBack
  <2> SUFFICES ASSUME Ready, Numbers PROVE oryx_tu_parse(oryx_tu_serialize(Unit)) = Unit
    BY DEF ReadBack
  <2>1. PICK u : u = Unit
    OBVIOUS
  <2>2. /\ IsSequence(u.code) /\ u.relocs \in Seq([offset : Int, target : Int])
        /\ u.exits \in Seq(Int)
    BY <2>1 DEF Unit, Ready, Numbers
  <2>3. u = [ guest_entry_pc |-> u.guest_entry_pc, guest_len |-> u.guest_len,
              profile_id |-> u.profile_id, guest_hash |-> u.guest_hash,
              code |-> u.code, relocs |-> u.relocs, exits |-> u.exits ]
    BY <2>1 DEF Unit
  <2>4. oryx_tu_parse(oryx_tu_serialize(u)) = u
    BY <2>2, <2>3, RoundTrip
  <2> QED
    BY <2>1, <2>4
<1> QED
  BY <1>1, <1>2, <1>3, PTL DEF TranslatorSpec

-----------------------------------------------------------------------------
(* The key of a unit *)

\* f[j] is the code of the first j ops of block b, for every j up to n.
Trail(b, n, f) ==
  /\ f[0] = <<>>
  /\ \A j \in 1..n : b.ops[j].op \in Gop /\ f[j] = f[j - 1] \o Emitted(b, b.ops[j])

\* A finished translation of b whose code is c.
Compiled(b, c) == \E f : Len(b.ops) \in Nat /\ Trail(b, Len(b.ops), f) /\ c = f[Len(b.ops)]

(***************************************************************************)
(* What is emitted for an op depends on the block's policy and strength    *)
(* and on those fields of the op that hash_block hashes.                   *)
(***************************************************************************)
LEMMA SameEmitted ==
  ASSUME NEW a, NEW b, NEW i, NEW o, a.policy = b.policy, a.strength = b.strength,
         o.op \in Gop, i.op = o.op, i.rd = o.rd, i.rn = o.rn, i.imm = o.imm, i.cc = o.cc,
         i.mclass = o.mclass
  PROVE  Emitted(a, i) = Emitted(b, o)
<1>1. IsOrdered(a, i) <=> IsOrdered(b, o)
  BY DEF IsOrdered
<1>2. MemoryOp(a, i) = MemoryOp(b, o)
  BY <1>1 DEF MemoryOp
<1>3. LeaCode(i) = LeaCode(o) /\ AddImm(i) = AddImm(o) /\ CmpImm(i) = CmpImm(o)
  BY DEF LeaCode, AddImm, CmpImm
<1> QED
  BY <1>2, <1>3 DEF Emitted, Gop

\* So the key fixes how many ops there are and what each of them becomes.
LEMMA SameOps ==
  ASSUME NEW a, NEW b, hash_block(a) = hash_block(b), Len(a.ops) \in Nat, Len(b.ops) \in Nat
  PROVE  /\ Len(a.ops) = Len(b.ops)
         /\ \A j \in 1..Len(a.ops) :
              b.ops[j].op \in Gop => Emitted(a, a.ops[j]) = Emitted(b, b.ops[j])
<1> DEFINE H(c) == [ j \in 1..Len(c.ops) |->
                       <<c.ops[j].op, c.ops[j].rd, c.ops[j].rn, c.ops[j].imm,
                         c.ops[j].target % Half, c.ops[j].cc, c.ops[j].mclass>> ]
<1>1. \A c : hash_block(c) = <<c.guest_pc, c.policy, c.strength, H(c)>>
  BY DEF hash_block
<1>2. a.policy = b.policy /\ a.strength = b.strength /\ H(a) = H(b)
  <2> HIDE DEF H
  <2> QED
    BY <1>1
<1>3. Len(a.ops) = Len(b.ops)
  <2>1. DOMAIN H(a) = 1..Len(a.ops) /\ DOMAIN H(b) = 1..Len(b.ops)
    OBVIOUS
  <2>2. 1..Len(a.ops) = 1..Len(b.ops)
    BY <1>2, <2>1
  <2> QED
    BY <2>2
<1>4. ASSUME NEW j \in 1..Len(a.ops), b.ops[j].op \in Gop
      PROVE  Emitted(a, a.ops[j]) = Emitted(b, b.ops[j])
  <2>1. H(a)[j] = <<a.ops[j].op, a.ops[j].rd, a.ops[j].rn, a.ops[j].imm,
                    a.ops[j].target % Half, a.ops[j].cc, a.ops[j].mclass>>
    OBVIOUS
  <2>2. H(b)[j] = <<b.ops[j].op, b.ops[j].rd, b.ops[j].rn, b.ops[j].imm,
                    b.ops[j].target % Half, b.ops[j].cc, b.ops[j].mclass>>
    BY <1>3
  <2> HIDE DEF H
  <2>3. /\ a.ops[j].op = b.ops[j].op /\ a.ops[j].rd = b.ops[j].rd /\ a.ops[j].rn = b.ops[j].rn
        /\ a.ops[j].imm = b.ops[j].imm /\ a.ops[j].cc = b.ops[j].cc
        /\ a.ops[j].mclass = b.ops[j].mclass
    BY <1>2, <2>1, <2>2
  <2> QED
    BY <1>2, <1>4, <2>3, SameEmitted
<1> QED
  BY <1>3, <1>4

\* Blocks with one key have one code: consider the first op behind which it differs.
LEMMA SameCode ==
  ASSUME NEW a, NEW b, hash_block(a) = hash_block(b), NEW c, NEW d,
         Compiled(a, c), Compiled(b, d)
  PROVE  c = d
<1>1. PICK f : Len(a.ops) \in Nat /\ Trail(a, Len(a.ops), f) /\ c = f[Len(a.ops)]
  BY DEF Compiled
<1>2. PICK g : Len(b.ops) \in Nat /\ Trail(b, Len(b.ops), g) /\ d = g[Len(b.ops)]
  BY DEF Compiled
<1>3. PICK n \in Nat : n = Len(a.ops) /\ n = Len(b.ops)
  BY <1>1, <1>2, SameOps
<1>4. \A j \in 1..n : Emitted(a, a.ops[j]) = Emitted(b, b.ops[j])
  <2>1. \A j \in 1..n : b.ops[j].op \in Gop
    BY <1>2, <1>3 DEF Trail
  <2> QED
    BY <1>1, <1>2, <1>3, <2>1, SameOps
<1>5. f[0] = g[0] /\ \A j \in 1..n : f[j - 1] = g[j - 1] => f[j] = g[j]
  BY <1>1, <1>2, <1>3, <1>4 DEF Trail
<1> DEFINE T == { j \in 0..n : f[j] # g[j] }
<1>6. SUFFICES ASSUME T # {} PROVE FALSE
  <2>1. n \in 0..n
    OBVIOUS
  <2> QED
    BY <1>1, <1>2, <1>3, <1>6, <2>1
<1>7. T \subseteq Nat
  OBVIOUS
<1>8. PICK m \in T : \A j \in T : ~(<<j, m>> \in OpToRel(<, Nat))
  <2> HIDE DEF T
  <2> QED
    BY <1>6, <1>7, NatLessThanWellFounded, WFMin
<1>9. m \in 1..n /\ f[m] # g[m]
  BY <1>5
<1>10. m - 1 \in 0..n /\ m - 1 \in Nat /\ m \in Nat /\ m - 1 < m
  BY <1>9
<1>11. m - 1 \notin T
  BY <1>8, <1>10 DEF OpToRel
<1> QED
  BY <1>5, <1>9, <1>10, <1>11

-----------------------------------------------------------------------------
(* The units made *)

\* The code so far is that of the ops so far.
Halfway ==
  /\ phase = "decode" => at = 1 /\ code = <<>> /\ tst = "idle"
  /\ phase = "translate" =>
       /\ tst = "start" => at = 1 /\ code = <<>>
       /\ tst \in {"translate", "OK"} =>
            /\ Len(block.ops) \in Nat /\ at \in 1..(Len(block.ops) + 1)
            /\ \E f : Trail(block, at - 1, f) /\ f[at - 1] = code
       /\ tst = "OK" => at = Len(block.ops) + 1

\* The units are finished translations of blocks with their keys.
Traced ==
  \A m \in made : \E b : m.key = <<hash_block(b), b.profile_id>> /\ Compiled(b, m.unit.code)

LEMMA StepHalfway ==
  ASSUME Halfway, phase = "translate", phase' = phase, Translate
  PROVE  Halfway'
<1>1. CASE Start
  <2>1. block' = block /\ at' = at /\ code' = code
    BY <1>1 DEF Start
  <2>2. at = 1 /\ code = <<>>
    BY <1>1 DEF Start, Halfway
  <2>3. CASE Len(block.ops) \in 1..MaxBlock
    <3>1. tst' = "translate"
      BY <1>1, <2>3 DEF Start
    <3>2. Len(block.ops) \in Nat /\ 1 \in 1..(Len(block.ops) + 1)
      BY <2>3, TranslatorAssumption
    <3>3. PICK f : f = [j \in {0} |-> <<>>]
      OBVIOUS
    <3>4. Trail(block, 0, f) /\ f[0] = <<>>
      BY <3>3 DEF Trail
    <3>5. (Trail(block, at - 1, f) /\ f[at - 1] = code)'
      BY <2>1, <2>2, <3>4 DEF Trail
    <3> QED
      BY <2>1, <2>2, <3>1, <3>2, <3>5 DEF Halfway
  <2>4. CASE Len(block.ops) \notin 1..MaxBlock
    <3>1. tst' = "INVAL"
      BY <1>1, <2>4 DEF Start
    <3> QED
      BY <3>1 DEF Halfway
  <2> QED
    BY <2>3, <2>4
<1>2. CASE TranslateOp
  <2> DEFINE in == block.ops[at]
  <2>1. /\ Len(block.ops) \in Nat /\ at \in 1..Len(block.ops) /\ tst = "translate"
    BY <1>2 DEF TranslateOp, Halfway
  <2>2. CASE tst' \in {"INVAL", "NOMEM"}
    BY <2>2 DEF Halfway
  <2>3. CASE /\ in.op \in Gop /\ code' = code \o Emitted(block, in) /\ at' = at + 1
             /\ block' = block /\ tst' = tst
    <3>1. PICK f : Trail(block, at - 1, f) /\ f[at - 1] = code
      BY <2>1 DEF Halfway
    <3>2. PICK n \in Nat : n = at - 1
      BY <2>1
    <3> DEFINE g == [j \in 0..at |-> IF j = at THEN code \o Emitted(block, in) ELSE f[j]]
    <3>3. g[0] = <<>> /\ g[at] = code'
      BY <2>1, <2>3, <3>1 DEF Trail
    <3>4. ASSUME NEW j \in 1..at
          PROVE  block.ops[j].op \in Gop /\ g[j] = g[j - 1] \o Emitted(block, block.ops[j])
      <4>1. CASE j = at
        <5>1. at - 1 \in 0..at /\ at - 1 # at /\ at \in 0..at
          BY <2>1
        <5>2. g[at - 1] = code
          BY <3>1, <5>1
        <5> QED
          BY <2>3, <4>1, <5>1, <5>2
      <4>2. CASE j # at
        <5>1. j \in 1..(at - 1) /\ j - 1 \in 0..at /\ j - 1 # at /\ j \in 0..at
          BY <2>1, <4>2
        <5> QED
          BY <3>1, <4>2, <5>1 DEF Trail
      <4> QED
        BY <4>1, <4>2
    <3> HIDE DEF g, in
    <3>5. at' - 1 = at /\ at' \in 1..(Len(block.ops) + 1)
      BY <2>1, <2>3
    <3>6. PICK h : h = g
      OBVIOUS
    <3>7. (Trail(block, at - 1, h) /\ h[at - 1] = code)'
      <4>1. Trail(block, at, h)
        BY <3>3, <3>4, <3>6 DEF Trail
      <4> QED
        BY <2>3, <3>3, <3>5, <3>6, <4>1 DEF Trail
    <3> QED
      BY <2>1, <2>3, <3>5, <3>7 DEF Halfway
  <2> QED
    BY <1>2, <2>2, <2>3 DEF TranslateOp, Encodable
<1>3. CASE Finish
  <2>1. block' = block /\ at' = at /\ code' = code
    BY <1>3 DEF Finish
  <2>2. at = Len(block.ops) + 1
    BY <1>3 DEF Finish, Halfway
  <2>3. tst = "translate" /\ tst' \in {"OK", "INVAL"}
    BY <1>3 DEF Finish
  <2>4. PICK f : Trail(block, at - 1, f) /\ f[at - 1] = code
    BY <2>3 DEF Halfway
  <2>5. (Trail(block, at - 1, f) /\ f[at - 1] = code)'
    BY <2>1, <2>4 DEF Trail
  <2> QED
    BY <2>1, <2>2, <2>3, <2>5 DEF Halfway
<1> QED
  BY <1>1, <1>2, <1>3 DEF Translate

LEMMA StepTraced ==
  ASSUME Halfway, Traced, [UnitsNext]_uvars
  PROVE  Halfway' /\ Traced'
<1>1. CASE DecodeStep
  <2>1. UNCHANGED <<phase, made, block, at, code, tst>>
    BY <1>1 DEF DecodeStep, tvars
  <2> QED
    BY <2>1 DEF Halfway, Traced, Trail
<1>2. CASE HandOver
  BY <1>2 DEF HandOver, Halfway, Traced
<1>3. CASE TranslateStep
  <2>1. Halfway'
    BY <1>3, StepHalfway DEF TranslateStep
  <2>2. made' = made
    BY <1>3 DEF TranslateStep
  <2> QED
    BY <2>1, <2>2 DEF Traced
<1>4. CASE Keep
  <2>1. Halfway'
    BY <1>4 DEF Keep, Halfway
  <2>2. Compiled(block, code)
    <3>1. phase = "translate" /\ tst = "OK"
      BY <1>4 DEF Keep
    <3>2. Len(block.ops) \in Nat /\ at = Len(block.ops) + 1
      BY <3>1 DEF Halfway
    <3>3. at - 1 = Len(block.ops)
      BY <3>2
    <3>4. PICK f : Trail(block, at - 1, f) /\ f[at - 1] = code
      BY <3>1 DEF Halfway
    <3> QED
      BY <3>2, <3>3, <3>4 DEF Compiled
  <2> DEFINE m == [key |-> oryx_tu_logical_key(Unit), unit |-> Unit]
  <2>3. m.key = <<hash_block(block), block.profile_id>> /\ m.unit.code = code
    BY DEF oryx_tu_logical_key, Unit
  <2>4. made' = made \cup {m}
    BY <1>4 DEF Keep
  <2> HIDE DEF m
  <2> QED
    BY <2>1, <2>2, <2>3, <2>4 DEF Traced
<1>5. CASE NextInput
  BY <1>5 DEF NextInput, Halfway, Traced
<1>6. CASE UNCHANGED uvars
  <2>1. UNCHANGED <<phase, made, block, at, code, tst>>
    BY <1>6 DEF uvars, tvars
  <2> QED
    BY <2>1 DEF Halfway, Traced, Trail
<1> QED
  BY <1>1, <1>2, <1>3, <1>4, <1>5, <1>6 DEF UnitsNext

(***************************************************************************)
(* Whatever is translated, in whatever sequence of jobs: units with one    *)
(* logical key (oryx_tu_logical_key over hash_block) have the same code.   *)
(* What two translations of a block have in common is an induction over    *)
(* its ops, of which hash_block leaves out nothing that Emitted looks at.  *)
(***************************************************************************)
THEOREM KeyIdentifiesCode == UnitsSpec => []KeyFixesCode
<1>1. UnitsInit => Halfway /\ Traced
  BY DEF UnitsInit, Halfway, Traced
<1>2. Halfway /\ Traced /\ [UnitsNext]_uvars => Halfway' /\ Traced'
  BY StepTraced
<1>3. Traced => KeyFixesCode
  <2> SUFFICES ASSUME Traced, NEW u \in made, NEW w \in made, u.key = w.key
               PROVE  u.unit.code = w.unit.code
    BY DEF KeyFixesCode
  <2>1. PICK a : u.key = <<hash_block(a), a.profile_id>> /\ Compiled(a, u.unit.code)
    BY DEF Traced
  <2>2. PICK b : w.key = <<hash_block(b), b.profile_id>> /\ Compiled(b, w.unit.code)
    BY DEF Traced
  <2>3. hash_block(a) = hash_block(b)
    <3>1. \A h, i, p, q : <<h, p>> = <<i, q>> => h = i
      OBVIOUS
    <3> QED
      BY <2>1, <2>2, <3>1, Zenon
  <2> QED
    BY <2>1, <2>2, <2>3, SameCode
<1> QED
  BY <1>1, <1>2, <1>3, PTL DEF UnitsSpec

=============================================================================

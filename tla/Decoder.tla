------------------------------- MODULE Decoder -------------------------------
(***************************************************************************)
(* oryx_x86_decode_block of src/liboryxdec/oryxdec.c: the loop that turns  *)
(* the bytes of one x86-64 basic block into guest IR.                      *)
(*                                                                         *)
(* Opcode, REX and ModRM bytes are real bytes; the bytes of an immediate   *)
(* or displacement are digits of a scaled number (module Words), so sign   *)
(* extension, zero extension and wrap-around are those of the code.        *)
(***************************************************************************)
EXTENDS Words, Sequences

CONSTANT Cap    \* cap: room for IR ops

ASSUME DecoderAssumption == Cap \in Nat

VARIABLES
  img,      \* the image: base address and bytes
  entry,    \* pc: where the block starts
  off,      \* offset of the next byte
  cur,      \* guest address of the next byte
  ops,      \* IR emitted so far; n is its length
  dst,      \* "decode" inside the loop, else the return code
  seen      \* history: bytes below this offset may have been read

dvars == <<img, entry, off, cur, ops, dst, seen>>

-----------------------------------------------------------------------------
(* Reading the image *)

Size == Len(img.bytes)

\* Mutant: the bounds test lets one byte more through.
MutFits(end) == end <= Size + 1

\* off + k <= img->len
Fits(end) == end <= Size

\* img->bytes[i]; what lies behind the image is never asked for (InBounds).
At(i) == IF i < Size THEN img.bytes[i + 1] ELSE 0

Digit(i) == At(i) % Radix

rd_u32(i) == Digit(i) + Radix * (Digit(i + 1) + Radix * (Digit(i + 2) + Radix * Digit(i + 3)))
rd_u64(i) == rd_u32(i) + Half * rd_u32(i + 4)

sx8(i)  == Signed(Digit(i), Radix)
sx32(i) == Signed(rd_u32(i), Half)
sx64(i) == Signed(rd_u64(i), Word)

Bit(b, k) == (b \div k) % 2

\* endbr64 at the cursor
Endbr == /\ At(off) = \hF3 /\ Fits(off + 4)
         /\ At(off + 1) = \h0F /\ At(off + 2) = \h1E /\ At(off + 3) = \hFA

\* REX prefix, opcode, and where the bytes behind the opcode start
HasRex == At(off) \in \h40..\h4F
rexW   == HasRex /\ Bit(At(off), 8) = 1
rexR   == IF HasRex THEN Bit(At(off), 4) ELSE 0
rexB   == IF HasRex THEN Bit(At(off), 1) ELSE 0
OpAt   == IF HasRex THEN off + 1 ELSE off
opcode == At(OpAt)
Rest   == OpAt + 1

\* Address of the byte at offset i: cur has moved along with off.
PcAt(i) == (cur + (i - off)) % Word

Modrm(rc, next) == [rc |-> rc, next |-> next, reg |-> 0, mem |-> FALSE, rm |-> 0, disp |-> 0]

\* The ModRM byte at offset i with its displacement; next is the offset behind it.
decode_modrm(i) ==
  LET mod  == At(i) \div 64
      rm   == At(i) % 8
      mem  == mod # 3
      size == CASE mod = 1 -> 1 [] mod = 2 -> 4 [] OTHER -> 0
  IN  IF ~Fits(i + 1) THEN Modrm("FORMAT", i)
      ELSE IF mem /\ (rm = 4 \/ (rm = 5 /\ mod = 0)) THEN Modrm("UNSUPPORTED", i + 1)
      ELSE IF ~Fits(i + 1 + size) THEN Modrm("FORMAT", i + 1)
      ELSE [rc   |-> "OK", next |-> i + 1 + size, mem |-> mem,
            reg  |-> ((At(i) \div 8) % 8) + 8 * rexR,
            rm   |-> rm + 8 * rexB,
            disp |-> CASE mod = 1 -> sx8(i + 1) [] mod = 2 -> sx32(i + 1) [] OTHER -> 0]

\* Mutant: JB is taken for the signed JL.
MutCc(t) == CASE t = \h4 -> {"EQ"} [] t = \h5 -> {"NE"} [] t \in {\h2, \hC} -> {"LT"}
              [] t = \hD -> {"GE"} [] t = \hE -> {"LE"} [] t = \hF -> {"GT"} [] OTHER -> {}

\* The condition of a Jcc, as a set: {} for the unsigned and single-flag ones.
x86cc_to_gcc(t) == CASE t = \h4 -> {"EQ"} [] t = \h5 -> {"NE"} [] t = \hC -> {"LT"}
                     [] t = \hD -> {"GE"} [] t = \hE -> {"LE"} [] t = \hF -> {"GT"} [] OTHER -> {}

-----------------------------------------------------------------------------
(* The loop *)

Read(end) == seen' = IF end > seen THEN end ELSE seen

\* return rc, having looked at the bytes below end
Refuse(rc, end) ==
  /\ dst' = rc /\ Read(end)
  /\ UNCHANGED <<img, entry, off, cur, ops>>

\* EMIT(insn) and on to offset next; a terminator ends the loop.
Emit(insn, next, done) ==
  /\ Read(next)
  /\ IF Len(ops) >= Cap
     THEN dst' = "INVAL" /\ UNCHANGED <<off, cur, ops>>
     ELSE /\ ops' = Append(ops, insn)
          /\ off' = next /\ cur' = PcAt(next)
          /\ dst' = IF done THEN "OK" ELSE "decode"
  /\ UNCHANGED <<img, entry>>

\* The block's address is tested before anything is read; base + len may wrap.
Open ==
  /\ dst = "start"
  /\ IF entry < img.base \/ entry >= (img.base + Size) % Word
     THEN dst' = "NOTFOUND" /\ UNCHANGED <<off, cur>>
     ELSE dst' = "decode" /\ off' = entry - img.base /\ cur' = entry
  /\ UNCHANGED <<img, entry, ops, seen>>

\* The stream ends before a terminator, or behind a REX prefix.
Truncated ==
  /\ dst = "decode"
  /\ \/ ~Fits(off + 1) /\ Refuse("FORMAT", off)
     \/ Fits(off + 1) /\ ~Endbr /\ HasRex /\ ~Fits(off + 2) /\ Refuse("FORMAT", off + 1)

SkipEndbr ==
  /\ dst = "decode" /\ Fits(off + 1) /\ Endbr
  /\ off' = off + 4 /\ cur' = PcAt(off + 4)
  /\ Read(off + 4)
  /\ UNCHANGED <<img, entry, ops, dst>>

\* An opcode is there to be dispatched on.
Opcode(set) == /\ dst = "decode" /\ Fits(off + 1) /\ ~Endbr /\ Fits(Rest)
               /\ opcode \in set

RegRegOp ==
  CASE opcode = \h01 -> "ADD_RR" [] opcode = \h29 -> "SUB_RR" [] opcode = \h31 -> "XOR_RR"
    [] opcode = \h21 -> "AND_RR" [] opcode = \h09 -> "OR_RR"  [] opcode = \h85 -> "TEST_RR"
    [] opcode \in {\h39, \h3B} -> "CMP_RR" [] OTHER -> "MOV_RR"

\* MOV, ADD, SUB, XOR, AND, OR, CMP, TEST between registers, 64-bit only.  The
\* opcodes 8B and 3B have their operands the other way round.
RegReg ==
  LET m == decode_modrm(Rest)
      insn == [Ginsn EXCEPT !.op = RegRegOp,
                            !.rd = IF opcode \in {\h8B, \h3B} THEN m.reg ELSE m.rm,
                            !.rn = IF opcode \in {\h8B, \h3B} THEN m.rm ELSE m.reg]
  IN  /\ Opcode({\h89, \h8B, \h01, \h29, \h31, \h21, \h09, \h39, \h85, \h3B})
      /\ \/ m.rc # "OK" /\ Refuse(m.rc, m.next)
         \/ m.rc = "OK" /\ (m.mem \/ ~rexW) /\ Refuse("UNSUPPORTED", m.next)
         \/ m.rc = "OK" /\ ~m.mem /\ rexW /\ Emit(insn, m.next, FALSE)

Lea ==
  LET m == decode_modrm(Rest)
  IN  /\ Opcode({\h8D})
      /\ \/ m.rc # "OK" /\ Refuse(m.rc, m.next)
         \/ m.rc = "OK" /\ (~m.mem \/ ~rexW) /\ Refuse("UNSUPPORTED", m.next)
         \/ /\ m.rc = "OK" /\ m.mem /\ rexW
            /\ Emit([Ginsn EXCEPT !.op = "LEA", !.rd = m.reg, !.rn = m.rm, !.imm = m.disp],
                    m.next, FALSE)

\* MOV r/m, imm32 (C7 /0)
MovImm32 ==
  LET m == decode_modrm(Rest)
      good == m.rc = "OK" /\ ~m.mem /\ rexW /\ m.reg % 8 = 0
  IN  /\ Opcode({\hC7})
      /\ \/ m.rc # "OK" /\ Refuse(m.rc, m.next)
         \/ m.rc = "OK" /\ ~good /\ Refuse("UNSUPPORTED", m.next)
         \/ good /\ ~Fits(m.next + 4) /\ Refuse("FORMAT", m.next)
         \/ /\ good /\ Fits(m.next + 4)
            /\ Emit([Ginsn EXCEPT !.op = "MOV_RI", !.rd = m.rm, !.imm = sx32(m.next)],
                    m.next + 4, FALSE)

Group1Imm(i) == IF opcode = \h83 THEN sx8(i) ELSE sx32(i)

\* ADD, SUB, CMP r/m, imm8 or imm32 (83 and 81): the immediate is read before the
\* /digit is judged.
Group1 ==
  LET m == decode_modrm(Rest)
      good == m.rc = "OK" /\ ~m.mem /\ rexW
      end  == IF opcode = \h83 THEN m.next + 1 ELSE m.next + 4
      gop  == CASE m.reg % 8 = 0 -> {"ADD_RI"} [] m.reg % 8 = 5 -> {"SUB_RI"}
                [] m.reg % 8 = 7 -> {"CMP_RI"} [] OTHER -> {}
  IN  /\ Opcode({\h81, \h83})
      /\ \/ m.rc # "OK" /\ Refuse(m.rc, m.next)
         \/ m.rc = "OK" /\ ~good /\ Refuse("UNSUPPORTED", m.next)
         \/ good /\ ~Fits(end) /\ Refuse("FORMAT", m.next)
         \/ good /\ Fits(end) /\ gop = {} /\ Refuse("UNSUPPORTED", end)
         \/ /\ good /\ Fits(end)
            /\ \E g \in gop :
                 Emit([Ginsn EXCEPT !.op = g, !.rd = m.rm, !.imm = Group1Imm(m.next)], end, FALSE)

\* MOV r64, imm64 and MOV r32, imm32 (zero-extended)
MovImm ==
  LET end == IF rexW THEN Rest + 8 ELSE Rest + 4
  IN  /\ Opcode(\hB8..\hBF)
      /\ \/ ~Fits(end) /\ Refuse("FORMAT", Rest)
         \/ /\ Fits(end)
            /\ Emit([Ginsn EXCEPT !.op = "MOV_RI", !.rd = (opcode - \hB8) + 8 * rexB,
                                  !.imm = IF rexW THEN sx64(Rest) ELSE rd_u32(Rest)], end, FALSE)

Push == /\ Opcode(\h50..\h57)
        /\ Emit([Ginsn EXCEPT !.op = "PUSH", !.rd = (opcode - \h50) + 8 * rexB], Rest, FALSE)

Pop == /\ Opcode(\h58..\h5F)
       /\ Emit([Ginsn EXCEPT !.op = "POP", !.rd = (opcode - \h58) + 8 * rexB], Rest, FALSE)

Goto(rel, end) == (PcAt(end) + rel) % Word

\* CALL rel32; imm is the return address.
Call ==
  LET end == Rest + 4
  IN  /\ Opcode({\hE8})
      /\ \/ ~Fits(end) /\ Refuse("FORMAT", Rest)
         \/ /\ Fits(end)
            /\ Emit([Ginsn EXCEPT !.op = "CALL", !.target = Goto(sx32(Rest), end),
                                  !.imm = Signed(PcAt(end), Word)], end, TRUE)

\* A conditional branch whose displacement starts at i and ends before end.
Branch(t, rel, i, end) ==
  \/ ~Fits(end) /\ Refuse("FORMAT", i)
  \/ Fits(end) /\ x86cc_to_gcc(t) = {} /\ Refuse("UNSUPPORTED", end)
  \/ /\ Fits(end)
     /\ \E c \in x86cc_to_gcc(t) :
          Emit([Ginsn EXCEPT !.op = "BR", !.cc = c, !.target = Goto(rel, end)], end, TRUE)

Jcc8 == Opcode(\h70..\h7F) /\ Branch(opcode % 16, sx8(Rest), Rest, Rest + 1)

\* 0F 80..8F; every other two-byte opcode is refused.
TwoByte ==
  /\ Opcode({\h0F})
  /\ \/ ~Fits(Rest + 1) /\ Refuse("FORMAT", Rest)
     \/ Fits(Rest + 1) /\ At(Rest) \notin \h80..\h8F /\ Refuse("UNSUPPORTED", Rest + 1)
     \/ /\ Fits(Rest + 1) /\ At(Rest) \in \h80..\h8F
        /\ Branch(At(Rest) % 16, sx32(Rest + 1), Rest + 1, Rest + 5)

Jmp ==
  LET end == IF opcode = \hEB THEN Rest + 1 ELSE Rest + 4
      rel == IF opcode = \hEB THEN sx8(Rest) ELSE sx32(Rest)
  IN  /\ Opcode({\hEB, \hE9})
      /\ \/ ~Fits(end) /\ Refuse("FORMAT", Rest)
         \/ Fits(end) /\ Emit([Ginsn EXCEPT !.op = "JMP", !.target = Goto(rel, end)], end, TRUE)

Ret == Opcode({\hC3}) /\ Emit([Ginsn EXCEPT !.op = "X86RET"], Rest, TRUE)

Known == {\h89, \h8B, \h01, \h29, \h31, \h21, \h09, \h39, \h85, \h3B, \h8D, \hC7, \h81, \h83,
          \hE8, \h0F, \hEB, \hE9, \hC3}
           \cup (\hB8..\hBF) \cup (\h50..\h5F) \cup (\h70..\h7F)

Unknown == Opcode((0..255) \ Known) /\ Refuse("UNSUPPORTED", Rest)

Decode ==
  \/ Open \/ Truncated \/ SkipEndbr
  \/ RegReg \/ Lea \/ MovImm32 \/ Group1 \/ MovImm \/ Push \/ Pop
  \/ Call \/ Jcc8 \/ TwoByte \/ Jmp \/ Ret \/ Unknown

\* A call of oryx_x86_decode_block, on any bytes at any address.
DecoderInit ==
  /\ img \in [base : 0..(Word - 1), bytes : Seq(0..255)] /\ entry \in 0..(Word - 1)
  /\ off = 0 /\ cur = entry /\ ops = <<>> /\ dst = "start" /\ seen = 0

DecoderSpec == DecoderInit /\ [][Decode]_dvars

\* *len_out, set when the loop ends with ORYX_OK.
len_out == (cur - entry) % Half

(***************************************************************************)
(* However the image is cut and whatever its bytes, the decoder reads no   *)
(* byte behind its end and writes no op behind the buffer of cap ops:      *)
(* every access of the loop is covered by a bounds test made before it.    *)
(***************************************************************************)
InBounds == seen <= Size /\ Len(ops) <= Cap

=============================================================================

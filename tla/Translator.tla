----------------------------- MODULE Translator -----------------------------
(***************************************************************************)
(* oryx_translate_ex of src/liboryxtu/oryxtu.c: one basic block of guest   *)
(* IR becomes AArch64 code, relocations and exits; its key                 *)
(* (oryxtu.c, oryxcache.c), its stored form (oryx_tu_serialize,            *)
(* oryx_tu_parse) and the linker that makes it runnable                    *)
(* (oryx_exec_map_linked of src/liboryxrun/oryxrun.c).                     *)
(*                                                                         *)
(* A host instruction is a record of its mnemonic and fields: d, n, m are  *)
(* register numbers (31 reads as zero and discards what is written), imm   *)
(* is what its immediate field can hold.                                   *)
(***************************************************************************)
EXTENDS Words, Sequences

CONSTANT MaxBlock    \* ops a block may have, 2^20 in the code

ASSUME TranslatorAssumption == MaxBlock \in Nat

VARIABLES
  block,        \* ops, guest_pc, guest_len, profile_id, policy, strength
  at,           \* index of the op to translate next
  code,         \* instructions emitted
  relocs,       \* relocations: byte offset into the code, guest target
  exits,        \* successor guest PCs
  terminated,   \* has a terminator been translated?
  tst           \* "translate" inside the loop, else the return code

tvars == <<block, at, code, relocs, exits, terminated, tst>>

-----------------------------------------------------------------------------
(* Encoders *)

Rrr(i, d, n, m)   == [i |-> i, d |-> d, n |-> n, m |-> m, imm |-> 0]
Rri(i, d, n, imm) == [i |-> i, d |-> d, n |-> n, m |-> 31, imm |-> imm % (ImmMax + 1)]
Mov(i, d, v, hw)  == [i |-> i, d |-> d, n |-> hw, m |-> 31, imm |-> v % Lane]
Br(i, cond)       == [i |-> i, d |-> cond, n |-> 31, m |-> 31, imm |-> 0]

XZR == 31
ORYX_SCRATCH == 16
ORYX_NEXTPC == 17
enc_ret == Br("RET", 0)

arm_cond(cc) == CASE cc = "EQ" -> \h0 [] cc = "NE" -> \h1 [] cc = "GE" -> \hA
                  [] cc = "LT" -> \hB [] cc = "GT" -> \hC [] cc = "LE" -> \hD
                  [] OTHER -> \hE

\* CSINC Xd, XZR, XZR with the low bit of the condition flipped
enc_cset(d, cond) == Rri("CSINC", d, IF cond % 2 = 0 THEN cond + 1 ELSE cond - 1, 0)

enc_dmb(fence) == Br(CASE fence = "LD" -> "DMB_ISHLD" [] fence = "ST" -> "DMB_ISHST"
                       [] OTHER -> "DMB_ISH", 0)

LaneOf(v, hw) == CASE hw = 0 -> v % Lane
                   [] hw = 1 -> (v \div Lane) % Lane
                   [] hw = 2 -> (v \div Half) % Lane
                   [] OTHER  -> (v \div (Half * Lane)) % Lane

\* MOVZ and a MOVK for every further lane that is not zero
emit_movimm(reg, v) ==
  LET K(hw) == IF LaneOf(v, hw) = 0 THEN <<>> ELSE <<Mov("MOVK", reg, LaneOf(v, hw), hw)>>
  IN  <<Mov("MOVZ", reg, LaneOf(v, 0), 0)>> \o K(1) \o K(2) \o K(3)

-----------------------------------------------------------------------------
(* What is emitted for one op, in of block b *)

\* rd (or XZR) from rn + v: a short immediate either way, or a materialized one.
\* up and down name the immediate forms, reg the register form over v.
WithImmediate(up, down, reg, d, n, v) ==
  CASE v >= 0 /\ v <= ImmMax       -> <<Rri(up, d, n, v)>>
    [] v < 0 /\ v >= -ImmMax       -> <<Rri(down, d, n, -v)>>
    [] OTHER                       -> emit_movimm(ORYX_SCRATCH, v % Word)
                                        \o <<Rrr(reg, d, n, ORYX_SCRATCH)>>

\* Mutant: the mirrored test lets one value too many through.
MutCmpImm(in) ==
  CASE in.imm >= 0 /\ in.imm <= ImmMax      -> <<Rri("SUBS", XZR, in.rd, in.imm)>>
    [] in.imm < 0 /\ in.imm >= -ImmMax - 1  -> <<Rri("ADDS", XZR, in.rd, -in.imm)>>
    [] OTHER -> emit_movimm(ORYX_SCRATCH, in.imm % Word)
                  \o <<Rrr("SUBS_R", XZR, in.rd, ORYX_SCRATCH)>>

CmpImm(in) == WithImmediate("SUBS", "ADDS", "SUBS_R", XZR, in.rd, in.imm)

\* x86 LEA sets no flags.
LeaCode(in) == WithImmediate("ADD", "SUB", "ADD_R", in.rd, in.rn, in.imm)

AddImm(in) ==
  LET d == IF in.op = "ADD_RI" THEN in.imm ELSE -in.imm
  IN  WithImmediate("ADDS", "SUBS", "ADDS_R", in.rd, in.rd, d)

IsOrdered(b, in) == b.policy = "CONSERVATIVE" \/ in.mclass = "SHARED"
Scaled(b, in)    == ~IsOrdered(b, in) \/ b.strength = "TSO"

\* An ordinary load or store: with a scaled offset, or through a register.
MemoryOp(b, in) ==
  LET base  == IF in.imm # 0 THEN ORYX_SCRATCH ELSE in.rn
      index == in.imm \div Slot
      plain == <<Rri(IF in.op = "LOAD" THEN "LDR" ELSE "STR", in.rd, in.rn, index)>>
      acq   == IF b.strength = "RCPC" THEN "LDAPR" ELSE "LDAR"
  IN  CASE ~IsOrdered(b, in) -> plain
        [] IsOrdered(b, in) /\ b.strength = "TSO" ->
             IF in.op = "LOAD" THEN plain \o <<enc_dmb("LD")>> ELSE <<enc_dmb("ST")>> \o plain
        [] OTHER ->
             (IF in.imm # 0 THEN <<Rri("ADD", ORYX_SCRATCH, in.rn, in.imm)>> ELSE <<>>)
               \o <<Rri(IF in.op = "LOAD" THEN acq ELSE "STLR", in.rd, base, 0)>>

Enter(reg) == <<Rri("SUB", GR_RSP, GR_RSP, Slot), Rri("STR", reg, GR_RSP, 0)>>
Leave(reg) == <<Rri("LDR", reg, GR_RSP, 0), Rri("ADD", GR_RSP, GR_RSP, Slot)>>

Emitted(b, in) ==
  CASE in.op = "MOV_RR"  -> <<Rrr("ORR", in.rd, XZR, in.rn)>>
    [] in.op = "MOV_RI"  -> emit_movimm(in.rd, in.imm % Word)
    [] in.op = "ADD_RR"  -> <<Rrr("ADDS_R", in.rd, in.rd, in.rn)>>
    [] in.op = "SUB_RR"  -> <<Rrr("SUBS_R", in.rd, in.rd, in.rn)>>
    [] in.op = "CMP_RR"  -> <<Rrr("SUBS_R", XZR, in.rd, in.rn)>>
    [] in.op = "TEST_RR" -> <<Rrr("ANDS", XZR, in.rd, in.rn)>>
    [] in.op = "AND_RR"  -> <<Rrr("ANDS", in.rd, in.rd, in.rn)>>
    [] in.op = "XOR_RR"  -> <<Rrr("EOR", in.rd, in.rd, in.rn), Rrr("ANDS", XZR, in.rd, in.rd)>>
    [] in.op = "OR_RR"   -> <<Rrr("ORR", in.rd, in.rd, in.rn), Rrr("ANDS", XZR, in.rd, in.rd)>>
    [] in.op \in {"LOAD", "STORE"}    -> MemoryOp(b, in)
    [] in.op = "ATOMIC_ADD" -> <<Rrr("LDADDAL", XZR, in.rn, in.rd)>>
    [] in.op = "ATOMIC_CAS" -> <<Rrr("CASAL", in.rd, in.rn, GR_RAX)>>
    [] in.op = "FENCE"   -> <<enc_dmb(in.cc)>>
    [] in.op = "SETCC"   -> <<enc_cset(in.rd, arm_cond(in.cc))>>
    [] in.op = "LEA"     -> LeaCode(in)
    [] in.op \in {"ADD_RI", "SUB_RI"} -> AddImm(in)
    [] in.op = "CMP_RI"  -> CmpImm(in)
    [] in.op = "PUSH"    -> Enter(in.rd)
    [] in.op = "POP"     -> Leave(in.rd)
    [] in.op = "CALL"    -> emit_movimm(ORYX_SCRATCH, in.imm % Word) \o Enter(ORYX_SCRATCH)
                              \o <<Br("B", 0)>>
    [] in.op = "X86RET"  -> Leave(ORYX_NEXTPC) \o <<enc_ret>>
    [] in.op = "BR"      -> <<Br("B_COND", arm_cond(in.cc))>>
    [] in.op = "JMP"     -> <<Br("B", 0)>>
    [] in.op = "RET"     -> <<enc_ret>>

Branches == {"BR", "JMP", "CALL"}
Gop == {"MOV_RR", "MOV_RI", "ADD_RR", "SUB_RR", "CMP_RR", "TEST_RR", "AND_RR", "XOR_RR",
        "OR_RR", "LOAD", "STORE", "ATOMIC_ADD", "ATOMIC_CAS", "FENCE", "SETCC", "LEA",
        "ADD_RI", "SUB_RI", "CMP_RI", "PUSH", "POP", "CALL", "X86RET", "BR", "JMP", "RET"}
Terminator(op) == op \in Branches \cup {"X86RET", "RET"}

\* The tests of the loop body that end in FAIL(ORYX_ERR_INVAL).
Encodable(b, in) ==
  /\ in.op \in Gop
  /\ in.rd \in 0..(GR_COUNT - 1) /\ in.rn \in 0..(GR_COUNT - 1)
  /\ in.op \in {"LOAD", "STORE"} =>
       IF Scaled(b, in) THEN in.imm >= 0 /\ in.imm % Slot = 0 /\ in.imm \div Slot <= ImmMax
                     ELSE in.imm >= 0 /\ in.imm <= ImmMax

-----------------------------------------------------------------------------
(* The translation loop *)

Start ==
  /\ tst = "start"
  /\ tst' = IF Len(block.ops) \in 1..MaxBlock THEN "translate" ELSE "INVAL"
  /\ UNCHANGED <<block, at, code, relocs, exits, terminated>>

\* Mutant: the offset taken behind the branch instead of at it.
MutBranchSite(c) == 4 * Len(c)

\* Byte offset of the instruction emitted last, recorded before it is emitted.
BranchSite(c) == 4 * (Len(c) - 1)

TranslateOp ==
  LET in == block.ops[at]
      all == code \o Emitted(block, in)
  IN  /\ tst = "translate" /\ at <= Len(block.ops)
      /\ \/ /\ ~terminated /\ Encodable(block, in)
            /\ code' = all
            /\ relocs' = IF in.op \in Branches
                         THEN Append(relocs, [offset |-> BranchSite(all), target |-> in.target])
                         ELSE relocs
            /\ exits' = CASE in.op = "BR" -> exits \o <<in.target,
                                               (block.guest_pc + block.guest_len) % Word>>
                          [] in.op \in {"JMP", "CALL"} -> Append(exits, in.target)
                          [] OTHER -> exits
            /\ terminated' = (terminated \/ Terminator(in.op))
            /\ at' = at + 1
            /\ UNCHANGED <<block, tst>>
         \/ /\ terminated \/ ~Encodable(block, in)
            /\ tst' = "INVAL"
            /\ UNCHANGED <<block, at, code, relocs, exits, terminated>>
         \/ /\ tst' = "NOMEM"        \* a realloc failed
            /\ UNCHANGED <<block, at, code, relocs, exits, terminated>>

Finish ==
  /\ tst = "translate" /\ at > Len(block.ops)
  /\ tst' = IF terminated THEN "OK" ELSE "INVAL"
  /\ UNCHANGED <<block, at, code, relocs, exits, terminated>>

Translate == Start \/ TranslateOp \/ Finish

\* A call of oryx_translate_ex, with any ops.
TranslatorInit ==
  /\ block \in [ ops : Seq([op : STRING, rd : Int, rn : Int, imm : Int, target : Nat,
                            cc : STRING, mclass : STRING]),
                 guest_pc : 0..(Word - 1), guest_len : 0..(Half - 1), profile_id : Nat,
                 policy : {"DRF", "CONSERVATIVE"}, strength : {"SC", "RCPC", "TSO"} ]
  /\ at = 1 /\ code = <<>> /\ relocs = <<>> /\ exits = <<>>
  /\ terminated = FALSE /\ tst = "start"

TranslatorSpec == TranslatorInit /\ [][Translate]_tvars

-----------------------------------------------------------------------------
(* Identity of a unit.  SHA-256 is collision free here: a digest is its input. *)

\* Mutant: the memory class of an access is not hashed.
MutHashBlock(b) ==
  << b.guest_pc, b.policy, b.strength,
     [ j \in 1..Len(b.ops) |->
         LET o == b.ops[j] IN <<o.op, o.rd, o.rn, o.imm, o.target % Half, o.cc>> ] >>

\* Entry PC, policy, strength and every op; of the target the low 32 bits.
hash_block(b) ==
  << b.guest_pc, b.policy, b.strength,
     [ j \in 1..Len(b.ops) |->
         LET o == b.ops[j] IN <<o.op, o.rd, o.rn, o.imm, o.target % Half, o.cc, o.mclass>> ] >>

\* struct oryx_tu as oryx_translate_ex fills it in
Unit == [ guest_entry_pc |-> block.guest_pc, guest_len |-> block.guest_len,
          profile_id |-> block.profile_id, guest_hash |-> hash_block(block),
          code |-> code, relocs |-> relocs, exits |-> exits ]

\* isa_id, translator_id and translator_version are constants of this translator.
oryx_tu_logical_key(u) == <<u.guest_hash, u.profile_id>>

-----------------------------------------------------------------------------
(* The stored form: a header with the counts, then 32-bit cells *)

Put64(v, k) == IF k = 0 THEN v % Half ELSE v \div Half

\* Mutant: only the low word is read.
MutGet64(lo, hi) == lo

Get64(lo, hi) == lo + Half * hi

oryx_tu_serialize(u) ==
  [ header |-> [ guest_entry_pc |-> u.guest_entry_pc, guest_len |-> u.guest_len,
                 profile_id |-> u.profile_id, guest_hash |-> u.guest_hash,
                 code_len |-> 4 * Len(u.code), reloc_count |-> Len(u.relocs),
                 exit_count |-> Len(u.exits) ],
    cells |-> u.code
      \o [ k \in 1..(4 * Len(u.relocs)) |->
             LET r == u.relocs[((k - 1) \div 4) + 1]
                 f == (k - 1) % 4
             IN  CASE f = 0 -> r.offset [] f = 1 -> "BRANCH_GUEST_PC"
                   [] OTHER -> Put64(r.target, f - 2) ]
      \o [ k \in 1..(2 * Len(u.exits)) |-> Put64(u.exits[((k - 1) \div 2) + 1], (k - 1) % 2) ] ]

\* oryx_tu_parse of a buffer whose length is what its counts ask for.
oryx_tu_parse(b) ==
  LET h  == b.header
      c  == h.code_len \div 4
      r0 == c + 4 * h.reloc_count
  IN  [ guest_entry_pc |-> h.guest_entry_pc, guest_len |-> h.guest_len,
        profile_id |-> h.profile_id, guest_hash |-> h.guest_hash,
        code   |-> SubSeq(b.cells, 1, c),
        relocs |-> [ k \in 1..h.reloc_count |->
                       LET p == c + 4 * (k - 1)
                       IN  [offset |-> b.cells[p + 1],
                            target |-> Get64(b.cells[p + 3], b.cells[p + 4])] ],
        exits  |-> [ k \in 1..h.exit_count |->
                       LET p == r0 + 2 * (k - 1)
                       IN  Get64(b.cells[p + 1], b.cells[p + 2]) ] ]

-----------------------------------------------------------------------------
(* The linker *)

\* Does oryx_exec_map_linked take the unit?
Accepted(u) ==
  /\ u.code # <<>>
  /\ Len(u.relocs) <= 1
  /\ IF Len(u.relocs) = 1
     THEN u.relocs[1].offset + 4 = 4 * Len(u.code) /\ Len(u.exits) >= 1
     ELSE u.code[Len(u.code)] = enc_ret

\* Does oryx_exec_map, which links nothing, take it?
Straight(u) ==
  /\ u.code # <<>> /\ u.relocs = <<>>
  /\ u.code[Len(u.code)] = enc_ret

\* MOVZ and three MOVK into x17, RET: always five instructions.
emit_setpc_ret(pc) ==
  << Mov("MOVZ", ORYX_NEXTPC, LaneOf(pc, 0), 0), Mov("MOVK", ORYX_NEXTPC, LaneOf(pc, 1), 1),
     Mov("MOVK", ORYX_NEXTPC, LaneOf(pc, 2), 2), Mov("MOVK", ORYX_NEXTPC, LaneOf(pc, 3), 3),
     enc_ret >>

\* The branch at instruction site goes to instruction to.
patch_branch(c, site, to) == [c EXCEPT ![site].imm = to - site]

oryx_exec_map_linked(u) ==
  LET n == Len(u.code)
      site == (u.relocs[1].offset \div 4) + 1
  IN  CASE u.relocs = <<>> -> u.code
        [] u.relocs # <<>> /\ Len(u.exits) >= 2 ->
             patch_branch(u.code, site, n + 6)
               \o emit_setpc_ret(u.exits[2]) \o emit_setpc_ret(u.relocs[1].target)
        [] OTHER -> patch_branch(u.code, site, n + 1) \o emit_setpc_ret(u.relocs[1].target)

-----------------------------------------------------------------------------
(***************************************************************************)
(* The linker's "one terminator branch, at most" and "the branch must be   *)
(* the last insn" are promises of the translator: every unit it finishes   *)
(* passes all the tests of oryx_exec_map_linked.                           *)
(***************************************************************************)
Linkable == tst = "OK" => Accepted(Unit)

(***************************************************************************)
(* A stored unit is read back as it was translated: oryx_tu_parse finds    *)
(* code, relocations and exits, whatever their number, where               *)
(* oryx_tu_serialize has put them, each walking three sections of          *)
(* different strides by its own arithmetic.                                *)
(***************************************************************************)
ReadBack == tst = "OK" => oryx_tu_parse(oryx_tu_serialize(Unit)) = Unit

=============================================================================

-------------------------------- MODULE Words --------------------------------
(***************************************************************************)
(* Machine words and the guest IR record, shared by the decoder, the       *)
(* translator and the two machines.  Words are scaled: a byte of a number  *)
(* carries Radix values instead of 256, so the 8-bit, 32-bit and 64-bit    *)
(* ranges of the code are Radix, Radix^4 and Radix^8 here.                 *)
(***************************************************************************)
EXTENDS Integers

CONSTANTS
  Radix,      \* values of one byte of a number, 256 in the code
  ImmMax,     \* largest unsigned immediate of an A64 instruction, 0xFFF in the code
  Slot        \* bytes of a stack slot, 8 in the code

ASSUME WordsAssumption ==
  /\ Radix \in Nat /\ Radix > 1 /\ Radix % 2 = 0
  /\ Slot \in Nat \ {0} /\ ImmMax \in Nat /\ ImmMax >= Slot

Lane == Radix * Radix        \* 16 bits, what one MOVZ or MOVK carries
Half == Lane * Lane          \* uint32_t
Word == Half * Half          \* uint64_t

\* The signed reading of an unsigned number below range.
Signed(v, range) == IF 2 * v >= range THEN v - range ELSE v

\* struct oryx_ginsn, with the values an initializer leaves out.
Ginsn == [op |-> "NONE", rd |-> 0, rn |-> 0, imm |-> 0, target |-> 0,
          cc |-> "EQ", mclass |-> "LOCAL"]

GR_RAX == 0
GR_RSP == 4
GR_COUNT == 16

\* ORYX_HALT_PC
HALT == Word - 1

=============================================================================

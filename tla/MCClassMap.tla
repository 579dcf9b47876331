----------------------------- MODULE MCClassMap -----------------------------
(***************************************************************************)
(* A small instance of ClassMap: two modules, eight addresses.             *)
(***************************************************************************)
EXTENDS ClassMap, TLC

CONSTANTS ma, mb

Acc(i, kind) == [i |-> i, kind |-> kind]

\* The block at 6 has ids that wrap around the end of the address space; the ids
\* of the blocks at 1 and 2 overlap.
SmallBlocks ==
  { [pc |-> 1, accesses |-> <<Acc(0, "STACK"), Acc(2, "MEM"), Acc(3, "ATOMIC")>>],
    [pc |-> 2, accesses |-> <<Acc(0, "ATOMIC"), Acc(1, "STACK"), Acc(2, "STACK")>>],
    [pc |-> 6, accesses |-> <<Acc(0, "STACK"), Acc(1, "MEM"), Acc(2, "STACK")>>] }

ProvenHere == {<<ma, 3>>, <<ma, 5>>, <<mb, 4>>}

Local(pc)   == [guest_pc |-> pc, mclass |-> "LOCAL", guard_required |-> FALSE, escaped |-> FALSE]
Escaped(pc) == [Local(pc) EXCEPT !.escaped = TRUE]
Hint(pc)    == [Local(pc) EXCEPT !.guard_required = TRUE]
Shared(pc)  == [Local(pc) EXCEPT !.mclass = "SHARED"]
Unknown(pc) == [Local(pc) EXCEPT !.mclass = "UNKNOWN"]

\* Up to five entries; one with an entry twice, one out of order.
SmallForeign ==
  { <<>>, <<Local(3)>>, <<Local(4)>>,
    <<Shared(1), Escaped(2), Local(3), Hint(4), Local(5)>>,
    <<Local(3), Escaped(4), Local(5), Unknown(7)>>,
    <<Hint(0), Local(4), Shared(6)>>,
    <<Local(3), Shared(3)>>, <<Local(5), Local(3), Shared(1)>> }

=============================================================================

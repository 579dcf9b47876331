---------------------------- MODULE MCDispatcher ----------------------------
(***************************************************************************)
(* Small instances of Dispatcher.                                          *)
(***************************************************************************)
EXTENDS Dispatcher, TLC

CONSTANTS p1, p2, p3, p4

Blk(term, target, next, sets) ==
  [term |-> term, target |-> target, next |-> next, sets |-> sets]

Goto(t)     == Blk("JMP", t, HALT, FALSE)
Call(t)     == Blk("CALL", t, HALT, TRUE)
If(t, n)    == Blk("BR", t, n, TRUE)     \* sets the flags it branches on
Jcc(t, n)   == Blk("BR", t, n, FALSE)    \* branches on flags set before it
Return      == Blk("X86RET", HALT, HALT, TRUE)
Ret         == Blk("RET", HALT, HALT, FALSE)
Refused(t)  == Blk(t, HALT, HALT, FALSE)

Program(a, b, c, d) == (p1 :> a) @@ (p2 :> b) @@ (p3 :> c) @@ (p4 :> d)

\* Returns that may go anywhere; loops with exits; a call chain; programs that
\* reach a block that cannot be fetched or translated.
Flat   == Program(Return, Return, Return, Return)
Loops  == Program(If(p2, p3), If(p1, p4), Goto(p4), If(p1, HALT))
Calls  == Program(Call(p2), Call(p3), Return, Ret)
Broken == { Program(If(p2, p3), If(p4, p1), Goto(p1), Refused(t)) :
              t \in {"NONE", "EMPTY", "BAD"} }

OwnFlags == {Flat, Loops, Calls} \cup Broken

\* cmp; jmp p2.  p2: je p3.  The flags the second block tests come from the first.
JccApart == {Program([Goto(p2) EXCEPT !.sets = TRUE], Jcc(p3, p4), Ret, Ret)}

\* Rotating the table maps behaviours to behaviours: p1 hashes to slot 0.
AllHashes == { h \in [Pcs -> 0..(Slots - 1)] : h[p1] = 0 }

=============================================================================

----------------------------- MODULE MCLowering -----------------------------
(***************************************************************************)
(* Litmus tests for Lowering: every program of a given shape, not a list   *)
(* of named ones.                                                          *)
(***************************************************************************)
EXTENDS Lowering, TLC

CONSTANTS t1, t2, t3, t4, x, y, z

Shared(op, a) == [op |-> op, addr |-> a, mclass |-> "SHARED"]
Local(op, a)  == [op |-> op, addr |-> a, mclass |-> "LOCAL"]

Plain == { Shared(op, a) : op \in {"LOAD", "STORE"}, a \in {x, y} }
Fence == { Shared(f, x) : f \in Fences }
Stack == { Local(op, a) : op \in {"PUSH", "POP"}, a \in {x, y} }
Lock  == { Shared(op, z) : op \in {"ATOMIC_ADD", "ATOMIC_CAS"} }

Seqs2(A, B)    == { <<a, b>> : a \in A, b \in B }
Seqs3(A, B, C) == { <<a, b, c>> : a \in A, b \in B, c \in C }

\* x and y are interchangeable: the first access of the first thread is to x.
First(S) == { o \in S : o.addr = x }

\* Two threads run a and b, the others nothing.
Pair(a, b) == [t \in Threads |-> IF t = t1 THEN a ELSE IF t = t2 THEN b ELSE <<>>]

\* Two threads, two accesses each with anything or a fence in between: among them
\* MP, SB, LB, S, R and 2+2W, fenced and not, and all coherence tests.
TwoByThree ==
  LET T == Seqs2(First(Plain), Plain) \cup Seqs3(First(Plain), Fence \cup Plain, Plain)
  IN  { Pair(a, b) : a \in T, b \in Seqs2(Plain, Plain) }

\* A locked instruction between two accesses in both threads.
Locked2 ==
  { Pair(a, b) : a \in Seqs3(First(Plain), Lock, Plain), b \in Seqs3(Plain, Lock, Plain) }

\* The same with CMPXCHG only.
Swap2 == { p \in Locked2 : \A t \in Threads : \A i \in DOMAIN p[t] : p[t][i].op # "ATOMIC_ADD" }

\* Four threads: single stores against pairs, WRC and IRIW among them.  Renaming x
\* and y exchanges the first two threads.
FourThreads ==
  { (t1 :> <<a>>) @@ (t2 :> <<b>>) @@ (t3 :> c) @@ (t4 :> d) :
      a \in {Shared("STORE", x)}, b \in {Shared("STORE", y)},
      c \in Seqs2(First(Plain), Plain), d \in Seqs2(Plain, Plain) }

\* Thread-local accesses, each to an address of one thread, beside shared ones to
\* two addresses.
WithLocal ==
  LET Apart == { p \in Seqs2(Plain, Plain) : p[1].addr # p[2].addr }
  IN  { Pair(<<p[1], Local(k, z), p[2]>>, q) :
          p \in { r \in Apart : r[1] \in First(Plain) }, k \in {"LOAD", "STORE", "PUSH", "POP"}, q \in Apart }

\* A stack slot another thread looks at: PUSH and POP beside ordinary accesses.
SharedStack ==
  LET T == Seqs2(Plain \cup Stack, Plain \cup Stack)
  IN  { Pair(a, b) : a \in T, b \in T }

-----------------------------------------------------------------------------
Case(programs, policies, strengths) ==
  [prog : programs, policy : policies, strength : strengths]

Both == {"DRF", "CONSERVATIVE"}
All  == {"SC", "RCPC", "TSO"}

\* Shared accesses are lowered alike under both policies.
Ordinary ==
  UNION { Case(TwoByThree, {"DRF"}, All), Case(FourThreads, {"DRF"}, All),
          Case(WithLocal, Both, All), Case(Locked2, {"DRF"}, {"SC"}),
          Case(Swap2, {"DRF"}, {"RCPC"}) }

ASSUME OrdinaryDisciplined == \A c \in Ordinary : Disciplined(c)

LockedWeaker == Case(Locked2, {"DRF"}, {"RCPC", "TSO"})
StackShared  == Case(SharedStack, {"CONSERVATIVE"}, All)

=============================================================================

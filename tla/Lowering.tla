------------------------------ MODULE Lowering ------------------------------
(***************************************************************************)
(* The memory-model lowering of oryx_translate_ex (src/liboryxtu/oryxtu.c):*)
(* what becomes of the x86 memory operations of several guest threads once *)
(* they run as AArch64 code on a weakly ordered machine.                   *)
(*                                                                         *)
(* Data is abstract: a write is its own value, so memory holds the event   *)
(* that wrote it.  Addresses and values are constants of the program: no   *)
(* dependency orders anything, the barriers the translator emits do.  The  *)
(* AArch64 machine is external: accesses of a thread are performed one by  *)
(* one, in any order the architecture's barrier-ordered-before relation    *)
(* and per-location coherence allow, on one memory (ARMv8 is               *)
(* other-multi-copy-atomic), and a load may take its value from an earlier *)
(* store of its own thread that is not yet visible.                        *)
(***************************************************************************)
EXTENDS Naturals, Sequences, AArch64

CONSTANTS
  Threads,    \* guest threads
  Addrs,      \* guest addresses
  Cases,      \* what is translated: a guest program, a policy and a strength
  Start       \* the initial write of every address

MemOps == {"LOAD", "STORE", "ATOMIC_ADD", "ATOMIC_CAS", "PUSH", "POP"}
Fences == {"FENCE_FULL", "FENCE_LD", "FENCE_ST"}
Op == [ op : MemOps \cup Fences, addr : Addrs, mclass : {"LOCAL", "SHARED"} ]

ASSUME LoweringAssumption ==
  /\ \A c \in Cases : /\ c.prog \in [Threads -> Seq(Op)]
                      /\ c.policy \in {"DRF", "CONSERVATIVE"}
                      /\ c.strength \in {"SC", "RCPC", "TSO"}
  /\ Start \notin Threads \X Nat

VARIABLES
  prog,       \* the guest program: a sequence of ops per thread
  policy,     \* enum oryx_mm_policy
  strength,   \* enum oryx_order_strength
  done,       \* events performed: <<t, i>> is the i-th op of thread t
  mem,        \* mem[a]: the write a holds
  rf,         \* rf[e]: the write that read e took its value from
  co          \* co[a]: the writes of a in the order they reached memory

vars == <<prog, policy, strength, done, mem, rf, co>>

-----------------------------------------------------------------------------
(* The translator *)

\* Is an ordinary access ordered?
ordered(o) == policy = "CONSERVATIVE" \/ o.mclass = "SHARED"

\* Mutant: RCpc loads for every acquire/release strength.
MutOrderedLoad ==
  IF strength = "TSO" THEN <<"LDR", "DMB_ISHLD">> ELSE <<"LDAPR">>

OrderedLoad ==
  CASE strength = "TSO"  -> <<"LDR", "DMB_ISHLD">>
    [] strength = "RCPC" -> <<"LDAPR">>
    [] strength = "SC"   -> <<"LDAR">>

\* Mutant: RCPC takes its ordering from the loads alone.
MutOrderedStore ==
  CASE strength = "TSO"  -> <<"DMB_ISHST", "STR">>
    [] strength = "RCPC" -> <<"STR">>
    [] strength = "SC"   -> <<"STLR">>

OrderedStore == IF strength = "TSO" THEN <<"DMB_ISHST", "STR">> ELSE <<"STLR">>

\* The memory instructions and barriers emitted for one guest op.  The stack
\* accesses of CALL and X86RET are those of PUSH and POP.
Lower(o) ==
  CASE o.op = "LOAD" /\ ordered(o)  -> OrderedLoad
    [] o.op = "STORE" /\ ordered(o) -> OrderedStore
    [] o.op = "LOAD" /\ ~ordered(o)  -> <<"LDR">>
    [] o.op = "STORE" /\ ~ordered(o) -> <<"STR">>
    [] o.op = "PUSH"                -> <<"STR">>
    [] o.op = "POP"                 -> <<"LDR">>
    [] o.op = "ATOMIC_ADD"          -> <<"LDADDAL_XZR">>
    [] o.op = "ATOMIC_CAS"          -> <<"CASAL">>
    [] o.op = "FENCE_FULL"          -> <<"DMB_ISH">>
    [] o.op = "FENCE_LD"            -> <<"DMB_ISHLD">>
    [] o.op = "FENCE_ST"            -> <<"DMB_ISHST">>

-----------------------------------------------------------------------------
(* The AArch64 machine *)

Events == UNION { { <<t, i>> : i \in { j \in DOMAIN prog[t] : prog[t][j].op \in MemOps } } :
                  t \in Threads }

OpOf(e)   == prog[e[1]][e[2]]
AddrOf(e) == OpOf(e).addr
Insns(e)  == Lower(OpOf(e))
\* An op makes one access; the barriers of its lowering come before or after it.
AccessAt(e) == CHOOSE k \in DOMAIN Insns(e) : Insns(e)[k] \notin Barriers
Access(e)   == Insns(e)[AccessAt(e)]

\* The instructions between the accesses of a and b, a before b in one thread.
Between(a, b) ==
  LET t == a[1]
      Ops(m) == Lower(prog[t][m])
      Inside(m, k) == (m = a[2] => k > AccessAt(a)) /\ (m = b[2] => k < AccessAt(b))
  IN  UNION { { Ops(m)[k] : k \in { j \in DOMAIN Ops(m) : Inside(m, j) } } : m \in a[2]..b[2] }

\* Must a be performed before b?  `writes': does b, if it is a CASAL, store?
OrderedBefore(a, b, writes) ==
  MustPrecede(Access(a), Access(b), Between(a, b), AddrOf(a) = AddrOf(b), writes)

Earlier(e) == { d \in Events : d[1] = e[1] /\ d[2] < e[2] }

Ready(e, writes) ==
  /\ e \in Events \ done
  /\ \A d \in Earlier(e) \ done : ~OrderedBefore(d, e, writes)

\* The write a load of e's thread sees: its own latest pending one, or memory's.
Visible(e) ==
  LET own == { d \in Earlier(e) \ done : AddrOf(d) = AddrOf(e) }
  IN  IF own = {} THEN mem[AddrOf(e)] ELSE CHOOSE d \in own : \A c \in own : c[2] <= d[2]

Init ==
  /\ \E c \in Cases : prog = c.prog /\ policy = c.policy /\ strength = c.strength
  /\ done = {}
  /\ mem = [a \in Addrs |-> Start]
  /\ rf = [e \in {} |-> Start]
  /\ co = [a \in Addrs |-> <<>>]

ReadFrom(e, w) == rf' = [d \in DOMAIN rf \cup {e} |-> IF d = e THEN w ELSE rf[d]]

WriteMem(e) ==
  /\ mem' = [mem EXCEPT ![AddrOf(e)] = e]
  /\ co' = [co EXCEPT ![AddrOf(e)] = Append(@, e)]

Load(e) ==
  /\ Ready(e, FALSE) /\ Loads(Access(e)) /\ Access(e) # "LDADDAL_XZR"
  /\ ReadFrom(e, Visible(e))                       \* a CASAL that fails, too
  /\ done' = done \cup {e}
  /\ UNCHANGED <<prog, policy, strength, mem, co>>

Store(e) ==
  /\ Ready(e, TRUE) /\ ~Loads(Access(e))
  /\ WriteMem(e)
  /\ done' = done \cup {e}
  /\ UNCHANGED <<prog, policy, strength, rf>>

\* LDADDAL, and a CASAL that succeeds: load and store in one step.
Rmw(e) ==
  /\ Ready(e, TRUE) /\ Loads(Access(e)) /\ Stores(Access(e))
  /\ ReadFrom(e, mem[AddrOf(e)])
  /\ WriteMem(e)
  /\ done' = done \cup {e}
  /\ UNCHANGED <<prog, policy, strength>>

Next == \E e \in Events : Load(e) \/ Store(e) \/ Rmw(e)

Spec == Init /\ [][Next]_vars

-----------------------------------------------------------------------------
(* x86-TSO, as acyclicity of what every thread must agree on *)

Reads   == DOMAIN rf
Written == UNION { { co[a][n] : n \in DOMAIN co[a] } : a \in Addrs }
Locked(e) == OpOf(e).op \in {"ATOMIC_ADD", "ATOMIC_CAS"}

Po(a, b) == a[1] = b[1] /\ a[2] < b[2]

\* a's value is older than b's at their common address.
CoBefore(a, b) ==
  /\ b \in Written
  /\ \/ a = Start
     \/ /\ a \in Written /\ AddrOf(a) = AddrOf(b)
        /\ LET c == co[AddrOf(a)]
           IN  \E m, n \in DOMAIN c : m < n /\ c[m] = a /\ c[n] = b

Rf(a, b)  == b \in Reads /\ rf[b] = a
Rfe(a, b) == Rf(a, b) /\ a[1] # b[1]
Fr(a, b)  == /\ a \in Reads /\ b \in Written /\ a # b
             /\ AddrOf(a) = AddrOf(b) /\ CoBefore(rf[a], b)

\* Program order that TSO keeps: all but a store before a later load, and that
\* too across an MFENCE or a locked instruction.
Kept(a, b) ==
  /\ Po(a, b)
  /\ \/ a \in Reads
     \/ b \notin Reads
     \/ Locked(a) \/ Locked(b)
     \/ \E m \in a[2]..b[2] : prog[a[1]][m].op \in {"FENCE_FULL", "ATOMIC_ADD", "ATOMIC_CAS"}

\* A relation on finitely many events is acyclic when every set of them has one
\* without a successor in it.
Acyclic(R(_, _)) == \A S \in (SUBSET done) \ {{}} : \E a \in S : \A b \in S : ~R(a, b)

Co(a, b) == a \in Written /\ CoBefore(a, b)
Coherence(a, b) ==
  (Po(a, b) /\ AddrOf(a) = AddrOf(b)) \/ Rf(a, b) \/ Fr(a, b) \/ Co(a, b)
GlobalOrder(a, b) == Kept(a, b) \/ Rfe(a, b) \/ Fr(a, b) \/ Co(a, b)

Finished == done = Events

\* What is asked of the guest and of its classification: an access that is left plain
\* is to an address no other thread accesses, and the strength is one that the locked
\* instructions of the program are correct with.
Disciplined(c) ==
  \A t \in Threads : \A i \in DOMAIN c.prog[t] :
    LET o == c.prog[t][i]
        plain == \/ o.op \in {"PUSH", "POP"}
                 \/ o.op \in {"LOAD", "STORE"} /\ c.policy = "DRF" /\ o.mclass = "LOCAL"
    IN  /\ o.op = "ATOMIC_ADD" => c.strength = "SC"
        /\ o.op = "ATOMIC_CAS" => c.strength \in {"SC", "RCPC"}
        /\ plain => \A u \in Threads \ {t} : \A j \in DOMAIN c.prog[u] :
                      c.prog[u][j].op \in MemOps => c.prog[u][j].addr # o.addr

(***************************************************************************)
(* The lowering is correct: whatever order the weak machine performs the   *)
(* emitted accesses in, each complete execution is one that x86-TSO allows *)
(* of the guest program ("three correct choices", oryxtu.h).               *)
(***************************************************************************)
TSOConsistent == Finished => Acyclic(Coherence) /\ Acyclic(GlobalOrder)

(***************************************************************************)
(* The SC strength is "STRONGER than TSO (also forbids W->R)" (oryxtu.h):  *)
(* with LDAR/STLR alone no thread's load overtakes its own earlier store.  *)
(***************************************************************************)
ProgramOrder(a, b) == Po(a, b) \/ Rfe(a, b) \/ Fr(a, b) \/ Co(a, b)
SequentiallyConsistent == (Finished /\ strength = "SC") => Acyclic(ProgramOrder)

=============================================================================

--------------------------- MODULE LoweringProofs ---------------------------
(***************************************************************************)
(* The memory-model lowering of oryx_translate_ex is correct for every     *)
(* disciplined guest program: any number of threads, addresses and         *)
(* accesses.  Two arguments carry the proof.  In the order in which the    *)
(* machine performs ordered accesses, everything x86-TSO wants ordered     *)
(* points forward.  And each location is coherent, plain accesses and      *)
(* store forwarding included, so plain accesses to private addresses only  *)
(* add edges along program order, which bypass them.                       *)
(***************************************************************************)
EXTENDS Lowering, WellFoundedInduction, TLAPS

Case == [prog |-> prog, policy |-> policy, strength |-> strength]

\* What the op of an event does, whether or not it has been performed.
Reading(e) == OpOf(e).op \in {"LOAD", "POP", "ATOMIC_ADD", "ATOMIC_CAS"}
Storing(e) == OpOf(e).op \in {"STORE", "PUSH"}

\* Accesses the translator leaves plain.
Plain(e) == \/ OpOf(e).op \in {"PUSH", "POP"}
            \/ OpOf(e).op \in {"LOAD", "STORE"} /\ ~ordered(OpOf(e))

\* The age of two writes to one location, the performed ones and those that are only
\* seen by their own thread.
Pending(w) == w # Start /\ w \notin Written
Older(w, v) ==
  \/ w = Start /\ v # Start
  \/ w \in Written /\ (CoBefore(w, v) \/ Pending(v))
  \/ Pending(w) /\ Pending(v) /\ Po(w, v)
NotYounger(w, v) == w = v \/ Older(w, v)

-----------------------------------------------------------------------------
(* The inductive invariant *)

Program ==
  /\ prog \in [Threads -> Seq(Op)]
  /\ policy \in {"DRF", "CONSERVATIVE"} /\ strength \in {"SC", "RCPC", "TSO"}
  /\ Disciplined(Case)

\* What has been performed has been recorded.
Recorded ==
  /\ done \subseteq Events
  /\ DOMAIN mem = Addrs /\ DOMAIN co = Addrs
  /\ Reads \subseteq done /\ \A e \in done : e \in Reads <=> Reading(e)
  /\ \A e \in done : Storing(e) => e \in Written
  /\ \A a \in Addrs : co[a] \in Seq({ e \in done : AddrOf(e) = a })
  /\ \A e \in Written : Storing(e) \/ Locked(e)
  /\ \A a \in Addrs : \A m, n \in DOMAIN co[a] : co[a][m] = co[a][n] => m = n

\* Memory holds the youngest write.
Youngest ==
  \A a \in Addrs : mem[a] = IF co[a] = <<>> THEN Start ELSE co[a][Len(co[a])]

\* A value comes from memory or from an own store that is not yet performed.
Sources ==
  \A r \in Reads :
    \/ rf[r] = Start
    \/ rf[r] \in Written /\ AddrOf(rf[r]) = AddrOf(r)
    \/ /\ rf[r] \in Events \ done /\ AddrOf(rf[r]) = AddrOf(r)
       /\ Storing(rf[r]) /\ Po(rf[r], r)

\* What had to be performed before was.
Closed ==
  \A b \in done : \A a \in Earlier(b) : OrderedBefore(a, b, b \in Written) => a \in done

\* Program order on one location, by the ages of what is written and read.
Coherent ==
  /\ \A a \in Written, b \in Written : Po(a, b) /\ AddrOf(a) = AddrOf(b) => CoBefore(a, b)
  /\ \A a \in Events, b \in Reads :
       (a \in Written \/ Storing(a)) /\ Po(a, b) /\ AddrOf(a) = AddrOf(b) => NotYounger(a, rf[b])
  /\ \A a \in Reads, b \in Written : Po(a, b) /\ AddrOf(a) = AddrOf(b) => Older(rf[a], b)
  /\ \A a \in Reads, b \in Reads :
       Po(a, b) /\ AddrOf(a) = AddrOf(b) => NotYounger(rf[a], rf[b])

\* An atomic writes directly behind what it read.
Atomic ==
  \A e \in Reads \cap Written : \E n \in DOMAIN co[AddrOf(e)] :
    /\ co[AddrOf(e)][n] = e
    /\ rf[e] = IF n = 1 THEN Start ELSE co[AddrOf(e)][n - 1]

\* The ordered accesses do not go round.
ForwardTso ==
  \A S \in (SUBSET { e \in done : ~Plain(e) }) \ {{}} :
    \E a \in S : \A b \in S : ~GlobalOrder(a, b)
ForwardSc ==
  \A S \in (SUBSET { e \in done : ~Plain(e) }) \ {{}} :
    \E a \in S : \A b \in S : ~ProgramOrder(a, b)

IInv ==
  /\ Program /\ Recorded /\ Youngest /\ Sources /\ Closed /\ Coherent /\ Atomic
  /\ ForwardTso
  /\ strength = "SC" => ForwardSc

-----------------------------------------------------------------------------
(* A bounded set of numbers has a greatest one *)

LEMMA Greatest ==
  ASSUME NEW n \in Nat, NEW T, T \subseteq 0..n, T # {}
  PROVE  \E x \in T : \A y \in T : y <= x
  <1> DEFINE R == OpToRel(<, Nat)
  <1>1. IsWellFoundedOn(R, Nat)
    BY NatLessThanWellFounded
  <1>2. \A u, v \in Nat : <<u, v>> \in R <=> u < v
    BY DEF OpToRel
  <1> HIDE DEF R
  <1> DEFINE U == { n - x : x \in T }
  <1>3. U \subseteq Nat /\ U # {}
    <2>1. \A x \in T : n - x \in Nat
      OBVIOUS
    <2>2. U \subseteq Nat
      BY <2>1
    <2>3. PICK x : x \in T
      OBVIOUS
    <2>4. n - x \in U
      BY <2>3
    <2>5. QED
      BY <2>2, <2>4
  <1>4. PICK u \in U : \A v \in U : <<v, u>> \notin R
    BY <1>1, <1>3, WFMin
  <1>5. PICK x \in T : u = n - x
    OBVIOUS
  <1>6. ASSUME NEW y \in T
        PROVE  y <= x
    <2>1. n - y \in U /\ n - y \in Nat /\ u \in Nat
      BY <1>3
    <2>2. ~(n - y < u)
      BY <1>2, <1>4, <2>1
    <2>3. QED
      BY <1>5, <2>1, <2>2
  <1>7. QED
    BY <1>6

-----------------------------------------------------------------------------
(* What the translator emits *)

LEMMA EventShape ==
  ASSUME Program
  PROVE  /\ \A e \in Events :
              /\ e = <<e[1], e[2]>> /\ e[1] \in Threads /\ e[2] \in Nat
              /\ prog[e[1]] \in Seq(Op) /\ e[2] \in DOMAIN prog[e[1]]
              /\ OpOf(e) \in Op /\ OpOf(e).op \in MemOps /\ AddrOf(e) \in Addrs
              /\ e # Start
         /\ \A t \in Threads : \A i \in DOMAIN prog[t] :
              prog[t][i].op \in MemOps => <<t, i>> \in Events
  <1>1. \A t \in Threads : prog[t] \in Seq(Op)
    BY DEF Program
  <1>2. ASSUME NEW e \in Events
        PROVE  /\ e = <<e[1], e[2]>> /\ e[1] \in Threads /\ e[2] \in Nat
               /\ prog[e[1]] \in Seq(Op) /\ e[2] \in DOMAIN prog[e[1]]
               /\ OpOf(e) \in Op /\ OpOf(e).op \in MemOps /\ AddrOf(e) \in Addrs
               /\ e # Start
    <2>1. PICK t \in Threads : \E i \in DOMAIN prog[t] : prog[t][i].op \in MemOps /\ e = <<t, i>>
      BY DEF Events
    <2>2. PICK i \in DOMAIN prog[t] : prog[t][i].op \in MemOps /\ e = <<t, i>>
      BY <2>1
    <2>3. prog[t] \in Seq(Op) /\ i \in Nat /\ prog[t][i] \in Op
      BY <1>1
    <2>4. e = <<e[1], e[2]>> /\ e[1] = t /\ e[2] = i
      BY <2>2
    <2>5. OpOf(e) = prog[t][i]
      BY <2>4 DEF OpOf
    <2>6. AddrOf(e) \in Addrs
      BY <2>3, <2>5 DEF AddrOf, Op
    <2>7. e # Start
      BY <2>2, <2>3, LoweringAssumption
    <2>8. QED
      BY <2>2, <2>3, <2>4, <2>5, <2>6, <2>7
  <1>3. QED
    BY <1>2 DEF Events

\* A lowering with one access: which of its instructions it is.
LEMMA SoleAccess ==
  ASSUME NEW e, NEW k \in DOMAIN Insns(e), Insns(e)[k] \notin Barriers,
         \A j \in DOMAIN Insns(e) : Insns(e)[j] \notin Barriers => j = k
  PROVE  AccessAt(e) = k /\ Access(e) = Insns(e)[k]
  BY DEF AccessAt, Access

LEMMA Single ==
  ASSUME NEW e, NEW x, x \notin Barriers, Insns(e) = <<x>>
  PROVE  AccessAt(e) = 1 /\ Access(e) = x
  <1>1. 1 \in DOMAIN Insns(e) /\ Insns(e)[1] = x /\ \A j \in DOMAIN Insns(e) : j = 1
    OBVIOUS
  <1>2. QED
    BY <1>1, SoleAccess

LEMMA LoadLowered ==
  ASSUME Program, NEW e \in Events, OpOf(e).op = "LOAD"
  PROVE  \/ Plain(e) /\ Access(e) = "LDR"
         \/ ~Plain(e) /\ strength = "SC" /\ Access(e) = "LDAR"
         \/ ~Plain(e) /\ strength = "RCPC" /\ Access(e) = "LDAPR"
         \/ /\ ~Plain(e) /\ strength = "TSO" /\ Access(e) = "LDR"
            /\ Insns(e) = <<"LDR", "DMB_ISHLD">> /\ AccessAt(e) = 1
  <1>1. "LDR" \notin Barriers /\ "LDAR" \notin Barriers /\ "LDAPR" \notin Barriers
    BY DEF Barriers
  <1>2. Plain(e) <=> ~ordered(OpOf(e))
    BY DEF Plain
  <1>3. strength \in {"SC", "RCPC", "TSO"}
    BY DEF Program
  <1>4. CASE ~ordered(OpOf(e))
    <2>1. Insns(e) = <<"LDR">>
      BY <1>4, Zenon DEF Insns, Lower
    <2>2. QED
      BY <1>1, <1>2, <1>4, <2>1, Single
  <1>5. CASE ordered(OpOf(e))
    <2>1. Insns(e) = OrderedLoad
      BY <1>5, Zenon DEF Insns, Lower
    <2>2. CASE strength = "SC"
      <3>1. OrderedLoad = <<"LDAR">>
        BY <2>2, Zenon DEF OrderedLoad
      <3>2. QED
        BY <1>1, <1>2, <1>5, <2>1, <2>2, <3>1, Single
    <2>3. CASE strength = "RCPC"
      <3>1. OrderedLoad = <<"LDAPR">>
        BY <2>3, Zenon DEF OrderedLoad
      <3>2. QED
        BY <1>1, <1>2, <1>5, <2>1, <2>3, <3>1, Single
    <2>4. CASE strength = "TSO"
      <3>1. OrderedLoad = <<"LDR", "DMB_ISHLD">>
        BY <2>4, Zenon DEF OrderedLoad
      <3>2. /\ 1 \in DOMAIN Insns(e) /\ Insns(e)[1] = "LDR" /\ Insns(e)[2] = "DMB_ISHLD"
            /\ \A j \in DOMAIN Insns(e) : j = 1 \/ j = 2
        BY <2>1, <3>1
      <3>3. "DMB_ISHLD" \in Barriers
        BY DEF Barriers
      <3>4. AccessAt(e) = 1 /\ Access(e) = "LDR"
        BY <1>1, <3>2, <3>3, SoleAccess
      <3>5. QED
        BY <1>2, <1>5, <2>1, <2>4, <3>1, <3>4
    <2>5. QED
      BY <1>3, <2>2, <2>3, <2>4
  <1>6. QED
    BY <1>4, <1>5

LEMMA StoreLowered ==
  ASSUME Program, NEW e \in Events, OpOf(e).op = "STORE"
  PROVE  \/ Plain(e) /\ Access(e) = "STR"
         \/ ~Plain(e) /\ strength \in {"SC", "RCPC"} /\ Access(e) = "STLR"
         \/ /\ ~Plain(e) /\ strength = "TSO" /\ Access(e) = "STR"
            /\ Insns(e) = <<"DMB_ISHST", "STR">> /\ AccessAt(e) = 2
  <1>1. "STR" \notin Barriers /\ "STLR" \notin Barriers /\ "DMB_ISHST" \in Barriers
    BY DEF Barriers
  <1>2. Plain(e) <=> ~ordered(OpOf(e))
    BY DEF Plain
  <1>3. strength \in {"SC", "RCPC", "TSO"}
    BY DEF Program
  <1>4. CASE ~ordered(OpOf(e))
    <2>1. Insns(e) = <<"STR">>
      BY <1>4, Zenon DEF Insns, Lower
    <2>2. QED
      BY <1>1, <1>2, <1>4, <2>1, Single
  <1>5. CASE ordered(OpOf(e))
    <2>1. Insns(e) = OrderedStore
      BY <1>5, Zenon DEF Insns, Lower
    <2>2. CASE strength # "TSO"
      <3>1. OrderedStore = <<"STLR">>
        BY <2>2 DEF OrderedStore
      <3>2. QED
        BY <1>1, <1>2, <1>3, <1>5, <2>1, <2>2, <3>1, Single
    <2>3. CASE strength = "TSO"
      <3>1. OrderedStore = <<"DMB_ISHST", "STR">>
        BY <2>3 DEF OrderedStore
      <3>2. /\ 2 \in DOMAIN Insns(e) /\ Insns(e)[1] = "DMB_ISHST" /\ Insns(e)[2] = "STR"
            /\ \A j \in DOMAIN Insns(e) : j = 1 \/ j = 2
        BY <2>1, <3>1
      <3>3. AccessAt(e) = 2 /\ Access(e) = "STR"
        BY <1>1, <3>2, SoleAccess
      <3>4. QED
        BY <1>2, <1>5, <2>1, <2>3, <3>1, <3>3
    <2>4. QED
      BY <2>2, <2>3
  <1>6. QED
    BY <1>4, <1>5

LEMMA OtherLowered ==
  ASSUME Program, NEW e \in Events
  PROVE  /\ OpOf(e).op = "PUSH" => Plain(e) /\ Access(e) = "STR"
         /\ OpOf(e).op = "POP" => Plain(e) /\ Access(e) = "LDR"
         /\ OpOf(e).op = "ATOMIC_ADD" => ~Plain(e) /\ Access(e) = "LDADDAL_XZR"
         /\ OpOf(e).op = "ATOMIC_CAS" => ~Plain(e) /\ Access(e) = "CASAL"
  <1>1. "STR" \notin Barriers /\ "LDR" \notin Barriers /\ "LDADDAL_XZR" \notin Barriers
        /\ "CASAL" \notin Barriers
    BY DEF Barriers
  <1>2. CASE OpOf(e).op = "PUSH"
    <2>1. Insns(e) = <<"STR">>
      BY <1>2, Zenon DEF Insns, Lower
    <2>2. QED
      BY <1>1, <1>2, <2>1, Single DEF Plain
  <1>3. CASE OpOf(e).op = "POP"
    <2>1. Insns(e) = <<"LDR">>
      BY <1>3, Zenon DEF Insns, Lower
    <2>2. QED
      BY <1>1, <1>3, <2>1, Single DEF Plain
  <1>4. CASE OpOf(e).op = "ATOMIC_ADD"
    <2>1. Insns(e) = <<"LDADDAL_XZR">>
      BY <1>4, Zenon DEF Insns, Lower
    <2>2. QED
      BY <1>1, <1>4, <2>1, Single DEF Plain
  <1>5. CASE OpOf(e).op = "ATOMIC_CAS"
    <2>1. Insns(e) = <<"CASAL">>
      BY <1>5, Zenon DEF Insns, Lower
    <2>2. QED
      BY <1>1, <1>5, <2>1, Single DEF Plain
  <1>6. QED
    BY <1>2, <1>3, <1>4, <1>5

\* What an access does is what its op says.
LEMMA AccessKind ==
  ASSUME Program, NEW e \in Events
  PROVE  /\ Loads(Access(e)) <=> Reading(e)
         /\ Stores(Access(e)) <=> Storing(e) \/ Locked(e)
         /\ Reading(e) \/ Storing(e)
         /\ Locked(e) => Reading(e) /\ ~Storing(e)
         /\ Reading(e) /\ ~Locked(e) => ~Storing(e)
         /\ Access(e) = "LDADDAL_XZR" <=> OpOf(e).op = "ATOMIC_ADD"
         /\ Access(e) = "CASAL" <=> OpOf(e).op = "ATOMIC_CAS"
  <1>1. OpOf(e).op \in {"LOAD", "STORE", "ATOMIC_ADD", "ATOMIC_CAS", "PUSH", "POP"}
    BY EventShape DEF MemOps
  <1>2. CASE OpOf(e).op = "LOAD"
    <2>1. Access(e) \in {"LDR", "LDAR", "LDAPR"}
      BY <1>2, LoadLowered
    <2>2. QED
      BY <1>2, <2>1 DEF Loads, Stores, Reading, Storing, Locked
  <1>3. CASE OpOf(e).op = "STORE"
    <2>1. Access(e) \in {"STR", "STLR"}
      BY <1>3, StoreLowered
    <2>2. QED
      BY <1>3, <2>1 DEF Loads, Stores, Reading, Storing, Locked
  <1>4. CASE OpOf(e).op \in {"ATOMIC_ADD", "ATOMIC_CAS", "PUSH", "POP"}
    BY <1>4, OtherLowered DEF Loads, Stores, Reading, Storing, Locked
  <1>5. QED
    BY <1>1, <1>2, <1>3, <1>4

\* Accesses to one location stay in order, but for a load that overtakes a store.
LEMMA SameAddress ==
  ASSUME Program, NEW a \in Events, NEW b \in Events, NEW w \in BOOLEAN,
         AddrOf(a) = AddrOf(b), Reading(a) \/ Storing(b) \/ Locked(b)
  PROVE  OrderedBefore(a, b, w)
  <1>1. Loads(Access(a)) \/ Stores(Access(b))
    BY AccessKind
  <1>2. QED
    BY <1>1 DEF OrderedBefore, MustPrecede

LEMMA BarrierBetween ==
  ASSUME Program, NEW a \in Events, NEW b \in Events, Po(a, b),
         NEW m \in a[2]..b[2], NEW k \in DOMAIN Lower(prog[a[1]][m]),
         m = a[2] => k > AccessAt(a), m = b[2] => k < AccessAt(b)
  PROVE  Lower(prog[a[1]][m])[k] \in Between(a, b)
  BY DEF Between

\* A full fence.
LEMMA FenceOrders ==
  ASSUME Program, NEW a \in Events, NEW b \in Events, Po(a, b), NEW w \in BOOLEAN,
         NEW m \in a[2]..b[2], prog[a[1]][m].op = "FENCE_FULL"
  PROVE  OrderedBefore(a, b, w)
  <1>1. m # a[2] /\ m # b[2]
    <2>1. OpOf(a).op \in MemOps /\ OpOf(b).op \in MemOps /\ a[1] = b[1]
      BY EventShape DEF Po
    <2>2. OpOf(a) = prog[a[1]][a[2]] /\ OpOf(b) = prog[a[1]][b[2]]
      BY <2>1 DEF OpOf
    <2>3. "FENCE_FULL" \notin MemOps
      BY DEF MemOps
    <2>4. QED
      BY <2>1, <2>2, <2>3
  <1>2. Lower(prog[a[1]][m]) = <<"DMB_ISH">>
    BY Zenon DEF Lower
  <1>3. 1 \in DOMAIN Lower(prog[a[1]][m]) /\ Lower(prog[a[1]][m])[1] = "DMB_ISH"
    BY <1>2
  <1>4. "DMB_ISH" \in Between(a, b)
    BY <1>1, <1>3, BarrierBetween
  <1>5. QED
    BY <1>4 DEF OrderedBefore, MustPrecede

\* The barriers that the TSO strength puts behind a load and in front of a store.
LEMMA TsoBarriers ==
  ASSUME Program, NEW a \in Events, NEW b \in Events, Po(a, b), strength = "TSO"
  PROVE  /\ OpOf(a).op = "LOAD" /\ ~Plain(a) => "DMB_ISHLD" \in Between(a, b)
         /\ OpOf(b).op = "STORE" /\ ~Plain(b) => "DMB_ISHST" \in Between(a, b)
  <1>1. /\ a[1] = b[1] /\ a[2] < b[2] /\ a[2] \in Nat /\ b[2] \in Nat
        /\ a[2] \in a[2]..b[2] /\ b[2] \in a[2]..b[2]
    BY EventShape DEF Po
  <1>2. Insns(a) = Lower(prog[a[1]][a[2]]) /\ Insns(b) = Lower(prog[a[1]][b[2]])
    BY <1>1 DEF Insns, OpOf
  <1>3. ASSUME OpOf(a).op = "LOAD", ~Plain(a)
        PROVE  "DMB_ISHLD" \in Between(a, b)
    <2>1. Insns(a) = <<"LDR", "DMB_ISHLD">> /\ AccessAt(a) = 1
      BY <1>3, LoadLowered
    <2>2. 2 \in DOMAIN Lower(prog[a[1]][a[2]]) /\ Lower(prog[a[1]][a[2]])[2] = "DMB_ISHLD"
      BY <1>2, <2>1
    <2>3. 2 > AccessAt(a) /\ a[2] # b[2]
      BY <1>1, <2>1
    <2>4. QED
      BY <1>1, <2>2, <2>3, BarrierBetween
  <1>4. ASSUME OpOf(b).op = "STORE", ~Plain(b)
        PROVE  "DMB_ISHST" \in Between(a, b)
    <2>1. Insns(b) = <<"DMB_ISHST", "STR">> /\ AccessAt(b) = 2
      BY <1>4, StoreLowered
    <2>2. 1 \in DOMAIN Lower(prog[a[1]][b[2]]) /\ Lower(prog[a[1]][b[2]])[1] = "DMB_ISHST"
      BY <1>2, <2>1
    <2>3. 1 < AccessAt(b) /\ a[2] # b[2]
      BY <1>1, <2>1
    <2>4. QED
      BY <1>1, <2>2, <2>3, BarrierBetween
  <1>5. QED
    BY <1>3, <1>4

LEMMA OrderedMnemonics ==
  ASSUME Program, NEW e \in Events, ~Plain(e)
  PROVE  \/ strength = "SC" /\ Access(e) \in {"LDAR", "STLR", "LDADDAL_XZR", "CASAL"}
         \/ strength = "RCPC" /\ Access(e) \in {"LDAPR", "STLR", "CASAL"}
         \/ strength = "TSO" /\ \/ OpOf(e).op = "LOAD" /\ Access(e) = "LDR"
                                \/ OpOf(e).op = "STORE" /\ Access(e) = "STR"
  <1>1. OpOf(e).op \in {"LOAD", "STORE", "ATOMIC_ADD", "ATOMIC_CAS", "PUSH", "POP"}
    BY EventShape DEF MemOps
  <1>2. /\ OpOf(e).op = "ATOMIC_ADD" => strength = "SC"
        /\ OpOf(e).op = "ATOMIC_CAS" => strength \in {"SC", "RCPC"}
    <2>1. e[1] \in Threads /\ e[2] \in DOMAIN prog[e[1]] /\ Disciplined(Case)
      BY EventShape DEF Program
    <2>2. Case.prog = prog /\ Case.strength = strength
      BY DEF Case
    <2>3. QED
      BY <2>1, <2>2 DEF Disciplined, OpOf
  <1>3. CASE OpOf(e).op = "LOAD"
    BY <1>3, LoadLowered
  <1>4. CASE OpOf(e).op = "STORE"
    BY <1>4, StoreLowered
  <1>5. CASE OpOf(e).op \in {"ATOMIC_ADD", "ATOMIC_CAS", "PUSH", "POP"}
    BY <1>2, <1>5, OtherLowered
  <1>6. QED
    BY <1>1, <1>3, <1>4, <1>5

\* Ordered accesses are kept in the order TSO wants without a fence: a load before
\* anything, anything before a store, everything around a locked instruction.
LEMMA StrongOrder ==
  ASSUME Program, NEW a \in Events, NEW b \in Events, Po(a, b), NEW w \in BOOLEAN,
         ~Plain(a), ~Plain(b), Reading(a) \/ Storing(b) \/ Locked(b)
  PROVE  OrderedBefore(a, b, w)
  <1>1. Loads(Access(a)) \/ Stores(Access(b))
    BY AccessKind
  <1>2. CASE strength = "SC"
    <2>1. /\ Access(a) \in {"LDAR", "STLR", "LDADDAL_XZR", "CASAL"}
          /\ Access(b) \in {"LDAR", "STLR", "LDADDAL_XZR", "CASAL"}
      BY <1>2, OrderedMnemonics
    <2>2. QED
      BY <2>1 DEF OrderedBefore, MustPrecede, Acquires, AcquiresSc, Releases, Stores
  <1>3. CASE strength = "RCPC"
    <2>1. /\ Access(a) \in {"LDAPR", "STLR", "CASAL"}
          /\ Access(b) \in {"LDAPR", "STLR", "CASAL"}
      BY <1>3, OrderedMnemonics
    <2>2. QED
      BY <1>1, <2>1 DEF OrderedBefore, MustPrecede, Acquires, AcquiresSc, Releases, Stores, Loads
  <1>4. CASE strength = "TSO"
    <2>1. \/ OpOf(b).op = "LOAD" /\ Access(b) = "LDR"
          \/ OpOf(b).op = "STORE" /\ Access(b) = "STR"
      BY <1>4, OrderedMnemonics
    <2>2. CASE OpOf(a).op = "LOAD" /\ Access(a) = "LDR"
      <3>1. "DMB_ISHLD" \in Between(a, b)
        BY <1>4, <2>2, TsoBarriers
      <3>2. QED
        BY <2>2, <3>1 DEF OrderedBefore, MustPrecede, Loads
    <2>3. CASE OpOf(a).op = "STORE" /\ Access(a) = "STR"
      <3>1. OpOf(b).op = "STORE" /\ Access(b) = "STR"
        BY <1>1, <2>1, <2>3 DEF Loads, Stores
      <3>2. "DMB_ISHST" \in Between(a, b)
        BY <1>4, <3>1, TsoBarriers
      <3>3. QED
        BY <2>3, <3>1, <3>2 DEF OrderedBefore, MustPrecede, Stores
    <2>4. QED
      BY <1>4, <2>2, <2>3, OrderedMnemonics
  <1>5. QED
    BY <1>2, <1>3, <1>4 DEF Program

\* At SC strength they are kept in program order altogether.
LEMMA ScOrder ==
  ASSUME Program, NEW a \in Events, NEW b \in Events, Po(a, b), NEW w \in BOOLEAN,
         ~Plain(a), ~Plain(b), strength = "SC"
  PROVE  OrderedBefore(a, b, w)
  <1>1. /\ Access(a) \in {"LDAR", "STLR", "LDADDAL_XZR", "CASAL"}
        /\ Access(b) \in {"LDAR", "STLR", "LDADDAL_XZR", "CASAL"}
    BY OrderedMnemonics
  <1>2. QED
    BY <1>1 DEF OrderedBefore, MustPrecede, Acquires, AcquiresSc, Releases, Stores

-----------------------------------------------------------------------------
(* The writes and their order *)

LEMMA WrittenAt ==
  ASSUME Program, Recorded
  PROVE  \A x \in Written :
           /\ x \in done /\ x \in Events /\ x # Start /\ AddrOf(x) \in Addrs
           /\ \E n \in DOMAIN co[AddrOf(x)] : co[AddrOf(x)][n] = x
  <1> SUFFICES ASSUME NEW x \in Written
               PROVE  /\ x \in done /\ x \in Events /\ x # Start /\ AddrOf(x) \in Addrs
                      /\ \E n \in DOMAIN co[AddrOf(x)] : co[AddrOf(x)][n] = x
    OBVIOUS
  <1>1. PICK a \in Addrs : \E n \in DOMAIN co[a] : co[a][n] = x
    BY DEF Written
  <1>2. PICK n \in DOMAIN co[a] : co[a][n] = x
    BY <1>1
  <1>3. co[a] \in Seq({ e \in done : AddrOf(e) = a })
    BY DEF Recorded
  <1>4. x \in done /\ AddrOf(x) = a
    BY <1>2, <1>3
  <1>5. x \in Events /\ x # Start
    BY <1>4, EventShape DEF Recorded
  <1>6. QED
    BY <1>2, <1>4, <1>5

LEMMA InMemory ==
  ASSUME NEW a \in Addrs, NEW n \in DOMAIN co[a]
  PROVE  co[a][n] \in Written
  BY DEF Written

\* A write has one place in the order of its location.
LEMMA PlaceOfWrite ==
  ASSUME Program, Recorded, NEW a \in Addrs, NEW m \in DOMAIN co[a], NEW n \in DOMAIN co[a]
  PROVE  /\ CoBefore(co[a][m], co[a][n]) <=> m < n
         /\ AddrOf(co[a][m]) = a /\ co[a][m] # Start
  <1>1. co[a] \in Seq({ e \in done : AddrOf(e) = a })
    BY DEF Recorded
  <1>2. AddrOf(co[a][m]) = a /\ AddrOf(co[a][n]) = a
    BY <1>1
  <1>3. co[a][m] \in Written /\ co[a][n] \in Written
    BY InMemory
  <1>4. co[a][m] # Start
    BY <1>3, WrittenAt
  <1>5. \A k \in DOMAIN co[a] : (co[a][k] = co[a][m] => k = m) /\ (co[a][k] = co[a][n] => k = n)
    BY DEF Recorded
  <1>6. QED
    BY <1>2, <1>3, <1>4, <1>5 DEF CoBefore

\* The order is that of places.
LEMMA CoBeforePlaces ==
  ASSUME Program, Recorded, NEW v, NEW w, CoBefore(w, v), w # Start
  PROVE  /\ w \in Written /\ v \in Written /\ AddrOf(w) = AddrOf(v) /\ AddrOf(w) \in Addrs
         /\ \E m, n \in DOMAIN co[AddrOf(w)] :
              m < n /\ co[AddrOf(w)][m] = w /\ co[AddrOf(w)][n] = v
  BY WrittenAt DEF CoBefore

LEMMA CoBeforeTransitive ==
  ASSUME Program, Recorded, NEW u, NEW v, NEW w, CoBefore(u, v), CoBefore(v, w)
  PROVE  CoBefore(u, w)
  <1>1. v \in Written /\ w \in Written /\ v # Start
    BY WrittenAt DEF CoBefore
  <1>2. CASE u = Start
    BY <1>1, <1>2 DEF CoBefore
  <1>3. CASE u # Start
    <2>1. PICK a \in Addrs : a = AddrOf(u) /\ a = AddrOf(v) /\ a = AddrOf(w)
      BY <1>1, <1>3, CoBeforePlaces
    <2>2. PICK m \in DOMAIN co[a], n \in DOMAIN co[a] : m < n /\ co[a][m] = u /\ co[a][n] = v
      <3>1. \E m, n \in DOMAIN co[AddrOf(u)] :
              m < n /\ co[AddrOf(u)][m] = u /\ co[AddrOf(u)][n] = v
        BY <1>3, CoBeforePlaces
      <3>2. QED
        BY <2>1, <3>1
    <2>3. PICK k \in DOMAIN co[a], l \in DOMAIN co[a] : k < l /\ co[a][k] = v /\ co[a][l] = w
      BY <1>1, <2>1, CoBeforePlaces
    <2>4. n = k
      BY <2>2, <2>3 DEF Recorded
    <2>5. co[a] \in Seq({ e \in done : AddrOf(e) = a })
      BY DEF Recorded
    <2>6. m < l
      BY <2>2, <2>3, <2>4, <2>5
    <2>7. QED
      BY <2>2, <2>3, <2>6, PlaceOfWrite
  <1>4. QED
    BY <1>2, <1>3

LEMMA CoBeforeIrreflexive ==
  ASSUME Program, Recorded, NEW w
  PROVE  ~CoBefore(w, w)
  <1> SUFFICES ASSUME CoBefore(w, w)
               PROVE  FALSE
    OBVIOUS
  <1>1. w # Start
    BY WrittenAt DEF CoBefore
  <1>2. PICK a \in Addrs : a = AddrOf(w)
    BY <1>1, CoBeforePlaces
  <1>3. PICK m \in DOMAIN co[a], n \in DOMAIN co[a] : m < n /\ co[a][m] = w /\ co[a][n] = w
    BY <1>1, <1>2, CoBeforePlaces
  <1>4. m = n /\ co[a] \in Seq({ e \in done : AddrOf(e) = a })
    BY <1>3 DEF Recorded
  <1>5. QED
    BY <1>3, <1>4

\* What memory holds is the youngest write of its address.
LEMMA MemYoungest ==
  ASSUME Program, Recorded, Youngest, NEW a \in Addrs
  PROVE  /\ \/ mem[a] = Start
            \/ mem[a] \in Written /\ AddrOf(mem[a]) = a
         /\ \A w \in Written : AddrOf(w) = a => w = mem[a] \/ CoBefore(w, mem[a])
         /\ mem[a] # Start => CoBefore(Start, mem[a])
         /\ \A w \in Written : AddrOf(w) = a => ~CoBefore(mem[a], w)
  <1>1. co[a] \in Seq({ e \in done : AddrOf(e) = a })
    BY DEF Recorded
  <1>2. CASE co[a] = <<>>
    <2>1. mem[a] = Start
      BY <1>2 DEF Youngest
    <2>2. \A w \in Written : AddrOf(w) # a
      BY <1>2, WrittenAt
    <2>3. QED
      BY <2>1, <2>2
  <1>3. CASE co[a] # <<>>
    <2> DEFINE l == Len(co[a])
    <2>1. l \in DOMAIN co[a] /\ l \in Nat /\ \A n \in DOMAIN co[a] : n \in Nat /\ n <= l
      BY <1>1, <1>3
    <2>2. mem[a] = co[a][l]
      BY <1>3 DEF Youngest
    <2> HIDE DEF l
    <2>3. mem[a] \in Written /\ AddrOf(mem[a]) = a /\ mem[a] # Start
      BY <2>1, <2>2, InMemory, PlaceOfWrite
    <2>4. ASSUME NEW w \in Written, AddrOf(w) = a
          PROVE  (w = mem[a] \/ CoBefore(w, mem[a])) /\ ~CoBefore(mem[a], w)
      <3>1. PICK n \in DOMAIN co[a] : co[a][n] = w
        BY <2>4, WrittenAt
      <3>2. (CoBefore(co[a][n], co[a][l]) <=> n < l) /\ (CoBefore(co[a][l], co[a][n]) <=> l < n)
        BY <2>1, PlaceOfWrite
      <3>3. n = l \/ n < l
        BY <2>1
      <3>4. ~(l < n)
        BY <2>1
      <3>5. QED
        BY <2>2, <3>1, <3>2, <3>3, <3>4
    <2>5. CoBefore(Start, mem[a])
      BY <2>3 DEF CoBefore
    <2>6. QED
      BY <2>3, <2>4, <2>5
  <1>4. QED
    BY <1>2, <1>3

-----------------------------------------------------------------------------
(* A step performs one access and leaves the program alone *)

Still == prog' = prog /\ policy' = policy /\ strength' = strength

LEMMA StillLower ==
  ASSUME Still, NEW o \in Op, strength \in {"SC", "RCPC", "TSO"}
  PROVE  Lower(o)' = Lower(o)
  <1>1. ordered(o)' = ordered(o)
    BY DEF ordered, Still
  <1>2. OrderedStore' = OrderedStore
    BY DEF OrderedStore, Still
  <1>3. OrderedLoad' = OrderedLoad
    <2>1. CASE strength = "SC"
      <3>1. strength' = "SC"
        BY <2>1 DEF Still
      <3>2. OrderedLoad = <<"LDAR">> /\ OrderedLoad' = <<"LDAR">>
        BY <2>1, <3>1, Zenon DEF OrderedLoad
      <3>3. QED
        BY <3>2
    <2>2. CASE strength = "RCPC"
      <3>1. strength' = "RCPC"
        BY <2>2 DEF Still
      <3>2. OrderedLoad = <<"LDAPR">> /\ OrderedLoad' = <<"LDAPR">>
        BY <2>2, <3>1, Zenon DEF OrderedLoad
      <3>3. QED
        BY <3>2
    <2>3. CASE strength = "TSO"
      <3>1. strength' = "TSO"
        BY <2>3 DEF Still
      <3>2. OrderedLoad = <<"LDR", "DMB_ISHLD">> /\ OrderedLoad' = <<"LDR", "DMB_ISHLD">>
        BY <2>3, <3>1, Zenon DEF OrderedLoad
      <3>3. QED
        BY <3>2
    <2>4. QED
      BY <2>1, <2>2, <2>3
  <1>4. o.op \in {"LOAD", "STORE", "ATOMIC_ADD", "ATOMIC_CAS", "PUSH", "POP",
                  "FENCE_FULL", "FENCE_LD", "FENCE_ST"}
    BY DEF Op, MemOps, Fences
  <1>5. CASE o.op = "LOAD" /\ ordered(o)
    <2>1. Lower(o) = OrderedLoad
      BY <1>5, Zenon DEF Lower
    <2>2. Lower(o)' = OrderedLoad'
      BY <1>1, <1>5, Zenon DEF Lower
    <2>3. QED
      BY <1>3, <2>1, <2>2
  <1>6. CASE o.op = "STORE" /\ ordered(o)
    <2>1. Lower(o) = OrderedStore
      BY <1>6, Zenon DEF Lower
    <2>2. Lower(o)' = OrderedStore'
      BY <1>1, <1>6, Zenon DEF Lower
    <2>3. QED
      BY <1>2, <2>1, <2>2
  <1>7. CASE o.op = "LOAD" /\ ~ordered(o)
    BY <1>1, <1>7, Zenon DEF Lower
  <1>8. CASE o.op = "STORE" /\ ~ordered(o)
    BY <1>1, <1>8, Zenon DEF Lower
  <1>9. CASE o.op = "ATOMIC_ADD"
    BY <1>9, Zenon DEF Lower
  <1>10. CASE o.op = "ATOMIC_CAS"
    BY <1>10, Zenon DEF Lower
  <1>11. CASE o.op = "PUSH"
    BY <1>11, Zenon DEF Lower
  <1>12. CASE o.op = "POP"
    BY <1>12, Zenon DEF Lower
  <1>13. CASE o.op = "FENCE_FULL"
    BY <1>13, Zenon DEF Lower
  <1>14. CASE o.op = "FENCE_LD"
    BY <1>14, Zenon DEF Lower
  <1>15. CASE o.op = "FENCE_ST"
    BY <1>15, Zenon DEF Lower
  <1>16. QED
    BY <1>4, <1>5, <1>6, <1>7, <1>8, <1>9, <1>10, <1>11, <1>12, <1>13, <1>14, <1>15

LEMMA StillProgram ==
  ASSUME Program, Still
  PROVE  /\ Program' /\ Events' = Events
         /\ \A e : /\ OpOf(e)' = OpOf(e) /\ AddrOf(e)' = AddrOf(e) /\ Earlier(e)' = Earlier(e)
                   /\ Reading(e)' <=> Reading(e)
                   /\ Storing(e)' <=> Storing(e)
                   /\ Locked(e)' <=> Locked(e)
                   /\ Plain(e)' <=> Plain(e)
  <1>1. Events' = Events
    BY DEF Events, Still
  <1>2. Program'
    BY DEF Program, Still, Case
  <1>3. \A e : OpOf(e)' = OpOf(e)
    BY DEF OpOf, Still
  <1>4. \A e : AddrOf(e)' = AddrOf(e)
    BY <1>3 DEF AddrOf
  <1>5. \A e : Earlier(e)' = Earlier(e)
    BY <1>1 DEF Earlier
  <1>6. \A e : ordered(OpOf(e))' <=> ordered(OpOf(e))
    BY <1>3 DEF ordered, Still
  <1>7. \A e : /\ Reading(e)' <=> Reading(e)
               /\ Storing(e)' <=> Storing(e)
               /\ Locked(e)' <=> Locked(e)
    BY <1>3 DEF Reading, Storing, Locked
  <1>8. \A e : Plain(e)' <=> Plain(e)
    BY <1>3, <1>6 DEF Plain
  <1>9. QED
    BY <1>1, <1>2, <1>3, <1>4, <1>5, <1>7, <1>8

LEMMA StillOrder ==
  ASSUME Program, Still, NEW a \in Events, NEW b \in Events, a[1] = b[1], NEW w
  PROVE  OrderedBefore(a, b, w)' = OrderedBefore(a, b, w)
  <1>1. ASSUME NEW t \in Threads, NEW m \in DOMAIN prog[t]
        PROVE  Lower(prog[t][m])' = Lower(prog[t][m])
    <2>1. prog[t][m] \in Op /\ strength \in {"SC", "RCPC", "TSO"}
      BY DEF Program
    <2>2. \A o \in Op : Lower(o)' = Lower(o)
      BY <2>1, StillLower
    <2>3. QED
      BY <2>1, <2>2 DEF Still
  <1>2. ASSUME NEW e \in Events
        PROVE  Insns(e)' = Insns(e)
    BY <1>1, EventShape DEF Insns, OpOf
  <1>3. ASSUME NEW e \in Events
        PROVE  AccessAt(e)' = AccessAt(e) /\ Access(e)' = Access(e)
    BY <1>2 DEF AccessAt, Access
  <1>4. Between(a, b)' = Between(a, b)
    <2>1. a[1] \in Threads /\ \A m \in a[2]..b[2] : m \in DOMAIN prog[a[1]]
      <3>1. /\ a[1] \in Threads /\ prog[a[1]] \in Seq(Op)
            /\ a[2] \in DOMAIN prog[a[1]] /\ b[2] \in DOMAIN prog[a[1]]
        BY EventShape
      <3>2. QED
        BY <3>1
    <2>2. \A m \in a[2]..b[2] : Lower(prog[a[1]][m])' = Lower(prog[a[1]][m])
      BY <1>1, <2>1
    <2>3. QED
      BY <1>3, <2>2 DEF Between
  <1>5. AddrOf(a)' = AddrOf(a) /\ AddrOf(b)' = AddrOf(b)
    BY StillProgram
  <1>6. QED
    BY <1>3, <1>4, <1>5 DEF OrderedBefore

\* What a write to memory does to the writes and their order.
LEMMA Appended ==
  ASSUME Program, Recorded, Still, NEW e \in Events, e \notin done, WriteMem(e)
  PROVE  /\ e \notin Written /\ Written' = Written \cup {e}
         /\ \A w : CoBefore(w, e)' <=> w = Start \/ (w \in Written /\ AddrOf(w) = AddrOf(e))
         /\ \A w, v : v # e => (CoBefore(w, v)' <=> CoBefore(w, v))
         /\ DOMAIN mem' = Addrs /\ DOMAIN co' = Addrs /\ AddrOf(e) \in Addrs
         /\ \A a \in Addrs : mem'[a] = IF a = AddrOf(e) THEN e ELSE mem[a]
         /\ \A a \in Addrs : co'[a] = IF a = AddrOf(e) THEN Append(co[a], e) ELSE co[a]
  <1> DEFINE a == AddrOf(e)
  <1>1. a \in Addrs
    BY EventShape
  <1>2. DOMAIN mem = Addrs /\ DOMAIN co = Addrs
    BY DEF Recorded
  <1>3. mem' = [mem EXCEPT ![a] = e] /\ co' = [co EXCEPT ![a] = Append(co[a], e)]
    BY DEF WriteMem
  <1>4. /\ DOMAIN mem' = Addrs /\ DOMAIN co' = Addrs
        /\ \A c \in Addrs : mem'[c] = IF c = a THEN e ELSE mem[c]
        /\ \A c \in Addrs : co'[c] = IF c = a THEN Append(co[a], e) ELSE co[c]
    BY <1>1, <1>2, <1>3
  <1>5. e \notin Written /\ e # Start
    BY WrittenAt, EventShape
  <1> DEFINE l == Len(co[a])
             s == co[a]
             t == co'[a]
  <1>6. s \in Seq(done) /\ l \in Nat
    <2>1. s \in Seq({ d \in done : AddrOf(d) = a })
      BY <1>1 DEF Recorded
    <2>2. QED
      BY <2>1
  <1>7. t = Append(s, e)
    BY <1>1, <1>4
  <1>8. /\ DOMAIN s = 1..l /\ DOMAIN t = 1..(l + 1) /\ t[l + 1] = e
        /\ \A n \in 1..l : t[n] = s[n] /\ s[n] # e
    <2>1. DOMAIN s = 1..l /\ \A n \in 1..l : s[n] \in done
      BY <1>6
    <2>2. DOMAIN t = 1..(l + 1) /\ t[l + 1] = e /\ \A n \in 1..l : t[n] = s[n]
      BY <1>6, <1>7
    <2>3. QED
      BY <2>1, <2>2
  <1> HIDE DEF l, s, t
  <1>9. Written' = Written \cup {e}
    <2>1. ASSUME NEW x \in Written'
          PROVE  x \in Written \cup {e}
      <3>1. PICK c \in Addrs : \E n \in DOMAIN co'[c] : co'[c][n] = x
        BY DEF Written
      <3>2. CASE c # a
        <4>1. co'[c] = co[c]
          BY <1>4, <3>2
        <4>2. QED
          BY <3>1, <4>1 DEF Written
      <3>3. CASE c = a
        <4>1. PICK n \in 1..(l + 1) : t[n] = x
          BY <1>8, <3>1, <3>3 DEF t
        <4>2. CASE n = l + 1
          BY <1>8, <4>1, <4>2
        <4>3. CASE n # l + 1
          <5>1. n \in DOMAIN s /\ s[n] = x
            BY <1>6, <1>8, <4>1, <4>3
          <5>2. QED
            BY <1>1, <5>1 DEF Written, s
        <4>4. QED
          BY <4>2, <4>3
      <3>4. QED
        BY <3>2, <3>3
    <2>2. ASSUME NEW x \in Written
          PROVE  x \in Written'
      <3>1. PICK c \in Addrs : \E n \in DOMAIN co[c] : co[c][n] = x
        BY DEF Written
      <3>2. CASE c # a
        <4>1. co'[c] = co[c]
          BY <1>4, <3>2
        <4>2. QED
          BY <3>1, <4>1 DEF Written
      <3>3. CASE c = a
        <4>1. PICK n \in 1..l : s[n] = x
          BY <1>8, <3>1, <3>3 DEF s
        <4>2. n \in DOMAIN t /\ t[n] = x
          BY <1>6, <1>8, <4>1
        <4>3. QED
          BY <1>1, <4>2 DEF Written, t
      <3>4. QED
        BY <3>2, <3>3
    <2>3. e \in Written'
      <3>1. l + 1 \in DOMAIN t
        BY <1>6, <1>8
      <3>2. QED
        BY <1>1, <1>8, <3>1 DEF Written, t
    <2>4. QED
      BY <2>1, <2>2, <2>3
  <1>10. \A d : AddrOf(d)' = AddrOf(d)
    BY StillProgram
  <1>11. ASSUME NEW w
         PROVE  CoBefore(w, e)' <=> w = Start \/ (w \in Written /\ AddrOf(w) = a)
    <2>1. ASSUME CoBefore(w, e)', w # Start
          PROVE  w \in Written /\ AddrOf(w) = a
      <3>1. w \in Written' /\ AddrOf(w) = a /\ \E m, n \in DOMAIN co'[a] :
                m < n /\ co'[a][m] = w /\ co'[a][n] = e
        BY <1>10, <2>1 DEF CoBefore
      <3>2. PICK m \in 1..(l + 1), n \in 1..(l + 1) : m < n /\ t[m] = w /\ t[n] = e
        BY <1>8, <3>1 DEF t
      <3>3. m \in 1..l
        BY <1>6, <3>2
      <3>4. w # e
        BY <1>8, <3>2, <3>3
      <3>5. QED
        BY <1>9, <3>1, <3>4
    <2>2. ASSUME w = Start
          PROVE  CoBefore(w, e)'
      BY <1>9, <2>2 DEF CoBefore
    <2>3. ASSUME w \in Written, AddrOf(w) = a
          PROVE  CoBefore(w, e)'
      <3>1. PICK m \in 1..l : s[m] = w
        BY <1>8, <2>3, WrittenAt DEF s
      <3>2. m \in DOMAIN t /\ l + 1 \in DOMAIN t /\ m < l + 1 /\ t[m] = w /\ t[l + 1] = e
        BY <1>6, <1>8, <3>1
      <3>3. \E i, j \in DOMAIN co'[a] : i < j /\ co'[a][i] = w /\ co'[a][j] = e
        BY <3>2 DEF t
      <3>4. QED
        BY <1>9, <1>10, <2>3, <3>3 DEF CoBefore
    <2>4. QED
      BY <2>1, <2>2, <2>3
  <1>12. ASSUME NEW w, NEW v, v # e
         PROVE  CoBefore(w, v)' <=> CoBefore(w, v)
    <2>1. v \in Written' <=> v \in Written
      BY <1>9, <1>12
    <2>2. CASE w = Start
      BY <2>1, <2>2 DEF CoBefore
    <2>3. CASE w # Start /\ AddrOf(w) = AddrOf(v) /\ AddrOf(w) = a
      <3>1. ASSUME CoBefore(w, v)'
            PROVE  CoBefore(w, v)
        <4>1. w \in Written' /\ \E m, n \in DOMAIN co'[a] :
                 m < n /\ co'[a][m] = w /\ co'[a][n] = v
          BY <1>10, <2>3, <3>1 DEF CoBefore
        <4>2. PICK m \in 1..(l + 1), n \in 1..(l + 1) : m < n /\ t[m] = w /\ t[n] = v
          BY <1>8, <4>1 DEF t
        <4>3. n \in 1..l
          BY <1>6, <1>8, <1>12, <4>2
        <4>4. m \in 1..l
          BY <1>6, <4>2, <4>3
        <4>5. s[m] = w /\ s[n] = v /\ w # e
          BY <1>8, <4>2, <4>3, <4>4
        <4>6. \E i, j \in DOMAIN co[a] : i < j /\ co[a][i] = w /\ co[a][j] = v
          BY <1>8, <4>2, <4>3, <4>4, <4>5 DEF s
        <4>7. v \in Written /\ w \in Written
          BY <1>9, <2>1, <3>1, <4>1, <4>5 DEF CoBefore
        <4>8. QED
          BY <2>3, <4>6, <4>7 DEF CoBefore
      <3>2. ASSUME CoBefore(w, v)
            PROVE  CoBefore(w, v)'
        <4>1. w \in Written /\ v \in Written /\ \E m, n \in DOMAIN co[a] :
                 m < n /\ co[a][m] = w /\ co[a][n] = v
          BY <2>3, <3>2 DEF CoBefore
        <4>2. PICK m \in 1..l, n \in 1..l : m < n /\ s[m] = w /\ s[n] = v
          BY <1>8, <4>1 DEF s
        <4>3. m \in DOMAIN t /\ n \in DOMAIN t /\ t[m] = w /\ t[n] = v
          BY <1>6, <1>8, <4>2
        <4>4. \E i, j \in DOMAIN co'[a] : i < j /\ co'[a][i] = w /\ co'[a][j] = v
          BY <4>2, <4>3 DEF t
        <4>5. QED
          BY <1>9, <1>10, <2>3, <4>1, <4>4 DEF CoBefore
      <3>3. QED
        BY <3>1, <3>2
    <2>4. CASE w # Start /\ AddrOf(w) = AddrOf(v) /\ AddrOf(w) # a
      <3>1. w # e
        BY <2>4
      <3>2. w \in Written => AddrOf(w) \in Addrs /\ co'[AddrOf(w)] = co[AddrOf(w)]
        BY <1>4, <2>4, WrittenAt
      <3>3. QED
        BY <1>9, <1>10, <2>1, <2>4, <3>1, <3>2 DEF CoBefore
    <2>5. CASE w # Start /\ AddrOf(w) # AddrOf(v)
      BY <1>10, <2>5 DEF CoBefore
    <2>6. QED
      BY <2>2, <2>3, <2>4, <2>5
  <1>13. QED
    BY <1>1, <1>4, <1>5, <1>9, <1>11, <1>12

\* The earlier accesses of e's thread to e's location that are still to be performed.
Own(e) == { d \in Earlier(e) \ done : AddrOf(d) = AddrOf(e) }

\* What the three actions have in common.
Performs(e) ==
  /\ Still /\ e \in Events /\ e \notin done /\ done' = done \cup {e}
  /\ \A d \in Earlier(e) : OrderedBefore(d, e, e \in Written') => d \in done
  /\ Reads' = IF Reading(e) THEN Reads \cup {e} ELSE Reads
  /\ \A r \in Reads : rf'[r] = rf[r]
  /\ Reading(e) => \/ rf'[e] = mem[AddrOf(e)] /\ Own(e) = {}
                   \/ /\ e \notin Written' /\ rf'[e] \in Own(e)
                      /\ \A c \in Own(e) : c[2] <= rf'[e][2]
  /\ \A d \in Own(e) : Storing(d) /\ ~Storing(e) /\ ~Locked(e)
  /\ \/ UNCHANGED <<mem, co>> /\ ~Storing(e)
     \/ WriteMem(e) /\ (Storing(e) \/ Locked(e))

\* Nothing older to its location is pending when a store or an atomic is performed, and
\* only stores are when a load is.
LEMMA OwnStores ==
  ASSUME Program, NEW e \in Events, NEW w \in BOOLEAN, Ready(e, w)
  PROVE  \A d \in Own(e) : Storing(d) /\ ~Storing(e) /\ ~Locked(e)
  <1> SUFFICES ASSUME NEW d \in Own(e)
               PROVE  Storing(d) /\ ~Storing(e) /\ ~Locked(e)
    OBVIOUS
  <1>1. d \in Earlier(e) /\ d \notin done /\ AddrOf(d) = AddrOf(e) /\ d \in Events
    BY DEF Own, Earlier
  <1>2. ~OrderedBefore(d, e, w)
    BY <1>1 DEF Ready
  <1>3. ~Reading(d) /\ ~Storing(e) /\ ~Locked(e)
    BY <1>1, <1>2, SameAddress
  <1>4. Storing(d)
    BY <1>1, <1>3, AccessKind
  <1>5. QED
    BY <1>3, <1>4

LEMMA LatestOwn ==
  ASSUME Program, NEW e \in Events, Own(e) # {}
  PROVE  Visible(e) \in Own(e) /\ \A c \in Own(e) : c[2] <= Visible(e)[2]
  <1>1. e[2] \in Nat /\ \A d \in Own(e) : d[2] \in 0..e[2]
    <2>1. \A d \in Own(e) : d \in Events /\ d[2] < e[2]
      BY DEF Own, Earlier
    <2>2. e[2] \in Nat /\ \A d \in Own(e) : d[2] \in Nat
      BY <2>1, EventShape
    <2>3. QED
      BY <2>1, <2>2
  <1> DEFINE T == { d[2] : d \in Own(e) }
  <1>2. T \subseteq 0..e[2] /\ T # {}
    BY <1>1
  <1>3. PICK x \in T : \A y \in T : y <= x
    BY <1>1, <1>2, Greatest
  <1>4. PICK d \in Own(e) : x = d[2]
    OBVIOUS
  <1>5. \A c \in Own(e) : c[2] <= d[2]
    BY <1>3, <1>4
  <1>6. Visible(e) = CHOOSE f \in Own(e) : \A c \in Own(e) : c[2] <= f[2]
    BY DEF Visible, Own
  <1>7. QED
    BY <1>5, <1>6

LEMMA LoadPerforms ==
  ASSUME Program, Recorded, NEW e \in Events, Load(e)
  PROVE  Performs(e)
  <1>1. Still /\ e \notin done /\ done' = done \cup {e} /\ UNCHANGED <<mem, co>>
    BY DEF Load, Ready, Still
  <1>2. Written' = Written
    BY <1>1 DEF Written
  <1>3. e \notin Written'
    BY <1>1, <1>2, WrittenAt
  <1>4. \A d \in Earlier(e) : OrderedBefore(d, e, e \in Written') => d \in done
    <2>1. (e \in Written') = FALSE
      BY <1>3
    <2>2. \A d \in Earlier(e) : OrderedBefore(d, e, FALSE) => d \in done
      BY DEF Load, Ready
    <2>3. QED
      BY <2>1, <2>2
  <1>5. Reading(e) /\ ~Storing(e)
    BY AccessKind DEF Load
  <1>6. /\ Reads' = Reads \cup {e} /\ rf'[e] = Visible(e)
        /\ \A r \in Reads : rf'[r] = rf[r]
    <2>1. rf' = [d \in Reads \cup {e} |-> IF d = e THEN Visible(e) ELSE rf[d]]
      BY DEF Load, ReadFrom, Reads
    <2>2. e \notin Reads
      BY <1>1 DEF Recorded
    <2>3. QED
      BY <2>1, <2>2 DEF Reads
  <1>7. \A d \in Own(e) : Storing(d) /\ ~Storing(e) /\ ~Locked(e)
    BY OwnStores DEF Load
  <1>8. CASE Own(e) = {}
    <2>1. Visible(e) = mem[AddrOf(e)]
      BY <1>8 DEF Visible, Own
    <2>2. QED
      BY <1>1, <1>4, <1>5, <1>6, <1>7, <1>8, <2>1 DEF Performs
  <1>9. CASE Own(e) # {}
    <2>1. Visible(e) \in Own(e) /\ \A c \in Own(e) : c[2] <= Visible(e)[2]
      BY <1>9, LatestOwn
    <2>2. QED
      BY <1>1, <1>3, <1>4, <1>5, <1>6, <1>7, <2>1 DEF Performs
  <1>10. QED
    BY <1>8, <1>9

LEMMA WritePerforms ==
  ASSUME Program, Recorded, NEW e \in Events, Store(e) \/ Rmw(e)
  PROVE  Performs(e)
  <1>1. Still /\ e \notin done /\ done' = done \cup {e} /\ WriteMem(e) /\ Ready(e, TRUE)
    BY DEF Store, Rmw, Ready, Still
  <1>2. e \in Written'
    BY <1>1, Appended
  <1>3. \A d \in Earlier(e) : OrderedBefore(d, e, e \in Written') => d \in done
    <2>1. (e \in Written') = TRUE
      BY <1>2
    <2>2. \A d \in Earlier(e) : OrderedBefore(d, e, TRUE) => d \in done
      BY <1>1 DEF Ready
    <2>3. QED
      BY <2>1, <2>2
  <1>4. \A d \in Own(e) : Storing(d) /\ ~Storing(e) /\ ~Locked(e)
    BY <1>1, OwnStores
  <1>5. CASE Store(e)
    <2>1. ~Reading(e) /\ Storing(e) /\ rf' = rf
      BY <1>5, AccessKind DEF Store
    <2>2. Reads' = Reads
      BY <2>1 DEF Reads
    <2>3. QED
      BY <1>1, <1>3, <1>4, <2>1, <2>2 DEF Performs
  <1>6. CASE Rmw(e)
    <2>1. Reading(e) /\ (Storing(e) \/ Locked(e))
      BY <1>6, AccessKind DEF Rmw
    <2>2. Own(e) = {}
      BY <1>4, <2>1
    <2>3. /\ Reads' = Reads \cup {e} /\ rf'[e] = mem[AddrOf(e)]
          /\ \A r \in Reads : rf'[r] = rf[r]
      <3>1. rf' = [d \in Reads \cup {e} |-> IF d = e THEN mem[AddrOf(e)] ELSE rf[d]]
        BY <1>6 DEF Rmw, ReadFrom, Reads
      <3>2. e \notin Reads
        BY <1>1 DEF Recorded
      <3>3. QED
        BY <3>1, <3>2 DEF Reads
    <2>4. QED
      BY <1>1, <1>3, <1>4, <2>1, <2>2, <2>3 DEF Performs
  <1>7. QED
    BY <1>5, <1>6

\* The writes and their order after a step.
LEMMA OrderAfter ==
  ASSUME Program, Recorded, NEW e \in Events, Performs(e)
  PROVE  /\ e \notin Written /\ \A x : x # e => (x \in Written' <=> x \in Written)
         /\ Storing(e) => e \in Written'
         /\ e \in Written' => (Storing(e) \/ Locked(e)) /\ Own(e) = {}
         /\ \A w, v : v # e => (CoBefore(w, v)' <=> CoBefore(w, v))
         /\ \A w : CoBefore(w, e)' <=> /\ e \in Written'
                                       /\ w = Start \/ (w \in Written /\ AddrOf(w) = AddrOf(e))
         /\ \A v : ~CoBefore(e, v)'
  <1>1. Still /\ e \notin done
    BY DEF Performs
  <1>2. e \notin Written /\ e # Start
    BY <1>1, WrittenAt, EventShape
  <1>3. \A v : ~CoBefore(e, v)
    BY <1>2 DEF CoBefore
  <1>4. CASE UNCHANGED <<mem, co>> /\ ~Storing(e)
    <2>1. Written' = Written
      BY <1>4 DEF Written
    <2>2. \A w, v : CoBefore(w, v)' <=> CoBefore(w, v)
      <3>1. \A d : AddrOf(d)' = AddrOf(d)
        BY <1>1, StillProgram
      <3>2. QED
        BY <1>4, <2>1, <3>1 DEF CoBefore
    <2>3. \A w : ~CoBefore(w, e)
      BY <1>2 DEF CoBefore
    <2>4. QED
      BY <1>2, <1>3, <1>4, <2>1, <2>2, <2>3
  <1>5. CASE WriteMem(e) /\ (Storing(e) \/ Locked(e))
    <2>1. Written' = Written \cup {e}
      BY <1>1, <1>5, Appended
    <2>2. \A w : CoBefore(w, e)' <=> w = Start \/ (w \in Written /\ AddrOf(w) = AddrOf(e))
      BY <1>1, <1>5, Appended
    <2>3. \A w, v : v # e => (CoBefore(w, v)' <=> CoBefore(w, v))
      BY <1>1, <1>5, Appended
    <2>4. Own(e) = {}
      BY <1>5 DEF Performs
    <2>5. \A v : ~CoBefore(e, v)'
      BY <1>2, <1>3, <2>2, <2>3
    <2>6. QED
      BY <1>2, <1>5, <2>1, <2>2, <2>3, <2>4, <2>5
  <1>6. QED
    BY <1>4, <1>5 DEF Performs

-----------------------------------------------------------------------------
(* A step keeps the records *)

LEMMA RecordedStep ==
  ASSUME Program, Recorded, NEW e \in Events, Performs(e)
  PROVE  Recorded'
  <1>1. Still /\ e \notin done /\ done' = done \cup {e}
    BY DEF Performs
  <1>2. /\ Events' = Events
        /\ \A d : /\ AddrOf(d)' = AddrOf(d) /\ (Reading(d)' <=> Reading(d))
                  /\ (Storing(d)' <=> Storing(d)) /\ (Locked(d)' <=> Locked(d))
    BY <1>1, StillProgram
  <1>3. done' \subseteq Events'
    BY <1>1, <1>2 DEF Recorded
  <1>4. Reads' \subseteq done' /\ \A d \in done' : d \in Reads' <=> Reading(d)'
    <2>1. Reads' = IF Reading(e) THEN Reads \cup {e} ELSE Reads
      BY DEF Performs
    <2>2. Reads \subseteq done /\ \A d \in done : d \in Reads <=> Reading(d)
      BY DEF Recorded
    <2>3. QED
      BY <1>1, <1>2, <2>1, <2>2
  <1>5. \A d \in done' : Storing(d)' => d \in Written'
    BY <1>1, <1>2, OrderAfter DEF Recorded
  <1>6. \A d \in Written' : Storing(d)' \/ Locked(d)'
    BY <1>2, OrderAfter DEF Recorded
  <1>7. ASSUME NEW a \in Addrs
        PROVE  co[a] \in Seq({ d \in done' : AddrOf(d)' = a })
    <2>1. co[a] \in Seq({ d \in done : AddrOf(d) = a })
      BY DEF Recorded
    <2>2. { d \in done : AddrOf(d) = a } \subseteq { d \in done' : AddrOf(d)' = a }
      BY <1>1, <1>2
    <2>3. QED
      BY <2>1, <2>2
  <1>8. /\ DOMAIN mem' = Addrs /\ DOMAIN co' = Addrs
        /\ \A a \in Addrs : co'[a] \in Seq({ d \in done' : AddrOf(d)' = a })
        /\ \A a \in Addrs : \A m, n \in DOMAIN co'[a] : co'[a][m] = co'[a][n] => m = n
    <2>1. CASE UNCHANGED <<mem, co>>
      BY <1>7, <2>1 DEF Recorded
    <2>2. CASE WriteMem(e)
      <3>1. /\ DOMAIN mem' = Addrs /\ DOMAIN co' = Addrs /\ AddrOf(e) \in Addrs
            /\ \A a \in Addrs : co'[a] = IF a = AddrOf(e) THEN Append(co[a], e) ELSE co[a]
        BY <1>1, <2>2, Appended
      <3>2. ASSUME NEW a \in Addrs
            PROVE  co'[a] \in Seq({ d \in done' : AddrOf(d)' = a })
        <4>1. CASE a # AddrOf(e)
          BY <1>7, <3>1, <4>1
        <4>2. CASE a = AddrOf(e)
          <5>1. e \in { d \in done' : AddrOf(d)' = a }
            BY <1>1, <1>2, <4>2
          <5>2. co'[a] = Append(co[a], e)
            BY <3>1, <4>2
          <5>3. QED
            BY <1>7, <5>1, <5>2
        <4>3. QED
          BY <4>1, <4>2
      <3>3. ASSUME NEW a \in Addrs, NEW m \in DOMAIN co'[a], NEW n \in DOMAIN co'[a],
                   co'[a][m] = co'[a][n]
            PROVE  m = n
        <4>1. /\ co[a] \in Seq(done)
              /\ \A i, j \in DOMAIN co[a] : co[a][i] = co[a][j] => i = j
          <5>1. co[a] \in Seq({ d \in done : AddrOf(d) = a })
            BY DEF Recorded
          <5>2. co[a] \in Seq(done)
            BY <5>1
          <5>3. QED
            BY <5>2 DEF Recorded
        <4>2. CASE a # AddrOf(e)
          <5>1. co'[a] = co[a]
            BY <3>1, <4>2
          <5>2. m \in DOMAIN co[a] /\ n \in DOMAIN co[a] /\ co[a][m] = co[a][n]
            BY <3>3, <5>1
          <5>3. QED
            BY <4>1, <5>2
        <4>3. CASE a = AddrOf(e)
          <5>1. co'[a] = Append(co[a], e)
            BY <3>1, <4>3
          <5>2. \A i \in DOMAIN co[a] : co[a][i] # e
            BY <1>1, <4>1
          <5> DEFINE l == Len(co[a])
          <5>3. /\ l \in Nat /\ DOMAIN co[a] = 1..l /\ DOMAIN co'[a] = 1..(l + 1)
                /\ co'[a][l + 1] = e /\ \A i \in 1..l : co'[a][i] = co[a][i]
            BY <4>1, <5>1
          <5> HIDE DEF l
          <5>4. m \in 1..(l + 1) /\ n \in 1..(l + 1)
            BY <5>3
          <5>5. \A i \in 1..l : co'[a][i] # e
            BY <5>2, <5>3
          <5>6. CASE m = l + 1 \/ n = l + 1
            <6>1. co'[a][m] = e /\ co'[a][n] = e
              BY <3>3, <5>3, <5>6
            <6>2. m \notin 1..l /\ n \notin 1..l
              BY <5>5, <6>1
            <6>3. QED
              BY <5>3, <5>4, <6>2
          <5>7. CASE m # l + 1 /\ n # l + 1
            <6>1. m \in 1..l /\ n \in 1..l
              BY <5>3, <5>4, <5>7
            <6>2. co[a][m] = co[a][n]
              BY <3>3, <5>3, <6>1
            <6>3. QED
              BY <4>1, <5>3, <6>1, <6>2
          <5>8. QED
            BY <5>6, <5>7
        <4>4. QED
          BY <4>2, <4>3
      <3>4. QED
        BY <3>1, <3>2, <3>3
    <2>3. QED
      BY <2>1, <2>2 DEF Performs
  <1>9. QED
    BY <1>3, <1>4, <1>5, <1>6, <1>8 DEF Recorded

LEMMA YoungestStep ==
  ASSUME Program, Recorded, Youngest, NEW e \in Events, Performs(e)
  PROVE  Youngest'
  <1>1. CASE UNCHANGED <<mem, co>>
    BY <1>1 DEF Youngest
  <1>2. CASE WriteMem(e)
    <2>1. /\ \A a \in Addrs : mem'[a] = IF a = AddrOf(e) THEN e ELSE mem[a]
          /\ \A a \in Addrs : co'[a] = IF a = AddrOf(e) THEN Append(co[a], e) ELSE co[a]
      BY <1>2, Appended DEF Performs
    <2>2. ASSUME NEW a \in Addrs
          PROVE  mem'[a] = IF co'[a] = <<>> THEN Start ELSE co'[a][Len(co'[a])]
      <3>1. CASE a # AddrOf(e)
        BY <2>1, <3>1 DEF Youngest
      <3>2. CASE a = AddrOf(e)
        <4>1. co[a] \in Seq({ d \in done : AddrOf(d) = a })
          BY DEF Recorded
        <4>2. co[a] \in Seq(done)
          BY <4>1
        <4>3. mem'[a] = e /\ co'[a] = Append(co[a], e)
          BY <2>1, <3>2
        <4>4. co'[a] # <<>> /\ co'[a][Len(co'[a])] = e
          BY <4>2, <4>3
        <4>5. QED
          BY <4>3, <4>4
      <3>3. QED
        BY <3>1, <3>2
    <2>3. QED
      BY <2>2 DEF Youngest
  <1>3. QED
    BY <1>1, <1>2 DEF Performs

LEMMA SourcesStep ==
  ASSUME Program, Recorded, Youngest, Sources, NEW e \in Events, Performs(e)
  PROVE  Sources'
  <1>1. Still /\ e \notin done /\ done' = done \cup {e}
    BY DEF Performs
  <1>2. Events' = Events /\ \A d : AddrOf(d)' = AddrOf(d) /\ (Storing(d)' <=> Storing(d))
    BY <1>1, StillProgram
  <1>3. \A x, y : Po(x, y)' <=> Po(x, y)
    BY DEF Po
  <1> SUFFICES ASSUME NEW r \in Reads'
               PROVE  \/ rf'[r] = Start
                      \/ rf'[r] \in Written' /\ AddrOf(rf'[r]) = AddrOf(r)
                      \/ /\ rf'[r] \in Events \ done' /\ AddrOf(rf'[r]) = AddrOf(r)
                         /\ Storing(rf'[r]) /\ Po(rf'[r], r)
    BY <1>2, <1>3 DEF Sources
  <1>4. CASE r # e
    <2>1. r \in Reads /\ rf'[r] = rf[r]
      BY <1>4 DEF Performs
    <2>2. \/ rf[r] = Start
          \/ rf[r] \in Written /\ AddrOf(rf[r]) = AddrOf(r)
          \/ /\ rf[r] \in Events \ done /\ AddrOf(rf[r]) = AddrOf(r)
             /\ Storing(rf[r]) /\ Po(rf[r], r)
      BY <2>1 DEF Sources
    <2>3. QED
      BY <1>1, <2>1, <2>2, OrderAfter
  <1>5. CASE r = e
    <2>1. Reading(e)
      BY <1>1, <1>5 DEF Performs, Recorded
    <2>2. CASE rf'[e] = mem[AddrOf(e)]
      <3>1. AddrOf(e) \in Addrs
        BY EventShape
      <3>2. \/ mem[AddrOf(e)] = Start
            \/ mem[AddrOf(e)] \in Written /\ AddrOf(mem[AddrOf(e)]) = AddrOf(e)
        BY <3>1, MemYoungest
      <3>3. QED
        BY <1>5, <2>2, <3>2, OrderAfter
    <2>3. CASE rf'[e] \in Own(e)
      <3>1. /\ rf'[e] \in Earlier(e) /\ rf'[e] \notin done /\ AddrOf(rf'[e]) = AddrOf(e)
            /\ Storing(rf'[e])
        BY <2>3 DEF Own, Performs
      <3>2. rf'[e] \in Events /\ Po(rf'[e], e) /\ rf'[e] # e
        <4>1. e[2] \in Nat
          BY EventShape
        <4>2. QED
          BY <3>1, <4>1 DEF Earlier, Po
      <3>3. QED
        BY <1>1, <1>5, <3>1, <3>2
    <2>4. QED
      BY <2>1, <2>2, <2>3 DEF Performs
  <1>6. QED
    BY <1>4, <1>5

LEMMA ClosedStep ==
  ASSUME Program, Recorded, Closed, NEW e \in Events, Performs(e)
  PROVE  Closed'
  <1>1. Still /\ e \notin done /\ done' = done \cup {e} /\ done \subseteq Events
    BY DEF Performs, Recorded
  <1>2. \A d : Earlier(d)' = Earlier(d)
    BY <1>1, StillProgram
  <1> SUFFICES ASSUME NEW b \in done', NEW a \in Earlier(b), OrderedBefore(a, b, b \in Written)'
               PROVE  a \in done'
    BY <1>2 DEF Closed
  <1>3. a \in Events /\ b \in Events /\ a[1] = b[1]
    BY <1>1 DEF Earlier
  <1>4. OrderedBefore(a, b, b \in Written')
    <2>1. \A w : OrderedBefore(a, b, w)' = OrderedBefore(a, b, w)
      BY <1>1, <1>3, StillOrder
    <2>2. QED
      BY <2>1
  <1>5. CASE b = e
    BY <1>1, <1>4, <1>5 DEF Performs
  <1>6. CASE b # e
    <2>1. b \in done /\ (b \in Written' <=> b \in Written)
      BY <1>1, <1>6, OrderAfter
    <2>2. (b \in Written') = (b \in Written)
      BY <2>1
    <2>3. OrderedBefore(a, b, b \in Written)
      BY <1>4, <2>2
    <2>4. QED
      BY <1>1, <2>1, <2>3 DEF Closed
  <1>7. QED
    BY <1>5, <1>6

LEMMA AtomicStep ==
  ASSUME Program, Recorded, Youngest, Atomic, NEW e \in Events, Performs(e)
  PROVE  Atomic'
  <1>1. Still /\ e \notin done
    BY DEF Performs
  <1>2. \A d : AddrOf(d)' = AddrOf(d)
    BY <1>1, StillProgram
  <1> SUFFICES ASSUME NEW d \in Reads', d \in Written'
               PROVE  \E n \in DOMAIN co'[AddrOf(d)] :
                        /\ co'[AddrOf(d)][n] = d
                        /\ rf'[d] = IF n = 1 THEN Start ELSE co'[AddrOf(d)][n - 1]
    BY <1>2 DEF Atomic
  <1> DEFINE a == AddrOf(d)
             l == Len(co[a])
  <1>3. CASE d # e
    <2>1. d \in Reads /\ d \in Written /\ rf'[d] = rf[d]
      BY <1>3, OrderAfter DEF Performs
    <2>2. PICK n \in DOMAIN co[a] : /\ co[a][n] = d
                                    /\ rf[d] = IF n = 1 THEN Start ELSE co[a][n - 1]
      BY <2>1 DEF Atomic
    <2>3. CASE UNCHANGED <<mem, co>>
      BY <2>1, <2>2, <2>3
    <2>4. CASE WriteMem(e)
      <3>1. a \in Addrs
        BY <2>1, WrittenAt
      <3>2. co'[a] = IF a = AddrOf(e) THEN Append(co[a], e) ELSE co[a]
        BY <1>1, <2>4, <3>1, Appended
      <3>3. co[a] \in Seq(done)
        <4>1. co[a] \in Seq({ x \in done : AddrOf(x) = a })
          BY <3>1 DEF Recorded
        <4>2. QED
          BY <4>1
      <3>4. n \in DOMAIN co'[a] /\ co'[a][n] = d /\ (n # 1 => co'[a][n - 1] = co[a][n - 1])
        <4>1. CASE a = AddrOf(e)
          BY <2>2, <3>2, <3>3, <4>1
        <4>2. CASE a # AddrOf(e)
          BY <2>2, <3>2, <4>2
        <4>3. QED
          BY <4>1, <4>2
      <3>5. QED
        BY <2>1, <2>2, <3>4
    <2>5. QED
      BY <2>3, <2>4 DEF Performs
  <1>4. CASE d = e
    <2>1. Reading(e) /\ rf'[e] = mem[a]
      BY <1>1, <1>4 DEF Performs, Recorded
    <2>2. WriteMem(e)
      <3>1. ~(UNCHANGED <<mem, co>>)
        <4>1. SUFFICES ASSUME UNCHANGED <<mem, co>>
                       PROVE  FALSE
          OBVIOUS
        <4>2. Written' = Written
          BY <4>1 DEF Written
        <4>3. QED
          BY <1>4, <4>2, OrderAfter
      <3>2. QED
        BY <3>1 DEF Performs
    <2>3. a \in Addrs /\ co'[a] = Append(co[a], e)
      BY <1>1, <1>4, <2>2, Appended
    <2>4. co[a] \in Seq(done)
      <3>1. co[a] \in Seq({ x \in done : AddrOf(x) = a })
        BY <2>3 DEF Recorded
      <3>2. QED
        BY <3>1
    <2>5. mem[a] = IF co[a] = <<>> THEN Start ELSE co[a][l]
      BY <2>3 DEF Youngest
    <2>6. /\ l \in Nat /\ l + 1 \in DOMAIN co'[a] /\ co'[a][l + 1] = e
          /\ (l + 1 = 1 <=> co[a] = <<>>) /\ (l # 0 => co'[a][(l + 1) - 1] = co[a][l])
      BY <2>3, <2>4
    <2>7. rf'[e] = IF l + 1 = 1 THEN Start ELSE co'[a][(l + 1) - 1]
      BY <2>1, <2>5, <2>6
    <2>8. QED
      BY <1>4, <2>6, <2>7
  <1>5. QED
    BY <1>3, <1>4

-----------------------------------------------------------------------------
(* A step keeps each location coherent *)

\* What a read of location a may have taken its value from.
SourceAt(w, a) ==
  \/ w = Start
  \/ w \in Written /\ AddrOf(w) = a
  \/ w \in Events \ done /\ Storing(w) /\ AddrOf(w) = a

LEMMA DoneBefore ==
  ASSUME Program, Recorded, Closed, NEW b \in done, NEW a \in Events, Po(a, b),
         AddrOf(a) = AddrOf(b), Reading(a) \/ Storing(b) \/ Locked(b)
  PROVE  a \in done
  <1>1. b \in Events
    BY DEF Recorded
  <1>2. OrderedBefore(a, b, b \in Written)
    <2>1. \A w \in BOOLEAN : OrderedBefore(a, b, w)
      BY <1>1, SameAddress
    <2>2. (b \in Written) \in BOOLEAN
      OBVIOUS
    <2>3. QED
      BY <2>1, <2>2, Zenon
  <1>3. a \in Earlier(b)
    BY DEF Earlier, Po
  <1>4. QED
    BY <1>2, <1>3 DEF Closed

LEMMA PoOrder ==
  ASSUME Program, NEW a \in Events, NEW b \in Events, NEW c \in Events
  PROVE  /\ ~Po(a, a)
         /\ Po(a, b) /\ Po(b, c) => Po(a, c)
         /\ a[1] = b[1] => a = b \/ Po(a, b) \/ Po(b, a)
  <1>1. /\ a = <<a[1], a[2]>> /\ b = <<b[1], b[2]>>
        /\ a[2] \in Nat /\ b[2] \in Nat /\ c[2] \in Nat
    BY EventShape
  <1>2. a[1] = b[1] /\ a[2] = b[2] => a = b
    BY <1>1
  <1>3. QED
    BY <1>1, <1>2 DEF Po

LEMMA PendingIsOwn ==
  ASSUME NEW w \in Events \ done, NEW e, Po(w, e), AddrOf(w) = AddrOf(e)
  PROVE  w \in Own(e)
  BY DEF Own, Earlier, Po

\* Performing e turns no age around: what was older before is older after.
LEMMA OlderAfter ==
  ASSUME Program, Recorded, NEW e \in Events, Performs(e), NEW w, NEW v, Older(w, v),
         v = e => Storing(e) /\ SourceAt(w, AddrOf(e))
  PROVE  Older(w, v)'
  <1>1. /\ e \notin done /\ e \notin Written /\ e # Start
        /\ \A x : x # e => (x \in Written' <=> x \in Written)
    BY OrderAfter, EventShape DEF Performs
  <1>2. \A x : x # e => (Pending(x)' <=> Pending(x))
    BY <1>1 DEF Pending
  <1>3. Pending(e) /\ (e \notin Written' => Pending(e)')
    BY <1>1 DEF Pending
  <1>4. CASE w = Start
    BY <1>1, <1>4, WrittenAt DEF Older, Pending
  <1>5. CASE w \in Written
    <2>1. w # e /\ w \in Written' /\ w # Start
      BY <1>1, <1>5, WrittenAt
    <2>2. CoBefore(w, v) \/ Pending(v)
      BY <1>5, <2>1 DEF Older, Pending
    <2>3. CASE v # e
      <3>1. CoBefore(w, v)' \/ Pending(v)'
        BY <1>2, <2>2, <2>3, OrderAfter
      <3>2. QED
        BY <2>1, <3>1 DEF Older
    <2>4. CASE v = e
      <3>1. AddrOf(w) = AddrOf(e)
        BY <1>5, <2>1, <2>4, WrittenAt DEF SourceAt
      <3>2. e \in Written'
        BY <2>4, OrderAfter
      <3>3. CoBefore(w, e)'
        BY <1>5, <3>1, <3>2, OrderAfter
      <3>4. QED
        BY <2>1, <2>4, <3>3 DEF Older
    <2>5. QED
      BY <2>3, <2>4
  <1>6. CASE w # Start /\ w \notin Written
    <2>1. Pending(w) /\ Pending(v) /\ Po(w, v)
      BY <1>6 DEF Older
    <2>2. v # e
      <3>1. SUFFICES ASSUME v = e
                     PROVE  FALSE
        OBVIOUS
      <3>2. w \in Events \ done /\ AddrOf(w) = AddrOf(e)
        BY <1>6, <3>1 DEF SourceAt
      <3>3. w \in Own(e)
        BY <2>1, <3>1, <3>2, PendingIsOwn
      <3>4. QED
        BY <3>1, <3>3 DEF Performs
    <2>3. Pending(v)'
      BY <1>2, <2>1, <2>2
    <2>4. Po(w, v)'
      BY <2>1 DEF Po
    <2>5. w \in Written' \/ Pending(w)'
      BY <1>6 DEF Pending
    <2>6. QED
      BY <2>3, <2>4, <2>5 DEF Older
  <1>7. QED
    BY <1>4, <1>5, <1>6

\* A read takes nothing older than what its thread wrote or read before.
LEMMA NewRead ==
  ASSUME Program, Recorded, Youngest, NEW e \in Events, Performs(e), Reading(e),
         NEW w, SourceAt(w, AddrOf(e)), w \in Events \ done => Po(w, e),
         NEW v, v = rf'[e]
  PROVE  NotYounger(w, v)'
  <1>1. /\ e \notin done /\ e \notin Written /\ e # Start /\ AddrOf(e) \in Addrs
        /\ \A x : x # e => (x \in Written' <=> x \in Written)
    BY OrderAfter, EventShape DEF Performs
  <1>2. w \in Written => w # e /\ w \in Written' /\ w # Start /\ w \in done
    BY <1>1, WrittenAt
  <1>3. CASE v = mem[AddrOf(e)] /\ Own(e) = {}
    <2>1. \/ v = Start
          \/ v \in Written /\ AddrOf(v) = AddrOf(e)
      BY <1>1, <1>3, MemYoungest
    <2>2. v # e /\ v # Start => v \in Written /\ v # Start
      BY <1>1, <2>1
    <2>3. w = Start \/ (w \in Written /\ AddrOf(w) = AddrOf(e))
      <3>1. SUFFICES ASSUME w \in Events \ done, AddrOf(w) = AddrOf(e)
                     PROVE  FALSE
        BY DEF SourceAt
      <3>2. QED
        BY <1>3, <3>1, PendingIsOwn
    <2>4. CASE w = Start
      BY <2>4 DEF NotYounger, Older
    <2>5. CASE w \in Written /\ AddrOf(w) = AddrOf(e)
      <3>1. w = v \/ CoBefore(w, v)
        BY <1>1, <1>3, <2>5, MemYoungest
      <3>2. v # e
        BY <1>1, <2>1
      <3>3. w = v \/ CoBefore(w, v)'
        BY <3>1, <3>2, OrderAfter
      <3>4. QED
        BY <1>2, <2>5, <3>3 DEF NotYounger, Older
    <2>6. QED
      BY <2>3, <2>4, <2>5
  <1>4. CASE e \notin Written' /\ v \in Own(e) /\ \A c \in Own(e) : c[2] <= v[2]
    <2>1. v \in Events /\ v \notin done /\ v[1] = e[1]
      BY <1>4 DEF Own, Earlier
    <2>2. Pending(v)'
      <3>1. v \notin Written /\ v # Start
        BY <2>1, WrittenAt, EventShape
      <3>2. v \notin Written'
        BY <1>1, <1>4, <3>1
      <3>3. QED
        BY <3>1, <3>2 DEF Pending
    <2>3. CASE w = Start \/ w \in Written
      BY <1>2, <2>2, <2>3 DEF NotYounger, Older, Pending
    <2>4. CASE w \in Events \ done /\ AddrOf(w) = AddrOf(e)
      <3>1. w \in Own(e) /\ w[1] = e[1]
        BY <2>4, PendingIsOwn DEF Po
      <3>2. w[2] <= v[2] /\ w[1] = v[1]
        BY <1>4, <2>1, <3>1
      <3>3. w = v \/ Po(w, v)
        <4>1. w = <<w[1], w[2]>> /\ v = <<v[1], v[2]>> /\ w[2] \in Nat /\ v[2] \in Nat
          BY <2>1, <2>4, EventShape
        <4>2. QED
          BY <3>2, <4>1 DEF Po
      <3>4. Pending(w)'
        <4>1. w \notin Written /\ w # Start
          BY <2>4, WrittenAt, EventShape
        <4>2. w \notin Written'
          BY <1>1, <1>4, <4>1
        <4>3. QED
          BY <4>1, <4>2 DEF Pending
      <3>5. Po(w, v)' <=> Po(w, v)
        BY DEF Po
      <3>6. QED
        BY <2>2, <3>3, <3>4, <3>5 DEF NotYounger, Older
    <2>5. QED
      BY <2>3, <2>4 DEF SourceAt
  <1>5. QED
    BY <1>3, <1>4 DEF Performs

LEMMA CoherentStep ==
  ASSUME Program, Recorded, Youngest, Sources, Closed, Coherent, NEW e \in Events, Performs(e)
  PROVE  Coherent'
  <1>1. /\ Still /\ e \notin done /\ e \notin Written /\ e # Start
        /\ done \subseteq Events /\ Reads \subseteq done
    BY OrderAfter, EventShape DEF Performs, Recorded
  <1>2. Events' = Events /\ \A d : AddrOf(d)' = AddrOf(d) /\ (Storing(d)' <=> Storing(d))
    BY <1>1, StillProgram
  <1>3. \A x, y : Po(x, y)' <=> Po(x, y)
    BY DEF Po
  <1>4. /\ \A x : x # e => (x \in Written' <=> x \in Written)
        /\ \A r \in Reads' : r # e => r \in Reads /\ rf'[r] = rf[r]
        /\ Written' \subseteq Events /\ Reads' \subseteq Events
        /\ e \in Reads' => Reading(e)
        /\ e \in Written' => (Storing(e) \/ Locked(e)) /\ Own(e) = {}
    <2>1. /\ \A x : x # e => (x \in Written' <=> x \in Written)
          /\ e \in Written' => (Storing(e) \/ Locked(e)) /\ Own(e) = {}
      BY OrderAfter
    <2>2. \A r \in Reads' : r # e => r \in Reads /\ rf'[r] = rf[r]
      BY DEF Performs
    <2>3. Written' \subseteq Events
      BY <2>1, WrittenAt
    <2>4. e \in Reads' => Reading(e)
      BY <1>1 DEF Performs
    <2>5. Reads' \subseteq Events
      BY <1>1, <2>2
    <2>6. QED
      BY <2>1, <2>2, <2>3, <2>4, <2>5
  \* Nothing that is performed comes after e on its location, but loads after a store.
  <1>5. ASSUME NEW b \in done, Po(e, b), AddrOf(e) = AddrOf(b),
               Reading(e) \/ Storing(b) \/ Locked(b)
        PROVE  FALSE
    BY <1>1, <1>5, DoneBefore
  <1>6. ASSUME NEW r \in Reads
        PROVE  /\ SourceAt(rf[r], AddrOf(r))
               /\ rf[r] \in Events \ done => Po(rf[r], r)
               /\ rf[r] = e => Storing(e) /\ AddrOf(e) = AddrOf(r)
    <2>1. \/ rf[r] = Start
          \/ rf[r] \in Written /\ AddrOf(rf[r]) = AddrOf(r)
          \/ /\ rf[r] \in Events \ done /\ AddrOf(rf[r]) = AddrOf(r)
             /\ Storing(rf[r]) /\ Po(rf[r], r)
      BY DEF Sources
    <2>2. Start \notin Events /\ \A x \in Written : x \in done
      BY WrittenAt, EventShape
    <2>3. QED
      BY <1>1, <2>1, <2>2 DEF SourceAt
  <1>7. ASSUME NEW a \in Written', NEW b \in Written', Po(a, b), AddrOf(a) = AddrOf(b)
        PROVE  CoBefore(a, b)'
    <2>1. CASE b = e
      <3>1. a # e
        BY <1>7, <2>1, PoOrder
      <3>2. a \in Written
        BY <1>4, <3>1
      <3>3. QED
        BY <1>7, <2>1, <3>2, OrderAfter
    <2>2. CASE b # e
      <3>1. b \in Written /\ b \in done
        BY <1>4, <2>2, WrittenAt
      <3>2. Storing(b) \/ Locked(b)
        BY <3>1 DEF Recorded
      <3>3. a # e
        BY <1>5, <1>7, <3>1, <3>2
      <3>4. a \in Written
        BY <1>4, <3>3
      <3>5. CoBefore(a, b)
        BY <1>7, <3>1, <3>4 DEF Coherent
      <3>6. QED
        BY <2>2, <3>5, OrderAfter
    <2>3. QED
      BY <2>1, <2>2
  <1>8. ASSUME NEW a \in Events, NEW b \in Reads', a \in Written' \/ Storing(a), Po(a, b),
               AddrOf(a) = AddrOf(b), NEW v, v = rf'[b]
        PROVE  NotYounger(a, v)'
    <2>1. CASE b = e
      <3>1. a # e
        BY <1>8, <2>1, PoOrder
      <3>2. SourceAt(a, AddrOf(e))
        <4>1. CASE a \in Written
          BY <1>8, <2>1, <4>1 DEF SourceAt
        <4>2. CASE a \notin Written
          <5>1. Storing(a) /\ a \notin done
            BY <1>4, <1>8, <3>1, <4>2 DEF Recorded
          <5>2. QED
            BY <1>8, <2>1, <5>1 DEF SourceAt
        <4>3. QED
          BY <4>1, <4>2
      <3>3. Reading(e)
        BY <1>4, <2>1
      <3>4. QED
        BY <1>8, <2>1, <3>2, <3>3, NewRead
    <2>2. CASE b # e
      <3>1. b \in Reads /\ v = rf[b] /\ b \in done
        BY <1>1, <1>4, <1>8, <2>2
      <3>2. a \in Written \/ Storing(a)
        <4>1. SUFFICES ASSUME a = e, Locked(e)
                       PROVE  FALSE
          BY <1>4, <1>8
        <4>2. Reading(e)
          BY <4>1, AccessKind
        <4>3. QED
          BY <1>5, <1>8, <3>1, <4>1, <4>2
      <3>3. NotYounger(a, v)
        BY <1>8, <3>1, <3>2 DEF Coherent
      <3>4. CASE a = v
        BY <3>4 DEF NotYounger
      <3>5. CASE Older(a, v)
        <4>1. ASSUME v = e
              PROVE  Storing(e) /\ SourceAt(a, AddrOf(e))
          <5>1. Storing(e) /\ AddrOf(e) = AddrOf(b)
            BY <1>6, <3>1, <4>1
          <5>2. a \in Written \/ (Storing(a) /\ a \notin done)
            BY <3>2 DEF Recorded
          <5>3. QED
            BY <1>8, <5>1, <5>2 DEF SourceAt
        <4>2. Older(a, v)'
          BY <3>5, <4>1, OlderAfter
        <4>3. QED
          BY <4>2 DEF NotYounger
      <3>6. QED
        BY <3>3, <3>4, <3>5 DEF NotYounger
    <2>3. QED
      BY <2>1, <2>2
  <1>9. ASSUME NEW a \in Reads', NEW b \in Written', Po(a, b), AddrOf(a) = AddrOf(b),
               NEW w, w = rf'[a]
        PROVE  Older(w, b)'
    <2>1. a # e
      <3>1. SUFFICES ASSUME a = e
                     PROVE  FALSE
        OBVIOUS
      <3>2. b # e
        BY <1>9, <3>1, PoOrder
      <3>3. b \in done
        BY <1>4, <3>2, WrittenAt
      <3>4. QED
        BY <1>4, <1>5, <1>9, <3>1, <3>3
    <2>2. a \in Reads /\ w = rf[a] /\ a \in Events /\ b \in Events
      BY <1>1, <1>4, <1>9, <2>1
    <2>3. CASE b = e
      <3>1. CASE w = Start
        BY <1>1, <2>3, <3>1 DEF Older
      <3>2. CASE w \in Written /\ AddrOf(w) = AddrOf(a)
        <4>1. w \in Written'
          BY <1>1, <1>4, <3>2
        <4>2. CoBefore(w, e)'
          BY <1>9, <2>3, <3>2, OrderAfter
        <4>3. QED
          BY <2>3, <4>1, <4>2 DEF Older
      <3>3. CASE w \in Events \ done /\ AddrOf(w) = AddrOf(a)
        <4>1. Po(w, a)
          BY <1>6, <2>2, <3>3
        <4>2. Po(w, e)
          BY <1>9, <2>2, <2>3, <3>3, <4>1, PoOrder
        <4>3. w \in Own(e)
          BY <1>9, <2>3, <3>3, <4>2, PendingIsOwn
        <4>4. QED
          BY <1>4, <2>3, <4>3
      <3>4. QED
        BY <1>6, <2>2, <3>1, <3>2, <3>3 DEF SourceAt
    <2>4. CASE b # e
      <3>1. b \in Written
        BY <1>4, <2>4
      <3>2. Older(w, b)
        BY <1>9, <2>2, <3>1 DEF Coherent
      <3>3. QED
        BY <2>4, <3>2, OlderAfter
    <2>5. QED
      BY <2>3, <2>4
  <1>10. ASSUME NEW a \in Reads', NEW b \in Reads', Po(a, b), AddrOf(a) = AddrOf(b),
                NEW w, w = rf'[a], NEW v, v = rf'[b]
         PROVE  NotYounger(w, v)'
    <2>1. a # e
      <3>1. SUFFICES ASSUME a = e
                     PROVE  FALSE
        OBVIOUS
      <3>2. b # e
        BY <1>10, <3>1, PoOrder
      <3>3. b \in done
        BY <1>1, <1>4, <3>2
      <3>4. QED
        BY <1>4, <1>5, <1>10, <3>1, <3>3
    <2>2. a \in Reads /\ w = rf[a] /\ a \in Events /\ b \in Events
      BY <1>1, <1>4, <1>10, <2>1
    <2>3. SourceAt(w, AddrOf(a)) /\ (w \in Events \ done => Po(w, a))
      BY <1>6, <2>2
    <2>4. CASE b = e
      <3>1. w \in Events \ done => Po(w, e)
        BY <1>10, <2>2, <2>3, <2>4, PoOrder
      <3>2. QED
        BY <1>4, <1>10, <2>3, <2>4, <3>1, NewRead
    <2>5. CASE b # e
      <3>1. b \in Reads /\ v = rf[b]
        BY <1>4, <1>10, <2>5
      <3>2. NotYounger(w, v)
        BY <1>10, <2>2, <3>1 DEF Coherent
      <3>3. CASE w = v
        BY <3>3 DEF NotYounger
      <3>4. CASE Older(w, v)
        <4>1. v = e => Storing(e) /\ SourceAt(w, AddrOf(e))
          BY <1>6, <1>10, <2>3, <3>1
        <4>2. Older(w, v)'
          BY <3>4, <4>1, OlderAfter
        <4>3. QED
          BY <4>2 DEF NotYounger
      <3>5. QED
        BY <3>2, <3>3, <3>4 DEF NotYounger
    <2>6. QED
      BY <2>4, <2>5
  <1>11. QED
    BY <1>2, <1>3, <1>7, <1>8, <1>9, <1>10 DEF Coherent

-----------------------------------------------------------------------------
(* A step keeps the ordered accesses from going round *)

\* No communication between accesses already performed appears later.
LEMMA OldEdges ==
  ASSUME Program, Recorded, NEW e \in Events, Performs(e), NEW a \in done, NEW b \in done
  PROVE  /\ Rfe(a, b)' => Rfe(a, b)
         /\ Fr(a, b)' => Fr(a, b)
         /\ Co(a, b)' => Co(a, b)
         /\ Kept(a, b)' => Kept(a, b)
  <1>1. Still /\ e \notin done /\ a # e /\ b # e
    BY DEF Performs
  <1>2. \A d : AddrOf(d)' = AddrOf(d) /\ (Locked(d)' <=> Locked(d))
    BY <1>1, StillProgram
  <1>3. /\ a \in Reads' <=> a \in Reads
        /\ b \in Reads' <=> b \in Reads
        /\ a \in Reads => rf'[a] = rf[a]
        /\ b \in Reads => rf'[b] = rf[b]
    BY <1>1 DEF Performs
  <1>4. /\ a \in Written' <=> a \in Written
        /\ b \in Written' <=> b \in Written
        /\ \A w : CoBefore(w, b)' <=> CoBefore(w, b)
    BY <1>1, OrderAfter
  <1>5. Rfe(a, b)' => Rfe(a, b)
    BY <1>3 DEF Rfe, Rf
  <1>6. Fr(a, b)' => Fr(a, b)
    <2>1. SUFFICES ASSUME Fr(a, b)'
                   PROVE  Fr(a, b)
      OBVIOUS
    <2>2. /\ a \in Reads' /\ b \in Written' /\ a # b /\ AddrOf(a)' = AddrOf(b)'
          /\ CoBefore(rf[a], b)'
      BY <2>1 DEF Fr
    <2>3. a \in Reads /\ rf'[a] = rf[a]
      BY <1>3, <2>2
    <2>4. \A w : w = rf'[a] => CoBefore(w, b)'
      BY <2>2
    <2>5. CoBefore(rf[a], b)
      BY <1>4, <2>3, <2>4
    <2>6. QED
      BY <1>2, <1>4, <2>2, <2>3, <2>5 DEF Fr
  <1>7. Co(a, b)' => Co(a, b)
    BY <1>4 DEF Co
  <1>8. Kept(a, b)' => Kept(a, b)
    BY <1>1, <1>2, <1>3 DEF Kept, Po, Still
  <1>9. QED
    BY <1>5, <1>6, <1>7, <1>8

\* The newest access reads from and overwrites, it is neither read nor overwritten.
LEMMA NewestLast ==
  ASSUME Program, Recorded, Youngest, Sources, NEW e \in Events, Performs(e), NEW b \in done'
  PROVE  ~Rfe(e, b)' /\ ~Fr(e, b)' /\ ~Co(e, b)'
  <1>1. Still /\ e \notin done /\ done' = done \cup {e} /\ AddrOf(e) \in Addrs /\ e # Start
    BY EventShape DEF Performs
  <1>2. \A d : AddrOf(d)' = AddrOf(d)
    BY <1>1, StillProgram
  <1>3. ~Rfe(e, b)'
    <2>1. SUFFICES ASSUME b \in Reads', rf'[b] = e, e[1] # b[1]
                   PROVE  FALSE
      BY DEF Rfe, Rf
    <2>2. b # e
      BY <2>1
    <2>3. b \in Reads /\ rf[b] = e
      BY <2>1, <2>2 DEF Performs
    <2>4. e \notin Written
      BY OrderAfter
    <2>5. Po(e, b)
      BY <1>1, <2>3, <2>4 DEF Sources
    <2>6. QED
      BY <2>1, <2>5 DEF Po
  <1>4. ~Co(e, b)'
    BY OrderAfter DEF Co
  <1>5. ~Fr(e, b)'
    <2>1. SUFFICES ASSUME Fr(e, b)'
                   PROVE  FALSE
      OBVIOUS
    <2>2. PICK v : v = rf'[e]
      OBVIOUS
    <2>3. e \in Reads' /\ b \in Written' /\ e # b /\ AddrOf(e) = AddrOf(b) /\ CoBefore(v, b)'
      BY <1>2, <2>1, <2>2 DEF Fr
    <2>4. b \in Written /\ CoBefore(v, b)
      BY <2>3, OrderAfter
    <2>5. Reading(e)
      BY <1>1, <2>3 DEF Performs, Recorded
    <2>6. CASE v = mem[AddrOf(e)]
      BY <1>1, <2>3, <2>4, <2>6, MemYoungest
    <2>7. CASE v \in Own(e)
      <3>1. v \in Events /\ v \notin done
        BY <2>7 DEF Own, Earlier
      <3>2. v # Start /\ v \notin Written
        BY <3>1, EventShape, WrittenAt
      <3>3. QED
        BY <2>4, <3>2 DEF CoBefore
    <2>8. QED
      BY <2>2, <2>5, <2>6, <2>7 DEF Performs
  <1>6. QED
    BY <1>3, <1>4, <1>5

\* A locked instruction and what it must come before or after.
LEMMA DoneStrong ==
  ASSUME Program, Recorded, Closed, NEW b \in done, NEW a \in Events, Po(a, b),
         \A w \in BOOLEAN : OrderedBefore(a, b, w)
  PROVE  a \in done
  <1>1. (b \in Written) \in BOOLEAN
    OBVIOUS
  <1>2. OrderedBefore(a, b, b \in Written)
    BY <1>1, Zenon
  <1>3. a \in Earlier(b)
    BY DEF Earlier, Po
  <1>4. QED
    BY <1>2, <1>3 DEF Closed

LEMMA NoKeptEdge ==
  ASSUME Program, Recorded, Closed, NEW e \in Events, Performs(e), ~Plain(e),
         NEW b \in done, ~Plain(b), Po(e, b)
  PROVE  ~Kept(e, b)' /\ strength # "SC"
  <1>1. Still /\ e \notin done /\ b \in Events /\ b # e
    BY DEF Performs, Recorded
  <1>2. strength # "SC"
    <2>1. SUFFICES ASSUME strength = "SC"
                   PROVE  FALSE
      OBVIOUS
    <2>2. \A w \in BOOLEAN : OrderedBefore(e, b, w)
      BY <1>1, <2>1, ScOrder
    <2>3. QED
      BY <1>1, <2>2, DoneStrong
  <1>3. ASSUME Reading(e) \/ Storing(b) \/ Locked(b)
        PROVE  FALSE
    <2>1. \A w \in BOOLEAN : OrderedBefore(e, b, w)
      BY <1>1, <1>3, StrongOrder
    <2>2. QED
      BY <1>1, <2>1, DoneStrong
  <1>4. SUFFICES ASSUME Kept(e, b)'
                 PROVE  FALSE
    BY <1>2
  <1>5. /\ e \in Reads' => Reading(e)
        /\ b \in Reads' <=> Reading(b)
    BY <1>1 DEF Performs, Recorded
  <1>6. Locked(e)' = Locked(e) /\ Locked(b)' = Locked(b)
    BY <1>1 DEF Still, Locked, OpOf
  <1>7. Storing(b) \/ Reading(b)
    BY <1>1, AccessKind
  <1>8. Locked(e) => Reading(e)
    BY AccessKind
  <1>9. PICK m \in e[2]..b[2] : prog[e[1]][m].op \in {"FENCE_FULL", "ATOMIC_ADD", "ATOMIC_CAS"}
    <2>1. ~(e \in Reads') /\ b \in Reads' /\ ~Locked(e)' /\ ~Locked(b)'
      BY <1>3, <1>5, <1>6, <1>7, <1>8
    <2>2. QED
      BY <1>1, <1>4, <2>1 DEF Kept, Still
  <1>10. CASE prog[e[1]][m].op = "FENCE_FULL"
    <2>1. \A w \in BOOLEAN : OrderedBefore(e, b, w)
      BY <1>1, <1>10, FenceOrders
    <2>2. QED
      BY <1>1, <2>1, DoneStrong
  <1>11. CASE prog[e[1]][m].op \in {"ATOMIC_ADD", "ATOMIC_CAS"}
    <2> DEFINE c == <<e[1], m>>
    <2>1. /\ e = <<e[1], e[2]>> /\ b = <<b[1], b[2]>> /\ e[1] = b[1] /\ e[1] \in Threads
          /\ e[2] \in Nat /\ b[2] \in Nat /\ prog[e[1]] \in Seq(Op)
          /\ e[2] \in DOMAIN prog[e[1]] /\ b[2] \in DOMAIN prog[e[1]]
      BY <1>1, EventShape DEF Po
    <2>2. m \in DOMAIN prog[e[1]] /\ m \in Nat
      BY <2>1
    <2>3. c \in Events
      <3>1. prog[e[1]][m].op \in MemOps
        BY <1>11 DEF MemOps
      <3>2. QED
        BY <2>1, <2>2, <3>1, EventShape
    <2>4. c[1] = e[1] /\ c[2] = m
      OBVIOUS
    <2>5. Locked(c) /\ ~Plain(c)
      BY <1>11, <2>4 DEF Locked, Plain, OpOf
    <2>6. Reading(c)
      BY <2>3, <2>5, AccessKind
    <2> HIDE DEF c
    <2>7. c # e /\ c # b
      <3>1. ~Locked(e) /\ ~Locked(b)
        BY <1>3, <1>8
      <3>2. QED
        BY <2>5, <3>1
    <2>8. Po(e, c) /\ Po(c, b)
      <3>1. c = <<c[1], c[2]>>
        BY <2>3, EventShape
      <3>2. m # e[2] /\ m # b[2]
        BY <2>1, <2>4, <2>7, <3>1
      <3>3. QED
        BY <2>1, <2>2, <2>4, <3>2 DEF Po
    <2>9. c \in done
      <3>1. \A w \in BOOLEAN : OrderedBefore(c, b, w)
        BY <1>1, <2>3, <2>5, <2>6, <2>8, StrongOrder
      <3>2. QED
        BY <2>3, <2>8, <3>1, DoneStrong
    <2>10. e \in done
      <3>1. \A w \in BOOLEAN : OrderedBefore(e, c, w)
        BY <2>3, <2>5, <2>8, StrongOrder
      <3>2. QED
        BY <2>8, <2>9, <3>1, DoneStrong
    <2>11. QED
      BY <1>1, <2>10
  <1>12. QED
    BY <1>9, <1>10, <1>11

LEMMA ForwardStep ==
  ASSUME Program, Recorded, Youngest, Sources, Closed, NEW e \in Events, Performs(e)
  PROVE  /\ ForwardTso => ForwardTso'
         /\ strength = "SC" /\ ForwardSc => ForwardSc'
  <1>1. Still /\ e \notin done /\ done' = done \cup {e} /\ done \subseteq Events
    BY DEF Performs, Recorded
  <1>2. \A d : Plain(d)' <=> Plain(d)
    BY <1>1, StillProgram
  <1>3. \A x, y : Po(x, y)' <=> Po(x, y)
    BY DEF Po
  <1>4. ASSUME NEW b \in done', ~Plain(e), ~Plain(b)
        PROVE  ~GlobalOrder(e, b)' /\ (strength = "SC" => ~ProgramOrder(e, b)')
    <2>1. ~Rfe(e, b)' /\ ~Fr(e, b)' /\ ~Co(e, b)'
      BY NewestLast
    <2>2. CASE Po(e, b)
      <3>1. b \in done
        BY <1>1, <2>2, PoOrder
      <3>2. ~Kept(e, b)' /\ strength # "SC"
        BY <1>4, <2>2, <3>1, NoKeptEdge
      <3>3. QED
        BY <2>1, <3>2 DEF GlobalOrder
    <2>3. CASE ~Po(e, b)
      BY <1>3, <2>1, <2>3 DEF GlobalOrder, ProgramOrder, Kept
    <2>4. QED
      BY <2>2, <2>3
  <1>5. ASSUME NEW a \in done, NEW b \in done
        PROVE  /\ GlobalOrder(a, b)' => GlobalOrder(a, b)
               /\ ProgramOrder(a, b)' => ProgramOrder(a, b)
    BY <1>3, OldEdges DEF GlobalOrder, ProgramOrder
  <1>6. ASSUME ForwardTso
        PROVE  ForwardTso'
    <2> SUFFICES ASSUME NEW S, S # {}, \A d \in S : d \in done' /\ ~Plain(d)
                 PROVE  \E a \in S : \A b \in S : ~GlobalOrder(a, b)'
      BY <1>2 DEF ForwardTso
    <2>1. CASE e \in S
      BY <1>4, <2>1
    <2>2. CASE e \notin S
      <3>1. S \in (SUBSET { d \in done : ~Plain(d) }) \ {{}}
        BY <1>1, <2>2
      <3>2. PICK a \in S : \A b \in S : ~GlobalOrder(a, b)
        BY <1>6, <3>1 DEF ForwardTso
      <3>3. \A b \in S : ~GlobalOrder(a, b)'
        BY <1>5, <3>1, <3>2
      <3>4. QED
        BY <3>3
    <2>3. QED
      BY <2>1, <2>2
  <1>7. ASSUME ForwardSc, strength = "SC"
        PROVE  ForwardSc'
    <2> SUFFICES ASSUME NEW S, S # {}, \A d \in S : d \in done' /\ ~Plain(d)
                 PROVE  \E a \in S : \A b \in S : ~ProgramOrder(a, b)'
      BY <1>2 DEF ForwardSc
    <2>1. CASE e \in S
      BY <1>4, <1>7, <2>1
    <2>2. CASE e \notin S
      <3>1. S \in (SUBSET { d \in done : ~Plain(d) }) \ {{}}
        BY <1>1, <2>2
      <3>2. PICK a \in S : \A b \in S : ~ProgramOrder(a, b)
        BY <1>7, <3>1 DEF ForwardSc
      <3>3. \A b \in S : ~ProgramOrder(a, b)'
        BY <1>5, <3>1, <3>2
      <3>4. QED
        BY <3>3
    <2>3. QED
      BY <2>1, <2>2
  <1>8. QED
    BY <1>6, <1>7

-----------------------------------------------------------------------------
(* The invariant holds *)

LEMMA InitIInv ==
  ASSUME \A c \in Cases : Disciplined(c), Init
  PROVE  IInv
  <1>1. PICK c \in Cases : prog = c.prog /\ policy = c.policy /\ strength = c.strength
    BY DEF Init
  <1>2. /\ done = {} /\ mem = [a \in Addrs |-> Start] /\ rf = [e \in {} |-> Start]
        /\ co = [a \in Addrs |-> <<>>]
    BY DEF Init
  <1>3. Program
    <2>1. /\ prog \in [Threads -> Seq(Op)]
          /\ policy \in {"DRF", "CONSERVATIVE"} /\ strength \in {"SC", "RCPC", "TSO"}
      BY <1>1, LoweringAssumption
    <2>2. Case.prog = c.prog /\ Case.policy = c.policy /\ Case.strength = c.strength
      BY <1>1 DEF Case
    <2>3. Disciplined(c)
      OBVIOUS
    <2>4. Disciplined(Case)
      BY <2>2, <2>3 DEF Disciplined
    <2>5. QED
      BY <2>1, <2>4 DEF Program
  <1>4. Reads = {}
    BY <1>2 DEF Reads
  <1>5. Written = {}
    BY <1>2 DEF Written
  <1>6. Recorded
    BY <1>2, <1>4, <1>5 DEF Recorded
  <1>7. Youngest
    BY <1>2 DEF Youngest
  <1>8. Sources /\ Closed /\ Coherent /\ Atomic
    BY <1>2, <1>4, <1>5 DEF Sources, Closed, Coherent, Atomic
  <1>9. ForwardTso /\ ForwardSc
    BY <1>2 DEF ForwardTso, ForwardSc
  <1>10. QED
    BY <1>3, <1>6, <1>7, <1>8, <1>9 DEF IInv

LEMMA NextIInv ==
  ASSUME IInv, Next
  PROVE  IInv'
  <1>1. PICK e \in Events : Load(e) \/ Store(e) \/ Rmw(e)
    BY DEF Next
  <1>2. Performs(e)
    BY <1>1, LoadPerforms, WritePerforms DEF IInv
  <1>3. Program' /\ strength' = strength
    BY <1>2, StillProgram DEF Performs, IInv, Still
  <1>4. Recorded' /\ Youngest' /\ Sources' /\ Closed' /\ Coherent' /\ Atomic'
    BY <1>2, RecordedStep, YoungestStep, SourcesStep, ClosedStep, CoherentStep, AtomicStep DEF IInv
  <1>5. ForwardTso' /\ (strength = "SC" => ForwardSc')
    BY <1>2, ForwardStep DEF IInv
  <1>6. QED
    BY <1>3, <1>4, <1>5 DEF IInv

LEMMA StutterIInv ==
  ASSUME IInv, UNCHANGED vars
  PROVE  IInv'
  <1>1. /\ Still /\ done' = done /\ mem' = mem /\ rf' = rf /\ co' = co
    BY DEF vars, Still
  <1>2. Program
    BY DEF IInv
  <1>3. /\ Program' /\ Events' = Events
        /\ \A e : /\ AddrOf(e)' = AddrOf(e) /\ Earlier(e)' = Earlier(e)
                  /\ Reading(e)' <=> Reading(e)
                  /\ Storing(e)' <=> Storing(e)
                  /\ Locked(e)' <=> Locked(e)
                  /\ Plain(e)' <=> Plain(e)
    BY <1>1, <1>2, StillProgram
  <1>4. Reads' = Reads /\ Written' = Written
    BY <1>1 DEF Reads, Written
  <1>5. \A w, v : /\ CoBefore(w, v)' <=> CoBefore(w, v)
                  /\ Po(w, v)' <=> Po(w, v)
    BY <1>1, <1>3, <1>4 DEF CoBefore, Po
  <1>6. Recorded'
    BY <1>1, <1>3, <1>4 DEF IInv, Recorded
  <1>7. Youngest'
    BY <1>1 DEF IInv, Youngest
  <1>8. Sources'
    BY <1>1, <1>3, <1>4, <1>5 DEF IInv, Sources
  <1>9. Closed'
    <2> SUFFICES ASSUME NEW b \in done, NEW a \in Earlier(b), OrderedBefore(a, b, b \in Written)'
                 PROVE  a \in done
      BY <1>1, <1>3 DEF Closed
    <2>1. a \in Events /\ b \in Events /\ a[1] = b[1]
      BY DEF Earlier, IInv, Recorded
    <2>2. \A w : OrderedBefore(a, b, w)' = OrderedBefore(a, b, w)
      BY <1>1, <1>2, <2>1, StillOrder
    <2>3. OrderedBefore(a, b, b \in Written)
      BY <1>4, <2>2
    <2>4. QED
      BY <2>3 DEF IInv, Closed
  <1>10. \A w, v : /\ Older(w, v)' <=> Older(w, v)
                   /\ NotYounger(w, v)' <=> NotYounger(w, v)
    BY <1>4, <1>5 DEF Older, NotYounger, Pending
  <1>11. Coherent'
    BY <1>1, <1>3, <1>4, <1>5, <1>10 DEF IInv, Coherent
  <1>12. Atomic'
    BY <1>1, <1>3, <1>4 DEF IInv, Atomic
  <1>13. \A a, b : /\ GlobalOrder(a, b)' <=> GlobalOrder(a, b)
                   /\ ProgramOrder(a, b)' <=> ProgramOrder(a, b)
    <2>1. \A a, b : Kept(a, b)' <=> Kept(a, b)
      BY <1>1, <1>3, <1>4, <1>5 DEF Kept, Still
    <2>2. \A a, b : Rfe(a, b)' <=> Rfe(a, b)
      BY <1>1, <1>4 DEF Rfe, Rf
    <2>3. \A a, b : Fr(a, b)' <=> Fr(a, b)
      BY <1>1, <1>3, <1>4, <1>5 DEF Fr
    <2>4. \A a, b : Co(a, b)' <=> Co(a, b)
      BY <1>4, <1>5 DEF Co
    <2>5. QED
      BY <1>5, <2>1, <2>2, <2>3, <2>4 DEF GlobalOrder, ProgramOrder
  <1>14. ForwardTso' /\ (strength' = "SC" => ForwardSc')
    <2>1. { e \in done' : ~Plain(e)' } = { e \in done : ~Plain(e) }
      BY <1>1, <1>3
    <2>2. strength' = strength
      BY <1>1 DEF Still
    <2>3. QED
      BY <1>13, <2>1, <2>2 DEF IInv, ForwardTso, ForwardSc
  <1>15. QED
    BY <1>3, <1>6, <1>7, <1>8, <1>9, <1>11, <1>12, <1>14 DEF IInv

-----------------------------------------------------------------------------
(* Complete executions: each location is coherent *)

\* The place of a write in the order of its location, and of the value an event wrote
\* or read.
Place(w) ==
  IF w = Start THEN 0 ELSE CHOOSE n \in DOMAIN co[AddrOf(w)] : co[AddrOf(w)][n] = w
Rank(e) == Place(IF e \in Written THEN e ELSE rf[e])

LEMMA PlaceIs ==
  ASSUME Program, Recorded
  PROVE  /\ Place(Start) = 0
         /\ \A a \in Addrs : \A n \in DOMAIN co[a] : Place(co[a][n]) = n
         /\ \A w \in Written : Place(w) \in 1..Len(co[AddrOf(w)])
         /\ \A w, v : CoBefore(w, v) => Place(w) < Place(v)
         /\ \A w, v \in Written : AddrOf(w) = AddrOf(v) /\ Place(w) = Place(v) => w = v
  <1>1. \A a \in Addrs : DOMAIN co[a] = 1..Len(co[a]) /\ Len(co[a]) \in Nat
    <2>1. \A a \in Addrs : co[a] \in Seq({ e \in done : AddrOf(e) = a })
      BY DEF Recorded
    <2>2. QED
      BY <2>1
  <1>2. Place(Start) = 0
    BY DEF Place
  <1>3. ASSUME NEW a \in Addrs, NEW n \in DOMAIN co[a]
        PROVE  Place(co[a][n]) = n
    <2>1. AddrOf(co[a][n]) = a /\ co[a][n] # Start
      BY PlaceOfWrite
    <2>2. \A k \in DOMAIN co[a] : co[a][k] = co[a][n] => k = n
      BY DEF Recorded
    <2>3. Place(co[a][n]) = CHOOSE k \in DOMAIN co[a] : co[a][k] = co[a][n]
      BY <2>1 DEF Place
    <2>4. QED
      BY <2>2, <2>3
  <1>4. ASSUME NEW w \in Written
        PROVE  /\ AddrOf(w) \in Addrs /\ Place(w) \in 1..Len(co[AddrOf(w)])
               /\ co[AddrOf(w)][Place(w)] = w
    <2>1. AddrOf(w) \in Addrs /\ \E n \in DOMAIN co[AddrOf(w)] : co[AddrOf(w)][n] = w
      BY WrittenAt
    <2>2. PICK n \in DOMAIN co[AddrOf(w)] : co[AddrOf(w)][n] = w
      BY <2>1
    <2>3. Place(w) = n
      BY <1>3, <2>1, <2>2
    <2>4. QED
      BY <1>1, <2>1, <2>2, <2>3
  <1>5. ASSUME NEW w, NEW v, CoBefore(w, v)
        PROVE  Place(w) < Place(v)
    <2>1. v \in Written
      BY <1>5 DEF CoBefore
    <2>2. CASE w = Start
      <3>1. Place(v) \in 1..Len(co[AddrOf(v)]) /\ Len(co[AddrOf(v)]) \in Nat
        BY <1>1, <1>4, <2>1
      <3>2. QED
        BY <1>2, <2>2, <3>1
    <2>3. CASE w # Start
      <3>1. AddrOf(w) \in Addrs /\ \E m, n \in DOMAIN co[AddrOf(w)] :
              m < n /\ co[AddrOf(w)][m] = w /\ co[AddrOf(w)][n] = v
        BY <1>5, <2>3, CoBeforePlaces
      <3>2. QED
        BY <1>3, <3>1
    <2>4. QED
      BY <2>2, <2>3
  <1>6. \A w, v \in Written : AddrOf(w) = AddrOf(v) /\ Place(w) = Place(v) => w = v
    BY <1>4
  <1>7. QED
    BY <1>2, <1>3, <1>4, <1>5, <1>6

\* In a complete execution every value has a place.
LEMMA FinishedSources ==
  ASSUME IInv, Finished
  PROVE  /\ \A r \in Reads : rf[r] = Start \/ (rf[r] \in Written /\ AddrOf(rf[r]) = AddrOf(r))
         /\ \A e \in Events : e \notin Written => e \in Reads
         /\ \A e \in Events : Rank(e) \in 0..Len(co[AddrOf(e)]) /\ Len(co[AddrOf(e)]) \in Nat
  <1>1. Program /\ Recorded /\ Sources /\ done = Events
    BY DEF IInv, Finished
  <1>2. \A r \in Reads : rf[r] = Start \/ (rf[r] \in Written /\ AddrOf(rf[r]) = AddrOf(r))
    BY <1>1 DEF Sources
  <1>3. ASSUME NEW e \in Events, e \notin Written
        PROVE  e \in Reads
    <2>1. ~Storing(e)
      BY <1>1, <1>3 DEF Recorded
    <2>2. Reading(e)
      BY <1>1, <2>1, AccessKind
    <2>3. QED
      BY <1>1, <2>2 DEF Recorded
  <1>4. ASSUME NEW e \in Events
        PROVE  Rank(e) \in 0..Len(co[AddrOf(e)]) /\ Len(co[AddrOf(e)]) \in Nat
    <2>1. AddrOf(e) \in Addrs
      BY <1>1, EventShape
    <2>2. co[AddrOf(e)] \in Seq({ d \in done : AddrOf(d) = AddrOf(e) })
      BY <1>1, <2>1 DEF Recorded
    <2>3. Len(co[AddrOf(e)]) \in Nat
      BY <2>2
    <2>4. Place(Start) = 0 /\ \A w \in Written : Place(w) \in 1..Len(co[AddrOf(w)])
      BY <1>1, PlaceIs
    <2>5. CASE e \in Written
      BY <2>3, <2>4, <2>5 DEF Rank
    <2>6. CASE e \notin Written
      <3>1. e \in Reads /\ Rank(e) = Place(rf[e])
        BY <1>3, <2>6 DEF Rank
      <3>2. rf[e] = Start \/ (rf[e] \in Written /\ AddrOf(rf[e]) = AddrOf(e))
        BY <1>2, <3>1
      <3>3. CASE rf[e] = Start
        BY <2>3, <2>4, <3>1, <3>3
      <3>4. CASE rf[e] \in Written /\ AddrOf(rf[e]) = AddrOf(e)
        <4>1. Place(rf[e]) \in 1..Len(co[AddrOf(e)])
          BY <2>4, <3>4
        <4>2. QED
          BY <2>3, <3>1, <4>1
      <3>5. QED
        BY <3>2, <3>3, <3>4
    <2>7. QED
      BY <2>5, <2>6
  <1>5. QED
    BY <1>2, <1>3, <1>4

LEMMA OlderPlaces ==
  ASSUME IInv, Finished, NEW w, NEW v,
         w = Start \/ w \in Written, v = Start \/ v \in Written, Older(w, v)
  PROVE  Place(w) < Place(v)
  <1>1. Program /\ Recorded
    BY DEF IInv
  <1>2. CoBefore(w, v)
    BY <1>1, WrittenAt DEF Older, Pending, CoBefore
  <1>3. QED
    BY <1>1, <1>2, PlaceIs

\* Every edge of Coherence goes to a younger value, or to a read of the same value.
LEMMA CoherenceEdge ==
  ASSUME IInv, Finished, NEW a \in Events, NEW b \in Events, Coherence(a, b)
  PROVE  /\ AddrOf(a) = AddrOf(b)
         /\ \/ Rank(a) < Rank(b)
            \/ Rank(a) = Rank(b) /\ b \notin Written /\ (a \in Written \/ Po(a, b))
  <1>1. Program /\ Recorded /\ Coherent /\ Atomic /\ a # Start /\ b # Start
    BY EventShape DEF IInv
  <1>2. /\ \A r \in Reads : rf[r] = Start \/ (rf[r] \in Written /\ AddrOf(rf[r]) = AddrOf(r))
        /\ \A e \in Events : e \notin Written => e \in Reads
    BY FinishedSources
  <1>3. \A w, v : CoBefore(w, v) => Place(w) < Place(v)
    BY <1>1, PlaceIs
  <1>4. ASSUME NEW e \in Reads, e \in Written
        PROVE  Place(e) \in Nat /\ Place(rf[e]) = Place(e) - 1
    <2>1. AddrOf(e) \in Addrs
      BY <1>1, <1>4, WrittenAt
    <2>2. PICK n \in DOMAIN co[AddrOf(e)] :
            co[AddrOf(e)][n] = e /\ rf[e] = IF n = 1 THEN Start ELSE co[AddrOf(e)][n - 1]
      BY <1>1, <1>4 DEF Atomic
    <2>3. co[AddrOf(e)] \in Seq({ d \in done : AddrOf(d) = AddrOf(e) })
      BY <1>1, <2>1 DEF Recorded
    <2>4. n \in Nat /\ (n # 1 => n - 1 \in DOMAIN co[AddrOf(e)])
      BY <2>3
    <2>5. /\ Place(Start) = 0
          /\ \A k \in DOMAIN co[AddrOf(e)] : Place(co[AddrOf(e)][k]) = k
      BY <1>1, <2>1, PlaceIs
    <2>6. Place(e) = n
      BY <2>2, <2>5
    <2>7. CASE n = 1
      BY <2>2, <2>5, <2>6, <2>7
    <2>8. CASE n # 1
      BY <2>2, <2>4, <2>5, <2>6, <2>8
    <2>9. QED
      BY <2>7, <2>8
  <1>5. CASE Po(a, b) /\ AddrOf(a) = AddrOf(b)
    <2>1. CASE a \in Written /\ b \in Written
      <3>1. CoBefore(a, b)
        BY <1>1, <1>5, <2>1 DEF Coherent
      <3>2. QED
        BY <1>3, <1>5, <2>1, <3>1 DEF Rank
    <2>2. CASE a \in Written /\ b \notin Written
      <3>1. b \in Reads /\ (rf[b] = Start \/ rf[b] \in Written)
        BY <1>2, <2>2
      <3>2. a = rf[b] \/ Older(a, rf[b])
        BY <1>1, <1>5, <2>2, <3>1 DEF Coherent, NotYounger
      <3>3. a = rf[b] \/ Place(a) < Place(rf[b])
        BY <2>2, <3>1, <3>2, OlderPlaces
      <3>4. QED
        BY <1>5, <2>2, <3>3 DEF Rank
    <2>3. CASE a \notin Written /\ b \in Written
      <3>1. a \in Reads /\ (rf[a] = Start \/ rf[a] \in Written)
        BY <1>2, <2>3
      <3>2. Older(rf[a], b)
        BY <1>1, <1>5, <2>3, <3>1 DEF Coherent
      <3>3. Place(rf[a]) < Place(b)
        BY <2>3, <3>1, <3>2, OlderPlaces
      <3>4. QED
        BY <1>5, <2>3, <3>3 DEF Rank
    <2>4. CASE a \notin Written /\ b \notin Written
      <3>1. a \in Reads /\ (rf[a] = Start \/ rf[a] \in Written)
        BY <1>2, <2>4
      <3>2. b \in Reads /\ (rf[b] = Start \/ rf[b] \in Written)
        BY <1>2, <2>4
      <3>3. rf[a] = rf[b] \/ Older(rf[a], rf[b])
        BY <1>1, <1>5, <3>1, <3>2 DEF Coherent, NotYounger
      <3>4. rf[a] = rf[b] \/ Place(rf[a]) < Place(rf[b])
        BY <3>1, <3>2, <3>3, OlderPlaces
      <3>5. QED
        BY <1>5, <2>4, <3>4 DEF Rank
    <2>5. QED
      BY <2>1, <2>2, <2>3, <2>4
  <1>6. CASE Rf(a, b)
    <2>1. b \in Reads /\ rf[b] = a
      BY <1>6 DEF Rf
    <2>2. a \in Written /\ AddrOf(a) = AddrOf(b)
      BY <1>1, <1>2, <2>1
    <2>3. CASE b \notin Written
      BY <2>1, <2>2, <2>3 DEF Rank
    <2>4. CASE b \in Written
      <3>1. Place(b) \in Nat /\ Place(a) = Place(b) - 1
        BY <1>4, <2>1, <2>4
      <3>2. Rank(a) = Place(a) /\ Rank(b) = Place(b)
        BY <2>2, <2>4 DEF Rank
      <3>3. QED
        BY <2>2, <3>1, <3>2
    <2>5. QED
      BY <2>3, <2>4
  <1>7. CASE Fr(a, b)
    <2>1. a \in Reads /\ b \in Written /\ a # b /\ AddrOf(a) = AddrOf(b) /\ CoBefore(rf[a], b)
      BY <1>7 DEF Fr
    <2>2. Place(rf[a]) < Place(b) /\ Rank(b) = Place(b)
      BY <1>3, <2>1 DEF Rank
    <2>3. CASE a \notin Written
      BY <2>1, <2>2, <2>3 DEF Rank
    <2>4. CASE a \in Written
      <3>1. Place(a) \in Nat /\ Place(rf[a]) = Place(a) - 1 /\ Rank(a) = Place(a)
        BY <1>4, <2>1, <2>4 DEF Rank
      <3>2. Place(a) # Place(b)
        BY <1>1, <2>1, <2>4, PlaceIs
      <3>3. Place(b) \in Nat
        <4>1. Rank(b) \in 0..Len(co[AddrOf(b)]) /\ Len(co[AddrOf(b)]) \in Nat
          BY FinishedSources
        <4>2. QED
          BY <2>2, <4>1
      <3>4. QED
        BY <2>1, <2>2, <3>1, <3>2, <3>3
    <2>5. QED
      BY <2>3, <2>4
  <1>8. CASE Co(a, b)
    <2>1. a \in Written /\ b \in Written /\ CoBefore(a, b) /\ AddrOf(a) = AddrOf(b)
      BY <1>1, <1>8 DEF Co, CoBefore
    <2>2. QED
      BY <1>3, <2>1 DEF Rank
  <1>9. QED
    BY <1>5, <1>6, <1>7, <1>8 DEF Coherence

\* Some events of one thread: one of them is the last.
LEMMA LatestOf ==
  ASSUME Program, NEW M, M \subseteq Events, M # {}, NEW t, \A x \in M : x[1] = t
  PROVE  \E x \in M : \A y \in M : ~Po(x, y)
  <1>1. PICK z : z \in M
    OBVIOUS
  <1>2. t \in Threads /\ prog[t] \in Seq(Op) /\ Len(prog[t]) \in Nat
    <2>1. t \in Threads /\ prog[t] \in Seq(Op)
      BY <1>1, EventShape
    <2>2. QED
      BY <2>1
  <1>3. \A x \in M : x[2] \in 0..Len(prog[t])
    <2>1. \A x \in M : x[2] \in DOMAIN prog[t]
      BY EventShape
    <2>2. QED
      BY <1>2, <2>1
  <1> DEFINE T == { x[2] : x \in M }
  <1>4. T \subseteq 0..Len(prog[t]) /\ T # {}
    BY <1>1, <1>3
  <1>5. PICK n \in T : \A k \in T : k <= n
    BY <1>2, <1>4, Greatest
  <1>6. PICK x \in M : n = x[2]
    OBVIOUS
  <1>7. ASSUME NEW y \in M
        PROVE  ~Po(x, y)
    <2>1. y[2] <= x[2]
      BY <1>5, <1>6
    <2>2. y[2] \in Nat /\ x[2] \in Nat
      BY EventShape
    <2>3. QED
      BY <2>1, <2>2 DEF Po
  <1>8. QED
    BY <1>7

\* Among the events of a set that touch one location, take those with the youngest value,
\* and of these a last read if there is one.
LEMMA CoherenceAcyclic ==
  ASSUME IInv, Finished
  PROVE  Acyclic(Coherence)
  <1>1. Program /\ done = Events
    BY DEF IInv, Finished
  <1> SUFFICES ASSUME NEW S, S \subseteq Events, S # {}
               PROVE  \E a \in S : \A b \in S : ~Coherence(a, b)
    BY <1>1 DEF Acyclic
  <1>2. PICK z : z \in S
    OBVIOUS
  <1> DEFINE a == AddrOf(z)
             A == { x \in S : AddrOf(x) = a }
             T == { Rank(x) : x \in A }
  <1>3. Len(co[a]) \in Nat /\ \A x \in A : Rank(x) \in 0..Len(co[a])
    BY <1>2, FinishedSources
  <1>4. T \subseteq 0..Len(co[a]) /\ T # {}
    BY <1>2, <1>3
  <1>5. PICK r \in T : \A k \in T : k <= r
    BY <1>3, <1>4, Greatest
  <1>6. PICK y \in A : r = Rank(y)
    OBVIOUS
  <1>7. \A x \in A : Rank(x) \in Nat /\ Rank(x) <= r /\ r \in Nat
    BY <1>3, <1>5, <1>6
  <1>8. ASSUME NEW x \in A, Rank(x) = r, NEW b \in S, Coherence(x, b)
        PROVE  b \in A /\ Rank(b) = r /\ b \notin Written /\ (x \in Written \/ Po(x, b))
    <2>1. /\ AddrOf(x) = AddrOf(b)
          /\ \/ Rank(x) < Rank(b)
             \/ Rank(x) = Rank(b) /\ b \notin Written /\ (x \in Written \/ Po(x, b))
      BY <1>8, CoherenceEdge
    <2>2. b \in A
      BY <2>1
    <2>3. ~(Rank(x) < Rank(b))
      BY <1>7, <1>8, <2>2
    <2>4. QED
      BY <1>8, <2>1, <2>2, <2>3
  <1> DEFINE R == { x \in A : Rank(x) = r /\ x \notin Written }
  <1>9. CASE R = {}
    <2>1. \A b \in S : ~Coherence(y, b)
      BY <1>6, <1>8, <1>9
    <2>2. QED
      BY <2>1
  <1>10. CASE R # {}
    <2>1. PICK q : q \in R
      BY <1>10
    <2> DEFINE M == { x \in R : x[1] = q[1] }
    <2>2. M \subseteq Events /\ M # {} /\ \A x \in M : x[1] = q[1]
      BY <2>1
    <2>3. PICK x \in M : \A b \in M : ~Po(x, b)
      BY <1>1, <2>2, LatestOf
    <2>4. ASSUME NEW b \in S, Coherence(x, b)
          PROVE  FALSE
      <3>1. x \in A /\ Rank(x) = r /\ x \notin Written /\ x[1] = q[1]
        OBVIOUS
      <3>2. b \in R /\ Po(x, b)
        BY <1>8, <2>4, <3>1
      <3>3. b \in M
        BY <3>1, <3>2 DEF Po
      <3>4. QED
        BY <2>3, <3>2, <3>3
    <2>5. QED
      BY <2>4
  <1>11. QED
    BY <1>9, <1>10

-----------------------------------------------------------------------------
(* Complete executions: the accesses of all threads have one order *)

\* An address that one thread accesses plainly belongs to that thread.
LEMMA PlainIsPrivate ==
  ASSUME Program, NEW a \in Events, NEW b \in Events, Plain(a), AddrOf(a) = AddrOf(b)
  PROVE  a[1] = b[1]
  <1>1. /\ a[1] \in Threads /\ a[2] \in DOMAIN prog[a[1]]
        /\ b[1] \in Threads /\ b[2] \in DOMAIN prog[b[1]]
        /\ OpOf(a) = prog[a[1]][a[2]] /\ OpOf(b) = prog[b[1]][b[2]] /\ OpOf(b).op \in MemOps
    BY EventShape DEF OpOf
  <1>2. Case.prog = prog /\ Case.policy = policy
    BY DEF Case
  <1>3. \/ OpOf(a).op \in {"PUSH", "POP"}
        \/ OpOf(a).op \in {"LOAD", "STORE"} /\ policy = "DRF" /\ OpOf(a).mclass = "LOCAL"
    <2>1. policy \in {"DRF", "CONSERVATIVE"} /\ OpOf(a) \in Op
      BY EventShape DEF Program
    <2>2. OpOf(a).mclass \in {"LOCAL", "SHARED"}
      BY <2>1 DEF Op
    <2>3. QED
      BY <2>1, <2>2 DEF Plain, ordered
  <1>4. \A u \in Threads \ {a[1]} : \A j \in DOMAIN prog[u] :
          prog[u][j].op \in MemOps => prog[u][j].addr # OpOf(a).addr
    BY <1>1, <1>2, <1>3 DEF Program, Disciplined
  <1>5. QED
    BY <1>1, <1>4 DEF AddrOf

\* A plain access communicates along program order only.
LEMMA PlainEdge ==
  ASSUME IInv, Finished, NEW a \in Events, NEW b \in Events, Plain(a) \/ Plain(b),
         Rfe(a, b) \/ Fr(a, b) \/ Co(a, b)
  PROVE  Po(a, b) /\ Kept(a, b)
  <1>1. Program /\ Recorded /\ done = Events /\ a # Start
    BY EventShape DEF IInv, Finished
  <1>2. AddrOf(a) = AddrOf(b)
    <2>1. CASE Rfe(a, b)
      BY <1>1, <2>1, FinishedSources DEF Rfe, Rf
    <2>2. CASE Fr(a, b)
      BY <2>2 DEF Fr
    <2>3. CASE Co(a, b)
      BY <1>1, <2>3 DEF Co, CoBefore
    <2>4. QED
      BY <2>1, <2>2, <2>3
  <1>3. a[1] = b[1]
    BY <1>1, <1>2, PlainIsPrivate
  <1>4. Fr(a, b) \/ Co(a, b)
    BY <1>3 DEF Rfe
  <1>5. Coherence(a, b) /\ a # b
    <2>1. a # b
      BY <1>1, <1>4, CoBeforeIrreflexive DEF Fr, Co
    <2>2. QED
      BY <1>4, <2>1 DEF Coherence
  <1>6. ~Po(b, a)
    <2>1. SUFFICES ASSUME Po(b, a)
                   PROVE  FALSE
      OBVIOUS
    <2>2. Coherence(b, a)
      BY <1>2, <2>1 DEF Coherence
    <2>3. {a, b} \in (SUBSET done) \ {{}}
      BY <1>1
    <2>4. \E x \in {a, b} : \A y \in {a, b} : ~Coherence(x, y)
      BY <2>3, CoherenceAcyclic DEF Acyclic
    <2>5. QED
      BY <1>5, <2>2, <2>4
  <1>7. Po(a, b)
    BY <1>1, <1>3, <1>5, <1>6, PoOrder
  <1>8. a \in Reads \/ b \notin Reads \/ Locked(b)
    <2>1. CASE Fr(a, b)
      BY <2>1 DEF Fr
    <2>2. CASE Co(a, b)
      <3>1. b \in Written
        BY <2>2 DEF Co, CoBefore
      <3>2. Storing(b) \/ Locked(b)
        BY <1>1, <3>1 DEF Recorded
      <3>3. ~Reading(b) \/ Locked(b)
        BY <1>1, <3>2, AccessKind
      <3>4. QED
        BY <1>1, <3>3 DEF Recorded
    <2>3. QED
      BY <1>4, <2>1, <2>2
  <1>9. QED
    BY <1>7, <1>8 DEF Kept

LEMMA KeptTransitive ==
  ASSUME Program, NEW a \in Events, NEW b \in Events, NEW c \in Events, Kept(a, b), Kept(b, c)
  PROVE  Kept(a, c)
  <1>1. /\ Po(a, b) /\ Po(b, c) /\ Po(a, c) /\ a[1] = b[1]
        /\ a[2] \in Nat /\ b[2] \in Nat /\ c[2] \in Nat /\ a[2] < b[2] /\ b[2] < c[2]
    BY PoOrder, EventShape DEF Kept, Po
  <1> DEFINE Strong(m) == prog[a[1]][m].op \in {"FENCE_FULL", "ATOMIC_ADD", "ATOMIC_CAS"}
  <1>2. /\ \A m \in a[2]..b[2] : m \in a[2]..c[2]
        /\ \A m \in b[2]..c[2] : m \in a[2]..c[2]
        /\ b[2] \in a[2]..c[2]
    BY <1>1
  <1>3. Locked(b) => Strong(b[2])
    BY <1>1 DEF Locked, OpOf
  <1>4. \/ a \in Reads \/ b \notin Reads \/ Locked(a) \/ Locked(b)
        \/ \E m \in a[2]..b[2] : Strong(m)
    BY DEF Kept
  <1>5. \/ b \in Reads \/ c \notin Reads \/ Locked(b) \/ Locked(c)
        \/ \E m \in b[2]..c[2] : Strong(m)
    BY <1>1 DEF Kept
  <1> HIDE DEF Strong
  <1>6. \/ a \in Reads \/ c \notin Reads \/ Locked(a) \/ Locked(c)
        \/ \E m \in a[2]..c[2] : Strong(m)
    BY <1>2, <1>3, <1>4, <1>5
  <1>7. QED
    BY <1>1, <1>6 DEF Kept, Strong

\* The edges of G at plain accesses all belong to K, a transitive part of program order,
\* and the ordered accesses alone do not go round in G.
AlongProgram(G, K) ==
  /\ K \subseteq G
  /\ \A a, b \in Events : <<a, b>> \in K => Po(a, b)
  /\ \A a, b, c \in Events : <<a, b>> \in K /\ <<b, c>> \in K => <<a, c>> \in K
  /\ \A a, b \in Events : <<a, b>> \in G /\ (Plain(a) \/ Plain(b)) => <<a, b>> \in K
  /\ \A N : N # {} /\ (\A x \in N : x \in Events /\ ~Plain(x)) =>
             \E a \in N : \A b \in N : <<a, b>> \notin G

\* Then nothing goes round in G.
LEMMA Bypass ==
  ASSUME Program, NEW G, NEW K, AlongProgram(G, K), NEW S, S \subseteq Events, S # {}
  PROVE  \E a \in S : \A b \in S : <<a, b>> \notin G
  <1> USE DEF AlongProgram
  <1> DEFINE N == { x \in S : ~Plain(x) }
  <1>1. CASE N = {}
    <2>1. PICK z : z \in S
      OBVIOUS
    <2>2. \A x \in S : Plain(x)
      BY <1>1
    <2> DEFINE M == { x \in S : x[1] = z[1] }
    <2>3. M \subseteq Events /\ M # {} /\ \A x \in M : x[1] = z[1]
      BY <2>1
    <2>4. PICK x \in M : \A y \in M : ~Po(x, y)
      BY <2>3, LatestOf
    <2>5. ASSUME NEW b \in S, <<x, b>> \in G
          PROVE  FALSE
      <3>1. Po(x, b)
        BY <2>2, <2>5
      <3>2. b \in M
        BY <3>1 DEF Po
      <3>3. QED
        BY <2>4, <3>1, <3>2
    <2>6. QED
      BY <2>5
  <1>2. CASE N # {}
    <2>1. PICK m \in N : \A b \in N : <<m, b>> \notin G
      <3>1. \A x \in N : x \in Events /\ ~Plain(x)
        OBVIOUS
      <3>2. QED
        BY <1>2, <3>1
    <2> DEFINE Q == { x \in S : <<m, x>> \in K }
    <2>2. CASE Q = {}
      <3>1. ASSUME NEW b \in S, <<m, b>> \in G
            PROVE  FALSE
        <4>1. Plain(b)
          BY <2>1, <3>1
        <4>2. b \in Q
          BY <3>1, <4>1
        <4>3. QED
          BY <2>2, <4>2
      <3>2. QED
        BY <3>1
    <2>3. CASE Q # {}
      <3>1. \A x \in Q : x \in Events /\ x[1] = m[1] /\ Plain(x)
        BY <2>1 DEF Po
      <3>2. Q \subseteq Events
        BY <3>1
      <3>3. PICK x \in Q : \A y \in Q : ~Po(x, y)
        BY <2>3, <3>1, <3>2, LatestOf
      <3>4. ASSUME NEW b \in S, <<x, b>> \in G
            PROVE  FALSE
        <4>1. <<x, b>> \in K
          BY <3>1, <3>4
        <4>2. b \in Q
          BY <4>1
        <4>3. Po(x, b)
          BY <4>1
        <4>4. QED
          BY <3>3, <4>2, <4>3
      <3>5. QED
        BY <3>4
    <2>4. QED
      BY <2>2, <2>3
  <1>3. QED
    BY <1>1, <1>2

LEMMA GlobalOrderAcyclic ==
  ASSUME IInv, Finished
  PROVE  Acyclic(GlobalOrder)
  <1>1. Program /\ done = Events /\ ForwardTso
    BY DEF IInv, Finished
  <1> SUFFICES ASSUME NEW S, S \subseteq Events, S # {}
               PROVE  \E a \in S : \A b \in S : ~GlobalOrder(a, b)
    BY <1>1 DEF Acyclic
  <1> DEFINE G == { p \in Events \X Events : GlobalOrder(p[1], p[2]) }
             K == { p \in Events \X Events : Kept(p[1], p[2]) }
  <1>2. \A a, b \in Events : /\ <<a, b>> \in G <=> GlobalOrder(a, b)
                             /\ <<a, b>> \in K <=> Kept(a, b)
    OBVIOUS
  <1>3. K \subseteq G
    BY DEF GlobalOrder
  <1> HIDE DEF G, K
  <1>4. \A a, b \in Events : <<a, b>> \in K => Po(a, b)
    BY <1>2 DEF Kept
  <1>5. \A a, b, c \in Events : <<a, b>> \in K /\ <<b, c>> \in K => <<a, c>> \in K
    BY <1>1, <1>2, KeptTransitive
  <1>6. \A a, b \in Events : <<a, b>> \in G /\ (Plain(a) \/ Plain(b)) => <<a, b>> \in K
    BY <1>2, PlainEdge DEF GlobalOrder
  <1>7. ASSUME NEW N, N # {}, \A x \in N : x \in Events /\ ~Plain(x)
        PROVE  \E a \in N : \A b \in N : <<a, b>> \notin G
    <2>1. N \in (SUBSET { e \in done : ~Plain(e) }) \ {{}}
      BY <1>1, <1>7
    <2>2. PICK a \in N : \A b \in N : ~GlobalOrder(a, b)
      BY <1>1, <2>1 DEF ForwardTso
    <2>3. \A b \in N : <<a, b>> \notin G
      BY <1>2, <1>7, <2>2
    <2>4. QED
      BY <2>3
  <1>8. \A N : N # {} /\ (\A x \in N : x \in Events /\ ~Plain(x)) =>
                 \E a \in N : \A b \in N : <<a, b>> \notin G
    BY <1>7
  <1>9. AlongProgram(G, K)
    BY <1>3, <1>4, <1>5, <1>6, <1>8 DEF AlongProgram
  <1>10. \E a \in S : \A b \in S : <<a, b>> \notin G
    BY <1>1, <1>9, Bypass
  <1>11. QED
    BY <1>2, <1>10

LEMMA ProgramOrderAcyclic ==
  ASSUME IInv, Finished, strength = "SC"
  PROVE  Acyclic(ProgramOrder)
  <1>1. Program /\ done = Events /\ ForwardSc
    BY DEF IInv, Finished
  <1> SUFFICES ASSUME NEW S, S \subseteq Events, S # {}
               PROVE  \E a \in S : \A b \in S : ~ProgramOrder(a, b)
    BY <1>1 DEF Acyclic
  <1> DEFINE G == { p \in Events \X Events : ProgramOrder(p[1], p[2]) }
             K == { p \in Events \X Events : Po(p[1], p[2]) }
  <1>2. \A a, b \in Events : /\ <<a, b>> \in G <=> ProgramOrder(a, b)
                             /\ <<a, b>> \in K <=> Po(a, b)
    OBVIOUS
  <1>3. K \subseteq G
    BY DEF ProgramOrder
  <1> HIDE DEF G, K
  <1>4. \A a, b \in Events : <<a, b>> \in K => Po(a, b)
    BY <1>2
  <1>5. \A a, b, c \in Events : <<a, b>> \in K /\ <<b, c>> \in K => <<a, c>> \in K
    BY <1>1, <1>2, PoOrder
  <1>6. \A a, b \in Events : <<a, b>> \in G /\ (Plain(a) \/ Plain(b)) => <<a, b>> \in K
    BY <1>2, PlainEdge DEF ProgramOrder
  <1>7. ASSUME NEW N, N # {}, \A x \in N : x \in Events /\ ~Plain(x)
        PROVE  \E a \in N : \A b \in N : <<a, b>> \notin G
    <2>1. N \in (SUBSET { e \in done : ~Plain(e) }) \ {{}}
      BY <1>1, <1>7
    <2>2. PICK a \in N : \A b \in N : ~ProgramOrder(a, b)
      BY <1>1, <2>1 DEF ForwardSc
    <2>3. \A b \in N : <<a, b>> \notin G
      BY <1>2, <1>7, <2>2
    <2>4. QED
      BY <2>3
  <1>8. \A N : N # {} /\ (\A x \in N : x \in Events /\ ~Plain(x)) =>
                 \E a \in N : \A b \in N : <<a, b>> \notin G
    BY <1>7
  <1>9. AlongProgram(G, K)
    BY <1>3, <1>4, <1>5, <1>6, <1>8 DEF AlongProgram
  <1>10. \E a \in S : \A b \in S : <<a, b>> \notin G
    BY <1>1, <1>9, Bypass
  <1>11. QED
    BY <1>2, <1>10

-----------------------------------------------------------------------------
(* The theorems *)

\* The records of the machine, the coherence of each location and the order of the
\* ordered accesses are invariant, for every disciplined program, policy and strength.
THEOREM Invariance ==
  ASSUME \A c \in Cases : Disciplined(c)
  PROVE  Spec => []IInv
  <1>1. Init => IInv
    BY InitIInv
  <1>2. IInv /\ [Next]_vars => IInv'
    BY NextIInv, StutterIInv
  <1>3. QED
    BY <1>1, <1>2, PTL DEF Spec

\* Whatever the guest program, however many threads it has: if plain accesses are to
\* private addresses and the strength suits its locked instructions, every complete
\* execution of the emitted code is one that x86-TSO allows.
THEOREM LoweringIsTSO ==
  ASSUME \A c \in Cases : Disciplined(c)
  PROVE  Spec => []TSOConsistent
  <1>1. IInv => TSOConsistent
    BY CoherenceAcyclic, GlobalOrderAcyclic DEF TSOConsistent
  <1>2. QED
    BY <1>1, Invariance, PTL

\* With LDAR and STLR a complete execution is sequentially consistent: it also keeps
\* every store before the later loads of its thread.
THEOREM ScStrengthIsSC ==
  ASSUME \A c \in Cases : Disciplined(c)
  PROVE  Spec => []SequentiallyConsistent
  <1>1. IInv => SequentiallyConsistent
    BY ProgramOrderAcyclic DEF SequentiallyConsistent
  <1>2. QED
    BY <1>1, Invariance, PTL

=============================================================================

---------------------------- MODULE LitmusProofs ----------------------------
(***************************************************************************)
(* The rounds of the litmus detector do not mix and its verdicts are never *)
(* false, for any number of rounds, every option and every order of its    *)
(* accesses that AArch64 allows.                                           *)
(*                                                                         *)
(* First the shapes of the programs and the order kept of them, then the   *)
(* handshake (IInv), and on it the values of each round (VInv).            *)
(***************************************************************************)
EXTENDS Litmus, SequenceTheorems, TLAPS

Rounds == 1..Iters

DoneLoc(t) == IF t = "t0" THEN "t0_done" ELSE IF t = "t1" THEN "t1_done" ELSE "t2_done"

\* Where worker t leaves what it has seen.
Kept(c, t) ==
  IF t = "t0" THEN IF c.test = "sb" THEN {"t0_a"} ELSE {}
  ELSE IF t = "t1" THEN IF c.test = "mp" THEN {"t1_a", "t1_b"} ELSE {"t1_a"}
  ELSE {"t2_a", "t2_b"}

\* Which worker stores to x and to y, and which of them worker t loads.
Writer(c, l) == IF l = "x" \/ c.test = "mp" THEN "t0" ELSE "t1"
Puts(c, t) == { l \in {"x", "y"} : Writer(c, l) = t }
Gets(c, t) ==
  IF t = "t0" THEN IF c.test = "sb" THEN {"y"} ELSE {}
  ELSE IF t = "t1" /\ c.test # "mp" THEN {"x"} ELSE {"x", "y"}

\* The register that t's load of l fills, and the one the result l is taken from.
GetReg(c, t, l) ==
  IF t = "t0" THEN "r0"
  ELSE IF t = "t1" THEN IF c.test = "mp" /\ l = "x" THEN "r2" ELSE "r1"
  ELSE IF l = "y" THEN "r2" ELSE "r3"
KeptReg(l) ==
  IF l = "t0_a" THEN "r0" ELSE IF l = "t1_a" THEN "r1"
  ELSE IF l \in {"t1_b", "t2_a"} THEN "r2" ELSE "r3"

\* The events the handshake is made of: main's reset of l and opening of the gate
\* in round i, its wait for worker t, and the worker's first and last event.
ResetEv(l, i) == <<"main", i, IF l = "x" THEN 1 ELSE 2>>
OpenEv(i)     == <<"main", i, 3>>
JoinEv(t, i)  == <<"main", i, IF t = "t0" THEN 4 ELSE IF t = "t1" THEN 5 ELSE 6>>
StartEv(t, i) == <<t, i, 1>>
EndEv(t, i)   == <<t, i, Len(Round(cfg, t, i))>>

-----------------------------------------------------------------------------
(* The inductive invariant *)

\* The programs are what Init made of the options, and each actor's order is one of
\* the two the machine knows.
Programs ==
  /\ cfg \in Configs
  /\ prog = [t \in Actors(cfg) |-> [i \in Rounds |-> Round(cfg, t, i)]]
  /\ DOMAIN order = Actors(cfg) /\ DOMAIN tso = Actors(cfg)
  /\ \A t \in Actors(cfg) : order[t] \in {Order(t, TRUE), Order(t, FALSE)}
  /\ \A t \in Actors(cfg) : tso[t] = "ask" => \A e \in done : e[1] # t

\* Whatever must precede a performed access has been performed.
Closed ==
  \A e \in done :
    /\ e[1] \in Actors(cfg) /\ e \in Accesses(e[1])
    /\ order[e[1]][e] \subseteq done

\* A gate shows i only after round i was signalled.
GateSignalled ==
  /\ DOMAIN mem = Locs
  /\ mem["gate_go"].val \in Nat
  /\ \A i \in Rounds : mem["gate_go"].val >= i => OpenEv(i) \in done
  /\ \A t \in Workers(cfg) :
       /\ mem[DoneLoc(t)].val \in Nat
       /\ \A i \in Rounds : mem[DoneLoc(t)].val >= i => EndEv(t, i) \in done

\* Nobody passes a gate of round i before it is signalled.
Handshake ==
  \A t \in Workers(cfg), i \in Rounds :
    /\ StartEv(t, i) \in done => OpenEv(i) \in done
    /\ JoinEv(t, i) \in done => EndEv(t, i) \in done

\* From its reset in round i to the next, x (and y) holds a value of round i.
DataFresh ==
  \A l \in {"x", "y"}, i \in Rounds :
    ResetEv(l, i) \in done /\ ResetEv(l, i + 1) \notin done => mem[l].round = i

\* So does a result from the worker's store of it to the worker's next round.
ResultFresh ==
  \A t \in Workers(cfg) : \A l \in Kept(cfg, t), e \in done :
    e[1] = t /\ At(e).loc = l /\ StartEv(t, e[2] + 1) \notin done
      => mem[l].round = e[2]

IInv == Programs /\ Closed /\ GateSignalled /\ Handshake /\ DataFresh /\ ResultFresh
          /\ RoundsApart

-----------------------------------------------------------------------------
(* What the programs look like *)

Ops  == Barriers \cup {"LDR", "LDAR", "LDAPR", "STR", "STLR"}
Regs == {"r0", "r1", "r2", "r3"}
Insns == [op : Ops, loc : Locs \cup {None}, val : Nat, r : Regs \cup {None}]


\* The instructions a mapping makes of a store and of a load.
StoreOp(c) == IF c.map \in {"rcpc", "sc"} THEN "STLR" ELSE "STR"
LoadOp(c)  == IF c.map = "rcpc" THEN "LDAPR" ELSE IF c.map = "sc" THEN "LDAR" ELSE "LDR"

\* What a worker does between its gates.
Inner(c, t) ==
  { in \in Insns :
      \/ in.op \in Barriers
      \/ in.op = StoreOp(c) /\ in.loc \in Puts(c, t) /\ in.val = 1 /\ in.r = None
      \/ in.op = LoadOp(c) /\ in.loc \in Gets(c, t) /\ in.val = 0 /\ in.r = GetReg(c, t, in.loc)
      \/ in.op = "STR" /\ in.loc \in Kept(c, t) /\ in.r = KeptReg(in.loc) }

-----------------------------------------------------------------------------
(* Sequences that access each of some locations once *)

\* Instruction k of p accesses l.
Uses(p, k, l) == k \in 1..Len(p) /\ p[k].op \notin Barriers /\ p[k].loc = l

\* p accesses the locations of S, each once, and no other.
Once(p, S) ==
  /\ p \in Seq(Insns)
  /\ \A k \in 1..Len(p) : p[k].op \notin Barriers => p[k].loc \in S
  /\ \A l \in S : \E k \in 1..Len(p) : Uses(p, k, l)
  /\ \A j, k \in 1..Len(p), l \in S : Uses(p, j, l) /\ Uses(p, k, l) => j = k

\* p accesses l before m.
Ahead(p, l, m) == \A j, k \in 1..Len(p) : Uses(p, j, l) /\ Uses(p, k, m) => j < k

\* A barrier b at n keeps the instructions first and second in order.
Bars(b, first, second) ==
  \/ b.op = "DMB_ISH"
  \/ b.op = "DMB_ISHLD" /\ Loads(first.op) /\ first.op # "LDADDAL_XZR"
  \/ b.op = "DMB_ISHST" /\ Stores(first.op) /\ Stores(second.op)

Pairs(first, second) ==
  \/ Acquires(first.op) \/ second.op = "STLR"
  \/ first.op = "STLR" /\ second.op = "LDAR"

\* Whatever their addresses, the machine keeps p's access of l before that of m.
Synced(p, l, m) ==
  \A j, k \in 1..Len(p) : Uses(p, j, l) /\ Uses(p, k, m) =>
    /\ j < k
    /\ \/ Pairs(p[j], p[k])
       \/ \E n \in (j + 1)..(k - 1) : Bars(p[n], p[j], p[k])

\* p accesses l with an op, behind which, or in front of which, is a barrier b.
By(p, l, op)     == \A k \in 1..Len(p) : Uses(p, k, l) => p[k].op = op
Behind(p, l, b)  == \A k \in 1..Len(p) : Uses(p, k, l) => \E n \in (k + 1)..Len(p) : p[n].op = b
InFront(p, l, b) == \A k \in 1..Len(p) : Uses(p, k, l) => \E n \in 1..(k - 1) : p[n].op = b

\* What is appended is found there.
LEMMA Appended ==
  ASSUME NEW S, NEW p \in Seq(S), NEW q \in Seq(S), NEW r, r = p \o q
  PROVE  /\ r \in Seq(S) /\ Len(r) = Len(p) + Len(q)
         /\ \A k \in 1..Len(p) : r[k] = p[k]
         /\ \A k \in 1..Len(q) : r[Len(p) + k] = q[k]
  OBVIOUS

\* r is p followed by q, and so are its accesses.
Spliced(p, q, r) ==
  /\ r \in Seq(Insns) /\ Len(r) = Len(p) + Len(q)
  /\ Len(p) \in Nat /\ Len(q) \in Nat
  /\ \A k \in 1..Len(p) : r[k] = p[k] /\ \A l : Uses(r, k, l) <=> Uses(p, k, l)
  /\ \A k \in 1..Len(q) : /\ r[Len(p) + k] = q[k]
                          /\ \A l : Uses(r, Len(p) + k, l) <=> Uses(q, k, l)
  /\ \A k \in 1..Len(r) : \/ k \in 1..Len(p)
                          \/ \E n \in 1..Len(q) : k = Len(p) + n

LEMMA Splice ==
  ASSUME NEW p \in Seq(Insns), NEW q \in Seq(Insns), NEW r, r = p \o q
  PROVE  Spliced(p, q, r)
  <1>1. /\ r \in Seq(Insns) /\ Len(r) = Len(p) + Len(q)
        /\ \A k \in 1..Len(p) : r[k] = p[k]
        /\ \A k \in 1..Len(q) : r[Len(p) + k] = q[k]
    BY Appended
  <1>2. Len(p) \in Nat /\ Len(q) \in Nat
    OBVIOUS
  <1>3. /\ \A k \in 1..Len(p) : k \in 1..Len(r)
        /\ \A k \in 1..Len(q) : Len(p) + k \in 1..Len(r)
    BY <1>1, <1>2
  <1>4. ASSUME NEW k \in 1..Len(r), k \notin 1..Len(p)
        PROVE  \E n \in 1..Len(q) : k = Len(p) + n
    <2>1. k - Len(p) \in 1..Len(q) /\ k = Len(p) + (k - Len(p))
      BY <1>1, <1>2, <1>4
    <2>2. QED
      BY <2>1
  <1>5. QED
    BY <1>1, <1>2, <1>3, <1>4 DEF Uses, Spliced

LEMMA OnceAppended ==
  ASSUME NEW S, NEW T, S \cap T = {}, NEW p, NEW q, Once(p, S), Once(q, T), NEW r, r = p \o q
  PROVE  Once(r, S \cup T)
  <1>1. p \in Seq(Insns) /\ q \in Seq(Insns)
    BY DEF Once
  <1>2. Spliced(p, q, r)
    BY <1>1, Splice
  <1>3. /\ \A k \in 1..Len(p) : \A l : Uses(p, k, l) => l \in S
        /\ \A k \in 1..Len(q) : \A l : Uses(q, k, l) => l \in T
    BY DEF Once, Uses
  <1>4. ASSUME NEW k \in 1..Len(r), r[k].op \notin Barriers
        PROVE  r[k].loc \in S \cup T
    <2>1. CASE k \in 1..Len(p)
      BY <1>2, <1>4, <2>1 DEF Once, Spliced
    <2>2. CASE \E n \in 1..Len(q) : k = Len(p) + n
      BY <1>2, <1>4, <2>2 DEF Once, Spliced
    <2>3. QED
      BY <1>2, <2>1, <2>2 DEF Spliced
  <1>5. ASSUME NEW l \in S \cup T
        PROVE  \E k \in 1..Len(r) : Uses(r, k, l)
    <2>1. CASE l \in S
      <3>1. PICK k \in 1..Len(p) : Uses(p, k, l)
        BY <2>1 DEF Once
      <3>2. k \in 1..Len(r) /\ Uses(r, k, l)
        BY <1>2, <3>1 DEF Spliced
      <3>3. QED
        BY <3>2
    <2>2. CASE l \in T
      <3>1. PICK k \in 1..Len(q) : Uses(q, k, l)
        BY <2>2 DEF Once
      <3>2. Len(p) + k \in 1..Len(r) /\ Uses(r, Len(p) + k, l)
        BY <1>2, <3>1 DEF Spliced
      <3>3. QED
        BY <3>2
    <2>3. QED
      BY <2>1, <2>2
  <1>6. ASSUME NEW j \in 1..Len(r), NEW k \in 1..Len(r), NEW l, Uses(r, j, l), Uses(r, k, l)
        PROVE  j = k
    <2>1. CASE j \in 1..Len(p) /\ k \in 1..Len(p)
      BY <1>2, <1>3, <1>6, <2>1 DEF Once, Spliced
    <2>2. CASE j \in 1..Len(p) /\ \E n \in 1..Len(q) : k = Len(p) + n
      BY <1>2, <1>3, <1>6, <2>2 DEF Spliced
    <2>3. CASE k \in 1..Len(p) /\ \E n \in 1..Len(q) : j = Len(p) + n
      BY <1>2, <1>3, <1>6, <2>3 DEF Spliced
    <2>4. CASE (\E m \in 1..Len(q) : j = Len(p) + m) /\ \E n \in 1..Len(q) : k = Len(p) + n
      <3>1. PICK m \in 1..Len(q), n \in 1..Len(q) : j = Len(p) + m /\ k = Len(p) + n
        BY <2>4
      <3>2. Uses(q, m, l) /\ Uses(q, n, l)
        BY <1>2, <1>6, <3>1 DEF Spliced
      <3>3. l \in T
        BY <1>3, <3>2
      <3>4. m = n
        BY <3>2, <3>3 DEF Once
      <3>5. QED
        BY <3>1, <3>4
    <2>5. QED
      BY <1>2, <2>1, <2>2, <2>3, <2>4 DEF Spliced
  <1>7. QED
    BY <1>2, <1>4, <1>5, <1>6 DEF Once, Spliced

\* In p \o q = r the access of l is one of p and that of m one of q.
Parted(p, q, r, l, m) ==
  \A j, k \in 1..Len(r) : Uses(r, j, l) /\ Uses(r, k, m) =>
    /\ j < k /\ j \in 1..Len(p) /\ Uses(p, j, l)
    /\ \E n \in 1..Len(q) : k = Len(p) + n /\ Uses(q, n, m)

\* A later part of a sequence accesses its locations later.
LEMMA AheadAppended ==
  ASSUME NEW S, NEW T, S \cap T = {}, NEW p, NEW q, Once(p, S), Once(q, T), NEW r, r = p \o q,
         NEW l \in S, NEW m \in T
  PROVE  Ahead(r, l, m) /\ Parted(p, q, r, l, m)
  <1>1. p \in Seq(Insns) /\ q \in Seq(Insns)
    BY DEF Once
  <1>2. Spliced(p, q, r)
    BY <1>1, Splice
  <1>3. /\ \A k \in 1..Len(p) : \A v : Uses(p, k, v) => v \in S
        /\ \A k \in 1..Len(q) : \A v : Uses(q, k, v) => v \in T
    BY DEF Once, Uses
  <1>4. ASSUME NEW j \in 1..Len(r), NEW k \in 1..Len(r), Uses(r, j, l), Uses(r, k, m)
        PROVE  /\ j < k /\ j \in 1..Len(p) /\ Uses(p, j, l)
               /\ \E n \in 1..Len(q) : k = Len(p) + n /\ Uses(q, n, m)
    <2>1. j \in 1..Len(p)
      <3>1. ~ \E n \in 1..Len(q) : j = Len(p) + n
        BY <1>2, <1>3, <1>4 DEF Spliced
      <3>2. QED
        BY <1>2, <3>1 DEF Spliced
    <2>2. k \notin 1..Len(p)
      BY <1>2, <1>3, <1>4 DEF Spliced
    <2>3. PICK n \in 1..Len(q) : k = Len(p) + n
      BY <1>2, <2>2 DEF Spliced
    <2>4. Uses(p, j, l) /\ Uses(q, n, m)
      BY <1>2, <1>4, <2>1, <2>3 DEF Spliced
    <2>5. j < k
      BY <1>2, <2>1, <2>3 DEF Spliced
    <2>6. QED
      BY <2>1, <2>3, <2>4, <2>5
  <1>5. QED
    BY <1>4 DEF Ahead, Parted

\* What holds of the order of two accesses in a part of p holds in p.
LEMMA Embedded ==
  ASSUME NEW S, NEW T, NEW p, NEW q, Once(p, S), Once(q, T), NEW h \in Nat,
         \A k \in 1..Len(q) : h + k \in 1..Len(p) /\ p[h + k] = q[k],
         NEW l \in T, NEW m \in T
  PROVE  /\ Ahead(q, l, m) => Ahead(p, l, m)
         /\ Synced(q, l, m) => Synced(p, l, m)
  <1>1. Len(p) \in Nat /\ Len(q) \in Nat
    BY DEF Once
  <1>2. ASSUME NEW v \in T
        PROVE  \A k \in 1..Len(p) : Uses(p, k, v) =>
                 \E n \in 1..Len(q) : k = h + n /\ Uses(q, n, v)
    <2>1. PICK n \in 1..Len(q) : Uses(q, n, v)
      BY DEF Once
    <2>2. h + n \in 1..Len(p) /\ Uses(p, h + n, v)
      BY <2>1 DEF Uses
    <2>3. v \in S
      BY <2>2 DEF Once, Uses
    <2>4. \A k \in 1..Len(p) : Uses(p, k, v) => k = h + n
      BY <2>2, <2>3 DEF Once
    <2>5. QED
      BY <2>1, <2>4
  <1>3. SUFFICES ASSUME NEW j \in 1..Len(p), NEW k \in 1..Len(p), Uses(p, j, l), Uses(p, k, m)
                 PROVE  /\ Ahead(q, l, m) => j < k
                        /\ Synced(q, l, m) =>
                             /\ j < k
                             /\ \/ Pairs(p[j], p[k])
                                \/ \E n \in (j + 1)..(k - 1) : Bars(p[n], p[j], p[k])
    BY DEF Ahead, Synced
  <1>4. PICK a \in 1..Len(q) : j = h + a /\ Uses(q, a, l)
    BY <1>2, <1>3
  <1>5. PICK b \in 1..Len(q) : k = h + b /\ Uses(q, b, m)
    BY <1>2, <1>3
  <1>6. Ahead(q, l, m) => j < k
    BY <1>1, <1>4, <1>5 DEF Ahead
  <1>7. ASSUME Synced(q, l, m)
        PROVE  /\ j < k
               /\ \/ Pairs(p[j], p[k])
                  \/ \E n \in (j + 1)..(k - 1) : Bars(p[n], p[j], p[k])
    <2>1. /\ a < b
          /\ Pairs(q[a], q[b]) \/ \E n \in (a + 1)..(b - 1) : Bars(q[n], q[a], q[b])
      BY <1>4, <1>5, <1>7 DEF Synced
    <2>2. p[j] = q[a] /\ p[k] = q[b] /\ j < k
      BY <1>1, <1>4, <1>5, <2>1
    <2>3. CASE Pairs(q[a], q[b])
      BY <2>2, <2>3
    <2>4. ASSUME NEW n \in (a + 1)..(b - 1), Bars(q[n], q[a], q[b])
          PROVE  \E i \in (j + 1)..(k - 1) : Bars(p[i], p[j], p[k])
      <3>1. n \in 1..Len(q) /\ h + n \in (j + 1)..(k - 1)
        BY <1>1, <1>4, <1>5
      <3>2. p[h + n] = q[n]
        BY <3>1
      <3>3. QED
        BY <2>2, <2>4, <3>1, <3>2
    <2>5. QED
      BY <2>1, <2>2, <2>3, <2>4
  <1>8. QED
    BY <1>6, <1>7

\* Where two parts meet: the machine keeps the access of l before that of m because
\* of what they are, of a barrier behind the first or of one in front of the second.
Meet(p, l, q, m) ==
  \A j \in 1..Len(p), n \in 1..Len(q) : Uses(p, j, l) /\ Uses(q, n, m) =>
    \/ Pairs(p[j], q[n])
    \/ \E b \in (j + 1)..Len(p) : Bars(p[b], p[j], q[n])
    \/ \E b \in 1..(n - 1) : Bars(q[b], p[j], q[n])

LEMMA SyncedAppended ==
  ASSUME NEW S, NEW T, S \cap T = {}, NEW p, NEW q, Once(p, S), Once(q, T), NEW r, r = p \o q,
         NEW l \in S, NEW m \in T, Meet(p, l, q, m)
  PROVE  Synced(r, l, m)
  <1>1. p \in Seq(Insns) /\ q \in Seq(Insns)
    BY DEF Once
  <1>2. Spliced(p, q, r)
    BY <1>1, Splice
  <1>3. SUFFICES ASSUME NEW j \in 1..Len(r), NEW k \in 1..Len(r), Uses(r, j, l), Uses(r, k, m)
                 PROVE  /\ j < k
                        /\ \/ Pairs(r[j], r[k])
                           \/ \E n \in (j + 1)..(k - 1) : Bars(r[n], r[j], r[k])
    BY DEF Synced
  <1>a. Parted(p, q, r, l, m)
    BY AheadAppended
  <1>4. j < k /\ j \in 1..Len(p) /\ Uses(p, j, l)
    BY <1>3, <1>a DEF Parted
  <1>5. PICK n \in 1..Len(q) : k = Len(p) + n /\ Uses(q, n, m)
    BY <1>3, <1>a DEF Parted
  <1>6. r[j] = p[j] /\ r[k] = q[n] /\ Len(p) \in Nat /\ Len(q) \in Nat
    BY <1>2, <1>4, <1>5 DEF Spliced
  <1>7. CASE Pairs(p[j], q[n])
    BY <1>4, <1>6, <1>7
  <1>8. ASSUME NEW b \in (j + 1)..Len(p), Bars(p[b], p[j], q[n])
        PROVE  \E i \in (j + 1)..(k - 1) : Bars(r[i], r[j], r[k])
    <2>1. b \in 1..Len(p) /\ b \in (j + 1)..(k - 1)
      BY <1>4, <1>5, <1>6
    <2>2. r[b] = p[b]
      BY <1>2, <2>1 DEF Spliced
    <2>3. QED
      BY <1>6, <1>8, <2>1, <2>2
  <1>9. ASSUME NEW b \in 1..(n - 1), Bars(q[b], p[j], q[n])
        PROVE  \E i \in (j + 1)..(k - 1) : Bars(r[i], r[j], r[k])
    <2>1. b \in 1..Len(q) /\ Len(p) + b \in (j + 1)..(k - 1)
      BY <1>4, <1>5, <1>6
    <2>2. r[Len(p) + b] = q[b]
      BY <1>2, <2>1 DEF Spliced
    <2>3. QED
      BY <1>6, <1>9, <2>1, <2>2
  <1>10. QED
    BY <1>4, <1>5, <1>7, <1>8, <1>9 DEF Meet

-----------------------------------------------------------------------------
(* The parts the rounds are made of *)

LEMMA StorePart ==
  ASSUME NEW c \in Configs, NEW l \in {"x", "y"}, NEW s, s = map_store(c, l)
  PROVE  /\ Once(s, {l})
         /\ By(s, l, StoreOp(c)) /\ (c.map = "dmb" => InFront(s, l, "DMB_ISHST"))
         /\ \A t : l \in Puts(c, t) => s \in Seq(Inner(c, t))
  <1> DEFINE st  == Insn(StoreOp(c), l, 1, None)
             bar == Insn("DMB_ISHST", None, 0, None)
  <1>1. StoreOp(c) \in Ops /\ StoreOp(c) \notin Barriers /\ "DMB_ISHST" \in Barriers
    BY DEF StoreOp, Ops, Barriers
  <1>2. l \in Locs /\ None \in Regs \cup {None} /\ "DMB_ISHST" \in Ops
    BY DEF Locs, Ops, Barriers
  <1>3. /\ st \in Insns /\ st.op = StoreOp(c) /\ st.loc = l /\ st.val = 1 /\ st.r = None
        /\ bar \in Insns /\ bar.op = "DMB_ISHST"
    BY <1>1, <1>2 DEF Insn, Insns
  <1>4. \A t : bar \in Inner(c, t) /\ (l \in Puts(c, t) => st \in Inner(c, t))
    BY <1>1, <1>3 DEF Inner
  <1>5. CASE c.map = "dmb"
    <2>1. s = <<bar, st>>
      BY <1>5, Zenon DEF map_store, Dmb, StoreOp
    <2> HIDE DEF st, bar
    <2>2. s \in Seq(Insns) /\ Len(s) = 2 /\ s[1] = bar /\ s[2] = st
      BY <1>3, <2>1
    <2>3. \A k \in 1..Len(s) : k = 1 \/ k = 2
      BY <2>2
    <2>4. \A k \in 1..Len(s) : \A m : Uses(s, k, m) <=> k = 2 /\ m = l
      BY <1>1, <1>3, <2>2, <2>3 DEF Uses
    <2>5. QED
      BY <1>1, <1>3, <1>4, <2>1, <2>2, <2>3, <2>4 DEF Once, By, InFront, Behind
  <1>6. CASE c.map # "dmb"
    <2>1. s = <<st>>
      <3>1. c.map \in {"rcpc", "sc"} \/ c.map = "plain"
        BY <1>6, LitmusAssumption
      <3>2. CASE c.map \in {"rcpc", "sc"}
        <4>1. map_store(c, l) = <<Insn("STLR", l, 1, None)>>
          BY <3>2 DEF map_store
        <4>2. StoreOp(c) = "STLR"
          BY <3>2 DEF StoreOp
        <4>3. QED
          BY <4>1, <4>2
      <3>3. CASE c.map = "plain"
        <4>1. map_store(c, l) = <<Insn("STR", l, 1, None)>>
          BY <3>3, Zenon DEF map_store
        <4>2. StoreOp(c) = "STR"
          BY <3>3 DEF StoreOp
        <4>3. QED
          BY <4>1, <4>2
      <3>4. QED
        BY <3>1, <3>2, <3>3
    <2> HIDE DEF st
    <2>2. s \in Seq(Insns) /\ Len(s) = 1 /\ s[1] = st
      BY <1>3, <2>1
    <2>3. \A k \in 1..Len(s) : k = 1
      BY <2>2
    <2>4. \A k \in 1..Len(s) : \A m : Uses(s, k, m) <=> k = 1 /\ m = l
      BY <1>1, <1>3, <2>2, <2>3 DEF Uses
    <2>5. QED
      BY <1>1, <1>3, <1>4, <1>6, <2>1, <2>2, <2>3, <2>4 DEF Once, By, InFront, Behind
  <1>7. QED
    BY <1>5, <1>6

LEMMA LoadPart ==
  ASSUME NEW c \in Configs, NEW l \in {"x", "y"}, NEW r \in Regs, NEW s, s = map_load(c, l, r)
  PROVE  /\ Once(s, {l})
         /\ By(s, l, LoadOp(c)) /\ (c.map = "dmb" => Behind(s, l, "DMB_ISHLD"))
         /\ \A t : l \in Gets(c, t) /\ r = GetReg(c, t, l) => s \in Seq(Inner(c, t))
  <1> DEFINE ld  == Insn(LoadOp(c), l, 0, r)
             bar == Insn("DMB_ISHLD", None, 0, None)
  <1>1. LoadOp(c) \in Ops /\ LoadOp(c) \notin Barriers /\ "DMB_ISHLD" \in Barriers
    BY DEF LoadOp, Ops, Barriers
  <1>2. l \in Locs /\ None \in Regs \cup {None} /\ "DMB_ISHLD" \in Ops
    BY DEF Locs, Ops, Barriers
  <1>3. /\ ld \in Insns /\ ld.op = LoadOp(c) /\ ld.loc = l /\ ld.val = 0 /\ ld.r = r
        /\ bar \in Insns /\ bar.op = "DMB_ISHLD"
    BY <1>1, <1>2 DEF Insn, Insns
  <1>4. \A t : /\ bar \in Inner(c, t)
               /\ l \in Gets(c, t) /\ r = GetReg(c, t, l) => ld \in Inner(c, t)
    BY <1>1, <1>3 DEF Inner
  <1>5. CASE c.map = "dmb"
    <2>1. s = <<ld, bar>>
      <3>1. map_load(c, l, r) = <<Insn("LDR", l, 0, r), Insn("DMB_ISHLD", None, 0, None)>>
        BY <1>5, Zenon DEF map_load, Dmb
      <3>2. LoadOp(c) = "LDR"
        BY <1>5 DEF LoadOp
      <3>3. QED
        BY <3>1, <3>2
    <2> HIDE DEF ld, bar
    <2>2. s \in Seq(Insns) /\ Len(s) = 2 /\ s[1] = ld /\ s[2] = bar
      BY <1>3, <2>1
    <2>3. \A k \in 1..Len(s) : k = 1 \/ k = 2
      BY <2>2
    <2>4. \A k \in 1..Len(s) : \A m : Uses(s, k, m) <=> k = 1 /\ m = l
      BY <1>1, <1>3, <2>2, <2>3 DEF Uses
    <2>5. QED
      BY <1>1, <1>3, <1>4, <2>1, <2>2, <2>3, <2>4 DEF Once, By, InFront, Behind
  <1>6. CASE c.map # "dmb"
    <2>1. s = <<ld>>
      <3>1. c.map = "rcpc" \/ c.map = "sc" \/ c.map = "plain"
        BY <1>6, LitmusAssumption
      <3>2. CASE c.map = "rcpc"
        <4>1. map_load(c, l, r) = <<Insn("LDAPR", l, 0, r)>>
          BY <3>2, Zenon DEF map_load
        <4>2. LoadOp(c) = "LDAPR"
          BY <3>2 DEF LoadOp
        <4>3. QED
          BY <4>1, <4>2
      <3>3. CASE c.map = "sc"
        <4>1. map_load(c, l, r) = <<Insn("LDAR", l, 0, r)>>
          BY <3>3, Zenon DEF map_load
        <4>2. LoadOp(c) = "LDAR"
          BY <3>3 DEF LoadOp
        <4>3. QED
          BY <4>1, <4>2
      <3>4. CASE c.map = "plain"
        <4>1. map_load(c, l, r) = <<Insn("LDR", l, 0, r)>>
          BY <3>4, Zenon DEF map_load
        <4>2. LoadOp(c) = "LDR"
          BY <3>4 DEF LoadOp
        <4>3. QED
          BY <4>1, <4>2
      <3>5. QED
        BY <3>1, <3>2, <3>3, <3>4
    <2> HIDE DEF ld
    <2>2. s \in Seq(Insns) /\ Len(s) = 1 /\ s[1] = ld
      BY <1>3, <2>1
    <2>3. \A k \in 1..Len(s) : k = 1
      BY <2>2
    <2>4. \A k \in 1..Len(s) : \A m : Uses(s, k, m) <=> k = 1 /\ m = l
      BY <1>1, <1>3, <2>2, <2>3 DEF Uses
    <2>5. QED
      BY <1>1, <1>3, <1>4, <1>6, <2>1, <2>2, <2>3, <2>4 DEF Once, By, InFront, Behind
  <1>7. QED
    BY <1>5, <1>6

\* A fence follows in fenced mode.
LEMMA FencePart ==
  ASSUME NEW c \in Configs, NEW s, s = barrier_full(c)
  PROVE  /\ Once(s, {})
         /\ c.map = "plain" /\ c.fenced => Len(s) = 1 /\ s[1].op = "DMB_ISH"
         /\ \A t : s \in Seq(Inner(c, t))
  <1> DEFINE bar == Insn("DMB_ISH", None, 0, None)
  <1>1. bar \in Insns /\ bar.op = "DMB_ISH" /\ "DMB_ISH" \in Barriers
    BY DEF Insn, Insns, Ops, Barriers
  <1>2. \A t : bar \in Inner(c, t)
    BY <1>1 DEF Inner
  <1>3. s = IF c.map = "plain" /\ c.fenced THEN <<bar>> ELSE <<>>
    BY DEF barrier_full, Dmb
  <1> HIDE DEF bar
  <1>4. CASE c.map = "plain" /\ c.fenced
    <2>1. s \in Seq(Insns) /\ Len(s) = 1 /\ s[1] = bar
      BY <1>1, <1>3, <1>4
    <2>2. \A k \in 1..Len(s) : k = 1
      BY <2>1
    <2>3. QED
      BY <1>1, <1>2, <1>3, <1>4, <2>1, <2>2 DEF Once
  <1>5. CASE ~(c.map = "plain" /\ c.fenced)
    BY <1>3, <1>5 DEF Once
  <1>6. QED
    BY <1>4, <1>5

\* An access with its fence.
LEMMA Fenced ==
  ASSUME NEW c \in Configs, NEW l, NEW s, Once(s, {l}), NEW op, By(s, l, op),
         NEW r, r = s \o barrier_full(c)
  PROVE  /\ Once(r, {l}) /\ By(r, l, op)
         /\ c.map = "plain" /\ c.fenced => Behind(r, l, "DMB_ISH")
         /\ \A b : Behind(s, l, b) => Behind(r, l, b)
  <1> DEFINE f == barrier_full(c)
  <1>1. Once(f, {}) /\ (c.map = "plain" /\ c.fenced => Len(f) = 1 /\ f[1].op = "DMB_ISH")
    BY FencePart
  <1>2. r = s \o f
    OBVIOUS
  <1> HIDE DEF f
  <1>3. {l} \cap {} = {} /\ {l} \cup {} = {l}
    OBVIOUS
  <1>4. Once(r, {l} \cup {})
    BY <1>1, <1>2, <1>3, OnceAppended
  <1>5. s \in Seq(Insns) /\ f \in Seq(Insns)
    BY <1>1 DEF Once
  <1>6. Spliced(s, f, r)
    BY <1>2, <1>5, Splice
  <1>7. ASSUME NEW k \in 1..Len(r), Uses(r, k, l)
        PROVE  k \in 1..Len(s) /\ r[k] = s[k] /\ Uses(s, k, l)
    <2>1. \A n \in 1..Len(f) : ~Uses(f, n, l)
      BY <1>1 DEF Once, Uses
    <2>2. k \in 1..Len(s)
      BY <1>6, <1>7, <2>1 DEF Spliced
    <2>3. QED
      BY <1>6, <1>7, <2>2 DEF Spliced
  <1>8. ASSUME c.map = "plain" /\ c.fenced
        PROVE  Behind(r, l, "DMB_ISH")
    <2>1. Len(f) = 1 /\ f[1].op = "DMB_ISH"
      BY <1>1, <1>8, Zenon
    <2>2. Len(r) = Len(s) + 1 /\ r[Len(r)] = f[1] /\ Len(s) \in Nat
      BY <1>6, <2>1 DEF Spliced
    <2>3. \A k \in 1..Len(r) : Uses(r, k, l) => Len(r) \in (k + 1)..Len(r)
      BY <1>7, <2>2
    <2>4. QED
      BY <2>1, <2>2, <2>3 DEF Behind
  <1>9. ASSUME NEW b, Behind(s, l, b)
        PROVE  Behind(r, l, b)
    <2>1. SUFFICES ASSUME NEW k \in 1..Len(r), Uses(r, k, l)
                   PROVE  \E n \in (k + 1)..Len(r) : r[n].op = b
      BY DEF Behind
    <2>2. PICK n \in (k + 1)..Len(s) : s[n].op = b
      BY <1>7, <1>9, <2>1 DEF Behind
    <2>3. n \in 1..Len(s) /\ n \in (k + 1)..Len(r)
      BY <1>6, <2>2 DEF Spliced
    <2>4. r[n] = s[n]
      BY <1>6, <2>3 DEF Spliced
    <2>5. QED
      BY <2>2, <2>3, <2>4
  <1>10. By(r, l, op)
    BY <1>7 DEF By
  <1>11. QED
    BY <1>3, <1>4, <1>8, <1>9, <1>10

\* Sequences of stores of results.
LEMMA KeepPart ==
  ASSUME NEW c, NEW t, NEW l \in Kept(c, t), l \in Locs
  PROVE  /\ Keep(l, KeptReg(l)) \in Inner(c, t) /\ Keep(l, KeptReg(l)) \in Insns
         /\ Keep(l, KeptReg(l)).op = "STR" /\ Keep(l, KeptReg(l)).loc = l
         /\ Once(<<Keep(l, KeptReg(l))>>, {l})
  <1> DEFINE k == Keep(l, KeptReg(l))
  <1>1. KeptReg(l) \in Regs
    BY DEF KeptReg, Regs
  <1>2. k \in Inner(c, t) /\ k \in Insns /\ k.op = "STR" /\ k.loc = l /\ "STR" \notin Barriers
    BY <1>1 DEF Keep, Insn, Insns, Inner, Ops, Barriers
  <1> HIDE DEF k
  <1>3. Len(<<k>>) = 1 /\ <<k>>[1] = k /\ <<k>> \in Seq(Insns)
    BY <1>2
  <1>4. \A n \in 1..Len(<<k>>) : n = 1
    BY <1>3
  <1>5. Once(<<k>>, {l})
    BY <1>2, <1>3, <1>4 DEF Once, Uses
  <1>6. QED
    BY <1>2, <1>5 DEF k

\* The results are stored last.
LEMMA Stored ==
  ASSUME NEW S, NEW T, S \cap T = {}, NEW p, NEW q, Once(p, S), Once(q, T), NEW r, r = p \o q
  PROVE  /\ Once(r, S \cup T)
         /\ \A l \in S, m \in T : Ahead(r, l, m)
         /\ \A l, m \in S : (Synced(p, l, m) => Synced(r, l, m)) /\ (Ahead(p, l, m) => Ahead(r, l, m))
  <1>1. Once(r, S \cup T)
    BY OnceAppended
  <1>2. \A l \in S, m \in T : Ahead(r, l, m)
    BY AheadAppended
  <1>3. p \in Seq(Insns) /\ q \in Seq(Insns)
    BY DEF Once
  <1>4. Spliced(p, q, r)
    BY <1>3, Splice
  <1>5. \A k \in 1..Len(p) : 0 + k \in 1..Len(r) /\ r[0 + k] = p[k]
    BY <1>4 DEF Spliced
  <1>6. ASSUME NEW l \in S, NEW m \in S
        PROVE  (Synced(p, l, m) => Synced(r, l, m)) /\ (Ahead(p, l, m) => Ahead(r, l, m))
    BY <1>1, <1>5, Embedded
  <1>7. QED
    BY <1>1, <1>2, <1>6

\* The order in which t accesses x and y.
First(c, t)  == IF t = "t0" \/ (t = "t1" /\ c.test = "wrc") THEN "x" ELSE "y"
Second(c, t) == IF First(c, t) = "x" THEN "y" ELSE "x"

Touched(c, t) == Puts(c, t) \cup Gets(c, t) \cup Kept(c, t)

\* The tests whose outcome the mapping, or the fence, excludes.
Tight(c) ==
  \/ c.test # "sb" /\ c.map \in {"rcpc", "sc", "dmb"}
  \/ c.test = "sb" /\ c.map = "sc"
  \/ c.test # "wrc" /\ c.map = "plain" /\ c.fenced

\* What a worker does between its gates.
Body(c, t, mid) ==
  /\ mid \in Seq(Inner(c, t)) /\ Once(mid, Touched(c, t))
  /\ \A l \in Gets(c, t), m \in Kept(c, t) : Ahead(mid, l, m)
  /\ Ahead(mid, First(c, t), Second(c, t))
  /\ Tight(c) => Synced(mid, First(c, t), Second(c, t))

\* The three ways in which two data accesses follow each other.
LEMMA Meets ==
  ASSUME NEW c \in Configs, Tight(c), NEW p, NEW l, NEW q, NEW m,
         c.map = "plain" /\ c.fenced => Behind(p, l, "DMB_ISH"),
         \/ /\ By(p, l, LoadOp(c)) /\ c.test # "sb"
            /\ c.map = "dmb" => Behind(p, l, "DMB_ISHLD")
         \/ /\ By(p, l, StoreOp(c)) /\ By(q, m, StoreOp(c)) /\ c.test # "sb"
            /\ c.map = "dmb" => InFront(q, m, "DMB_ISHST")
         \/ By(p, l, StoreOp(c)) /\ By(q, m, LoadOp(c)) /\ c.test = "sb"
  PROVE  Meet(p, l, q, m)
  <1>1. SUFFICES ASSUME NEW j \in 1..Len(p), NEW n \in 1..Len(q), Uses(p, j, l), Uses(q, n, m)
                 PROVE  \/ Pairs(p[j], q[n])
                        \/ \E b \in (j + 1)..Len(p) : Bars(p[b], p[j], q[n])
                        \/ \E b \in 1..(n - 1) : Bars(q[b], p[j], q[n])
    BY DEF Meet
  <1>2. CASE c.map = "plain" /\ c.fenced
    <2>1. Behind(p, l, "DMB_ISH")
      BY <1>2, Zenon
    <2>2. PICK b \in (j + 1)..Len(p) : p[b].op = "DMB_ISH"
      BY <1>1, <2>1 DEF Behind
    <2>3. QED
      BY <2>2 DEF Bars
  <1>3. CASE c.map \in {"rcpc", "sc"} /\ c.test # "sb"
    BY <1>1, <1>3 DEF By, LoadOp, StoreOp, Pairs, Acquires
  <1>4. CASE c.map = "sc" /\ c.test = "sb"
    BY <1>1, <1>4 DEF By, LoadOp, StoreOp, Pairs
  <1>5. CASE c.map = "dmb" /\ c.test # "sb"
    <2>1. CASE By(p, l, LoadOp(c)) /\ Behind(p, l, "DMB_ISHLD")
      <3>1. PICK b \in (j + 1)..Len(p) : p[b].op = "DMB_ISHLD"
        BY <1>1, <2>1 DEF Behind
      <3>2. Bars(p[b], p[j], q[n])
        BY <1>1, <1>5, <2>1, <3>1 DEF Bars, By, LoadOp, Loads
      <3>3. QED
        BY <3>2
    <2>2. CASE By(p, l, StoreOp(c)) /\ By(q, m, StoreOp(c)) /\ InFront(q, m, "DMB_ISHST")
      <3>1. PICK b \in 1..(n - 1) : q[b].op = "DMB_ISHST"
        BY <1>1, <2>2 DEF InFront
      <3>2. Bars(q[b], p[j], q[n])
        BY <1>1, <1>5, <2>2, <3>1 DEF Bars, By, StoreOp, Stores
      <3>3. QED
        BY <3>2
    <2>3. QED
      BY <1>5, <2>1, <2>2
  <1>6. QED
    BY <1>2, <1>3, <1>4, <1>5, Zenon DEF Tight

\* What a part accesses is accessed in the same way when more follows.
LEMMA Longer ==
  ASSUME NEW S, NEW T, S \cap T = {}, NEW p, NEW q, Once(p, S), Once(q, T), NEW r, r = p \o q,
         NEW l \in S
  PROVE  /\ \A op : By(p, l, op) => By(r, l, op)
         /\ \A b : Behind(p, l, b) => Behind(r, l, b)
  <1>1. p \in Seq(Insns) /\ q \in Seq(Insns)
    BY DEF Once
  <1>2. Spliced(p, q, r)
    BY <1>1, Splice
  <1>3. ASSUME NEW k \in 1..Len(r), Uses(r, k, l)
        PROVE  k \in 1..Len(p) /\ r[k] = p[k] /\ Uses(p, k, l)
    <2>1. \A n \in 1..Len(q) : ~Uses(q, n, l)
      BY DEF Once, Uses
    <2>2. k \in 1..Len(p)
      BY <1>2, <1>3, <2>1 DEF Spliced
    <2>3. QED
      BY <1>2, <1>3, <2>2 DEF Spliced
  <1>4. ASSUME NEW b, Behind(p, l, b)
        PROVE  Behind(r, l, b)
    <2>1. SUFFICES ASSUME NEW k \in 1..Len(r), Uses(r, k, l)
                   PROVE  \E n \in (k + 1)..Len(r) : r[n].op = b
      BY DEF Behind
    <2>2. PICK n \in (k + 1)..Len(p) : p[n].op = b
      BY <1>3, <1>4, <2>1 DEF Behind
    <2>3. n \in 1..Len(p) /\ n \in (k + 1)..Len(r)
      BY <1>2, <2>2 DEF Spliced
    <2>4. r[n] = p[n]
      BY <1>2, <2>3 DEF Spliced
    <2>5. QED
      BY <2>2, <2>3, <2>4
  <1>5. QED
    BY <1>3, <1>4 DEF By

\* A round that accesses m in its second half.
LEMMA Halves ==
  ASSUME NEW c, NEW t, NEW S, NEW l \in S, NEW m, m \notin S, NEW p, NEW q,
         Once(p, S), Once(q, {m}), Tight(c) => Meet(p, l, q, m),
         p \in Seq(Inner(c, t)), q \in Seq(Inner(c, t)), NEW r, r = p \o q
  PROVE  /\ r \in Seq(Inner(c, t)) /\ Once(r, S \cup {m})
         /\ Ahead(r, l, m) /\ (Tight(c) => Synced(r, l, m))
  <1>1. S \cap {m} = {} /\ m \in {m}
    OBVIOUS
  <1>2. Once(r, S \cup {m})
    BY <1>1, OnceAppended
  <1>3. Ahead(r, l, m)
    BY <1>1, AheadAppended
  <1>4. Tight(c) => Synced(r, l, m)
    BY <1>1, SyncedAppended
  <1>5. QED
    BY <1>2, <1>3, <1>4

\* A store with its fence, and a load with its fence.
LEMMA PutPart ==
  ASSUME NEW c \in Configs, NEW t, NEW l \in Puts(c, t), NEW r, r = map_store(c, l) \o barrier_full(c)
  PROVE  /\ Once(r, {l}) /\ By(r, l, StoreOp(c)) /\ r \in Seq(Inner(c, t))
         /\ c.map = "plain" /\ c.fenced => Behind(r, l, "DMB_ISH")
  <1> DEFINE s == map_store(c, l)
             f == barrier_full(c)
  <1>1. l \in {"x", "y"}
    BY DEF Puts
  <1>2. Once(s, {l}) /\ By(s, l, StoreOp(c)) /\ s \in Seq(Inner(c, t))
    BY <1>1, StorePart
  <1>3. f \in Seq(Inner(c, t))
    BY FencePart
  <1>4. /\ Once(r, {l}) /\ By(r, l, StoreOp(c))
        /\ c.map = "plain" /\ c.fenced => Behind(r, l, "DMB_ISH")
    BY <1>2, Fenced
  <1>5. r = s \o f
    OBVIOUS
  <1> HIDE DEF s, f
  <1>6. r \in Seq(Inner(c, t))
    BY <1>2, <1>3, <1>5
  <1>7. QED
    BY <1>4, <1>6

LEMMA GetPart ==
  ASSUME NEW c \in Configs, NEW t, NEW l \in Gets(c, t), NEW g, g = GetReg(c, t, l),
         NEW r, r = map_load(c, l, g) \o barrier_full(c)
  PROVE  /\ Once(r, {l}) /\ By(r, l, LoadOp(c)) /\ r \in Seq(Inner(c, t))
         /\ c.map = "dmb" => Behind(r, l, "DMB_ISHLD")
         /\ c.map = "plain" /\ c.fenced => Behind(r, l, "DMB_ISH")
  <1> DEFINE s == map_load(c, l, g)
             f == barrier_full(c)
  <1>1. l \in {"x", "y"} /\ g \in Regs
    BY DEF Gets, GetReg, Regs
  <1>2. /\ Once(s, {l}) /\ By(s, l, LoadOp(c)) /\ (c.map = "dmb" => Behind(s, l, "DMB_ISHLD"))
        /\ s \in Seq(Inner(c, t))
    BY <1>1, LoadPart
  <1>3. f \in Seq(Inner(c, t))
    BY FencePart
  <1>a. r = s \o f /\ r = s \o barrier_full(c)
    OBVIOUS
  <1> HIDE DEF s, f
  <1>4. /\ Once(r, {l}) /\ By(r, l, LoadOp(c))
        /\ c.map = "plain" /\ c.fenced => Behind(r, l, "DMB_ISH")
        /\ \A b : Behind(s, l, b) => Behind(r, l, b)
    BY <1>2, <1>a, Fenced
  <1>5. r = s \o f
    BY <1>a
  <1>6. r \in Seq(Inner(c, t))
    BY <1>2, <1>3, <1>5
  <1>7. QED
    BY <1>2, <1>4, <1>6

-----------------------------------------------------------------------------
(* The rounds of the workers *)

LEMMA Mp0 ==
  ASSUME NEW c \in Configs, c.test = "mp", NEW mid,
         mid = map_store(c, "x") \o barrier_full(c) \o map_store(c, "y")
  PROVE  Body(c, "t0", mid)
  <1> DEFINE p == map_store(c, "x") \o barrier_full(c)
             q == map_store(c, "y")
  <1>1. /\ Puts(c, "t0") = {"x", "y"} /\ Gets(c, "t0") = {} /\ Kept(c, "t0") = {}
        /\ First(c, "t0") = "x" /\ Second(c, "t0") = "y"
    BY DEF Puts, Writer, Gets, Kept, First, Second
  <1>2. /\ Once(p, {"x"}) /\ By(p, "x", StoreOp(c)) /\ p \in Seq(Inner(c, "t0"))
        /\ c.map = "plain" /\ c.fenced => Behind(p, "x", "DMB_ISH")
    BY <1>1, PutPart
  <1>3. /\ Once(q, {"y"}) /\ By(q, "y", StoreOp(c)) /\ q \in Seq(Inner(c, "t0"))
        /\ c.map = "dmb" => InFront(q, "y", "DMB_ISHST")
    BY <1>1, StorePart
  <1>4. mid = p \o q
    OBVIOUS
  <1> HIDE DEF p, q
  <1>5. Tight(c) => Meet(p, "x", q, "y")
    BY <1>2, <1>3, Meets
  <1>6. "x" \in {"x"} /\ "y" \notin {"x"} /\ {"x"} \cup {"y"} = {"x", "y"}
    OBVIOUS
  <1>7. /\ mid \in Seq(Inner(c, "t0")) /\ Once(mid, {"x"} \cup {"y"})
        /\ Ahead(mid, "x", "y") /\ (Tight(c) => Synced(mid, "x", "y"))
    BY <1>2, <1>3, <1>4, <1>5, <1>6, Halves
  <1>8. Touched(c, "t0") = {"x"} \cup {"y"}
    BY <1>1, <1>6 DEF Touched
  <1>9. QED
    BY <1>1, <1>7, <1>8 DEF Body

\* One result and two results are stored.
LEMMA KeepOne ==
  ASSUME NEW c, NEW t, NEW l \in Kept(c, t), l \in Locs, NEW r, r = KeptReg(l), NEW q,
         q = <<Keep(l, r)>>
  PROVE  Once(q, {l}) /\ q \in Seq(Inner(c, t))
  <1>1. Keep(l, r) \in Inner(c, t) /\ Once(q, {l})
    BY KeepPart
  <1>2. QED
    BY <1>1

LEMMA KeepTwo ==
  ASSUME NEW c, NEW t, NEW l \in Kept(c, t), l \in Locs, NEW r, r = KeptReg(l),
         NEW m \in Kept(c, t), m \in Locs, NEW s, s = KeptReg(m), l # m,
         NEW q, q = <<Keep(l, r), Keep(m, s)>>
  PROVE  Once(q, {l, m}) /\ q \in Seq(Inner(c, t))
  <1> DEFINE a == Keep(l, r)
             b == Keep(m, s)
  <1>1. /\ a \in Inner(c, t) /\ a \in Insns /\ a.op = "STR" /\ a.loc = l
        /\ b \in Inner(c, t) /\ b \in Insns /\ b.op = "STR" /\ b.loc = m
    BY KeepPart
  <1>2. q = <<a, b>> /\ "STR" \notin Barriers
    BY DEF Barriers
  <1> HIDE DEF a, b
  <1>3. q \in Seq(Insns) /\ q \in Seq(Inner(c, t)) /\ Len(q) = 2 /\ q[1] = a /\ q[2] = b
    BY <1>1, <1>2
  <1>4. \A k \in 1..Len(q) : k = 1 \/ k = 2
    BY <1>3
  <1>5. Once(q, {l, m})
    BY <1>1, <1>2, <1>3, <1>4 DEF Once, Uses
  <1>6. QED
    BY <1>3, <1>5

LEMMA Mp1 ==
  ASSUME NEW c \in Configs, c.test = "mp", NEW mid,
         mid = map_load(c, "y", "r1") \o barrier_full(c) \o map_load(c, "x", "r2")
                 \o <<Keep("t1_a", "r1"), Keep("t1_b", "r2")>>
  PROVE  Body(c, "t1", mid)
  <1> DEFINE p == map_load(c, "y", "r1") \o barrier_full(c)
             q == map_load(c, "x", "r2")
             h == p \o q
             k == <<Keep("t1_a", "r1"), Keep("t1_b", "r2")>>
  <1>1. /\ Puts(c, "t1") = {} /\ Gets(c, "t1") = {"x", "y"}
        /\ Kept(c, "t1") = {"t1_a", "t1_b"}
        /\ First(c, "t1") = "y" /\ Second(c, "t1") = "x"
    BY DEF Puts, Writer, Gets, Kept, First, Second
  <1>2. /\ "r1" = GetReg(c, "t1", "y") /\ "r2" = GetReg(c, "t1", "x")
        /\ "t1_a" \in Locs /\ "r1" = KeptReg("t1_a")
        /\ "t1_b" \in Locs /\ "r2" = KeptReg("t1_b")
        /\ "r0" \in Regs /\ "r1" \in Regs /\ "r2" \in Regs /\ "r3" \in Regs
    BY DEF GetReg, KeptReg, Locs, Regs
  <1>3. /\ Once(p, {"y"}) /\ By(p, "y", LoadOp(c)) /\ p \in Seq(Inner(c, "t1"))
        /\ c.map = "dmb" => Behind(p, "y", "DMB_ISHLD")
        /\ c.map = "plain" /\ c.fenced => Behind(p, "y", "DMB_ISH")
    BY <1>1, <1>2, GetPart
  <1>4. Once(q, {"x"}) /\ By(q, "x", LoadOp(c)) /\ q \in Seq(Inner(c, "t1"))
    BY <1>1, <1>2, LoadPart
  <1>5. Once(k, {"t1_a", "t1_b"}) /\ k \in Seq(Inner(c, "t1"))
    BY <1>1, <1>2, KeepTwo
  <1>6. mid = h \o k /\ h = p \o q
    OBVIOUS
  <1> HIDE DEF p, q, k, h
  <1>7. Tight(c) => Meet(p, "y", q, "x")
    BY <1>3, <1>4, Meets
  <1>8. "y" \in {"y"} /\ "x" \notin {"y"}
    OBVIOUS
  <1>9. /\ h \in Seq(Inner(c, "t1")) /\ Once(h, {"y"} \cup {"x"})
        /\ Ahead(h, "y", "x") /\ (Tight(c) => Synced(h, "y", "x"))
    BY <1>3, <1>4, <1>6, <1>7, <1>8, Halves
  <1>10. {"y"} \cup {"x"} = {"x", "y"} /\ {"x", "y"} \cap {"t1_a", "t1_b"} = {}
    OBVIOUS
  <1>11. Once(h, {"x", "y"}) /\ "y" \in {"x", "y"} /\ "x" \in {"x", "y"}
    BY <1>9, <1>10
  <1>12. /\ mid \in Seq(Inner(c, "t1")) /\ Once(mid, {"x", "y"} \cup {"t1_a", "t1_b"})
         /\ \A v \in {"x", "y"}, w \in {"t1_a", "t1_b"} : Ahead(mid, v, w)
         /\ Ahead(mid, "y", "x") /\ (Tight(c) => Synced(mid, "y", "x"))
    <2> DEFINE D == {"x", "y"}
               E == {"t1_a", "t1_b"}
    <2>1. /\ Once(h, D) /\ Once(k, E) /\ "y" \in D /\ "x" \in D /\ D \cap E = {}
      BY <1>5, <1>10, <1>11
    <2> HIDE DEF D, E
    <2>2. /\ Once(mid, D \cup E)
          /\ \A v \in D, w \in E : Ahead(mid, v, w)
          /\ \A v, w \in D : /\ Synced(h, v, w) => Synced(mid, v, w)
                             /\ Ahead(h, v, w) => Ahead(mid, v, w)
      BY <1>6, <2>1, Stored
    <2>3. mid \in Seq(Inner(c, "t1"))
      <3>1. mid = h \o k /\ h \in Seq(Inner(c, "t1")) /\ k \in Seq(Inner(c, "t1"))
        BY <1>5, <1>6, <1>9
      <3>2. QED
        BY <3>1, Appended, Zenon
    <2>4. Ahead(mid, "y", "x") /\ (Tight(c) => Synced(mid, "y", "x"))
      BY <1>9, <2>1, <2>2
    <2>5. QED
      BY <2>2, <2>3, <2>4 DEF D, E
  <1>13. Touched(c, "t1") = {"x", "y"} \cup {"t1_a", "t1_b"}
    BY <1>1 DEF Touched
  <1>14. QED
    BY <1>1, <1>12, <1>13 DEF Body

LEMMA Sb0 ==
  ASSUME NEW c \in Configs, c.test = "sb", NEW mid,
         mid = map_store(c, "x") \o barrier_full(c) \o map_load(c, "y", "r0")
                 \o <<Keep("t0_a", "r0")>>
  PROVE  Body(c, "t0", mid)
  <1> DEFINE p == map_store(c, "x") \o barrier_full(c)
             q == map_load(c, "y", "r0")
             h == p \o q
             k == <<Keep("t0_a", "r0")>>
  <1>1. /\ Puts(c, "t0") = {"x"} /\ Gets(c, "t0") = {"y"}
        /\ Kept(c, "t0") = {"t0_a"}
        /\ First(c, "t0") = "x" /\ Second(c, "t0") = "y"
    BY DEF Puts, Writer, Gets, Kept, First, Second
  <1>2. /\ "r0" = GetReg(c, "t0", "y")
        /\ "t0_a" \in Locs /\ "r0" = KeptReg("t0_a")
        /\ "r0" \in Regs /\ "r1" \in Regs /\ "r2" \in Regs /\ "r3" \in Regs
    BY DEF GetReg, KeptReg, Locs, Regs
  <1>3. /\ Once(p, {"x"}) /\ By(p, "x", StoreOp(c)) /\ p \in Seq(Inner(c, "t0"))
        /\ c.map = "plain" /\ c.fenced => Behind(p, "x", "DMB_ISH")
    BY <1>1, <1>2, PutPart
  <1>4. Once(q, {"y"}) /\ By(q, "y", LoadOp(c)) /\ q \in Seq(Inner(c, "t0"))
    BY <1>1, <1>2, LoadPart
  <1>5. Once(k, {"t0_a"}) /\ k \in Seq(Inner(c, "t0"))
    BY <1>1, <1>2, KeepOne
  <1>6. mid = h \o k /\ h = p \o q
    OBVIOUS
  <1> HIDE DEF p, q, k, h
  <1>7. Tight(c) => Meet(p, "x", q, "y")
    BY <1>3, <1>4, Meets
  <1>8. "x" \in {"x"} /\ "y" \notin {"x"}
    OBVIOUS
  <1>9. /\ h \in Seq(Inner(c, "t0")) /\ Once(h, {"x"} \cup {"y"})
        /\ Ahead(h, "x", "y") /\ (Tight(c) => Synced(h, "x", "y"))
    BY <1>3, <1>4, <1>6, <1>7, <1>8, Halves
  <1>10. {"x"} \cup {"y"} = {"x", "y"} /\ {"x", "y"} \cap {"t0_a"} = {}
    OBVIOUS
  <1>11. Once(h, {"x", "y"}) /\ "x" \in {"x", "y"} /\ "y" \in {"x", "y"}
    BY <1>9, <1>10
  <1>12. /\ mid \in Seq(Inner(c, "t0")) /\ Once(mid, {"x", "y"} \cup {"t0_a"})
         /\ \A v \in {"x", "y"}, w \in {"t0_a"} : Ahead(mid, v, w)
         /\ Ahead(mid, "x", "y") /\ (Tight(c) => Synced(mid, "x", "y"))
    <2> DEFINE D == {"x", "y"}
               E == {"t0_a"}
    <2>1. /\ Once(h, D) /\ Once(k, E) /\ "x" \in D /\ "y" \in D /\ D \cap E = {}
      BY <1>5, <1>10, <1>11
    <2> HIDE DEF D, E
    <2>2. /\ Once(mid, D \cup E)
          /\ \A v \in D, w \in E : Ahead(mid, v, w)
          /\ \A v, w \in D : /\ Synced(h, v, w) => Synced(mid, v, w)
                             /\ Ahead(h, v, w) => Ahead(mid, v, w)
      BY <1>6, <2>1, Stored
    <2>3. mid \in Seq(Inner(c, "t0"))
      <3>1. mid = h \o k /\ h \in Seq(Inner(c, "t0")) /\ k \in Seq(Inner(c, "t0"))
        BY <1>5, <1>6, <1>9
      <3>2. QED
        BY <3>1, Appended, Zenon
    <2>4. Ahead(mid, "x", "y") /\ (Tight(c) => Synced(mid, "x", "y"))
      BY <1>9, <2>1, <2>2
    <2>5. QED
      BY <2>2, <2>3, <2>4 DEF D, E
  <1>13. Touched(c, "t0") = {"x", "y"} \cup {"t0_a"}
    BY <1>1 DEF Touched
  <1>14. QED
    BY <1>1, <1>12, <1>13 DEF Body

LEMMA Sb1 ==
  ASSUME NEW c \in Configs, c.test = "sb", NEW mid,
         mid = map_store(c, "y") \o barrier_full(c) \o map_load(c, "x", "r1")
                 \o <<Keep("t1_a", "r1")>>
  PROVE  Body(c, "t1", mid)
  <1> DEFINE p == map_store(c, "y") \o barrier_full(c)
             q == map_load(c, "x", "r1")
             h == p \o q
             k == <<Keep("t1_a", "r1")>>
  <1>1. /\ Puts(c, "t1") = {"y"} /\ Gets(c, "t1") = {"x"}
        /\ Kept(c, "t1") = {"t1_a"}
        /\ First(c, "t1") = "y" /\ Second(c, "t1") = "x"
    BY DEF Puts, Writer, Gets, Kept, First, Second
  <1>2. /\ "r1" = GetReg(c, "t1", "x")
        /\ "t1_a" \in Locs /\ "r1" = KeptReg("t1_a")
        /\ "r0" \in Regs /\ "r1" \in Regs /\ "r2" \in Regs /\ "r3" \in Regs
    BY DEF GetReg, KeptReg, Locs, Regs
  <1>3. /\ Once(p, {"y"}) /\ By(p, "y", StoreOp(c)) /\ p \in Seq(Inner(c, "t1"))
        /\ c.map = "plain" /\ c.fenced => Behind(p, "y", "DMB_ISH")
    BY <1>1, <1>2, PutPart
  <1>4. Once(q, {"x"}) /\ By(q, "x", LoadOp(c)) /\ q \in Seq(Inner(c, "t1"))
    BY <1>1, <1>2, LoadPart
  <1>5. Once(k, {"t1_a"}) /\ k \in Seq(Inner(c, "t1"))
    BY <1>1, <1>2, KeepOne
  <1>6. mid = h \o k /\ h = p \o q
    OBVIOUS
  <1> HIDE DEF p, q, k, h
  <1>7. Tight(c) => Meet(p, "y", q, "x")
    BY <1>3, <1>4, Meets
  <1>8. "y" \in {"y"} /\ "x" \notin {"y"}
    OBVIOUS
  <1>9. /\ h \in Seq(Inner(c, "t1")) /\ Once(h, {"y"} \cup {"x"})
        /\ Ahead(h, "y", "x") /\ (Tight(c) => Synced(h, "y", "x"))
    BY <1>3, <1>4, <1>6, <1>7, <1>8, Halves
  <1>10. {"y"} \cup {"x"} = {"x", "y"} /\ {"x", "y"} \cap {"t1_a"} = {}
    OBVIOUS
  <1>11. Once(h, {"x", "y"}) /\ "y" \in {"x", "y"} /\ "x" \in {"x", "y"}
    BY <1>9, <1>10
  <1>12. /\ mid \in Seq(Inner(c, "t1")) /\ Once(mid, {"x", "y"} \cup {"t1_a"})
         /\ \A v \in {"x", "y"}, w \in {"t1_a"} : Ahead(mid, v, w)
         /\ Ahead(mid, "y", "x") /\ (Tight(c) => Synced(mid, "y", "x"))
    <2> DEFINE D == {"x", "y"}
               E == {"t1_a"}
    <2>1. /\ Once(h, D) /\ Once(k, E) /\ "y" \in D /\ "x" \in D /\ D \cap E = {}
      BY <1>5, <1>10, <1>11
    <2> HIDE DEF D, E
    <2>2. /\ Once(mid, D \cup E)
          /\ \A v \in D, w \in E : Ahead(mid, v, w)
          /\ \A v, w \in D : /\ Synced(h, v, w) => Synced(mid, v, w)
                             /\ Ahead(h, v, w) => Ahead(mid, v, w)
      BY <1>6, <2>1, Stored
    <2>3. mid \in Seq(Inner(c, "t1"))
      <3>1. mid = h \o k /\ h \in Seq(Inner(c, "t1")) /\ k \in Seq(Inner(c, "t1"))
        BY <1>5, <1>6, <1>9
      <3>2. QED
        BY <3>1, Appended, Zenon
    <2>4. Ahead(mid, "y", "x") /\ (Tight(c) => Synced(mid, "y", "x"))
      BY <1>9, <2>1, <2>2
    <2>5. QED
      BY <2>2, <2>3, <2>4 DEF D, E
  <1>13. Touched(c, "t1") = {"x", "y"} \cup {"t1_a"}
    BY <1>1 DEF Touched
  <1>14. QED
    BY <1>1, <1>12, <1>13 DEF Body

LEMMA Wrc2 ==
  ASSUME NEW c \in Configs, c.test = "wrc", NEW mid,
         mid = map_load(c, "y", "r2") \o map_load(c, "x", "r3")
                 \o <<Keep("t2_a", "r2"), Keep("t2_b", "r3")>>
  PROVE  Body(c, "t2", mid)
  <1> DEFINE p == map_load(c, "y", "r2")
             q == map_load(c, "x", "r3")
             h == p \o q
             k == <<Keep("t2_a", "r2"), Keep("t2_b", "r3")>>
  <1>1. /\ Puts(c, "t2") = {} /\ Gets(c, "t2") = {"x", "y"}
        /\ Kept(c, "t2") = {"t2_a", "t2_b"}
        /\ First(c, "t2") = "y" /\ Second(c, "t2") = "x"
    BY DEF Puts, Writer, Gets, Kept, First, Second
  <1>2. /\ "r2" = GetReg(c, "t2", "y") /\ "r3" = GetReg(c, "t2", "x")
        /\ "t2_a" \in Locs /\ "r2" = KeptReg("t2_a")
        /\ "t2_b" \in Locs /\ "r3" = KeptReg("t2_b")
        /\ "r0" \in Regs /\ "r1" \in Regs /\ "r2" \in Regs /\ "r3" \in Regs
    BY DEF GetReg, KeptReg, Locs, Regs
  <1>3. /\ Once(p, {"y"}) /\ By(p, "y", LoadOp(c)) /\ p \in Seq(Inner(c, "t2"))
        /\ c.map = "dmb" => Behind(p, "y", "DMB_ISHLD")
    BY <1>1, <1>2, LoadPart
  <1>a. Tight(c) => c.map # "plain"
    BY DEF Tight
  <1>4. Once(q, {"x"}) /\ By(q, "x", LoadOp(c)) /\ q \in Seq(Inner(c, "t2"))
    BY <1>1, <1>2, LoadPart
  <1>5. Once(k, {"t2_a", "t2_b"}) /\ k \in Seq(Inner(c, "t2"))
    BY <1>1, <1>2, KeepTwo
  <1>6. mid = h \o k /\ h = p \o q
    OBVIOUS
  <1> HIDE DEF p, q, k, h
  <1>7. Tight(c) => Meet(p, "y", q, "x")
    BY <1>3, <1>4, <1>a, Meets
  <1>8. "y" \in {"y"} /\ "x" \notin {"y"}
    OBVIOUS
  <1>9. /\ h \in Seq(Inner(c, "t2")) /\ Once(h, {"y"} \cup {"x"})
        /\ Ahead(h, "y", "x") /\ (Tight(c) => Synced(h, "y", "x"))
    BY <1>3, <1>4, <1>6, <1>7, <1>8, Halves
  <1>10. {"y"} \cup {"x"} = {"x", "y"} /\ {"x", "y"} \cap {"t2_a", "t2_b"} = {}
    OBVIOUS
  <1>11. Once(h, {"x", "y"}) /\ "y" \in {"x", "y"} /\ "x" \in {"x", "y"}
    BY <1>9, <1>10
  <1>12. /\ mid \in Seq(Inner(c, "t2")) /\ Once(mid, {"x", "y"} \cup {"t2_a", "t2_b"})
         /\ \A v \in {"x", "y"}, w \in {"t2_a", "t2_b"} : Ahead(mid, v, w)
         /\ Ahead(mid, "y", "x") /\ (Tight(c) => Synced(mid, "y", "x"))
    <2> DEFINE D == {"x", "y"}
               E == {"t2_a", "t2_b"}
    <2>1. /\ Once(h, D) /\ Once(k, E) /\ "y" \in D /\ "x" \in D /\ D \cap E = {}
      BY <1>5, <1>10, <1>11
    <2> HIDE DEF D, E
    <2>2. /\ Once(mid, D \cup E)
          /\ \A v \in D, w \in E : Ahead(mid, v, w)
          /\ \A v, w \in D : /\ Synced(h, v, w) => Synced(mid, v, w)
                             /\ Ahead(h, v, w) => Ahead(mid, v, w)
      BY <1>6, <2>1, Stored
    <2>3. mid \in Seq(Inner(c, "t2"))
      <3>1. mid = h \o k /\ h \in Seq(Inner(c, "t2")) /\ k \in Seq(Inner(c, "t2"))
        BY <1>5, <1>6, <1>9
      <3>2. QED
        BY <3>1, Appended, Zenon
    <2>4. Ahead(mid, "y", "x") /\ (Tight(c) => Synced(mid, "y", "x"))
      BY <1>9, <2>1, <2>2
    <2>5. QED
      BY <2>2, <2>3, <2>4 DEF D, E
  <1>13. Touched(c, "t2") = {"x", "y"} \cup {"t2_a", "t2_b"}
    BY <1>1 DEF Touched
  <1>14. QED
    BY <1>1, <1>12, <1>13 DEF Body

LEMMA Wrc0 ==
  ASSUME NEW c \in Configs, c.test = "wrc", NEW mid, mid = map_store(c, "x")
  PROVE  Body(c, "t0", mid)
  <1>1. /\ Puts(c, "t0") = {"x"} /\ Gets(c, "t0") = {} /\ Kept(c, "t0") = {}
        /\ First(c, "t0") = "x" /\ Second(c, "t0") = "y"
    BY DEF Puts, Writer, Gets, Kept, First, Second
  <1>2. Once(mid, {"x"}) /\ mid \in Seq(Inner(c, "t0"))
    BY <1>1, StorePart
  <1>3. \A k \in 1..Len(mid) : ~Uses(mid, k, "y")
    BY <1>2 DEF Once, Uses
  <1>4. Ahead(mid, "x", "y") /\ Synced(mid, "x", "y")
    BY <1>3 DEF Ahead, Synced
  <1>5. Touched(c, "t0") = {"x"}
    BY <1>1 DEF Touched
  <1>6. QED
    BY <1>1, <1>2, <1>4, <1>5 DEF Body

LEMMA Wrc1 ==
  ASSUME NEW c \in Configs, c.test = "wrc", NEW mid,
         mid = map_load(c, "x", "r1") \o <<Keep("t1_a", "r1")>> \o map_store(c, "y")
  PROVE  Body(c, "t1", mid)
  <1> DEFINE p == map_load(c, "x", "r1")
             k == <<Keep("t1_a", "r1")>>
             h == p \o k
             q == map_store(c, "y")
  <1>1. /\ Puts(c, "t1") = {"y"} /\ Gets(c, "t1") = {"x"} /\ Kept(c, "t1") = {"t1_a"}
        /\ First(c, "t1") = "x" /\ Second(c, "t1") = "y"
    BY DEF Puts, Writer, Gets, Kept, First, Second
  <1>2. /\ "r1" = GetReg(c, "t1", "x") /\ "r1" = KeptReg("t1_a") /\ "t1_a" \in Locs
        /\ "r1" \in Regs
    BY DEF GetReg, KeptReg, Locs, Regs
  <1>3. /\ Once(p, {"x"}) /\ By(p, "x", LoadOp(c)) /\ p \in Seq(Inner(c, "t1"))
        /\ c.map = "dmb" => Behind(p, "x", "DMB_ISHLD")
    BY <1>1, <1>2, LoadPart
  <1>4. Once(q, {"y"}) /\ q \in Seq(Inner(c, "t1"))
    BY <1>1, StorePart
  <1>5. Once(k, {"t1_a"}) /\ k \in Seq(Inner(c, "t1"))
    BY <1>1, <1>2, KeepOne
  <1>6. mid = h \o q /\ h = p \o k
    OBVIOUS
  <1>7. Tight(c) => c.map # "plain"
    BY DEF Tight
  <1> HIDE DEF p, q, k, h
  <1>8. {"x"} \cap {"t1_a"} = {} /\ {"x"} \cup {"t1_a"} = {"x", "t1_a"} /\ "x" \in {"x"}
    OBVIOUS
  <1>9. Once(h, {"x"} \cup {"t1_a"}) /\ Ahead(h, "x", "t1_a")
    BY <1>3, <1>5, <1>6, <1>8, OnceAppended, AheadAppended
  <1>10. /\ By(h, "x", LoadOp(c)) /\ (c.map = "dmb" => Behind(h, "x", "DMB_ISHLD"))
    BY <1>3, <1>5, <1>6, <1>8, Longer
  <1>11. Tight(c) => Meet(h, "x", q, "y")
    BY <1>7, <1>10, Meets
  <1>12. Once(h, {"x", "t1_a"}) /\ h \in Seq(Inner(c, "t1"))
    BY <1>3, <1>5, <1>6, <1>8, <1>9
  <1>13. "x" \in {"x", "t1_a"} /\ "t1_a" \in {"x", "t1_a"} /\ "y" \notin {"x", "t1_a"}
    OBVIOUS
  <1>14. /\ mid \in Seq(Inner(c, "t1")) /\ Once(mid, {"x", "t1_a"} \cup {"y"})
         /\ Ahead(mid, "x", "y") /\ (Tight(c) => Synced(mid, "x", "y"))
    BY <1>4, <1>6, <1>11, <1>12, <1>13, Halves
  <1>15. Ahead(mid, "x", "t1_a")
    <2>1. {"x", "t1_a"} \cap {"y"} = {}
      OBVIOUS
    <2>2. QED
      BY <1>4, <1>6, <1>9, <1>12, <1>13, <2>1, Stored
  <1>16. Touched(c, "t1") = {"x", "t1_a"} \cup {"y"}
    BY <1>1 DEF Touched
  <1>17. QED
    BY <1>1, <1>14, <1>15, <1>16 DEF Body

\* A round of a worker: its gate, what it does in between, its signal.
WorkerRound(c, t, i, p) ==
  /\ p \in Seq(Insns) /\ Len(p) >= 2
  /\ p[1] = Insn("LDAR", "gate_go", i, None)
  /\ p[Len(p)] = Insn("STLR", DoneLoc(t), i, None)
  /\ \A k \in 2..(Len(p) - 1) : p[k] \in Inner(c, t)
  /\ Once(p, {"gate_go"} \cup Touched(c, t) \cup {DoneLoc(t)})
  /\ \A l \in Gets(c, t), m \in Kept(c, t) : Ahead(p, l, m)
  /\ Ahead(p, First(c, t), Second(c, t))
  /\ Tight(c) => Synced(p, First(c, t), Second(c, t))

\* An instruction of its own accesses its location once.
LEMMA Single ==
  ASSUME NEW a \in Insns, a.op \notin Barriers, NEW p, p = <<a>>
  PROVE  Once(p, {a.loc})
  <1>1. p \in Seq(Insns) /\ Len(p) = 1 /\ p[1] = a
    OBVIOUS
  <1>2. \A k \in 1..Len(p) : k = 1
    BY <1>1
  <1>3. QED
    BY <1>1, <1>2 DEF Once, Uses

LEMMA TouchedApart ==
  ASSUME NEW c, NEW t \in {"t0", "t1", "t2"}
  PROVE  /\ {"gate_go"} \cap Touched(c, t) = {}
         /\ ({"gate_go"} \cup Touched(c, t)) \cap {DoneLoc(t)} = {}
         /\ Gets(c, t) \subseteq Touched(c, t) /\ Kept(c, t) \subseteq Touched(c, t)
  <1>1. Puts(c, t) \subseteq {"x", "y"} /\ Gets(c, t) \subseteq {"x", "y"}
    BY DEF Puts, Gets
  <1>2. Kept(c, t) \subseteq {"t0_a", "t1_a", "t1_b", "t2_a", "t2_b"}
    BY DEF Kept
  <1>3. DoneLoc(t) \in {"t0_done", "t1_done", "t2_done"}
    BY DEF DoneLoc
  <1>4. QED
    BY <1>1, <1>2, <1>3 DEF Touched

LEMMA Framed ==
  ASSUME NEW c, NEW t \in {"t0", "t1", "t2"}, NEW i \in Nat, NEW mid, Body(c, t, mid),
         NEW p, p = <<wait_gate("gate_go", i)>> \o mid \o <<Signal(DoneLoc(t), i)>>
  PROVE  WorkerRound(c, t, i, p)
  <1> DEFINE a == wait_gate("gate_go", i)
             b == Signal(DoneLoc(t), i)
             u == <<a>>
             v == <<b>>
             h == u \o mid
             G == {"gate_go"}
             D == {DoneLoc(t)}
             M == Touched(c, t)
  <1>1. a \in Insns /\ b \in Insns /\ a.op \notin Barriers /\ b.op \notin Barriers
    BY DEF wait_gate, Signal, Insn, Insns, Ops, Barriers, Locs, DoneLoc
  <1>2. a.loc = "gate_go" /\ b.loc = DoneLoc(t)
    BY DEF wait_gate, Signal, Insn
  <1>3. Once(u, G) /\ Once(v, D)
    <2>1. Once(u, {a.loc}) /\ Once(v, {b.loc})
      BY <1>1, Single
    <2>2. QED
      BY <1>2, <2>1
  <1>4. p = h \o v /\ h = u \o mid
    OBVIOUS
  <1>5. G \cap M = {} /\ (G \cup M) \cap D = {}
    BY TouchedApart
  <1>6. Once(mid, M) /\ mid \in Seq(Insns) /\ \A k \in 1..Len(mid) : mid[k] \in Inner(c, t)
    BY DEF Body, Once
  <1>7. u \in Seq(Insns) /\ Len(u) = 1 /\ u[1] = a /\ v \in Seq(Insns) /\ Len(v) = 1 /\ v[1] = b
    BY <1>1
  <1> HIDE DEF a, b, u, v, h, G, D, M
  <1>8. Once(h, G \cup M)
    BY <1>3, <1>4, <1>5, <1>6, OnceAppended
  <1>9. Once(p, (G \cup M) \cup D)
    BY <1>3, <1>4, <1>5, <1>8, OnceAppended
  <1>10. Spliced(u, mid, h) /\ h \in Seq(Insns)
    BY <1>4, <1>6, <1>7, <1>8, Splice DEF Once
  <1>11. Spliced(h, v, p)
    BY <1>4, <1>7, <1>10, Splice
  <1>12. /\ Len(h) = Len(mid) + 1 /\ Len(p) = Len(mid) + 2 /\ Len(mid) \in Nat
         /\ p \in Seq(Insns)
    BY <1>7, <1>10, <1>11 DEF Spliced
  <1>13. p[1] = a /\ p[Len(p)] = b
    <2>1. 1 \in 1..Len(h) /\ 1 \in 1..Len(u) /\ 1 \in 1..Len(v) /\ Len(p) = Len(h) + 1
      BY <1>7, <1>12
    <2>2. p[1] = h[1] /\ h[1] = u[1] /\ p[Len(h) + 1] = v[1]
      BY <1>10, <1>11, <2>1 DEF Spliced
    <2>3. QED
      BY <1>7, <2>1, <2>2
  <1>14. ASSUME NEW k \in 1..Len(mid)
         PROVE  1 + k \in 1..Len(p) /\ p[1 + k] = mid[k]
    <2>1. 1 + k \in 1..Len(h) /\ 1 + k \in 1..Len(p)
      BY <1>12
    <2>2. p[1 + k] = h[1 + k] /\ h[1 + k] = mid[k]
      BY <1>7, <1>10, <1>11, <2>1 DEF Spliced
    <2>3. QED
      BY <2>1, <2>2
  <1>15. \A k \in 2..(Len(p) - 1) : p[k] \in Inner(c, t)
    <2>1. SUFFICES ASSUME NEW k \in 2..(Len(p) - 1)
                   PROVE  p[k] \in Inner(c, t)
      OBVIOUS
    <2>2. k - 1 \in 1..Len(mid) /\ k = 1 + (k - 1)
      BY <1>12
    <2>3. QED
      BY <1>6, <1>14, <2>2
  <1>16. ASSUME NEW l \in M, NEW m \in M
         PROVE  /\ Ahead(mid, l, m) => Ahead(p, l, m)
                /\ Synced(mid, l, m) => Synced(p, l, m)
    BY <1>6, <1>9, <1>14, Embedded
  <1>17. \A l \in Gets(c, t), m \in Kept(c, t) : Ahead(p, l, m)
    BY <1>16, TouchedApart DEF Body, M
  <1>18. /\ Ahead(p, First(c, t), Second(c, t))
         /\ Tight(c) => Synced(p, First(c, t), Second(c, t))
    <2>1. CASE First(c, t) \in M /\ Second(c, t) \in M
      BY <1>16, <2>1 DEF Body
    <2>2. ASSUME NEW l \in {"x", "y"}, l \notin M
          PROVE  \A k \in 1..Len(p) : ~Uses(p, k, l)
      <3>1. l \notin (G \cup M) \cup D
        BY <2>2 DEF G, D, DoneLoc
      <3>2. QED
        BY <1>9, <3>1 DEF Once, Uses
    <2>3. First(c, t) \in {"x", "y"} /\ Second(c, t) \in {"x", "y"}
      BY DEF First, Second
    <2>4. CASE ~(First(c, t) \in M /\ Second(c, t) \in M)
      BY <2>2, <2>3, <2>4 DEF Ahead, Synced
    <2>5. QED
      BY <2>1, <2>4
  <1>19. /\ p[1] = Insn("LDAR", "gate_go", i, None)
         /\ p[Len(p)] = Insn("STLR", DoneLoc(t), i, None)
    BY <1>13 DEF a, b, wait_gate, Signal
  <1>20. Once(p, {"gate_go"} \cup Touched(c, t) \cup {DoneLoc(t)}) /\ Len(p) >= 2
    BY <1>9, <1>12 DEF G, D, M
  <1>21. QED
    BY <1>12, <1>15, <1>17, <1>18, <1>19, <1>20 DEF WorkerRound

LEMMA WorkerRounds ==
  ASSUME NEW c \in Configs, NEW t \in Workers(c), NEW i \in Nat
  PROVE  WorkerRound(c, t, i, Round(c, t, i))
  <1>1. c.test \in {"mp", "sb", "wrc"} /\ t \in {"t0", "t1", "t2"}
    BY LitmusAssumption DEF Workers
  <1>2. SUFFICES \E mid : /\ Body(c, t, mid)
                          /\ Round(c, t, i) = <<wait_gate("gate_go", i)>> \o mid
                                                \o <<Signal(DoneLoc(t), i)>>
    BY <1>1, Framed
  <1>3. CASE t = "t0"
    <2>1. Round(c, t, i) = thread0(c, i) /\ DoneLoc(t) = "t0_done"
      BY <1>3, Zenon DEF Round, DoneLoc
    <2>2. CASE c.test = "mp"
      <3> DEFINE mid == map_store(c, "x") \o barrier_full(c) \o map_store(c, "y")
      <3>1. thread0(c, i) = <<wait_gate("gate_go", i)>> \o mid \o <<Signal("t0_done", i)>>
        BY <2>2, Zenon DEF thread0
      <3>2. Body(c, "t0", mid)
        BY <2>2, Mp0
      <3>3. QED
        BY <1>3, <2>1, <3>1, <3>2, Zenon
    <2>3. CASE c.test = "sb"
      <3> DEFINE mid == map_store(c, "x") \o barrier_full(c) \o map_load(c, "y", "r0")
                          \o <<Keep("t0_a", "r0")>>
      <3>1. thread0(c, i) = <<wait_gate("gate_go", i)>> \o mid \o <<Signal("t0_done", i)>>
        BY <2>3, Zenon DEF thread0
      <3>2. Body(c, "t0", mid)
        BY <2>3, Sb0
      <3>3. QED
        BY <1>3, <2>1, <3>1, <3>2, Zenon
    <2>4. CASE c.test = "wrc"
      <3>1. thread0(c, i) = <<wait_gate("gate_go", i)>> \o map_store(c, "x")
                              \o <<Signal("t0_done", i)>>
        BY <2>4, Zenon DEF thread0
      <3>2. Body(c, "t0", map_store(c, "x"))
        BY <2>4, Wrc0
      <3>3. QED
        BY <1>3, <2>1, <3>1, <3>2, Zenon
    <2>5. QED
      BY <1>1, <2>2, <2>3, <2>4
  <1>4. CASE t = "t1"
    <2>1. Round(c, t, i) = thread1(c, i) /\ DoneLoc(t) = "t1_done"
      BY <1>4, Zenon DEF Round, DoneLoc
    <2>2. CASE c.test = "mp"
      <3> DEFINE mid == map_load(c, "y", "r1") \o barrier_full(c) \o map_load(c, "x", "r2")
                          \o <<Keep("t1_a", "r1"), Keep("t1_b", "r2")>>
      <3>1. thread1(c, i) = <<wait_gate("gate_go", i)>> \o mid \o <<Signal("t1_done", i)>>
        BY <2>2, Zenon DEF thread1
      <3>2. Body(c, "t1", mid)
        BY <2>2, Mp1
      <3>3. QED
        BY <1>4, <2>1, <3>1, <3>2, Zenon
    <2>3. CASE c.test = "sb"
      <3> DEFINE mid == map_store(c, "y") \o barrier_full(c) \o map_load(c, "x", "r1")
                          \o <<Keep("t1_a", "r1")>>
      <3>1. thread1(c, i) = <<wait_gate("gate_go", i)>> \o mid \o <<Signal("t1_done", i)>>
        BY <2>3, Zenon DEF thread1
      <3>2. Body(c, "t1", mid)
        BY <2>3, Sb1
      <3>3. QED
        BY <1>4, <2>1, <3>1, <3>2, Zenon
    <2>4. CASE c.test = "wrc"
      <3> DEFINE mid == map_load(c, "x", "r1") \o <<Keep("t1_a", "r1")>> \o map_store(c, "y")
      <3>1. thread1(c, i) = <<wait_gate("gate_go", i)>> \o mid \o <<Signal("t1_done", i)>>
        BY <2>4, Zenon DEF thread1
      <3>2. Body(c, "t1", mid)
        BY <2>4, Wrc1
      <3>3. QED
        BY <1>4, <2>1, <3>1, <3>2, Zenon
    <2>5. QED
      BY <1>1, <2>2, <2>3, <2>4
  <1>5. CASE t = "t2"
    <2>1. Round(c, t, i) = thread2(c, i) /\ DoneLoc(t) = "t2_done"
      BY <1>5, Zenon DEF Round, DoneLoc
    <2>2. c.test = "wrc"
      BY <1>5 DEF Workers
    <2> DEFINE mid == map_load(c, "y", "r2") \o map_load(c, "x", "r3")
                        \o <<Keep("t2_a", "r2"), Keep("t2_b", "r3")>>
    <2>3. thread2(c, i) = <<wait_gate("gate_go", i)>> \o mid \o <<Signal("t2_done", i)>>
      BY Zenon DEF thread2
    <2>4. Body(c, "t2", mid)
      BY <2>2, Wrc2
    <2>5. QED
      BY <1>5, <2>1, <2>3, <2>4, Zenon
  <1>6. QED
    BY <1>1, <1>3, <1>4, <1>5

\* A round of main: resets, the gate, one wait per worker, then the results.
MainRound(c, i, p) ==
  /\ p \in Seq(Insns) /\ Len(p) >= 5
  /\ p[1] = Insn("STR", "x", 0, None) /\ p[2] = Insn("STR", "y", 0, None)
  /\ p[3] = Insn("STLR", "gate_go", i, None)
  /\ \A t \in Workers(c) : /\ JoinEv(t, i)[3] \in 4..Len(p)
                           /\ p[JoinEv(t, i)[3]] = Insn("LDAR", DoneLoc(t), i, None)
  /\ \A k \in 4..Len(p) :
       \/ \E t \in Workers(c) : k = JoinEv(t, i)[3]
       \/ /\ p[k].op = "LDR" /\ p[k].r = KeptReg(p[k].loc)
          /\ \E t \in Workers(c) : p[k].loc \in Kept(c, t) /\ JoinEv(t, i)[3] < k
  /\ \A t \in Workers(c) : \A l \in Kept(c, t) :
       \E k \in 4..Len(p) : p[k].op = "LDR" /\ p[k].loc = l

LEMMA MainRounds ==
  ASSUME NEW c \in Configs, NEW i \in Nat
  PROVE  MainRound(c, i, Round(c, "main", i))
  <1> DEFINE p == main(c, i)
             five == <<Reset("x"), Reset("y"), Signal("gate_go", i),
                       wait_gate("t0_done", i), wait_gate("t1_done", i)>>
  <1>0. Round(c, "main", i) = p
    BY Zenon DEF Round
  <1>1. /\ Reset("x") \in Insns /\ Reset("y") \in Insns /\ Signal("gate_go", i) \in Insns
        /\ wait_gate("t0_done", i) \in Insns /\ wait_gate("t1_done", i) \in Insns
        /\ wait_gate("t2_done", i) \in Insns
        /\ Fetch("t0_a", "r0") \in Insns /\ Fetch("t1_a", "r1") \in Insns
        /\ Fetch("t1_b", "r2") \in Insns
        /\ Fetch("t2_a", "r2") \in Insns /\ Fetch("t2_b", "r3") \in Insns
    BY DEF Insns, Ops, Barriers, Locs, Regs, Reset, Signal, wait_gate, Fetch, Insn
  <1>2. /\ five \in Seq(Insns) /\ Len(five) = 5
        /\ five[1] = Reset("x") /\ five[2] = Reset("y") /\ five[3] = Signal("gate_go", i)
        /\ five[4] = wait_gate("t0_done", i) /\ five[5] = wait_gate("t1_done", i)
    BY <1>1
  <1>3. CASE c.test = "mp"
    <2> DEFINE rest == <<Fetch("t1_a", "r1"), Fetch("t1_b", "r2")>>
    <2>1. p = five \o rest
      BY <1>3, Zenon DEF main
    <2>2. /\ rest \in Seq(Insns) /\ Len(rest) = 2
          /\ rest[1] = Fetch("t1_a", "r1") /\ rest[2] = Fetch("t1_b", "r2")
      BY <1>1
    <2> HIDE DEF five, p, rest
    <2>a. five \in Seq(Insns) /\ rest \in Seq(Insns)
      BY <1>2, <2>2
    <2>b. /\ p \in Seq(Insns) /\ Len(p) = Len(five) + Len(rest)
          /\ \A k \in 1..Len(five) : p[k] = five[k]
          /\ \A k \in 1..Len(rest) : p[Len(five) + k] = rest[k]
      BY <2>a, <2>1, Appended
    <2>3. p \in Seq(Insns) /\ Len(p) = 7
      BY <1>2, <2>2, <2>b
    <2>4. /\ p[1] = five[1] /\ p[2] = five[2] /\ p[3] = five[3] /\ p[4] = five[4]
          /\ p[5] = five[5] /\ p[6] = Fetch("t1_a", "r1") /\ p[7] = Fetch("t1_b", "r2")
      BY <1>2, <2>2, <2>b
    <2>5. Workers(c) = {"t0", "t1"}
      BY <1>3 DEF Workers
    <2>6. \A t \in Workers(c) :
            /\ JoinEv(t, i)[3] \in 4..Len(p)
            /\ p[JoinEv(t, i)[3]] = wait_gate(DoneLoc(t), i)
      BY <1>2, <2>3, <2>4, <2>5 DEF JoinEv, DoneLoc
    <2>7. ASSUME NEW k \in 4..Len(p)
          PROVE  \/ \E t \in Workers(c) : k = JoinEv(t, i)[3]
                 \/ /\ p[k].op = "LDR" /\ p[k].r = KeptReg(p[k].loc)
                    /\ \E t \in Workers(c) : p[k].loc \in Kept(c, t) /\ JoinEv(t, i)[3] < k
      <3>1. k \in {4, 5, 6, 7}
        BY <2>3
      <3>2. CASE k = 4
        BY <2>5, <3>2 DEF JoinEv
      <3>3. CASE k = 5
        BY <2>5, <3>3 DEF JoinEv
      <3>4. CASE k = 6
        <4>1. p[k].op = "LDR" /\ p[k].loc = "t1_a" /\ p[k].r = KeptReg(p[k].loc)
          BY <2>4, <3>4 DEF Fetch, Insn, KeptReg
        <4>2. "t1" \in Workers(c) /\ p[k].loc \in Kept(c, "t1") /\ JoinEv("t1", i)[3] < k
          BY <1>3, <2>5, <3>4, <4>1 DEF Kept, JoinEv
        <4>3. QED
          BY <4>1, <4>2
      <3>5. CASE k = 7
        <4>1. p[k].op = "LDR" /\ p[k].loc = "t1_b" /\ p[k].r = KeptReg(p[k].loc)
          BY <2>4, <3>5 DEF Fetch, Insn, KeptReg
        <4>2. "t1" \in Workers(c) /\ p[k].loc \in Kept(c, "t1") /\ JoinEv("t1", i)[3] < k
          BY <1>3, <2>5, <3>5, <4>1 DEF Kept, JoinEv
        <4>3. QED
          BY <4>1, <4>2
      <3>6. QED
        BY <3>1, <3>2, <3>3, <3>4, <3>5
    <2>8. /\ p[1] = Insn("STR", "x", 0, None) /\ p[2] = Insn("STR", "y", 0, None)
          /\ p[3] = Insn("STLR", "gate_go", i, None)
      BY <1>2, <2>4 DEF Reset, Signal
    <2>9. \A t \in Workers(c) : /\ JoinEv(t, i)[3] \in 4..Len(p)
                                /\ p[JoinEv(t, i)[3]] = Insn("LDAR", DoneLoc(t), i, None)
      BY <2>6 DEF wait_gate
    <2>10. p \in Seq(Insns) /\ Len(p) >= 5
      BY <2>3
    <2>11. ASSUME NEW t \in Workers(c), NEW l \in Kept(c, t)
           PROVE  \E k \in 4..Len(p) : p[k].op = "LDR" /\ p[k].loc = l
      <3>1. l \in {"t1_a", "t1_b"}
        BY <1>3, <2>5 DEF Kept
      <3>2. /\ p[6].op = "LDR" /\ p[6].loc = "t1_a"
            /\ p[7].op = "LDR" /\ p[7].loc = "t1_b"
        BY <2>4 DEF Fetch, Insn
      <3>3. QED
        BY <2>3, <3>1, <3>2
    <2>12. QED
      BY <1>0, <2>7, <2>8, <2>9, <2>10, <2>11, Zenon DEF MainRound
  <1>4. CASE c.test = "sb"
    <2> DEFINE rest == <<Fetch("t0_a", "r0"), Fetch("t1_a", "r1")>>
    <2>1. p = five \o rest
      BY <1>4, Zenon DEF main
    <2>2. /\ rest \in Seq(Insns) /\ Len(rest) = 2
          /\ rest[1] = Fetch("t0_a", "r0") /\ rest[2] = Fetch("t1_a", "r1")
      BY <1>1
    <2> HIDE DEF five, p, rest
    <2>a. five \in Seq(Insns) /\ rest \in Seq(Insns)
      BY <1>2, <2>2
    <2>b. /\ p \in Seq(Insns) /\ Len(p) = Len(five) + Len(rest)
          /\ \A k \in 1..Len(five) : p[k] = five[k]
          /\ \A k \in 1..Len(rest) : p[Len(five) + k] = rest[k]
      BY <2>a, <2>1, Appended
    <2>3. p \in Seq(Insns) /\ Len(p) = 7
      BY <1>2, <2>2, <2>b
    <2>4. /\ p[1] = five[1] /\ p[2] = five[2] /\ p[3] = five[3] /\ p[4] = five[4]
          /\ p[5] = five[5] /\ p[6] = Fetch("t0_a", "r0") /\ p[7] = Fetch("t1_a", "r1")
      BY <1>2, <2>2, <2>b
    <2>5. Workers(c) = {"t0", "t1"}
      BY <1>4 DEF Workers
    <2>6. \A t \in Workers(c) :
            /\ JoinEv(t, i)[3] \in 4..Len(p)
            /\ p[JoinEv(t, i)[3]] = wait_gate(DoneLoc(t), i)
      BY <1>2, <2>3, <2>4, <2>5 DEF JoinEv, DoneLoc
    <2>7. ASSUME NEW k \in 4..Len(p)
          PROVE  \/ \E t \in Workers(c) : k = JoinEv(t, i)[3]
                 \/ /\ p[k].op = "LDR" /\ p[k].r = KeptReg(p[k].loc)
                    /\ \E t \in Workers(c) : p[k].loc \in Kept(c, t) /\ JoinEv(t, i)[3] < k
      <3>1. k \in {4, 5, 6, 7}
        BY <2>3
      <3>2. CASE k = 4
        BY <2>5, <3>2 DEF JoinEv
      <3>3. CASE k = 5
        BY <2>5, <3>3 DEF JoinEv
      <3>4. CASE k = 6
        <4>1. p[k].op = "LDR" /\ p[k].loc = "t0_a" /\ p[k].r = KeptReg(p[k].loc)
          BY <2>4, <3>4 DEF Fetch, Insn, KeptReg
        <4>2. "t0" \in Workers(c) /\ p[k].loc \in Kept(c, "t0") /\ JoinEv("t0", i)[3] < k
          BY <1>4, <2>5, <3>4, <4>1 DEF Kept, JoinEv
        <4>3. QED
          BY <4>1, <4>2
      <3>5. CASE k = 7
        <4>1. p[k].op = "LDR" /\ p[k].loc = "t1_a" /\ p[k].r = KeptReg(p[k].loc)
          BY <2>4, <3>5 DEF Fetch, Insn, KeptReg
        <4>2. "t1" \in Workers(c) /\ p[k].loc \in Kept(c, "t1") /\ JoinEv("t1", i)[3] < k
          BY <1>4, <2>5, <3>5, <4>1 DEF Kept, JoinEv
        <4>3. QED
          BY <4>1, <4>2
      <3>6. QED
        BY <3>1, <3>2, <3>3, <3>4, <3>5
    <2>8. /\ p[1] = Insn("STR", "x", 0, None) /\ p[2] = Insn("STR", "y", 0, None)
          /\ p[3] = Insn("STLR", "gate_go", i, None)
      BY <1>2, <2>4 DEF Reset, Signal
    <2>9. \A t \in Workers(c) : /\ JoinEv(t, i)[3] \in 4..Len(p)
                                /\ p[JoinEv(t, i)[3]] = Insn("LDAR", DoneLoc(t), i, None)
      BY <2>6 DEF wait_gate
    <2>10. p \in Seq(Insns) /\ Len(p) >= 5
      BY <2>3
    <2>11. ASSUME NEW t \in Workers(c), NEW l \in Kept(c, t)
           PROVE  \E k \in 4..Len(p) : p[k].op = "LDR" /\ p[k].loc = l
      <3>1. l \in {"t0_a", "t1_a"}
        BY <1>4, <2>5 DEF Kept
      <3>2. /\ p[6].op = "LDR" /\ p[6].loc = "t0_a"
            /\ p[7].op = "LDR" /\ p[7].loc = "t1_a"
        BY <2>4 DEF Fetch, Insn
      <3>3. QED
        BY <2>3, <3>1, <3>2
    <2>12. QED
      BY <1>0, <2>7, <2>8, <2>9, <2>10, <2>11, Zenon DEF MainRound
  <1>5. CASE c.test = "wrc"
    <2> DEFINE rest == <<wait_gate("t2_done", i), Fetch("t1_a", "r1"),
                         Fetch("t2_a", "r2"), Fetch("t2_b", "r3")>>
    <2>1. p = five \o rest
      BY <1>5, Zenon DEF main
    <2>2. /\ rest \in Seq(Insns) /\ Len(rest) = 4
          /\ rest[1] = wait_gate("t2_done", i) /\ rest[2] = Fetch("t1_a", "r1")
          /\ rest[3] = Fetch("t2_a", "r2") /\ rest[4] = Fetch("t2_b", "r3")
      BY <1>1
    <2> HIDE DEF five, p, rest
    <2>a. five \in Seq(Insns) /\ rest \in Seq(Insns)
      BY <1>2, <2>2
    <2>b. /\ p \in Seq(Insns) /\ Len(p) = Len(five) + Len(rest)
          /\ \A k \in 1..Len(five) : p[k] = five[k]
          /\ \A k \in 1..Len(rest) : p[Len(five) + k] = rest[k]
      BY <2>a, <2>1, Appended
    <2>3. p \in Seq(Insns) /\ Len(p) = 9
      BY <1>2, <2>2, <2>b
    <2>4. /\ p[1] = five[1] /\ p[2] = five[2] /\ p[3] = five[3] /\ p[4] = five[4]
          /\ p[5] = five[5] /\ p[6] = wait_gate("t2_done", i) /\ p[7] = Fetch("t1_a", "r1")
          /\ p[8] = Fetch("t2_a", "r2") /\ p[9] = Fetch("t2_b", "r3")
      BY <1>2, <2>2, <2>b
    <2>5. Workers(c) = {"t0", "t1", "t2"}
      BY <1>5 DEF Workers
    <2>6. \A t \in Workers(c) :
            /\ JoinEv(t, i)[3] \in 4..Len(p)
            /\ p[JoinEv(t, i)[3]] = wait_gate(DoneLoc(t), i)
      BY <1>2, <2>3, <2>4, <2>5 DEF JoinEv, DoneLoc
    <2>7. ASSUME NEW k \in 4..Len(p)
          PROVE  \/ \E t \in Workers(c) : k = JoinEv(t, i)[3]
                 \/ /\ p[k].op = "LDR" /\ p[k].r = KeptReg(p[k].loc)
                    /\ \E t \in Workers(c) : p[k].loc \in Kept(c, t) /\ JoinEv(t, i)[3] < k
      <3>1. k \in {4, 5, 6, 7, 8, 9}
        BY <2>3
      <3>2. CASE k = 4
        BY <2>5, <3>2 DEF JoinEv
      <3>3. CASE k = 5
        BY <2>5, <3>3 DEF JoinEv
      <3>4. CASE k = 6
        BY <2>5, <3>4 DEF JoinEv
      <3>5. CASE k = 7
        <4>1. p[k].op = "LDR" /\ p[k].loc = "t1_a" /\ p[k].r = KeptReg(p[k].loc)
          BY <2>4, <3>5 DEF Fetch, Insn, KeptReg
        <4>2. "t1" \in Workers(c) /\ p[k].loc \in Kept(c, "t1") /\ JoinEv("t1", i)[3] < k
          BY <1>5, <2>5, <3>5, <4>1 DEF Kept, JoinEv
        <4>3. QED
          BY <4>1, <4>2
      <3>6. CASE k = 8
        <4>1. p[k].op = "LDR" /\ p[k].loc = "t2_a" /\ p[k].r = KeptReg(p[k].loc)
          BY <2>4, <3>6 DEF Fetch, Insn, KeptReg
        <4>2. "t2" \in Workers(c) /\ p[k].loc \in Kept(c, "t2") /\ JoinEv("t2", i)[3] < k
          BY <1>5, <2>5, <3>6, <4>1 DEF Kept, JoinEv
        <4>3. QED
          BY <4>1, <4>2
      <3>7. CASE k = 9
        <4>1. p[k].op = "LDR" /\ p[k].loc = "t2_b" /\ p[k].r = KeptReg(p[k].loc)
          BY <2>4, <3>7 DEF Fetch, Insn, KeptReg
        <4>2. "t2" \in Workers(c) /\ p[k].loc \in Kept(c, "t2") /\ JoinEv("t2", i)[3] < k
          BY <1>5, <2>5, <3>7, <4>1 DEF Kept, JoinEv
        <4>3. QED
          BY <4>1, <4>2
      <3>8. QED
        BY <3>1, <3>2, <3>3, <3>4, <3>5, <3>6, <3>7
    <2>8. /\ p[1] = Insn("STR", "x", 0, None) /\ p[2] = Insn("STR", "y", 0, None)
          /\ p[3] = Insn("STLR", "gate_go", i, None)
      BY <1>2, <2>4 DEF Reset, Signal
    <2>9. \A t \in Workers(c) : /\ JoinEv(t, i)[3] \in 4..Len(p)
                                /\ p[JoinEv(t, i)[3]] = Insn("LDAR", DoneLoc(t), i, None)
      BY <2>6 DEF wait_gate
    <2>10. p \in Seq(Insns) /\ Len(p) >= 5
      BY <2>3
    <2>11. ASSUME NEW t \in Workers(c), NEW l \in Kept(c, t)
           PROVE  \E k \in 4..Len(p) : p[k].op = "LDR" /\ p[k].loc = l
      <3>1. l \in {"t1_a", "t2_a", "t2_b"}
        BY <1>5, <2>5 DEF Kept
      <3>2. /\ p[7].op = "LDR" /\ p[7].loc = "t1_a"
            /\ p[8].op = "LDR" /\ p[8].loc = "t2_a"
            /\ p[9].op = "LDR" /\ p[9].loc = "t2_b"
        BY <2>4 DEF Fetch, Insn
      <3>3. QED
        BY <2>3, <3>1, <3>2
    <2>12. QED
      BY <1>0, <2>7, <2>8, <2>9, <2>10, <2>11, Zenon DEF MainRound
  <1>6. QED
    BY <1>3, <1>4, <1>5, LitmusAssumption

-----------------------------------------------------------------------------
(* What the machine keeps of their order *)

LEMMA EventShape ==
  ASSUME Programs, NEW t \in Actors(cfg)
  PROVE  /\ \A e : e \in Events(t) <=>
                     \E i \in Rounds : \E k \in DOMAIN Round(cfg, t, i) : e = <<t, i, k>>
         /\ \A i \in Rounds : prog[t][i] = Round(cfg, t, i)
         /\ \A i, k : At(<<t, i, k>>) = prog[t][i][k]
  <1>1. DOMAIN prog[t] = Rounds /\ \A i \in Rounds : prog[t][i] = Round(cfg, t, i)
    BY DEF Programs
  <1>2. \A i, k : At(<<t, i, k>>) = prog[t][i][k]
    BY DEF At
  <1>3. QED
    BY <1>1, <1>2 DEF Events

\* The four reasons this proof needs for the machine to keep d before e.
Held(d, e) ==
  \/ Acquires(At(d).op)
  \/ At(e).op = "STLR"
  \/ At(d).op = "STLR" /\ At(e).op = "LDAR"
  \/ At(d).loc = At(e).loc /\ Stores(At(e).op)

LEMMA Ordered ==
  ASSUME Programs, NEW t \in Actors(cfg), NEW e \in Accesses(t)
  PROVE  /\ DOMAIN order[t] = Accesses(t)
         /\ order[t][e] \subseteq Accesses(t)
         /\ \A d \in Accesses(t) : Before(d, e) /\ Held(d, e) => d \in order[t][e]
  <1>1. ASSUME NEW s \in BOOLEAN
        PROVE  /\ DOMAIN Order(t, s) = Accesses(t)
               /\ Order(t, s)[e] \subseteq Accesses(t)
               /\ \A d \in Accesses(t) : Before(d, e) /\ Held(d, e) => d \in Order(t, s)[e]
    BY DEF Order, Held, MustPrecede, Releases, AcquiresSc, Stores
  <1>2. order[t] = Order(t, TRUE) \/ order[t] = Order(t, FALSE)
    BY DEF Programs
  <1>3. QED
    BY <1>1, <1>2

\* The accesses of a worker.
LEMMA WorkerAccesses ==
  ASSUME Programs, NEW t \in Workers(cfg)
  PROVE  /\ t \in Actors(cfg) /\ t \in {"t0", "t1", "t2"}
         /\ \A i \in Rounds :
              /\ StartEv(t, i) \in Accesses(t)
              /\ At(StartEv(t, i)) = Insn("LDAR", "gate_go", i, None)
              /\ EndEv(t, i) \in Accesses(t)
              /\ At(EndEv(t, i)) = Insn("STLR", DoneLoc(t), i, None)
              /\ EndEv(t, i)[3] \in Nat /\ EndEv(t, i)[3] >= 2
         /\ \A e \in Accesses(t) :
              /\ e = <<t, e[2], e[3]>> /\ e[2] \in Rounds /\ e[3] \in 1..EndEv(t, e[2])[3]
              /\ e # StartEv(t, e[2]) => e[3] > 1
              /\ e # EndEv(t, e[2]) => e[3] < EndEv(t, e[2])[3]
              /\ e # StartEv(t, e[2]) /\ e # EndEv(t, e[2])
                   => At(e) \in Inner(cfg, t) /\ At(e).op \notin Barriers
  <1>0. t \in Actors(cfg) /\ t \in {"t0", "t1", "t2"} /\ cfg \in Configs
    BY DEF Actors, Workers, Programs
  <1>a. \A i \in Rounds : i \in Nat
    BY LitmusAssumption DEF Rounds
  <1>1. \A i \in Rounds : WorkerRound(cfg, t, i, Round(cfg, t, i))
    BY <1>0, <1>a, WorkerRounds
  <1>2. ASSUME NEW i \in Rounds
        PROVE  /\ StartEv(t, i) \in Accesses(t)
               /\ At(StartEv(t, i)) = Insn("LDAR", "gate_go", i, None)
               /\ EndEv(t, i) \in Accesses(t)
               /\ At(EndEv(t, i)) = Insn("STLR", DoneLoc(t), i, None)
               /\ EndEv(t, i)[3] \in Nat /\ EndEv(t, i)[3] >= 2
    <2> DEFINE p == Round(cfg, t, i)
    <2>1. WorkerRound(cfg, t, i, p)
      BY <1>1
    <2>2. /\ \A k \in DOMAIN p : <<t, i, k>> \in Events(t) /\ At(<<t, i, k>>) = p[k]
          /\ EndEv(t, i) = <<t, i, Len(p)>>
      BY <1>0, EventShape DEF EndEv
    <2> HIDE DEF p
    <2>3. Len(p) \in Nat /\ Len(p) >= 2 /\ DOMAIN p = 1..Len(p)
      BY <2>1 DEF WorkerRound
    <2>4. 1 \in DOMAIN p /\ Len(p) \in DOMAIN p /\ \A k \in 2..(Len(p) - 1) : k \in DOMAIN p
      BY <2>3
    <2>5. \A op \in {"LDAR", "STLR", "STR"} : op \notin Barriers
      BY DEF Barriers
    <2>6. /\ StartEv(t, i) \in Accesses(t)
          /\ At(StartEv(t, i)) = Insn("LDAR", "gate_go", i, None)
      BY <2>1, <2>2, <2>4, <2>5 DEF StartEv, Accesses, WorkerRound, Insn
    <2>7. /\ EndEv(t, i) \in Accesses(t)
          /\ At(EndEv(t, i)) = Insn("STLR", DoneLoc(t), i, None)
      BY <2>1, <2>2, <2>4, <2>5 DEF Accesses, WorkerRound, Insn
    <2>8. EndEv(t, i)[3] = Len(p)
      BY <2>2
    <2>9. QED
      BY <2>3, <2>6, <2>7, <2>8
  <1>3. ASSUME NEW e \in Accesses(t)
        PROVE  /\ e = <<t, e[2], e[3]>> /\ e[2] \in Rounds /\ e[3] \in 1..EndEv(t, e[2])[3]
               /\ e # StartEv(t, e[2]) => e[3] > 1
               /\ e # EndEv(t, e[2]) => e[3] < EndEv(t, e[2])[3]
               /\ e # StartEv(t, e[2]) /\ e # EndEv(t, e[2])
                    => At(e) \in Inner(cfg, t) /\ At(e).op \notin Barriers
    <2>1. e \in Events(t) /\ At(e).op \notin Barriers
      BY DEF Accesses
    <2>a. PICK i \in Rounds : \E k \in DOMAIN Round(cfg, t, i) : e = <<t, i, k>>
      BY <1>0, <2>1, EventShape
    <2>2. PICK k \in DOMAIN Round(cfg, t, i) : e = <<t, i, k>>
      BY <2>a
    <2>3. WorkerRound(cfg, t, i, Round(cfg, t, i)) /\ At(e) = Round(cfg, t, i)[k]
      BY <1>0, <1>1, <2>2, EventShape
    <2>4. k \in 1..Len(Round(cfg, t, i)) /\ Len(Round(cfg, t, i)) \in Nat
      BY <2>2, <2>3 DEF WorkerRound
    <2>5. EndEv(t, i) = <<t, i, Len(Round(cfg, t, i))>> /\ StartEv(t, i) = <<t, i, 1>>
      BY DEF EndEv, StartEv
    <2>6. \A j \in 2..(Len(Round(cfg, t, i)) - 1) : Round(cfg, t, i)[j] \in Inner(cfg, t)
      BY <2>3 DEF WorkerRound
    <2>7. QED
      BY <2>1, <2>2, <2>3, <2>4, <2>5, <2>6
  <1>4. QED
    BY <1>0, <1>2, <1>3

\* An access of a worker in its round.
LEMMA Placed ==
  ASSUME Programs, NEW t \in Workers(cfg), NEW e \in Accesses(t),
         NEW p, p = Round(cfg, t, e[2])
  PROVE  /\ WorkerRound(cfg, t, e[2], p) /\ e[2] \in Rounds /\ e[3] \in 1..Len(p)
         /\ At(e) = p[e[3]] /\ e = <<t, e[2], e[3]>> /\ Uses(p, e[3], At(e).loc)
         /\ \A k \in 1..Len(p) :
              <<t, e[2], k>> \in Events(t) /\ At(<<t, e[2], k>>) = p[k]
  <1>0. t \in Actors(cfg) /\ cfg \in Configs
    BY DEF Actors, Programs
  <1>1. PICK i \in Rounds : \E k \in DOMAIN Round(cfg, t, i) : e = <<t, i, k>>
    BY <1>0, EventShape DEF Accesses
  <1>2. PICK k \in DOMAIN Round(cfg, t, i) : e = <<t, i, k>>
    BY <1>1
  <1>3. e[2] = i /\ e[3] = k /\ e = <<t, e[2], e[3]>>
    BY <1>2
  <1>4. i \in Nat
    BY LitmusAssumption DEF Rounds
  <1>5. WorkerRound(cfg, t, i, p)
    BY <1>0, <1>3, <1>4, WorkerRounds
  <1>6. p = Round(cfg, t, i)
    BY <1>3
  <1>7. DOMAIN p = 1..Len(p)
    BY <1>5 DEF WorkerRound
  <1>8. \A n \in DOMAIN p : <<t, i, n>> \in Events(t) /\ At(<<t, i, n>>) = p[n]
    BY <1>0, <1>6, EventShape
  <1>9. k \in 1..Len(p)
    BY <1>2, <1>6, <1>7
  <1>10. At(e) = p[k] /\ At(e).op \notin Barriers
    BY <1>2, <1>7, <1>8, <1>9 DEF Accesses
  <1>11. Uses(p, k, At(e).loc)
    BY <1>9, <1>10 DEF Uses
  <1>12. QED
    BY <1>3, <1>5, <1>7, <1>8, <1>9, <1>10, <1>11

\* In a round a worker accesses a location once at most, and its own ones once.
LEMMA OneAccess ==
  ASSUME Programs, NEW t \in Workers(cfg), NEW d \in Accesses(t), NEW e \in Accesses(t),
         d[2] = e[2], At(d).loc = At(e).loc
  PROVE  d = e
  <1>1. PICK p : p = Round(cfg, t, e[2])
    OBVIOUS
  <1>2. /\ WorkerRound(cfg, t, e[2], p) /\ e[3] \in 1..Len(p) /\ At(e) = p[e[3]]
        /\ e = <<t, e[2], e[3]>> /\ Uses(p, e[3], At(e).loc)
    BY <1>1, Placed
  <1>3. d[3] \in 1..Len(p) /\ d = <<t, d[2], d[3]>> /\ Uses(p, d[3], At(e).loc)
    BY <1>1, Placed
  <1>4. d[3] = e[3]
    <2>1. PICK S : Once(p, S)
      BY <1>2 DEF WorkerRound
    <2>2. At(e).loc \in S
      BY <1>2, <2>1 DEF Once, Uses
    <2>3. QED
      BY <1>2, <1>3, <2>1, <2>2 DEF Once
  <1>5. QED
    BY <1>2, <1>3, <1>4

LEMMA SomeAccess ==
  ASSUME Programs, NEW t \in Workers(cfg), NEW i \in Rounds, NEW l \in Touched(cfg, t)
  PROVE  \E e \in Accesses(t) : e[2] = i /\ At(e).loc = l
  <1>0. t \in Actors(cfg) /\ cfg \in Configs /\ i \in Nat
    BY LitmusAssumption DEF Actors, Programs, Rounds
  <1>1. PICK p : p = Round(cfg, t, i)
    OBVIOUS
  <1>2. WorkerRound(cfg, t, i, p)
    BY <1>0, <1>1, WorkerRounds
  <1>3. DOMAIN p = 1..Len(p)
    BY <1>2 DEF WorkerRound
  <1>4. PICK k \in 1..Len(p) : Uses(p, k, l)
    BY <1>2 DEF WorkerRound, Once
  <1>5. <<t, i, k>> \in Events(t) /\ At(<<t, i, k>>) = p[k]
    BY <1>0, <1>1, <1>3, EventShape
  <1>6. <<t, i, k>> \in Accesses(t) /\ At(<<t, i, k>>).loc = l /\ <<t, i, k>>[2] = i
    BY <1>4, <1>5 DEF Accesses, Uses
  <1>7. QED
    BY <1>6

\* What a worker does with x, y and its results.
LEMMA WorkerData ==
  ASSUME Programs, NEW t \in Workers(cfg), NEW e \in Accesses(t)
  PROVE  /\ At(e).loc \in {"x", "y"} /\ Stores(At(e).op) =>
              /\ ~Loads(At(e).op) /\ At(e).loc \in Puts(cfg, t)
              /\ At(e).val = 1 /\ At(e).r = None
         /\ At(e).loc \in {"x", "y"} /\ ~Stores(At(e).op) =>
              /\ Loads(At(e).op) /\ At(e).loc \in Gets(cfg, t)
              /\ At(e).r = GetReg(cfg, t, At(e).loc)
         /\ At(e).loc \in Kept(cfg, t) => At(e).op = "STR" /\ At(e).r = KeptReg(At(e).loc)
         /\ At(e).r # None => At(e).loc \in {"x", "y"} \/ At(e).loc \in Kept(cfg, t)
         /\ Puts(cfg, t) \cap Gets(cfg, t) = {}
  <1>1. e[2] \in Rounds
    BY WorkerAccesses
  <1>2. t \in {"t0", "t1", "t2"} /\ cfg.test \in {"mp", "sb", "wrc"}
    BY LitmusAssumption DEF Workers, Programs
  <1>3. Puts(cfg, t) \subseteq {"x", "y"} /\ Gets(cfg, t) \subseteq {"x", "y"}
    BY DEF Puts, Gets
  <1>4. Kept(cfg, t) \subseteq {"t0_a", "t1_a", "t1_b", "t2_a", "t2_b"}
    BY DEF Kept
  <1>5. Puts(cfg, t) \cap Gets(cfg, t) = {}
    <2>1. t = "t2" => cfg.test = "wrc"
      BY DEF Workers
    <2>2. QED
      BY <1>2, <2>1 DEF Puts, Gets, Writer
  <1>6. CASE e = StartEv(t, e[2])
    <2>1. At(e).loc = "gate_go" /\ At(e).r = None
      BY <1>1, <1>6, WorkerAccesses DEF Insn
    <2>2. QED
      BY <1>4, <1>5, <2>1
  <1>7. CASE e = EndEv(t, e[2])
    <2>1. At(e).loc = DoneLoc(t) /\ At(e).r = None
      BY <1>1, <1>7, WorkerAccesses DEF Insn
    <2>2. DoneLoc(t) \in {"t0_done", "t1_done", "t2_done"}
      BY DEF DoneLoc
    <2>3. QED
      BY <1>4, <1>5, <2>1, <2>2
  <1>8. CASE e # StartEv(t, e[2]) /\ e # EndEv(t, e[2])
    <2>1. At(e) \in Inner(cfg, t) /\ At(e).op \notin Barriers
      BY <1>8, WorkerAccesses
    <2>2. LoadOp(cfg) \in {"LDR", "LDAR", "LDAPR"} /\ StoreOp(cfg) \in {"STR", "STLR"}
      BY DEF LoadOp, StoreOp
    <2>3. \/ /\ At(e).op \in {"STR", "STLR"} /\ At(e).loc \in Puts(cfg, t)
             /\ At(e).val = 1 /\ At(e).r = None
          \/ /\ At(e).op \in {"LDR", "LDAR", "LDAPR"} /\ At(e).loc \in Gets(cfg, t)
             /\ At(e).r = GetReg(cfg, t, At(e).loc)
          \/ At(e).op = "STR" /\ At(e).loc \in Kept(cfg, t) /\ At(e).r = KeptReg(At(e).loc)
      BY <2>1, <2>2 DEF Inner
    <2>4. /\ \A op \in {"STR", "STLR"} : Stores(op) /\ ~Loads(op)
          /\ \A op \in {"LDR", "LDAR", "LDAPR"} : Loads(op) /\ ~Stores(op)
      BY DEF Loads, Stores
    <2>5. QED
      BY <1>3, <1>4, <1>5, <2>3, <2>4
  <1>9. QED
    BY <1>6, <1>7, <1>8

\* A register is filled by one load of a round, and by loads of one worker.
LEMMA RegOwner ==
  ASSUME NEW c, c.test \in {"mp", "sb", "wrc"}, NEW u \in Workers(c), NEW w \in Workers(c)
  PROVE  /\ \A l \in Kept(c, u), m \in Gets(c, w) : KeptReg(l) = GetReg(c, w, m) => w = u
         /\ \A l, m \in Gets(c, w) : GetReg(c, w, l) = GetReg(c, w, m) => l = m
         /\ \A l \in Kept(c, u) : KeptReg(l) # None
         /\ \A l \in Gets(c, w) : GetReg(c, w, l) # None
  BY DEF Workers, Kept, Gets, KeptReg, GetReg, None

LEMMA SameLoad ==
  ASSUME Programs, NEW t \in Workers(cfg), NEW d \in Accesses(t), NEW e \in Accesses(t),
         Loads(At(d).op), Loads(At(e).op), d[2] = e[2], At(d).r = At(e).r, At(e).r # None
  PROVE  d = e /\ At(e).loc \in Gets(cfg, t) /\ At(e).r = GetReg(cfg, t, At(e).loc)
  <1>1. cfg.test \in {"mp", "sb", "wrc"} /\ ~Loads("STR")
    BY LitmusAssumption DEF Programs, Loads
  <1>2. /\ At(d).loc \in Gets(cfg, t) /\ At(d).r = GetReg(cfg, t, At(d).loc)
        /\ At(e).loc \in Gets(cfg, t) /\ At(e).r = GetReg(cfg, t, At(e).loc)
    BY <1>1, WorkerData
  <1>3. At(d).loc = At(e).loc
    <2>1. \A l, m \in Gets(cfg, t) : GetReg(cfg, t, l) = GetReg(cfg, t, m) => l = m
      BY <1>1, RegOwner
    <2>2. QED
      BY <1>2, <2>1
  <1>4. QED
    BY <1>2, <1>3, OneAccess


\* The accesses of main.
LEMMA MainAccesses ==
  ASSUME Programs
  PROVE  /\ "main" \in Actors(cfg)
         /\ \A i \in Rounds :
              /\ \A l \in {"x", "y"} : /\ ResetEv(l, i) \in Accesses("main")
                                       /\ At(ResetEv(l, i)) = Insn("STR", l, 0, None)
              /\ OpenEv(i) \in Accesses("main")
              /\ At(OpenEv(i)) = Insn("STLR", "gate_go", i, None)
              /\ \A t \in Workers(cfg) :
                   /\ JoinEv(t, i) \in Accesses("main")
                   /\ At(JoinEv(t, i)) = Insn("LDAR", DoneLoc(t), i, None)
                   /\ JoinEv(t, i)[3] \in Nat /\ JoinEv(t, i)[3] >= 4
                   /\ \A l \in Kept(cfg, t) : \E e \in Accesses("main") :
                        e[2] = i /\ At(e).op = "LDR" /\ At(e).loc = l
         /\ \A e \in Accesses("main") :
              /\ e = <<"main", e[2], e[3]>> /\ e[2] \in Rounds /\ e[3] \in Nat
              /\ \/ e = ResetEv("x", e[2]) \/ e = ResetEv("y", e[2])
                 \/ e = OpenEv(e[2])
                 \/ \E t \in Workers(cfg) : e = JoinEv(t, e[2])
                 \/ /\ At(e).op = "LDR" /\ At(e).r = KeptReg(At(e).loc) /\ e[3] >= 4
                    /\ \E t \in Workers(cfg) :
                         At(e).loc \in Kept(cfg, t) /\ JoinEv(t, e[2])[3] < e[3]
  <1>0. "main" \in Actors(cfg) /\ cfg \in Configs
    BY DEF Actors, Programs
  <1>a. \A i \in Rounds : i \in Nat
    BY LitmusAssumption DEF Rounds
  <1>1. \A i \in Rounds : MainRound(cfg, i, Round(cfg, "main", i))
    BY <1>0, <1>a, MainRounds
  <1>2. ASSUME NEW i \in Rounds
        PROVE  /\ \A l \in {"x", "y"} : /\ ResetEv(l, i) \in Accesses("main")
                                        /\ At(ResetEv(l, i)) = Insn("STR", l, 0, None)
               /\ OpenEv(i) \in Accesses("main")
               /\ At(OpenEv(i)) = Insn("STLR", "gate_go", i, None)
               /\ \A t \in Workers(cfg) :
                    /\ JoinEv(t, i) \in Accesses("main")
                    /\ At(JoinEv(t, i)) = Insn("LDAR", DoneLoc(t), i, None)
                    /\ JoinEv(t, i)[3] \in Nat /\ JoinEv(t, i)[3] >= 4
                    /\ \A l \in Kept(cfg, t) : \E e \in Accesses("main") :
                         e[2] = i /\ At(e).op = "LDR" /\ At(e).loc = l
    <2> DEFINE p == Round(cfg, "main", i)
    <2>1. MainRound(cfg, i, p)
      BY <1>1
    <2>2. \A k \in DOMAIN p : <<"main", i, k>> \in Events("main") /\ At(<<"main", i, k>>) = p[k]
      BY <1>0, EventShape
    <2> HIDE DEF p
    <2>3. Len(p) \in Nat /\ Len(p) >= 5 /\ DOMAIN p = 1..Len(p)
      BY <2>1 DEF MainRound
    <2>4. 1 \in DOMAIN p /\ 2 \in DOMAIN p /\ 3 \in DOMAIN p /\ \A k \in 4..Len(p) : k \in DOMAIN p
      BY <2>3
    <2>5. \A op \in {"LDAR", "STLR", "STR"} : op \notin Barriers
      BY DEF Barriers
    <2>6. \A l \in {"x", "y"} : /\ ResetEv(l, i) \in Accesses("main")
                                /\ At(ResetEv(l, i)) = Insn("STR", l, 0, None)
      BY <2>1, <2>2, <2>4, <2>5 DEF ResetEv, Accesses, MainRound, Insn
    <2>7. OpenEv(i) \in Accesses("main") /\ At(OpenEv(i)) = Insn("STLR", "gate_go", i, None)
      BY <2>1, <2>2, <2>4, <2>5 DEF OpenEv, Accesses, MainRound, Insn
    <2>8. ASSUME NEW t \in Workers(cfg)
          PROVE  /\ JoinEv(t, i) \in Accesses("main")
                 /\ At(JoinEv(t, i)) = Insn("LDAR", DoneLoc(t), i, None)
                 /\ JoinEv(t, i)[3] \in Nat /\ JoinEv(t, i)[3] >= 4
      <3>1. PICK k : k = JoinEv(t, i)[3]
        OBVIOUS
      <3>2. k \in 4..Len(p) /\ p[k] = Insn("LDAR", DoneLoc(t), i, None)
        BY <2>1, <3>1 DEF MainRound
      <3>3. JoinEv(t, i) = <<"main", i, k>>
        BY <3>1 DEF JoinEv
      <3>4. QED
        BY <2>2, <2>3, <2>4, <2>5, <3>1, <3>2, <3>3 DEF Accesses, Insn
    <2>9. ASSUME NEW t \in Workers(cfg), NEW l \in Kept(cfg, t)
          PROVE  \E e \in Accesses("main") : e[2] = i /\ At(e).op = "LDR" /\ At(e).loc = l
      <3>1. PICK k \in 4..Len(p) : p[k].op = "LDR" /\ p[k].loc = l
        BY <2>1 DEF MainRound
      <3>2. <<"main", i, k>> \in Events("main") /\ At(<<"main", i, k>>) = p[k]
        BY <2>2, <2>4
      <3>3. "LDR" \notin Barriers /\ <<"main", i, k>>[2] = i
        BY DEF Barriers
      <3>4. QED
        BY <3>1, <3>2, <3>3 DEF Accesses
    <2>10. QED
      BY <2>6, <2>7, <2>8, <2>9
  <1>3. ASSUME NEW e \in Accesses("main")
        PROVE  /\ e = <<"main", e[2], e[3]>> /\ e[2] \in Rounds /\ e[3] \in Nat
               /\ \/ e = ResetEv("x", e[2]) \/ e = ResetEv("y", e[2])
                  \/ e = OpenEv(e[2])
                  \/ \E t \in Workers(cfg) : e = JoinEv(t, e[2])
                  \/ /\ At(e).op = "LDR" /\ At(e).r = KeptReg(At(e).loc) /\ e[3] >= 4
                     /\ \E t \in Workers(cfg) :
                          At(e).loc \in Kept(cfg, t) /\ JoinEv(t, e[2])[3] < e[3]
    <2>1. PICK i \in Rounds : \E k \in DOMAIN Round(cfg, "main", i) : e = <<"main", i, k>>
      BY <1>0, EventShape DEF Accesses
    <2>2. PICK k \in DOMAIN Round(cfg, "main", i) : e = <<"main", i, k>>
      BY <2>1
    <2> DEFINE p == Round(cfg, "main", i)
    <2>3. MainRound(cfg, i, p) /\ At(e) = p[k]
      BY <1>0, <1>1, <2>2, EventShape
    <2>4. k \in DOMAIN p
      OBVIOUS
    <2> HIDE DEF p
    <2>5. k \in 1..Len(p) /\ Len(p) \in Nat
      BY <2>3, <2>4 DEF MainRound
    <2>6. e = <<"main", e[2], e[3]>> /\ e[2] = i /\ e[3] = k
      BY <2>2
    <2>7. CASE k \in {1, 2, 3}
      BY <2>5, <2>6, <2>7 DEF ResetEv, OpenEv
    <2>8. CASE k \in 4..Len(p)
      <3>1. \/ \E t \in Workers(cfg) : k = JoinEv(t, i)[3]
            \/ /\ p[k].op = "LDR" /\ p[k].r = KeptReg(p[k].loc)
               /\ \E t \in Workers(cfg) : p[k].loc \in Kept(cfg, t) /\ JoinEv(t, i)[3] < k
        BY <2>3, <2>8 DEF MainRound
      <3>2. \A t : JoinEv(t, i) = <<"main", i, JoinEv(t, i)[3]>>
        BY DEF JoinEv
      <3>3. QED
        BY <2>3, <2>5, <2>6, <2>8, <3>1, <3>2
    <2>9. QED
      BY <2>5, <2>7, <2>8
  <1>4. QED
    BY <1>0, <1>2, <1>3

\* A worker's gate holds back what follows, its signal waits for what precedes, and
\* the signal is kept before the next gate.
LEMMA WorkerOrder ==
  ASSUME Programs, NEW t \in Workers(cfg)
  PROVE  /\ \A i \in Rounds, e \in Accesses(t) :
              i <= e[2] /\ e # StartEv(t, i) => StartEv(t, i) \in order[t][e]
         /\ \A i \in Rounds, e \in Accesses(t) :
              e[2] <= i /\ e # EndEv(t, i) => e \in order[t][EndEv(t, i)]
         /\ \A i \in Rounds, j \in Rounds : i < j => EndEv(t, i) \in order[t][StartEv(t, j)]
  <1>1. t \in Actors(cfg)
    BY WorkerAccesses
  <1>2. \A i \in Rounds : i \in Nat
    BY LitmusAssumption DEF Rounds
  <1>3. \A i \in Rounds : /\ StartEv(t, i) \in Accesses(t) /\ EndEv(t, i) \in Accesses(t)
                          /\ At(StartEv(t, i)).op = "LDAR" /\ At(EndEv(t, i)).op = "STLR"
                          /\ EndEv(t, i)[3] \in Nat
    BY WorkerAccesses DEF Insn
  <1>4. \A i : StartEv(t, i)[2] = i /\ StartEv(t, i)[3] = 1 /\ EndEv(t, i)[2] = i
    BY DEF StartEv, EndEv
  <1>5. ASSUME NEW i \in Rounds, NEW e \in Accesses(t), i <= e[2], e # StartEv(t, i)
        PROVE  StartEv(t, i) \in order[t][e]
    <2>1. e[2] \in Nat /\ e[3] \in Nat /\ (e # StartEv(t, e[2]) => e[3] > 1)
      BY <1>2, <1>3, WorkerAccesses
    <2>2. Before(StartEv(t, i), e)
      BY <1>2, <1>4, <1>5, <2>1 DEF Before
    <2>3. Held(StartEv(t, i), e)
      BY <1>3 DEF Held, Acquires
    <2>4. QED
      BY <1>1, <1>3, <2>2, <2>3, Ordered
  <1>6. ASSUME NEW i \in Rounds, NEW e \in Accesses(t), e[2] <= i, e # EndEv(t, i)
        PROVE  e \in order[t][EndEv(t, i)]
    <2>1. e[2] \in Nat /\ e[3] \in Nat /\ (e # EndEv(t, e[2]) => e[3] < EndEv(t, e[2])[3])
      BY <1>2, <1>3, WorkerAccesses
    <2>2. Before(e, EndEv(t, i))
      BY <1>2, <1>3, <1>4, <1>6, <2>1 DEF Before
    <2>3. Held(e, EndEv(t, i))
      BY <1>3 DEF Held
    <2>4. QED
      BY <1>1, <1>3, <2>2, <2>3, Ordered
  <1>7. ASSUME NEW i \in Rounds, NEW j \in Rounds, i < j
        PROVE  EndEv(t, i) \in order[t][StartEv(t, j)]
    <2>1. Before(EndEv(t, i), StartEv(t, j)) /\ Held(EndEv(t, i), StartEv(t, j))
      BY <1>3, <1>4, <1>7 DEF Before, Held
    <2>2. QED
      BY <1>1, <1>3, <2>1, Ordered
  <1>8. QED
    BY <1>5, <1>6, <1>7

\* main opens the gate after everything before it, waits for the workers after that,
\* does everything else after its waits, and resets x and y in order.
LEMMA MainOrder ==
  ASSUME Programs
  PROVE  /\ \A i \in Rounds, e \in Accesses("main") :
              Before(e, OpenEv(i)) => e \in order["main"][OpenEv(i)]
         /\ \A i \in Rounds, t \in Workers(cfg) : OpenEv(i) \in order["main"][JoinEv(t, i)]
         /\ \A i \in Rounds, t \in Workers(cfg), e \in Accesses("main") :
              Before(JoinEv(t, i), e) => JoinEv(t, i) \in order["main"][e]
         /\ \A i \in Rounds, j \in Rounds, l \in {"x", "y"} :
              i < j => ResetEv(l, i) \in order["main"][ResetEv(l, j)]
  <1>1. "main" \in Actors(cfg)
    BY MainAccesses
  <1>2. \A i \in Rounds : /\ OpenEv(i) \in Accesses("main") /\ At(OpenEv(i)).op = "STLR"
                          /\ OpenEv(i)[2] = i /\ OpenEv(i)[3] = 3
    <2>1. \A i \in Rounds : OpenEv(i) \in Accesses("main") /\ At(OpenEv(i)).op = "STLR"
      BY MainAccesses DEF Insn
    <2>2. \A i : OpenEv(i)[2] = i /\ OpenEv(i)[3] = 3
      BY DEF OpenEv
    <2>3. QED
      BY <2>1, <2>2
  <1>3. \A i \in Rounds, t \in Workers(cfg) :
          /\ JoinEv(t, i) \in Accesses("main") /\ At(JoinEv(t, i)).op = "LDAR"
          /\ JoinEv(t, i)[2] = i /\ JoinEv(t, i)[3] > 3
    <2>1. \A i \in Rounds, t \in Workers(cfg) :
            JoinEv(t, i) \in Accesses("main") /\ At(JoinEv(t, i)).op = "LDAR"
      BY MainAccesses DEF Insn
    <2>2. \A i, u : JoinEv(u, i)[2] = i /\ JoinEv(u, i)[3] > 3
      BY DEF JoinEv
    <2>3. QED
      BY <2>1, <2>2
  <1>4. \A i \in Rounds, l \in {"x", "y"} :
          /\ ResetEv(l, i) \in Accesses("main") /\ At(ResetEv(l, i)).op = "STR"
          /\ At(ResetEv(l, i)).loc = l /\ ResetEv(l, i)[2] = i
    <2>1. \A i \in Rounds, l \in {"x", "y"} :
            /\ ResetEv(l, i) \in Accesses("main") /\ At(ResetEv(l, i)).op = "STR"
            /\ At(ResetEv(l, i)).loc = l
      <3>1. \A i \in Rounds, l \in {"x", "y"} :
              /\ ResetEv(l, i) \in Accesses("main")
              /\ At(ResetEv(l, i)) = Insn("STR", l, 0, None)
        BY MainAccesses
      <3>2. \A l : Insn("STR", l, 0, None).op = "STR" /\ Insn("STR", l, 0, None).loc = l
        BY DEF Insn
      <3>3. QED
        BY <3>1, <3>2
    <2>2. \A i, l : ResetEv(l, i)[2] = i
      BY DEF ResetEv
    <2>3. QED
      BY <2>1, <2>2
  <1>5. ASSUME NEW i \in Rounds, NEW e \in Accesses("main"), Before(e, OpenEv(i))
        PROVE  e \in order["main"][OpenEv(i)]
    <2>1. Held(e, OpenEv(i))
      BY <1>2 DEF Held
    <2>2. QED
      BY <1>1, <1>2, <1>5, <2>1, Ordered
  <1>6. ASSUME NEW i \in Rounds, NEW t \in Workers(cfg)
        PROVE  OpenEv(i) \in order["main"][JoinEv(t, i)]
    <2>1. Before(OpenEv(i), JoinEv(t, i)) /\ Held(OpenEv(i), JoinEv(t, i))
      BY <1>2, <1>3 DEF Before, Held
    <2>2. QED
      BY <1>1, <1>2, <1>3, <2>1, Ordered
  <1>7. ASSUME NEW i \in Rounds, NEW t \in Workers(cfg), NEW e \in Accesses("main"),
               Before(JoinEv(t, i), e)
        PROVE  JoinEv(t, i) \in order["main"][e]
    <2>1. Held(JoinEv(t, i), e)
      BY <1>3 DEF Held, Acquires
    <2>2. QED
      BY <1>1, <1>3, <1>7, <2>1, Ordered
  <1>8. ASSUME NEW i \in Rounds, NEW j \in Rounds, NEW l \in {"x", "y"}, i < j
        PROVE  ResetEv(l, i) \in order["main"][ResetEv(l, j)]
    <2>1. Before(ResetEv(l, i), ResetEv(l, j)) /\ Held(ResetEv(l, i), ResetEv(l, j))
      BY <1>4, <1>8 DEF Before, Held, Stores
    <2>2. QED
      BY <1>1, <1>4, <2>1, Ordered
  <1>9. QED
    BY <1>5, <1>6, <1>7, <1>8

-----------------------------------------------------------------------------
(* Who accesses what *)

LEMMA LocsApart ==
  ASSUME NEW c, NEW t \in {"t0", "t1", "t2"}
  PROVE  /\ DoneLoc(t) \in Locs /\ DoneLoc(t) \notin {"x", "y", "gate_go"}
         /\ Kept(c, t) \subseteq Locs
         /\ Kept(c, t) \cap {"x", "y", "gate_go"} = {}
         /\ \A u \in {"t0", "t1", "t2"} :
              /\ DoneLoc(u) \notin Kept(c, t)
              /\ u # t => DoneLoc(u) # DoneLoc(t) /\ Kept(c, u) \cap Kept(c, t) = {}
  BY DEF DoneLoc, Kept, Locs

\* Has the instruction in these parts?
Is(in, op, loc, val) == in.op = op /\ in.loc = loc /\ in.val = val /\ in.r = None

LEMMA IsInsn ==
  ASSUME NEW op, NEW loc, NEW val
  PROVE  Is(Insn(op, loc, val, None), op, loc, val)
  BY DEF Is, Insn

LEMMA WorkerKinds ==
  ASSUME Programs, NEW t \in Workers(cfg), NEW e \in Accesses(t)
  PROVE  \/ e = StartEv(t, e[2]) /\ Is(At(e), "LDAR", "gate_go", e[2])
         \/ e = EndEv(t, e[2]) /\ Is(At(e), "STLR", DoneLoc(t), e[2])
         \/ /\ e # StartEv(t, e[2]) /\ e # EndEv(t, e[2])
            /\ \/ At(e).loc \in {"x", "y"} /\ (Stores(At(e).op) => At(e).r = None)
               \/ At(e).op = "STR" /\ At(e).loc \in Kept(cfg, t)
  <1>1. e[2] \in Rounds
    BY WorkerAccesses
  <1>2. CASE e = StartEv(t, e[2])
    BY <1>1, <1>2, WorkerAccesses, IsInsn
  <1>3. CASE e = EndEv(t, e[2])
    BY <1>1, <1>3, WorkerAccesses, IsInsn
  <1>4. CASE e # StartEv(t, e[2]) /\ e # EndEv(t, e[2])
    <2>1. At(e) \in Inner(cfg, t) /\ At(e).op \notin Barriers
      BY <1>4, WorkerAccesses
    <2>2. Puts(cfg, t) \subseteq {"x", "y"} /\ Gets(cfg, t) \subseteq {"x", "y"}
      BY DEF Puts, Gets
    <2>3. LoadOp(cfg) \in {"LDR", "LDAR", "LDAPR"}
      BY DEF LoadOp
    <2>4. QED
      BY <1>4, <2>1, <2>2, <2>3 DEF Inner, Stores
  <1>5. QED
    BY <1>2, <1>3, <1>4

LEMMA MainKinds ==
  ASSUME Programs, NEW e \in Accesses("main")
  PROVE  \/ \E l \in {"x", "y"} : e = ResetEv(l, e[2]) /\ Is(At(e), "STR", l, 0)
         \/ e = OpenEv(e[2]) /\ Is(At(e), "STLR", "gate_go", e[2])
         \/ \E u \in Workers(cfg) : e = JoinEv(u, e[2]) /\ Is(At(e), "LDAR", DoneLoc(u), e[2])
         \/ /\ At(e).op = "LDR" /\ At(e).r = KeptReg(At(e).loc) /\ e # OpenEv(e[2])
            /\ \A l : e # ResetEv(l, e[2])
            /\ \E u \in Workers(cfg) : At(e).loc \in Kept(cfg, u) /\ Before(JoinEv(u, e[2]), e)
  <1>1. e[2] \in Rounds /\ e[3] \in Nat
    BY MainAccesses
  <1>2. \/ e = ResetEv("x", e[2]) \/ e = ResetEv("y", e[2])
        \/ e = OpenEv(e[2])
        \/ \E t \in Workers(cfg) : e = JoinEv(t, e[2])
        \/ /\ At(e).op = "LDR" /\ At(e).r = KeptReg(At(e).loc) /\ e[3] >= 4
           /\ \E t \in Workers(cfg) :
                At(e).loc \in Kept(cfg, t) /\ JoinEv(t, e[2])[3] < e[3]
    BY MainAccesses
  <1>3. ASSUME NEW l \in {"x", "y"}, e = ResetEv(l, e[2])
        PROVE  Is(At(e), "STR", l, 0)
    <2>1. At(ResetEv(l, e[2])) = Insn("STR", l, 0, None)
      BY <1>1, MainAccesses
    <2>2. QED
      BY <1>3, <2>1, IsInsn
  <1>4. CASE e = OpenEv(e[2])
    <2>1. At(OpenEv(e[2])) = Insn("STLR", "gate_go", e[2], None)
      BY <1>1, MainAccesses
    <2>2. Is(At(e), "STLR", "gate_go", e[2])
      BY <1>4, <2>1, IsInsn
    <2>3. QED
      BY <1>4, <2>2
  <1>5. ASSUME NEW u \in Workers(cfg), e = JoinEv(u, e[2])
        PROVE  Is(At(e), "LDAR", DoneLoc(u), e[2])
    <2>1. At(JoinEv(u, e[2])) = Insn("LDAR", DoneLoc(u), e[2], None)
      BY <1>1, MainAccesses
    <2>2. QED
      BY <1>5, <2>1, IsInsn
  <1>6. ASSUME At(e).op = "LDR", e[3] >= 4,
               NEW t \in Workers(cfg), At(e).loc \in Kept(cfg, t), JoinEv(t, e[2])[3] < e[3]
        PROVE  /\ e # OpenEv(e[2]) /\ \A l : e # ResetEv(l, e[2])
               /\ At(e).loc \in Kept(cfg, t) /\ Before(JoinEv(t, e[2]), e)
    <2>1. OpenEv(e[2])[3] = 3 /\ \A l : ResetEv(l, e[2])[3] \in {1, 2}
      BY DEF OpenEv, ResetEv
    <2>2. JoinEv(t, e[2])[2] = e[2]
      BY DEF JoinEv
    <2>3. e # OpenEv(e[2]) /\ \A l : e # ResetEv(l, e[2])
      BY <1>1, <1>6, <2>1
    <2>4. QED
      BY <1>6, <2>2, <2>3 DEF Before
  <1>7. QED
    BY <1>2, <1>3, <1>4, <1>5, <1>6

-----------------------------------------------------------------------------
(* What has been performed *)

LEMMA ActorOf ==
  ASSUME Programs, NEW t \in Actors(cfg), NEW e \in Accesses(t)
  PROVE  e[1] = t
  BY EventShape DEF Accesses

LEMMA Down ==
  ASSUME Programs, Closed, NEW t \in Actors(cfg), NEW e \in Accesses(t), e \in done
  PROVE  order[t][e] \subseteq done
  BY ActorOf DEF Closed

\* The gate of round i opens after everything main does before.
LEMMA Opened ==
  ASSUME Programs, Closed, NEW i \in Rounds, OpenEv(i) \in done
  PROVE  /\ \A d \in Accesses("main") : Before(d, OpenEv(i)) => d \in done
         /\ \A l \in {"x", "y"} : ResetEv(l, i) \in done
  <1>1. "main" \in Actors(cfg) /\ OpenEv(i) \in Accesses("main")
    BY MainAccesses
  <1>2. order["main"][OpenEv(i)] \subseteq done
    BY <1>1, Down
  <1>3. \A d \in Accesses("main") : Before(d, OpenEv(i)) => d \in order["main"][OpenEv(i)]
    BY MainOrder
  <1>4. ASSUME NEW l \in {"x", "y"}
        PROVE  ResetEv(l, i) \in Accesses("main") /\ Before(ResetEv(l, i), OpenEv(i))
    <2>1. ResetEv(l, i) \in Accesses("main")
      BY MainAccesses
    <2>2. Before(ResetEv(l, i), OpenEv(i))
      BY DEF Before, ResetEv, OpenEv
    <2>3. QED
      BY <2>1, <2>2
  <1>5. QED
    BY <1>2, <1>3, <1>4

\* A worker's round runs in an open gate.
LEMMA Started ==
  ASSUME Programs, Closed, Handshake, NEW t \in Workers(cfg), NEW i \in Rounds,
         StartEv(t, i) \in done
  PROVE  /\ \A d \in Accesses("main") : Before(d, OpenEv(i)) => d \in done
         /\ \A l \in {"x", "y"} : ResetEv(l, i) \in done
  <1>1. OpenEv(i) \in done
    BY DEF Handshake
  <1>2. QED
    BY <1>1, Opened

\* main's wait for a worker ends after everything the worker does in the round.
LEMMA Joined ==
  ASSUME Programs, Closed, Handshake, NEW t \in Workers(cfg), NEW i \in Rounds,
         JoinEv(t, i) \in done
  PROVE  \A d \in Accesses(t) : d[2] <= i => d \in done
  <1>1. EndEv(t, i) \in done
    BY DEF Handshake
  <1>2. t \in Actors(cfg) /\ EndEv(t, i) \in Accesses(t)
    BY WorkerAccesses
  <1>3. order[t][EndEv(t, i)] \subseteq done
    BY <1>1, <1>2, Down
  <1>4. QED
    BY <1>1, <1>3, WorkerOrder

\* A later access of main waits for main's wait.
LEMMA Awaited ==
  ASSUME Programs, NEW t \in Workers(cfg), NEW i \in Rounds,
         Closed, NEW e \in Accesses("main"), e \in done, Before(JoinEv(t, i), e)
  PROVE  JoinEv(t, i) \in done
  <1>1. order["main"][e] \subseteq done
    BY MainAccesses, Down
  <1>2. QED
    BY <1>1, MainOrder

-----------------------------------------------------------------------------
(* One access is performed *)

\* Actor t performs e.
Performs(t, e) ==
  /\ t \in Actors(cfg) /\ tso[t] # "ask"
  /\ e \in Accesses(t) /\ e \notin done /\ order[t][e] \subseteq done
  /\ Load(e) \/ Store(e)
  /\ done' = done \cup {e}
  /\ cfg' = cfg /\ prog' = prog /\ order' = order /\ tso' = tso

LEMMA AccessPerforms ==
  ASSUME IInv, NEW t \in Actors(cfg), Access(t)
  PROVE  \E e : Performs(t, e)
  <1>0. Programs
    BY DEF IInv
  <1>1. PICK e \in Pending(t) : /\ order[t][e] \cap Pending(t) = {}
                                /\ Load(e) \/ Store(e)
                                /\ done' = done \cup {e}
    BY DEF Access
  <1>3. DOMAIN order[t] = Accesses(t)
    <2>1. order[t] = Order(t, TRUE) \/ order[t] = Order(t, FALSE)
      BY <1>0 DEF Programs
    <2>2. QED
      BY <2>1 DEF Order
  <1>4. e \in Accesses(t) /\ e \notin done
    BY <1>1, <1>3 DEF Pending
  <1>5. order[t][e] \subseteq Accesses(t)
    BY <1>0, <1>4, Ordered
  <1>6. order[t][e] \subseteq done
    BY <1>1, <1>3, <1>5 DEF Pending
  <1>7. QED
    BY <1>1, <1>4, <1>6 DEF Access, Performs

\* The programs do not change.
LEMMA SamePrograms ==
  ASSUME prog' = prog, cfg' = cfg
  PROVE  /\ \A e : At(e)' = At(e)
         /\ \A t : Events(t)' = Events(t) /\ Accesses(t)' = Accesses(t)
         /\ \A t, s : Order(t, s)' = Order(t, s)
         /\ \A t, i : EndEv(t, i)' = EndEv(t, i)
  <1>1. \A e : At(e)' = At(e)
    BY DEF At
  <1>2. \A t : Events(t)' = Events(t)
    BY DEF Events
  <1>3. \A t : Accesses(t)' = Accesses(t)
    BY <1>1, <1>2 DEF Accesses
  <1>4. \A t, s : Order(t, s)' = Order(t, s)
    BY DEF Order, At, Events, Accesses
  <1>5. \A t, i : EndEv(t, i)' = EndEv(t, i)
    BY DEF EndEv
  <1>6. QED
    BY <1>1, <1>2, <1>3, <1>4, <1>5

LEMMA ProgramsKept ==
  ASSUME IInv, NEW t, NEW e, Performs(t, e)
  PROVE  Programs' /\ Closed'
  <1>1. cfg' = cfg /\ prog' = prog /\ order' = order /\ tso' = tso /\ done' = done \cup {e}
    BY DEF Performs
  <1>2. Programs /\ Closed /\ t \in Actors(cfg) /\ e \in Accesses(t) /\ e[1] = t
    BY ActorOf DEF IInv, Performs
  <1>3. Programs'
    <2>1. \A u \in Actors(cfg) : order'[u] \in {Order(u, TRUE)', Order(u, FALSE)'}
      BY <1>1, <1>2, SamePrograms DEF Programs
    <2>2. \A u \in Actors(cfg) : tso'[u] = "ask" => \A d \in done' : d[1] # u
      BY <1>1, <1>2 DEF Programs, Performs
    <2>3. QED
      BY <1>1, <1>2, <2>1, <2>2 DEF Programs
  <1>4. Closed'
    <2>1. ASSUME NEW d \in done'
          PROVE  d[1] \in Actors(cfg) /\ d \in Accesses(d[1]) /\ order[d[1]][d] \subseteq done
      <3>1. CASE d = e
        BY <1>2, <3>1 DEF Performs
      <3>2. CASE d \in done
        BY <1>2, <3>2 DEF Closed
      <3>3. QED
        BY <1>1, <3>1, <3>2
    <2>2. \A u : Accesses(u)' = Accesses(u)
      BY <1>1, SamePrograms
    <2>3. QED
      BY <1>1, <2>1, <2>2 DEF Closed
  <1>5. QED
    BY <1>3, <1>4

\* What an access does to memory.
LEMMA Effects ==
  ASSUME IInv, NEW t, NEW e, Performs(t, e)
  PROVE  /\ Loads(At(e).op) \/ Stores(At(e).op)
         /\ Loads(At(e).op) /\ ~Stores(At(e).op)
              => /\ mem[At(e).loc].val >= At(e).val /\ mem' = mem
                 /\ DOMAIN reg' = DOMAIN reg \cup {e}
                 /\ \A d \in DOMAIN reg' : reg'[d] = IF d = e THEN mem[At(e).loc] ELSE reg[d]
         /\ Stores(At(e).op) /\ ~Loads(At(e).op)
              => /\ reg' = reg
                 /\ \A l \in Locs : l # At(e).loc => mem'[l] = mem[l]
                 /\ At(e).loc \in Locs =>
                      /\ mem'[At(e).loc].round = e[2]
                      /\ At(e).r = None => mem'[At(e).loc].val = At(e).val
         /\ DOMAIN mem' = Locs
  <1>1. DOMAIN mem = Locs
    BY DEF IInv, GateSignalled
  <1>2. CASE Load(e)
    BY <1>1, <1>2 DEF Load
  <1>3. CASE Store(e)
    BY <1>1, <1>3 DEF Store
  <1>4. QED
    BY <1>2, <1>3 DEF Performs

\* An access either loads or stores.
LEMMA LoadsOrStores ==
  ASSUME Programs, NEW t \in Actors(cfg), NEW e \in Accesses(t)
  PROVE  ~(Loads(At(e).op) /\ Stores(At(e).op))
  <1>1. PICK i \in Rounds : \E k \in DOMAIN Round(cfg, t, i) : e = <<t, i, k>>
    BY EventShape DEF Accesses
  <1>2. PICK k \in DOMAIN Round(cfg, t, i) : e = <<t, i, k>>
    BY <1>1
  <1>3. At(e) = Round(cfg, t, i)[k]
    BY <1>2, EventShape
  <1>4. Round(cfg, t, i) \in Seq(Insns)
    <2>1. i \in Nat /\ cfg \in Configs
      BY LitmusAssumption DEF Rounds, Programs
    <2>2. CASE t = "main"
      BY <2>1, <2>2, MainRounds DEF MainRound
    <2>3. CASE t \in Workers(cfg)
      BY <2>1, <2>3, WorkerRounds DEF WorkerRound
    <2>4. QED
      BY <2>2, <2>3 DEF Actors
  <1>5. At(e).op \in Ops
    <2>1. At(e) \in Insns
      BY <1>3, <1>4
    <2>2. QED
      BY <2>1 DEF Insns
  <1>6. QED
    BY <1>5 DEF Ops, Loads, Stores, Barriers

\* Who stores where: the gate and the done counters have one writer each and a
\* result is its worker's.
LEMMA Writers ==
  ASSUME Programs, NEW t \in Actors(cfg), NEW e \in Accesses(t), Stores(At(e).op)
  PROVE  /\ At(e).loc \in Locs
         /\ At(e).loc = "gate_go" =>
              t = "main" /\ e = OpenEv(e[2]) /\ Is(At(e), "STLR", "gate_go", e[2])
         /\ \A u \in Workers(cfg) : At(e).loc = DoneLoc(u) =>
              t = u /\ e = EndEv(u, e[2]) /\ Is(At(e), "STLR", DoneLoc(u), e[2])
         /\ \A l \in {"x", "y"} : At(e).loc = l =>
              \/ t = "main" /\ e = ResetEv(l, e[2])
              \/ t \in Workers(cfg) /\ e # StartEv(t, e[2]) /\ e # EndEv(t, e[2])
         /\ \A u \in Workers(cfg) : At(e).loc \in Kept(cfg, u) =>
              t = u /\ e # StartEv(t, e[2]) /\ e # EndEv(t, e[2])
  <1>0. \A u \in Workers(cfg) : u \in {"t0", "t1", "t2"}
    BY DEF Workers
  <1>1. \A u \in Workers(cfg) :
          /\ DoneLoc(u) \in Locs /\ DoneLoc(u) \notin {"x", "y", "gate_go"}
          /\ Kept(cfg, u) \subseteq Locs /\ Kept(cfg, u) \cap {"x", "y", "gate_go"} = {}
          /\ \A v \in Workers(cfg) :
               /\ DoneLoc(v) \notin Kept(cfg, u)
               /\ v # u => DoneLoc(v) # DoneLoc(u) /\ Kept(cfg, v) \cap Kept(cfg, u) = {}
    BY <1>0, LocsApart
  <1>2. {"x", "y", "gate_go"} \subseteq Locs
    BY DEF Locs
  <1>3. ~Stores("LDAR") /\ ~Stores("LDR")
    BY DEF Stores
  <1>4. CASE t \in Workers(cfg)
    <2>1. CASE e = StartEv(t, e[2]) /\ Is(At(e), "LDAR", "gate_go", e[2])
      BY <1>3, <2>1 DEF Is
    <2>2. CASE e = EndEv(t, e[2]) /\ Is(At(e), "STLR", DoneLoc(t), e[2])
      <3>1. At(e).loc = DoneLoc(t)
        BY <2>2 DEF Is
      <3>2. QED
        BY <1>1, <1>4, <2>2, <3>1
    <2>3. CASE /\ e # StartEv(t, e[2]) /\ e # EndEv(t, e[2])
               /\ At(e).loc \in {"x", "y"} \/ At(e).loc \in Kept(cfg, t)
      BY <1>1, <1>2, <1>4, <2>3
    <2>4. QED
      BY <1>4, <2>1, <2>2, <2>3, WorkerKinds
  <1>5. CASE t = "main"
    <2>1. CASE \E l \in {"x", "y"} : e = ResetEv(l, e[2]) /\ Is(At(e), "STR", l, 0)
      <3>1. PICK l \in {"x", "y"} : e = ResetEv(l, e[2]) /\ At(e).loc = l
        BY <2>1 DEF Is
      <3>2. QED
        BY <1>1, <1>2, <1>5, <3>1
    <2>2. CASE e = OpenEv(e[2]) /\ Is(At(e), "STLR", "gate_go", e[2])
      <3>1. At(e).loc = "gate_go"
        BY <2>2 DEF Is
      <3>2. QED
        BY <1>1, <1>2, <1>5, <2>2, <3>1
    <2>3. CASE \E u \in Workers(cfg) : Is(At(e), "LDAR", DoneLoc(u), e[2])
      BY <1>3, <2>3 DEF Is
    <2>4. CASE At(e).op = "LDR"
      BY <1>3, <2>4
    <2>5. QED
      BY <1>5, <2>1, <2>2, <2>3, <2>4, MainKinds
  <1>6. QED
    BY <1>4, <1>5 DEF Actors

\* A gate is raised to i by the signal of round i, which waits for the earlier ones.
LEMMA GateKept ==
  ASSUME IInv, NEW t, NEW e, Performs(t, e)
  PROVE  GateSignalled'
  <1>0. /\ Programs /\ Closed /\ GateSignalled
        /\ t \in Actors(cfg) /\ e \in Accesses(t) /\ order[t][e] \subseteq done
        /\ done' = done \cup {e} /\ cfg' = cfg /\ prog' = prog
    BY DEF IInv, Performs
  <1>1. \A u, i : EndEv(u, i)' = EndEv(u, i)
    BY <1>0, SamePrograms
  <1>2. \A u \in Workers(cfg) : DoneLoc(u) \in Locs
    <2>1. \A u \in Workers(cfg) : u \in {"t0", "t1", "t2"}
      BY DEF Workers
    <2>2. QED
      BY <2>1, LocsApart
  <1>3. DOMAIN mem' = Locs
    BY Effects
  <1>4. e[2] \in Rounds
    BY <1>0, WorkerAccesses, MainAccesses DEF Actors
  <1>5. Rounds \subseteq Nat
    BY LitmusAssumption DEF Rounds
  <1>6. /\ mem'["gate_go"].val \in Nat
        /\ \A i \in Rounds : mem'["gate_go"].val >= i => OpenEv(i) \in done'
    <2>1. CASE mem'["gate_go"] = mem["gate_go"]
      BY <1>0, <2>1 DEF GateSignalled
    <2>2. CASE mem'["gate_go"] # mem["gate_go"]
      <3>1. Stores(At(e).op) /\ ~Loads(At(e).op)
        BY <1>0, <2>2, Effects, LoadsOrStores
      <3>2. At(e).loc = "gate_go"
        BY <2>2, <3>1, Effects DEF Locs
      <3>3. t = "main" /\ e = OpenEv(e[2]) /\ Is(At(e), "STLR", "gate_go", e[2])
        BY <1>0, <3>1, <3>2, Writers
      <3>4. mem'["gate_go"].val = e[2]
        BY <3>1, <3>2, <3>3, Effects DEF Is, Locs
      <3>5. ASSUME NEW i \in Rounds, i <= e[2]
            PROVE  OpenEv(i) \in done'
        <4>1. CASE i = e[2]
          <5>1. OpenEv(i) = e
            BY <3>3, <4>1, Zenon
          <5>2. QED
            BY <1>0, <5>1
        <4>2. CASE i < e[2]
          <5>1. OpenEv(i) \in Accesses("main")
            BY <1>0, MainAccesses
          <5>2. Before(OpenEv(i), OpenEv(e[2]))
            BY <4>2 DEF Before, OpenEv
          <5>3. OpenEv(i) \in order["main"][OpenEv(e[2])]
            BY <1>0, <1>4, <5>1, <5>2, MainOrder
          <5>4. QED
            BY <1>0, <3>3, <5>3
        <4>3. i \in Nat /\ e[2] \in Nat
          BY <1>4, <1>5
        <4>4. i = e[2] \/ i < e[2]
          BY <3>5, <4>3
        <4>5. QED
          BY <4>1, <4>2, <4>4, Zenon
      <3>6. QED
        BY <1>4, <1>5, <3>4, <3>5
    <2>3. QED
      BY <2>1, <2>2
  <1>7. ASSUME NEW u \in Workers(cfg)
        PROVE  /\ mem'[DoneLoc(u)].val \in Nat
               /\ \A i \in Rounds : mem'[DoneLoc(u)].val >= i => EndEv(u, i) \in done'
    <2>1. CASE mem'[DoneLoc(u)] = mem[DoneLoc(u)]
      BY <1>0, <2>1 DEF GateSignalled
    <2>2. CASE mem'[DoneLoc(u)] # mem[DoneLoc(u)]
      <3>1. Stores(At(e).op) /\ ~Loads(At(e).op)
        BY <1>0, <2>2, Effects, LoadsOrStores
      <3>2. At(e).loc = DoneLoc(u)
        BY <1>2, <2>2, <3>1, Effects
      <3>3. t = u /\ e = EndEv(u, e[2]) /\ Is(At(e), "STLR", DoneLoc(u), e[2])
        BY <1>0, <3>1, <3>2, Writers
      <3>4. mem'[DoneLoc(u)].val = e[2]
        BY <1>2, <3>1, <3>2, <3>3, Effects DEF Is
      <3>5. ASSUME NEW i \in Rounds, i <= e[2]
            PROVE  EndEv(u, i) \in done'
        <4>1. CASE EndEv(u, i) = e
          BY <1>0, <4>1
        <4>2. CASE EndEv(u, i) # e
          <5>1. EndEv(u, i) \in Accesses(u) /\ EndEv(u, i)[2] = i
            BY <1>0, WorkerAccesses DEF EndEv
          <5>2. EndEv(u, i) \in order[u][EndEv(u, e[2])]
            BY <1>0, <1>4, <3>3, <3>5, <4>2, <5>1, WorkerOrder
          <5>3. QED
            BY <1>0, <3>3, <5>2
        <4>3. QED
          BY <4>1, <4>2
      <3>6. QED
        BY <1>4, <1>5, <3>4, <3>5
    <2>3. QED
      BY <2>1, <2>2
  <1>8. QED
    BY <1>0, <1>1, <1>3, <1>6, <1>7 DEF GateSignalled

\* The load that passes a gate finds it signalled.
LEMMA HandshakeKept ==
  ASSUME IInv, NEW t, NEW e, Performs(t, e)
  PROVE  Handshake'
  <1>0. /\ Programs /\ Closed /\ GateSignalled /\ Handshake
        /\ t \in Actors(cfg) /\ e \in Accesses(t)
        /\ done' = done \cup {e} /\ cfg' = cfg /\ prog' = prog
    BY DEF IInv, Performs
  <1>1. \A u, i : EndEv(u, i)' = EndEv(u, i)
    BY <1>0, SamePrograms
  <1>2. Loads("LDAR") /\ ~Stores("LDAR")
    BY DEF Loads, Stores
  <1>3. ASSUME NEW u \in Workers(cfg), NEW i \in Rounds
        PROVE  /\ StartEv(u, i) \in done' => OpenEv(i) \in done'
               /\ JoinEv(u, i) \in done' => EndEv(u, i) \in done'
    <2>1. CASE e = StartEv(u, i)
      <3>1. Is(At(e), "LDAR", "gate_go", i)
        BY <1>0, <2>1, WorkerAccesses, IsInsn
      <3>2. mem["gate_go"].val >= i
        BY <1>2, <3>1, Effects DEF Is
      <3>3. OpenEv(i) \in done
        BY <1>0, <3>2 DEF GateSignalled
      <3>4. JoinEv(u, i) # e
        <4>1. StartEv(u, i)[1] = u /\ JoinEv(u, i)[1] = "main" /\ u # "main"
          BY DEF StartEv, JoinEv, Workers
        <4>2. QED
          BY <2>1, <4>1
      <3>5. QED
        BY <1>0, <3>3, <3>4 DEF Handshake
    <2>2. CASE e = JoinEv(u, i)
      <3>1. Is(At(e), "LDAR", DoneLoc(u), i)
        BY <1>0, <2>2, MainAccesses, IsInsn
      <3>2. mem[DoneLoc(u)].val >= i
        BY <1>2, <3>1, Effects DEF Is
      <3>3. EndEv(u, i) \in done
        BY <1>0, <3>2 DEF GateSignalled
      <3>4. StartEv(u, i) # e
        <4>1. StartEv(u, i)[1] = u /\ JoinEv(u, i)[1] = "main" /\ u # "main"
          BY DEF StartEv, JoinEv, Workers
        <4>2. QED
          BY <2>2, <4>1
      <3>5. QED
        BY <1>0, <3>3, <3>4 DEF Handshake
    <2>3. CASE e # StartEv(u, i) /\ e # JoinEv(u, i)
      BY <1>0, <2>3 DEF Handshake
    <2>4. QED
      BY <2>1, <2>2, <2>3
  <1>4. QED
    BY <1>0, <1>1, <1>3 DEF Handshake, StartEv, OpenEv, JoinEv

\* While a worker is in round e[2], x and y have been reset for that round and not yet
\* for a later one.
LEMMA InRound ==
  ASSUME Programs, Closed, Handshake, NEW t \in Workers(cfg), NEW e \in Accesses(t),
         e # StartEv(t, e[2]), e \notin done, order[t][e] \subseteq done,
         NEW l \in {"x", "y"}
  PROVE  /\ ResetEv(l, e[2]) \in done
         /\ \A i \in Rounds : e[2] < i => ResetEv(l, i) \notin done
  <1>1. e[2] \in Rounds
    BY WorkerAccesses
  <1>2. e[2] <= e[2]
    <2>1. \A i \in Rounds : i <= i
      BY LitmusAssumption DEF Rounds
    <2>2. QED
      BY <1>1, <2>1
  <1>3. StartEv(t, e[2]) \in order[t][e]
    BY <1>1, <1>2, WorkerOrder
  <1>4. ResetEv(l, e[2]) \in done
    BY <1>1, <1>3, Started
  <1>5. ASSUME NEW i \in Rounds, e[2] < i, ResetEv(l, i) \in done
        PROVE  FALSE
    <2>1. ResetEv(l, i) \in Accesses("main")
      BY MainAccesses
    <2>2. Before(JoinEv(t, e[2]), ResetEv(l, i))
      BY <1>5 DEF Before, JoinEv, ResetEv
    <2>3. JoinEv(t, e[2]) \in done
      BY <1>1, <1>5, <2>1, <2>2, Awaited
    <2>4. QED
      BY <1>1, <1>2, <1>5, <2>3, Joined
  <1>6. QED
    BY <1>4, <1>5

LEMMA DataKept ==
  ASSUME IInv, NEW t, NEW e, Performs(t, e)
  PROVE  DataFresh'
  <1>0. /\ Programs /\ Closed /\ Handshake /\ DataFresh
        /\ t \in Actors(cfg) /\ e \in Accesses(t) /\ e \notin done
        /\ order[t][e] \subseteq done /\ done' = done \cup {e}
    BY DEF IInv, Performs
  <1>1. Rounds \subseteq Nat /\ \A i \in Nat : i \in Rounds <=> 1 <= i /\ i <= Iters
    BY LitmusAssumption DEF Rounds
  <1>2. e[2] \in Rounds
    BY <1>0, WorkerAccesses, MainAccesses DEF Actors
  <1>3. SUFFICES ASSUME NEW l \in {"x", "y"}, NEW i \in Rounds,
                        ResetEv(l, i) \in done', ResetEv(l, i + 1) \notin done'
                 PROVE  mem'[l].round = i
    BY DEF DataFresh, ResetEv
  <1>4. l \in Locs /\ i \in Nat /\ e[2] \in Nat /\ Iters \in Nat
    BY <1>1, <1>2, LitmusAssumption DEF Locs
  <1>5. CASE t = "main" /\ e = ResetEv(l, e[2])
    <2>1. Is(At(e), "STR", l, 0)
      <3>1. At(ResetEv(l, e[2])) = Insn("STR", l, 0, None)
        BY <1>0, <1>2, MainAccesses
      <3>2. QED
        BY <1>5, <3>1, IsInsn, Zenon
    <2>2. mem'[l].round = e[2]
      BY <1>4, <2>1, Effects DEF Is, Stores, Loads
    <2>3. e[2] # i + 1
      BY <1>0, <1>3, <1>5
    <2>4. ~(e[2] < i)
      <3>1. SUFFICES ASSUME e[2] < i
                     PROVE  FALSE
        OBVIOUS
      <3>2. ResetEv(l, i) # e
        BY <1>4, <3>1 DEF ResetEv
      <3>3. ResetEv(l, i) \in done /\ ResetEv(l, i) \in Accesses("main")
        BY <1>0, <1>3, <3>2, MainAccesses
      <3>4. order["main"][ResetEv(l, i)] \subseteq done
        BY <1>0, <1>5, <3>3, Down
      <3>5. ResetEv(l, e[2]) \in order["main"][ResetEv(l, i)]
        BY <1>0, <1>2, <3>1, MainOrder
      <3>6. QED
        BY <1>0, <1>5, <3>4, <3>5, Zenon
    <2>5. ~(i + 1 < e[2])
      <3>1. SUFFICES ASSUME i + 1 < e[2]
                     PROVE  FALSE
        OBVIOUS
      <3>2. i + 1 \in Rounds
        BY <1>1, <1>2, <1>4, <3>1
      <3>3. ResetEv(l, i + 1) \in order["main"][ResetEv(l, e[2])]
        BY <1>0, <1>2, <3>1, <3>2, MainOrder
      <3>4. ResetEv(l, i + 1) \in order[t][e]
        BY <1>5, <3>3, Zenon
      <3>5. QED
        BY <1>0, <1>3, <3>4
    <2>6. e[2] = i
      BY <1>4, <2>3, <2>4, <2>5
    <2>7. QED
      BY <2>2, <2>6
  <1>6. CASE ~(t = "main" /\ e = ResetEv(l, e[2]))
    <2>1. ResetEv(l, i) # e /\ (ResetEv(l, i) = e => t = "main")
      <3>1. \A j : ResetEv(l, j)[1] = "main" /\ ResetEv(l, j)[2] = j
        BY DEF ResetEv
      <3>2. e[1] = t
        BY <1>0, ActorOf
      <3>3. QED
        BY <1>6, <3>1, <3>2
    <2>2. ResetEv(l, i) \in done /\ ResetEv(l, i + 1) \notin done
      BY <1>0, <1>3, <2>1
    <2>3. mem[l].round = i
      BY <1>0, <2>2 DEF DataFresh
    <2>4. CASE Stores(At(e).op) /\ At(e).loc = l
      <3>1. t \in Workers(cfg) /\ e # StartEv(t, e[2])
        BY <1>0, <1>6, <2>4, Writers
      <3>2. ResetEv(l, e[2]) \in done /\ \A j \in Rounds : e[2] < j => ResetEv(l, j) \notin done
        BY <1>0, <3>1, InRound
      <3>3. ~(e[2] < i)
        BY <2>2, <3>2
      <3>4. ~(i < e[2])
        <4>1. SUFFICES ASSUME i < e[2]
                       PROVE  FALSE
          OBVIOUS
        <4>2. i + 1 \in Rounds
          BY <1>1, <1>2, <1>4, <4>1
        <4>3. CASE i + 1 = e[2]
          BY <2>2, <3>2, <4>3
        <4>4. CASE i + 1 < e[2]
          <5>1. ResetEv(l, i + 1) \in order["main"][ResetEv(l, e[2])]
            BY <1>0, <1>2, <4>2, <4>4, MainOrder
          <5>2. "main" \in Actors(cfg) /\ ResetEv(l, e[2]) \in Accesses("main")
            BY <1>0, <1>2, MainAccesses
          <5>3. order["main"][ResetEv(l, e[2])] \subseteq done
            BY <1>0, <3>2, <5>2, Down
          <5>4. QED
            BY <2>2, <5>1, <5>3
        <4>5. QED
          BY <1>4, <4>1, <4>3, <4>4
      <3>5. e[2] = i
        BY <1>4, <3>3, <3>4
      <3>6. QED
        BY <1>0, <1>4, <2>4, <3>5, Effects, LoadsOrStores
    <2>5. CASE ~(Stores(At(e).op) /\ At(e).loc = l)
      <3>1. mem'[l] = mem[l]
        BY <1>0, <1>4, <2>5, Effects, LoadsOrStores
      <3>2. QED
        BY <2>3, <3>1
    <2>6. QED
      BY <2>4, <2>5
  <1>7. QED
    BY <1>5, <1>6

LEMMA ResultKept ==
  ASSUME IInv, NEW t, NEW e, Performs(t, e)
  PROVE  ResultFresh'
  <1>0. /\ Programs /\ Closed /\ Handshake /\ ResultFresh
        /\ t \in Actors(cfg) /\ e \in Accesses(t) /\ e \notin done
        /\ order[t][e] \subseteq done /\ done' = done \cup {e} /\ cfg' = cfg /\ prog' = prog
    BY DEF IInv, Performs
  <1>1. \A d : At(d)' = At(d)
    BY <1>0, SamePrograms
  <1>2. SUFFICES ASSUME NEW u \in Workers(cfg), NEW l \in Kept(cfg, u), NEW d \in done',
                        d[1] = u, At(d).loc = l, StartEv(u, d[2] + 1) \notin done'
                 PROVE  mem'[l].round = d[2]
    BY <1>0, <1>1 DEF ResultFresh, StartEv
  <1>3. /\ u \in Actors(cfg) /\ l \in Locs /\ l \notin {"x", "y", "gate_go"}
        /\ l # DoneLoc(u)
    BY <1>0, WorkerAccesses, LocsApart
  <1>4. d \in Accesses(u)
    BY <1>0, <1>2, ActorOf DEF Closed
  <1>5. Stores(At(d).op)
    <2>1. Stores("STR")
      BY DEF Stores
    <2>2. QED
      BY <1>0, <1>2, <1>3, <1>4, <2>1, WorkerKinds DEF Is
  <1>6. CASE Stores(At(e).op) /\ At(e).loc = l
    <2>1. t = u /\ e # StartEv(u, e[2])
      BY <1>0, <1>6, Writers
    <2>2. mem'[l].round = e[2]
      BY <1>0, <1>3, <1>6, Effects, LoadsOrStores
    <2>3. d[2] \in Rounds /\ e[2] \in Rounds
      BY <1>0, <1>4, <2>1, WorkerAccesses
    <2>4. d # StartEv(u, d[2])
      BY <1>0, <1>2, <1>3, <1>4, <1>5, Writers
    <2>5. /\ Iters \in Nat /\ d[2] \in Nat /\ e[2] \in Nat
          /\ \A i \in Nat : i \in Rounds <=> 1 <= i /\ i <= Iters
      <3>1. /\ Iters \in Nat /\ \A i \in Rounds : i \in Nat
            /\ \A i \in Nat : i \in Rounds <=> 1 <= i /\ i <= Iters
        BY LitmusAssumption DEF Rounds
      <3>2. QED
        BY <2>3, <3>1
    <2>6. CASE d = e
      BY <2>2, <2>6
    <2>7. CASE d # e
      <3>1. d \in done
        BY <1>0, <1>2, <2>7
      <3>2. ~(d[2] < e[2])
        <4>1. SUFFICES ASSUME d[2] < e[2]
                       PROVE  FALSE
          OBVIOUS
        <4>2. d[2] + 1 \in Rounds /\ d[2] + 1 <= e[2]
          BY <2>3, <2>5, <4>1
        <4>3. e # StartEv(u, d[2] + 1)
          <5>1. StartEv(u, d[2] + 1)[2] = d[2] + 1
            BY DEF StartEv
          <5>2. QED
            BY <2>1, <5>1
        <4>4. StartEv(u, d[2] + 1) \in order[u][e]
          BY <1>0, <2>1, <4>2, <4>3, WorkerOrder
        <4>5. QED
          BY <1>0, <1>2, <2>1, <4>4
      <3>3. ~(e[2] < d[2])
        <4>1. SUFFICES ASSUME e[2] < d[2]
                       PROVE  FALSE
          OBVIOUS
        <4>a. d[2] <= d[2] /\ e[2] <= e[2]
          BY <2>5
        <4>2. StartEv(u, d[2]) \in order[u][d]
          BY <1>0, <1>4, <2>3, <2>4, <4>a, WorkerOrder
        <4>3. StartEv(u, d[2]) \in done
          BY <1>0, <1>3, <1>4, <3>1, <4>2, Down
        <4>4. EndEv(u, e[2]) \in order[u][StartEv(u, d[2])]
          BY <1>0, <2>3, <4>1, WorkerOrder
        <4>5. StartEv(u, d[2]) \in Accesses(u) /\ EndEv(u, e[2]) \in Accesses(u)
          BY <1>0, <2>3, WorkerAccesses
        <4>6. EndEv(u, e[2]) \in done
          BY <1>0, <1>3, <4>3, <4>4, <4>5, Down
        <4>7. e # EndEv(u, e[2])
          BY <1>0, <4>6
        <4>8. e \in order[u][EndEv(u, e[2])]
          BY <1>0, <2>1, <2>3, <4>a, <4>7, WorkerOrder
        <4>9. QED
          BY <1>0, <1>3, <4>5, <4>6, <4>8, Down
      <3>4. d[2] = e[2]
        BY <2>5, <3>2, <3>3
      <3>5. QED
        BY <2>2, <3>4
    <2>8. QED
      BY <2>6, <2>7
  <1>7. CASE ~(Stores(At(e).op) /\ At(e).loc = l)
    <2>1. d # e
      BY <1>2, <1>5, <1>7
    <2>2. d \in done /\ StartEv(u, d[2] + 1) \notin done
      BY <1>0, <1>2, <2>1
    <2>3. mem[l].round = d[2]
      BY <1>0, <1>2, <2>2 DEF ResultFresh
    <2>4. mem'[l] = mem[l]
      BY <1>0, <1>3, <1>7, Effects, LoadsOrStores
    <2>5. QED
      BY <2>3, <2>4
  <1>8. QED
    BY <1>6, <1>7

\* A load that fills a register finds the value of its own round.
LEMMA RoundsKept ==
  ASSUME IInv, NEW t, NEW e, Performs(t, e)
  PROVE  RoundsApart'
  <1>0. /\ Programs /\ Closed /\ Handshake /\ DataFresh /\ ResultFresh /\ RoundsApart
        /\ t \in Actors(cfg) /\ e \in Accesses(t) /\ e \notin done
        /\ order[t][e] \subseteq done /\ done' = done \cup {e} /\ cfg' = cfg /\ prog' = prog
    BY DEF IInv, Performs
  <1>1. \A d : At(d)' = At(d)
    BY <1>0, SamePrograms
  <1>2. CASE Stores(At(e).op)
    BY <1>0, <1>1, <1>2, Effects, LoadsOrStores DEF RoundsApart
  <1>3. CASE Loads(At(e).op) /\ ~Stores(At(e).op)
    <2>1. /\ DOMAIN reg' = DOMAIN reg \cup {e}
          /\ \A d \in DOMAIN reg' : reg'[d] = IF d = e THEN mem[At(e).loc] ELSE reg[d]
      BY <1>3, Effects
    <2>2. SUFFICES ASSUME At(e).r # None
                   PROVE  mem[At(e).loc].round = e[2]
      BY <1>0, <1>1, <2>1 DEF RoundsApart
    <2>a. /\ Iters \in Nat /\ \A i \in Rounds : i \in Nat /\ i <= i /\ i < i + 1
          /\ \A i \in Nat : i \in Rounds <=> 1 <= i /\ i <= Iters
      BY LitmusAssumption DEF Rounds
    <2>3. CASE t \in Workers(cfg)
      <3>1. /\ At(e).loc \in {"x", "y"} /\ e # StartEv(t, e[2]) /\ e[2] \in Rounds
        <4>1. ~Loads("STR")
          BY DEF Loads
        <4>2. QED
          BY <1>0, <1>3, <2>2, <2>3, <4>1, WorkerKinds, WorkerAccesses DEF Is
      <3>2. PICK l \in {"x", "y"} : l = At(e).loc
        BY <3>1
      <3>3. /\ ResetEv(l, e[2]) \in done
            /\ \A i \in Rounds : e[2] < i => ResetEv(l, i) \notin done
        BY <1>0, <2>3, <3>1, InRound
      <3>4. ResetEv(l, e[2] + 1) \notin done
        <4>1. SUFFICES ASSUME ResetEv(l, e[2] + 1) \in done
                       PROVE  FALSE
          OBVIOUS
        <4>2. ResetEv(l, e[2] + 1)[1] = "main" /\ ResetEv(l, e[2] + 1)[2] = e[2] + 1
          BY DEF ResetEv
        <4>3. e[2] + 1 \in Rounds
          BY <1>0, <4>1, <4>2, MainAccesses DEF Closed
        <4>4. QED
          BY <2>a, <3>1, <3>3, <4>1, <4>3
      <3>5. QED
        BY <1>0, <3>1, <3>2, <3>3, <3>4 DEF DataFresh
    <2>4. CASE t = "main"
      <3>1. PICK u \in Workers(cfg) : At(e).loc \in Kept(cfg, u) /\ Before(JoinEv(u, e[2]), e)
        <4>1. ~Loads("STR") /\ ~Loads("STLR")
          BY DEF Loads
        <4>2. QED
          BY <1>0, <1>3, <2>2, <2>4, <4>1, MainKinds DEF Is
      <3>2. e[2] \in Rounds /\ e[3] \in Nat
        BY <1>0, <2>4, MainAccesses
      <3>3. JoinEv(u, e[2]) \in done
        BY <1>0, <2>4, <3>1, <3>2, MainOrder
      <3>6. PICK d \in Accesses(u) : d[2] = e[2] /\ At(d).loc = At(e).loc
        <4>1. At(e).loc \in Touched(cfg, u)
          BY <3>1 DEF Touched
        <4>2. QED
          BY <1>0, <3>1, <3>2, <4>1, SomeAccess
      <3>b. d[1] = u
        BY <1>0, <3>1, ActorOf, WorkerAccesses
      <3>7. d \in done
        BY <1>0, <2>a, <3>2, <3>3, <3>6, Joined
      <3>8. StartEv(u, e[2] + 1) \notin done
        <4>1. SUFFICES ASSUME StartEv(u, e[2] + 1) \in done
                       PROVE  FALSE
          OBVIOUS
        <4>2. StartEv(u, e[2] + 1)[1] = u /\ StartEv(u, e[2] + 1)[2] = e[2] + 1
          BY DEF StartEv
        <4>3. e[2] + 1 \in Rounds
          BY <1>0, <4>1, <4>2, WorkerAccesses DEF Closed
        <4>4. Before(e, OpenEv(e[2] + 1))
          <5>1. OpenEv(e[2] + 1)[2] = e[2] + 1
            BY DEF OpenEv
          <5>2. QED
            BY <2>a, <3>2, <5>1 DEF Before
        <4>5. QED
          BY <1>0, <2>4, <4>1, <4>3, <4>4, Started
      <3>9. QED
        BY <1>0, <3>1, <3>6, <3>b, <3>7, <3>8 DEF ResultFresh
    <2>5. QED
      BY <1>0, <2>3, <2>4 DEF Actors
  <1>4. QED
    BY <1>2, <1>3, Effects

-----------------------------------------------------------------------------
(* The theorems *)

LEMMA InitInv == Init => IInv
  <1> SUFFICES ASSUME Init
               PROVE  IInv
    OBVIOUS
  <1>1. done = {} /\ DOMAIN reg = {}
    BY DEF Init
  <1>2. Programs
    BY <1>1 DEF Init, Programs, Rounds
  <1>3. Closed /\ Handshake /\ DataFresh /\ ResultFresh /\ RoundsApart
    BY <1>1 DEF Closed, Handshake, DataFresh, ResultFresh, RoundsApart
  <1>4. GateSignalled
    <2>1. \A u \in Workers(cfg) : DoneLoc(u) \in Locs
      BY LocsApart DEF Workers
    <2>2. DOMAIN mem = Locs /\ \A l \in Locs : mem[l].val = 0
      BY DEF Init
    <2>3. "gate_go" \in Locs /\ \A i \in Rounds : ~(0 >= i)
      BY LitmusAssumption DEF Locs, Rounds
    <2>4. QED
      BY <2>1, <2>2, <2>3 DEF GateSignalled
  <1>5. QED
    BY <1>2, <1>3, <1>4 DEF IInv

\* A thread asks for TSO mode before its first access, so the stronger order it may
\* be given finds nothing performed.
LEMMA TsoStep ==
  ASSUME IInv, NEW t \in Actors(cfg), try_request_tso(t)
  PROVE  IInv'
  <1>0. /\ Programs /\ Closed /\ tso[t] = "ask"
        /\ cfg' = cfg /\ prog' = prog /\ done' = done /\ mem' = mem /\ reg' = reg
    BY DEF IInv, try_request_tso
  <1>1. /\ \A d : At(d)' = At(d)
        /\ \A u : Accesses(u)' = Accesses(u)
        /\ \A u, s : Order(u, s)' = Order(u, s)
        /\ \A u, i : EndEv(u, i)' = EndEv(u, i)
    BY <1>0, SamePrograms
  <1>2. \A d \in done : d[1] # t
    BY <1>0 DEF Programs
  <1>3. DOMAIN order = Actors(cfg) /\ DOMAIN tso = Actors(cfg)
    BY <1>0 DEF Programs
  <1>4. /\ DOMAIN order' = Actors(cfg) /\ DOMAIN tso' = Actors(cfg)
        /\ order'[t] = order[t] \/ order'[t] = Order(t, TRUE)
        /\ \A u \in Actors(cfg) : u # t => order'[u] = order[u] /\ tso'[u] = tso[u]
    BY <1>3 DEF try_request_tso
  <1>5. Programs'
    <2>1. \A u \in Actors(cfg) : order'[u] \in {Order(u, TRUE)', Order(u, FALSE)'}
      BY <1>0, <1>1, <1>4 DEF Programs
    <2>2. \A u \in Actors(cfg) : tso'[u] = "ask" => \A d \in done' : d[1] # u
      BY <1>0, <1>2, <1>4 DEF Programs
    <2>3. QED
      BY <1>0, <1>4, <2>1, <2>2 DEF Programs
  <1>6. Closed'
    BY <1>0, <1>1, <1>2, <1>4 DEF Closed
  <1>7. GateSignalled' /\ Handshake'
    BY <1>0, <1>1 DEF IInv, GateSignalled, Handshake, StartEv, OpenEv, JoinEv
  <1>8. DataFresh' /\ ResultFresh' /\ RoundsApart'
    BY <1>0, <1>1 DEF IInv, DataFresh, ResultFresh, RoundsApart, StartEv, ResetEv
  <1>9. QED
    BY <1>5, <1>6, <1>7, <1>8 DEF IInv

\* The steps that perform no access.
LEMMA OtherStep ==
  ASSUME IInv, UNCHANGED <<cfg, prog, order, tso, mem, done>>,
         reg' = reg \/ \E S \in SUBSET DOMAIN reg : reg' = [e \in S |-> reg[e]]
  PROVE  IInv'
  <1>0. cfg' = cfg /\ prog' = prog /\ order' = order /\ tso' = tso /\ mem' = mem /\ done' = done
    OBVIOUS
  <1>1. /\ \A d : At(d)' = At(d)
        /\ \A u : Accesses(u)' = Accesses(u)
        /\ \A u, s : Order(u, s)' = Order(u, s)
        /\ \A u, i : EndEv(u, i)' = EndEv(u, i)
    BY <1>0, SamePrograms
  <1>2. Programs' /\ Closed'
    BY <1>0, <1>1 DEF IInv, Programs, Closed
  <1>3. GateSignalled' /\ Handshake'
    BY <1>0, <1>1 DEF IInv, GateSignalled, Handshake, StartEv, OpenEv, JoinEv
  <1>4. DataFresh' /\ ResultFresh'
    BY <1>0, <1>1 DEF IInv, DataFresh, ResultFresh, StartEv, ResetEv
  <1>5. RoundsApart'
    <2>1. \A e \in DOMAIN reg' : e \in DOMAIN reg /\ reg'[e] = reg[e]
      OBVIOUS
    <2>2. QED
      BY <1>1, <2>1 DEF IInv, RoundsApart
  <1>6. QED
    BY <1>2, <1>3, <1>4, <1>5 DEF IInv

LEMMA AccessStep ==
  ASSUME IInv, NEW t \in Actors(cfg), Access(t)
  PROVE  IInv'
  <1>1. PICK e : Performs(t, e)
    BY AccessPerforms
  <1>2. QED
    BY <1>1, ProgramsKept, GateKept, HandshakeKept, DataKept, ResultKept, RoundsKept DEF IInv

LEMMA NextInv == IInv /\ [Next]_vars => IInv'
  <1> SUFFICES ASSUME IInv, [Next]_vars
               PROVE  IInv'
    OBVIOUS
  <1>1. CASE Create
    BY <1>1, OtherStep DEF Create
  <1>2. CASE Access("main")
    BY <1>2, AccessStep DEF Actors
  <1>3. CASE Evaluate
    <2>1. { d \in DOMAIN reg : d[2] > total + 1 } \in SUBSET DOMAIN reg
      OBVIOUS
    <2>2. QED
      BY <1>3, <2>1, OtherStep DEF Evaluate
  <1>4. CASE Report
    BY <1>4, OtherStep DEF Report
  <1>5. ASSUME NEW t \in {"t0", "t1", "t2"}, Worker(t)
        PROVE  IInv'
    BY <1>5, TsoStep, AccessStep DEF Worker, Actors
  <1>6. CASE UNCHANGED vars
    BY <1>6, OtherStep DEF vars
  <1>7. QED
    BY <1>1, <1>2, <1>3, <1>4, <1>5, <1>6 DEF Next, Main

(***************************************************************************)
(* The handshake of the rounds (wait_gate, the gate that main opens and    *)
(* the done counters) holds in every state: a gate shows a round only once *)
(* it was signalled, nobody passes it earlier, and x, y and the results    *)
(* hold values of the round they are in.                                   *)
(***************************************************************************)
THEOREM Invariance == Spec => []IInv
  <1>1. IInv /\ [Next]_vars => IInv'
    BY NextInv
  <1>2. QED
    BY InitInv, <1>1, PTL DEF Spec

(***************************************************************************)
(* Rounds do not mix, for any number of rounds, in every test and mapping, *)
(* whoever is granted TSO mode: each value of x and y that a worker takes  *)
(* and each result that main evaluates was written in its own round,       *)
(* although these accesses are plain and only the acquire and release      *)
(* accesses of the gates order them.                                       *)
(***************************************************************************)
THEOREM NothingLeftOver == Spec => []RoundsApart
  <1>1. IInv => RoundsApart
    BY DEF IInv
  <1>2. QED
    BY Invariance, <1>1, PTL

-----------------------------------------------------------------------------
(* What the machine keeps of the order of the data accesses *)

\* More reasons to keep d before e: a barrier in between, a data dependency.
LEMMA Reasons ==
  ASSUME Programs, NEW t \in Actors(cfg), NEW d \in Accesses(t), NEW e \in Accesses(t),
         Before(d, e),
         \/ Pairs(At(d), At(e))
         \/ \E b \in Events(t) : Before(d, b) /\ Before(b, e) /\ Bars(At(b), At(d), At(e))
         \/ At(e).r # None /\ At(d).r = At(e).r /\ d[2] = e[2]
         \/ order[t] = Order(t, TRUE) /\ (Loads(At(d).op) \/ Stores(At(e).op))
  PROVE  d \in order[t][e]
  <1>1. order[t] = Order(t, TRUE) \/ order[t] = Order(t, FALSE)
    BY DEF Programs
  <1>2. CASE Pairs(At(d), At(e))
    <2>1. Held(d, e)
      BY <1>2 DEF Pairs, Held
    <2>2. QED
      BY <2>1, Ordered
  <1>3. CASE At(e).r # None /\ At(d).r = At(e).r /\ d[2] = e[2]
    BY <1>1, <1>3 DEF Order
  <1>4. CASE order[t] = Order(t, TRUE) /\ (Loads(At(d).op) \/ Stores(At(e).op))
    BY <1>4 DEF Order
  <1>5. ASSUME NEW b \in Events(t), Before(d, b), Before(b, e), Bars(At(b), At(d), At(e))
        PROVE  d \in order[t][e]
    <2> DEFINE between == Barriers \cap
                 { At(v).op : v \in { f \in Events(t) : Before(d, f) /\ Before(f, e) } }
    <2>1. At(b).op \in between
      <3>1. At(b).op \in Barriers
        BY <1>5 DEF Bars, Barriers
      <3>2. QED
        BY <1>5, <3>1
    <2> HIDE DEF between
    <2>2. MustPrecede(At(d).op, At(e).op, between, At(d).loc = At(e).loc, TRUE)
      BY <1>5, <2>1 DEF MustPrecede, Bars
    <2>3. \A s \in BOOLEAN : d \in Order(t, s)[e]
      BY <2>2 DEF Order, between
    <2>4. QED
      BY <1>1, <2>3
  <1>6. QED
    BY <1>2, <1>3, <1>4, <1>5

\* A worker takes a value before it stores it as a result.
LEMMA Depends ==
  ASSUME Programs, NEW t \in Workers(cfg), NEW d \in Accesses(t), NEW k \in Accesses(t),
         Loads(At(d).op), At(k).loc \in Kept(cfg, t), d[2] = k[2], At(d).r = At(k).r
  PROVE  d \in order[t][k]
  <1>0. t \in Actors(cfg) /\ cfg.test \in {"mp", "sb", "wrc"}
    BY LitmusAssumption DEF Programs, Actors
  <1>1. At(k).r = KeptReg(At(k).loc) /\ KeptReg(At(k).loc) # None
    <2>1. \A l \in Kept(cfg, t) : KeptReg(l) # None
      BY <1>0, RegOwner
    <2>2. QED
      BY <2>1, WorkerData
  <1>2. At(d).loc \in Gets(cfg, t)
    BY <1>1, SameLoad
  <1>3. PICK p : p = Round(cfg, t, d[2])
    OBVIOUS
  <1>4. /\ WorkerRound(cfg, t, d[2], p) /\ d[3] \in 1..Len(p) /\ Uses(p, d[3], At(d).loc)
        /\ k[3] \in 1..Len(p) /\ Uses(p, k[3], At(k).loc)
    BY <1>3, Placed
  <1>5. Ahead(p, At(d).loc, At(k).loc)
    BY <1>2, <1>4 DEF WorkerRound
  <1>6. d[3] < k[3]
    BY <1>4, <1>5 DEF Ahead
  <1>7. Before(d, k)
    BY <1>6 DEF Before
  <1>8. QED
    BY <1>0, <1>1, <1>7, Reasons

\* A mapping, or a fence, that excludes the outcome and TSO mode keep the two data
\* accesses of a worker in order.
LEMMA Obeyed ==
  ASSUME Programs, NEW t \in Workers(cfg), NEW d \in Accesses(t), NEW e \in Accesses(t),
         \/ Tight(cfg)
         \/ cfg.test = "mp" /\ order[t] = Order(t, TRUE),
         d[2] = e[2], At(d).loc = First(cfg, t), At(e).loc = Second(cfg, t)
  PROVE  d \in order[t][e]
  <1>0. t \in Actors(cfg)
    BY DEF Actors
  <1>1. PICK p : p = Round(cfg, t, e[2])
    OBVIOUS
  <1>2. /\ WorkerRound(cfg, t, e[2], p)
        /\ d[3] \in 1..Len(p) /\ Uses(p, d[3], At(d).loc) /\ At(d) = p[d[3]]
        /\ e[3] \in 1..Len(p) /\ Uses(p, e[3], At(e).loc) /\ At(e) = p[e[3]]
        /\ d = <<t, e[2], d[3]>> /\ e = <<t, e[2], e[3]>>
        /\ \A k \in 1..Len(p) : <<t, e[2], k>> \in Events(t) /\ At(<<t, e[2], k>>) = p[k]
    BY <1>1, Placed
  <1>3. Len(p) \in Nat
    BY <1>2 DEF WorkerRound
  <1>4. d[3] < e[3] /\ Before(d, e)
    <2>1. Ahead(p, First(cfg, t), Second(cfg, t))
      BY <1>2 DEF WorkerRound
    <2>2. d[3] < e[3]
      BY <1>2, <2>1 DEF Ahead
    <2>3. QED
      BY <2>2 DEF Before
  <1>5. CASE Tight(cfg)
    <2>1. Synced(p, First(cfg, t), Second(cfg, t))
      BY <1>2, <1>5 DEF WorkerRound
    <2>2. \/ Pairs(p[d[3]], p[e[3]])
          \/ \E n \in (d[3] + 1)..(e[3] - 1) : Bars(p[n], p[d[3]], p[e[3]])
      BY <1>2, <2>1 DEF Synced
    <2>3. CASE Pairs(p[d[3]], p[e[3]])
      BY <1>0, <1>2, <1>4, <2>3, Reasons
    <2>4. ASSUME NEW n \in (d[3] + 1)..(e[3] - 1), Bars(p[n], p[d[3]], p[e[3]])
          PROVE  d \in order[t][e]
      <3>1. n \in 1..Len(p) /\ d[3] < n /\ n < e[3]
        BY <1>2, <1>3
      <3>2. PICK b : b = <<t, e[2], n>>
        OBVIOUS
      <3>3. b \in Events(t) /\ At(b) = p[n] /\ b[2] = e[2] /\ b[3] = n
        BY <1>2, <3>1, <3>2
      <3>4. Before(d, b) /\ Before(b, e)
        BY <3>1, <3>3 DEF Before
      <3>5. QED
        BY <1>0, <1>2, <1>4, <2>4, <3>3, <3>4, Reasons
    <2>5. QED
      BY <2>2, <2>3, <2>4
  <1>6. CASE cfg.test = "mp" /\ order[t] = Order(t, TRUE)
    <2>1. t = "t0" \/ t = "t1"
      BY <1>6 DEF Workers
    <2>2. CASE t = "t0"
      <3>1. At(e).loc = "y" /\ Gets(cfg, t) = {}
        BY <1>6, <2>2 DEF First, Second, Gets
      <3>2. Stores(At(e).op)
        BY <3>1, WorkerData
      <3>3. QED
        BY <1>0, <1>4, <1>6, <3>2, Reasons
    <2>3. CASE t = "t1"
      <3>1. At(d).loc = "y" /\ Puts(cfg, t) = {}
        BY <1>6, <2>3 DEF First, Second, Puts, Writer
      <3>2. Loads(At(d).op)
        BY <3>1, WorkerData
      <3>3. QED
        BY <1>0, <1>4, <1>6, <3>2, Reasons
    <2>4. QED
      BY <2>1, <2>2, <2>3
  <1>7. QED
    BY <1>5, <1>6

-----------------------------------------------------------------------------
(* The values of a round *)

\* A worker has stored to l in round i.
Put(l, i) == \E e \in done : /\ e[1] # "main" /\ e[2] = i
                             /\ At(e).loc = l /\ Stores(At(e).op)

\* Between two resets x (and y) is set exactly when the worker has stored to it.
DataValue ==
  \A l \in {"x", "y"}, i \in Rounds :
    ResetEv(l, i) \in done /\ ResetEv(l, i + 1) \notin done
      => mem[l].val = IF Put(l, i) THEN 1 ELSE 0

\* The registers are those of the loads performed in the rounds not yet evaluated.
Loaded ==
  /\ \A e \in DOMAIN reg : e \in done /\ Loads(At(e).op)
  /\ \A e \in done : Loads(At(e).op) /\ e[2] > total => e \in DOMAIN reg

\* Register e holds what t took of l.
Takes(e, t, l) == e[1] = t /\ At(e).loc = l

\* A worker sees only what was stored in its round.
Seen == \A e \in DOMAIN reg, l \in {"x", "y"} :
          e[1] # "main" /\ At(e).loc = l /\ reg[e].val = 1 => Put(l, e[2])

\* A result is what its worker took, until the worker's next round.
ResultValue ==
  \A t \in Workers(cfg) : \A k \in done, d \in DOMAIN reg :
    /\ k[1] = t /\ d[1] = t /\ d[2] = k[2] /\ At(k).loc \in Kept(cfg, t) /\ At(k).r = At(d).r
    /\ StartEv(t, k[2] + 1) \notin done
    => mem[At(k).loc].val = reg[d].val

\* main fetches what the workers took.
Fetched ==
  \A f, d \in DOMAIN reg :
    f[1] = "main" /\ d[1] # "main" /\ f[2] = d[2] /\ At(f).r # None /\ At(f).r = At(d).r
      => reg[f].val = reg[d].val

\* A worker's data access finds l as its round has left it.
LEMMA FreshData ==
  ASSUME IInv, DataValue, NEW t \in Workers(cfg), NEW e, Performs(t, e),
         NEW l \in {"x", "y"}, At(e).loc = l
  PROVE  mem[l].val = IF Put(l, e[2]) THEN 1 ELSE 0
  <1>0. /\ Programs /\ Closed /\ Handshake /\ e \in Accesses(t) /\ e \notin done
        /\ order[t][e] \subseteq done
    BY DEF IInv, Performs
  <1>1. e # StartEv(t, e[2]) /\ e[2] \in Rounds
    <2>1. e[2] \in Rounds
      BY <1>0, WorkerAccesses
    <2>2. At(StartEv(t, e[2])).loc = "gate_go"
      BY <1>0, <2>1, WorkerAccesses DEF Insn
    <2>3. QED
      BY <2>1, <2>2
  <1>2. /\ ResetEv(l, e[2]) \in done
        /\ \A i \in Rounds : e[2] < i => ResetEv(l, i) \notin done
    BY <1>0, <1>1, InRound
  <1>3. ResetEv(l, e[2] + 1) \notin done
    <2>1. SUFFICES ASSUME ResetEv(l, e[2] + 1) \in done
                   PROVE  FALSE
      OBVIOUS
    <2>2. ResetEv(l, e[2] + 1)[1] = "main" /\ ResetEv(l, e[2] + 1)[2] = e[2] + 1
      BY DEF ResetEv
    <2>3. e[2] + 1 \in Rounds
      BY <1>0, <2>1, <2>2, MainAccesses DEF Closed
    <2>4. \A i \in Rounds : i < i + 1
      BY LitmusAssumption DEF Rounds
    <2>5. QED
      BY <1>1, <1>2, <2>1, <2>3, <2>4
  <1>4. QED
    BY <1>1, <1>2, <1>3 DEF DataValue

\* The writer of l has stored to it.
LEMMA PutBy ==
  ASSUME Programs, Closed, NEW l \in {"x", "y"}, NEW i, Put(l, i)
  PROVE  /\ Writer(cfg, l) \in Workers(cfg)
         /\ \E e \in Accesses(Writer(cfg, l)) : e \in done /\ e[2] = i /\ At(e).loc = l
  <1>1. PICK e \in done : e[1] # "main" /\ e[2] = i /\ At(e).loc = l /\ Stores(At(e).op)
    BY DEF Put
  <1>2. e[1] \in Workers(cfg) /\ e \in Accesses(e[1])
    BY <1>1 DEF Closed, Actors
  <1>3. l \in Puts(cfg, e[1])
    BY <1>1, <1>2, WorkerData
  <1>4. e[1] = Writer(cfg, l)
    BY <1>3 DEF Puts
  <1>5. QED
    BY <1>1, <1>2, <1>4

LEMMA PutDone ==
  ASSUME Programs, NEW t \in Workers(cfg), NEW l \in Puts(cfg, t), NEW e \in Accesses(t),
         e \in done, At(e).loc = l
  PROVE  Put(l, e[2])
  <1>1. l \in {"x", "y"} /\ l \notin Gets(cfg, t)
    BY WorkerData DEF Puts
  <1>2. Stores(At(e).op)
    BY <1>1, WorkerData
  <1>3. e[1] = t /\ t # "main"
    BY ActorOf, WorkerAccesses DEF Workers
  <1>4. QED
    BY <1>2, <1>3 DEF Put

\* A performed access does not undo a store.
LEMMA PutStays ==
  ASSUME NEW t, NEW e, Performs(t, e)
  PROVE  \A l, i : Put(l, i) => Put(l, i)'
  <1>1. done' = done \cup {e} /\ \A d : At(d)' = At(d)
    BY SamePrograms DEF Performs
  <1>2. QED
    BY <1>1 DEF Put

LEMMA DataValueKept ==
  ASSUME IInv, DataValue, NEW t, NEW e, Performs(t, e)
  PROVE  DataValue'
  <1>0. /\ Programs /\ Closed /\ Handshake
        /\ t \in Actors(cfg) /\ e \in Accesses(t) /\ e \notin done /\ e[1] = t
        /\ order[t][e] \subseteq done /\ done' = done \cup {e}
    BY ActorOf DEF IInv, Performs
  <1>1. \A d : At(d)' = At(d)
    BY SamePrograms DEF Performs
  <1>2. e[2] \in Rounds
    BY <1>0, WorkerAccesses, MainAccesses DEF Actors
  <1>3. SUFFICES ASSUME NEW l \in {"x", "y"}, NEW i \in Rounds,
                        ResetEv(l, i) \in done', ResetEv(l, i + 1) \notin done'
                 PROVE  mem'[l].val = IF Put(l, i)' THEN 1 ELSE 0
    BY DEF DataValue, ResetEv
  <1>4. mem'[l].round = i
    <2>1. DataFresh'
      BY DataKept
    <2>2. QED
      BY <1>3, <2>1 DEF DataFresh, ResetEv
  <1>5. l \in Locs
    BY DEF Locs
  <1>6. CASE Stores(At(e).op) /\ At(e).loc = l
    <2>1. e[2] = i /\ (At(e).r = None => mem'[l].val = At(e).val)
      BY <1>0, <1>4, <1>5, <1>6, Effects, LoadsOrStores
    <2>2. CASE t = "main" /\ e = ResetEv(l, e[2])
      <3>1. Is(At(e), "STR", l, 0)
        <4>1. At(ResetEv(l, e[2])) = Insn("STR", l, 0, None)
          BY <1>0, <1>2, MainAccesses
        <4>2. QED
          BY <2>2, <4>1, IsInsn, Zenon
      <3>2. mem'[l].val = 0
        BY <2>1, <3>1 DEF Is
      <3>3. ~Put(l, i)'
        <4>1. SUFFICES ASSUME NEW d \in done', d[1] # "main", d[2] = i, At(d).loc = l
                       PROVE  FALSE
          BY <1>1 DEF Put
        <4>2. d \in done /\ d[1] \in Workers(cfg) /\ d \in Accesses(d[1])
          BY <1>0, <2>2, <4>1 DEF Closed, Actors
        <4>3. PICK w \in Workers(cfg) : w = d[1]
          BY <4>2
        <4>4. d # StartEv(w, i)
          <5>1. At(StartEv(w, i)).loc = "gate_go"
            BY <1>0, WorkerAccesses DEF Insn
          <5>2. QED
            BY <4>1, <5>1
        <4>5. StartEv(w, i) \in order[w][d]
          <5>1. \A j \in Rounds : j <= j
            BY LitmusAssumption DEF Rounds
          <5>2. QED
            BY <1>0, <4>1, <4>2, <4>3, <4>4, <5>1, WorkerOrder
        <4>6. StartEv(w, i) \in done
          BY <1>0, <4>2, <4>3, <4>5, Down, WorkerAccesses
        <4>7. ResetEv(l, i) \in done
          BY <1>0, <4>6, Started
        <4>8. QED
          BY <1>0, <2>1, <2>2, <4>7, Zenon
      <3>4. QED
        BY <3>2, <3>3
    <2>3. CASE t \in Workers(cfg)
      <3>1. At(e).val = 1 /\ At(e).r = None
        BY <1>0, <1>6, <2>3, WorkerData
      <3>2. Put(l, i)'
        <4>1. e \in done' /\ e[1] # "main" /\ e[2] = i /\ At(e).loc = l /\ Stores(At(e).op)
          BY <1>0, <1>6, <2>1, <2>3 DEF Workers
        <4>2. QED
          BY <1>1, <4>1 DEF Put
      <3>3. QED
        BY <2>1, <3>1, <3>2
    <2>4. QED
      BY <1>0, <1>6, <2>2, <2>3, Writers
  <1>7. CASE ~(Stores(At(e).op) /\ At(e).loc = l)
    <2>1. mem'[l] = mem[l]
      BY <1>0, <1>5, <1>7, Effects, LoadsOrStores
    <2>2. ResetEv(l, i) # e
      <3>1. At(ResetEv(l, i)) = Insn("STR", l, 0, None)
        BY <1>0, MainAccesses
      <3>2. Insn("STR", l, 0, None).op = "STR" /\ Insn("STR", l, 0, None).loc = l /\ Stores("STR")
        BY DEF Insn, Stores
      <3>3. QED
        BY <1>7, <3>1, <3>2
    <2>3. ResetEv(l, i) \in done /\ ResetEv(l, i + 1) \notin done
      BY <1>0, <1>3, <2>2
    <2>4. mem[l].val = IF Put(l, i) THEN 1 ELSE 0
      BY <2>3 DEF DataValue
    <2>5. Put(l, i)' <=> Put(l, i)
      BY <1>0, <1>1, <1>7 DEF Put
    <2>6. QED
      BY <2>1, <2>4, <2>5
  <1>8. QED
    BY <1>6, <1>7

\* What an access does to the registers.
LEMMA RegsAfter ==
  ASSUME IInv, NEW t, NEW e, Performs(t, e)
  PROVE  /\ \A d : d \in DOMAIN reg' <=> d \in DOMAIN reg \/ (d = e /\ Loads(At(e).op))
         /\ \A d \in DOMAIN reg : d # e => reg'[d] = reg[d]
         /\ Loads(At(e).op) => reg'[e] = mem[At(e).loc]
  <1>0. Programs /\ t \in Actors(cfg) /\ e \in Accesses(t)
    BY DEF IInv, Performs
  <1>1. CASE Stores(At(e).op)
    BY <1>0, <1>1, Effects, LoadsOrStores
  <1>2. CASE ~Stores(At(e).op)
    BY <1>0, <1>2, Effects
  <1>3. QED
    BY <1>1, <1>2

LEMMA LoadedKept ==
  ASSUME IInv, Loaded, NEW t, NEW e, Performs(t, e), total' = total
  PROVE  Loaded'
  <1>1. done' = done \cup {e} /\ \A d : At(d)' = At(d)
    BY SamePrograms DEF Performs
  <1>2. \A d : d \in DOMAIN reg' <=> d \in DOMAIN reg \/ (d = e /\ Loads(At(e).op))
    BY RegsAfter
  <1>3. QED
    BY <1>1, <1>2 DEF Loaded

LEMMA SeenKept ==
  ASSUME IInv, DataValue, Loaded, Seen, NEW t, NEW e, Performs(t, e)
  PROVE  Seen'
  <1>0. /\ Programs /\ t \in Actors(cfg) /\ e \in Accesses(t) /\ e \notin done /\ e[1] = t
    BY ActorOf DEF IInv, Performs
  <1>1. \A d : At(d)' = At(d)
    BY SamePrograms DEF Performs
  <1>2. SUFFICES ASSUME NEW d \in DOMAIN reg', NEW l \in {"x", "y"},
                        d[1] # "main", At(d).loc = l, reg'[d].val = 1
                 PROVE  Put(l, d[2])'
    BY <1>1 DEF Seen
  <1>3. CASE d = e
    <2>1. t \in Workers(cfg) /\ Performs(t, e)
      BY <1>0, <1>2, <1>3 DEF Actors
    <2>2. d \notin DOMAIN reg
      BY <1>0, <1>3 DEF Loaded
    <2>3. reg'[e] = mem[l]
      BY <1>2, <1>3, <2>2, RegsAfter
    <2>4. mem[l].val = IF Put(l, e[2]) THEN 1 ELSE 0
      BY <1>2, <1>3, <2>1, FreshData
    <2>5. Put(l, d[2])
      BY <1>2, <1>3, <2>3, <2>4
    <2>6. QED
      BY <2>5, PutStays
  <1>4. CASE d # e
    <2>1. d \in DOMAIN reg /\ reg'[d] = reg[d]
      BY <1>4, RegsAfter
    <2>2. Put(l, d[2])
      BY <1>2, <2>1 DEF Seen
    <2>3. QED
      BY <2>2, PutStays
  <1>5. QED
    BY <1>3, <1>4

\* A store of a register stores what the load of the round returned.
LEMMA StoredRegister ==
  ASSUME IInv, Loaded, NEW t \in Workers(cfg), NEW e, Performs(t, e),
         At(e).loc \in Kept(cfg, t), NEW d \in DOMAIN reg, d[1] = t, d[2] = e[2], At(d).r = At(e).r
  PROVE  mem'[At(e).loc].val = reg[d].val
  <1>0. /\ Programs /\ Closed /\ t \in Actors(cfg) /\ e \in Accesses(t) /\ e[1] = t
        /\ cfg.test \in {"mp", "sb", "wrc"} /\ DOMAIN mem = Locs
    BY ActorOf, LitmusAssumption DEF IInv, Performs, Programs, GateSignalled
  <1>1. At(e).op = "STR" /\ At(e).r # None /\ At(e).loc \in Locs
    <2>1. \A l \in Kept(cfg, t) : KeptReg(l) # None
      BY <1>0, RegOwner
    <2>2. At(e).loc \in Locs
      BY <1>0, LocsApart, WorkerAccesses
    <2>3. QED
      BY <1>0, <2>1, <2>2, WorkerData
  <1>2. Store(e) /\ ~Loads("STR")
    BY <1>1 DEF Performs, Load, Loads
  <1>3. mem'[At(e).loc].val = Register(t, e[2], At(e).r)
    BY <1>0, <1>1, <1>2 DEF Store
  <1>4. ASSUME NEW f \in DOMAIN reg, f[1] = t, f[2] = e[2], At(f).r = At(e).r
        PROVE  f = d
    <2>1. f \in Accesses(t) /\ d \in Accesses(t) /\ Loads(At(f).op) /\ Loads(At(d).op)
      BY <1>0, <1>4 DEF Loaded, Closed
    <2>2. QED
      BY <1>0, <1>1, <1>4, <2>1, SameLoad
  <1>5. (CHOOSE f \in DOMAIN reg : f[1] = t /\ f[2] = e[2] /\ At(f).r = At(e).r) = d
    BY <1>4
  <1>6. QED
    BY <1>3, <1>5 DEF Register

LEMMA ResultValueKept ==
  ASSUME IInv, Loaded, ResultValue, NEW t, NEW e, Performs(t, e)
  PROVE  ResultValue'
  <1>0. /\ Programs /\ Closed /\ t \in Actors(cfg) /\ e \in Accesses(t) /\ e \notin done
        /\ e[1] = t /\ done' = done \cup {e} /\ cfg' = cfg /\ Closed'
    BY ActorOf, ProgramsKept DEF IInv, Performs
  <1>1. (\A d : At(d)' = At(d)) /\ \A u : Accesses(u)' = Accesses(u)
    BY SamePrograms DEF Performs
  <1>2. SUFFICES ASSUME NEW u \in Workers(cfg), NEW k \in done', NEW d \in DOMAIN reg',
                        k[1] = u, d[1] = u, d[2] = k[2], At(k).loc \in Kept(cfg, u),
                        At(k).r = At(d).r, StartEv(u, k[2] + 1) \notin done'
                 PROVE  mem'[At(k).loc].val = reg'[d].val
    BY <1>0, <1>1 DEF ResultValue, StartEv
  <1>3. u \in Actors(cfg) /\ k \in Accesses(u) /\ At(k).loc \in Locs
    BY <1>0, <1>2, LocsApart, WorkerAccesses DEF Closed
  <1>4. At(k).op = "STR" /\ ~Loads("STR") /\ Stores("STR")
    BY <1>0, <1>2, <1>3, WorkerData DEF Loads, Stores
  <1>5. d # e
    <2>1. SUFFICES ASSUME d = e
                   PROVE  FALSE
      OBVIOUS
    <2>2. d \notin DOMAIN reg /\ Loads(At(d).op)
      BY <1>0, <2>1, RegsAfter DEF Loaded
    <2>3. k # e /\ k \in done
      BY <1>0, <1>2, <1>4, <2>1, <2>2
    <2>4. d \in order[u][k]
      BY <1>0, <1>2, <1>3, <2>1, <2>2, Depends
    <2>5. d \in done
      BY <1>0, <1>3, <2>3, <2>4, Down
    <2>6. QED
      BY <1>0, <2>1, <2>5
  <1>6. d \in DOMAIN reg /\ reg'[d] = reg[d]
    BY <1>5, RegsAfter
  <1>7. CASE k = e
    BY <1>0, <1>2, <1>6, <1>7, StoredRegister
  <1>8. CASE k # e
    <2>1. k \in done /\ StartEv(u, k[2] + 1) \notin done
      BY <1>0, <1>2, <1>8
    <2>2. mem[At(k).loc].val = reg[d].val
      BY <1>2, <1>6, <2>1 DEF ResultValue
    <2>3. CASE Stores(At(e).op) /\ At(e).loc = At(k).loc
      <3>1. t = u
        BY <1>0, <1>2, <2>3, Writers
      <3>2. mem'[At(k).loc].round = e[2]
        BY <1>0, <1>3, <2>3, Effects, LoadsOrStores
      <3>3. mem'[At(k).loc].round = k[2]
        <4>1. ResultFresh'
          BY ResultKept
        <4>2. QED
          BY <1>0, <1>1, <1>2, <4>1 DEF ResultFresh, StartEv
      <3>4. k = e
        BY <1>0, <1>2, <1>3, <2>3, <3>1, <3>2, <3>3, OneAccess
      <3>5. QED
        BY <1>8, <3>4
    <2>4. CASE ~(Stores(At(e).op) /\ At(e).loc = At(k).loc)
      <3>1. mem'[At(k).loc] = mem[At(k).loc]
        BY <1>0, <1>3, <2>4, Effects, LoadsOrStores
      <3>2. QED
        BY <1>6, <2>2, <3>1
    <2>5. QED
      BY <2>3, <2>4
  <1>9. QED
    BY <1>7, <1>8

\* main fetches a result when its worker has ended the round and not begun the next.
LEMMA FetchedInTime ==
  ASSUME IInv, NEW e, Performs("main", e), NEW u \in Workers(cfg), Before(JoinEv(u, e[2]), e)
  PROVE  JoinEv(u, e[2]) \in done /\ StartEv(u, e[2] + 1) \notin done
  <1>0. /\ Programs /\ Closed /\ Handshake /\ e \in Accesses("main") /\ e \notin done
        /\ order["main"][e] \subseteq done
    BY DEF IInv, Performs
  <1>1. e[2] \in Rounds /\ e[3] \in Nat
    BY <1>0, MainAccesses
  <1>2. JoinEv(u, e[2]) \in done
    BY <1>0, <1>1, MainOrder
  <1>3. SUFFICES ASSUME StartEv(u, e[2] + 1) \in done
                 PROVE  FALSE
    BY <1>2
  <1>4. StartEv(u, e[2] + 1)[1] = u /\ StartEv(u, e[2] + 1)[2] = e[2] + 1
    BY DEF StartEv
  <1>5. e[2] + 1 \in Rounds
    BY <1>0, <1>3, <1>4, WorkerAccesses DEF Closed
  <1>6. Before(e, OpenEv(e[2] + 1))
    <2>1. OpenEv(e[2] + 1)[2] = e[2] + 1
      BY DEF OpenEv
    <2>2. \A i \in Rounds : i < i + 1
      BY LitmusAssumption DEF Rounds
    <2>3. QED
      BY <1>1, <2>1, <2>2 DEF Before
  <1>7. QED
    BY <1>0, <1>3, <1>5, <1>6, Started

\* A load of main that fills a register fetches the result of a worker it waited for.
LEMMA Fetches ==
  ASSUME Programs, NEW f \in Accesses("main"), Loads(At(f).op), At(f).r # None
  PROVE  /\ At(f).r = KeptReg(At(f).loc)
         /\ \E u \in Workers(cfg) : At(f).loc \in Kept(cfg, u) /\ Before(JoinEv(u, f[2]), f)
  <1>1. ~Loads("STR") /\ ~Loads("STLR")
    BY DEF Loads
  <1>2. QED
    BY <1>1, MainKinds DEF Is

LEMMA FetchedKept ==
  ASSUME IInv, Loaded, ResultValue, Fetched, NEW t, NEW e, Performs(t, e)
  PROVE  Fetched'
  <1>0. /\ Programs /\ Closed /\ Handshake /\ t \in Actors(cfg) /\ e \in Accesses(t)
        /\ e \notin done /\ e[1] = t /\ done' = done \cup {e} /\ cfg' = cfg
        /\ cfg.test \in {"mp", "sb", "wrc"}
    BY ActorOf, LitmusAssumption DEF IInv, Performs, Programs
  <1>1. \A d : At(d)' = At(d)
    BY SamePrograms DEF Performs
  <1>2. SUFFICES ASSUME NEW f \in DOMAIN reg', NEW d \in DOMAIN reg', f[1] = "main",
                        d[1] # "main", f[2] = d[2], At(f).r # None, At(f).r = At(d).r
                 PROVE  reg'[f].val = reg'[d].val
    BY <1>1 DEF Fetched
  <1>3. /\ f = e \/ f \in DOMAIN reg
        /\ d = e \/ d \in DOMAIN reg
        /\ Loads(At(f).op) /\ Loads(At(d).op)
    BY RegsAfter DEF Loaded
  <1>4. f \in Accesses("main") /\ d[1] \in Workers(cfg) /\ d \in Accesses(d[1])
    BY <1>0, <1>2, <1>3 DEF Loaded, Closed, Actors
  <1>5. /\ At(f).r = KeptReg(At(f).loc)
        /\ \E v \in Workers(cfg) : At(f).loc \in Kept(cfg, v) /\ Before(JoinEv(v, f[2]), f)
    BY <1>0, <1>2, <1>3, <1>4, Fetches
  <1>6. PICK u \in Workers(cfg) : At(f).loc \in Kept(cfg, u) /\ Before(JoinEv(u, f[2]), f)
    BY <1>5
  <1>7. d[1] = u
    <2>1. PICK w \in Workers(cfg) : w = d[1]
      BY <1>4
    <2>2. At(d).loc \in Gets(cfg, w) /\ At(d).r = GetReg(cfg, w, At(d).loc)
      BY <1>0, <1>2, <1>3, <1>4, <2>1, SameLoad
    <2>3. \A l \in Kept(cfg, u), m \in Gets(cfg, w) : KeptReg(l) = GetReg(cfg, w, m) => w = u
      BY <1>0, RegOwner
    <2>4. QED
      BY <1>2, <1>5, <1>6, <2>1, <2>2, <2>3
  <1>8. f[2] \in Rounds /\ \A i \in Rounds : i <= i
    BY <1>0, <1>4, MainAccesses, LitmusAssumption DEF Rounds
  <1>9. CASE d = e
    <2>1. f \in done
      BY <1>2, <1>3, <1>9 DEF Loaded
    <2>2. JoinEv(u, f[2]) \in done
      BY <1>0, <1>4, <1>6, <1>8, <2>1, Awaited
    <2>3. d \in done
      BY <1>0, <1>2, <1>4, <1>7, <1>8, <2>2, Joined
    <2>4. QED
      BY <1>0, <1>9, <2>3
  <1>10. CASE f = e
    <2>1. d \in DOMAIN reg /\ reg'[d] = reg[d] /\ reg'[f] = mem[At(f).loc]
      BY <1>2, <1>3, <1>10, RegsAfter
    <2>2. t = "main"
      BY <1>0, <1>2, <1>10
    <2>3. JoinEv(u, f[2]) \in done /\ StartEv(u, f[2] + 1) \notin done
      BY <1>6, <1>10, <2>2, FetchedInTime
    <2>4. PICK k \in Accesses(u) : k[2] = f[2] /\ At(k).loc = At(f).loc
      <3>1. At(f).loc \in Touched(cfg, u)
        BY <1>6 DEF Touched
      <3>2. QED
        BY <1>0, <1>8, <3>1, SomeAccess
    <2>5. k \in done /\ k[1] = u
      BY <1>0, <1>8, <2>3, <2>4, Joined, ActorOf, WorkerAccesses
    <2>6. At(k).r = At(d).r
      BY <1>0, <1>2, <1>5, <1>6, <2>4, WorkerData
    <2>7. mem[At(k).loc].val = reg[d].val
      BY <1>2, <1>6, <1>7, <2>1, <2>3, <2>4, <2>5, <2>6 DEF ResultValue
    <2>8. QED
      BY <2>1, <2>4, <2>7
  <1>11. CASE f # e /\ d # e
    <2>1. f \in DOMAIN reg /\ reg'[f] = reg[f] /\ d \in DOMAIN reg /\ reg'[d] = reg[d]
      BY <1>3, <1>11, RegsAfter
    <2>2. QED
      BY <1>2, <2>1 DEF Fetched
  <1>12. QED
    BY <1>9, <1>10, <1>11

-----------------------------------------------------------------------------
(* The outcome of a round *)

\* Both workers of MP run in TSO mode.
Both == cfg.test = "mp" /\ tso["t0"] = "yes" /\ tso["t1"] = "yes"

\* The outcome of interest is excluded.
Guarded == Tight(cfg) \/ Both

\* What the registers say of MP, SB and WRC then.
MpOk == \A d, e \in DOMAIN reg :
          Takes(d, "t1", "y") /\ Takes(e, "t1", "x") /\ d[2] = e[2] /\ reg[d].val = 1
            => reg[e].val = 1
SbOk == \A d, e \in DOMAIN reg :
          Takes(d, "t0", "y") /\ Takes(e, "t1", "x") /\ d[2] = e[2]
            => reg[d].val = 1 \/ reg[e].val = 1
WrcOk == \A a, d, e \in DOMAIN reg :
           /\ Takes(a, "t1", "x") /\ Takes(d, "t2", "y") /\ Takes(e, "t2", "x")
           /\ a[2] = d[2] /\ d[2] = e[2] /\ reg[a].val = 1 /\ reg[d].val = 1
           => reg[e].val = 1

Outcome == Guarded => /\ cfg.test = "mp"  => MpOk
                      /\ cfg.test = "sb"  => SbOk
                      /\ cfg.test = "wrc" => WrcOk

\* A granted thread has the stronger order, and main counts the granted.
Yes(t) == IF tso[t] = "yes" THEN 1 ELSE 0
Granted ==
  /\ \A t \in Workers(cfg) : tso[t] = "yes" => order[t] = Order(t, TRUE)
  /\ cfg.test = "mp" => g_tso_granted = Yes("t0") + Yes("t1")
  /\ cfg.test = "mp" /\ report = "GRANTED" => Both

\* Its first data access is performed when the second is, or may be.
LEMMA FirstDone ==
  ASSUME Programs, Granted, Guarded, NEW t \in Workers(cfg), NEW e \in Accesses(t),
         order[t][e] \subseteq done, At(e).loc = Second(cfg, t),
         NEW d \in Accesses(t), d[2] = e[2], At(d).loc = First(cfg, t)
  PROVE  d \in done
  <1>1. Tight(cfg) \/ (cfg.test = "mp" /\ order[t] = Order(t, TRUE))
    <2>1. CASE Both
      <3>1. Workers(cfg) = {"t0", "t1"}
        BY <2>1 DEF Both, Workers
      <3>2. QED
        BY <2>1, <3>1 DEF Both, Granted
    <2>2. QED
      BY <2>1 DEF Guarded
  <1>2. d \in order[t][e]
    BY <1>1, Obeyed
  <1>3. QED
    BY <1>2

\* A load behind a store of its round returns the value stored.
LEMMA FreshLoad ==
  ASSUME IInv, DataValue, Loaded, NEW t \in Workers(cfg), NEW e, Performs(t, e),
         e \in DOMAIN reg', NEW l \in {"x", "y"}, At(e).loc = l, Put(l, e[2])
  PROVE  reg'[e].val = 1
  <1>1. e \notin DOMAIN reg
    BY DEF Performs, Loaded
  <1>2. Loads(At(e).op) /\ reg'[e] = mem[l]
    BY <1>1, RegsAfter
  <1>3. mem[l].val = IF Put(l, e[2]) THEN 1 ELSE 0
    BY FreshData
  <1>4. QED
    BY <1>2, <1>3

LEMMA MpKept ==
  ASSUME IInv, Granted, DataValue, Loaded, Seen, Guarded, cfg.test = "mp", MpOk,
         NEW t, NEW n, Performs(t, n)
  PROVE  MpOk'
  <1>0. /\ Programs /\ Closed /\ t \in Actors(cfg) /\ n \in Accesses(t) /\ n \notin done
        /\ order[t][n] \subseteq done /\ n[1] = t /\ Workers(cfg) = {"t0", "t1"}
    BY ActorOf DEF IInv, Performs, Workers
  <1>1. \A d : At(d)' = At(d)
    BY SamePrograms DEF Performs
  <1>2. SUFFICES ASSUME NEW d \in DOMAIN reg', NEW e \in DOMAIN reg', Takes(d, "t1", "y"),
                        Takes(e, "t1", "x"), d[2] = e[2], reg'[d].val = 1
                 PROVE  reg'[e].val = 1
    BY <1>1 DEF MpOk, Takes
  <1>3. (d = n \/ d \in DOMAIN reg) /\ (e = n \/ e \in DOMAIN reg)
    BY RegsAfter
  <1>4. d \in Accesses("t1") /\ e \in Accesses("t1")
    BY <1>0, <1>2, <1>3 DEF Takes, Loaded, Closed
  <1>5. First(cfg, "t1") = "y" /\ Second(cfg, "t1") = "x"
    BY DEF First, Second
  <1>6. d # e
    BY <1>2 DEF Takes
  <1>7. CASE d = n
    <2>1. e \in done /\ "t1" \in Actors(cfg)
      BY <1>0, <1>3, <1>6, <1>7 DEF Loaded, Actors
    <2>2. order["t1"][e] \subseteq done
      BY <1>0, <1>4, <2>1, Down
    <2>3. d \in done
      BY <1>0, <1>2, <1>4, <1>5, <2>2, FirstDone DEF Takes
    <2>4. QED
      BY <1>0, <1>7, <2>3
  <1>8. CASE e = n
    <2>1. d \in DOMAIN reg /\ reg[d].val = 1
      BY <1>2, <1>3, <1>6, <1>8, RegsAfter
    <2>2. Put("y", e[2])
      BY <1>2, <2>1 DEF Seen, Takes
    <2>3. Writer(cfg, "y") = "t0" /\ "x" \in Puts(cfg, "t0")
      BY DEF Writer, Puts
    <2>4. PICK w \in Accesses("t0") : w \in done /\ w[2] = e[2] /\ At(w).loc = "y"
      BY <1>0, <2>2, <2>3, PutBy
    <2>5. e[2] \in Rounds
      BY <1>0, <1>4, WorkerAccesses
    <2>6. PICK v \in Accesses("t0") : v[2] = e[2] /\ At(v).loc = "x"
      BY <1>0, <2>3, <2>5, SomeAccess DEF Touched
    <2>7. order["t0"][w] \subseteq done
      BY <1>0, <2>4, Down DEF Actors
    <2>8. First(cfg, "t0") = "x" /\ Second(cfg, "t0") = "y"
      BY DEF First, Second
    <2>9. v \in done
      BY <1>0, <2>4, <2>6, <2>7, <2>8, FirstDone
    <2>10. Put("x", e[2])
      BY <1>0, <2>3, <2>6, <2>9, PutDone
    <2>11. QED
      BY <1>0, <1>2, <1>8, <2>10, FreshLoad DEF Takes
  <1>9. CASE d # n /\ e # n
    <2>1. d \in DOMAIN reg /\ reg'[d] = reg[d] /\ e \in DOMAIN reg /\ reg'[e] = reg[e]
      BY <1>3, <1>9, RegsAfter
    <2>2. QED
      BY <1>2, <2>1 DEF MpOk
  <1>10. QED
    BY <1>7, <1>8, <1>9

LEMMA SbKept ==
  ASSUME IInv, Granted, DataValue, Loaded, Seen, Guarded, cfg.test = "sb", SbOk,
         NEW t, NEW n, Performs(t, n)
  PROVE  SbOk'
  <1>0. /\ Programs /\ Closed /\ t \in Actors(cfg) /\ n \in Accesses(t) /\ n \notin done
        /\ order[t][n] \subseteq done /\ n[1] = t /\ Workers(cfg) = {"t0", "t1"}
    BY ActorOf DEF IInv, Performs, Workers
  <1>1. \A d : At(d)' = At(d)
    BY SamePrograms DEF Performs
  <1>2. SUFFICES ASSUME NEW d \in DOMAIN reg', NEW e \in DOMAIN reg', Takes(d, "t0", "y"),
                        Takes(e, "t1", "x"), d[2] = e[2]
                 PROVE  reg'[d].val = 1 \/ reg'[e].val = 1
    BY <1>1 DEF SbOk, Takes
  <1>3. (d = n \/ d \in DOMAIN reg) /\ (e = n \/ e \in DOMAIN reg)
    BY RegsAfter
  <1>4. d \in Accesses("t0") /\ e \in Accesses("t1") /\ d # e
    BY <1>0, <1>2, <1>3 DEF Takes, Loaded, Closed
  <1>5. /\ First(cfg, "t0") = "x" /\ Second(cfg, "t0") = "y" /\ "x" \in Puts(cfg, "t0")
        /\ First(cfg, "t1") = "y" /\ Second(cfg, "t1") = "x" /\ "y" \in Puts(cfg, "t1")
    BY DEF First, Second, Puts, Writer
  <1>6. e[2] \in Rounds
    BY <1>0, <1>4, WorkerAccesses
  <1>7. CASE d = n
    <2>1. e \in done
      BY <1>3, <1>4, <1>7 DEF Loaded
    <2>2. order["t1"][e] \subseteq done
      BY <1>0, <1>4, <2>1, Down DEF Actors
    <2>3. PICK v \in Accesses("t1") : v[2] = e[2] /\ At(v).loc = "y"
      BY <1>0, <1>5, <1>6, SomeAccess DEF Touched
    <2>4. v \in done
      BY <1>0, <1>2, <1>4, <1>5, <2>2, <2>3, FirstDone DEF Takes
    <2>5. Put("y", d[2])
      BY <1>0, <1>2, <1>5, <2>3, <2>4, PutDone
    <2>6. QED
      BY <1>0, <1>2, <1>7, <2>5, FreshLoad DEF Takes
  <1>8. CASE e = n
    <2>1. d \in done
      BY <1>3, <1>4, <1>8 DEF Loaded
    <2>2. order["t0"][d] \subseteq done
      BY <1>0, <1>4, <2>1, Down DEF Actors
    <2>3. PICK v \in Accesses("t0") : v[2] = d[2] /\ At(v).loc = "x"
      BY <1>0, <1>2, <1>5, <1>6, SomeAccess DEF Touched
    <2>4. v \in done
      BY <1>0, <1>2, <1>4, <1>5, <2>2, <2>3, FirstDone DEF Takes
    <2>5. Put("x", e[2])
      BY <1>0, <1>2, <1>5, <2>3, <2>4, PutDone
    <2>6. QED
      BY <1>0, <1>2, <1>8, <2>5, FreshLoad DEF Takes
  <1>9. CASE d # n /\ e # n
    <2>1. d \in DOMAIN reg /\ reg'[d] = reg[d] /\ e \in DOMAIN reg /\ reg'[e] = reg[e]
      BY <1>3, <1>9, RegsAfter
    <2>2. QED
      BY <1>2, <2>1 DEF SbOk
  <1>10. QED
    BY <1>7, <1>8, <1>9

LEMMA WrcKept ==
  ASSUME IInv, Granted, DataValue, Loaded, Seen, Guarded, cfg.test = "wrc", WrcOk,
         NEW t, NEW n, Performs(t, n)
  PROVE  WrcOk'
  <1>0. /\ Programs /\ Closed /\ t \in Actors(cfg) /\ n \in Accesses(t) /\ n \notin done
        /\ order[t][n] \subseteq done /\ n[1] = t /\ Workers(cfg) = {"t0", "t1", "t2"}
    BY ActorOf DEF IInv, Performs, Workers
  <1>1. \A d : At(d)' = At(d)
    BY SamePrograms DEF Performs
  <1>2. SUFFICES ASSUME NEW a \in DOMAIN reg', NEW d \in DOMAIN reg', NEW e \in DOMAIN reg',
                        Takes(a, "t1", "x"), Takes(d, "t2", "y"), Takes(e, "t2", "x"),
                        a[2] = d[2], d[2] = e[2], reg'[a].val = 1, reg'[d].val = 1
                 PROVE  reg'[e].val = 1
    BY <1>1 DEF WrcOk, Takes
  <1>3. /\ a = n \/ a \in DOMAIN reg
        /\ d = n \/ d \in DOMAIN reg
        /\ e = n \/ e \in DOMAIN reg
    BY RegsAfter
  <1>4. /\ a \in Accesses("t1") /\ d \in Accesses("t2") /\ e \in Accesses("t2")
        /\ a # d /\ a # e /\ d # e
    BY <1>0, <1>2, <1>3 DEF Takes, Loaded, Closed
  <1>5. /\ First(cfg, "t1") = "x" /\ Second(cfg, "t1") = "y" /\ Writer(cfg, "y") = "t1"
        /\ First(cfg, "t2") = "y" /\ Second(cfg, "t2") = "x"
    BY DEF First, Second, Writer
  <1>6. CASE a = n
    <2>1. d \in DOMAIN reg /\ reg[d].val = 1
      BY <1>2, <1>3, <1>4, <1>6, RegsAfter
    <2>2. Put("y", a[2])
      BY <1>2, <2>1 DEF Seen, Takes
    <2>3. PICK w \in Accesses("t1") : w \in done /\ w[2] = a[2] /\ At(w).loc = "y"
      BY <1>0, <1>5, <2>2, PutBy
    <2>4. order["t1"][w] \subseteq done
      BY <1>0, <2>3, Down DEF Actors
    <2>5. a \in done
      BY <1>0, <1>2, <1>4, <1>5, <2>3, <2>4, FirstDone DEF Takes
    <2>6. QED
      BY <1>0, <1>6, <2>5
  <1>7. CASE d = n
    <2>1. e \in done
      BY <1>3, <1>4, <1>7 DEF Loaded
    <2>2. order["t2"][e] \subseteq done
      BY <1>0, <1>4, <2>1, Down DEF Actors
    <2>3. d \in done
      BY <1>0, <1>2, <1>4, <1>5, <2>2, FirstDone DEF Takes
    <2>4. QED
      BY <1>0, <1>7, <2>3
  <1>8. CASE e = n
    <2>1. a \in DOMAIN reg /\ reg[a].val = 1
      BY <1>2, <1>3, <1>4, <1>8, RegsAfter
    <2>2. Put("x", e[2])
      BY <1>2, <2>1 DEF Seen, Takes
    <2>3. QED
      BY <1>0, <1>2, <1>8, <2>2, FreshLoad DEF Takes
  <1>9. CASE a # n /\ d # n /\ e # n
    <2>1. /\ a \in DOMAIN reg /\ reg'[a] = reg[a] /\ d \in DOMAIN reg /\ reg'[d] = reg[d]
          /\ e \in DOMAIN reg /\ reg'[e] = reg[e]
      BY <1>3, <1>9, RegsAfter
    <2>2. QED
      BY <1>2, <2>1 DEF WrcOk
  <1>10. QED
    BY <1>6, <1>7, <1>8, <1>9

-----------------------------------------------------------------------------
(* The verdicts *)

\* main has counted the rounds it has done with, and none of them if the outcome is
\* excluded.
Counted ==
  /\ total \in 0..Iters /\ witnesses \in 0..total
  /\ \A e \in Accesses("main") : e[2] <= total => e \in done
  /\ Guarded => witnesses = 0

VInv == DataValue /\ Loaded /\ Seen /\ ResultValue /\ Fetched /\ Granted /\ Outcome /\ Counted

LEMMA InitVInv == Init => VInv
  <1> SUFFICES ASSUME Init
               PROVE  VInv
    OBVIOUS
  <1>1. done = {} /\ DOMAIN reg = {} /\ total = 0 /\ witnesses = 0 /\ report = "none"
    BY DEF Init, None
  <1>2. DataValue /\ Loaded /\ Seen /\ ResultValue /\ Fetched /\ Outcome
    BY <1>1 DEF DataValue, Loaded, Seen, ResultValue, Fetched, Outcome, MpOk, SbOk, WrcOk
  <1>3. \A t \in Actors(cfg) : tso[t] # "yes"
    BY DEF Init
  <1>4. Granted
    <2>1. "t0" \in Actors(cfg) /\ "t1" \in Actors(cfg) /\ Workers(cfg) \subseteq Actors(cfg)
      BY DEF Actors, Workers
    <2>2. g_tso_granted = 0 /\ Yes("t0") = 0 /\ Yes("t1") = 0
      BY <1>3, <2>1 DEF Init, Yes
    <2>3. g_tso_granted = Yes("t0") + Yes("t1")
      BY <2>2
    <2>4. QED
      BY <1>1, <1>3, <2>1, <2>3 DEF Granted
  <1>5. Counted
    <2>1. Programs
      BY InitInv DEF IInv
    <2>2. \A e \in Accesses("main") : e[2] \in Rounds
      BY <2>1, MainAccesses
    <2>3. \A i \in Rounds : ~(i <= 0)
      BY LitmusAssumption DEF Rounds
    <2>4. 0 \in 0..Iters /\ 0 \in 0..0
      BY LitmusAssumption
    <2>5. QED
      BY <1>1, <2>2, <2>3, <2>4 DEF Counted
  <1>6. QED
    BY <1>2, <1>4, <1>5 DEF VInv

\* The values stay as they are when no access is performed.
LEMMA ValuesStay ==
  ASSUME UNCHANGED <<cfg, prog, mem, done>>,
         \A d \in DOMAIN reg' : d \in DOMAIN reg /\ reg'[d] = reg[d]
  PROVE  /\ DataValue => DataValue'
         /\ Seen => Seen'
         /\ ResultValue => ResultValue'
         /\ Fetched => Fetched'
         /\ MpOk => MpOk'
         /\ SbOk => SbOk'
         /\ WrcOk => WrcOk'
         /\ \A l, i : Put(l, i)' <=> Put(l, i)
  <1>1. cfg' = cfg /\ prog' = prog /\ mem' = mem /\ done' = done
    OBVIOUS
  <1>2. \A d : At(d)' = At(d)
    BY <1>1, SamePrograms
  <1>3. \A l, i : Put(l, i)' <=> Put(l, i)
    BY <1>1, <1>2 DEF Put
  <1>4. DataValue => DataValue'
    BY <1>1, <1>3 DEF DataValue, ResetEv
  <1>5. Seen => Seen'
    BY <1>2, <1>3 DEF Seen
  <1>6. ResultValue => ResultValue'
    BY <1>1, <1>2 DEF ResultValue, StartEv
  <1>7. Fetched => Fetched'
    BY <1>2 DEF Fetched
  <1>8. (MpOk => MpOk') /\ (SbOk => SbOk') /\ (WrcOk => WrcOk')
    BY <1>2 DEF MpOk, SbOk, WrcOk, Takes
  <1>9. QED
    BY <1>3, <1>4, <1>5, <1>6, <1>7, <1>8

LEMMA AccessV ==
  ASSUME IInv, VInv, NEW t \in Actors(cfg), Access(t)
  PROVE  VInv'
  <1>1. PICK e : Performs(t, e)
    BY AccessPerforms
  <1>2. /\ cfg' = cfg /\ prog' = prog /\ order' = order /\ tso' = tso /\ done' = done \cup {e}
        /\ total' = total /\ witnesses' = witnesses /\ report' = report
        /\ g_tso_granted' = g_tso_granted
    BY <1>1 DEF Performs, Access
  <1>3. DataValue' /\ Loaded' /\ Seen' /\ ResultValue' /\ Fetched'
    BY <1>1, <1>2, DataValueKept, LoadedKept, SeenKept, ResultValueKept, FetchedKept DEF VInv
  <1>4. (\A u, s : Order(u, s)' = Order(u, s)) /\ \A u : Accesses(u)' = Accesses(u)
    BY <1>2, SamePrograms
  <1>5. (Both' <=> Both) /\ (Guarded' <=> Guarded) /\ \A u : Yes(u)' = Yes(u)
    BY <1>2 DEF Both, Guarded, Yes
  <1>6. Granted'
    BY <1>2, <1>4, <1>5 DEF VInv, Granted
  <1>7. Outcome'
    BY <1>1, <1>2, <1>5, MpKept, SbKept, WrcKept DEF VInv, Outcome
  <1>8. Counted'
    BY <1>2, <1>4, <1>5 DEF VInv, Counted
  <1>9. QED
    BY <1>3, <1>6, <1>7, <1>8 DEF VInv

\* A thread that asks has done nothing yet, and so nothing has been evaluated.
LEMMA TsoV ==
  ASSUME IInv, VInv, NEW t \in Workers(cfg), try_request_tso(t)
  PROVE  VInv'
  <1>0. /\ Programs /\ Closed /\ Handshake /\ tso[t] = "ask"
        /\ cfg' = cfg /\ prog' = prog /\ done' = done /\ mem' = mem /\ reg' = reg
        /\ total' = total /\ witnesses' = witnesses /\ report' = report
    BY DEF IInv, try_request_tso
  <1>1. /\ \A d : At(d)' = At(d)
        /\ \A u : Accesses(u)' = Accesses(u)
        /\ \A u, s : Order(u, s)' = Order(u, s)
    BY <1>0, SamePrograms
  <1>2. t \in Actors(cfg) /\ \A d \in done : d[1] # t
    BY <1>0 DEF Programs, Actors
  <1>3. /\ DataValue' /\ Seen' /\ ResultValue' /\ Fetched'
        /\ MpOk => MpOk'
        /\ SbOk => SbOk'
        /\ WrcOk => WrcOk'
    BY <1>0, ValuesStay DEF VInv
  <1>4. Loaded'
    BY <1>0, <1>1 DEF VInv, Loaded
  <1>5. DOMAIN order = Actors(cfg) /\ DOMAIN tso = Actors(cfg) /\ Workers(cfg) \subseteq Actors(cfg)
    BY <1>0 DEF Programs, Actors
  <1>6. /\ \/ tso'[t] = "yes" /\ order'[t] = Order(t, TRUE) /\ g_tso_granted' = g_tso_granted + 1
           \/ tso'[t] = "denied" /\ order'[t] = order[t] /\ g_tso_granted' = g_tso_granted
        /\ \A u \in Actors(cfg) : u # t => order'[u] = order[u] /\ tso'[u] = tso[u]
    BY <1>2, <1>5 DEF try_request_tso
  <1>7. Both => Both'
    <2>1. Both => t \in {"t0", "t1"}
      BY DEF Both, Workers
    <2>2. QED
      BY <1>0, <2>1 DEF Both
  <1>8. Granted'
    <2>1. \A u \in Workers(cfg) : tso'[u] = "yes" => order'[u] = Order(u, TRUE)'
      BY <1>1, <1>5, <1>6 DEF VInv, Granted
    <2>2. ASSUME cfg.test = "mp"
          PROVE  g_tso_granted' = Yes("t0")' + Yes("t1")'
      <3>1. Workers(cfg) = {"t0", "t1"} /\ "t0" \in Actors(cfg) /\ "t1" \in Actors(cfg)
        BY <2>2 DEF Workers, Actors
      <3>2. g_tso_granted = Yes("t0") + Yes("t1")
        BY <2>2 DEF VInv, Granted
      <3>3. \A u \in {"t0", "t1"} : u # t => Yes(u)' = Yes(u)
        BY <1>6, <3>1 DEF Yes
      <3>4. \A u \in {"t0", "t1"} : u = t =>
              /\ Yes(u) = 0
              /\ \/ Yes(u)' = 1 /\ g_tso_granted' = g_tso_granted + 1
                 \/ Yes(u)' = 0 /\ g_tso_granted' = g_tso_granted
        BY <1>0, <1>6 DEF Yes
      <3>5. \A u \in {"t0", "t1"} : Yes(u) \in {0, 1}
        BY DEF Yes
      <3>6. CASE t = "t0"
        <4>1. PICK n \in {0, 1} : n = Yes("t1")
          BY <3>5
        <4>2. g_tso_granted = n /\ Yes("t1")' = n
          BY <3>2, <3>3, <3>4, <3>6, <4>1
        <4>3. QED
          BY <3>4, <3>6, <4>2
      <3>7. CASE t = "t1"
        <4>1. PICK n \in {0, 1} : n = Yes("t0")
          BY <3>5
        <4>2. g_tso_granted = n /\ Yes("t0")' = n
          BY <3>2, <3>3, <3>4, <3>7, <4>1
        <4>3. QED
          BY <3>4, <3>7, <4>2
      <3>8. QED
        BY <3>1, <3>6, <3>7
    <2>3. cfg.test = "mp" /\ report = "GRANTED" => Both'
      BY <1>7 DEF VInv, Granted
    <2>4. QED
      BY <1>0, <2>1, <2>2, <2>3 DEF Granted
  <1>9. Outcome'
    <2>1. CASE Guarded
      BY <1>0, <1>3, <2>1 DEF VInv, Outcome
    <2>2. CASE ~Guarded
      <3>1. SUFFICES ASSUME Guarded'
                     PROVE  cfg.test = "mp" /\ MpOk'
        BY <1>0 DEF Outcome
      <3>2. cfg.test = "mp" /\ ~Tight(cfg)
        BY <1>0, <2>2, <3>1 DEF Guarded, Both
      <3>3. Workers(cfg) = {"t0", "t1"}
        BY <3>2 DEF Workers
      <3>4. SUFFICES ASSUME NEW d \in DOMAIN reg, Takes(d, "t1", "y"), reg[d].val = 1
                     PROVE  FALSE
        BY <1>0, <1>1, <3>2 DEF MpOk, Takes
      <3>5. d \in done
        BY DEF VInv, Loaded
      <3>6. t = "t0"
        BY <1>2, <3>3, <3>4, <3>5 DEF Takes
      <3>7. Put("y", d[2])
        BY <3>4 DEF VInv, Seen, Takes
      <3>8. Writer(cfg, "y") = "t0"
        BY <3>2 DEF Writer
      <3>9. PICK w \in Accesses("t0") : w \in done
        BY <1>0, <3>7, <3>8, PutBy
      <3>10. w[1] = "t0"
        BY <1>0, <1>2, <3>6, ActorOf
      <3>11. QED
        BY <1>2, <3>6, <3>9, <3>10
    <2>3. QED
      BY <2>1, <2>2
  <1>10. Counted'
    <2>1. total = 0
      <3>1. SUFFICES ASSUME total # 0
                     PROVE  FALSE
        OBVIOUS
      <3>2. 1 \in Rounds /\ 1 <= total
        BY <3>1, LitmusAssumption DEF VInv, Counted, Rounds
      <3>3. JoinEv(t, 1) \in Accesses("main") /\ JoinEv(t, 1)[2] = 1
        BY <1>0, <3>2, MainAccesses DEF JoinEv
      <3>4. JoinEv(t, 1) \in done
        BY <3>2, <3>3 DEF VInv, Counted
      <3>5. EndEv(t, 1) \in done
        BY <1>0, <3>2, <3>4 DEF Handshake
      <3>6. EndEv(t, 1)[1] = t
        BY DEF EndEv
      <3>7. QED
        BY <1>2, <3>5, <3>6
    <2>2. witnesses = 0
      BY <2>1 DEF VInv, Counted
    <2>3. QED
      BY <1>0, <1>1, <2>2 DEF VInv, Counted
  <1>11. QED
    BY <1>3, <1>4, <1>8, <1>9, <1>10 DEF VInv

\* What main has in register r of round i is what worker u took of m.
LEMMA RegisterOf ==
  ASSUME IInv, Loaded, Fetched, NEW i \in Rounds, i > total,
         \A e \in Accesses("main") : e[2] = i => e \in done,
         NEW u \in Workers(cfg), NEW l \in Kept(cfg, u), NEW m \in Gets(cfg, u),
         NEW r, r = KeptReg(l), r = GetReg(cfg, u, m)
  PROVE  \E d \in DOMAIN reg : /\ Takes(d, u, m) /\ d[2] = i
                               /\ Register("main", i, r) = reg[d].val
  <1>0. /\ Programs /\ Closed /\ Handshake /\ cfg.test \in {"mp", "sb", "wrc"}
        /\ u \in Actors(cfg) /\ "main" \in Actors(cfg) /\ u # "main" /\ r # None
    <2>1. Programs /\ Closed /\ Handshake /\ cfg.test \in {"mp", "sb", "wrc"}
      BY LitmusAssumption DEF IInv, Programs
    <2>2. \A v \in Kept(cfg, u) : KeptReg(v) # None
      BY <2>1, RegOwner
    <2>3. QED
      BY <2>1, <2>2 DEF Actors, Workers
  <1>1. PICK f \in Accesses("main") : f[2] = i /\ At(f).op = "LDR" /\ At(f).loc = l
    BY <1>0, MainAccesses
  <1>2. f \in DOMAIN reg /\ f[1] = "main" /\ At(f).r = r
    <2>1. f \in done /\ Loads(At(f).op)
      BY <1>1 DEF Loads
    <2>2. At(f).r = r
      BY <1>0, <1>1, MainKinds DEF Is
    <2>3. QED
      BY <1>0, <1>1, <2>1, <2>2, ActorOf DEF Loaded
  <1> DEFINE c == CHOOSE e \in DOMAIN reg : e[1] = "main" /\ e[2] = i /\ At(e).r = r
  <1>3. c \in DOMAIN reg /\ c[1] = "main" /\ c[2] = i /\ At(c).r = r
    BY <1>1, <1>2
  <1>4. Register("main", i, r) = reg[c].val
    BY DEF Register
  <1> HIDE DEF c
  <1>5. PICK d \in Accesses(u) : d[2] = i /\ At(d).loc = m
    BY <1>0, SomeAccess DEF Touched
  <1>6. d \in done
    <2>1. JoinEv(u, i) \in Accesses("main") /\ JoinEv(u, i)[2] = i
      BY <1>0, MainAccesses DEF JoinEv
    <2>2. JoinEv(u, i) \in done /\ i <= i
      BY <2>1, LitmusAssumption DEF Rounds
    <2>3. QED
      BY <1>0, <1>5, <2>2, Joined
  <1>7. Loads(At(d).op) /\ At(d).r = r
    <2>1. m \in {"x", "y"} /\ m \notin Puts(cfg, u)
      BY <1>0, <1>5, WorkerData DEF Gets
    <2>2. QED
      BY <1>0, <1>5, <2>1, WorkerData
  <1>8. d \in DOMAIN reg /\ d[1] = u
    BY <1>0, <1>5, <1>6, <1>7, ActorOf DEF Loaded
  <1>9. reg[c].val = reg[d].val
    BY <1>0, <1>3, <1>5, <1>7, <1>8 DEF Fetched
  <1>10. QED
    BY <1>4, <1>5, <1>8, <1>9 DEF Takes

\* An excluded outcome is in no round that main has the registers of.
LEMMA NoWitness ==
  ASSUME IInv, VInv, Guarded, NEW i \in Rounds, i > total,
         \A e \in Accesses("main") : e[2] = i => e \in done
  PROVE  ~Witness(i)
  <1>1. cfg.test \in {"mp", "sb", "wrc"}
    BY LitmusAssumption DEF IInv, Programs
  <1>2. Loaded /\ Fetched
    BY DEF VInv
  <1>3. CASE cfg.test = "mp"
    <2>1. /\ "t1" \in Workers(cfg) /\ "t1_a" \in Kept(cfg, "t1") /\ "t1_b" \in Kept(cfg, "t1")
          /\ "x" \in Gets(cfg, "t1") /\ "y" \in Gets(cfg, "t1")
          /\ KeptReg("t1_a") = "r1" /\ GetReg(cfg, "t1", "y") = "r1"
          /\ KeptReg("t1_b") = "r2" /\ GetReg(cfg, "t1", "x") = "r2"
      BY <1>3 DEF Workers, Kept, Gets, KeptReg, GetReg
    <2>2. PICK d \in DOMAIN reg : /\ Takes(d, "t1", "y") /\ d[2] = i
                                  /\ Register("main", i, "r1") = reg[d].val
      BY <1>2, <2>1, RegisterOf
    <2>3. PICK e \in DOMAIN reg : /\ Takes(e, "t1", "x") /\ e[2] = i
                                  /\ Register("main", i, "r2") = reg[e].val
      BY <1>2, <2>1, RegisterOf
    <2>4. MpOk
      BY <1>3 DEF VInv, Outcome
    <2>5. reg[d].val = 1 => reg[e].val = 1
      BY <2>2, <2>3, <2>4 DEF MpOk
    <2>6. ~(Register("main", i, "r1") = 1 /\ Register("main", i, "r2") = 0)
      BY <2>2, <2>3, <2>5
    <2>7. QED
      BY <1>3, <2>6, Zenon DEF Witness
  <1>4. CASE cfg.test = "sb"
    <2>1. /\ "t0" \in Workers(cfg) /\ "t0_a" \in Kept(cfg, "t0") /\ "y" \in Gets(cfg, "t0")
          /\ "t1" \in Workers(cfg) /\ "t1_a" \in Kept(cfg, "t1") /\ "x" \in Gets(cfg, "t1")
          /\ KeptReg("t0_a") = "r0" /\ GetReg(cfg, "t0", "y") = "r0"
          /\ KeptReg("t1_a") = "r1" /\ GetReg(cfg, "t1", "x") = "r1"
      BY <1>4 DEF Workers, Kept, Gets, KeptReg, GetReg
    <2>2. PICK d \in DOMAIN reg : /\ Takes(d, "t0", "y") /\ d[2] = i
                                  /\ Register("main", i, "r0") = reg[d].val
      BY <1>2, <2>1, RegisterOf
    <2>3. PICK e \in DOMAIN reg : /\ Takes(e, "t1", "x") /\ e[2] = i
                                  /\ Register("main", i, "r1") = reg[e].val
      BY <1>2, <2>1, RegisterOf
    <2>4. SbOk
      BY <1>4 DEF VInv, Outcome
    <2>5. reg[d].val = 1 \/ reg[e].val = 1
      BY <2>2, <2>3, <2>4 DEF SbOk
    <2>6. ~(Register("main", i, "r0") = 0 /\ Register("main", i, "r1") = 0)
      BY <2>2, <2>3, <2>5
    <2>7. QED
      BY <1>4, <2>6, Zenon DEF Witness
  <1>5. CASE cfg.test = "wrc"
    <2>1. /\ "t1" \in Workers(cfg) /\ "t1_a" \in Kept(cfg, "t1") /\ "x" \in Gets(cfg, "t1")
          /\ "t2" \in Workers(cfg) /\ "t2_a" \in Kept(cfg, "t2") /\ "t2_b" \in Kept(cfg, "t2")
          /\ "x" \in Gets(cfg, "t2") /\ "y" \in Gets(cfg, "t2")
          /\ KeptReg("t1_a") = "r1" /\ GetReg(cfg, "t1", "x") = "r1"
          /\ KeptReg("t2_a") = "r2" /\ GetReg(cfg, "t2", "y") = "r2"
          /\ KeptReg("t2_b") = "r3" /\ GetReg(cfg, "t2", "x") = "r3"
      BY <1>5 DEF Workers, Kept, Gets, KeptReg, GetReg
    <2>2. PICK a \in DOMAIN reg : /\ Takes(a, "t1", "x") /\ a[2] = i
                                  /\ Register("main", i, "r1") = reg[a].val
      BY <1>2, <2>1, RegisterOf
    <2>3. PICK d \in DOMAIN reg : /\ Takes(d, "t2", "y") /\ d[2] = i
                                  /\ Register("main", i, "r2") = reg[d].val
      BY <1>2, <2>1, RegisterOf
    <2>4. PICK e \in DOMAIN reg : /\ Takes(e, "t2", "x") /\ e[2] = i
                                  /\ Register("main", i, "r3") = reg[e].val
      BY <1>2, <2>1, RegisterOf
    <2>5. WrcOk
      BY <1>5 DEF VInv, Outcome
    <2>6. reg[a].val = 1 /\ reg[d].val = 1 => reg[e].val = 1
      BY <2>2, <2>3, <2>4, <2>5 DEF WrcOk
    <2>7. ~(/\ Register("main", i, "r1") = 1 /\ Register("main", i, "r2") = 1
            /\ Register("main", i, "r3") = 0)
      BY <2>2, <2>3, <2>4, <2>6
    <2>8. QED
      BY <1>5, <2>7, Zenon DEF Witness
  <1>6. QED
    BY <1>1, <1>3, <1>4, <1>5

LEMMA EvaluateV ==
  ASSUME IInv, VInv, Evaluate
  PROVE  VInv'
  <1>0. /\ Programs /\ cfg' = cfg /\ prog' = prog /\ order' = order /\ tso' = tso /\ mem' = mem
        /\ done' = done /\ g_tso_granted' = g_tso_granted /\ report' = report
        /\ total' = total + 1 /\ total < Iters /\ total \in Nat
    BY LitmusAssumption DEF IInv, VInv, Counted, Evaluate
  <1>1. /\ \A d : At(d)' = At(d)
        /\ \A u : Accesses(u)' = Accesses(u)
        /\ \A u, s : Order(u, s)' = Order(u, s)
    BY <1>0, SamePrograms
  <1>2. /\ \A d \in DOMAIN reg' : d \in DOMAIN reg /\ reg'[d] = reg[d]
        /\ \A d \in DOMAIN reg : d[2] > total + 1 => d \in DOMAIN reg'
    BY DEF Evaluate
  <1>3. /\ DataValue' /\ Seen' /\ ResultValue' /\ Fetched'
        /\ MpOk => MpOk'
        /\ SbOk => SbOk'
        /\ WrcOk => WrcOk'
    BY <1>0, <1>2, ValuesStay DEF VInv
  <1>4. \A e \in Accesses("main") : e[2] = total + 1 => e \in done
    <2>1. DOMAIN order["main"] = Accesses("main")
      <3>1. \A s \in BOOLEAN : DOMAIN Order("main", s) = Accesses("main")
        BY DEF Order
      <3>2. order["main"] = Order("main", TRUE) \/ order["main"] = Order("main", FALSE)
        BY <1>0 DEF Programs, Actors
      <3>3. QED
        BY <3>1, <3>2
    <2>2. QED
      BY <2>1 DEF Evaluate, Pending
  <1>5. Loaded'
    <2>1. \A e \in DOMAIN reg' : e \in done' /\ Loads(At(e)'.op)
      BY <1>0, <1>1, <1>2 DEF VInv, Loaded
    <2>2. ASSUME NEW e \in done, Loads(At(e).op), e[2] > total + 1
          PROVE  e \in DOMAIN reg'
      <3>1. e[2] \in Rounds
        <4>1. e[1] \in Actors(cfg) /\ e \in Accesses(e[1])
          BY DEF IInv, Closed
        <4>2. QED
          BY <1>0, <4>1, EventShape DEF Accesses
      <3>2. e[2] > total
        BY <1>0, <2>2, <3>1, LitmusAssumption DEF Rounds
      <3>3. QED
        BY <1>2, <2>2, <3>2 DEF VInv, Loaded
    <2>3. QED
      BY <1>0, <1>1, <2>1, <2>2 DEF Loaded
  <1>6. (Both' <=> Both) /\ (Guarded' <=> Guarded) /\ \A u : Yes(u)' = Yes(u)
    BY <1>0 DEF Both, Guarded, Yes
  <1>7. Granted'
    BY <1>0, <1>1, <1>6 DEF VInv, Granted
  <1>8. Outcome'
    BY <1>0, <1>3, <1>6 DEF VInv, Outcome
  <1>9. Counted'
    <2>1. total + 1 \in Rounds /\ total + 1 > total
      BY <1>0, LitmusAssumption DEF Rounds
    <2>2. Guarded => ~Witness(total + 1)
      BY <1>4, <2>1, NoWitness
    <2>3. /\ witnesses \in Nat /\ witnesses <= total
          /\ witnesses' = witnesses \/ witnesses' = witnesses + 1
      BY <1>0 DEF VInv, Counted, Evaluate
    <2>4. Guarded => witnesses' = 0
      BY <2>2 DEF VInv, Counted, Evaluate
    <2>5. \A e \in Accesses("main") : e[2] <= total + 1 => e \in done
      <3>1. \A e \in Accesses("main") : e[2] \in Rounds
        BY <1>0, MainAccesses
      <3>2. \A j \in Rounds : j <= total + 1 => j = total + 1 \/ j <= total
        BY <1>0, LitmusAssumption DEF Rounds
      <3>3. QED
        BY <1>4, <3>1, <3>2 DEF VInv, Counted
    <2>6. total' \in 0..Iters /\ witnesses' \in 0..total'
      BY <1>0, <2>3, LitmusAssumption
    <2>7. QED
      BY <1>0, <1>1, <1>6, <2>4, <2>5, <2>6 DEF Counted
  <1>10. QED
    BY <1>3, <1>5, <1>7, <1>8, <1>9 DEF VInv

\* The steps that touch neither the memory nor the counts; the report says GRANTED
\* only when both workers of MP are in TSO mode.
LEMMA OtherV ==
  ASSUME VInv,
         UNCHANGED <<cfg, prog, order, tso, g_tso_granted, mem, done, reg, witnesses, total>>,
         report' = report \/ (report' = "GRANTED" => g_tso_granted = 2)
  PROVE  VInv'
  <1>0. /\ cfg' = cfg /\ prog' = prog /\ order' = order /\ tso' = tso /\ mem' = mem
        /\ done' = done /\ reg' = reg /\ g_tso_granted' = g_tso_granted
        /\ total' = total /\ witnesses' = witnesses
    OBVIOUS
  <1>1. /\ \A d : At(d)' = At(d)
        /\ \A u : Accesses(u)' = Accesses(u)
        /\ \A u, s : Order(u, s)' = Order(u, s)
    BY <1>0, SamePrograms
  <1>2. /\ DataValue' /\ Seen' /\ ResultValue' /\ Fetched'
        /\ MpOk => MpOk'
        /\ SbOk => SbOk'
        /\ WrcOk => WrcOk'
    BY <1>0, ValuesStay DEF VInv
  <1>3. Loaded'
    BY <1>0, <1>1 DEF VInv, Loaded
  <1>4. (Both' <=> Both) /\ (Guarded' <=> Guarded) /\ \A u : Yes(u)' = Yes(u)
    BY <1>0 DEF Both, Guarded, Yes
  <1>5. Granted'
    <2>1. ASSUME cfg.test = "mp", report' = "GRANTED"
          PROVE  Both
      <3>1. CASE report' = report
        BY <2>1, <3>1 DEF VInv, Granted
      <3>2. CASE g_tso_granted = 2
        <4>1. Yes("t0") + Yes("t1") = 2
          BY <2>1, <3>2 DEF VInv, Granted
        <4>2. Yes("t0") \in {0, 1} /\ Yes("t1") \in {0, 1}
          BY DEF Yes
        <4>3. Yes("t0") = 1 /\ Yes("t1") = 1
          BY <4>1, <4>2
        <4>4. tso["t0"] = "yes" /\ tso["t1"] = "yes"
          BY <4>3 DEF Yes
        <4>5. QED
          BY <2>1, <4>4 DEF Both
      <3>3. QED
        BY <2>1, <3>1, <3>2
    <2>2. QED
      BY <1>0, <1>1, <1>4, <2>1 DEF VInv, Granted
  <1>6. Outcome'
    BY <1>0, <1>2, <1>4 DEF VInv, Outcome
  <1>7. Counted'
    BY <1>0, <1>1, <1>4 DEF VInv, Counted
  <1>8. QED
    BY <1>2, <1>3, <1>5, <1>6, <1>7 DEF VInv

LEMMA NextVInv == IInv /\ VInv /\ [Next]_vars => VInv'
  <1> SUFFICES ASSUME IInv, VInv, [Next]_vars
               PROVE  VInv'
    OBVIOUS
  <1>1. CASE Create
    BY <1>1, OtherV DEF Create
  <1>2. CASE Access("main")
    BY <1>2, AccessV DEF Actors
  <1>3. CASE Evaluate
    BY <1>3, EvaluateV
  <1>4. CASE Report
    <2>1. report' = "GRANTED" => g_tso_granted = 2
      BY <1>4 DEF Report, None
    <2>2. QED
      BY <1>4, <2>1, OtherV DEF Report
  <1>5. ASSUME NEW t \in {"t0", "t1", "t2"}, Worker(t)
        PROVE  VInv'
    BY <1>5, TsoV, AccessV DEF Worker, Actors
  <1>6. CASE UNCHANGED vars
    BY <1>6, OtherV DEF vars
  <1>7. QED
    BY <1>1, <1>2, <1>3, <1>4, <1>5, <1>6 DEF Next, Main

(***************************************************************************)
(* What the accesses return in every state: x and y are set exactly when   *)
(* the worker of the round stored to them (map_store), a result is what    *)
(* its worker loaded, main fetches it before the next round overwrites it, *)
(* and the registers of a round that an ordering mapping, the fence or TSO *)
(* mode on both workers of MP guards never show the outcome of interest.   *)
(***************************************************************************)
THEOREM RoundValues == Spec => []VInv
  <1>1. IInv /\ VInv /\ [Next]_vars => VInv'
    BY NextVInv
  <1>2. QED
    BY Invariance, InitVInv, <1>1, PTL DEF Spec

(***************************************************************************)
(* The detector accuses no machine falsely, for any number of rounds: the  *)
(* forbidden outcome of MP and WRC is never counted under the rcpc, sc and *)
(* dmb mappings, nor that of SB under sc, nor MP or SB with fences, nor MP *)
(* when main reports that the kernel granted TSO to both workers, although *)
(* the shared block is reused round after round without a lock.            *)
(***************************************************************************)
THEOREM NoFalseVerdict == Spec => []NoFalseWitness
  <1>1. IInv /\ VInv => NoFalseWitness
    <2> SUFFICES ASSUME IInv, VInv, witnesses # 0
                 PROVE  NoFalseWitness
      BY DEF NoFalseWitness
    <2>1. /\ cfg.test \in {"mp", "sb", "wrc"} /\ cfg.map \in {"plain", "rcpc", "sc", "dmb"}
          /\ cfg.fenced \in BOOLEAN
      BY LitmusAssumption DEF IInv, Programs
    <2>2. ~Tight(cfg) /\ (cfg.test = "mp" => report # "GRANTED")
      BY DEF VInv, Counted, Guarded, Granted
    <2>3. CASE cfg.test = "sb"
      <3>1. cfg.map # "sc" /\ ~(cfg.map = "plain" /\ cfg.fenced)
        BY <2>2, <2>3 DEF Tight
      <3>2. QED
        BY <2>3, <3>1 DEF NoFalseWitness
    <2>4. CASE cfg.test # "sb"
      <3>1. cfg.map = "plain"
        BY <2>1, <2>2, <2>4 DEF Tight
      <3>2. cfg.test = "wrc" \/ (cfg.test = "mp" /\ ~cfg.fenced)
        BY <2>1, <2>2, <2>4, <3>1 DEF Tight
      <3>3. QED
        BY <2>2, <3>1, <3>2 DEF NoFalseWitness
    <2>5. QED
      BY <2>3, <2>4
  <1>2. QED
    BY Invariance, RoundValues, <1>1, PTL

=============================================================================

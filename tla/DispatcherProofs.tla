-------------------------- MODULE DispatcherProofs --------------------------
(***************************************************************************)
(* Safety of the dispatcher for any program, hash, table size, cap and     *)
(* step guard, and its refinement of GuestProgram.                         *)
(***************************************************************************)
EXTENDS Dispatcher, FiniteSetTheorems, WellFoundedInduction, TLAPS

Entries == [pc : Pcs, e : Maps]
Tables  == [Slot -> Entries \cup {None}]

-----------------------------------------------------------------------------
(***************************************************************************)
(* The inductive invariant, one conjunct per reason.                       *)
(***************************************************************************)

\* A lookup of the PC in a used slot ends at that slot; no PC has two slots.
Findable(t) == \A s \in Cached(t) : s \in oryx_cache_find(t, t[s].pc)
Distinct(t) == \A s, u \in Cached(t) : t[s].pc = t[u].pc => s = u

CacheInv ==
  /\ Findable(table) /\ Distinct(table)
  /\ phase # "done" => live = Cardinality(Cached(table))
  /\ phase = "run" => Holds(table, ent, pc)
  /\ phase \in {"fetch", "map", "insert"} => oryx_cache_find(table, pc) = {}

\* A used slot runs the linked translation of a block that can be translated.
CodeInv ==
  \A s \in Cached(table) :
    /\ code[table[s].e] = Linked(table[s].pc)
    /\ prog[table[s].pc].term \in Guest!Terminators

\* Who owns the mappings.
Owned ==
  /\ Mapped = { table[s].e : s \in Cached(table) } \cup ({fresh} \ {None})
  /\ \A s, u \in Cached(table) : table[s].e = table[u].e => s = u
  /\ \A s \in Cached(table) : table[s].e # fresh
  /\ phase = "insert" <=> fresh # None
  /\ phase = "insert" => code[fresh] = Linked(pc)
  /\ phase \in {"start", "done"} => Cached(table) = {}

\* Where the loop is, in terms of what the guest program has done.
LoopInv ==
  /\ prog \in Programs
  /\ rc = "running" <=> phase \notin {"flush", "done"}
  /\ phase \in {"start", "fetch", "map", "insert", "run"} => pc # HALT /\ steps < MaxSteps
  /\ phase \in {"map", "insert"} => prog[pc].term \in Guest!Terminators

IInv == TypeOK /\ CacheInv /\ CodeInv /\ Owned /\ LoopInv

-----------------------------------------------------------------------------
(* The table *)

\* Linear probing stays inside the table.
LEMMA ProbeInTable ==
  ASSUME hash \in [Pcs -> Slot], NEW p \in Pcs, NEW k \in Slot
  PROVE  Probe(p, k) \in Slot
  BY DispatcherAssumption DEF Probe, Slot, DispatcherAssumption

\* The table is finite, so its used slots can be counted.
LEMMA CachedFinite ==
  ASSUME NEW t
  PROVE  IsFiniteSet(Cached(t)) /\ Cardinality(Cached(t)) \in Nat
<1>0. 0 \in Int /\ Slots - 1 \in Int
  BY DispatcherAssumption DEF DispatcherAssumption
<1>1. IsFiniteSet(Slot)
  BY <1>0, FS_Interval DEF Slot
<1>2. Cached(t) \in SUBSET Slot
  BY DEF Cached
<1>. QED BY <1>1, <1>2, FS_Subset, FS_CardinalityType

\* The empty table caches nothing.
LEMMA EmptyTable ==
  /\ Empty \in Tables
  /\ Cached(Empty) = {}
  /\ Cardinality(Cached(Empty)) = 0
  /\ Findable(Empty) /\ Distinct(Empty)
<1>1. Empty \in Tables /\ Cached(Empty) = {}
  BY DEF Empty, Tables, Cached
<1>. QED BY <1>1, FS_EmptySet DEF Findable, Distinct

\* A lookup that fails means that the PC is in no slot at all.
LEMMA MissIsAbsent ==
  ASSUME NEW t, Findable(t), NEW p, oryx_cache_find(t, p) = {}
  PROVE  \A s \in Cached(t) : t[s].pc # p
  BY DEF Findable

\* Inserting an absent PC keeps every entry findable: the slot claimed was empty,
\* so it lies on nobody's probe path, and the path to it holds only other PCs.
LEMMA InsertKeeps ==
  ASSUME hash \in [Pcs -> Slot],
         NEW t \in Tables, Findable(t), Distinct(t),
         NEW p \in Pcs, \A s \in Cached(t) : t[s].pc # p,
         NEW u \in oryx_cache_insert(t, p), NEW m \in Maps
  PROVE  LET n == [t EXCEPT ![u] = [pc |-> p, e |-> m]]
         IN  /\ n \in Tables
             /\ u \in Slot /\ u \notin Cached(t) /\ Cached(n) = Cached(t) \cup {u}
             /\ n[u] = [pc |-> p, e |-> m]
             /\ \A s \in Cached(t) : n[s] = t[s]
             /\ Findable(n) /\ Distinct(n)
<1>. DEFINE n == [t EXCEPT ![u] = [pc |-> p, e |-> m]]
<1>0. [pc |-> p, e |-> m] \in Entries /\ [pc |-> p, e |-> m] # None
  BY DispatcherAssumption DEF Entries, DispatcherAssumption
<1>1. u \in Slot /\ t[u] = None
  BY DEF oryx_cache_insert
<1>2. /\ n \in Tables /\ n[u] = [pc |-> p, e |-> m]
      /\ \A s \in Slot \ {u} : n[s] = t[s]
  BY <1>0, <1>1 DEF Tables
<1>3. u \notin Cached(t) /\ Cached(n) = Cached(t) \cup {u}
  BY <1>0, <1>1, <1>2 DEF Cached
<1>4. \A s \in Cached(t) : n[s] = t[s]
  BY <1>2, <1>3 DEF Cached
<1>5. Distinct(n)
  <2>. HIDE DEF n
  <2>. SUFFICES ASSUME NEW s \in Cached(n), NEW v \in Cached(n), n[s].pc = n[v].pc
                PROVE  s = v
    BY DEF Distinct
  <2>1. n[u].pc = p
    BY <1>2
  <2>2. CASE s = u \/ v = u
    BY <1>3, <1>4, <2>1, <2>2
  <2>3. CASE s \in Cached(t) /\ v \in Cached(t)
    BY <1>4, <2>3 DEF Distinct
  <2>. QED BY <1>3, <2>2, <2>3
<1>6. ASSUME NEW s \in Cached(t) PROVE s \in oryx_cache_find(n, n[s].pc)
  <2>. DEFINE q == t[s].pc
  <2>1. q \in Pcs /\ s \in oryx_cache_find(t, q) /\ n[s].pc = q
    BY <1>4 DEF Cached, Findable, Tables, Entries
  <2>2. PICK k \in Slot :
          /\ s = Probe(q, k) /\ Holds(t, s, q)
          /\ \A j \in 0..(k - 1) : t[Probe(q, j)] # None /\ t[Probe(q, j)].pc # q
    BY <2>1 DEF oryx_cache_find
  <2>3. \A j \in 0..(k - 1) : j \in Slot
    BY DispatcherAssumption DEF Slot, DispatcherAssumption
  <2>4. \A j \in 0..(k - 1) : n[Probe(q, j)] = t[Probe(q, j)]
    BY <1>1, <1>2, <2>1, <2>2, <2>3, ProbeInTable
  <2>5. Holds(n, s, q)
    BY <1>4, <2>2 DEF Holds
  <2>. QED BY <2>1, <2>2, <2>4, <2>5 DEF oryx_cache_find, Cached
<1>7. u \in oryx_cache_find(n, n[u].pc)
  <2>1. PICK k \in Slot :
          /\ u = Probe(p, k)
          /\ \A j \in 0..(k - 1) : t[Probe(p, j)] # None
    BY DEF oryx_cache_insert
  <2>2. \A j \in 0..(k - 1) : Probe(p, j) \in Slot
    BY ProbeInTable, DispatcherAssumption DEF Slot, DispatcherAssumption
  <2>3. \A j \in 0..(k - 1) : n[Probe(p, j)] # None /\ n[Probe(p, j)].pc # p
    BY <1>1, <1>4, <2>1, <2>2 DEF Cached
  <2>4. Holds(n, u, p)
    BY <1>0, <1>2 DEF Holds
  <2>. QED BY <1>1, <1>2, <2>1, <2>3, <2>4 DEF oryx_cache_find
<1>8. Findable(n)
  BY <1>3, <1>6, <1>7 DEF Findable
<1>. QED BY <1>1, <1>2, <1>3, <1>4, <1>5, <1>8

-----------------------------------------------------------------------------
(* The steps that leave the table and the mappings alone *)

\* The one- and two-element sequences relocations, exits and stubs are.
LEMMA Stubs ==
  ASSUME NEW S, NEW a \in S, NEW b \in S
  PROVE  /\ <<a>> # <<>> /\ Len(<<a>>) = 1 /\ <<a>>[1] = a
         /\ Len(<<a, b>>) = 2 /\ <<a, b>>[1] = a /\ <<a, b>>[2] = b
         /\ <<>> \in Seq(S) /\ <<a>> \in Seq(S) /\ <<a, b>> \in Seq(S)
         /\ Len(<<>>) = 0
  OBVIOUS

\* What the translator and the linker make of each kind of block.
LEMMA LinkedShape ==
  ASSUME prog \in [Pcs -> Guest!Block], NEW p \in Pcs
  PROVE  /\ prog[p].term = "BR" =>
              Linked(p) = [stubs |-> <<prog[p].next, prog[p].target>>,
                           pops |-> FALSE, sets |-> prog[p].sets]
         /\ prog[p].term \in {"JMP", "CALL"} =>
              Linked(p) = [stubs |-> <<prog[p].target>>,
                           pops |-> FALSE, sets |-> prog[p].sets]
         /\ prog[p].term \notin {"BR", "JMP", "CALL"} =>
              Linked(p) = [stubs |-> <<>>,
                           pops |-> prog[p].term = "X86RET", sets |-> prog[p].sets]
<1>. DEFINE b  == prog[p]
            tu == oryx_translate_ex(p)
<1>1. b.target \in Guest!Target /\ b.next \in Guest!Target
  BY DEF Guest!Block
<1>. HIDE DEF b
<1>2. CASE b.term = "BR"
  <2>1. /\ tu.relocs = <<b.target>> /\ tu.exits = <<b.target, b.next>>
        /\ tu.pops = FALSE /\ tu.sets = b.sets
    BY <1>2 DEF oryx_translate_ex, b
  <2>. HIDE DEF tu
  <2>2. /\ tu.relocs # <<>> /\ tu.relocs[1] = b.target
        /\ Len(tu.exits) >= 2 /\ tu.exits[2] = b.next
    BY <1>1, <2>1, Stubs
  <2>3. oryx_exec_map_linked(tu)
          = [stubs |-> <<b.next, b.target>>, pops |-> FALSE, sets |-> b.sets]
    BY <2>1, <2>2 DEF oryx_exec_map_linked
  <2>. QED BY <1>2, <2>3 DEF Linked, b, tu
<1>3. CASE b.term \in {"JMP", "CALL"}
  <2>1. /\ tu.relocs = <<b.target>> /\ tu.exits = <<b.target>>
        /\ tu.pops = FALSE /\ tu.sets = b.sets
    BY <1>3 DEF oryx_translate_ex, b
  <2>. HIDE DEF tu
  <2>2. /\ tu.relocs # <<>> /\ tu.relocs[1] = b.target
        /\ ~(Len(tu.exits) >= 2)
    BY <1>1, <2>1, Stubs
  <2>3. oryx_exec_map_linked(tu)
          = [stubs |-> <<b.target>>, pops |-> FALSE, sets |-> b.sets]
    BY <2>1, <2>2 DEF oryx_exec_map_linked
  <2>. QED BY <1>3, <2>3 DEF Linked, b, tu
<1>4. CASE b.term \notin {"BR", "JMP", "CALL"}
  <2>1. tu.relocs = <<>> /\ tu.pops = (b.term = "X86RET") /\ tu.sets = b.sets
    BY <1>4 DEF oryx_translate_ex, b
  <2>. HIDE DEF tu
  <2>2. oryx_exec_map_linked(tu)
          = [stubs |-> <<>>, pops |-> (b.term = "X86RET"), sets |-> b.sets]
    BY <2>1 DEF oryx_exec_map_linked
  <2>. QED BY <1>4, <2>2 DEF Linked, b, tu
<1>. QED BY <1>2, <1>3, <1>4 DEF b

\* Linked code is a record, never None.
LEMMA LinkedTyped ==
  ASSUME prog \in [Pcs -> Guest!Block], NEW p \in Pcs
  PROVE  Linked(p) # None
<1>. DEFINE Code == [stubs : Seq(Guest!Target), pops : BOOLEAN, sets : BOOLEAN]
            t == prog[p].target
            n == prog[p].next
<1>1. t \in Guest!Target /\ n \in Guest!Target /\ prog[p].sets \in BOOLEAN
  BY DEF Guest!Block
<1>. HIDE DEF t, n
<1>2. <<n, t>> \in Seq(Guest!Target) /\ <<t>> \in Seq(Guest!Target) /\ <<>> \in Seq(Guest!Target)
  BY <1>1, Stubs
<1>3. \E st \in Seq(Guest!Target), po \in BOOLEAN, se \in BOOLEAN :
        Linked(p) = [stubs |-> st, pops |-> po, sets |-> se]
  BY <1>1, <1>2, LinkedShape DEF t, n
<1>4. Linked(p) \in Code
  BY <1>3
<1>. QED BY <1>4, DispatcherAssumption DEF DispatcherAssumption, Guest!Target

\* Nothing is cached or mapped when the dispatcher starts.
LEMMA InitInv == Init => IInv
<1>. SUFFICES ASSUME Init PROVE IInv
  OBVIOUS
<1>. USE DispatcherAssumption, ProgramAssumption DEF DispatcherAssumption, ProgramAssumption
<1>1. TypeOK
  BY EmptyTable DEF Init, Guest!Init, TypeOK, Slot, Tables, Entries
<1>2. CacheInv
  BY EmptyTable DEF Init, CacheInv
<1>3. CodeInv /\ Owned
  BY EmptyTable DEF Init, CodeInv, Owned, Mapped
<1>4. LoopInv
  BY DEF Init, Guest!Init, LoopInv
<1>. QED BY <1>1, <1>2, <1>3, <1>4 DEF IInv

\* The state the table's invariants speak of.
tvars == <<prog, hash, table, live, code, fresh>>

\* As long as that state stays, so do they.
LEMMA Frame ==
  ASSUME IInv, UNCHANGED tvars
  PROVE  /\ \A p \in Pcs : Linked(p)' = Linked(p)
         /\ Findable(table)' /\ Distinct(table)' /\ CodeInv'
         /\ \A p : oryx_cache_find(table, p)' = oryx_cache_find(table, p)
         /\ Cached(table)' = Cached(table) /\ Mapped' = Mapped
<1>. USE DEF tvars
<1>1. \A p \in Pcs : Linked(p)' = Linked(p)
  BY DEF Linked, oryx_translate_ex
<1>2. \A p : oryx_cache_find(table, p)' = oryx_cache_find(table, p)
  BY DEF oryx_cache_find, Probe, Holds
<1>3. Cached(table)' = Cached(table) /\ Mapped' = Mapped
  BY DEF Cached, Mapped
<1>4. \A s \in Cached(table) : table[s].pc \in Pcs
  BY DEF IInv, TypeOK, Cached
<1>5. Findable(table)' /\ Distinct(table)'
  BY <1>2, <1>3 DEF IInv, CacheInv, Findable, Distinct
<1>6. CodeInv'
  BY <1>1, <1>3, <1>4 DEF IInv, CodeInv
<1>. QED BY <1>1, <1>2, <1>3, <1>5, <1>6

\* Leaving the loop, from wherever it is left.
LEMMA BreakStep ==
  ASSUME IInv, phase \in {"loop", "fetch", "map"},
         NEW ret \in {"OK", "STEPS", "NOTFOUND", "FORMAT", "INVAL", "NOMEM", "PERM"},
         Break(ret)
  PROVE  IInv'
<1>. USE DEF Break, IInv
<1>0. UNCHANGED tvars
  BY DEF tvars
<1>1. TypeOK'
  BY <1>0, Frame DEF TypeOK
<1>2. CacheInv'
  BY <1>0, Frame DEF CacheInv
<1>3. Owned'
  BY <1>0, Frame DEF Owned
<1>4. LoopInv'
  BY DEF LoopInv
<1>. QED BY <1>0, <1>1, <1>2, <1>3, <1>4, Frame

\* The empty table that calloc returns satisfies the invariant.
LEMMA StartStep == IInv /\ Start => IInv'
<1>. SUFFICES ASSUME IInv, Start PROVE IInv'
  OBVIOUS
<1>. USE DEF Start, IInv
<1>0. UNCHANGED tvars
  BY DEF tvars
<1>1. TypeOK'
  BY <1>0, Frame DEF TypeOK
<1>2. CacheInv'
  BY <1>0, Frame DEF CacheInv
<1>3. Owned'
  BY <1>0, Frame DEF Owned
<1>4. LoopInv'
  BY DEF LoopInv
<1>. QED BY <1>0, <1>1, <1>2, <1>3, <1>4, Frame

\* A lookup changes nothing but the slot it found.
LEMMA LookupStep == IInv /\ Lookup => IInv'
<1>. SUFFICES ASSUME IInv, Lookup PROVE IInv'
  OBVIOUS
<1>. USE DEF Lookup, IInv
<1>0. UNCHANGED tvars
  BY DEF tvars
<1>1. TypeOK'
  BY <1>0, Frame DEF TypeOK, oryx_cache_find
<1>2. CacheInv'
  BY <1>0, Frame DEF CacheInv, oryx_cache_find, Holds
<1>3. Owned'
  BY <1>0, Frame DEF Owned
<1>4. LoopInv'
  BY DEF LoopInv
<1>. QED BY <1>0, <1>1, <1>2, <1>3, <1>4, Frame

\* Fetching and translating a block maps nothing.
LEMMA FetchStep == IInv /\ Fetch => IInv'
<1>. SUFFICES ASSUME IInv, Fetch PROVE IInv'
  OBVIOUS
<1>. USE DEF Fetch
<1>1. CASE \E err \in Guest!Refusal(prog[pc]) \cup {"NOMEM"} : Break(err)
  BY <1>1, BreakStep DEF Guest!Refusal
<1>2. CASE /\ Guest!Refusal(prog[pc]) = {} /\ phase' = "map"
           /\ UNCHANGED <<prog, pc, flags, steps, rc, hash, table, live, code, fresh, ent>>
  <2>. USE <1>2 DEF IInv
  <2>0. UNCHANGED tvars
    BY DEF tvars
  <2>1. prog[pc].term \in Guest!Terminators
    <3>1. prog[pc] \in Guest!Block
      BY DEF TypeOK, LoopInv
    <3>. QED BY <3>1 DEF Guest!Block, Guest!Refusal
  <2>2. TypeOK'
    BY <2>0, Frame DEF TypeOK
  <2>3. CacheInv'
    BY <2>0, Frame DEF CacheInv
  <2>4. Owned'
    BY <2>0, Frame DEF Owned
  <2>5. LoopInv'
    BY <2>1 DEF LoopInv
  <2>. QED BY <2>0, <2>2, <2>3, <2>4, <2>5, Frame
<1>. QED BY <1>1, <1>2

\* Running a cached block leaves the table alone.
LEMMA RunStep == IInv /\ Run => IInv'
<1>. SUFFICES ASSUME IInv, Run PROVE IInv'
  OBVIOUS
<1>. USE DEF Run, IInv
<1>0. UNCHANGED tvars
  BY DEF tvars
<1>1. ent \in Cached(table) /\ table[ent].pc = pc /\ pc \in Pcs
  BY DEF CacheInv, TypeOK, LoopInv, Holds, Cached
<1>2. code[table[ent].e] = Linked(pc)
  BY <1>1 DEF CodeInv
<1>3. pc' \in Guest!Target /\ flags' \in BOOLEAN
  <2>. DEFINE b == prog[pc]
              l == code[table[ent].e]
  <2>1. b.target \in Guest!Target /\ b.next \in Guest!Target /\ HALT \in Guest!Target
    BY <1>1 DEF TypeOK, Guest!Block, Guest!Target
  <2>2. PICK f \in BOOLEAN, ret \in Guest!Target :
          flags' = (IF l.sets THEN f ELSE flags) /\ pc' = NextPc(l, f, ret)
    OBVIOUS
  <2>3. \/ l.stubs = <<b.next, b.target>>
        \/ l.stubs = <<b.target>>
        \/ l.stubs = <<>>
    BY <1>1, <1>2, LinkedShape DEF TypeOK
  <2>. HIDE DEF b, l
  <2>4. NextPc(l, f, ret) \in Guest!Target
    <3>1. CASE l.stubs = <<b.next, b.target>>
      BY <2>1, <3>1, Stubs DEF NextPc
    <3>2. CASE l.stubs = <<b.target>>
      BY <2>1, <3>2, Stubs DEF NextPc
    <3>3. CASE l.stubs = <<>>
      BY <2>1, <3>3, Stubs DEF NextPc
    <3>. QED BY <2>3, <3>1, <3>2, <3>3
  <2>. QED BY <2>2, <2>4 DEF TypeOK
<1>4. TypeOK'
  <2>1. steps' \in 0..MaxSteps
    BY DispatcherAssumption DEF TypeOK, LoopInv, DispatcherAssumption
  <2>. QED BY <1>0, <1>3, <2>1, Frame DEF TypeOK, Guest!Target
<1>5. CacheInv'
  BY <1>0, Frame DEF CacheInv
<1>6. Owned'
  BY <1>0, Frame DEF Owned
<1>7. LoopInv'
  BY DEF LoopInv
<1>. QED BY <1>0, <1>4, <1>5, <1>6, <1>7, Frame

-----------------------------------------------------------------------------
(* The steps that change the table or the mappings *)

\* prog never changes, and with it neither does what a block is linked to.
LEMMA SameLinked ==
  ASSUME prog' = prog
  PROVE  \A p : Linked(p)' = Linked(p)
  BY DEF Linked, oryx_translate_ex

\* A new mapping is owned by the dispatcher until it has a slot.
LEMMA MapStep == IInv /\ Map => IInv'
<1>. SUFFICES ASSUME IInv, Map PROVE IInv'
  OBVIOUS
<1>1. CASE \E err \in {"NOMEM", "PERM"} : Break(err)
  BY <1>1, BreakStep DEF Map
<1>2. ASSUME NEW m \in Maps, code[m] = None,
             code' = [code EXCEPT ![m] = Linked(pc)], fresh' = m, phase' = "insert",
             UNCHANGED <<prog, pc, flags, steps, rc, hash, table, live, ent>>
      PROVE  IInv'
  <2>. USE <1>2 DEF IInv
  <2>0. phase = "map" /\ pc \in Pcs /\ fresh = None
    BY DEF Map, TypeOK, LoopInv, Owned
  <2>1. /\ Cached(table)' = Cached(table)
        /\ \A p : oryx_cache_find(table, p)' = oryx_cache_find(table, p)
        /\ \A p : Linked(p)' = Linked(p)
    BY SameLinked DEF Cached, oryx_cache_find, Probe, Holds
  <2>2. \A s \in Cached(table) : table[s].e \in Maps /\ table[s].pc \in Pcs
    BY DEF TypeOK, Cached
  <2>3. m \notin { table[s].e : s \in Cached(table) }
    BY DEF Owned, Mapped
  <2>4. Linked(pc) # None
    BY <2>0, LinkedTyped DEF TypeOK
  <2>5. TypeOK'
    <3>1. code' \in [Maps -> { Linked(p) : p \in Pcs } \cup {None}]
      BY <2>0 DEF TypeOK
    <3>2. { Linked(p) : p \in Pcs }' = { Linked(p) : p \in Pcs }
      BY <2>1
    <3>. QED BY <3>1, <3>2 DEF TypeOK
  <2>6. CacheInv'
    BY <2>0, <2>1 DEF CacheInv, Findable, Distinct
  <2>7. CodeInv'
    <3>1. \A s \in Cached(table) : code'[table[s].e] = code[table[s].e]
      BY <2>2, <2>3 DEF TypeOK
    <3>. QED BY <2>1, <3>1 DEF CodeInv
  <2>8. Owned'
    <3>1. Mapped' = Mapped \cup {m}
      BY <2>4 DEF Mapped, TypeOK
    <3>2. code'[m] = Linked(pc)
      BY DEF TypeOK
    <3>3. m # None
      BY DispatcherAssumption DEF DispatcherAssumption
    <3>. QED BY <2>0, <2>1, <2>3, <3>1, <3>2, <3>3 DEF Owned
  <2>9. LoopInv'
    BY <2>0 DEF LoopInv
  <2>. QED BY <2>5, <2>6, <2>7, <2>8, <2>9
<1>. QED BY <1>1, <1>2 DEF Map

\* What the flush leaves mapped: only the block that is being inserted.
LEMMA FlushFrees ==
  ASSUME IInv
  PROVE  /\ oryx_cache_flush \in [Maps -> { Linked(p) : p \in Pcs } \cup {None}]
         /\ { m \in Maps : oryx_cache_flush[m] # None } = {fresh} \ {None}
         /\ fresh # None => oryx_cache_flush[fresh] = code[fresh]
<1>. USE DEF IInv, oryx_cache_flush
<1>1. oryx_cache_flush \in [Maps -> { Linked(p) : p \in Pcs } \cup {None}]
  BY DEF TypeOK
<1>2. fresh # None => fresh \in Maps /\ oryx_cache_flush[fresh] = code[fresh]
  BY DEF TypeOK, Owned
<1>3. \A m \in Maps : oryx_cache_flush[m] # None =>
                        code[m] # None /\ m \notin { table[s].e : s \in Cached(table) }
  OBVIOUS
<1>4. fresh # None => code[fresh] # None
  BY <1>2 DEF Owned, Mapped
<1>. QED BY <1>1, <1>2, <1>3, <1>4 DEF Owned, Mapped

\* Inserting into a table that is not at its cap, the current one or an empty one.
LEMMA InsertIntoStep ==
  ASSUME IInv, phase = "insert",
         NEW t \in Tables, NEW mem \in [Maps -> { Linked(p) : p \in Pcs } \cup {None}],
         NEW n \in Nat, n < CAP, n = Cardinality(Cached(t)),
         Findable(t), Distinct(t),
         \A s \in Cached(t) : /\ t[s].pc # pc /\ t[s].e # fresh
                              /\ mem[t[s].e] = Linked(t[s].pc)
                              /\ prog[t[s].pc].term \in Guest!Terminators,
         \A s, u \in Cached(t) : t[s].e = t[u].e => s = u,
         { m \in Maps : mem[m] # None } = { t[s].e : s \in Cached(t) } \cup {fresh},
         mem[fresh] = Linked(pc),
         InsertInto(t, mem, n)
  PROVE  IInv'
<1>. USE DEF InsertInto
<1>0. /\ pc \in Pcs /\ fresh \in Maps /\ fresh # None
      /\ hash \in [Pcs -> Slot] /\ prog \in [Pcs -> Guest!Block]
      /\ UNCHANGED <<prog, pc, flags, steps, hash>> /\ fresh' = None
  BY DEF IInv, TypeOK, LoopInv, Owned
<1>1. \A p : Linked(p)' = Linked(p)
  BY <1>0, SameLinked
<1>2. { Linked(p) : p \in Pcs }' = { Linked(p) : p \in Pcs }
  BY <1>1
<1>3. n \in 0..CAP /\ n + 1 \in 0..CAP
  BY DispatcherAssumption DEF DispatcherAssumption
<1>4. CASE oryx_cache_insert(t, pc) = {}
  <2>. USE <1>4
  <2>1. /\ rc' = "NOMEM" /\ phase' = "flush" /\ table' = t /\ live' = n /\ ent' = ent
        /\ code' = [mem EXCEPT ![fresh] = None]
    OBVIOUS
  <2>2. Cached(table)' = Cached(t) /\ Mapped' = { t[s].e : s \in Cached(t) }
    <3>1. Cached(table)' = Cached(t)
      BY <2>1 DEF Cached
    <3>2. Mapped' = { m \in Maps : mem[m] # None } \ {fresh}
      BY <1>0, <2>1 DEF Mapped
    <3>. QED BY <3>1, <3>2
  <2>3. TypeOK'
    <3>1. code' \in [Maps -> { Linked(p) : p \in Pcs } \cup {None}]
      BY <1>0, <2>1
    <3>. QED BY <1>0, <1>2, <1>3, <2>1, <3>1 DEF IInv, TypeOK, Tables, Entries
  <2>4. Findable(table)' /\ Distinct(table)'
    BY <1>0, <2>1, <2>2 DEF Findable, Distinct, oryx_cache_find, Probe, Holds
  <2>5. CacheInv'
    BY <2>1, <2>2, <2>4 DEF CacheInv
  <2>6. CodeInv'
    BY <1>0, <1>1, <2>1, <2>2 DEF CodeInv
  <2>7. Owned'
    <3>1. \A s \in Cached(t) : t[s].e # None
      BY DispatcherAssumption DEF Tables, Entries, Cached, DispatcherAssumption
    <3>. QED BY <1>0, <2>1, <2>2, <3>1 DEF Owned
  <2>8. LoopInv'
    BY <1>0, <2>1 DEF IInv, LoopInv
  <2>. QED BY <2>3, <2>5, <2>6, <2>7, <2>8 DEF IInv
<1>5. ASSUME NEW u \in oryx_cache_insert(t, pc),
             table' = [t EXCEPT ![u] = [pc |-> pc, e |-> fresh]],
             code' = mem, live' = n + 1, ent' = u, phase' = "run", rc' = rc
      PROVE  IInv'
  <2>. DEFINE nt == [t EXCEPT ![u] = [pc |-> pc, e |-> fresh]]
  <2>1. /\ nt \in Tables
        /\ u \in Slot /\ u \notin Cached(t) /\ Cached(nt) = Cached(t) \cup {u}
        /\ nt[u] = [pc |-> pc, e |-> fresh]
        /\ \A s \in Cached(t) : nt[s] = t[s]
        /\ Findable(nt) /\ Distinct(nt)
    BY <1>0, <1>5, InsertKeeps
  <2>. HIDE DEF nt
  <2>a. /\ table' = nt /\ code' = mem /\ live' = n + 1 /\ ent' = u
        /\ phase' = "run" /\ rc' = rc
    BY <1>5 DEF nt
  <2>2. Cached(table)' = Cached(t) \cup {u}
    BY <2>1, <2>a DEF Cached
  <2>3. Cardinality(Cached(table)') = n + 1
    BY <2>1, <2>2, CachedFinite, FS_AddElement
  <2>4. TypeOK'
    BY <1>0, <1>2, <1>3, <2>1, <2>a DEF IInv, TypeOK, Tables, Entries
  <2>5. Findable(table)' /\ Distinct(table)'
    <3>1. \A p : oryx_cache_find(table, p)' = oryx_cache_find(nt, p)
      BY <1>0, <2>a DEF oryx_cache_find, Probe, Holds
    <3>. QED BY <2>1, <2>2, <2>a, <3>1 DEF Findable, Distinct
  <2>6. Holds(table, ent, pc)'
    BY <1>0, <2>1, <2>2, <2>a DEF Holds, Cached
  <2>7. CacheInv'
    BY <2>3, <2>5, <2>6, <2>a DEF CacheInv
  <2>8. CodeInv'
    <3>1. ASSUME NEW s \in Cached(t)
          PROVE  mem[nt[s].e] = Linked(nt[s].pc) /\ prog[nt[s].pc].term \in Guest!Terminators
      BY <2>1
    <3>2. mem[nt[u].e] = Linked(nt[u].pc) /\ prog[nt[u].pc].term \in Guest!Terminators
      BY <2>1 DEF IInv, LoopInv
    <3>. QED BY <1>0, <1>1, <2>2, <2>a, <3>1, <3>2 DEF CodeInv
  <2>9. Owned'
    <3>1. Mapped' = { t[s].e : s \in Cached(t) } \cup {fresh}
      BY <2>a DEF Mapped
    <3>2. { nt[s].e : s \in Cached(t) \cup {u} } = { t[s].e : s \in Cached(t) } \cup {fresh}
      <4>1. nt[u].e = fresh /\ \A s \in Cached(t) : nt[s].e = t[s].e
        BY <2>1
      <4>. QED BY <4>1
    <3>3. \A s, v \in Cached(t) \cup {u} : nt[s].e = nt[v].e => s = v
      BY <2>1
    <3>4. \A s \in Cached(t) \cup {u} : nt[s].e # None
      BY <2>1, DispatcherAssumption DEF Tables, Entries, Cached, DispatcherAssumption
    <3>5. Mapped' = { table'[s].e : s \in Cached(table)' } \cup ({fresh'} \ {None})
      <4>1. { table'[s].e : s \in Cached(table)' } = { nt[s].e : s \in Cached(t) \cup {u} }
        BY <2>2, <2>a
      <4>2. {fresh'} \ {None} = {}
        BY <1>0
      <4>. QED BY <3>1, <3>2, <4>1, <4>2
    <3>6. /\ \A s, v \in Cached(table)' : table'[s].e = table'[v].e => s = v
          /\ \A s \in Cached(table)' : table'[s].e # fresh'
      BY <1>0, <2>2, <2>a, <3>3, <3>4
    <3>. QED BY <1>0, <2>a, <3>5, <3>6 DEF Owned
  <2>10. LoopInv'
    BY <1>0, <2>a DEF IInv, LoopInv
  <2>. QED BY <2>4, <2>7, <2>8, <2>9, <2>10 DEF IInv
<1>. QED BY <1>4, <1>5

\* The insertion, behind a flush at the cap, hands the mapping to a slot.
LEMMA InsertStep == IInv /\ Insert => IInv'
<1>. SUFFICES ASSUME IInv, Insert PROVE IInv'
  OBVIOUS
<1>0. /\ phase = "insert" /\ fresh # None /\ code[fresh] = Linked(pc)
      /\ live \in Nat /\ CAP \in Nat \ {0}
  BY DispatcherAssumption DEF Insert, InsertInto, IInv, Owned, TypeOK, DispatcherAssumption
<1>1. CASE live >= CAP
  <2>1. InsertInto(Empty, oryx_cache_flush, 0)
    BY <1>1 DEF Insert
  <2>. QED BY <1>0, <2>1, EmptyTable, FlushFrees, InsertIntoStep
<1>2. CASE ~(live >= CAP)
  <2>1. InsertInto(table, code, live)
    BY <1>2 DEF Insert
  <2>2. table \in Tables /\ live < CAP /\ live = Cardinality(Cached(table))
    BY <1>0, <1>2 DEF IInv, TypeOK, CacheInv, Tables, Entries
  <2>3. \A s \in Cached(table) : /\ table[s].pc # pc /\ table[s].e # fresh
                                 /\ code[table[s].e] = Linked(table[s].pc)
                                 /\ prog[table[s].pc].term \in Guest!Terminators
    BY <1>0, MissIsAbsent DEF IInv, CacheInv, CodeInv, Owned
  <2>4. { m \in Maps : code[m] # None } = { table[s].e : s \in Cached(table) } \cup {fresh}
    BY <1>0 DEF IInv, Owned, Mapped
  <2>. QED BY <1>0, <2>1, <2>2, <2>3, <2>4, InsertIntoStep
           DEF IInv, TypeOK, CacheInv, Owned
<1>. QED BY <1>1, <1>2

\* The final flush releases every mapping.
LEMMA CleanupStep == IInv /\ Cleanup => IInv'
<1>. SUFFICES ASSUME IInv, Cleanup PROVE IInv'
  OBVIOUS
<1>. USE DEF Cleanup
<1>0. fresh = None /\ phase = "flush"
  BY DEF IInv, Owned
<1>1. \A p : Linked(p)' = Linked(p)
  BY SameLinked
<1>2. Cached(table)' = {}
  BY EmptyTable DEF Cached
<1>3. TypeOK'
  <2>1. { Linked(p) : p \in Pcs }' = { Linked(p) : p \in Pcs }
    BY <1>1
  <2>. QED BY <2>1, FlushFrees, EmptyTable DEF IInv, TypeOK, Tables, Entries
<1>4. CacheInv'
  BY <1>2 DEF CacheInv, Findable, Distinct
<1>5. CodeInv'
  BY <1>2 DEF CodeInv
<1>6. Owned'
  <2>1. Mapped' = {}
    BY <1>0, FlushFrees DEF Mapped
  <2>. QED BY <1>0, <1>2, <2>1 DEF Owned
<1>7. LoopInv'
  BY <1>0 DEF IInv, LoopInv
<1>. QED BY <1>3, <1>4, <1>5, <1>6, <1>7 DEF IInv

\* Every step of the dispatcher keeps the inductive invariant.
LEMMA NextInv == IInv /\ [Next]_vars => IInv'
<1>. SUFFICES ASSUME IInv, [Next]_vars PROVE IInv'
  OBVIOUS
<1>1. CASE LoopExit \/ StepGuard
  BY <1>1, BreakStep DEF LoopExit, StepGuard
<1>2. CASE UNCHANGED vars
  <2>. USE <1>2 DEF IInv, vars
  <2>0. UNCHANGED tvars
    BY DEF tvars
  <2>1. TypeOK'
    BY <2>0, Frame DEF TypeOK
  <2>2. CacheInv'
    BY <2>0, Frame DEF CacheInv, Holds
  <2>3. Owned'
    <3>1. Linked(pc)' = Linked(pc)
      BY SameLinked
    <3>. QED BY <2>0, <3>1, Frame DEF Owned
  <2>4. LoopInv'
    BY DEF LoopInv
  <2>. QED BY <2>0, <2>1, <2>2, <2>3, <2>4, Frame
<1>. QED BY <1>1, <1>2, StartStep, LookupStep, FetchStep, MapStep, InsertStep,
            RunStep, CleanupStep DEF Next

(***************************************************************************)
(* The inductive invariant holds in every reachable state.                 *)
(***************************************************************************)
THEOREM Invariance == Spec => []IInv
<1>. QED BY InitInv, NextInv, PTL DEF Spec

(***************************************************************************)
(* Type correctness; among others live never passes ORYX_CACHE_CAP and     *)
(* steps never passes max_steps.                                           *)
(***************************************************************************)
THEOREM Typing == Spec => []TypeOK
<1>1. IInv => TypeOK
  BY DEF IInv
<1>. QED BY <1>1, Invariance, PTL

(***************************************************************************)
(* oryx_cache_find and oryx_cache_insert agree, for every hash function,   *)
(* table size and cap: what a lookup of a cached PC returns is its one     *)
(* slot, and the code in it is the linked translation of that block.       *)
(***************************************************************************)
THEOREM CacheCorrect == Spec => []CacheExact
<1>1. IInv => CacheExact
  <2>. SUFFICES ASSUME IInv PROVE CacheExact
    OBVIOUS
  <2>1. ASSUME NEW s \in Cached(table)
        PROVE  oryx_cache_find(table, table[s].pc) = {s}
    <3>1. s \in oryx_cache_find(table, table[s].pc)
      BY DEF IInv, CacheInv, Findable
    <3>2. \A u \in oryx_cache_find(table, table[s].pc) :
             u \in Cached(table) /\ table[u].pc = table[s].pc
      BY DEF oryx_cache_find, Holds, Cached
    <3>. QED BY <3>1, <3>2 DEF IInv, CacheInv, Distinct
  <2>. QED BY <2>1 DEF IInv, CacheInv, CodeInv, CacheExact
<1>. QED BY <1>1, Invariance, PTL

(***************************************************************************)
(* oryx_run_program loses no executable mapping on any path, never frees   *)
(* one that a slot still names, and never holds more than CAP + 1.         *)
(***************************************************************************)
THEOREM NoMappingLost == Spec => []MappingsOwned
<1>1. IInv => MappingsOwned
  <2>. SUFFICES ASSUME IInv PROVE MappingsOwned
    OBVIOUS
  <2>. DEFINE Es == { table[s].e : s \in Cached(table) }
              f  == [s \in Cached(table) |-> table[s].e]
  <2>1. f \in Bijection(Cached(table), Es)
    BY DEF IInv, Owned, Bijection, Injection, Surjection, IsInjective
  <2>2. ExistsBijection(Cached(table), Es)
    BY <2>1 DEF ExistsBijection
  <2>3. IsFiniteSet(Es) /\ Cardinality(Es) = Cardinality(Cached(table))
    BY <2>2, CachedFinite, FS_Bijection
  <2>4. Cardinality(Cached(table)) \in Nat /\ Cardinality(Cached(table)) <= CAP
    <3>1. CASE phase = "done"
      <4>1. Cardinality(Cached(table)) = 0
        BY <3>1, FS_EmptySet DEF IInv, Owned
      <4>. QED BY <4>1, DispatcherAssumption DEF DispatcherAssumption
    <3>2. CASE phase # "done"
      BY <3>2, DispatcherAssumption DEF IInv, CacheInv, TypeOK, DispatcherAssumption
    <3>. QED BY <3>1, <3>2
  <2>5. Mapped = Es \/ Mapped = Es \cup {fresh}
    BY DEF IInv, Owned
  <2>6. Cardinality(Mapped) <= CAP + 1
    <3>. HIDE DEF Es
    <3>1. CASE Mapped = Es
      BY <2>3, <2>4, <3>1, DispatcherAssumption DEF DispatcherAssumption
    <3>2. CASE Mapped = Es \cup {fresh}
      <4>1. Cardinality(Mapped) \in {Cardinality(Es), Cardinality(Es) + 1}
        BY <2>3, <3>2, FS_AddElement
      <4>. QED BY <2>3, <2>4, <4>1, DispatcherAssumption DEF DispatcherAssumption
    <3>. QED BY <2>5, <3>1, <3>2
  <2>7. phase = "done" => Mapped = {}
    BY DEF IInv, Owned
  <2>. QED BY <2>6, <2>7 DEF IInv, Owned, MappingsOwned
<1>. QED BY <1>1, Invariance, PTL

-----------------------------------------------------------------------------
(* The table has room *)

\* A nonempty set of naturals has a least one.
LEMMA Least ==
  ASSUME NEW T, T \subseteq Nat, T # {}
  PROVE  \E x \in T : \A y \in T : x <= y
<1>. DEFINE R == OpToRel(<, Nat)
<1>1. IsWellFoundedOn(R, Nat)
  BY NatLessThanWellFounded
<1>2. \A u, v \in Nat : <<u, v>> \in R <=> u < v
  BY DEF OpToRel
<1>. HIDE DEF R
<1>3. PICK x \in T : \A y \in T : <<y, x>> \notin R
  BY <1>1, WFMin
<1>4. ASSUME NEW y \in T PROVE x <= y
  <2>1. x \in Nat /\ y \in Nat /\ ~(y < x)
    BY <1>2, <1>3
  <2>. QED BY <2>1
<1>. QED BY <1>4

\* The probe sequence of a PC reaches every slot, past the end of the table too.
LEMMA ProbeReaches ==
  ASSUME hash \in [Pcs -> Slot], NEW p \in Pcs, NEW s \in Slot
  PROVE  \E k \in Slot : s = Probe(p, k)
<1>. DEFINE h == hash[p]
            k == IF s >= h THEN s - h ELSE s + Slots - h
<1>0. h \in Slot /\ Slots \in Nat
  BY DispatcherAssumption DEF DispatcherAssumption
<1>. HIDE DEF h
<1>1. k \in Slot
  BY <1>0 DEF Slot
<1>2. s = IF h + k >= Slots THEN h + k - Slots ELSE h + k
  BY <1>0 DEF Slot
<1>. HIDE DEF k
<1>3. s = Probe(p, k)
  BY <1>0, <1>1, <1>2 DEF Probe, h, Slot
<1>. QED BY <1>1, <1>3

\* Fewer entries than slots: the insertion finds a slot, wherever it starts.
LEMMA RoomForOne ==
  ASSUME hash \in [Pcs -> Slot], NEW p \in Pcs, NEW t, Cardinality(Cached(t)) < Slots
  PROVE  oryx_cache_insert(t, p) # {}
<1>0. Slots \in Nat /\ Slots >= 1
  BY DispatcherAssumption DEF DispatcherAssumption
<1>1. Cardinality(Slot) = Slots
  BY <1>0, FS_Interval DEF Slot
<1>2. Cached(t) # Slot
  BY <1>0, <1>1
<1>3. PICK s \in Slot : t[s] = None
  BY <1>2 DEF Cached
<1>. DEFINE Free == { k \in Slot : t[Probe(p, k)] = None }
<1>4. Free # {} /\ Free \subseteq Nat
  BY <1>3, ProbeReaches DEF Slot
<1>5. PICK k \in Free : \A j \in Free : k <= j
  BY <1>4, Least
<1>6. k \in Slot /\ t[Probe(p, k)] = None /\ Probe(p, k) \in Slot
  BY <1>5, ProbeInTable
<1>7. ASSUME NEW j \in 0..(k - 1) PROVE t[Probe(p, j)] # None
  <2>1. j \in Slot /\ ~(k <= j)
    BY <1>0, <1>6 DEF Slot
  <2>. QED BY <1>5, <2>1
<1>. QED BY <1>6, <1>7 DEF oryx_cache_insert

\* A step from "insert" is one of Insert, and the cap leaves it a free slot.
LEMMA InsertRuns == IInv /\ [Next]_vars => [phase = "insert" => phase' = "run"]_vars
<1>. SUFFICES ASSUME IInv, Next, phase = "insert" PROVE phase' = "run"
  OBVIOUS
<1>0. /\ Slots \in Nat /\ CAP \in 1..Slots
      /\ hash \in [Pcs -> Slot] /\ pc \in Pcs
      /\ live \in Nat /\ live = Cardinality(Cached(table))
  BY DispatcherAssumption DEF DispatcherAssumption, IInv, TypeOK, CacheInv, LoopInv
<1>1. Insert
  BY DEF Next, Start, LoopExit, StepGuard, Lookup, Fetch, Map, Run, Cleanup
<1>2. CASE live >= CAP
  <2>1. oryx_cache_insert(Empty, pc) # {}
    BY <1>0, EmptyTable, RoomForOne
  <2>. QED BY <1>1, <1>2, <2>1 DEF Insert, InsertInto
<1>3. CASE ~(live >= CAP)
  <2>1. oryx_cache_insert(table, pc) # {}
    BY <1>0, <1>3, RoomForOne
  <2>. QED BY <1>1, <1>3, <2>1 DEF Insert, InsertInto
<1>. QED BY <1>2, <1>3

(***************************************************************************)
(* "full (guarded by CAP flush)": the refusal of a full table in           *)
(* oryx_run_program is dead code.  A block that was translated and mapped  *)
(* gets a slot and runs, whatever the hash, for every cap up to the size   *)
(* of the table.                                                           *)
(***************************************************************************)
THEOREM AlwaysRoom == Spec => InsertSucceeds
<1>1. IInv /\ [Next]_vars => [phase = "insert" => phase' = "run"]_vars
  BY InsertRuns
<1>. QED BY <1>1, Invariance, PTL DEF Spec, InsertSucceeds

-----------------------------------------------------------------------------
\* Every conditional branch reads flags that its own block has set.
FlagsLocal == \A g \in Programs, p \in Pcs : g[p].term = "BR" => g[p].sets

\* Running a cached block takes the guest where its own code would.
LEMMA RunRefines ==
  ASSUME FlagsLocal, IInv, Run
  PROVE  Guest!RunBlock
<1>. DEFINE b == prog[pc]
            l == code[table[ent].e]
<1>1. ent \in Cached(table) /\ table[ent].pc = pc /\ pc \in Pcs /\ phase = "run"
  BY DEF Run, IInv, CacheInv, TypeOK, LoopInv, Holds, Cached
<1>2. l = Linked(pc) /\ b.term \in Guest!Terminators
  BY <1>1 DEF IInv, CodeInv
<1>3. PICK f \in BOOLEAN, ret \in Guest!Target :
        flags' = (IF l.sets THEN f ELSE flags) /\ pc' = NextPc(l, f, ret)
  BY DEF Run
<1>4. b.target \in Guest!Target /\ b.next \in Guest!Target
  BY <1>1 DEF IInv, TypeOK, Guest!Block
<1>5. /\ b.term = "BR" => b.sets
      /\ l.sets = b.sets
  BY <1>1, <1>2, LinkedShape DEF FlagsLocal, IInv, LoopInv, TypeOK
<1>6. \E g \in (IF b.sets THEN BOOLEAN ELSE {flags}) :
        flags' = g /\ NextPc(l, f, ret) = Guest!Successor(b, g, ret)
  <2>1. CASE b.term = "BR"
    <3>1. l.stubs = <<b.next, b.target>>
      BY <1>1, <1>2, <2>1, LinkedShape DEF IInv, TypeOK
    <3>. HIDE DEF b, l
    <3>2. NextPc(l, f, ret) = IF f THEN b.target ELSE b.next
      BY <1>4, <3>1, Stubs DEF NextPc
    <3>. QED BY <1>3, <1>5, <2>1, <3>2 DEF Guest!Successor
  <2>2. CASE b.term \in {"JMP", "CALL"}
    <3>1. l.stubs = <<b.target>>
      BY <1>1, <1>2, <2>2, LinkedShape DEF IInv, TypeOK
    <3>. HIDE DEF b, l
    <3>2. NextPc(l, f, ret) = b.target
      BY <1>4, <3>1, Stubs DEF NextPc
    <3>. QED BY <1>3, <1>5, <2>2, <3>2 DEF Guest!Successor
  <2>3. CASE b.term \in {"RET", "X86RET"}
    <3>1. l.stubs = <<>> /\ l.pops = (b.term = "X86RET")
      BY <1>1, <1>2, <2>3, LinkedShape DEF IInv, TypeOK
    <3>. HIDE DEF b, l
    <3>a. Len(l.stubs) = 0
      BY <3>1
    <3>b. NextPc(l, f, ret) = IF l.pops THEN ret ELSE HALT
      BY <3>a DEF NextPc
    <3>2. NextPc(l, f, ret) = IF b.term = "X86RET" THEN ret ELSE HALT
      BY <3>1, <3>b
    <3>. QED BY <1>3, <1>5, <2>3, <3>2 DEF Guest!Successor
  <2>. QED BY <1>2, <2>1, <2>2, <2>3 DEF Guest!Terminators
<1>7. /\ rc = "running" /\ pc # HALT /\ steps < MaxSteps
      /\ steps' = steps + 1 /\ UNCHANGED <<prog, rc>>
  BY <1>1 DEF Run, IInv, LoopInv
<1>. QED BY <1>2, <1>3, <1>6, <1>7 DEF Guest!RunBlock

\* Every step of the dispatcher is a step of the guest program or invisible to it.
LEMMA StepRefines ==
  ASSUME FlagsLocal, IInv, [Next]_vars
  PROVE  [Guest!Next]_(Guest!gvars)
<1>. USE DEF Guest!gvars, Guest!Next
<1>1. CASE Start
  BY <1>1 DEF Start, Guest!Fail, Guest!Stop, IInv, LoopInv
<1>2. CASE LoopExit
  BY <1>2 DEF LoopExit, Break, Guest!Halt, Guest!Stop, IInv, LoopInv
<1>3. CASE StepGuard
  BY <1>3, DispatcherAssumption
     DEF StepGuard, Break, Guest!Guard, Guest!Stop, IInv, LoopInv, TypeOK, DispatcherAssumption
<1>4. CASE Lookup
  BY <1>4 DEF Lookup
<1>5. CASE Fetch
  BY <1>5 DEF Fetch, Break, Guest!Fail, Guest!Stop, IInv, LoopInv
<1>6. CASE Map
  BY <1>6 DEF Map, Break, Guest!Fail, Guest!Stop, IInv, LoopInv
<1>7. CASE Insert
  <2>1. PICK t, mem, n : InsertInto(t, mem, n)
    BY <1>7 DEF Insert
  <2>2. phase = "insert" /\ rc' \in {rc, "NOMEM"} /\ UNCHANGED <<prog, pc, flags, steps>>
    BY <2>1 DEF InsertInto
  <2>. QED BY <2>2 DEF Guest!Fail, Guest!Stop, IInv, LoopInv
<1>8. CASE Run
  BY <1>8, RunRefines
<1>9. CASE Cleanup
  BY <1>9 DEF Cleanup
<1>10. CASE UNCHANGED vars
  BY <1>10 DEF vars
<1>. QED BY <1>1, <1>2, <1>3, <1>4, <1>5, <1>6, <1>7, <1>8, <1>9, <1>10 DEF Next

(***************************************************************************)
(* oryx_run_program runs the guest program: for programs whose branches    *)
(* read flags set in their own block, every behaviour of the dispatcher,   *)
(* cache, flushes, mappings and errors hidden, is one of GuestProgram.     *)
(***************************************************************************)
THEOREM Refinement == ASSUME FlagsLocal PROVE Spec => Guest!SafeSpec
<1>1. Init => Guest!Init
  BY DEF Init
<1>2. IInv /\ [Next]_vars => [Guest!Next]_(Guest!gvars)
  BY StepRefines
<1>. QED BY <1>1, <1>2, Invariance, PTL DEF Spec, Guest!SafeSpec

=============================================================================

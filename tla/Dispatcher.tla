----------------------------- MODULE Dispatcher -----------------------------
(***************************************************************************)
(* oryx_run_program of src/liboryxrun/oryxrun.c: the dispatcher that       *)
(* translates, links, maps, caches and runs guest blocks, with its         *)
(* open-addressing block cache and the executable mappings it owns.        *)
(*                                                                         *)
(* Guest data is abstract: a block that sets the flags leaves either value *)
(* in them, a guest RET pops any return address.  The hash of a guest PC   *)
(* is an arbitrary function, so every pattern of collisions is covered.    *)
(***************************************************************************)
EXTENDS Naturals, FiniteSets, Sequences

CONSTANTS
  Pcs, HALT, Entry, MaxSteps, Programs,   \* as in GuestProgram
  Slots,      \* ORYX_CACHE_SLOTS
  CAP,        \* ORYX_CACHE_CAP
  Hashes,     \* the hash functions considered
  Maps,       \* addresses mmap can return
  None        \* unmapped, empty slot, no mapping

ASSUME DispatcherAssumption ==
  /\ HALT \notin Pcs /\ Entry \in Pcs
  /\ None \notin Maps /\ None \notin [pc : Pcs, e : Maps]
  /\ None \notin [stubs : Seq(Pcs \cup {HALT}), pops : BOOLEAN, sets : BOOLEAN]
  /\ MaxSteps \in Nat \ {0}
  /\ Slots \in Nat /\ CAP \in 1..Slots
  /\ Hashes \subseteq [Pcs -> 0..(Slots - 1)]

VARIABLES
  prog, pc, flags, steps, rc,   \* as in GuestProgram
  hash,      \* oryx_pc_hash & (ORYX_CACHE_SLOTS - 1)
  table,     \* cache: [pc, e] in a used slot, None in a free one
  live,      \* the dispatcher's count of cached blocks
  code,      \* code[m]: the linked block mapped at m, None if m is unmapped
  fresh,     \* e: the mapping not yet in the cache
  ent,       \* the slot about to be run
  phase      \* where the loop is

vars == <<prog, pc, flags, steps, rc, hash, table, live, code, fresh, ent, phase>>

Guest == INSTANCE GuestProgram
           WITH Pcs <- Pcs, HALT <- HALT, Entry <- Entry, MaxSteps <- MaxSteps,
                Programs <- Programs,
                prog <- prog, pc <- pc, flags <- flags, steps <- steps, rc <- rc

ASSUME ProgramAssumption == Programs \subseteq [Pcs -> Guest!Block]

Slot  == 0..(Slots - 1)
Empty == [s \in Slot |-> None]

-----------------------------------------------------------------------------
(* The translator's terminator and the linker *)

\* oryx_translate_ex: relocations and exits of the block at p.
oryx_translate_ex(p) ==
  LET b == prog[p]
  IN  [ relocs |-> IF b.term \in {"BR", "JMP", "CALL"} THEN <<b.target>> ELSE <<>>,
        exits  |-> CASE b.term = "BR"              -> <<b.target, b.next>>
                     [] b.term \in {"JMP", "CALL"} -> <<b.target>>
                     [] OTHER                      -> <<>>,
        pops   |-> b.term = "X86RET",
        sets   |-> b.sets ]

\* Mutant: the two exit stubs of a conditional branch are swapped.
MutMapLinked(tu) ==
  [ stubs |-> IF tu.relocs = <<>> THEN <<>>
              ELSE IF Len(tu.exits) >= 2 THEN <<tu.relocs[1], tu.exits[2]>>
              ELSE <<tu.relocs[1]>>,
    pops  |-> tu.pops, sets |-> tu.sets ]

\* oryx_exec_map_linked: the exit stubs behind the body, the fall-through first.
oryx_exec_map_linked(tu) ==
  [ stubs |-> IF tu.relocs = <<>> THEN <<>>
              ELSE IF Len(tu.exits) >= 2 THEN <<tu.exits[2], tu.relocs[1]>>
              ELSE <<tu.relocs[1]>>,
    pops  |-> tu.pops, sets |-> tu.sets ]

\* What x17 holds when linked code l returns, its branch taken or not.
NextPc(l, taken, ret) ==
  CASE Len(l.stubs) = 2 -> IF taken THEN l.stubs[2] ELSE l.stubs[1]
    [] Len(l.stubs) = 1 -> l.stubs[1]
    [] OTHER            -> IF l.pops THEN ret ELSE HALT

Linked(p) == oryx_exec_map_linked(oryx_translate_ex(p))

-----------------------------------------------------------------------------
(* The block cache *)

\* The k-th slot of p's probe sequence.
Probe(p, k) == LET i == hash[p] + k IN IF i >= Slots THEN i - Slots ELSE i

Holds(t, s, p) == t[s] # None /\ t[s].pc = p

\* The slot the lookup returns, as a set: {} for NULL.
oryx_cache_find(t, p) ==
  { s \in Slot : \E k \in Slot :
      /\ s = Probe(p, k) /\ Holds(t, s, p)
      /\ \A j \in 0..(k - 1) : t[Probe(p, j)] # None /\ t[Probe(p, j)].pc # p }

\* Mutant: the probe sequence starts one slot late.
MutCacheInsert(t, p) ==
  { s \in Slot : \E k \in Slot \ {0} :
      /\ s = Probe(p, k) /\ t[s] = None
      /\ \A j \in 1..(k - 1) : t[Probe(p, j)] # None }

\* Mutant: a collision is taken for a full table.
MutInsertHome(t, p) == { s \in Slot : s = Probe(p, 0) /\ t[s] = None }

\* The slot the insertion claims, as a set: {} when the table is full.
oryx_cache_insert(t, p) ==
  { s \in Slot : \E k \in Slot :
      /\ s = Probe(p, k) /\ t[s] = None
      /\ \A j \in 0..(k - 1) : t[Probe(p, j)] # None }

Cached(t) == { s \in Slot : t[s] # None }

\* Mutant: the slots are marked free but their mappings stay.
MutCacheFlush == code

\* oryx_cache_flush: unmaps what the table holds (and empties the table).
oryx_cache_flush ==
  [ m \in Maps |-> IF \E s \in Cached(table) : table[s].e = m THEN None ELSE code[m] ]

-----------------------------------------------------------------------------
(* oryx_run_program *)

TypeOK ==
  /\ prog \in [Pcs -> Guest!Block]
  /\ pc \in Pcs \cup {HALT}
  /\ flags \in BOOLEAN
  /\ steps \in 0..MaxSteps
  /\ rc \in {"running", "OK", "STEPS", "NOTFOUND", "FORMAT", "INVAL", "NOMEM", "PERM"}
  /\ hash \in [Pcs -> Slot]
  /\ table \in [Slot -> [pc : Pcs, e : Maps] \cup {None}]
  /\ live \in 0..CAP
  /\ code \in [Maps -> { Linked(p) : p \in Pcs } \cup {None}]
  /\ fresh \in Maps \cup {None}
  /\ ent \in Slot
  /\ phase \in {"start", "loop", "fetch", "map", "insert", "run", "flush", "done"}

Init ==
  /\ Guest!Init
  /\ hash \in Hashes
  /\ table = Empty /\ live = 0
  /\ code = [m \in Maps |-> None]
  /\ fresh = None /\ ent = 0
  /\ phase = "start"

Break(ret) ==
  /\ rc' = ret /\ phase' = "flush"
  /\ UNCHANGED <<prog, pc, flags, steps, hash, table, live, code, fresh, ent>>

\* calloc of the table; without it nothing has to be undone.
Start ==
  /\ phase = "start"
  /\ \/ phase' = "loop" /\ UNCHANGED rc
     \/ phase' = "done" /\ rc' = "NOMEM"
  /\ UNCHANGED <<prog, pc, flags, steps, hash, table, live, code, fresh, ent>>

LoopExit  == phase = "loop" /\ pc = HALT /\ Break("OK")

\* Mutant: "continue" for "break".
MutStepGuard ==
  /\ phase = "loop" /\ pc # HALT /\ steps >= MaxSteps
  /\ rc' = "STEPS"
  /\ UNCHANGED <<prog, pc, flags, steps, hash, table, live, code, fresh, ent, phase>>

StepGuard == phase = "loop" /\ pc # HALT /\ steps >= MaxSteps /\ Break("STEPS")

Lookup ==
  /\ phase = "loop" /\ pc # HALT /\ steps < MaxSteps
  /\ \/ \E s \in oryx_cache_find(table, pc) : ent' = s /\ phase' = "run"
     \/ oryx_cache_find(table, pc) = {} /\ phase' = "fetch" /\ UNCHANGED ent
  /\ UNCHANGED <<prog, pc, flags, steps, rc, hash, table, live, code, fresh>>

\* fetch, the test of its op count, oryx_translate_ex.
Fetch ==
  /\ phase = "fetch"
  /\ \/ /\ Guest!Refusal(prog[pc]) = {}
        /\ phase' = "map"
        /\ UNCHANGED <<prog, pc, flags, steps, rc, hash, table, live, code, fresh, ent>>
     \/ \E err \in Guest!Refusal(prog[pc]) : Break(err)
     \/ Break("NOMEM")

\* mmap, copy, link, mprotect; a failure leaves nothing mapped.
Map ==
  /\ phase = "map"
  /\ \/ \E m \in { a \in Maps : code[a] = None } :
          /\ code' = [code EXCEPT ![m] = Linked(pc)]
          /\ fresh' = m
          /\ phase' = "insert"
          /\ UNCHANGED <<prog, pc, flags, steps, rc, hash, table, live, ent>>
     \/ \E err \in {"NOMEM", "PERM"} : Break(err)

\* Claim a slot of table t for the fresh mapping; a full table would free the
\* mapping again and give up.
InsertInto(t, mem, n) ==
  LET room == oryx_cache_insert(t, pc)
  IN  /\ phase = "insert"
      /\ IF room = {}
         THEN /\ rc' = "NOMEM" /\ phase' = "flush"
              /\ code' = [mem EXCEPT ![fresh] = None]
              /\ table' = t /\ live' = n /\ UNCHANGED ent
         ELSE \E s \in room :
              /\ table' = [t EXCEPT ![s] = [pc |-> pc, e |-> fresh]]
              /\ code' = mem /\ live' = n + 1
              /\ ent' = s
              /\ phase' = "run" /\ UNCHANGED rc
      /\ fresh' = None
      /\ UNCHANGED <<prog, pc, flags, steps, hash>>

\* Mutant: live is not reset by the flush.
MutKeepLive == IF live >= CAP THEN InsertInto(Empty, oryx_cache_flush, live)
                              ELSE InsertInto(table, code, live)

\* The cache is flushed first if it is at its cap.
Insert == IF live >= CAP THEN InsertInto(Empty, oryx_cache_flush, 0)
                         ELSE InsertInto(table, code, live)

\* oryx_tramp(g->regs, ent->e.code).  The trampoline carries x0..x15 over, not the
\* flags: a block that does not set them branches on what the dispatcher's own
\* comparisons left in NZCV.
Run ==
  /\ phase = "run"
  /\ LET l == code[table[ent].e]
     IN  \E f \in BOOLEAN, ret \in Guest!Target :
           /\ flags' = IF l.sets THEN f ELSE flags
           /\ pc' = NextPc(l, f, ret)
  /\ steps' = steps + 1
  /\ phase' = "loop"
  /\ UNCHANGED <<prog, rc, hash, table, live, code, fresh, ent>>

\* The flush and free behind the loop; oryx_run_program returns rc.
Cleanup ==
  /\ phase = "flush"
  /\ code' = oryx_cache_flush
  /\ table' = Empty
  /\ phase' = "done"
  /\ UNCHANGED <<prog, pc, flags, steps, rc, hash, live, fresh, ent>>

Next ==
  \/ Start \/ LoopExit \/ StepGuard \/ Lookup
  \/ Fetch \/ Map \/ Insert
  \/ Run \/ Cleanup

\* One thread runs the loop to its end.
Spec == Init /\ [][Next]_vars /\ WF_vars(Next)

-----------------------------------------------------------------------------
Mapped == { m \in Maps : code[m] # None }

(***************************************************************************)
(* The cache finds what it holds: every used slot is the one, and the only *)
(* one, a lookup of its guest PC returns, however PCs collide and wherever *)
(* probe sequences wrap, and its mapping holds the linked translation of   *)
(* exactly that block.                                                     *)
(***************************************************************************)
CacheExact ==
  /\ \A s \in Cached(table) :
       /\ oryx_cache_find(table, table[s].pc) = {s}
       /\ code[table[s].e] = Linked(table[s].pc)
  /\ phase # "done" => live = Cardinality(Cached(table))
  /\ phase = "run" => Holds(table, ent, pc)

(***************************************************************************)
(* Executable memory is bounded and none is lost: each mapping belongs to  *)
(* one used slot or is the block being inserted, no two slots share one,   *)
(* at most CAP + 1 exist at a time, and when oryx_run_program returns, on  *)
(* any path, none is left.                                                 *)
(***************************************************************************)
MappingsOwned ==
  /\ Mapped = { table[s].e : s \in Cached(table) } \cup ({fresh} \ {None})
  /\ \A s, u \in Cached(table) : table[s].e = table[u].e => s = u
  /\ \A s \in Cached(table) : table[s].e # fresh
  /\ Cardinality(Mapped) <= CAP + 1
  /\ phase = "done" => Mapped = {}

(***************************************************************************)
(* "full (guarded by CAP flush)": a translated block always gets a slot,   *)
(* whatever the hash and however many distinct PCs the program visits.     *)
(***************************************************************************)
InsertSucceeds == [][phase = "insert" => phase' = "run"]_vars

(***************************************************************************)
(* "Branches, conditionals, and loops all work" (oryxrun.h): through       *)
(* misses, hits, flushes and errors the dispatcher runs the guest program, *)
(* block by block, as GuestProgram does, with GuestProgram's return codes. *)
(***************************************************************************)
RunsGuest == Guest!Spec

(***************************************************************************)
(* The runaway guard: oryx_run_program always returns.                     *)
(***************************************************************************)
Terminates == <>(phase = "done")

=============================================================================

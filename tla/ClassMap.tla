------------------------------ MODULE ClassMap ------------------------------
(***************************************************************************)
(* The offline memory-class map of src/liboryxmap/oryxmap.c: producers     *)
(* build maps and put them into the cache under an identity, a translator  *)
(* gets the map of the module it runs, looks its accesses up by binary     *)
(* search and asks oryx_mmap_decide for the ordering to emit.              *)
(*                                                                         *)
(* An identity stands for module hash, analyzer id, analyzer version and   *)
(* ISA; SHA-256 is collision-free, so an identity is its logical key.  The *)
(* store is CacheStore's, reduced to which blob each key's index names.    *)
(***************************************************************************)
EXTENDS Naturals, Sequences

CONSTANTS
  Modules,    \* guest modules
  Tags,       \* analyzer id, version and ISA
  Space,      \* 2^64: guest addresses are 0 .. Space - 1
  Blocks,     \* what oryx_mmap_classify is run on
  Proven,     \* <<module, pc>>: accesses whose address provably never escapes
  Foreign,    \* entry sequences other producers ship
  MaxPuts,    \* bound on oryx_mmap_cache_put calls
  None

Addr   == 0..(Space - 1)
Ident  == [module : Modules, tag : Tags]
\* A guest block: the positions of its LOADs and STOREs through RSP or RBP, of its
\* other LOADs and STOREs and of its atomics among its ops.
Block  == [pc : Addr, accesses : Seq([i : Nat, kind : {"STACK", "MEM", "ATOMIC"}])]
Entry  == [guest_pc : Addr, mclass : {"UNKNOWN", "LOCAL", "SHARED", "ATOMIC"},
           guard_required : BOOLEAN, escaped : BOOLEAN]
\* A stored blob: `formed' if magic, version and length are those of its entries.
Blob   == [ident : Ident, entries : Seq(Entry), formed : BOOLEAN]
Orders == {"RELAX", "TSO", "ATOMIC"}

\* Does a producer's entry relax an access nobody watches?
Free(e) == e.mclass = "LOCAL" /\ ~e.guard_required /\ ~e.escaped

Honest(b) ==
  \A k \in DOMAIN b.entries :
    Free(b.entries[k]) => <<b.ident.module, b.entries[k].guest_pc>> \in Proven

ASSUME ClassMapAssumption ==
  /\ Space \in Nat \ {0} /\ MaxPuts \in Nat
  /\ Blocks \subseteq Block
  /\ Proven \subseteq Modules \X Addr
  /\ Foreign \subseteq Seq(Entry)
  /\ None \notin Blob /\ None \notin Nat

VARIABLES
  index,      \* index[id]: the blob id's index entry names, None if there is none
  bad,        \* blobs whose bytes no longer hash to their address
  puts,       \* oryx_mmap_cache_put calls so far
  out, rc,    \* what oryx_mmap_cache_get filled in and returned
  want,       \* the identity the translator asked for
  phase,      \* "none": no map asked for; "ready"; "search": in oryx_mmap_lookup; "done"
  at, guard,  \* the access looked up; does the runtime guard confirm it?
  lo, hi,     \* the binary search's [lo, hi)
  hit,        \* the position found, None if there is no entry
  order       \* what oryx_mmap_decide said

store  == <<index, bad>>
search == <<phase, at, guard, lo, hi, hit, order>>
vars   == <<store, puts, out, rc, want, search>>

TypeOK ==
  /\ index \in [Ident -> Blob \cup {None}]
  /\ bad \subseteq Blob
  /\ puts \in 0..MaxPuts
  /\ out \in Seq(Entry)
  /\ rc \in {"OK", "NOTFOUND", "INTEGRITY", "FORMAT", "NOMEM"}
  /\ want \in Ident
  /\ phase \in {"none", "ready", "search", "done"}
  /\ at \in Addr /\ guard \in BOOLEAN
  /\ lo \in 0..Len(out) /\ hi \in 0..Len(out)
  /\ hit \in (DOMAIN out) \cup {None}
  /\ order \in Orders

-----------------------------------------------------------------------------
(* Building and storing maps *)

\* oryx_mmap_classify's entry for the i-th op (from 0) of a block at pc.
EntryOf(pc, i, kind) ==
  [ guest_pc |-> (pc + i) % Space,
    mclass |-> CASE kind = "STACK"  -> "LOCAL"
                 [] kind = "ATOMIC" -> "ATOMIC"
                 [] OTHER           -> "SHARED",
    guard_required |-> kind = "STACK",
    escaped |-> FALSE ]

\* One entry per access in op order; the other ops have none.
Classified(b) ==
  [ k \in DOMAIN b.accesses |-> EntryOf(b.pc, b.accesses[k].i, b.accesses[k].kind) ]

oryx_mmap_classify(id, b) == [ident |-> id, entries |-> Classified(b), formed |-> TRUE]

\* What reaches the cache: the reference classifier's maps, those of other
\* producers, and bytes that are no map at all.
Produced ==
  { oryx_mmap_classify(id, b) : id \in Ident, b \in Blocks } \cup
  { b \in [ident : Ident, entries : Foreign, formed : BOOLEAN] : Honest(b) }

\* Serialize, logical key, oryx_cache_put_blob.  A blob that is there already is
\* not written again, damaged or not.
oryx_mmap_cache_put(m) ==
  /\ puts < MaxPuts
  /\ index' = [index EXCEPT ![m.ident] = m]
  /\ puts' = puts + 1
  /\ UNCHANGED <<bad, out, rc, want, search>>

\* Storage altered: a blob no longer matches its address, or an index entry names
\* the blob of another.
Damage(id) ==
  /\ index[id] # None
  /\ bad' = bad \cup {index[id]}
  /\ UNCHANGED <<index, puts, out, rc, want, search>>

Redirect(id, other) ==
  /\ index[id] # None /\ index[other] # None
  /\ index' = [index EXCEPT ![id] = index[other]]
  /\ UNCHANGED <<bad, puts, out, rc, want, search>>

-----------------------------------------------------------------------------
(* Fetching a map *)

\* Every entry above the one before it, and so above all before it.
Ascending(es) == \A j, k \in DOMAIN es : j < k => es[j].guest_pc < es[k].guest_pc

\* Mutant: a map of any analyzer and module is taken.
MutVerifyIdentity(b, id) == TRUE

oryx_mmap_verify_identity(b, id) == b.ident = id

\* Return codes of oryx_mmap_parse.
oryx_mmap_parse(b) ==
  IF b.formed /\ Ascending(b.entries) THEN {"OK", "NOMEM"} ELSE {"FORMAT", "NOMEM"}

\* Return codes of oryx_mmap_cache_get, failing system calls (CacheStore) apart.
Fetched(id) ==
  LET b == index[id]
  IN  IF b = None THEN {"NOTFOUND"}
      ELSE IF b \in bad THEN {"INTEGRITY"}
      ELSE { IF r = "OK" /\ ~oryx_mmap_verify_identity(b, id) THEN "INTEGRITY" ELSE r :
               r \in oryx_mmap_parse(b) }

\* The translator keeps no map after a failed get.
oryx_mmap_cache_get(id) ==
  /\ phase \in {"none", "ready", "done"}
  /\ want' = id
  /\ rc' \in Fetched(id)
  /\ out' = IF rc' = "OK" THEN index[id].entries ELSE <<>>
  /\ phase' = "ready"
  /\ lo' = 0 /\ hi' = 0 /\ hit' = None /\ order' = "TSO"
  /\ UNCHANGED <<store, puts, at, guard>>

-----------------------------------------------------------------------------
(* Lookup and decision *)

oryx_mmap_decide(e, confirmed) ==
  CASE e.mclass = "ATOMIC" -> "ATOMIC"
    [] e.mclass = "LOCAL"  ->
         IF ~e.escaped /\ (e.guard_required => confirmed) THEN "RELAX" ELSE "TSO"
    [] OTHER               -> "TSO"

\* Mutant: the half-open interval starts one entry past the end of the array.
MutLookup(pc, confirmed) ==
  /\ phase \in {"ready", "done"}
  /\ at' = pc /\ guard' = confirmed
  /\ lo' = 0 /\ hi' = Len(out) + 1
  /\ hit' = None /\ order' = "TSO"
  /\ phase' = "search"
  /\ UNCHANGED <<store, puts, out, rc, want>>

\* The call: no map or no entries is no entry.
oryx_mmap_lookup(pc, confirmed) ==
  /\ phase \in {"ready", "done"}
  /\ at' = pc /\ guard' = confirmed
  /\ lo' = 0 /\ hi' = Len(out)
  /\ hit' = None /\ order' = "TSO"
  /\ phase' = "search"
  /\ UNCHANGED <<store, puts, out, rc, want>>

Mid == lo + (hi - lo) \div 2

\* Mutant: the middle stays in the interval.
MutGoUp ==
  /\ phase = "search" /\ lo < hi /\ out[Mid + 1].guest_pc < at
  /\ lo' = Mid
  /\ UNCHANGED <<store, puts, out, rc, want, phase, at, guard, hi, hit, order>>

\* One iteration of the loop: the upper half, the lower half, or a hit.
GoUp ==
  /\ phase = "search" /\ lo < hi /\ out[Mid + 1].guest_pc < at
  /\ lo' = Mid + 1
  /\ UNCHANGED <<store, puts, out, rc, want, phase, at, guard, hi, hit, order>>

\* Mutant: hi taken for the last position of the interval.
MutGoDown ==
  /\ phase = "search" /\ lo < hi /\ out[Mid + 1].guest_pc > at
  /\ hi' = IF Mid = 0 THEN 0 ELSE Mid - 1
  /\ UNCHANGED <<store, puts, out, rc, want, phase, at, guard, lo, hit, order>>

GoDown ==
  /\ phase = "search" /\ lo < hi /\ out[Mid + 1].guest_pc > at
  /\ hi' = Mid
  /\ UNCHANGED <<store, puts, out, rc, want, phase, at, guard, lo, hit, order>>

Hit ==
  /\ phase = "search" /\ lo < hi /\ out[Mid + 1].guest_pc = at
  /\ hit' = Mid + 1
  /\ order' = oryx_mmap_decide(out[Mid + 1], guard)
  /\ phase' = "done"
  /\ UNCHANGED <<store, puts, out, rc, want, at, guard, lo, hi>>

Miss ==
  /\ phase = "search" /\ lo >= hi
  /\ phase' = "done"
  /\ UNCHANGED <<store, puts, out, rc, want, at, guard, lo, hi, hit, order>>

-----------------------------------------------------------------------------
Init ==
  /\ index = [id \in Ident |-> None] /\ bad = {}
  /\ puts = 0
  /\ out = <<>> /\ rc = "OK"
  /\ want \in Ident /\ at = 0 /\ guard = FALSE
  /\ phase = "none"
  /\ lo = 0 /\ hi = 0 /\ hit = None /\ order = "TSO"

Storage ==
  \/ \E id \in Ident : Damage(id)
  \/ \E id, other \in Ident : Redirect(id, other)

Search == GoUp \/ GoDown \/ Hit \/ Miss

Consult ==
  \/ \E id \in Ident : oryx_mmap_cache_get(id)
  \/ \E pc \in Addr, g \in BOOLEAN : oryx_mmap_lookup(pc, g)
  \/ Search

Next ==
  \/ \E m \in Produced : oryx_mmap_cache_put(m)
  \/ Storage
  \/ Consult

\* A call of oryx_mmap_lookup runs to its end.
Spec == Init /\ [][Next]_vars /\ WF_vars(Search)

-----------------------------------------------------------------------------
(***************************************************************************)
(* Binary search finds exactly what the map holds: an entry that describes *)
(* the access if there is one, and none only if there is none, for every   *)
(* map that oryx_mmap_cache_get lets through.                              *)
(***************************************************************************)
LookupExact ==
  phase = "done" =>
    IF hit = None THEN \A k \in DOMAIN out : out[k].guest_pc # at
                  ELSE out[hit].guest_pc = at

(***************************************************************************)
(* The soundness contract ("never relaxes on doubt", oryxmap.h): whatever  *)
(* was put under whichever key, damaged, renamed or malformed, an access   *)
(* is relaxed only if the runtime guard confirms it or its address is      *)
(* proven not to escape in the very module that is running.                *)
(***************************************************************************)
RelaxJustified ==
  (phase = "done" /\ order = "RELAX") => (guard \/ <<want.module, at>> \in Proven)

(***************************************************************************)
(* oryx_mmap_lookup returns: the interval it searches shrinks to nothing.  *)
(***************************************************************************)
LookupEnds == phase = "search" ~> phase = "done"

=============================================================================

--------------------------- MODULE ClassMapProofs ---------------------------
(***************************************************************************)
(* Binary search over a fetched map is exact, and no access is relaxed     *)
(* without a reason, for every set of modules, analyzers, blocks and maps. *)
(***************************************************************************)
EXTENDS ClassMap, TLAPS

\* A claim that needs no guard is one its producer proved.
StoreHonest == \A id \in Ident : index[id] # None => Honest(index[id])

\* The map in use passed the parser, and its claims are about the running module.
OutSound ==
  /\ Ascending(out)
  /\ \A k \in DOMAIN out : Free(out[k]) => <<want.module, out[k].guest_pc>> \in Proven

\* What is below lo is too small, what is at or above hi too large.
SearchInv ==
  phase = "search" =>
    /\ lo <= hi /\ hit = None /\ order = "TSO"
    /\ \A k \in DOMAIN out : k <= lo => out[k].guest_pc < at
    /\ \A k \in DOMAIN out : k > hi => out[k].guest_pc > at

IInv == TypeOK /\ StoreHonest /\ OutSound /\ SearchInv /\ LookupExact /\ RelaxJustified

-----------------------------------------------------------------------------
\* An element of a sequence over S is in S.
LEMMA SeqElement ==
  ASSUME NEW S, NEW s \in Seq(S), NEW k \in DOMAIN s
  PROVE  s[k] \in S
OBVIOUS

\* Sums of addresses wrap into the address space.
LEMMA RemainderAddr ==
  ASSUME NEW a \in Nat, NEW i \in Nat
  PROVE  (a + i) % Space \in Addr
<1>1. Space \in Nat \ {0} /\ a + i \in Nat
  BY ClassMapAssumption
<1>2. \A n \in Nat : n % Space \in 0..(Space - 1)
  BY <1>1
<1>. QED  BY <1>1, <1>2, Zenon DEF Addr

\* Replacing the elements of a sequence gives a sequence.
LEMMA SeqOver ==
  ASSUME NEW S, NEW s \in Seq(S), NEW T, NEW f \in [DOMAIN s -> T]
  PROVE  f \in Seq(T)
<1>1. Len(s) \in Nat /\ DOMAIN s = 1..Len(s)
  OBVIOUS
<1>. QED  BY <1>1

\* What the reference classifier and the other producers store is a map whose
\* unguarded claims are proven: the classifier makes none.
LEMMA ProducedHonest ==
  ASSUME NEW m \in Produced
  PROVE  m \in Blob /\ Honest(m)
<1>1. CASE \E id \in Ident, b \in Blocks : m = oryx_mmap_classify(id, b)
  <2>1. PICK id \in Ident, b \in Blocks : m = oryx_mmap_classify(id, b)
    BY <1>1
  <2>2. /\ b.accesses \in Seq([i : Nat, kind : {"STACK", "MEM", "ATOMIC"}])
        /\ b.pc \in Addr
    BY ClassMapAssumption DEF Block
  <2>3. ASSUME NEW k \in DOMAIN b.accesses
        PROVE  /\ Classified(b)[k] \in Entry
               /\ ~Free(Classified(b)[k])
    <3>1. b.accesses[k] \in [i : Nat, kind : {"STACK", "MEM", "ATOMIC"}]
      BY <2>2, <2>3, SeqElement
    <3>2. (b.pc + b.accesses[k].i) % Space \in Addr
      <4>1. b.pc \in Nat /\ b.accesses[k].i \in Nat
        BY <2>2, <3>1 DEF Addr
      <4>. QED  BY <4>1, RemainderAddr
    <3>. QED  BY <3>1, <3>2 DEF Classified, EntryOf, Entry, Free
  <2>4. DOMAIN Classified(b) = DOMAIN b.accesses
    BY DEF Classified
  <2>5. Classified(b) \in Seq(Entry)
    <3>1. Classified(b) \in [DOMAIN b.accesses -> Entry]
      BY <2>3 DEF Classified
    <3>. QED  BY <2>2, <3>1, SeqOver
  <2>. QED  BY <2>1, <2>3, <2>4, <2>5 DEF oryx_mmap_classify, Blob, Honest
<1>2. CASE m \in { b \in [ident : Ident, entries : Foreign, formed : BOOLEAN] : Honest(b) }
  BY <1>2, ClassMapAssumption DEF Blob
<1>. QED  BY <1>1, <1>2 DEF Produced

\* oryx_mmap_decide relaxes a confirmed access or an unguarded claim only.
LEMMA DecideSound ==
  ASSUME NEW e \in Entry, NEW g \in BOOLEAN, oryx_mmap_decide(e, g) = "RELAX"
  PROVE  g \/ Free(e)
BY DEF oryx_mmap_decide, Free, Entry

\* A map that oryx_mmap_cache_get accepts is sorted and the requested one.
LEMMA FetchedSound ==
  ASSUME NEW id \in Ident, TypeOK, "OK" \in Fetched(id)
  PROVE  /\ index[id] # None
         /\ index[id] \in Blob
         /\ index[id].ident = id
         /\ Ascending(index[id].entries)
BY DEF Fetched, oryx_mmap_parse, oryx_mmap_verify_identity, TypeOK

\* The elements of the map in use are entries with addresses.
LEMMA OutTyped ==
  ASSUME TypeOK, NEW k \in DOMAIN out
  PROVE  k \in Nat /\ out[k] \in Entry /\ out[k].guest_pc \in Nat /\ at \in Nat
<1>1. out[k] \in Entry
  BY SeqElement DEF TypeOK
<1>. QED  BY <1>1 DEF TypeOK, Entry, Addr

\* lo + (hi - lo) / 2 stays inside the half-open interval of the search.
LEMMA MidBounds ==
  ASSUME TypeOK, lo < hi
  PROVE  /\ Mid \in Nat /\ lo <= Mid /\ Mid < hi
         /\ Mid + 1 \in DOMAIN out
         /\ out[Mid + 1] \in Entry
BY DEF TypeOK, Mid

-----------------------------------------------------------------------------
\* An empty cache with no map loaded satisfies the invariant.
LEMMA InitInv == Init => IInv
<1>. SUFFICES ASSUME Init PROVE IInv
  OBVIOUS
<1>1. out = <<>> /\ out \in Seq(Entry) /\ DOMAIN out = {} /\ Len(out) = 0
  BY DEF Init
<1>2. 0 \in Addr
  BY ClassMapAssumption DEF Addr
<1>3. TypeOK
  <2>1. index \in [Ident -> Blob \cup {None}] /\ bad \subseteq Blob /\ puts \in 0..MaxPuts
    BY ClassMapAssumption DEF Init
  <2>2. lo \in 0..Len(out) /\ hi \in 0..Len(out)
    BY <1>1 DEF Init
  <2>3. order \in Orders /\ hit \in (DOMAIN out) \cup {None}
    BY DEF Init, Orders
  <2>. QED  BY <1>1, <1>2, <2>1, <2>2, <2>3 DEF Init, TypeOK
<1>4. StoreHonest /\ SearchInv /\ LookupExact /\ RelaxJustified
  BY DEF Init, StoreHonest, SearchInv, LookupExact, RelaxJustified
<1>. QED  BY <1>1, <1>3, <1>4 DEF IInv, OutSound, Ascending

\* Putting, damaging and renaming blobs leaves the map in use alone.
LEMMA PutInv ==
  ASSUME IInv, NEW m \in Produced, oryx_mmap_cache_put(m)
  PROVE  IInv'
<1>1. m \in Blob /\ Honest(m) /\ m.ident \in Ident
  BY ProducedHonest DEF Blob
<1>2. TypeOK'
  BY <1>1, ClassMapAssumption DEF IInv, TypeOK, oryx_mmap_cache_put, search
<1>3. StoreHonest'
  BY <1>1 DEF IInv, TypeOK, StoreHonest, Honest, oryx_mmap_cache_put
<1>. QED
  BY <1>2, <1>3 DEF IInv, OutSound, SearchInv, LookupExact, RelaxJustified,
     oryx_mmap_cache_put, search

\* Damage to a stored blob or to the index keeps it: the map in use is a copy.
LEMMA StorageInv ==
  ASSUME IInv, Storage
  PROVE  IInv'
<1>1. TypeOK' /\ StoreHonest'
  BY DEF IInv, TypeOK, StoreHonest, Honest, Storage, Damage, Redirect, search
<1>. QED
  BY <1>1 DEF IInv, OutSound, SearchInv, LookupExact, RelaxJustified, Storage,
     Damage, Redirect, search

\* oryx_mmap_cache_get keeps it: it accepts nothing but the requested, sorted map.
LEMMA GetInv ==
  ASSUME IInv, NEW id \in Ident, oryx_mmap_cache_get(id)
  PROVE  IInv'
<1>1. rc' = "OK" => "OK" \in Fetched(id)
  BY DEF oryx_mmap_cache_get
<1>2. rc' \in {"OK", "NOTFOUND", "INTEGRITY", "FORMAT", "NOMEM"}
  BY DEF oryx_mmap_cache_get, Fetched, oryx_mmap_parse
<1>3. /\ out' \in Seq(Entry) /\ Ascending(out')
      /\ \A k \in DOMAIN out' : Free(out'[k]) => <<id.module, out'[k].guest_pc>> \in Proven
  <2>1. CASE rc' = "OK"
    BY <1>1, <2>1, FetchedSound DEF IInv, oryx_mmap_cache_get, Blob, StoreHonest, Honest
  <2>2. CASE rc' # "OK"
    BY <2>2 DEF oryx_mmap_cache_get, Ascending
  <2>. QED  BY <2>1, <2>2
<1>4. TypeOK'
  BY <1>2, <1>3 DEF IInv, TypeOK, oryx_mmap_cache_get, store, Orders
<1>. QED
  BY <1>3, <1>4 DEF IInv, StoreHonest, OutSound, SearchInv, LookupExact, RelaxJustified,
     oryx_mmap_cache_get, store

\* A call of oryx_mmap_lookup starts with the whole map as its interval.
LEMMA LookupInv ==
  ASSUME IInv, NEW pc \in Addr, NEW g \in BOOLEAN, oryx_mmap_lookup(pc, g)
  PROVE  IInv'
<1>1. TypeOK'
  BY DEF IInv, TypeOK, oryx_mmap_lookup, store, Orders
<1>2. SearchInv'
  BY DEF IInv, TypeOK, SearchInv, oryx_mmap_lookup
<1>. QED
  BY <1>1, <1>2 DEF IInv, StoreHonest, OutSound, LookupExact, RelaxJustified,
     oryx_mmap_lookup, store

\* One iteration of the binary search, and its end.
LEMMA SearchStepInv ==
  ASSUME IInv, Search
  PROVE  IInv'
<1>. USE DEF IInv
<1>1. UNCHANGED <<store, puts, out, rc, want, at, guard>> /\ phase = "search"
  BY DEF Search, GoUp, GoDown, Hit, Miss, store
<1>2. StoreHonest' /\ OutSound'
  BY <1>1 DEF StoreHonest, OutSound, store
<1>3. CASE GoUp
  <2>. USE <1>1, <1>3, MidBounds
  <2>1. TypeOK'
    BY DEF TypeOK, GoUp, store
  <2>2. \A k \in DOMAIN out : k <= Mid + 1 => out[k].guest_pc < at
    <3>1. Mid + 1 \in DOMAIN out /\ out[Mid + 1].guest_pc < at
      BY DEF GoUp
    <3>2. ASSUME NEW k \in DOMAIN out, k <= Mid + 1
          PROVE  out[k].guest_pc < at
      <4>1. k = Mid + 1 \/ out[k].guest_pc < out[Mid + 1].guest_pc
        BY <3>1, <3>2, OutTyped DEF OutSound, Ascending, GoUp
      <4>. QED  BY <3>1, <3>2, <4>1, OutTyped
    <3>. QED  BY <3>2
  <2>3. SearchInv'
    BY <2>2 DEF GoUp, SearchInv, TypeOK
  <2>. QED  BY <1>2, <2>1, <2>3 DEF GoUp, LookupExact, RelaxJustified
<1>4. CASE GoDown
  <2>. USE <1>1, <1>4, MidBounds
  <2>1. TypeOK'
    BY DEF TypeOK, GoDown, store
  <2>2. \A k \in DOMAIN out : k > Mid => out[k].guest_pc > at
    <3>1. Mid + 1 \in DOMAIN out /\ out[Mid + 1].guest_pc > at
      BY DEF GoDown
    <3>2. ASSUME NEW k \in DOMAIN out, k > Mid
          PROVE  out[k].guest_pc > at
      <4>1. k = Mid + 1 \/ out[k].guest_pc > out[Mid + 1].guest_pc
        BY <3>1, <3>2, OutTyped DEF OutSound, Ascending, GoDown
      <4>. QED  BY <3>1, <3>2, <4>1, OutTyped
    <3>. QED  BY <3>2
  <2>3. SearchInv'
    BY <2>2 DEF GoDown, SearchInv, TypeOK
  <2>. QED  BY <1>2, <2>1, <2>3 DEF GoDown, LookupExact, RelaxJustified
<1>5. CASE Hit
  <2>. USE <1>1, <1>5, MidBounds
  <2>1. order' \in Orders
    BY DEF Hit, oryx_mmap_decide, Orders
  <2>2. TypeOK'
    BY <2>1 DEF TypeOK, Hit, store
  <2>3. LookupExact'
    BY ClassMapAssumption DEF LookupExact, Hit
  <2>4. RelaxJustified'
    <3>1. order' = "RELAX" => guard \/ Free(out[Mid + 1])
      BY DecideSound DEF Hit, TypeOK
    <3>2. Free(out[Mid + 1]) => <<want.module, at>> \in Proven
      BY DEF Hit, OutSound
    <3>. QED  BY <3>1, <3>2 DEF RelaxJustified, Hit
  <2>. QED  BY <1>2, <2>2, <2>3, <2>4 DEF Hit, SearchInv
<1>6. CASE Miss
  <2>. USE <1>1, <1>6
  <2>1. TypeOK'
    BY DEF TypeOK, Miss, store
  <2>2. LookupExact'
    BY DEF LookupExact, Miss, SearchInv, TypeOK, Entry, Addr
  <2>. QED  BY <1>2, <2>1, <2>2 DEF Miss, SearchInv, RelaxJustified
<1>. QED  BY <1>3, <1>4, <1>5, <1>6 DEF Search

-----------------------------------------------------------------------------
(***************************************************************************)
(* The inductive invariant holds in every reachable state.                 *)
(***************************************************************************)
THEOREM Invariance == Spec => []IInv
<1>1. IInv /\ [Next]_vars => IInv'
  <2>. SUFFICES ASSUME IInv, [Next]_vars PROVE IInv'
    OBVIOUS
  <2>1. CASE Next
    BY <2>1, PutInv, StorageInv, GetInv, LookupInv, SearchStepInv DEF Next, Consult
  <2>2. CASE UNCHANGED vars
    BY <2>2 DEF vars, store, search, IInv, TypeOK, StoreHonest, OutSound, SearchInv,
       LookupExact, RelaxJustified
  <2>. QED  BY <2>1, <2>2
<1>. QED  BY InitInv, <1>1, PTL DEF Spec

(***************************************************************************)
(* Types, the search interval within the map included.                     *)
(***************************************************************************)
THEOREM Typing == Spec => []TypeOK
BY Invariance, PTL DEF IInv

(***************************************************************************)
(* oryx_mmap_lookup is exact on every map oryx_mmap_cache_get accepts,     *)
(* whatever its length.                                                    *)
(***************************************************************************)
THEOREM SearchCorrect == Spec => []LookupExact
BY Invariance, PTL DEF IInv

(***************************************************************************)
(* No access is relaxed on doubt: not by a map of another module, by a     *)
(* damaged, renamed or malformed blob, or by colliding ids of two blocks.  *)
(***************************************************************************)
THEOREM NeverOnDoubt == Spec => []RelaxJustified
BY Invariance, PTL DEF IInv

=============================================================================

------------------------------ MODULE AArch64 -------------------------------
(***************************************************************************)
(* The barrier-ordered-before relation of the AArch64 memory model, as far *)
(* as this repository's code relies on it: which of two memory accesses of *)
(* a thread must be performed before the other.  An access is its          *)
(* mnemonic.                                                               *)
(***************************************************************************)

Barriers == {"DMB_ISH", "DMB_ISHLD", "DMB_ISHST"}

Loads(x)  == x \in {"LDR", "LDAR", "LDAPR", "LDADDAL_XZR", "CASAL"}
Stores(x) == x \in {"STR", "STLR", "LDADDAL_XZR", "CASAL"}
\* An atomic whose destination is XZR loads without acquire semantics, and DMB ISHLD
\* does not wait for its load.
Acquires(x)   == x \in {"LDAR", "LDAPR", "CASAL"}
AcquiresSc(x) == x \in {"LDAR", "CASAL"}
Releases(x)   == x \in {"STLR", "LDADDAL_XZR", "CASAL"}

\* Must `first' be performed before `second', with the barriers `between' them?
\* same: do they access one location?  writes: does `second', if a CASAL, store?
MustPrecede(first, second, between, same, writes) ==
  LET stores == Stores(second) /\ (second = "CASAL" => writes)
  IN  \/ "DMB_ISH" \in between
      \/ "DMB_ISHLD" \in between /\ Loads(first) /\ first # "LDADDAL_XZR"
      \/ "DMB_ISHST" \in between /\ Stores(first) /\ stores
      \/ Acquires(first)
      \/ Releases(second) /\ stores
      \/ Releases(first) /\ AcquiresSc(second)
      \/ same /\ (Loads(first) \/ Stores(second))

=============================================================================

----------------------------- MODULE MCMemModel -----------------------------
(***************************************************************************)
(* A small instance of MemModel.  Cores are interchangeable, because Init  *)
(* quantifies over every machine and mask; so are threads of one kind.     *)
(***************************************************************************)
EXTENDS MemModel, TLC

Kind(t) == <<t \in Pinned, t \in Closers>>

Symmetry ==
  Permutations(Cpus) \cup
  { p \in Permutations(Threads) : \A t \in Threads : Kind(p[t]) = Kind(t) }

=============================================================================

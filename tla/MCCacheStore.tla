---------------------------- MODULE MCCacheStore ----------------------------
(***************************************************************************)
(* Small instances of CacheStore: two workers, in two processes or in one. *)
(***************************************************************************)
EXTENDS CacheStore, TLC

CONSTANTS w1, w2, p1, p2

OwnPids   == (w1 :> p1) @@ (w2 :> p2)
SharedPid == (w1 :> p1) @@ (w2 :> p1)

\* Two processes that may lose power, or whose files are altered; two threads of one.
MC_Settings == { [pid |-> OwnPids, rot |-> FALSE, lose |-> TRUE],
                 [pid |-> OwnPids, rot |-> TRUE, lose |-> FALSE],
                 [pid |-> SharedPid, rot |-> FALSE, lose |-> FALSE] }
MC_Threads  == { [pid |-> SharedPid, rot |-> FALSE, lose |-> FALSE] }

\* An inode no final name and no descriptor refers to is truncated before its
\* content can be read again, and no action looks at an old return code: states
\* that differ only there are the same.
Live(f, i) ==
  \/ dir[Final(f)] = i
  \/ \E w \in Workers : wk[w].file = f /\ wk[w].ino = i

View ==
  << env, dir, [f \in Files |-> [i \in Slots |-> IF Live(f, i) THEN data[f][i] ELSE <<>>]],
     { x \in synced : Live(x[1], x[2]) }, disk,
     [w \in Workers |-> IF wk[w].pc = "idle" /\ wk[w].op = "none" THEN Idle ELSE wk[w]],
     calls, put, stored, forged >>

Symmetry == Permutations(Payloads) \cup Permutations(Keys)

=============================================================================

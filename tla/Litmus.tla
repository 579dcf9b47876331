------------------------------- MODULE Litmus -------------------------------
(***************************************************************************)
(* The litmus detector, experiments/phase0-tso-probe/litmus/oryx_litmus.c: *)
(* two or three worker threads run one litmus test per round, between a    *)
(* gate that main opens and done counters that main waits for, and main    *)
(* counts the rounds in which the outcome of interest was seen.            *)
(*                                                                         *)
(* The detector is itself a concurrent program on the weakly ordered       *)
(* machine it measures, so nothing in it is taken to be ordered but what   *)
(* its acquire and release accesses, its barriers and its data             *)
(* dependencies order: each actor's accesses are performed one by one in   *)
(* any order AArch64 allows (external, module AArch64).  A spinning        *)
(* wait_gate is the one load of it that ends the loop.                     *)
(***************************************************************************)
EXTENDS Naturals, Sequences, AArch64

CONSTANTS
  Configs,    \* what parse_args leaves behind: test, map, fenced, request
  Iters       \* g_iters, rounds

ASSUME LitmusAssumption ==
  /\ Iters \in Nat
  /\ \A c \in Configs : /\ c.test \in {"mp", "sb", "wrc"}
                        /\ c.map \in {"plain", "rcpc", "sc", "dmb"}
                        /\ c.fenced \in BOOLEAN /\ c.request \in BOOLEAN

VARIABLES
  cfg,         \* the options
  status,      \* of the process: "start", "run", "failed", "reported"
  tso,         \* tso[t]: "no", or what the kernel answered thread t: "yes", "denied"
  g_tso_granted,
  prog,        \* prog[t][i]: the instructions of actor t in round i
  order,       \* order[t]: what the machine keeps of their order
  mem,         \* shared_t: the value each location holds and the round that wrote it
  done,        \* the accesses performed
  reg,         \* reg[e]: what the load e returned
  witnesses, total,
  report       \* what main prints about hardware TSO

vars == <<cfg, prog, order, status, tso, g_tso_granted, mem, done, reg, witnesses, total, report>>

Workers(c) == IF c.test = "wrc" THEN {"t0", "t1", "t2"} ELSE {"t0", "t1"}
Actors(c)  == Workers(c) \cup {"main"}
Locs    == {"x", "y", "gate_go", "t0_done", "t1_done", "t2_done",
            "t0_a", "t1_a", "t1_b", "t2_a", "t2_b"}

-----------------------------------------------------------------------------
(* One round of each actor, as a sequence of instructions.  A load fills register *)
(* r; a store of a register stores it, and depends on the load that fills it.  A  *)
(* load's val is the least value that ends its spinning.                          *)

Insn(op, loc, val, r) == [op |-> op, loc |-> loc, val |-> val, r |-> r]
None == "none"
Dmb(kind) == Insn(kind, None, 0, None)

map_store(c, loc) ==
  CASE c.map \in {"rcpc", "sc"} -> <<Insn("STLR", loc, 1, None)>>
    [] c.map = "dmb"            -> <<Dmb("DMB_ISHST"), Insn("STR", loc, 1, None)>>
    [] c.map = "plain"          -> <<Insn("STR", loc, 1, None)>>

\* Mutant: the dmb mapping without the barrier behind its load.
MutMapLoad(c, loc, r) ==
  <<Insn(CASE c.map = "rcpc" -> "LDAPR" [] c.map = "sc" -> "LDAR" [] OTHER -> "LDR",
         loc, 0, r)>>

map_load(c, loc, r) ==
  CASE c.map = "rcpc"  -> <<Insn("LDAPR", loc, 0, r)>>
    [] c.map = "sc"    -> <<Insn("LDAR", loc, 0, r)>>
    [] c.map = "dmb"   -> <<Insn("LDR", loc, 0, r), Dmb("DMB_ISHLD")>>
    [] c.map = "plain" -> <<Insn("LDR", loc, 0, r)>>

barrier_full(c) == IF c.map = "plain" /\ c.fenced THEN <<Dmb("DMB_ISH")>> ELSE <<>>

\* Mutant: waits for one round too many.
MutWaitGate(loc, i) == Insn("LDAR", loc, i + 1, None)

wait_gate(loc, i) == Insn("LDAR", loc, i, None)

\* Mutant: a relaxed store.
MutSignal(loc, i) == Insn("STR", loc, i, None)

\* atomic_store_explicit(loc, i, memory_order_release)
Signal(loc, i) == Insn("STLR", loc, i, None)

Keep(loc, r)  == Insn("STR", loc, 0, r)
Fetch(loc, r) == Insn("LDR", loc, 0, r)
Reset(loc)    == Insn("STR", loc, 0, None)

thread0(c, i) ==
  <<wait_gate("gate_go", i)>>
    \o (CASE c.test = "mp"  -> map_store(c, "x") \o barrier_full(c) \o map_store(c, "y")
          [] c.test = "wrc" -> map_store(c, "x")
          [] c.test = "sb"  -> map_store(c, "x") \o barrier_full(c) \o map_load(c, "y", "r0")
                                   \o <<Keep("t0_a", "r0")>>)
    \o <<Signal("t0_done", i)>>

thread1(c, i) ==
  <<wait_gate("gate_go", i)>>
    \o (CASE c.test = "mp"  -> map_load(c, "y", "r1") \o barrier_full(c) \o map_load(c, "x", "r2")
                                   \o <<Keep("t1_a", "r1"), Keep("t1_b", "r2")>>
          [] c.test = "wrc" -> map_load(c, "x", "r1") \o <<Keep("t1_a", "r1")>> \o map_store(c, "y")
          [] c.test = "sb"  -> map_store(c, "y") \o barrier_full(c) \o map_load(c, "x", "r1")
                                   \o <<Keep("t1_a", "r1")>>)
    \o <<Signal("t1_done", i)>>

thread2(c, i) ==
  <<wait_gate("gate_go", i)>>
    \o (map_load(c, "y", "r2") \o map_load(c, "x", "r3")
          \o <<Keep("t2_a", "r2"), Keep("t2_b", "r3")>>)
    \o <<Signal("t2_done", i)>>

\* The body of main's loop up to the evaluation.
main(c, i) ==
  <<Reset("x"), Reset("y"), Signal("gate_go", i), wait_gate("t0_done", i),
    wait_gate("t1_done", i)>>
    \o (CASE c.test = "mp"  -> <<Fetch("t1_a", "r1"), Fetch("t1_b", "r2")>>
          [] c.test = "wrc" -> <<wait_gate("t2_done", i), Fetch("t1_a", "r1"),
                                 Fetch("t2_a", "r2"), Fetch("t2_b", "r3")>>
          [] c.test = "sb"  -> <<Fetch("t0_a", "r0"), Fetch("t1_a", "r1")>>)

Round(c, t, i) ==
  CASE t = "t0" -> thread0(c, i) [] t = "t1" -> thread1(c, i)
    [] t = "t2" -> thread2(c, i) [] t = "main" -> main(c, i)

-----------------------------------------------------------------------------
(* The machine.  <<t, i, k>> is instruction k of actor t's round i. *)

At(e) == prog[e[1]][e[2]][e[3]]

Events(t) == UNION { { <<t, i, k>> : k \in DOMAIN prog[t][i] } : i \in DOMAIN prog[t] }

Accesses(t) == { e \in Events(t) : At(e).op \notin Barriers }

Before(d, e) == d[2] < e[2] \/ (d[2] = e[2] /\ d[3] < e[3])

\* For each access of t the earlier ones that must be performed before it, on the
\* machine as it comes or for a thread that the kernel put in TSO mode, which keeps
\* every order but store before load.
Order(t, strong) ==
  LET Between(d, e) == Barriers \cap
                         { At(b).op : b \in { f \in Events(t) : Before(d, f) /\ Before(f, e) } }
      Precedes(d, e) ==
        \/ MustPrecede(At(d).op, At(e).op, Between(d, e), At(d).loc = At(e).loc, TRUE)
        \/ strong /\ (Loads(At(d).op) \/ Stores(At(e).op))
        \/ At(e).r # None /\ At(d).r = At(e).r /\ d[2] = e[2]      \* data dependency
  IN  [e \in Accesses(t) |-> { d \in Accesses(t) : Before(d, e) /\ Precedes(d, e) }]

Pending(t) == DOMAIN order[t] \ done

Register(t, i, r) ==
  reg[CHOOSE e \in DOMAIN reg : e[1] = t /\ e[2] = i /\ At(e).r = r].val

Init ==
  /\ cfg \in Configs
  /\ status = "start"
  /\ tso = [t \in Actors(cfg) |-> IF cfg.request /\ t # "main" THEN "ask" ELSE "no"]
  /\ prog = [t \in Actors(cfg) |-> [i \in 1..Iters |-> Round(cfg, t, i)]]
  /\ order = [t \in Actors(cfg) |-> Order(t, FALSE)]
  /\ g_tso_granted = 0
  /\ mem = [l \in Locs |-> [val |-> 0, round |-> 0]]         \* memset
  /\ done = {} /\ reg = [e \in {} |-> 0]
  /\ witnesses = 0 /\ total = 0
  /\ report = None

\* The shared block and the threads are allocated, or main returns 1.
Create ==
  /\ status = "start"
  /\ status' \in {"run", "failed"}
  /\ UNCHANGED <<cfg, prog, order, tso, g_tso_granted, mem, done, reg, witnesses, total, report>>

\* A worker that could not be pinned runs on, and one that was not granted does too.
try_request_tso(t) ==
  /\ status = "run" /\ tso[t] = "ask"
  /\ \/ /\ tso' = [tso EXCEPT ![t] = "yes"] /\ g_tso_granted' = g_tso_granted + 1
        /\ order' = [order EXCEPT ![t] = Order(t, TRUE)]
     \/ tso' = [tso EXCEPT ![t] = "denied"] /\ UNCHANGED <<g_tso_granted, order>>
  /\ UNCHANGED <<cfg, prog, status, mem, done, reg, witnesses, total, report>>

\* A load, the last one of a spinning wait_gate among them.
Load(e) ==
  LET in == At(e)
  IN  /\ Loads(in.op) /\ mem[in.loc].val >= in.val
      /\ reg' = [d \in DOMAIN reg \cup {e} |-> IF d = e THEN mem[in.loc] ELSE reg[d]]
      /\ UNCHANGED mem

Store(e) ==
  LET in == At(e)
      v  == IF in.r = None THEN in.val ELSE Register(e[1], e[2], in.r)
  IN  /\ Stores(in.op)
      /\ mem' = [mem EXCEPT ![in.loc] = [val |-> v, round |-> e[2]]]
      /\ UNCHANGED reg

Access(t) ==
  /\ status = "run" /\ tso[t] # "ask"
  /\ \E e \in Pending(t) :
       /\ order[t][e] \cap Pending(t) = {}
       /\ Load(e) \/ Store(e)
       /\ done' = done \cup {e}
  /\ UNCHANGED <<cfg, prog, order, status, tso, g_tso_granted, witnesses, total, report>>

\* The outcome of interest in round i, from main's registers.
Witness(i) ==
  LET R(r) == Register("main", i, r)
  IN  CASE cfg.test = "mp"  -> R("r1") = 1 /\ R("r2") = 0
        [] cfg.test = "wrc" -> R("r1") = 1 /\ R("r2") = 1 /\ R("r3") = 0
        [] cfg.test = "sb"  -> R("r0") = 0 /\ R("r1") = 0

\* main has its registers of the round: it evaluates them.  The variables of the
\* loop bodies end with the round.
Evaluate ==
  /\ status = "run" /\ total < Iters
  /\ \A e \in Pending("main") : e[2] # total + 1
  /\ witnesses' = IF Witness(total + 1) THEN witnesses + 1 ELSE witnesses
  /\ total' = total + 1
  /\ reg' = [e \in { d \in DOMAIN reg : d[2] > total + 1 } |-> reg[e]]
  /\ UNCHANGED <<cfg, prog, order, status, tso, g_tso_granted, mem, done, report>>

\* The threads are joined and the result printed.
Report ==
  /\ status = "run" /\ total = Iters
  /\ \A t \in Workers(cfg) : Pending(t) = {} /\ tso[t] # "ask"
  /\ status' = "reported"
  /\ report' = IF ~cfg.request THEN None
               ELSE IF g_tso_granted = 2 THEN "GRANTED" ELSE "DENIED"
  /\ UNCHANGED <<cfg, prog, order, tso, g_tso_granted, mem, done, reg, witnesses, total>>

Worker(t) == t \in Workers(cfg) /\ (try_request_tso(t) \/ Access(t))
Main == Create \/ Access("main") \/ Evaluate \/ Report

Next == Main \/ \E t \in {"t0", "t1", "t2"} : Worker(t)

Spec == Init /\ [][Next]_vars
             /\ WF_vars(Main) /\ \A t \in {"t0", "t1", "t2"} : WF_vars(Worker(t))

-----------------------------------------------------------------------------
(***************************************************************************)
(* A round sees itself only: every value a worker takes of x and y, and    *)
(* every result main evaluates, was written in the same round, although    *)
(* x, y and the results are accessed without ordering of their own.  A     *)
(* value left over from another round would be counted as a reordering.    *)
(***************************************************************************)
RoundsApart == \A e \in DOMAIN reg : At(e).r # None => reg[e].round = e[2]

(***************************************************************************)
(* The verdicts of the detector (oryx_litmus.c 151-158 and 36-37): the     *)
(* forbidden outcome of MP and WRC is never counted under the rcpc, sc and *)
(* dmb mappings, nor the store-buffering outcome under sc, nor either of   *)
(* MP and SB in fenced mode, nor MP when the report says that the kernel   *)
(* granted TSO.                                                            *)
(***************************************************************************)
NoFalseWitness ==
  \/ witnesses = 0
  \/ cfg.test = "sb" /\ cfg.map # "sc" /\ ~(cfg.map = "plain" /\ cfg.fenced)
  \/ cfg.map = "plain" /\ cfg.test = "wrc"
  \/ cfg.map = "plain" /\ cfg.test = "mp" /\ ~cfg.fenced /\ report # "GRANTED"

(***************************************************************************)
(* The detector ends: no gate is left waiting for a round that nobody      *)
(* opens, whatever is denied and however the threads are scheduled.        *)
(***************************************************************************)
Finishes == <>(status \in {"failed", "reported"})

=============================================================================

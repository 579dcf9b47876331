------------------------------- MODULE MemModel -------------------------------
(***************************************************************************)
(* The oryx_memmodel driver (src/kmod/oryx_memmodel/oryx_memmodel.c) and   *)
(* its userspace client liboryxmm (oryxmm.c).                              *)
(*                                                                         *)
(* A thread that opens /dev/oryx_memmodel and issues ENABLE_TSO gets the   *)
(* memory-ordering control bit of whatever core it runs on: a preempt      *)
(* notifier sets it when the thread is scheduled in and clears it when the *)
(* thread is scheduled out.  Between two statements of the driver that are *)
(* not inside preempt_disable() the scheduler may take the core away and   *)
(* resume the thread on another one, so each such statement is an action.  *)
(*                                                                         *)
(* The client obeys the ABI header: one fd per thread, used only by that   *)
(* thread; a grant is therefore named by its thread.  The scheduler, the   *)
(* notifier list and the affinity syscalls belong to the kernel and are    *)
(* modelled from how the driver uses them.  Assumed of the kernel: the     *)
(* callbacks of a registered notifier run.  The driver registers without   *)
(* calling preempt_notifier_inc(), so on a kernel that guards the          *)
(* callbacks with a static key another user (KVM) must have turned it on.  *)
(***************************************************************************)

CONSTANTS
  Threads,        \* threads of the translated process
  Cpus,           \* online cores
  Off,            \* "not running on any core"
  Pinned,         \* threads whose affinity nobody changes while they hold a grant
  Closers         \* threads that close their fd before they exit

ASSUME ConstAssumption ==
  /\ Threads # {} /\ Cpus # {}
  /\ Off \notin Cpus
  /\ Pinned \subseteq Threads /\ Closers \subseteq Threads

VARIABLES
  mod,       \* module parameters, fixed at load time, and the cores a mask can name
  cpu,       \* cpu[t]: the core t runs on, or Off
  allowed,   \* allowed[t]: affinity mask of t
  bit,       \* bit[c]: the ordering control bit of core c
  opened,    \* threads with an open fd (a live struct oryx_grant)
  enabled,   \* grants with g->enabled
  linked,    \* grants whose notifier is on their thread's list
  pc,        \* pc[t]: where t is in user space or in the driver
  closing,   \* threads whose oryx_disable was called by oryx_release
  order,     \* order[t]: who orders t's guest accesses, translator or hardware
  stray      \* history: cores a thread left, bit set, in the middle of oryx_disable

vars == <<mod, cpu, allowed, bit, opened, enabled, linked, pc, closing, order, stray>>

\* A mask has bits for the cores numbered below BITS_PER_LONG (named).
Parameters ==
  { m \in [confirmed : BOOLEAN, limited : BOOLEAN, named : SUBSET Cpus, eligible : SUBSET Cpus] :
      m.eligible \subseteq m.named }

UserSpace == {"user"}
Enabling  == {"en_mask", "en_register", "en_flag", "en_apply"}
Disabling == {"dis_unregister", "dis_apply"}

TypeOK ==
  /\ mod \in Parameters
  /\ cpu \in [Threads -> Cpus \cup {Off}]
  /\ allowed \in [Threads -> SUBSET Cpus]
  /\ bit \in [Cpus -> BOOLEAN]
  /\ opened \subseteq Threads
  /\ enabled \subseteq opened
  /\ linked \subseteq Threads
  /\ pc \in [Threads -> UserSpace \cup Enabling \cup Disabling \cup {"dead"}]
  /\ closing \subseteq Threads
  /\ order \in [Threads -> {"software", "hardware"}]
  /\ stray \subseteq Cpus

(***************************************************************************)
(* oryx_eligible = ~0UL ("any core") sets the bit of every core the mask   *)
(* can name, which is not every core of a machine with more than           *)
(* BITS_PER_LONG; any other value is a restriction, even one that names    *)
(* every online core.                                                      *)
(***************************************************************************)
Init ==
  /\ mod \in { m \in Parameters : ~m.limited => m.eligible = m.named }
  /\ cpu = [t \in Threads |-> Off]
  /\ allowed = [t \in Threads |-> Cpus]
  /\ bit = [c \in Cpus |-> FALSE]
  /\ opened = {} /\ enabled = {} /\ linked = {} /\ closing = {}
  /\ pc = [t \in Threads |-> "user"]
  /\ order = [t \in Threads |-> "software"]
  /\ stray = {}

Running(t) == cpu[t] # Off

oryx_core_eligible(c) == c \in mod.named /\ c \in mod.eligible

(***************************************************************************)
(* oryx_apply writes the bit of the core the caller is on.                 *)
(***************************************************************************)
oryx_apply(c, on) ==
  /\ bit' = [bit EXCEPT ![c] = on]
  /\ stray' = IF on THEN stray ELSE stray \ {c}

(***************************************************************************)
(* The scheduler, with the driver's two notifier callbacks.  A callback    *)
(* runs only for a thread whose notifier is linked.                        *)
(***************************************************************************)
\* Mutant: forgets the eligibility test.
MutSchedIn(t, c) ==
  IF t \in linked /\ t \in enabled THEN oryx_apply(c, TRUE) ELSE UNCHANGED <<bit, stray>>

oryx_sched_in(t, c) ==
  IF t \in linked /\ t \in enabled /\ oryx_core_eligible(c)
  THEN oryx_apply(c, TRUE)
  ELSE UNCHANGED <<bit, stray>>

LeftMidDisable(t, c) == IF pc[t] \in Disabling /\ bit[c] THEN {c} ELSE {}

oryx_sched_out(t, c) ==
  IF t \in linked /\ t \in enabled
  THEN oryx_apply(c, FALSE)
  ELSE /\ bit' = bit
       /\ stray' = stray \cup LeftMidDisable(t, c)

SchedIn(t, c) ==
  /\ ~Running(t) /\ pc[t] # "dead"
  /\ c \in allowed[t]
  /\ \A u \in Threads : cpu[u] # c
  /\ cpu' = [cpu EXCEPT ![t] = c]
  /\ oryx_sched_in(t, c)
  /\ UNCHANGED <<mod, allowed, opened, enabled, linked, pc, closing, order>>

SchedOut(t) ==
  /\ Running(t)
  /\ oryx_sched_out(t, cpu[t])
  /\ cpu' = [cpu EXCEPT ![t] = Off]
  /\ UNCHANGED <<mod, allowed, opened, enabled, linked, pc, closing, order>>

(***************************************************************************)
(* A new affinity mask takes effect at once: a thread on a core that left  *)
(* the mask is descheduled and waits to be placed elsewhere.               *)
(***************************************************************************)
Confine(t, mask) ==
  /\ allowed' = [allowed EXCEPT ![t] = mask]
  /\ IF Running(t) /\ cpu[t] \notin mask
     THEN /\ oryx_sched_out(t, cpu[t])
          /\ cpu' = [cpu EXCEPT ![t] = Off]
     ELSE UNCHANGED <<cpu, bit, stray>>

\* sched_setaffinity or a cpuset move, by whoever manages the thread.
SetAffinity(t, mask) ==
  /\ pc[t] # "dead"
  /\ t \in Pinned => pc[t] = "user" /\ t \notin enabled
  /\ mask # {} /\ mask # allowed[t]
  /\ Confine(t, mask)
  /\ UNCHANGED <<mod, opened, enabled, linked, pc, closing, order>>

(***************************************************************************)
(* The fd: oryx_mm_open / oryx_open.                                       *)
(***************************************************************************)
Open(t) ==
  /\ Running(t) /\ pc[t] = "user" /\ t \notin opened
  /\ opened' = opened \cup {t}
  /\ UNCHANGED <<mod, cpu, allowed, bit, enabled, linked, pc, closing, order, stray>>

(***************************************************************************)
(* ENABLE_TSO.  Only when the ioctl returns 0 does the emulator stop       *)
(* ordering the thread's accesses in software.                             *)
(***************************************************************************)
Enable(t) ==
  /\ Running(t) /\ pc[t] = "user" /\ t \in opened
  /\ \/ /\ ~mod.confirmed                                      \* -ENODEV
        /\ UNCHANGED <<pc, order>>
     \/ /\ mod.confirmed /\ t \in enabled                      \* already on: 0
        /\ order' = [order EXCEPT ![t] = "hardware"]
        /\ UNCHANGED pc
     \/ /\ mod.confirmed /\ t \notin enabled
        /\ pc' = [pc EXCEPT ![t] = IF mod.limited THEN "en_mask" ELSE "en_register"]
        /\ UNCHANGED order
  /\ UNCHANGED <<mod, cpu, allowed, bit, opened, enabled, linked, closing, stray>>

\* Mutant: the result of set_cpus_allowed_ptr is returned as success.
MutSetMask(t) ==
  /\ Running(t) /\ pc[t] = "en_mask"
  /\ \/ /\ mod.eligible # {}
        /\ Confine(t, mod.eligible)
        /\ pc' = [pc EXCEPT ![t] = "en_register"]
        /\ UNCHANGED order
     \/ /\ pc' = [pc EXCEPT ![t] = "user"]
        /\ order' = [order EXCEPT ![t] = "hardware"]
        /\ UNCHANGED <<allowed, cpu, bit, stray>>
  /\ UNCHANGED <<mod, opened, enabled, linked, closing>>

\* Confine the caller to the eligible cores, or fail back to user space: no
\* memory for the mask, or set_cpus_allowed_ptr refuses it (an empty mask always).
SetMask(t) ==
  /\ Running(t) /\ pc[t] = "en_mask"
  /\ \/ /\ mod.eligible # {}
        /\ Confine(t, mod.eligible)
        /\ pc' = [pc EXCEPT ![t] = "en_register"]
     \/ /\ pc' = [pc EXCEPT ![t] = "user"]
        /\ UNCHANGED <<allowed, cpu, bit, stray>>
  /\ UNCHANGED <<mod, opened, enabled, linked, closing, order>>

Register(t) ==
  /\ Running(t) /\ pc[t] = "en_register"
  /\ linked' = linked \cup {t}
  /\ pc' = [pc EXCEPT ![t] = "en_flag"]
  /\ UNCHANGED <<mod, cpu, allowed, bit, opened, enabled, closing, order, stray>>

SetEnabled(t) ==
  /\ Running(t) /\ pc[t] = "en_flag"
  /\ enabled' = enabled \cup {t}
  /\ pc' = [pc EXCEPT ![t] = "en_apply"]
  /\ UNCHANGED <<mod, cpu, allowed, bit, opened, linked, closing, order, stray>>

\* Mutant: skips the immediate apply and relies on the next sched_in.
MutEnableNoApply(t) ==
  /\ Running(t) /\ pc[t] = "en_apply"
  /\ pc' = [pc EXCEPT ![t] = "user"]
  /\ order' = [order EXCEPT ![t] = "hardware"]
  /\ UNCHANGED <<mod, cpu, allowed, bit, opened, enabled, linked, closing, stray>>

\* preempt_disable(); apply on this core if it is eligible; preempt_enable(); return 0
EnableApply(t) ==
  /\ Running(t) /\ pc[t] = "en_apply"
  /\ IF oryx_core_eligible(cpu[t]) THEN oryx_apply(cpu[t], TRUE) ELSE UNCHANGED <<bit, stray>>
  /\ pc' = [pc EXCEPT ![t] = "user"]
  /\ order' = [order EXCEPT ![t] = "hardware"]
  /\ UNCHANGED <<mod, cpu, allowed, opened, enabled, linked, closing>>

(***************************************************************************)
(* oryx_disable, called by DISABLE or, with `release', by oryx_release     *)
(* which then frees the grant.  The emulator has gone back to software     *)
(* ordering before it calls either.                                        *)
(***************************************************************************)
\* Mutant: the grant is freed as if it were already disabled.
MutDisable(t, release) ==
  /\ Running(t) /\ pc[t] = "user" /\ t \in opened
  /\ opened' = IF release THEN opened \ {t} ELSE opened
  /\ order' = [order EXCEPT ![t] = "software"]
  /\ UNCHANGED <<mod, cpu, allowed, bit, enabled, linked, pc, closing, stray>>

Disable(t, release) ==
  /\ Running(t) /\ pc[t] = "user" /\ t \in opened
  /\ order' = [order EXCEPT ![t] = "software"]
  /\ IF t \in enabled
     THEN /\ enabled' = enabled \ {t}
          /\ pc' = [pc EXCEPT ![t] = "dis_unregister"]
          /\ closing' = IF release THEN closing \cup {t} ELSE closing
          /\ UNCHANGED opened
     ELSE /\ opened' = IF release THEN opened \ {t} ELSE opened
          /\ UNCHANGED <<enabled, pc, closing>>
  /\ UNCHANGED <<mod, cpu, allowed, bit, linked, stray>>

\* Mutant: the notifier is left on the list.
MutUnregister(t) ==
  /\ Running(t) /\ pc[t] = "dis_unregister"
  /\ pc' = [pc EXCEPT ![t] = "dis_apply"]
  /\ UNCHANGED <<mod, cpu, allowed, bit, opened, enabled, linked, closing, order, stray>>

Unregister(t) ==
  /\ Running(t) /\ pc[t] = "dis_unregister"
  /\ linked' = linked \ {t}
  /\ pc' = [pc EXCEPT ![t] = "dis_apply"]
  /\ UNCHANGED <<mod, cpu, allowed, bit, opened, enabled, closing, order, stray>>

\* Mutant: returns without clearing the bit of the core it is on.
MutDisableNoApply(t) ==
  /\ Running(t) /\ pc[t] = "dis_apply"
  /\ pc' = [pc EXCEPT ![t] = "user"]
  /\ opened' = opened \ (closing \cap {t})
  /\ closing' = closing \ {t}
  /\ UNCHANGED <<mod, cpu, allowed, bit, enabled, linked, order, stray>>

DisableApply(t) ==
  /\ Running(t) /\ pc[t] = "dis_apply"
  /\ oryx_apply(cpu[t], FALSE)
  /\ pc' = [pc EXCEPT ![t] = "user"]
  /\ opened' = opened \ (closing \cap {t})
  /\ closing' = closing \ {t}
  /\ UNCHANGED <<mod, cpu, allowed, enabled, linked, order>>

\* The last switch away from an exiting thread fires its notifiers as any other
\* does; an fd it leaves open stays in the file table it shares with its process.
Exit(t) ==
  /\ Running(t) /\ pc[t] = "user"
  /\ t \in Closers => t \notin opened
  /\ oryx_sched_out(t, cpu[t])
  /\ cpu' = [cpu EXCEPT ![t] = Off]
  /\ pc' = [pc EXCEPT ![t] = "dead"]
  /\ UNCHANGED <<mod, allowed, opened, enabled, linked, closing, order>>

Next ==
  \E t \in Threads :
    \/ \E c \in Cpus : SchedIn(t, c)
    \/ SchedOut(t)
    \/ \E mask \in SUBSET Cpus : SetAffinity(t, mask)
    \/ Open(t) \/ Enable(t)
    \/ SetMask(t) \/ Register(t) \/ SetEnabled(t) \/ EnableApply(t)
    \/ \E release \in BOOLEAN : Disable(t, release)
    \/ Unregister(t) \/ DisableApply(t)
    \/ Exit(t)

Spec == Init /\ [][Next]_vars

(***************************************************************************)
(* ORYX_MM_QUERY: the flags the ioctl copies out.                          *)
(***************************************************************************)
oryx_query(t) ==
  { f \in {"CAP_AVAILABLE", "STATE_TSO", "CAP_CORE_LIMIT"} :
      \/ f = "CAP_AVAILABLE"  /\ mod.confirmed
      \/ f = "STATE_TSO"      /\ t \in enabled
      \/ f = "CAP_CORE_LIMIT" /\ mod.limited }

-----------------------------------------------------------------------------
InGuest(t) == Running(t) /\ pc[t] = "user"

(***************************************************************************)
(* A thread whose translator emits plain loads and stores (its ENABLE_TSO  *)
(* returned 0) executes guest code only on a core whose control bit is     *)
(* set, through every preemption, migration and grant of other threads:    *)
(* what oryx_enable, sched_in and sched_out are there for.  Two cases are  *)
(* excepted.  One is a thread whose affinity is changed behind the         *)
(* driver's back.  In the other the code breaks what oryxmm.h says         *)
(* ("Enable hardware TSO for the CALLING thread. 0 on success"): with      *)
(* oryx_eligible left at ~0UL a thread is not confined, and on a core      *)
(* numbered BITS_PER_LONG or more it is never given the bit.               *)
(***************************************************************************)
GuestRunsOrdered ==
  \A t \in Pinned : order[t] = "hardware" /\ InGuest(t) =>
    \/ bit[cpu[t]]
    \/ ~mod.limited /\ cpu[t] \notin mod.named

(***************************************************************************)
(* Weak ordering is given back: a set bit belongs to the thread on that    *)
(* core, which holds a grant or is still inside oryx_disable.  The one     *)
(* exception is a core that a thread was switched away from between the    *)
(* enabled = false of oryx_disable and its final apply.                    *)
(***************************************************************************)
LeaksOnlyMidDisable ==
  \A c \in Cpus : bit[c] =>
    \/ c \in stray
    \/ \E t \in Threads : cpu[t] = c /\ (t \in enabled \/ pc[t] \in Disabling)

(***************************************************************************)
(* A notifier on a task's list is embedded in a live grant: the scheduler  *)
(* never calls into an oryx_grant that oryx_release has freed.  If the     *)
(* task closes its fd before it exits, none is left on the list of a task  *)
(* that is gone.                                                           *)
(***************************************************************************)
NotifierLifetime ==
  \A t \in linked : t \in opened /\ (t \in Closers => pc[t] # "dead")

(***************************************************************************)
(* The core restriction found in Phase 0 is honoured on every path that    *)
(* sets the bit, whatever happens to the affinity of the thread.           *)
(***************************************************************************)
IneligibleStaysWeak == \A c \in Cpus : bit[c] => c \in mod.eligible

Granting == INSTANCE Grants
              WITH Threads <- Threads, fds <- opened, granted <- enabled, order <- order

(***************************************************************************)
(* The driver keeps the contract its clients program against (module       *)
(* Grants): whatever the scheduler does between two statements of an       *)
(* ioctl, a client sees a grant come, be relied on only once it is there,  *)
(* and go before the fd does; a refused or half-done ENABLE_TSO is         *)
(* invisible to it.                                                        *)
(***************************************************************************)
ImplementsGrants == Granting!Spec

=============================================================================

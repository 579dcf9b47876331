--------------------------- MODULE MemModelProofs ---------------------------
(***************************************************************************)
(* Safety of the oryx_memmodel driver for any number of threads and cores  *)
(* and any module parameters.                                              *)
(***************************************************************************)
EXTENDS MemModel, TLAPS

-----------------------------------------------------------------------------
(***************************************************************************)
(* The inductive invariant, one conjunct per reason.                       *)
(***************************************************************************)

\* A core runs one thread at a time, so an apply on one's own core never
\* touches the bit another thread depends on.
CoreExclusive ==
  \A t, u \in Threads : cpu[t] # Off /\ cpu[t] = cpu[u] => t = u

\* A running thread is where its affinity lets it be.
OnAllowed == \A t \in Threads : cpu[t] # Off => cpu[t] \in allowed[t]

\* g->enabled is set after registering and cleared before unregistering, so
\* the callbacks of an enabled grant always fire.
EnabledLinked == enabled \subseteq linked

\* From the set_cpus_allowed_ptr of oryx_enable on, the thread is confined; with
\* oryx_eligible = ~0UL there is no such call, and the mask names all it can.
Confined ==
  /\ ~mod.limited => mod.eligible = mod.named
  /\ \A t \in Pinned :
       mod.limited /\ (t \in enabled \/ pc[t] \in {"en_register", "en_flag", "en_apply"})
         => allowed[t] \subseteq mod.eligible

\* Software ordering is off only while the grant is on.
HardwareGranted == \A t \in Threads : order[t] = "hardware" => t \in enabled

\* An enabled grant has its bit, except between g->enabled = true and the apply.
BitHeld ==
  \A t \in Threads :
    t \in enabled /\ pc[t] # "en_apply" /\ cpu[t] # Off /\ cpu[t] \in mod.eligible
      => bit[cpu[t]]

\* Where the notifier can be linked, by position in the driver.
GrantShape ==
  \A t \in Threads :
    /\ pc[t] \in Enabling \cup Disabling => t \in opened
    /\ pc[t] \in {"en_mask", "dis_apply"} => t \notin linked
    /\ pc[t] = "user" /\ t \in linked => t \in enabled
    /\ pc[t] = "en_flag" => t \in linked
    /\ pc[t] = "en_apply" => t \in enabled
    /\ pc[t] \in Disabling => t \notin enabled

IInv ==
  /\ TypeOK
  /\ CoreExclusive /\ OnAllowed /\ EnabledLinked /\ Confined
  /\ HardwareGranted /\ BitHeld /\ GrantShape
  /\ LeaksOnlyMidDisable /\ IneligibleStaysWeak
  /\ NotifierLifetime

-----------------------------------------------------------------------------
\* The driver is idle at load time: nothing is enabled, no bit is set.
LEMMA InitInv == Init => IInv
  BY ConstAssumption
  DEF Init, IInv, TypeOK, CoreExclusive, OnAllowed, EnabledLinked, Confined,
      HardwareGranted, BitHeld, GrantShape, LeaksOnlyMidDisable,
      IneligibleStaysWeak, NotifierLifetime, UserSpace, Enabling, Disabling

\* Typing of what sched_out leaves behind on the core it ran on.
LEMMA SchedOutTypes ==
  ASSUME TypeOK, NEW t \in Threads, cpu[t] # Off, oryx_sched_out(t, cpu[t])
  PROVE  bit' \in [Cpus -> BOOLEAN] /\ stray' \subseteq Cpus
  <1>1. CASE t \in linked /\ t \in enabled
    BY <1>1 DEF TypeOK, oryx_sched_out, oryx_apply
  <1>2. CASE ~(t \in linked /\ t \in enabled)
    <2>1. bit' = bit /\ stray' = stray \cup LeftMidDisable(t, cpu[t])
      BY <1>2 DEF oryx_sched_out
    <2>2. LeftMidDisable(t, cpu[t]) \subseteq Cpus
      BY DEF TypeOK, LeftMidDisable
    <2>3. QED
      BY <2>1, <2>2 DEF TypeOK
  <1>3. QED
    BY <1>1, <1>2

\* Scheduling a thread in runs oryx_sched_in on a core no other thread is on.
LEMMA SchedInStep ==
  ASSUME IInv, NEW t \in Threads, NEW c \in Cpus, SchedIn(t, c)
  PROVE  IInv'
  <1> USE ConstAssumption DEF IInv, SchedIn, oryx_sched_in, oryx_apply, oryx_core_eligible, Running,
             UserSpace, Enabling, Disabling
  <1>1. TypeOK'  BY DEF TypeOK
  <1>2. CoreExclusive'  BY DEF TypeOK, CoreExclusive
  <1>3. OnAllowed'  BY DEF TypeOK, OnAllowed
  <1>4. EnabledLinked'  BY DEF TypeOK, GrantShape, EnabledLinked
  <1>5. Confined'  BY DEF TypeOK, Confined
  <1>6. HardwareGranted'  BY DEF TypeOK, GrantShape, HardwareGranted
  <1>7. BitHeld'  BY DEF TypeOK, CoreExclusive, EnabledLinked, GrantShape, BitHeld, Parameters
  <1>8. GrantShape'  BY DEF TypeOK, EnabledLinked, GrantShape
  <1>9. LeaksOnlyMidDisable'  BY DEF TypeOK, CoreExclusive, EnabledLinked, GrantShape, LeaksOnlyMidDisable
  <1>10. IneligibleStaysWeak'  BY DEF TypeOK, IneligibleStaysWeak
  <1>11. NotifierLifetime'  BY DEF TypeOK, GrantShape, EnabledLinked, NotifierLifetime
  <1>q. QED
    BY <1>1, <1>2, <1>3, <1>4, <1>5, <1>6, <1>7, <1>8, <1>9, <1>10, <1>11 DEF IInv

\* Scheduling a thread out runs oryx_sched_out on the core it leaves.
LEMMA SchedOutStep ==
  ASSUME IInv, NEW t \in Threads, SchedOut(t)
  PROVE  IInv'
  <1>1. TypeOK'
    <2>1. bit' \in [Cpus -> BOOLEAN] /\ stray' \subseteq Cpus
      BY SchedOutTypes DEF SchedOut, Running, IInv
    <2>2. QED
      BY <2>1 DEF TypeOK, SchedOut, IInv
  <1> USE ConstAssumption DEF IInv, SchedOut, oryx_sched_out, oryx_apply, LeftMidDisable, Running,
             UserSpace, Enabling, Disabling
  <1>2. CoreExclusive'  BY DEF TypeOK, CoreExclusive
  <1>3. OnAllowed'  BY DEF TypeOK, OnAllowed
  <1>4. EnabledLinked'  BY DEF TypeOK, GrantShape, EnabledLinked
  <1>5. Confined'  BY DEF TypeOK, Confined
  <1>6. HardwareGranted'  BY DEF TypeOK, GrantShape, HardwareGranted
  <1>7. BitHeld'  BY DEF TypeOK, CoreExclusive, EnabledLinked, GrantShape, BitHeld
  <1>8. GrantShape'  BY DEF TypeOK, EnabledLinked, GrantShape
  <1>9. LeaksOnlyMidDisable'  BY DEF TypeOK, CoreExclusive, EnabledLinked, GrantShape, LeaksOnlyMidDisable
  <1>10. IneligibleStaysWeak'  BY DEF TypeOK, IneligibleStaysWeak
  <1>11. NotifierLifetime'  BY DEF TypeOK, GrantShape, EnabledLinked, NotifierLifetime
  <1>q. QED
    BY <1>1, <1>2, <1>3, <1>4, <1>5, <1>6, <1>7, <1>8, <1>9, <1>10, <1>11 DEF IInv

\* A change of affinity may deschedule the thread, and leaves a pinned thread
\* that holds a grant alone.
LEMMA SetAffinityStep ==
  ASSUME IInv, NEW t \in Threads, NEW mask \in SUBSET Cpus, SetAffinity(t, mask)
  PROVE  IInv'
  <1>1. TypeOK'
    <2>1. bit' \in [Cpus -> BOOLEAN] /\ stray' \subseteq Cpus
      BY SchedOutTypes DEF SetAffinity, Confine, Running, IInv, TypeOK
    <2>2. QED
      BY <2>1 DEF TypeOK, SetAffinity, Confine, IInv
  <1> USE ConstAssumption DEF IInv, SetAffinity, Confine, oryx_sched_out, oryx_apply, LeftMidDisable, Running,
             UserSpace, Enabling, Disabling
  <1>2. CoreExclusive'  BY DEF TypeOK, CoreExclusive
  <1>3. OnAllowed'  BY DEF TypeOK, OnAllowed
  <1>4. EnabledLinked'  BY DEF TypeOK, GrantShape, EnabledLinked
  <1>5. Confined'  BY DEF TypeOK, Confined
  <1>6. HardwareGranted'  BY DEF TypeOK, GrantShape, HardwareGranted
  <1>7. BitHeld'  BY DEF TypeOK, CoreExclusive, EnabledLinked, GrantShape, BitHeld
  <1>8. GrantShape'  BY DEF TypeOK, EnabledLinked, GrantShape
  <1>9. LeaksOnlyMidDisable'  BY DEF TypeOK, CoreExclusive, EnabledLinked, GrantShape, LeaksOnlyMidDisable
  <1>10. IneligibleStaysWeak'  BY DEF TypeOK, IneligibleStaysWeak
  <1>11. NotifierLifetime'  BY DEF TypeOK, GrantShape, EnabledLinked, NotifierLifetime
  <1>q. QED
    BY <1>1, <1>2, <1>3, <1>4, <1>5, <1>6, <1>7, <1>8, <1>9, <1>10, <1>11 DEF IInv

\* oryx_open creates a grant that is neither enabled nor linked.
LEMMA OpenStep ==
  ASSUME IInv, NEW t \in Threads, Open(t)
  PROVE  IInv'
  <1> USE ConstAssumption DEF IInv, Open, Running,
             UserSpace, Enabling, Disabling
  <1>1. TypeOK'  BY DEF TypeOK
  <1>2. CoreExclusive'  BY DEF TypeOK, CoreExclusive
  <1>3. OnAllowed'  BY DEF TypeOK, OnAllowed
  <1>4. EnabledLinked'  BY DEF TypeOK, GrantShape, EnabledLinked
  <1>5. Confined'  BY DEF TypeOK, Confined
  <1>6. HardwareGranted'  BY DEF TypeOK, GrantShape, HardwareGranted
  <1>7. BitHeld'  BY DEF TypeOK, CoreExclusive, EnabledLinked, GrantShape, BitHeld
  <1>8. GrantShape'  BY DEF TypeOK, EnabledLinked, GrantShape
  <1>9. LeaksOnlyMidDisable'  BY DEF TypeOK, CoreExclusive, EnabledLinked, GrantShape, LeaksOnlyMidDisable
  <1>10. IneligibleStaysWeak'  BY DEF TypeOK, IneligibleStaysWeak
  <1>11. NotifierLifetime'  BY DEF TypeOK, GrantShape, EnabledLinked, NotifierLifetime
  <1>q. QED
    BY <1>1, <1>2, <1>3, <1>4, <1>5, <1>6, <1>7, <1>8, <1>9, <1>10, <1>11 DEF IInv

\* The entry checks of oryx_enable: no bit, already on, or go ahead.
LEMMA EnableStep ==
  ASSUME IInv, NEW t \in Threads, Enable(t)
  PROVE  IInv'
  <1> USE ConstAssumption DEF IInv, Enable, Running,
             UserSpace, Enabling, Disabling
  <1>1. TypeOK'  BY DEF TypeOK
  <1>2. CoreExclusive'  BY DEF TypeOK, CoreExclusive
  <1>3. OnAllowed'  BY DEF TypeOK, OnAllowed
  <1>4. EnabledLinked'  BY DEF TypeOK, GrantShape, EnabledLinked
  <1>5. Confined'  BY DEF TypeOK, Confined
  <1>6. HardwareGranted'  BY DEF TypeOK, GrantShape, HardwareGranted
  <1>7. BitHeld'  BY DEF TypeOK, CoreExclusive, EnabledLinked, GrantShape, BitHeld
  <1>8. GrantShape'  BY DEF TypeOK, EnabledLinked, GrantShape
  <1>9. LeaksOnlyMidDisable'  BY DEF TypeOK, CoreExclusive, EnabledLinked, GrantShape, LeaksOnlyMidDisable
  <1>10. IneligibleStaysWeak'  BY DEF TypeOK, IneligibleStaysWeak
  <1>11. NotifierLifetime'  BY DEF TypeOK, GrantShape, EnabledLinked, NotifierLifetime
  <1>q. QED
    BY <1>1, <1>2, <1>3, <1>4, <1>5, <1>6, <1>7, <1>8, <1>9, <1>10, <1>11 DEF IInv

\* oryx_enable confines the caller to the eligible cores or fails.
LEMMA SetMaskStep ==
  ASSUME IInv, NEW t \in Threads, SetMask(t)
  PROVE  IInv'
  <1>1. TypeOK'
    <2>1. bit' \in [Cpus -> BOOLEAN] /\ stray' \subseteq Cpus
      BY SchedOutTypes DEF SetMask, Confine, Running, IInv, TypeOK
    <2>2. QED
      BY <2>1, ConstAssumption DEF TypeOK, Parameters, SetMask, Confine, IInv, UserSpace, Enabling, Disabling
  <1> USE ConstAssumption DEF IInv, SetMask, Confine, oryx_sched_out, oryx_apply, LeftMidDisable, Running,
             UserSpace, Enabling, Disabling
  <1>2. CoreExclusive'  BY DEF TypeOK, CoreExclusive
  <1>3. OnAllowed'  BY DEF TypeOK, OnAllowed
  <1>4. EnabledLinked'  BY DEF TypeOK, GrantShape, EnabledLinked
  <1>5. Confined'  BY DEF TypeOK, Confined
  <1>6. HardwareGranted'  BY DEF TypeOK, GrantShape, HardwareGranted
  <1>7. BitHeld'  BY DEF TypeOK, CoreExclusive, EnabledLinked, GrantShape, BitHeld
  <1>8. GrantShape'  BY DEF TypeOK, EnabledLinked, GrantShape
  <1>9. LeaksOnlyMidDisable'  BY DEF TypeOK, CoreExclusive, EnabledLinked, GrantShape, LeaksOnlyMidDisable
  <1>10. IneligibleStaysWeak'  BY DEF TypeOK, IneligibleStaysWeak
  <1>11. NotifierLifetime'  BY DEF TypeOK, GrantShape, EnabledLinked, NotifierLifetime
  <1>q. QED
    BY <1>1, <1>2, <1>3, <1>4, <1>5, <1>6, <1>7, <1>8, <1>9, <1>10, <1>11 DEF IInv

\* oryx_enable links the notifier while g->enabled is still false.
LEMMA RegisterStep ==
  ASSUME IInv, NEW t \in Threads, Register(t)
  PROVE  IInv'
  <1> USE ConstAssumption DEF IInv, Register, Running,
             UserSpace, Enabling, Disabling
  <1>1. TypeOK'  BY DEF TypeOK
  <1>2. CoreExclusive'  BY DEF TypeOK, CoreExclusive
  <1>3. OnAllowed'  BY DEF TypeOK, OnAllowed
  <1>4. EnabledLinked'  BY DEF TypeOK, GrantShape, EnabledLinked
  <1>5. Confined'  BY DEF TypeOK, Confined
  <1>6. HardwareGranted'  BY DEF TypeOK, GrantShape, HardwareGranted
  <1>7. BitHeld'  BY DEF TypeOK, CoreExclusive, EnabledLinked, GrantShape, BitHeld
  <1>8. GrantShape'  BY DEF TypeOK, EnabledLinked, GrantShape
  <1>9. LeaksOnlyMidDisable'  BY DEF TypeOK, CoreExclusive, EnabledLinked, GrantShape, LeaksOnlyMidDisable
  <1>10. IneligibleStaysWeak'  BY DEF TypeOK, IneligibleStaysWeak
  <1>11. NotifierLifetime'  BY DEF TypeOK, GrantShape, EnabledLinked, NotifierLifetime
  <1>q. QED
    BY <1>1, <1>2, <1>3, <1>4, <1>5, <1>6, <1>7, <1>8, <1>9, <1>10, <1>11 DEF IInv

\* oryx_enable sets g->enabled once the notifier is linked.
LEMMA SetEnabledStep ==
  ASSUME IInv, NEW t \in Threads, SetEnabled(t)
  PROVE  IInv'
  <1> USE ConstAssumption DEF IInv, SetEnabled, Running,
             UserSpace, Enabling, Disabling
  <1>1. TypeOK'  BY DEF TypeOK, GrantShape
  <1>2. CoreExclusive'  BY DEF TypeOK, CoreExclusive
  <1>3. OnAllowed'  BY DEF TypeOK, OnAllowed
  <1>4. EnabledLinked'  BY DEF TypeOK, GrantShape, EnabledLinked
  <1>5. Confined'  BY DEF TypeOK, Confined
  <1>6. HardwareGranted'  BY DEF TypeOK, GrantShape, HardwareGranted
  <1>7. BitHeld'  BY DEF TypeOK, CoreExclusive, EnabledLinked, GrantShape, BitHeld
  <1>8. GrantShape'  BY DEF TypeOK, EnabledLinked, GrantShape
  <1>9. LeaksOnlyMidDisable'  BY DEF TypeOK, CoreExclusive, EnabledLinked, GrantShape, LeaksOnlyMidDisable
  <1>10. IneligibleStaysWeak'  BY DEF TypeOK, IneligibleStaysWeak
  <1>11. NotifierLifetime'  BY DEF TypeOK, GrantShape, EnabledLinked, NotifierLifetime
  <1>q. QED
    BY <1>1, <1>2, <1>3, <1>4, <1>5, <1>6, <1>7, <1>8, <1>9, <1>10, <1>11 DEF IInv

\* oryx_enable applies the bit on the current core and returns 0.
LEMMA EnableApplyStep ==
  ASSUME IInv, NEW t \in Threads, EnableApply(t)
  PROVE  IInv'
  <1> USE ConstAssumption DEF IInv, EnableApply, oryx_apply, oryx_core_eligible, Running,
             UserSpace, Enabling, Disabling
  <1>1. TypeOK'  BY DEF TypeOK
  <1>2. CoreExclusive'  BY DEF TypeOK, CoreExclusive
  <1>3. OnAllowed'  BY DEF TypeOK, OnAllowed
  <1>4. EnabledLinked'  BY DEF TypeOK, GrantShape, EnabledLinked
  <1>5. Confined'  BY DEF TypeOK, Confined
  <1>6. HardwareGranted'  BY DEF TypeOK, GrantShape, HardwareGranted
  <1>7. BitHeld'  BY DEF TypeOK, CoreExclusive, EnabledLinked, GrantShape, BitHeld, Parameters
  <1>8. GrantShape'  BY DEF TypeOK, EnabledLinked, GrantShape
  <1>9. LeaksOnlyMidDisable'  BY DEF TypeOK, CoreExclusive, EnabledLinked, GrantShape, LeaksOnlyMidDisable
  <1>10. IneligibleStaysWeak'  BY DEF TypeOK, IneligibleStaysWeak
  <1>11. NotifierLifetime'  BY DEF TypeOK, GrantShape, EnabledLinked, NotifierLifetime
  <1>q. QED
    BY <1>1, <1>2, <1>3, <1>4, <1>5, <1>6, <1>7, <1>8, <1>9, <1>10, <1>11 DEF IInv

\* oryx_disable clears g->enabled, or finds nothing to do.
LEMMA DisableStep ==
  ASSUME IInv, NEW t \in Threads, NEW release \in BOOLEAN, Disable(t, release)
  PROVE  IInv'
  <1> USE ConstAssumption DEF IInv, Disable, Running,
             UserSpace, Enabling, Disabling
  <1>1. TypeOK'  BY DEF TypeOK, GrantShape
  <1>2. CoreExclusive'  BY DEF TypeOK, CoreExclusive
  <1>3. OnAllowed'  BY DEF TypeOK, OnAllowed
  <1>4. EnabledLinked'  BY DEF TypeOK, GrantShape, EnabledLinked
  <1>5. Confined'  BY DEF TypeOK, Confined
  <1>6. HardwareGranted'  BY DEF TypeOK, GrantShape, HardwareGranted
  <1>7. BitHeld'  BY DEF TypeOK, CoreExclusive, EnabledLinked, GrantShape, BitHeld
  <1>8. GrantShape'  BY DEF TypeOK, EnabledLinked, GrantShape
  <1>9. LeaksOnlyMidDisable'  BY DEF TypeOK, CoreExclusive, EnabledLinked, GrantShape, LeaksOnlyMidDisable
  <1>10. IneligibleStaysWeak'  BY DEF TypeOK, IneligibleStaysWeak
  <1>11. NotifierLifetime'  BY DEF TypeOK, GrantShape, EnabledLinked, NotifierLifetime
  <1>q. QED
    BY <1>1, <1>2, <1>3, <1>4, <1>5, <1>6, <1>7, <1>8, <1>9, <1>10, <1>11 DEF IInv

\* oryx_disable unlinks the notifier.
LEMMA UnregisterStep ==
  ASSUME IInv, NEW t \in Threads, Unregister(t)
  PROVE  IInv'
  <1> USE ConstAssumption DEF IInv, Unregister, Running,
             UserSpace, Enabling, Disabling
  <1>1. TypeOK'  BY DEF TypeOK
  <1>2. CoreExclusive'  BY DEF TypeOK, CoreExclusive
  <1>3. OnAllowed'  BY DEF TypeOK, OnAllowed
  <1>4. EnabledLinked'  BY DEF TypeOK, GrantShape, EnabledLinked
  <1>5. Confined'  BY DEF TypeOK, Confined
  <1>6. HardwareGranted'  BY DEF TypeOK, GrantShape, HardwareGranted
  <1>7. BitHeld'  BY DEF TypeOK, CoreExclusive, EnabledLinked, GrantShape, BitHeld
  <1>8. GrantShape'  BY DEF TypeOK, EnabledLinked, GrantShape
  <1>9. LeaksOnlyMidDisable'  BY DEF TypeOK, CoreExclusive, EnabledLinked, GrantShape, LeaksOnlyMidDisable
  <1>10. IneligibleStaysWeak'  BY DEF TypeOK, IneligibleStaysWeak
  <1>11. NotifierLifetime'  BY DEF TypeOK, GrantShape, EnabledLinked, NotifierLifetime
  <1>q. QED
    BY <1>1, <1>2, <1>3, <1>4, <1>5, <1>6, <1>7, <1>8, <1>9, <1>10, <1>11 DEF IInv

\* oryx_disable clears the bit of the current core; oryx_release then frees
\* the grant.
LEMMA DisableApplyStep ==
  ASSUME IInv, NEW t \in Threads, DisableApply(t)
  PROVE  IInv'
  <1> USE ConstAssumption DEF IInv, DisableApply, oryx_apply, Running,
             UserSpace, Enabling, Disabling
  <1>1. TypeOK'  BY DEF TypeOK, GrantShape
  <1>2. CoreExclusive'  BY DEF TypeOK, CoreExclusive
  <1>3. OnAllowed'  BY DEF TypeOK, OnAllowed
  <1>4. EnabledLinked'  BY DEF TypeOK, GrantShape, EnabledLinked
  <1>5. Confined'  BY DEF TypeOK, Confined
  <1>6. HardwareGranted'  BY DEF TypeOK, GrantShape, HardwareGranted
  <1>7. BitHeld'  BY DEF TypeOK, CoreExclusive, EnabledLinked, GrantShape, BitHeld
  <1>8. GrantShape'  BY DEF TypeOK, EnabledLinked, GrantShape
  <1>9. LeaksOnlyMidDisable'  BY DEF TypeOK, CoreExclusive, EnabledLinked, GrantShape, LeaksOnlyMidDisable
  <1>10. IneligibleStaysWeak'  BY DEF TypeOK, IneligibleStaysWeak
  <1>11. NotifierLifetime'  BY DEF TypeOK, GrantShape, EnabledLinked, NotifierLifetime
  <1>q. QED
    BY <1>1, <1>2, <1>3, <1>4, <1>5, <1>6, <1>7, <1>8, <1>9, <1>10, <1>11 DEF IInv

\* The last switch away from an exiting thread.
LEMMA ExitStep ==
  ASSUME IInv, NEW t \in Threads, Exit(t)
  PROVE  IInv'
  <1>1. TypeOK'
    <2>1. bit' \in [Cpus -> BOOLEAN] /\ stray' \subseteq Cpus
      BY SchedOutTypes DEF Exit, Running, IInv
    <2>2. QED
      BY <2>1 DEF TypeOK, Exit, IInv, UserSpace, Enabling, Disabling
  <1> USE ConstAssumption DEF IInv, Exit, oryx_sched_out, oryx_apply, LeftMidDisable, Running,
             UserSpace, Enabling, Disabling
  <1>2. CoreExclusive'  BY DEF TypeOK, CoreExclusive
  <1>3. OnAllowed'  BY DEF TypeOK, OnAllowed
  <1>4. EnabledLinked'  BY DEF TypeOK, GrantShape, EnabledLinked
  <1>5. Confined'  BY DEF TypeOK, Confined
  <1>6. HardwareGranted'  BY DEF TypeOK, GrantShape, HardwareGranted
  <1>7. BitHeld'  BY DEF TypeOK, CoreExclusive, EnabledLinked, GrantShape, BitHeld
  <1>8. GrantShape'  BY DEF TypeOK, EnabledLinked, GrantShape
  <1>9. LeaksOnlyMidDisable'  BY DEF TypeOK, CoreExclusive, EnabledLinked, GrantShape, LeaksOnlyMidDisable
  <1>10. IneligibleStaysWeak'  BY DEF TypeOK, IneligibleStaysWeak
  <1>11. NotifierLifetime'  BY DEF TypeOK, GrantShape, EnabledLinked, NotifierLifetime
  <1>q. QED
    BY <1>1, <1>2, <1>3, <1>4, <1>5, <1>6, <1>7, <1>8, <1>9, <1>10, <1>11 DEF IInv

-----------------------------------------------------------------------------
\* Every step of the driver, its client and the scheduler keeps the invariant.
LEMMA NextInv == IInv /\ [Next]_vars => IInv'
  <1> SUFFICES ASSUME IInv, [Next]_vars PROVE IInv'
    OBVIOUS
  <1>1. CASE Next
    BY <1>1, SchedInStep, SchedOutStep, SetAffinityStep, OpenStep, EnableStep,
       SetMaskStep, RegisterStep, SetEnabledStep, EnableApplyStep, DisableStep,
       UnregisterStep, DisableApplyStep, ExitStep
    DEF Next
  <1>2. CASE UNCHANGED vars
    BY <1>2
    DEF vars, IInv, TypeOK, CoreExclusive, OnAllowed, EnabledLinked, Confined,
        HardwareGranted, BitHeld, GrantShape, LeaksOnlyMidDisable,
        IneligibleStaysWeak, NotifierLifetime
  <1>3. QED
    BY <1>1, <1>2

\* The inductive invariant holds of the driver.
THEOREM Invariance == Spec => []IInv
  BY InitInv, NextInv, PTL DEF Spec

\* Type correctness of the driver's state.
THEOREM Typing == Spec => []TypeOK
  <1>1. IInv => TypeOK
    BY DEF IInv
  <1>2. QED
    BY <1>1, Invariance, PTL

\* Whatever the number of cores and threads and however they are preempted and
\* migrated, a thread whose ENABLE_TSO returned 0 runs guest code only with the
\* control bit set, as long as nobody changes its affinity behind the driver,
\* except on a core the all-ones mask cannot name.
THEOREM GuestOrdered == Spec => []GuestRunsOrdered
  <1>1. IInv => GuestRunsOrdered
    BY ConstAssumption
    DEF IInv, TypeOK, GuestRunsOrdered, InGuest, Running, HardwareGranted,
        BitHeld, Confined, OnAllowed
  <1>2. QED
    BY <1>1, Invariance, PTL

\* A control bit that is set without a thread entitled to it was left behind by
\* a thread switched away inside oryx_disable; no other path leaks it.
THEOREM LeakSource == Spec => []LeaksOnlyMidDisable
  <1>1. IInv => LeaksOnlyMidDisable
    BY DEF IInv
  <1>2. QED
    BY <1>1, Invariance, PTL

\* The bit is never set on a core outside oryx_eligible, even when affinity
\* changes under a grant.
THEOREM EligibleOnly == Spec => []IneligibleStaysWeak
  <1>1. IInv => IneligibleStaysWeak
    BY DEF IInv
  <1>2. QED
    BY <1>1, Invariance, PTL

\* No notifier outlives its grant, nor the task it is registered for if that
\* task closes its fd before it exits.
THEOREM NotifiersLive == Spec => []NotifierLifetime
  <1>1. IInv => NotifierLifetime
    BY DEF IInv
  <1>2. QED
    BY <1>1, Invariance, PTL

-----------------------------------------------------------------------------
\* What one step of the driver is to a client: a step of Grants, or nothing.
Seen == UNCHANGED Granting!gvars

\* The scheduler, affinity changes and exits are invisible to the client ...
LEMMA SchedulerUnseen ==
  ASSUME NEW t \in Threads, NEW c \in Cpus, NEW mask \in SUBSET Cpus,
         SchedIn(t, c) \/ SchedOut(t) \/ SetAffinity(t, mask) \/ Exit(t)
  PROVE  Seen
  BY DEF SchedIn, SchedOut, SetAffinity, Exit, Seen, Granting!gvars

\* ... and so are the statements of oryx_enable and oryx_disable that only touch
\* the affinity and the notifier list.
LEMMA DriverUnseen ==
  ASSUME NEW t \in Threads, SetMask(t) \/ Register(t) \/ Unregister(t)
  PROVE  Seen
  BY DEF SetMask, Register, Unregister, Seen, Granting!gvars

\* oryx_open is Open, and setting g->enabled is the moment of the grant.
LEMMA GrantSeen ==
  ASSUME IInv, NEW t \in Threads, Open(t) \/ SetEnabled(t)
  PROVE  Granting!Open(t) \/ Granting!Grant(t) \/ Seen
  <1>1. CASE Open(t)
    BY <1>1 DEF Open, Granting!Open
  <1>2. CASE SetEnabled(t)
    <2>1. t \in opened
      BY <1>2 DEF SetEnabled, IInv, GrantShape, Enabling
    <2>2. CASE t \in enabled
      BY <1>2, <2>2 DEF SetEnabled, Seen, Granting!gvars
    <2>3. CASE t \notin enabled
      BY <1>2, <2>1, <2>3 DEF SetEnabled, Granting!Grant
    <2>4. QED
      BY <2>2, <2>3
  <1>3. QED
    BY <1>1, <1>2

\* ENABLE_TSO returns 0 only for a thread that holds the grant.
LEMMA RelySeen ==
  ASSUME IInv, NEW t \in Threads, Enable(t) \/ EnableApply(t)
  PROVE  Granting!Rely(t) \/ Seen
  <1>1. CASE EnableApply(t)
    <2>1. t \in enabled
      BY <1>1 DEF EnableApply, IInv, GrantShape
    <2>2. QED
      BY <1>1, <2>1 DEF EnableApply, Granting!Rely
  <1>2. CASE Enable(t)
    BY <1>2 DEF Enable, Granting!Rely, Seen, Granting!gvars
  <1>3. QED
    BY <1>1, <1>2

\* DISABLE returns a grant that is on, and the fd is freed only without one.
LEMMA ReturnSeen ==
  ASSUME IInv, NEW t \in Threads, NEW release \in BOOLEAN,
         Disable(t, release) \/ DisableApply(t)
  PROVE  Granting!Return(t) \/ Granting!Close(t) \/ Seen
  <1>1. CASE DisableApply(t)
    <2>1. t \in opened \ enabled
      BY <1>1 DEF DisableApply, IInv, GrantShape, Disabling
    <2>2. opened' = opened \ {t} \/ opened' = opened
      BY <1>1 DEF DisableApply
    <2>3. UNCHANGED <<enabled, order>>
      BY <1>1 DEF DisableApply
    <2>4. QED
      BY <2>1, <2>2, <2>3 DEF Granting!Close, Seen, Granting!gvars
  <1>2. CASE Disable(t, release) /\ t \in enabled
    BY <1>2 DEF Disable, Granting!Return
  <1>3. CASE Disable(t, release) /\ t \notin enabled
    <2>1. order' = order
      <3>1. order[t] = "software" /\ order \in [Threads -> {"software", "hardware"}]
        BY <1>3 DEF IInv, TypeOK, HardwareGranted
      <3>2. QED
        BY <1>3, <3>1 DEF Disable
    <2>2. t \in opened \ enabled /\ UNCHANGED enabled
      BY <1>3 DEF Disable
    <2>3. opened' = opened \ {t} \/ opened' = opened
      BY <1>3 DEF Disable
    <2>4. QED
      BY <2>1, <2>2, <2>3 DEF Granting!Close, Seen, Granting!gvars
  <1>4. QED
    BY <1>1, <1>2, <1>3

\* Step simulation.
LEMMA StepRefines == IInv /\ [Next]_vars => [Granting!Next]_(Granting!gvars)
  <1> SUFFICES ASSUME IInv, [Next]_vars PROVE Granting!Next \/ Seen
    BY DEF Seen
  <1>1. CASE UNCHANGED vars
    BY <1>1 DEF vars, Seen, Granting!gvars
  <1>2. CASE Next
    <2>1. PICK t \in Threads :
            \/ \E c \in Cpus : SchedIn(t, c)
            \/ SchedOut(t)
            \/ \E mask \in SUBSET Cpus : SetAffinity(t, mask)
            \/ Open(t) \/ Enable(t)
            \/ SetMask(t) \/ Register(t) \/ SetEnabled(t) \/ EnableApply(t)
            \/ \E release \in BOOLEAN : Disable(t, release)
            \/ Unregister(t) \/ DisableApply(t)
            \/ Exit(t)
      BY <1>2 DEF Next
    <2>2. CASE SchedOut(t) \/ Exit(t) \/ (\E c \in Cpus : SchedIn(t, c))
                 \/ (\E mask \in SUBSET Cpus : SetAffinity(t, mask))
      BY <2>2, SchedulerUnseen, ConstAssumption
    <2>3. CASE SetMask(t) \/ Register(t) \/ Unregister(t)
      BY <2>3, DriverUnseen
    <2>4. CASE Open(t) \/ SetEnabled(t)
      BY <2>4, GrantSeen DEF Granting!Next
    <2>5. CASE Enable(t) \/ EnableApply(t)
      BY <2>5, RelySeen DEF Granting!Next
    <2>6. CASE DisableApply(t) \/ \E release \in BOOLEAN : Disable(t, release)
      BY <2>6, ReturnSeen DEF Granting!Next
    <2>7. QED
      BY <2>1, <2>2, <2>3, <2>4, <2>5, <2>6
  <1>3. QED
    BY <1>1, <1>2

\* The driver implements the contract of its clients, for any number of threads
\* and cores: a thread relies on the hardware only under a grant, and the fd of a
\* grant that is on is never freed.
THEOREM Implements == Spec => ImplementsGrants
  <1>1. Init => Granting!Init
    BY DEF Init, Granting!Init
  <1>2. QED
    BY <1>1, StepRefines, Invariance, PTL DEF Spec, ImplementsGrants, Granting!Spec

=============================================================================

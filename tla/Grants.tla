------------------------------- MODULE Grants -------------------------------
(***************************************************************************)
(* The driver /dev/oryx_memmodel as its clients see it through liboryxmm:  *)
(* a thread opens the device, is granted hardware TSO, relies on it in     *)
(* place of software ordering, returns it and closes.  Cores, preemption   *)
(* and the control bit are the driver's business (module MemModel, which   *)
(* implements this specification).                                         *)
(***************************************************************************)
CONSTANT Threads

VARIABLES
  fds,        \* threads with an open fd
  granted,    \* threads the driver keeps in hardware TSO
  order       \* what each thread relies on for the order of its guest accesses

gvars == <<fds, granted, order>>

Init == fds = {} /\ granted = {} /\ order = [t \in Threads |-> "software"]

Open(t) == t \notin fds /\ fds' = fds \cup {t} /\ UNCHANGED <<granted, order>>

Grant(t) == t \in fds \ granted /\ granted' = granted \cup {t} /\ UNCHANGED <<fds, order>>

\* ENABLE_TSO has returned 0.
Rely(t) ==
  /\ t \in granted
  /\ order' = [order EXCEPT ![t] = "hardware"]
  /\ UNCHANGED <<fds, granted>>

Return(t) ==
  /\ t \in granted
  /\ order' = [order EXCEPT ![t] = "software"] /\ granted' = granted \ {t}
  /\ UNCHANGED fds

Close(t) == t \in fds \ granted /\ fds' = fds \ {t} /\ UNCHANGED <<granted, order>>

Next == \E t \in Threads : Open(t) \/ Grant(t) \/ Rely(t) \/ Return(t) \/ Close(t)

Spec == Init /\ [][Next]_gvars

=============================================================================

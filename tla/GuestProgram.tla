---------------------------- MODULE GuestProgram ----------------------------
(***************************************************************************)
(* What oryx_run_program promises (oryxrun.h): the guest program is run    *)
(* block by block from its entry point, each block's successor decided by  *)
(* the guest's own code and flags, until a block reports HALT (ORYX_OK),   *)
(* the step guard stops it, or there is no block at the guest PC or no     *)
(* executable memory for it.  No cache, no mapping, no linking.            *)
(***************************************************************************)
EXTENDS Naturals

CONSTANTS
  Pcs,        \* guest program counters
  HALT,       \* ORYX_HALT_PC
  Entry,      \* entry_pc
  MaxSteps,   \* max_steps
  Programs    \* the guest programs considered

VARIABLES
  prog,       \* prog[p]: the guest block at p
  pc,         \* the current guest PC
  flags,      \* does the condition a BR tests hold in the guest's flags?
  steps,      \* blocks executed
  rc          \* "running", then the return code

gvars == <<prog, pc, flags, steps, rc>>

\* A block is what decides its successor: its terminator, the branch target, the
\* address after its last byte, and whether it sets the flags its terminator reads.
Target == Pcs \cup {HALT}

Terminators == {"BR", "JMP", "CALL", "RET", "X86RET"}

\* "NONE": fetch finds no block; "EMPTY": fetch returns no ops; "BAD": the
\* translator refuses the block.
Block == [ term : Terminators \cup {"NONE", "EMPTY", "BAD"},
           target : Target, next : Target, sets : BOOLEAN ]

Refusal(b) == CASE b.term = "NONE"  -> {"NOTFOUND"}
                [] b.term = "EMPTY" -> {"FORMAT"}
                [] b.term = "BAD"   -> {"INVAL"}
                [] OTHER            -> {}

\* The successor of block b: f is the state of the flags at its terminator, ret
\* the return address it finds on the guest stack.
Successor(b, f, ret) ==
  CASE b.term = "BR"              -> IF f THEN b.target ELSE b.next
    [] b.term \in {"JMP", "CALL"} -> b.target
    [] b.term = "RET"             -> HALT
    [] OTHER                      -> ret

Init ==
  /\ prog \in Programs
  /\ pc = Entry
  /\ flags \in BOOLEAN
  /\ steps = 0
  /\ rc = "running"

Stop(code) == rc' = code /\ UNCHANGED <<prog, pc, flags, steps>>

RunBlock ==
  /\ rc = "running" /\ pc # HALT /\ steps < MaxSteps
  /\ prog[pc].term \in Terminators
  /\ \E f \in (IF prog[pc].sets THEN BOOLEAN ELSE {flags}), ret \in Target :
       /\ flags' = f
       /\ pc' = Successor(prog[pc], f, ret)
  /\ steps' = steps + 1
  /\ UNCHANGED <<prog, rc>>

Halt  == rc = "running" /\ pc = HALT /\ Stop("OK")
Guard == rc = "running" /\ pc # HALT /\ steps = MaxSteps /\ Stop("STEPS")
Fail  == /\ rc = "running" /\ pc # HALT /\ steps < MaxSteps
         /\ \E code \in Refusal(prog[pc]) \cup {"NOMEM", "PERM"} : Stop(code)

Next == RunBlock \/ Halt \/ Guard \/ Fail

SafeSpec == Init /\ [][Next]_gvars

Spec == SafeSpec /\ WF_gvars(Next)

=============================================================================

------------------------------ MODULE Pipeline ------------------------------
(***************************************************************************)
(* From x86-64 bytes to their effect: a block becomes a unit (module       *)
(* Units), which oryx_exec_map_linked and oryx_tramp run as                *)
(* oryx_run_program calls them, beside the x86 machine that executes the   *)
(* same instructions directly.  oryx_run_program itself links the unit it  *)
(* has just translated, and oryx_run maps a straight-line unit without     *)
(* linking it.  Of a job the last input is linked and run.                 *)
(***************************************************************************)
EXTENDS Units, Machines, SequencesExt

CONSTANT Starts    \* machine states a block may be entered in

VARIABLES
  linked,     \* the mapped code
  host,       \* the AArch64 machine
  guest,      \* what the x86 machine has become
  stage       \* of the last unit: "none", "linked" or "refused", "run", "ran"

rvars == <<linked, host, guest, stage>>
vars  == <<uvars, rvars>>

-----------------------------------------------------------------------------
(* What the input means *)

\* The instructions up to the first that ends a block.
BlockOf(src) ==
  LET stops == { j \in 1..Len(src) : Ends(src[j]) }
  IN  IF stops = {} THEN src
      ELSE SubSeq(src, 1, CHOOSE j \in stops : \A i \in stops : j <= i)

Assemble(src) == FoldLeft(LAMBDA bytes, x : bytes \o Encode(x), <<>>, src)

\* The x86 machine behind the block, entered in s.
Meaning(in, s) ==
  LET src == BlockOf(in.src)
      len == IF in.how = "image" THEN Len(Assemble(src)) ELSE in.len
  IN  FoldLeft(LAMBDA t, x : X86Exec(x, t), [s EXCEPT !.pc = (in.pc + len) % Word], src)

-----------------------------------------------------------------------------
Init == UnitsInit /\ linked = <<>> /\ host = None /\ guest = None /\ stage = "none"

\* The last unit is there to be linked.
Ready == phase = "stored" /\ k = Len(job) /\ stage = "none"

Link ==
  /\ Ready
  /\ IF Accepted(unit)
     THEN linked' = oryx_exec_map_linked(unit) /\ stage' = "linked"
     ELSE stage' = "refused" /\ UNCHANGED linked
  /\ UNCHANGED <<uvars, host, guest>>

\* oryx_run: a straight-line block is mapped as it is and run on its own; any other,
\* and every block if there is no executable memory, is refused.
RunAlone ==
  /\ Ready
  /\ \/ Straight(unit) /\ linked' = unit.code /\ stage' = "linked"
     \/ stage' = "refused" /\ UNCHANGED linked
  /\ UNCHANGED <<uvars, host, guest>>

\* oryx_tramp: x17 is seeded with the HALT sentinel, x0..x15 are loaded.  NZCV are
\* taken to be the guest's: true of the first block, and what becomes of the flags
\* between two blocks is the subject of module Dispatcher.
EnterBlock(s) ==
  /\ stage = "linked"
  /\ host' = [ x |-> [r \in 0..17 |-> IF r = ORYX_NEXTPC THEN HALT
                                      ELSE IF r = ORYX_SCRATCH THEN 0 ELSE s.x[r]],
               n |-> s.n, z |-> s.z, v |-> s.v, mem |-> s.mem, h |-> 1 ]
  /\ guest' = Meaning(Input, s)
  /\ stage' = "run"
  /\ UNCHANGED <<uvars, linked>>

Execute ==
  /\ stage = "run"
  /\ host' = A64Exec(linked[host.h], host)
  /\ stage' = IF host'.h = 0 THEN "ran" ELSE "run"
  /\ UNCHANGED <<uvars, linked, guest>>

Next ==
  \/ (DecodeStep \/ HandOver \/ TranslateStep \/ Keep \/ NextInput) /\ UNCHANGED rvars
  \/ Link \/ RunAlone \/ (\E s \in Starts : EnterBlock(s)) \/ Execute

Spec == Init /\ [][Next]_vars

-----------------------------------------------------------------------------
(* The host state behind the block, compared with the x86 machine's *)

SameData ==
  /\ \A r \in 0..15 : host.x[r] = guest.x[r]
  /\ \A a \in DOMAIN host.mem \cup DOMAIN guest.mem : Load(host.mem, a) = Load(guest.mem, a)
SamePc == host.x[ORYX_NEXTPC] = guest.pc
SameConditions == \A cc \in Conditions : X86Holds(cc, host) = X86Holds(cc, guest)

\* The flags an instruction at position j finds were last set by a locked instruction.
AtomicFlags(src, j) ==
  \E i \in 1..(j - 1) : Atomic(src[i]) /\ \A l \in (i + 1)..(j - 1) : ~SetsFlags(src[l])

(***************************************************************************)
(* Decoded, translated, stored, parsed, linked and run, a block leaves     *)
(* exactly the registers, memory, testable conditions and next PC that the *)
(* x86 instructions leave, for immediates and displacements of every size  *)
(* around the boundaries of the encodings and for every aliasing of their  *)
(* registers: forms the IR cannot express "decode to ORYX_ERR_UNSUPPORTED  *)
(* rather than silently mistranslate" (oryxdec.h).  Excepted is what       *)
(* depends on flags last set by LOCK ADD or LOCK CMPXCHG.  There the code  *)
(* breaks its own rule ("x86 ADD/SUB/AND set NZCV, so the IR must too      *)
(* (else a following Jcc/SETcc reads stale flags)", oryxtu.c): LDADDAL and *)
(* CASAL leave NZCV as it was.                                             *)
(***************************************************************************)
RunsBlock ==
  LET src == BlockOf(Input.src)
      Stale(kinds) == \E j \in 1..Len(src) : src[j].k \in kinds /\ AtomicFlags(src, j)
  IN  stage = "ran" =>
        /\ SameData \/ Stale({"SETCC"})
        /\ SamePc \/ Stale({"SETCC", "JCC"})
        /\ SameConditions \/ AtomicFlags(src, Len(src) + 1)

-----------------------------------------------------------------------------
(* What a return code of the decoder says about the image *)

Asked  == BlockOf(Input.src)
Bytes  == Len(Assemble(Asked))
Inside == entry \in img.base..(img.base + Size - 1)
\* The image ends before the block's terminator does.
Cut    == (~\E j \in 1..Len(Asked) : Ends(Asked[j])) \/ entry - img.base + Bytes > Size
Refused == \E j \in 1..Len(Asked) : ~Translatable(Asked[j])
Count  == Cardinality({ j \in 1..Len(Asked) : Asked[j].k # "ENDBR" })

\* It ends inside an endbr64.
CutEndbr ==
  \E j \in 1..Len(Asked) :
    /\ Asked[j].k = "ENDBR"
    /\ LET start == entry - img.base + Len(Assemble(SubSeq(Asked, 1, j - 1)))
       IN  Size \in (start + 1)..(start + 3)

(***************************************************************************)
(* What each return code of oryx_x86_decode_block tells its caller.  OK:   *)
(* every instruction up to the terminator lies in the image, was           *)
(* translated into the ops and is counted in len_out.  FORMAT: the stream  *)
(* ends before its terminator does.  UNSUPPORTED: a form the switch has no *)
(* case for, or an endbr64 cut short.  INVAL: more than cap ops.  NOTFOUND *)
(* exactly when the PC is outside the image or base + len has wrapped.     *)
(* In three points this is not what oryxdec.h says: there PUSH, POP and    *)
(* CALL are "NOT yet handled (ORYX_ERR_UNSUPPORTED, a clean boundary)", a  *)
(* truncated stream is ORYX_ERR_FORMAT also inside an endbr64, and         *)
(* NOTFOUND means that the "pc is outside the image".                      *)
(***************************************************************************)
ReturnCodes ==
  Input.how = "image" /\ dst # "start" =>
    /\ dst = "OK" => ~Refused /\ ~Cut /\ Count <= Cap /\ len_out = Bytes
    /\ dst = "UNSUPPORTED" => Refused \/ CutEndbr
    /\ dst = "FORMAT" => Cut
    /\ dst = "INVAL" => Count > Cap
    /\ dst = "NOTFOUND" <=> ~Inside \/ img.base + Size >= Word

=============================================================================

-------------------------------- MODULE Units --------------------------------
(***************************************************************************)
(* From the bytes or the IR of a block to its stored unit: oryx_x86_fetch  *)
(* and oryx_translate_ex as oryx_run_program calls them, and the way of    *)
(* the unit through the store (oryx_cache_put_tu, oryx_cache_get_tu),      *)
(* which must not change it.                                               *)
(*                                                                         *)
(* A job is a sequence of inputs.  An input comes as an image, assembled   *)
(* from the instructions src and possibly cut short, or as the IR of       *)
(* another front end.  All inputs of a job are translated.                 *)
(***************************************************************************)
EXTENDS Decoder, Translator

CONSTANT Jobs    \* the jobs considered

VARIABLES
  job,        \* the job
  k,          \* the input being worked on
  made,       \* history: units translated, with their logical keys
  unit,       \* the unit as read back
  phase       \* which call the input is in: "decode", "translate", "stored"

uvars == <<dvars, tvars, job, k, made, unit, phase>>

None == [x |-> <<>>]
Input == job[k]

\* oryx_x86_decode_block has been called on an image; IR has passed its front end.
Called(in) == IF in.how = "image" THEN "start" ELSE "OK"

UnitsInit ==
  /\ job \in Jobs /\ k = 1
  /\ img = [base |-> job[1].base, bytes |-> job[1].bytes] /\ entry = job[1].pc
  /\ off = 0 /\ cur = job[1].pc /\ ops = job[1].ops /\ seen = 0
  /\ dst = Called(job[1])
  /\ block = None /\ at = 1 /\ code = <<>> /\ relocs = <<>> /\ exits = <<>>
  /\ terminated = FALSE /\ tst = "idle"
  /\ made = {} /\ unit = None
  /\ phase = "decode"

DecodeStep == phase = "decode" /\ Decode /\ UNCHANGED <<tvars, job, k, made, unit, phase>>

\* oryx_translate_ex is called with what fetch returned.
HandOver ==
  /\ phase = "decode" /\ dst = "OK"
  /\ block' = [ ops |-> ops, guest_pc |-> entry, profile_id |-> 0,
                guest_len |-> IF Input.how = "image" THEN len_out ELSE Input.len,
                policy |-> Input.policy, strength |-> Input.strength ]
  /\ tst' = "start" /\ phase' = "translate"
  /\ UNCHANGED <<dvars, at, code, relocs, exits, terminated, job, k, made, unit>>

TranslateStep == phase = "translate" /\ Translate /\ UNCHANGED <<dvars, job, k, made, unit, phase>>

\* The unit is serialized, stored under its key, and read back.
Keep ==
  /\ phase = "translate" /\ tst = "OK"
  /\ made' = made \cup {[key |-> oryx_tu_logical_key(Unit), unit |-> Unit]}
  /\ unit' = oryx_tu_parse(oryx_tu_serialize(Unit))
  /\ phase' = "stored"
  /\ UNCHANGED <<dvars, tvars, job, k>>

NextInput ==
  /\ phase = "stored" /\ k < Len(job)
  /\ k' = k + 1 /\ phase' = "decode"
  /\ LET in == job[k + 1]
     IN  /\ img' = [base |-> in.base, bytes |-> in.bytes] /\ entry' = in.pc
         /\ off' = 0 /\ cur' = in.pc /\ ops' = in.ops /\ seen' = 0
         /\ dst' = Called(in)
  /\ block' = None /\ at' = 1 /\ code' = <<>> /\ relocs' = <<>> /\ exits' = <<>>
  /\ terminated' = FALSE /\ tst' = "idle"
  /\ UNCHANGED <<job, made, unit>>

UnitsNext == DecodeStep \/ HandOver \/ TranslateStep \/ Keep \/ NextInput

UnitsSpec == UnitsInit /\ [][UnitsNext]_uvars

-----------------------------------------------------------------------------
(***************************************************************************)
(* "two translations produce the same content address iff they would       *)
(* produce the same host bytes" (oryxtu.h), as far as code bytes go: units *)
(* with one logical key have the same code, so a weakly ordered block is   *)
(* never served for an ordered one.                                        *)
(***************************************************************************)
KeyFixesCode == \A a, b \in made : a.key = b.key => a.unit.code = b.unit.code

=============================================================================

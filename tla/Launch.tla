------------------------------- MODULE Launch -------------------------------
(***************************************************************************)
(* From a profile to running threads: tools/oryx-run.sh evaluates what     *)
(* `oryxprofile env' printed and execs the game under an emulator, whose   *)
(* threads ask for hardware TSO through liboryxmm                          *)
(* (src/liboryxmm/oryxmm.c) the way oryxmm_demo.c shows.                   *)
(*                                                                         *)
(* The profile engine is module Profile, the driver is Grants.  The        *)
(* emulator is external: it calls liboryxmm if ORYX_MM_TSO is 1, and       *)
(* orders in software where it is not told that the hardware does, unless  *)
(* it is FEX and FEX_TSOENABLED is 0.                                      *)
(***************************************************************************)
EXTENDS Profile

CONSTANTS
  Threads,    \* guest threads of the emulator
  Behind      \* per word: what the shell makes of the part behind its first blank

\* The variables that decide about ordering
Ordering == {"ORYX_BACKEND", "ORYX_MM_TSO", "BOX64_DYNAREC_STRONGMEM", "FEX_TSOENABLED"}

\* Behind[w].sets are further variables it exports; it is not ok if one of the words
\* is no variable name, which ends the script (set -e).
ASSUME LaunchAssumption == \A w \in Names : Behind[w].ok \in BOOLEAN

VARIABLES
  env,        \* the variables exported for the emulator
  ph,         \* the launcher: "cli", "exec", "running", "exit"
  command,    \* is there a launch command behind the options?
  thr,        \* where each emulator thread is
  fds, granted, order      \* the driver, see Grants

lvars == <<env, ph, command, thr, fds, granted, order>>
allvars == <<vars, lvars>>
driver == <<fds, granted, order>>

Driver == INSTANCE Grants
            WITH Threads <- Threads, fds <- fds, granted <- granted, order <- order

-----------------------------------------------------------------------------
\* The exports that decide about ordering.
oryx_profile_apply_env(p) ==
  LET hw   == p.memmodel = "HW_TSO"
      knob == IF p.backend = "BOX64" THEN "BOX64_DYNAREC_STRONGMEM" ELSE "FEX_TSOENABLED"
      exported == {"ORYX_BACKEND", "ORYX_MM_TSO"}
                    \cup (IF hw /\ p.backend = "BOX64" THEN {} ELSE {knob})
  IN  [ x \in exported |->
          CASE x = "ORYX_BACKEND" -> p.backend
            [] x = "ORYX_MM_TSO"  -> IF hw THEN "1" ELSE "0"
            [] OTHER              -> IF hw THEN "0" ELSE "1" ]

LaunchInit ==
  /\ Init /\ Driver!Init
  /\ env = <<>> /\ ph = "cli" /\ command \in BOOLEAN
  /\ thr = [t \in Threads |-> "new"]

Cli == ph = "cli" /\ Next /\ UNCHANGED lvars

\* eval of the exports of p, in which resolution comes last and has no quotes.
Evaluated(p) ==
  LET printed == oryx_profile_apply_env(p)
      more    == Behind[p.resolution].sets
  IN  [ x \in DOMAIN printed \cup DOMAIN more |-> IF x \in DOMAIN more THEN more[x] ELSE printed[x] ]

\* ENV=$(oryxprofile env ...) and eval; a failure of the command launches untuned, a
\* failure of eval ends the script.
Evaluate ==
  /\ ph = "cli"
  /\ \/ st = "FAIL" /\ ph' = "exec" /\ UNCHANGED env
     \/ st = "OK" /\ Behind[out.resolution].ok /\ ph' = "exec" /\ env' = Evaluated(out)
     \/ st = "OK" /\ ~Behind[out.resolution].ok /\ ph' = "exit" /\ UNCHANGED env
  /\ UNCHANGED <<vars, command, thr, driver>>

\* --dry-run only prints: the script exits here if it was given no command.
Exec ==
  /\ ph = "exec"
  /\ ph' = IF command THEN "running" ELSE "exit"
  /\ UNCHANGED <<vars, env, command, thr, driver>>

-----------------------------------------------------------------------------
(* An emulator thread, and liboryxmm's part in it *)

Go(t, from, to) == ph = "running" /\ thr[t] = from /\ thr' = [thr EXCEPT ![t] = to]

Asks == "ORYX_MM_TSO" \in DOMAIN env /\ env["ORYX_MM_TSO"] = "1"

NoRequest(t) == ~Asks /\ Go(t, "new", "soft") /\ UNCHANGED driver

oryx_mm_open(t) ==
  \/ Asks /\ Go(t, "new", "opened") /\ Driver!Open(t)
  \/ Asks /\ Go(t, "new", "soft") /\ UNCHANGED driver              \* returns -1

\* Mutant: a failed ioctl is not told from a grant.
MutOryxMmEnableTso(t) ==
  \/ Go(t, "opened", "enabled") /\ Driver!Grant(t)
  \/ Go(t, "opened", "enabled") /\ UNCHANGED driver

oryx_mm_enable_tso(t) ==
  \/ Go(t, "opened", "enabled") /\ Driver!Grant(t)
  \/ Go(t, "opened", "refused") /\ UNCHANGED driver

\* oryx_mm_thread_tso_on returns the fd, and the thread stops ordering in software ...
ThreadTsoOn(t) ==
  /\ Go(t, "enabled", "hard")
  /\ order' = [order EXCEPT ![t] = "hardware"] /\ UNCHANGED <<fds, granted>>

\* ... or closes the fd and returns -1.
ThreadTsoOff(t) == Go(t, "refused", "soft") /\ Driver!Close(t)

\* At its end a thread closes its fd: release returns the grant.
GiveBack(t)     == Go(t, "hard", "closing") /\ Driver!Return(t)
oryx_mm_close(t) == Go(t, "closing", "end") /\ Driver!Close(t)
SoftEnds(t)     == Go(t, "soft", "end") /\ UNCHANGED driver

Thread(t) ==
  /\ \/ NoRequest(t) \/ oryx_mm_open(t) \/ oryx_mm_enable_tso(t)
     \/ ThreadTsoOn(t) \/ ThreadTsoOff(t)
     \/ GiveBack(t) \/ oryx_mm_close(t) \/ SoftEnds(t)
  /\ UNCHANGED <<vars, env, ph, command>>

LaunchNext == Cli \/ Evaluate \/ Exec \/ \E t \in Threads : Thread(t)

LaunchSpec == LaunchInit /\ [][LaunchNext]_allvars

-----------------------------------------------------------------------------
\* FEX reads its own switch for every thread of the process.
SoftwareOff == "FEX_TSOENABLED" \in DOMAIN env /\ env["FEX_TSOENABLED"] = "0"

\* The guest code of t runs in the order x86 promises.
Ordered(t) == (order[t] = "hardware" /\ t \in granted) \/ ~SoftwareOff

\* The profile itself switches FEX's software ordering off.
TurnsOff(p) ==
  \/ p.backend = "FEX" /\ p.memmodel = "HW_TSO"
  \/ "FEX_TSOENABLED" \in DOMAIN Behind[p.resolution].sets

(***************************************************************************)
(* "Everything fails closed" (oryxmm.h): whichever call failed before, a   *)
(* thread is told that TSO is on only while the driver holds a grant for   *)
(* it, and keeps no fd otherwise; and a thread that was refused is still   *)
(* ordered in software.  One case is excepted, in which the code breaks    *)
(* "-1 if hardware TSO is unavailable (caller keeps software ordering)"    *)
(* (oryxmm.h): a profile with FEX_TSOENABLED=0 has switched software       *)
(* ordering off for the whole process before the first thread asked.       *)
(***************************************************************************)
FailsClosed ==
  \A t \in Threads :
    /\ order[t] = "hardware" \/ thr[t] = "hard" => t \in granted
    /\ thr[t] \in {"soft", "end"} => t \notin fds
    /\ thr[t] \in {"soft", "hard"} /\ ~Ordered(t) => thr[t] = "soft" /\ out \in Profile /\ TurnsOff(out)

\* File f, read in one piece or cut, is where profile p comes from.
Yields(f, p) == \E text \in Read(dir[f]) : Parsed(text) = p

SaysHardware(text) == \E j \in DOMAIN text : text[j].k = "memmodel" /\ text[j].v = "hw_tso"

\* The buffer ends behind the first letters of a memory model, and they are hw_tso.
CutToHardware(text) ==
  /\ Len(text) > TextCap /\ text[TextCap + 1].k = "memmodel"
  /\ "hw_tso" \in Beginnings[text[TextCap + 1].v]

(***************************************************************************)
(* A tuned launch never loses the guest's memory model on the way from the *)
(* file: the emulator is told to rely on the hardware only if the device   *)
(* offers it and the file of the chosen profile asks for it in so many     *)
(* words, and in every other case the software knob of the profile's       *)
(* backend is on, also when the file was cut or its lines are missing.     *)
(* Excepted are a file cut behind the letters hw_tso of a longer word, and *)
(* a setting with a blank behind which one of the ordering variables is    *)
(* assigned: ORYX_RES, ORYX_FSR and ORYX_TURNIP_BUILD are evaluated        *)
(* without quotes, and "memmodel = sw_fences -> ORYX_MM_TSO=0"             *)
(* (docs/formats/profile.md) is then not so.                               *)
(***************************************************************************)
OrderingExported ==
  env # <<>> /\ DOMAIN Behind[out.resolution].sets \cap Ordering = {} =>
    IF Asks THEN /\ req.hw_tso
                 /\ \E f \in DOMAIN dir :
                      Yields(f, out) /\ (SaysHardware(dir[f]) \/ CutToHardware(dir[f]))
    ELSE IF env["ORYX_BACKEND"] = "BOX64" THEN env["BOX64_DYNAREC_STRONGMEM"] = "1"
                                          ELSE env["FEX_TSOENABLED"] = "1"

=============================================================================

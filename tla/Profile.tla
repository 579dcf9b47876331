------------------------------ MODULE Profile -------------------------------
(***************************************************************************)
(* liboryxprofile (src/liboryxprofile/profile.c) as the `env' command of   *)
(* oryxprofile_cli.c drives it: the *.profile files of a directory are     *)
(* read, parsed and added to a set, the best one for the request is        *)
(* searched item by item, and its settings become environment variables.   *)
(*                                                                         *)
(* A file is a sequence of key = value lines; comments, blank lines and    *)
(* the settings that are exported in quotes are lines with the key         *)
(* "other", and resolution stands for the three that are exported without  *)
(* (turnip_build, resolution, fsr_mode).  readdir returns the files in any *)
(* order, opening one may fail, a file longer than the read buffer is cut, *)
(* and the set may fail to grow.                                           *)
(***************************************************************************)
EXTENDS Ranking, Sequences

CONSTANTS
  Directories,  \* directory contents considered: functions from names to texts
  Requests,     \* requests considered
  Beginnings,   \* what the end of the read buffer may leave of a word
  TextCap,      \* lines that fit the read buffer, 4095 bytes in the code
  UintMod,      \* 2^32: sample_count is an unsigned 32-bit number
  Undecided, Nothing

Unset == ""     \* a string field after oryx_profile_init

StringKeys == {"game_build_hash", "device_class", "backend", "memmodel", "resolution", "other"}
NumberKeys == {"requires_hw_tso", "median_fps", "p1_low_fps", "sustained_fps",
               "crash_rate", "sample_count"}
Line == [k : StringKeys, v : Names] \cup [k : NumberKeys, v : Int]

ASSUME ProfileAssumption ==
  /\ Requests \subseteq Request /\ Unset \in Names
  /\ Beginnings \in [Names -> SUBSET Names]
  /\ \A d \in Directories : \A f \in DOMAIN d : d[f] \in Seq(Line)
  /\ TextCap \in Nat /\ UintMod \in Nat \ {0}
  /\ Undecided \notin Profile /\ Nothing \notin Profile /\ Undecided # Nothing

VARIABLES
  req,        \* the arguments of the command
  dir,        \* the directory
  unread,     \* files readdir has yet to return
  items,      \* the profile set
  i,          \* index of resolve's loop
  best,       \* index of the best item so far, 0 for NULL
  best_score,
  st,         \* "load", "resolve", "free", then "OK" or "FAIL"
  out         \* the profile resolved

vars == <<req, dir, unread, items, i, best, best_score, st, out>>

-----------------------------------------------------------------------------
(* oryx_profile_parse *)

\* The last line for a key decides; without one the value of oryx_profile_init stays.
Value(text, key, default) ==
  LET hits == { j \in DOMAIN text : text[j].k = key }
      Last(j) == j \in hits /\ \A l \in hits : l <= j
  IN  IF \E j \in hits : Last(j) THEN text[CHOOSE j \in hits : Last(j)].v ELSE default

\* Mutant: an unknown memory model means the hardware one.
MutMemmodelOf(text) ==
  IF Value(text, "memmodel", Unset) \in {Unset, "sw_fences"} THEN "SW_FENCES" ELSE "HW_TSO"

MemmodelOf(text) == IF Value(text, "memmodel", Unset) = "hw_tso" THEN "HW_TSO" ELSE "SW_FENCES"
BackendOf(text)  == IF Value(text, "backend", Unset) = "fex" THEN "FEX" ELSE "BOX64"

\* Mutant: sample_count keeps the digits that do not fit 32 bits.
MutSamples(text) == Value(text, "sample_count", 0)

\* strtoul, stored in an unsigned int.
Samples(text) == Value(text, "sample_count", 0) % UintMod

Parsed(text) ==
  [ game_build_hash |-> Value(text, "game_build_hash", Unset),
    device_class    |-> Value(text, "device_class", Unset),
    requires_hw_tso |-> Value(text, "requires_hw_tso", 0),
    backend         |-> BackendOf(text),
    memmodel        |-> MemmodelOf(text),
    resolution      |-> Value(text, "resolution", Unset),
    median_fps      |-> Value(text, "median_fps", 0),
    p1_low_fps      |-> Value(text, "p1_low_fps", 0),
    sustained_fps   |-> Value(text, "sustained_fps", 0),
    crash_rate      |-> Value(text, "crash_rate", 0),
    sample_count    |-> Samples(text) ]

\* ORYX_P_OK, or ORYX_P_INVAL.
Valid(p) == p.game_build_hash # Unset /\ p.device_class # Unset

\* What fread returns of a text: its first TextCap lines, and of the next one
\* nothing that parses or the beginning of its value: a number with some of its digits,
\* a word with some of its letters, which may be a word the parser knows.
CutLine(l) == IF l.k \in NumberKeys THEN { [l EXCEPT !.v = n] : n \in {l.v, l.v \div 10, 0} }
              ELSE { [l EXCEPT !.v = w] : w \in Beginnings[l.v] }

Read(text) ==
  IF Len(text) <= TextCap THEN {text}
  ELSE LET kept == SubSeq(text, 1, TextCap)
       IN  {kept} \cup { Append(kept, l) : l \in CutLine(text[TextCap + 1]) }

-----------------------------------------------------------------------------
\* sample_count stays what an unsigned 32-bit number can hold.
TypeOK ==
  /\ req \in Requests /\ dir \in Directories /\ unread \subseteq DOMAIN dir
  /\ items \in Seq(Profile)
  /\ \A j \in DOMAIN items : items[j].sample_count < UintMod
  /\ i \in 1..(Len(items) + 1) /\ best \in 0..(i - 1)
  /\ best_score \in [num : Int, den : Nat \ {0}]
  /\ st \in {"load", "resolve", "free", "OK", "FAIL"}
  /\ out \in Profile \cup {Undecided, Nothing}

Init ==
  /\ req \in Requests
  /\ dir \in Directories /\ unread = DOMAIN dir
  /\ items = <<>> /\ i = 1 /\ best = 0 /\ best_score = Floor
  /\ st = "load" /\ out = Undecided

\* opendir fails: the command exits with 1.
CannotOpen ==
  /\ st = "load" /\ items = <<>> /\ unread = DOMAIN dir
  /\ st' = "FAIL" /\ out' = Nothing
  /\ UNCHANGED <<req, dir, unread, items, i, best, best_score>>

\* One file: unreadable, refused by parse, not added for lack of memory, or added.
LoadFile(f) ==
  /\ st = "load" /\ f \in unread
  /\ unread' = unread \ {f}
  /\ \/ UNCHANGED items                                    \* fopen or realloc failed
     \/ \E text \in Read(dir[f]) :
          items' = IF Valid(Parsed(text)) THEN Append(items, Parsed(text)) ELSE items
  /\ UNCHANGED <<req, dir, i, best, best_score, st, out>>

LoadEnds ==
  /\ st = "load" /\ unread = {}
  /\ st' = "resolve"
  /\ UNCHANGED <<req, dir, unread, items, i, best, best_score, out>>

\* Mutant: a later item wins every tie of scores.
MutReplaces(p, sc) == Above(sc, best_score) \/ (Equal(sc, best_score) /\ best # 0)

\* Does item p with score sc take the place of the best so far?
Replaces(p, sc) ==
  \/ Above(sc, best_score)
  \/ Equal(sc, best_score) /\ best # 0 /\ p.sample_count > items[best].sample_count

ResolveItem ==
  /\ st = "resolve" /\ i <= Len(items)
  /\ LET p  == items[i]
         sc == oryx_profile_score(p)
     IN  IF Eligible(p, req) /\ Replaces(p, sc)
         THEN best' = i /\ best_score' = sc
         ELSE UNCHANGED <<best, best_score>>
  /\ i' = i + 1
  /\ UNCHANGED <<req, dir, unread, items, st, out>>

\* ORYX_P_OK with a copy of the best, or ORYX_P_NOTFOUND.
ResolveEnds ==
  /\ st = "resolve" /\ i > Len(items)
  /\ st' = "free"
  /\ out' = IF best # 0 THEN items[best] ELSE Nothing
  /\ UNCHANGED <<req, dir, unread, items, i, best, best_score>>

\* The set is freed; without a profile the command exits with 1.
Free ==
  /\ st = "free"
  /\ st' = IF out # Nothing THEN "OK" ELSE "FAIL"
  /\ items' = <<>> /\ i' = 1 /\ best' = 0 /\ best_score' = Floor
  /\ UNCHANGED <<req, dir, unread, out>>

Next ==
  \/ CannotOpen \/ (\E f \in unread : LoadFile(f)) \/ LoadEnds
  \/ ResolveItem \/ ResolveEnds \/ Free

Spec == Init /\ [][Next]_vars

-----------------------------------------------------------------------------
Members == { items[j] : j \in DOMAIN items }

Chosen == INSTANCE Choice
            WITH Names <- Names, Undecided <- Undecided, Nothing <- Nothing,
                 req <- req, pool <- Members, choice <- out

(***************************************************************************)
(* The engine implements Choice: in whatever order readdir returns the     *)
(* files and whichever of them cannot be used, what oryx_profile_resolve   *)
(* returns is a best-scoring compatible profile of those collected, the    *)
(* better sampled one of two that score the same, and NOTFOUND is returned *)
(* only when there is no candidate.                                        *)
(***************************************************************************)
ChoosesBest == Chosen!Spec

=============================================================================

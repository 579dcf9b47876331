------------------------------ MODULE MCLaunch ------------------------------
(***************************************************************************)
(* Directories of profiles for Launch.                                     *)
(***************************************************************************)
EXTENDS Launch, FiniteSets

CONSTANTS t1, t2

MCNames == {"", "g", "h", "d", "box64", "fex", "sw_fences", "hw_tso", "native", "hw", "hw_tso_v2",
            "1280x720", "1280 x 720", "off ORYX_MM_TSO=1"}

\* Beginnings of the words the buffer may end in.
MCBeginnings ==
  [ w \in MCNames |->
      CASE w = "hw_tso" -> {"", "hw", w} [] w = "hw_tso_v2" -> {"", "hw", "hw_tso", w} [] OTHER -> {"", w} ]

\* `export ORYX_RES=1280 x 720': 720 is no name; `export ORYX_FSR=off ORYX_MM_TSO=1'.
MCBehind ==
  [ w \in MCNames |->
      [ ok   |-> w # "1280 x 720",
        sets |-> IF w = "off ORYX_MM_TSO=1" THEN [x \in {"ORYX_MM_TSO"} |-> "1"] ELSE <<>> ] ]

L(key, value) == [k |-> key, v |-> value]
Fps(x) == <<L("median_fps", x), L("p1_low_fps", x), L("sustained_fps", x)>>
For(backend, memmodel) ==
  << L("game_build_hash", "g"), L("device_class", "d"),
     L("backend", backend), L("memmodel", memmodel) >>
Seen(n, crash) == <<L("sample_count", n), L("crash_rate", crash)>>

\* With a crash rate of one tenth the score of x fps is proportional to x in 0 samples
\* and to 3x/2 in 10: the first three score the same.
Pool ==
  << For("box64", "sw_fences") \o Fps(3) \o Seen(0, 1),
     For("fex", "sw_fences") \o Fps(2) \o Seen(10, 1),
     For("box64", "hw_tso") \o Fps(2) \o Seen(10, 1),
     For("fex", "hw_tso") \o Fps(4) \o Seen(3, 0),
     \* memmodel behind the end of the read buffer
     For("box64", "") \o Fps(3) \o Seen(2, 2) \o <<L("memmodel", "hw_tso")>>,
     For("fex", "") \o Fps(3) \o Seen(4, 2) \o <<L("memmodel", "hw_tso_v2")>>,
     \* settings with a blank
     For("box64", "sw_fences") \o <<L("p1_low_fps", 9), L("resolution", "1280 x 720")>>,
     For("fex", "sw_fences") \o <<L("p1_low_fps", 8), L("resolution", "off ORYX_MM_TSO=1")>>,
     \* a memory model nobody knows, for devices with hw_tso; a key given twice
     For("fex", "native") \o <<L("requires_hw_tso", 1), L("p1_low_fps", 1), L("p1_low_fps", 5)>>
       \o Seen(20, 9),
     \* another game, no device class, sample_count beyond 32 bits
     <<L("game_build_hash", "h"), L("device_class", "d"), L("p1_low_fps", 9)>>,
     <<L("game_build_hash", "g"), L("memmodel", "hw_tso"), L("p1_low_fps", 9)>>,
     For("box64", "hw_tso") \o Fps(5) \o Seen(41, 0),
     \* numbers no device reports: the score is below -1
     For("box64", "hw_tso") \o Fps(6) \o Seen(20, 60) >>

MCDirectories ==
  { [n \in S |-> Pool[n]] : S \in { T \in SUBSET (1..Len(Pool)) : Cardinality(T) <= 3 } }

MCRequests == [game : {"g"}, device_class : {"d"}, hw_tso : BOOLEAN]

=============================================================================

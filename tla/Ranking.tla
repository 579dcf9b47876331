------------------------------ MODULE Ranking -------------------------------
(***************************************************************************)
(* What makes one tuning profile better than another, from                 *)
(* src/liboryxprofile/profile.c: oryx_profile_score and                    *)
(* oryx_profile_compatible.                                                *)
(*                                                                         *)
(* Frames per second are whole numbers and crash_rate counts tenths.  The  *)
(* score, a double in the code, is an exact fraction here: with            *)
(* conf = n / (n + 10) it is                                               *)
(*                                                                         *)
(*   (5 p1 + 3 median + 2 sustained) (10 (n + 9) - crash n) (n + 5)        *)
(*   --------------------------------------------------------------        *)
(*                       100 (n + 10)^2                                    *)
(***************************************************************************)
EXTENDS Integers

CONSTANT Names    \* hashes, device classes and other words a file may hold

Profile == [ game_build_hash : Names, device_class : Names, requires_hw_tso : Int,
             backend : {"BOX64", "FEX"}, memmodel : {"SW_FENCES", "HW_TSO"},
             resolution : Names,
             median_fps : Int, p1_low_fps : Int, sustained_fps : Int,
             crash_rate : Int, sample_count : Nat ]

Request == [ game : Names, device_class : Names, hw_tso : BOOLEAN ]

oryx_profile_score(p) ==
  LET n == p.sample_count
  IN  [ num |-> (5 * p.p1_low_fps + 3 * p.median_fps + 2 * p.sustained_fps)
                  * (10 * (n + 9) - p.crash_rate * n) * (n + 5),
        den |-> (n + 10) * (n + 10) ]

\* The comparisons of two scores, and the score that resolve starts from, -1.
Above(a, b) == a.num * b.den > b.num * a.den
Equal(a, b) == a.num * b.den = b.num * a.den
Floor == [num |-> -100, den |-> 1]

oryx_profile_compatible(p, caps) ==
  /\ p.device_class = caps.device_class
  /\ (p.requires_hw_tso # 0 \/ p.memmodel = "HW_TSO") => caps.hw_tso

Eligible(p, req) == p.game_build_hash = req.game /\ oryx_profile_compatible(p, req)

\* Candidates of a request, and the best of them.  A score of -1 or less, which
\* takes telemetry no device reports, is never chosen.
Candidates(pool, req) ==
  { p \in pool : Eligible(p, req) /\ Above(oryx_profile_score(p), Floor) }

Best(pool, req) ==
  { p \in Candidates(pool, req) :
      \A q \in Candidates(pool, req) :
        LET sp == oryx_profile_score(p)
            sq == oryx_profile_score(q)
        IN  Above(sp, sq) \/ (Equal(sp, sq) /\ p.sample_count >= q.sample_count) }

=============================================================================

------------------------------- MODULE Choice -------------------------------
(***************************************************************************)
(* What the profile engine promises its callers (profile.h: "Best-scoring  *)
(* compatible profile for the given game build + caps"): profiles are      *)
(* collected, then one of the best for the request is chosen, or none when *)
(* there is no candidate.  Collecting may also fail as a whole.            *)
(***************************************************************************)
EXTENDS Ranking

CONSTANTS
  Undecided,  \* no choice has been made yet
  Nothing     \* the choice when there is no candidate, or no directory to read

VARIABLES
  req,        \* game build, device class and capability
  pool,       \* the profiles collected
  choice      \* a profile, Undecided or Nothing

cvars == <<req, pool, choice>>

Init == req \in Request /\ pool = {} /\ choice = Undecided

Collect ==
  /\ choice = Undecided
  /\ pool' \in SUBSET Profile /\ pool \subseteq pool'
  /\ UNCHANGED <<req, choice>>

Choose ==
  /\ choice = Undecided
  /\ \/ choice' \in Best(pool, req)
     \/ Candidates(pool, req) = {} /\ choice' = Nothing
  /\ UNCHANGED <<req, pool>>

Forget == choice # Undecided /\ pool' = {} /\ UNCHANGED <<req, choice>>

Next == Collect \/ Choose \/ Forget

Spec == Init /\ [][Next]_cvars

=============================================================================

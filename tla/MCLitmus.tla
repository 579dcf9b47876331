------------------------------ MODULE MCLitmus ------------------------------
EXTENDS Litmus

\* Every combination of options that can matter: fenced has an effect on the plain
\* mapping only, and a grant on accesses that carry no order of their own.  WRC is
\* run without requests, to keep the three-thread state space small.
AllConfigs ==
  { c \in [ test : {"mp", "sb", "wrc"}, map : {"plain", "rcpc", "sc", "dmb"},
            fenced : BOOLEAN, request : BOOLEAN ] :
      /\ c.fenced => c.map = "plain"
      /\ c.request => c.map = "plain" /\ c.test # "wrc" }

=============================================================================

------------------------------- MODULE MCWifiMan -------------------------------
(* Small instances of WifiMan for TLC *)
EXTENDS WifiInvariants, TLC

DurationOne == [t \in Tokens |-> 1]
LimitTwo    == [t \in Tokens |-> 2]
NoLimit     == [t \in Tokens |-> 0]
Symmetry    == Permutations(Macs) \cup Permutations(Sessions)
               \cup Permutations(Procs \ Workers)
==============================================================================

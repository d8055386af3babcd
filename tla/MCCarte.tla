------------------------------ MODULE MCCarte ------------------------------
(* Instantiates Carte for TLC: three pids, a timeout_accord of 5 s (two   *)
(* launches per start(), at i = 0 and i = 5) or of 0 (an empty loop, as   *)
(* for every value <= 0), the levels analyse_opt() returns (1 by default,  *)
(* 2 with -v, 3 with -d; -q is ignored), and the pid-file delay of each    *)
(* run.                                                                    *)
EXTENDS Carte

MCPids == {1, 2, 3}
MCTimeoutAccords == {0, 5}
MCVerboses == {1, 2, 3}
====

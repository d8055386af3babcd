----------------------------- MODULE AnalyseOpt ----------------------------
(***************************************************************************)
(* analyse_opt() of src/scripts/sat_daemon.py: the command line of the     *)
(* fleet supervisor.  getopt turns argv into (opt, val) pairs, or raises   *)
(* on an unknown option; the loop then goes over the pairs in order, and   *)
(* usage() ends the process (exit 0 for -h, -1 for an error).  The result  *)
(* sets the verbosity (which also decides daemonize(): verbose < 2) and    *)
(* timeout_accord of every card.                                           *)
(*                                                                         *)
(* The input is the list of pairs getopt returns; a timeout value is an    *)
(* integer, with whether int() accepts the string (else it raises).        *)
(* The main program of sat_daemon.py calls analyse_opt() first: SatDaemon  *)
(* instantiates this module with its own args.                            *)
(***************************************************************************)
EXTENDS Integers, Sequences

CONSTANTS
    Pairs,     \* the (opt, val) pairs argv may give: [opt, val, isint]: isint is whether int(val) succeeds
    MaxArgs    \* bound on the number of options on the command line

VARIABLE args  \* the options of the invocation

-----------------------------------------------------------------------------
(* The code *)

\* getopt(argv, 'hdvq', ['help', 'debug', 'quiet', 'verbose', 'timeout_accord=']).
Known == {"-h", "--help", "-d", "--debug", "-v", "--verbose", "-q", "--quiet",
          "--timeout_accord"}

\* verbose = 1, timeout_accord = 20; "run" until usage() exits.
Defaults == [verbose |-> 1, timeout |-> 20, exit |-> "run"]

\* One pass of the for loop: the elif chain.  `opt == ['-q', '--quiet']`
\* compares a string with a list and is never true, so -q falls through
\* every branch.
Apply(r, o) ==
    CASE o.opt \in {"-v", "--verbose"} -> [r EXCEPT !.verbose = 2]
      [] o.opt \in {"-d", "--debug"} -> [r EXCEPT !.verbose = 3]
      [] o.opt = "--timeout_accord" /\ o.isint -> [r EXCEPT !.timeout = o.val]
      [] o.opt = "--timeout_accord" -> [r EXCEPT !.exit = "usage_err"]
      [] o.opt \in {"-h", "--help"} -> [r EXCEPT !.exit = "usage_ok"]
      [] OTHER -> r

\* The loop, left at the first usage() call.
RECURSIVE Loop(_, _, _)
Loop(opts, k, r) ==
    IF k > Len(opts) \/ r.exit # "run" THEN r
    ELSE Loop(opts, k + 1, Apply(r, opts[k]))

analyse_opt(argv) ==
    IF \E k \in DOMAIN argv : argv[k].opt \notin Known
    THEN [Defaults EXCEPT !.exit = "usage_err"]
    ELSE Loop(argv, 1, Defaults)

====

------------------------------- MODULE Carte -------------------------------
(***************************************************************************)
(* The per-card process controller: class carte of                         *)
(* src/scripts/sat_base.py.  One caller runs start(), stop() and restart() *)
(* one at a time; each is a sequence of steps between which the external   *)
(* mumudvb daemon and the other processes of the machine act.  The         *)
(* controller sees them only through the pid file and `ps <pid>`           *)
(* (is_running) and acts on them only through os.system (launch) and      *)
(* os.kill.                                                                *)
(*                                                                         *)
(* The daemon (not part of this repository) is the environment.  What the *)
(* model assumes of it: it writes its pid file once, less than PidDelay    *)
(* seconds after launch, then opens the card's frontend; if another        *)
(* mumudvb holds the frontend it exits at once.  On any exit of its own    *)
(* (tuning failure, timeout_no_diff, SIGTERM) it removes the pid file; a   *)
(* SIGKILL leaves the pid file behind.  Pids are reused by the OS.         *)
(***************************************************************************)
EXTENDS Integers, FiniteSets

CONSTANTS
    Pids,           \* the process ids the OS can hand out
    NoPid,          \* what get_pid() sees when the pid file is absent or unreadable
    TimeoutAccords, \* values config() may give carte.timeout_accord: the
                    \* --timeout_accord option, which int() takes even if <= 0
    Verboses,       \* values config() may give carte.verbose (analyse_opt's level)
    PidDelay,       \* mumudvb writes its pid file less than PidDelay s after launch
    PidReuse        \* other programs may take the pids mumudvb leaves free

ASSUME NoPid \notin Pids
ASSUME TimeoutAccords \subseteq Int
ASSUME Verboses \subseteq Nat
ASSUME PidDelay \in Nat \ {0}
ASSUME PidReuse \in BOOLEAN

VARIABLES
    proc,      \* proc[p]: "free", "foreign", "starting" (mumudvb before its pid file) or "up"
    age,       \* age[p]: seconds since the starting mumudvb p was launched
    termd,     \* daemons that received SIGTERM and have not exited yet
    pidfile,   \* the pid written in /var/run/tv/mumudvb_carte%i.pid, or NoPid
    pc,        \* where the caller is inside start()/stop()
    op,        \* the method called: "start", "stop" or "restart"
    freq,      \* self.freq is set (a transponder subclass, not the bare carte)
    i,         \* the loop index of start()
    lpid,      \* the pid get_pid() returned to stop() for its os.kill
    launched,  \* the daemons launched during the current call
    outcome,   \* how the last call ended: "ok" or the exception it raised
    timeout_accord, \* the class attribute, set once by config()
    verbose,   \* the class attribute, set once by config()
    fg         \* the mumudvb os.system is waiting for, or NoPid

vars == <<proc, age, termd, pidfile, pc, op, freq, i, lpid, launched, outcome,
          timeout_accord, verbose, fg>>

-----------------------------------------------------------------------------
(* Helpers *)

Daemons == {p \in Pids : proc[p] \in {"starting", "up"}}

Exceptions == {"CarteOqp", "NotRunning", "OSError", "IOError"}

StopPCs == {"sp_check", "sp_getpid15", "sp_kill15", "sp_sleep",
            "sp_check2", "sp_check3", "sp_getpid9", "sp_kill9"}

PCs == {"idle", "st_check", "st_gen", "st_launch", "st_system", "st_sleep", "st_poll",
        "st_final_sleep", "st_final_check"} \cup StopPCs

\* is_running(): get_pid() reads the pid file, `ps <pid>` succeeds for any
\* live process with that pid.
is_running == pidfile \in Pids /\ proc[pidfile] # "free"

\* Fault model: a retry every 2 s instead of every 5 s.
RetryDueFast == i % 2 = 0 /\ i <= timeout_accord

\* The condition under which start() (re)launches mumudvb at index i.
RetryDue == i % 5 = 0 /\ i <= timeout_accord

\* Where each sleep(1) of start() and stop() continues.
AfterSleep == [st_sleep |-> "st_poll", st_final_sleep |-> "st_final_check",
               sp_sleep |-> "sp_check2"]

\* The call ends: with a return ("ok") or with an exception.
Return(r) == pc' = "idle" /\ outcome' = r

\* Fault model: restart() that only stops.
StopReturnsEndingRestart == Return("ok")

\* stop() returns normally; inside restart() the start() part follows.
StopReturns ==
    IF op = "restart" THEN pc' = "st_check" /\ UNCHANGED outcome
                      ELSE Return("ok")

\* os.system(cmd) starts mumudvb under a free pid.  With verbose > 2 cmd
\* ends in ' -d -s': mumudvb stays in the foreground and os.system returns
\* only when it exits.  Otherwise it daemonizes and os.system returns at
\* once.  When the fork fails os.system's status is ignored.
launch ==
    \/ \E p \in Pids :
          /\ proc[p] = "free"
          /\ proc' = [proc EXCEPT ![p] = "starting"]
          /\ age' = [age EXCEPT ![p] = 0]
          /\ launched' = launched \cup {p}
          /\ IF verbose > 2 THEN fg' = p /\ pc' = "st_system"
                            ELSE pc' = "st_sleep" /\ UNCHANGED fg
    \/ /\ \A p \in Pids : proc[p] # "free"
       /\ pc' = "st_sleep"
       /\ UNCHANGED <<proc, age, launched, fg>>

-----------------------------------------------------------------------------
(* The caller *)

Init ==
    /\ proc = [p \in Pids |-> "free"]
    /\ age = [p \in Pids |-> 0]
    /\ termd = {}
    /\ pidfile = NoPid
    /\ pc = "idle"
    /\ op = "start"
    /\ freq = TRUE
    /\ i = 0
    /\ lpid = NoPid
    /\ launched = {}
    /\ outcome = "ok"
    /\ timeout_accord \in TimeoutAccords
    /\ verbose \in Verboses
    /\ fg = NoPid

\* A call of start(), stop() or restart() on a transponder instance or on a
\* bare carte(i) (no freq).
Call ==
    /\ pc = "idle"
    /\ \E o \in {"start", "stop", "restart"}, f \in BOOLEAN :
          /\ op' = o
          /\ freq' = f
          /\ pc' = IF o = "start" THEN "st_check" ELSE "sp_check"
    /\ launched' = {}
    /\ outcome' = "none"
    /\ UNCHANGED <<timeout_accord, verbose, fg, proc, age, termd, pidfile, i, lpid>>

-----------------------------------------------------------------------------
(* start() *)

\* Fault model: start() without the is_running() test of line 139.
start_check_unguarded ==
    /\ pc = "st_check"
    /\ \/ ~freq /\ Return("ok")
       \/ freq /\ pc' = "st_gen" /\ UNCHANGED outcome
    /\ UNCHANGED <<timeout_accord, verbose, fg, proc, age, termd, pidfile, op, freq, i, lpid, launched>>

\* No freq: return silently.  A live pid in the pid file: raise CarteOqp.
start_check ==
    /\ pc = "st_check"
    /\ \/ ~freq /\ Return("ok")
       \/ freq /\ is_running /\ Return("CarteOqp")
       \/ freq /\ ~is_running /\ pc' = "st_gen" /\ UNCHANGED outcome
    /\ UNCHANGED <<timeout_accord, verbose, fg, proc, age, termd, pidfile, op, freq, i, lpid, launched>>

\* gen_conf() writes /etc/sat/carte%i.conf; an IOError escapes start().
\* Then the loop over range(2*timeout_accord), empty when timeout_accord
\* <= 0: straight to the final sleep(1), nothing launched.
gen_conf ==
    /\ pc = "st_gen"
    /\ \/ 2 * timeout_accord > 0 /\ pc' = "st_launch" /\ i' = 0 /\ UNCHANGED outcome
       \/ 2 * timeout_accord <= 0 /\ pc' = "st_final_sleep" /\ UNCHANGED <<i, outcome>>
       \/ Return("IOError") /\ UNCHANGED i
    /\ UNCHANGED <<timeout_accord, verbose, fg, proc, age, termd, pidfile, op, freq, lpid, launched>>

\* Loop head: every 5 s while i <= timeout_accord, os.system(cmd).
start_launch ==
    /\ pc = "st_launch"
    /\ \/ RetryDue /\ launch
       \/ ~RetryDue /\ pc' = "st_sleep" /\ UNCHANGED <<proc, age, launched, fg>>
    /\ UNCHANGED <<timeout_accord, verbose, termd, pidfile, op, freq, i, lpid, outcome>>

\* os.system returns once its foreground mumudvb has exited.
system_return ==
    /\ pc = "st_system" /\ proc[fg] = "free"
    /\ fg' = NoPid /\ pc' = "st_sleep"
    /\ UNCHANGED <<timeout_accord, verbose, proc, age, termd, pidfile, op, freq, i, lpid, launched, outcome>>

\* sleep(1): one second passes.  A starting daemon writes its pid file
\* before it is PidDelay seconds old, so time waits for it.
sleep ==
    /\ pc \in DOMAIN AfterSleep
    /\ \A p \in Pids : proc[p] = "starting" => age[p] + 1 < PidDelay
    /\ age' = [p \in Pids |-> IF proc[p] = "starting" THEN age[p] + 1 ELSE age[p]]
    /\ pc' = AfterSleep[pc]
    /\ UNCHANGED <<timeout_accord, verbose, fg, proc, termd, pidfile, op, freq, i, lpid, launched, outcome>>

\* Fault model: the next round without i += 1.
start_poll_stuck ==
    /\ pc = "st_poll"
    /\ \/ is_running /\ pc' = "st_final_sleep" /\ UNCHANGED i
       \/ ~is_running /\ i + 1 < 2 * timeout_accord /\ pc' = "st_launch" /\ UNCHANGED i
       \/ ~is_running /\ i + 1 = 2 * timeout_accord /\ pc' = "st_final_sleep" /\ UNCHANGED i
    /\ UNCHANGED <<timeout_accord, verbose, fg, proc, age, termd, pidfile, op, freq, lpid, launched, outcome>>

\* Fault model: one round too many (range(2*timeout_accord + 1)).
start_poll_overrun ==
    /\ pc = "st_poll"
    /\ \/ is_running /\ pc' = "st_final_sleep" /\ UNCHANGED i
       \/ ~is_running /\ i < 2 * timeout_accord /\ i' = i + 1 /\ pc' = "st_launch"
       \/ ~is_running /\ i = 2 * timeout_accord /\ pc' = "st_final_sleep" /\ UNCHANGED i
    /\ UNCHANGED <<timeout_accord, verbose, fg, proc, age, termd, pidfile, op, freq, lpid, launched, outcome>>

\* After each second: break when running, else the next of 2*timeout_accord
\* rounds.
start_poll ==
    /\ pc = "st_poll"
    /\ \/ is_running /\ pc' = "st_final_sleep" /\ UNCHANGED i
       \/ ~is_running /\ i + 1 < 2 * timeout_accord /\ i' = i + 1 /\ pc' = "st_launch"
       \/ ~is_running /\ i + 1 = 2 * timeout_accord /\ pc' = "st_final_sleep" /\ UNCHANGED i
    /\ UNCHANGED <<timeout_accord, verbose, fg, proc, age, termd, pidfile, op, freq, lpid, launched, outcome>>

\* After the final sleep(1): raise NotRunning unless running.
start_final_check ==
    /\ pc = "st_final_check"
    /\ \/ is_running /\ Return("ok")
       \/ ~is_running /\ Return("NotRunning")
    /\ UNCHANGED <<timeout_accord, verbose, fg, proc, age, termd, pidfile, op, freq, i, lpid, launched>>

-----------------------------------------------------------------------------
(* stop() *)

\* Not running: "carte deja arretee", return.
stop_check ==
    /\ pc = "sp_check"
    /\ \/ ~is_running /\ StopReturns
       \/ is_running /\ pc' = "sp_getpid15" /\ UNCHANGED outcome
    /\ UNCHANGED <<timeout_accord, verbose, fg, proc, age, termd, pidfile, op, freq, i, lpid, launched>>

\* get_pid() before each os.kill; a missing pid file raises NotRunning,
\* which stop() catches and returns.
stop_get_pid ==
    /\ pc \in {"sp_getpid15", "sp_getpid9"}
    /\ \/ pidfile = NoPid /\ StopReturns /\ UNCHANGED lpid
       \/ /\ pidfile # NoPid
          /\ lpid' = pidfile
          /\ pc' = IF pc = "sp_getpid15" THEN "sp_kill15" ELSE "sp_kill9"
          /\ UNCHANGED outcome
    /\ UNCHANGED <<timeout_accord, verbose, fg, proc, age, termd, pidfile, op, freq, i, launched>>

\* os.kill(pid, 15): a pid with no process raises OSError, which escapes.
\* A daemon starts its clean exit; any other process dies.
stop_term ==
    /\ pc = "sp_kill15"
    /\ \/ proc[lpid] = "free" /\ Return("OSError") /\ UNCHANGED <<timeout_accord, verbose, fg, proc, termd>>
       \/ /\ proc[lpid] \in {"starting", "up"}
          /\ termd' = termd \cup {lpid}
          /\ pc' = "sp_sleep"
          /\ UNCHANGED <<timeout_accord, verbose, fg, proc, outcome>>
       \/ /\ proc[lpid] = "foreign"
          /\ proc' = [proc EXCEPT ![lpid] = "free"]
          /\ pc' = "sp_sleep"
          /\ UNCHANGED <<timeout_accord, verbose, fg, termd, outcome>>
    /\ UNCHANGED <<timeout_accord, verbose, fg, age, pidfile, op, freq, i, lpid, launched>>

\* Fault model: stop() takes SIGTERM as done and returns without checking.
stop_recheck_trusting ==
    /\ pc \in {"sp_check2", "sp_check3"}
    /\ StopReturns
    /\ UNCHANGED <<timeout_accord, verbose, fg, proc, age, termd, pidfile, op, freq, i, lpid, launched>>

\* Two checks in a row, then os.kill(pid, 9) and raise CarteOqp.
stop_recheck ==
    /\ pc \in {"sp_check2", "sp_check3"}
    /\ \/ ~is_running /\ StopReturns
       \/ /\ is_running
          /\ pc' = IF pc = "sp_check2" THEN "sp_check3" ELSE "sp_getpid9"
          /\ UNCHANGED outcome
    /\ UNCHANGED <<timeout_accord, verbose, fg, proc, age, termd, pidfile, op, freq, i, lpid, launched>>

\* SIGKILL: the process dies at once and leaves the pid file behind.
stop_kill ==
    /\ pc = "sp_kill9"
    /\ \/ proc[lpid] = "free" /\ Return("OSError") /\ UNCHANGED <<timeout_accord, verbose, fg, proc, termd>>
       \/ /\ proc[lpid] # "free"
          /\ proc' = [proc EXCEPT ![lpid] = "free"]
          /\ termd' = termd \ {lpid}
          /\ Return("CarteOqp")
    /\ UNCHANGED <<timeout_accord, verbose, fg, age, pidfile, op, freq, i, lpid, launched>>

Controller ==
    \/ start_check \/ gen_conf \/ start_launch \/ system_return \/ sleep \/ start_poll
    \/ start_final_check
    \/ stop_check \/ stop_get_pid \/ stop_term \/ stop_recheck \/ stop_kill

-----------------------------------------------------------------------------
(* The environment: mumudvb and the other processes *)

\* The daemon writes its pid file and opens the frontend; if another mumudvb
\* holds it, it exits and its cleanup removes the pid file.
daemon_startup(p) ==
    /\ proc[p] = "starting"
    /\ \/ /\ \A q \in Pids : proc[q] # "up"
          /\ proc' = [proc EXCEPT ![p] = "up"]
          /\ pidfile' = p
          /\ UNCHANGED termd
       \/ /\ \E q \in Pids : proc[q] = "up"
          /\ proc' = [proc EXCEPT ![p] = "free"]
          /\ pidfile' = NoPid
          /\ termd' = termd \ {p}
    /\ UNCHANGED <<timeout_accord, verbose, fg, age, pc, op, freq, i, lpid, launched, outcome>>

\* A clean exit: tuning failed, no data for timeout_no_diff, or SIGTERM.
daemon_exit(p) ==
    /\ \/ proc[p] = "up"
       \/ p \in termd
    /\ proc' = [proc EXCEPT ![p] = "free"]
    /\ pidfile' = NoPid
    /\ termd' = termd \ {p}
    /\ UNCHANGED <<timeout_accord, verbose, fg, age, pc, op, freq, i, lpid, launched, outcome>>

\* Some other program takes a free pid (not the one of a child os.system
\* has not reaped yet), or ends.
foreign_spawn(p) ==
    /\ PidReuse
    /\ proc[p] = "free" /\ p # fg
    /\ proc' = [proc EXCEPT ![p] = "foreign"]
    /\ UNCHANGED <<timeout_accord, verbose, fg, age, termd, pidfile, pc, op, freq, i, lpid, launched, outcome>>

foreign_exit(p) ==
    /\ proc[p] = "foreign"
    /\ proc' = [proc EXCEPT ![p] = "free"]
    /\ UNCHANGED <<timeout_accord, verbose, fg, age, termd, pidfile, pc, op, freq, i, lpid, launched, outcome>>

Environment ==
    \E p \in Pids :
        daemon_startup(p) \/ daemon_exit(p) \/ foreign_spawn(p) \/ foreign_exit(p)

Next == Call \/ Controller \/ Environment

\* The caller's process is never descheduled forever, and a launched daemon
\* does write its pid file.  Calls and the other processes are not fair.
Spec ==
    /\ Init /\ [][Next]_vars
    /\ WF_vars(Controller)
    /\ WF_vars(\E p \in Pids : daemon_startup(p))

-----------------------------------------------------------------------------
(* Properties *)

TypeOK ==
    /\ proc \in [Pids -> {"free", "foreign", "starting", "up"}]
    /\ age \in [Pids -> 0..PidDelay]
    /\ termd \subseteq Daemons
    /\ pidfile \in Pids \cup {NoPid}
    /\ pc \in PCs
    /\ op \in {"start", "stop", "restart"}
    /\ freq \in BOOLEAN
    /\ i \in 0..(IF timeout_accord > 0 THEN 2 * timeout_accord - 1 ELSE 0)
    /\ timeout_accord \in TimeoutAccords
    /\ verbose \in Verboses
    /\ fg \in Pids \cup {NoPid}
    /\ lpid \in Pids \cup {NoPid}
    /\ launched \subseteq Pids
    /\ outcome \in {"ok", "none"} \cup Exceptions

\* At most one mumudvb runs for the card: start() launches only when
\* is_running() is false, stop() waits for or kills the daemon it signals,
\* and a re-launch every 5 s must not find an earlier attempt still alive.
SingleDaemon == Cardinality(Daemons) <= 1

\* "Arrete la diffusion de la carte": when stop() returns normally (by
\* itself or inside restart()), no mumudvb of the card is left alive.
StopSilencesCard ==
    [][ /\ pc \in StopPCs
        /\ pc' \in {"idle", "st_check"}
        /\ outcome' \notin Exceptions
        => Daemons' = {} ]_vars

\* stop() signals only a mumudvb of this card, never another process that
\* reused a pid left in a stale pid file.
NoForeignSignal ==
    [][ /\ pc \in {"sp_kill15", "sp_kill9"}
        /\ pc' # pc
        => proc[lpid] # "foreign" ]_vars

-----------------------------------------------------------------------------
(* Refinement: the card lifecycle promised to the caller *)

\* The caller's phase is the method being run; inside restart() the stop
\* phase lasts until stop() returns.  The card streams while some mumudvb
\* launched for it is alive.
Card == INSTANCE CardLifecycle
            WITH phase <- IF pc = "idle" THEN "idle"
                          ELSE IF pc \in StopPCs THEN "stop" ELSE "start",
                 restart <- op = "restart",
                 streams <- Cardinality(Daemons),
                 result <- outcome,
                 Failures <- Exceptions

\* start(), stop() and restart() implement the card lifecycle: mumudvb is
\* launched only by start() while none runs, and a normal return of stop()
\* (alone or inside restart()) leaves the card silent.  When mumudvb
\* daemonizes (verbose <= 2) every call also returns; with verbose > 2
\* start() waits in os.system for as long as the card streams.
ImplementsCardLifecycle == Card!Safety /\ (verbose <= 2 => Card!Fairness)

====

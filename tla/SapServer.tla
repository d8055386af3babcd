----------------------------- MODULE SapServer -----------------------------
(***************************************************************************)
(* The SAP wrapper: src/scripts/sap.py.  Every 60 s it rebuilds            *)
(* /etc/sap.cfg from the channel lists the streaming daemons publish       *)
(* (gen_sap), compares its md5 with the last one, kills the sapserver      *)
(* child on a change and respawns it when it is not alive.  SIGTERM and    *)
(* SIGINT run term(): kill() the child, remove the lock, exit.             *)
(*                                                                         *)
(* Liveness of the child is is_alive(): os.waitpid(pid, WNOHANG), which    *)
(* returns (0,0) for a running child, reaps an exited one (then False),    *)
(* and raises ECHILD (False) for a pid that is not an unreaped child.      *)
(* waitpid(0, ...) is about any child of the process group.                *)
(*                                                                         *)
(* The wrapper may be started again (init script) once it has exited and  *)
(* its lock is free; children of an earlier wrapper are reparented to      *)
(* init, which reaps them.  Other processes may take any free pid.         *)
(***************************************************************************)
EXTENDS Naturals, FiniteSets

CONSTANTS
    Pids,        \* pids the kernel may hand out (all > 1)
    Datas,       \* contents of the chaines_diffusees files that hold channels
    NoData,      \* no channel file readable, or all empty
    Malformed,   \* a line without exactly two ':' (a blank line, a name with ':')
    Contents,    \* what the channel files may hold in this model
    MaxGens      \* bound on the number of times the wrapper is started

ASSUME Pids \subseteq Nat \ {0, 1} /\ MaxGens \in Nat \ {0}
ASSUME Contents \subseteq Datas \cup {NoData, Malformed}

VARIABLES
    proc,      \* [Pids -> {"free","run","termd","zombie","foreign"}]
    parent,    \* [Pids -> 0..MaxGens]: generation of the wrapper that spawned it, 0 if none
    conf_of,   \* [Pids -> Datas \cup {"none"}]: the sap.cfg a sapserver read at start
    chan,      \* what the channel files hold now
    cfg,       \* what /etc/sap.cfg holds: a Datas element, or "base" (header only)
    gen,       \* generation of the current wrapper process
    lock,      \* /var/run/mumudvb/sap is held
    pc,        \* where the wrapper is
    sap_pid,   \* global sap_pid (0 until the first spawn)
    sum,       \* global sum: md5 of the sap.cfg of the last reconfiguration (0 at start)
    newpid,    \* result of os.spawnl not yet stored into sap_pid
    kret,      \* where kill() returns to
    exit       \* how the wrapper ended: "none", "term", "killed", "crash"

vars == <<proc, parent, conf_of, chan, cfg, gen, lock, pc, sap_pid, sum, newpid, kret, exit>>

-----------------------------------------------------------------------------
(* Helpers *)

Live == {"run", "termd"}

\* Children of the running wrapper, alive or zombie.
Ours(s) == {p \in Pids : parent[p] = gen /\ proc[p] = s}

Children == Ours("run") \cup Ours("termd") \cup Ours("zombie")

\* is_alive(p): the value waitpid(p, WNOHANG) gives.  For p = 0 any
\* zombie child is reaped first; only when none is there does a running
\* child give (0,0).
is_alive(p) ==
    IF p = 0 THEN Ours("zombie") = {} /\ Children # {}
    ELSE p \in Ours("run") \cup Ours("termd")

\* The reaping side effect of the same waitpid call.
Reap(p) ==
    LET z == IF p = 0 THEN Ours("zombie") ELSE Ours("zombie") \cap {p}
        r == CHOOSE x \in z \cup {0} : x \in z \/ z = {}
    IN  IF z = {} THEN UNCHANGED <<proc, parent>>
        ELSE /\ proc' = [proc EXCEPT ![r] = "free"]
             /\ parent' = [parent EXCEPT ![r] = 0]

\* os.kill(p, sig): p = 0 signals the whole process group: the children
\* here, the wrapper itself in kill_term and kill_kill.
Targets(p) == IF p = 0 THEN Children ELSE {p}

Signal(p, s) ==
    proc' = [q \in Pids |-> IF q \in Targets(p) /\ proc[q] \in Live THEN s ELSE proc[q]]

\* The process ends outside term(): the lock file stays.
Die(how) ==
    /\ pc' = "exited" /\ exit' = how
    /\ UNCHANGED <<proc, parent, conf_of, cfg, gen, lock, sap_pid, sum, newpid, kret>>

Steps == {"boot", "handlers", "gen", "md5", "check", "spawn", "store", "sleep",
          "k_check", "k_term", "k_recheck", "k_kill", "t_exit", "exited"}

InTerm == kret = "t_exit" /\ pc \in {"k_check", "k_term", "k_recheck", "k_kill", "t_exit"}

-----------------------------------------------------------------------------
(* The wrapper *)

Init ==
    /\ proc = [p \in Pids |-> "free"]
    /\ parent = [p \in Pids |-> 0]
    /\ conf_of = [p \in Pids |-> "none"]
    /\ chan \in Contents
    /\ cfg = "base"
    /\ gen = 1
    /\ lock = FALSE
    /\ pc = "boot"
    /\ sap_pid = 0
    /\ sum = 0
    /\ newpid = 0
    /\ kret = "sleep"
    /\ exit = "none"

\* daemonize(); lock.make_lock(LOCK, "Serveur SAP").
make_lock ==
    /\ pc = "boot" /\ ~lock
    /\ lock' = TRUE /\ pc' = "handlers"
    /\ UNCHANGED <<proc, parent, conf_of, chan, cfg, gen, sap_pid, sum, newpid, kret, exit>>

\* signal.signal(SIGTERM, term); signal.signal(SIGINT, term).
install_handlers ==
    /\ pc = "handlers" /\ pc' = "gen"
    /\ UNCHANGED <<proc, parent, conf_of, chan, cfg, gen, lock, sap_pid, sum, newpid, kret, exit>>

\* except no_data (nothing broadcast, sap.cfg left with the header only):
\* kill(), then the sleep.
no_data ==
    /\ chan = NoData /\ cfg' = "base" /\ pc' = "k_check" /\ kret' = "sleep"
    /\ UNCHANGED exit

\* gen_sap(): sap.cfg is truncated and the header written; each channel
\* line is split on ':' (a malformed line raises ValueError, which nothing
\* catches); no line at all raises no_data, and the loop calls kill().
gen_sap ==
    /\ pc = "gen"
    /\ \/ chan = Malformed /\ cfg' = "base" /\ pc' = "exited" /\ exit' = "crash"
          /\ UNCHANGED kret
       \/ no_data
       \/ chan \in Datas /\ cfg' = chan /\ pc' = "md5"
          /\ UNCHANGED <<kret, exit>>
    /\ UNCHANGED <<proc, parent, conf_of, chan, gen, lock, sap_pid, sum, newpid>>

\* Fault model: a changed md5 is recorded but the running server is kept.
md5_no_kill ==
    /\ pc = "md5"
    /\ sum' = cfg /\ pc' = "check"
    /\ UNCHANGED <<proc, parent, kret, conf_of, chan, cfg, gen, lock, sap_pid, newpid, exit>>

\* new_sum = md5sum(SAP_CONF); on a change: sum = new_sum, and
\* `sap_pid > 1 and is_alive(sap_pid)` leads to kill().
md5 ==
    /\ pc = "md5"
    /\ \/ cfg = sum /\ pc' = "check" /\ UNCHANGED <<proc, parent, sum, kret>>
       \/ /\ cfg # sum /\ sum' = cfg
          /\ \/ sap_pid > 1 /\ is_alive(sap_pid) /\ pc' = "k_check" /\ kret' = "check"
                /\ UNCHANGED <<proc, parent>>
             \/ sap_pid > 1 /\ ~is_alive(sap_pid) /\ Reap(sap_pid) /\ pc' = "check"
                /\ UNCHANGED kret
             \/ sap_pid = 0 /\ pc' = "check" /\ UNCHANGED <<proc, parent, kret>>
    /\ UNCHANGED <<conf_of, chan, cfg, gen, lock, sap_pid, newpid, exit>>

\* Fault model: the server is respawned on every pass.
check_no_probe ==
    /\ pc = "check" /\ pc' = "spawn"
    /\ UNCHANGED <<proc, parent, conf_of, chan, cfg, gen, lock, sap_pid, sum, newpid, kret, exit>>

\* Fault model: the server is spawned only while sap_pid is still 0.
check_spawn_once ==
    /\ pc = "check"
    /\ Reap(sap_pid)
    /\ pc' = IF sap_pid = 0 /\ ~is_alive(sap_pid) THEN "spawn" ELSE "sleep"
    /\ UNCHANGED <<conf_of, chan, cfg, gen, lock, sap_pid, sum, newpid, kret, exit>>

\* if not is_alive(sap_pid): respawn.
check ==
    /\ pc = "check"
    /\ Reap(sap_pid)
    /\ pc' = IF is_alive(sap_pid) THEN "sleep" ELSE "spawn"
    /\ UNCHANGED <<conf_of, chan, cfg, gen, lock, sap_pid, sum, newpid, kret, exit>>

\* Fault model: os.spawnl(os.P_WAIT, ...): the call returns when sapserver
\* has ended, with its exit status (here 1) instead of a pid.
spawn_wait ==
    /\ pc = "spawn"
    /\ newpid' = 1 /\ pc' = "store"
    /\ UNCHANGED <<proc, parent, conf_of, exit, chan, cfg, gen, lock, sap_pid, sum, kret>>

\* os.spawnl(P_NOWAIT, sapserver, '-f', SAP_CONF): the child reads sap.cfg.
\* A failed fork raises OSError, which nothing catches.
spawn ==
    /\ pc = "spawn"
    /\ \/ \E p \in Pids :
             /\ proc[p] = "free"
             /\ proc' = [proc EXCEPT ![p] = "run"]
             /\ parent' = [parent EXCEPT ![p] = gen]
             /\ conf_of' = [conf_of EXCEPT ![p] = cfg]
             /\ newpid' = p /\ pc' = "store"
             /\ UNCHANGED exit
       \/ /\ \A p \in Pids : proc[p] # "free"
          /\ pc' = "exited" /\ exit' = "crash"
          /\ UNCHANGED <<proc, parent, conf_of, newpid>>
    /\ UNCHANGED <<chan, cfg, gen, lock, sap_pid, sum, kret>>

\* The assignment `sap_pid = ...` after spawnl has returned.
store ==
    /\ pc = "store" /\ sap_pid' = newpid /\ pc' = "sleep"
    /\ UNCHANGED <<proc, parent, conf_of, chan, cfg, gen, lock, sum, newpid, kret, exit>>

\* sleep(60), then the next pass.
sleep ==
    /\ pc = "sleep" /\ pc' = "gen"
    /\ UNCHANGED <<proc, parent, conf_of, chan, cfg, gen, lock, sap_pid, sum, newpid, kret, exit>>

\* Fault model: kill() signals sap_pid without testing it first.
kill_check_blind ==
    /\ pc = "k_check" /\ pc' = "k_term"
    /\ UNCHANGED <<proc, parent, conf_of, chan, cfg, gen, lock, sap_pid, sum, newpid, kret, exit>>

\* kill(): if not is_alive(sap_pid): return.
kill_check ==
    /\ pc = "k_check"
    /\ Reap(sap_pid)
    /\ pc' = IF is_alive(sap_pid) THEN "k_term" ELSE kret
    /\ UNCHANGED <<conf_of, chan, cfg, gen, lock, sap_pid, sum, newpid, kret, exit>>

\* os.kill(sap_pid, 15); sleep(1).  With sap_pid = 0 the wrapper gets the
\* SIGTERM too; that happens only inside term() (sap_pid is 0 beside a
\* child only when term() cut the first spawn short), and Python 2 does
\* not run a handler while one is running: the signal stays pending and
\* term() goes on.
kill_term ==
    /\ pc = "k_term" /\ Signal(sap_pid, "termd") /\ pc' = "k_recheck"
    /\ UNCHANGED <<parent, conf_of, chan, cfg, gen, lock, sap_pid, sum, newpid, kret, exit>>

\* if is_alive(sap_pid): ... (else kill() returns).
kill_recheck ==
    /\ pc = "k_recheck"
    /\ Reap(sap_pid)
    /\ pc' = IF is_alive(sap_pid) THEN "k_kill" ELSE kret
    /\ UNCHANGED <<conf_of, chan, cfg, gen, lock, sap_pid, sum, newpid, kret, exit>>

\* os.kill(sap_pid, 9); sleep(1): the child is gone, a zombie until reaped.
\* With sap_pid = 0 the SIGKILL also ends the wrapper, before term()
\* removes the lock.
kill_kill ==
    /\ pc = "k_kill" /\ Signal(sap_pid, "zombie")
    /\ IF sap_pid = 0 THEN pc' = "exited" /\ exit' = "killed"
                      ELSE pc' = kret /\ UNCHANGED exit
    /\ UNCHANGED <<parent, conf_of, chan, cfg, gen, lock, sap_pid, sum, newpid, kret>>

\* term(), after its kill(): lock.remove_lock(LOCK); sys.exit(0).
term_exit ==
    /\ pc = "t_exit" /\ lock' = FALSE /\ pc' = "exited" /\ exit' = "term"
    /\ UNCHANGED <<proc, parent, conf_of, chan, cfg, gen, sap_pid, sum, newpid, kret>>

Wrapper ==
    \/ make_lock \/ install_handlers \/ gen_sap \/ md5 \/ check \/ spawn \/ store
    \/ sleep \/ kill_check \/ kill_term \/ kill_recheck \/ kill_kill \/ term_exit

\* SIGTERM or SIGINT.  Before the handlers: the default action kills the
\* wrapper.  After: term() runs at once, whatever the main program was
\* doing, and never returns to it.
term ==
    /\ pc \notin {"exited"} /\ ~InTerm
    /\ \/ pc \in {"boot", "handlers"} /\ Die("killed") /\ UNCHANGED chan
       \/ /\ pc \notin {"boot", "handlers"}
          /\ pc' = "k_check" /\ kret' = "t_exit"
          /\ UNCHANGED <<proc, parent, conf_of, chan, cfg, gen, lock, sap_pid, sum, newpid, exit>>

\* The wrapper is started again after it has exited and left the lock
\* free: a new process, with sap_pid = 0 and sum = 0.
restart ==
    /\ pc = "exited" /\ ~lock /\ gen < MaxGens
    /\ gen' = gen + 1 /\ pc' = "boot" /\ sap_pid' = 0 /\ sum' = 0
    /\ newpid' = 0 /\ kret' = "sleep" /\ exit' = "none"
    /\ UNCHANGED <<proc, parent, conf_of, chan, cfg, lock>>

-----------------------------------------------------------------------------
(* The environment *)

\* The streaming daemons rewrite their chaines_diffusees files.
feed ==
    /\ chan' \in Contents \ {chan}
    /\ UNCHANGED <<proc, parent, conf_of, cfg, gen, lock, pc, sap_pid, sum, newpid, kret, exit>>

\* A sapserver ends (on SIGTERM, or on its own): a zombie until its parent
\* waits for it; with its parent gone, init reaps it.
server_exit(p) ==
    /\ proc[p] \in Live
    /\ IF parent[p] = gen /\ pc # "exited"
       THEN proc' = [proc EXCEPT ![p] = "zombie"] /\ UNCHANGED parent
       ELSE proc' = [proc EXCEPT ![p] = "free"] /\ parent' = [parent EXCEPT ![p] = 0]
    /\ UNCHANGED <<conf_of, chan, cfg, gen, lock, pc, sap_pid, sum, newpid, kret, exit>>

\* init reaps the zombies of a wrapper that has exited.
init_reap(p) ==
    /\ proc[p] = "zombie" /\ (parent[p] # gen \/ pc = "exited")
    /\ proc' = [proc EXCEPT ![p] = "free"] /\ parent' = [parent EXCEPT ![p] = 0]
    /\ UNCHANGED <<conf_of, chan, cfg, gen, lock, pc, sap_pid, sum, newpid, kret, exit>>

\* Some other process is given a free pid, and later ends.
foreign_spawn(p) ==
    /\ proc[p] = "free" /\ proc' = [proc EXCEPT ![p] = "foreign"]
    /\ UNCHANGED <<parent, conf_of, chan, cfg, gen, lock, pc, sap_pid, sum, newpid, kret, exit>>

foreign_exit(p) ==
    /\ proc[p] = "foreign" /\ proc' = [proc EXCEPT ![p] = "free"]
    /\ UNCHANGED <<parent, conf_of, chan, cfg, gen, lock, pc, sap_pid, sum, newpid, kret, exit>>

Environment ==
    \/ feed
    \/ \E p \in Pids : server_exit(p) \/ init_reap(p) \/ foreign_spawn(p) \/ foreign_exit(p)

Next == Wrapper \/ term \/ restart \/ Environment

\* The wrapper is one process whose loop only ever sleeps 60 s: it keeps
\* taking steps.  The environment (signals, the daemons, other processes)
\* is not fair.
Spec == Init /\ [][Next]_vars /\ WF_vars(Wrapper)

-----------------------------------------------------------------------------
(* Properties *)

TypeOK ==
    /\ proc \in [Pids -> Live \cup {"free", "zombie", "foreign"}]
    /\ parent \in [Pids -> 0..MaxGens]
    /\ conf_of \in [Pids -> Datas \cup {"none"}]
    /\ chan \in Contents
    /\ cfg \in Datas \cup {"base"}
    /\ gen \in 1..MaxGens
    /\ lock \in BOOLEAN
    /\ pc \in Steps
    /\ sap_pid \in Pids \cup {0}
    /\ sum \in Datas \cup {0}
    /\ newpid \in Pids \cup {0}
    /\ kret \in {"sleep", "check", "t_exit"}
    /\ exit \in {"none", "term", "killed", "crash"}

\* kill() sends SIGTERM and SIGKILL to a pid only while it names a child
\* the wrapper itself spawned and has not reaped: the is_alive() (waitpid)
\* test just before each os.kill keeps a recycled pid from being
\* signalled.  sap_pid = 0, which signals the process group and the
\* wrapper with it, is not a pid and is not claimed here.
SignalsOnlyOwnChild ==
    [][ /\ pc \in {"k_term", "k_kill"}
        /\ pc' # pc
        /\ sap_pid # 0
        => parent[sap_pid] = gen /\ proc[sap_pid] # "foreign"
      ]_vars

\* Whenever the loop goes to sleep, a sapserver it runs announces the
\* sap.cfg the last gen_sap wrote: a changed md5 got the old server killed
\* and a new one started, and no data got it killed.
ServerConfCurrent ==
    pc = "sleep" => \A p \in Ours("run") \cup Ours("termd") : conf_of[p] = cfg

\* One wrapper never has two sapservers alive: it spawns only when
\* is_alive(sap_pid) is false, and kill() escalates to SIGKILL.
OneServerPerWrapper == Cardinality(Ours("run") \cup Ours("termd")) <= 1

\* At most one sapserver runs on the host, across restarts of the wrapper:
\* term() kills the server before the wrapper exits.
NoDuplicateServers == Cardinality({p \in Pids : proc[p] \in Live}) <= 1

\* Once the channel lists stop changing and sapservers stop dying on
\* their own, the wrapper ends up announcing those channels for good: a
\* sapserver of its own runs on them (after a kill for the md5 change, a
\* respawn at the next is_alive() test), or the wrapper has exited.
ServerEventuallyCurrent ==
    \A d \in Datas :
        (<>[](chan = d) /\ <>[][\A p \in Pids : ~server_exit(p)]_vars)
            => <>[](pc = "exited" \/ \E p \in Ours("run") : conf_of[p] = d)

====

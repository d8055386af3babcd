----------------------------- MODULE SatDaemon -----------------------------
(***************************************************************************)
(* The fleet supervisor: src/scripts/sat_daemon.py.  The main program      *)
(* takes the lock, installs the signal handlers and loads the card list    *)
(* (config(), a reload of sat_conf); then it loops over that list every    *)
(* 60 s.  SIGHUP runs hup(): reload sat_conf, stop every slot whose card   *)
(* is not in the new list, replace the global conf.  SIGTERM/SIGINT run    *)
(* term(): stop the six slots, remove the lock, exit.                      *)
(*                                                                         *)
(* In this revision the calls that would act on the cards are commented   *)
(* out: the loop body only prints "Carte %i" (carte.start() is commented,  *)
(* line 144) and stop() only prints "stop %i" (carte(i).stop(), line 81).  *)
(* The model keeps the list of slots each stop() call receives, which is   *)
(* what the reconciliation computes.                                       *)
(*                                                                         *)
(* A Python signal handler runs between two bytecodes of the main program  *)
(* and is not itself interrupted by another handler, so each handler is    *)
(* one atomic step.  Before the handlers are installed a signal has its    *)
(* default action: the process dies on the spot.                           *)
(***************************************************************************)
EXTENDS Naturals, SequencesExt

CONSTANTS
    Slots,       \* range(6): the card numbers stop() and term() go over
    Confs,       \* the card lists sat_conf.py can hold: [Slots -> Descs \cup {NoCard}]
    NoCard,      \* no transponder configured on that slot
    Broken,      \* a sat_conf.py whose reload raises (syntax or name error)
    MaxReloads,  \* bound on the number of config() calls
    Pairs,       \* the (opt, val) pairs of sys.argv (see AnalyseOpt)
    MaxArgs,     \* bound on the number of options on the command line
    HostOctet    \* the last field of the host's address (see GenConf)

ASSUME MaxReloads \in Nat \ {0}

VARIABLES
    args,      \* the options of the command line
    pc,        \* where the main program is: "boot", "opts", "locked", "loading", "loop", "sleep", "exited"
    lock,      \* the lock file /var/run/tv/tv is held
    conf,      \* the global conf: [gen, cards], or Undefined before line 137
    file,      \* what sat_conf.py holds now (edited by the operator)
    reloads,   \* number of config() calls so far; gen of the last instances made
    stopped,   \* the slot list passed to the last stop() call
    exit       \* how the process ended: "none", "usage", "term", "killed", "crash"

vars == <<args, pc, lock, conf, file, reloads, stopped, exit>>

-----------------------------------------------------------------------------
(* Helpers *)

Opt == INSTANCE AnalyseOpt

\* The descriptors and the config file writer each card of the list uses.
Writer == INSTANCE GenConf

\* The global conf before line 137 assigns it.
Undefined == [gen |-> 0, cards |-> [s \in Slots |-> NoCard]]

Handlers == pc \in {"loading", "loop", "sleep"}

\* config(): reload(sat_conf) executes the module again, so every card of
\* the list is a new instance, told apart from earlier ones by gen.
Loaded == [gen |-> reloads + 1, cards |-> file]

\* `carte in conf`: carte is an old-style instance without __eq__, so the
\* membership test is object identity.
InConf(c, s, l) == l.cards[s] # NoCard /\ l.gen = c.gen /\ l.cards[s] = c.cards[s]

\* Fault model: a slot is kept when it has a card in both lists, whatever
\* the card.
ToStopBySlot(old, new) == Slots \ {s \in Slots : old.cards[s] # NoCard /\ new.cards[s] # NoCard}

\* hup(): to_stop = range(6) minus the cards of the old list found in the
\* new one.
ToStop(old, new) == Slots \ {s \in Slots : old.cards[s] # NoCard /\ InConf(old, s, new)}

\* The process ends without term(): the lock file stays.
Die(how) == pc' = "exited" /\ exit' = how /\ UNCHANGED <<args, lock, conf, reloads, stopped>>

-----------------------------------------------------------------------------
(* The main program *)

Init ==
    /\ args \in BoundedSeq(Pairs, MaxArgs)
    /\ pc = "boot"
    /\ lock = FALSE
    /\ conf = Undefined
    /\ file \in Confs
    /\ reloads = 0
    /\ stopped = {}
    /\ exit = "none"

\* verbose, timeout_accord, args = analyse_opt(): usage() ends the process
\* before it takes the lock.  Then daemonize() when verbose < 2 (the child
\* goes on).
parse_opts ==
    /\ pc = "boot"
    /\ IF Opt!analyse_opt(args).exit = "run"
       THEN pc' = "opts" /\ UNCHANGED exit
       ELSE pc' = "exited" /\ exit' = "usage"
    /\ UNCHANGED <<args, lock, conf, file, reloads, stopped>>

\* lock.make_lock(LOCK, ...).
make_lock ==
    /\ pc = "opts"
    /\ pc' = "locked"
    /\ lock' = TRUE
    /\ UNCHANGED <<args, conf, file, reloads, stopped, exit>>

\* signal.signal for SIGTERM, SIGINT and SIGHUP.
install_handlers ==
    /\ pc = "locked"
    /\ pc' = "loading"
    /\ UNCHANGED <<args, lock, conf, file, reloads, stopped, exit>>

\* conf = config(verbose, timeout_accord): a broken sat_conf.py raises and
\* the program dies.
load_conf ==
    /\ pc = "loading"
    /\ reloads < MaxReloads
    /\ \/ file # Broken /\ conf' = Loaded /\ reloads' = reloads + 1 /\ pc' = "loop"
          /\ UNCHANGED <<args, lock, file, stopped, exit>>
       \/ file = Broken /\ Die("crash") /\ UNCHANGED file

\* for carte in conf: print "Carte %i" (carte.start() is commented out).
main_pass ==
    /\ pc = "loop"
    /\ pc' = "sleep"
    /\ UNCHANGED <<args, lock, conf, file, reloads, stopped, exit>>

\* time.sleep(60) ends, or is cut short by a signal.
wake ==
    /\ pc = "sleep"
    /\ pc' = "loop"
    /\ UNCHANGED <<args, lock, conf, file, reloads, stopped, exit>>

-----------------------------------------------------------------------------
(* Signals and the operator *)

\* SIGHUP.  Before the handlers: default action.  Before line 137:
\* frame.f_globals['conf'] raises KeyError.  A broken sat_conf.py: reload
\* raises.  The exception ends the program.  Otherwise stop(to_stop) and
\* conf = the new list.
hup ==
    /\ pc \in {"boot", "opts", "locked", "loading", "loop", "sleep"}
    /\ \/ ~Handlers /\ Die("killed") /\ UNCHANGED file
       \/ pc = "loading" /\ Die("crash") /\ UNCHANGED file
       \/ /\ pc \in {"loop", "sleep"}
          /\ file = Broken
          /\ Die("crash") /\ UNCHANGED file
       \/ /\ pc \in {"loop", "sleep"}
          /\ file # Broken
          /\ reloads < MaxReloads
          /\ stopped' = ToStop(conf, Loaded)
          /\ conf' = Loaded
          /\ reloads' = reloads + 1
          /\ pc' = "loop"
          /\ UNCHANGED <<args, lock, file, exit>>

\* Fault model: term() stops range(1, 7).
term_shifted ==
    /\ pc \in {"boot", "opts", "locked", "loading", "loop", "sleep"}
    /\ \/ ~Handlers /\ Die("killed") /\ UNCHANGED file
       \/ /\ Handlers
          /\ stopped' = {s + 1 : s \in Slots}
          /\ lock' = FALSE
          /\ pc' = "exited"
          /\ exit' = "term"
          /\ UNCHANGED <<args, conf, file, reloads>>

\* SIGTERM or SIGINT.  Before the handlers: default action.  term():
\* stop(range(6)), lock.remove_lock, sys.exit(0).
term ==
    /\ pc \in {"boot", "opts", "locked", "loading", "loop", "sleep"}
    /\ \/ ~Handlers /\ Die("killed") /\ UNCHANGED file
       \/ /\ Handlers
          /\ stopped' = Slots
          /\ lock' = FALSE
          /\ pc' = "exited"
          /\ exit' = "term"
          /\ UNCHANGED <<args, conf, file, reloads>>

\* The operator edits sat_conf.py (before sending SIGHUP).
edit ==
    /\ file' \in (Confs \cup {Broken}) \ {file}
    /\ UNCHANGED <<args, pc, lock, conf, reloads, stopped, exit>>

Next ==
    \/ parse_opts \/ make_lock \/ install_handlers \/ load_conf \/ main_pass \/ wake
    \/ hup \/ term \/ edit

Spec == Init /\ [][Next]_vars

-----------------------------------------------------------------------------
(* Properties *)

TypeOK ==
    /\ args \in BoundedSeq(Pairs, MaxArgs)
    /\ pc \in {"boot", "opts", "locked", "loading", "loop", "sleep", "exited"}
    /\ lock \in BOOLEAN
    /\ conf.gen \in 0..MaxReloads
    /\ conf.cards \in Confs \cup {Undefined.cards}
    /\ file \in Confs \cup {Broken}
    /\ reloads \in 0..MaxReloads
    /\ stopped \subseteq Slots
    /\ exit \in {"none", "usage", "term", "killed", "crash"}

\* A reload stops every slot whose card changed or disappeared: no slot is
\* left running a transponder the new sat_conf.py no longer assigns it.
StopCoversChanged ==
    [][ reloads' > reloads /\ pc # "loading"
        => \A s \in Slots :
              conf.cards[s] # NoCard /\ conf'.cards[s] # conf.cards[s]
              => s \in stopped' ]_vars

\* Spec 4.3 and 8: a slot whose card is the same (by value) in the old and
\* the new list is never stopped by a reload.
UnchangedSlotsKept ==
    [][ reloads' > reloads /\ pc # "loading"
        => \A s \in Slots :
              conf.cards[s] # NoCard /\ conf'.cards[s] = conf.cards[s]
              => s \notin stopped' ]_vars

\* A card list all of whose channels gen_conf() gives distinct multicast
\* addresses, one block per channel table entry.
ListAddressed(l) ==
    LET W == {s \in Slots : l[s] # NoCard}
        F == [s \in W |-> Writer!gen_conf(l[s], s)]
        Entries == UNION {{<<s, j>> : j \in DOMAIN F[s].blocks} : s \in W}
        Ips == {F[e[1]].blocks[e[2]].ip : e \in Entries}
    IN  /\ \A s \in W :
              /\ F[s].written
              /\ Len(F[s].blocks) = Writer!Chaines(l[s])
              /\ {F[s].blocks[j].chan : j \in DOMAIN F[s].blocks} = 1..Writer!Chaines(l[s])
        /\ \A a \in Ips : Writer!IsMulticast(a)
        /\ Cardinality(Ips) = Cardinality(Entries)

\* The lists that satisfy it (a constant, computed once).
AddressedLists == {l \in Confs \cup {Undefined.cards} : ListAddressed(l)}

\* Spec 4.1 and 8: for the list the supervisor holds, gen_conf() (from
\* carte.start()) writes every card's file, with one block per entry of its
\* channel table, and every channel of the host gets its own multicast
\* address: '20%i' of the card and '2%02i' of the block number stay within
\* an octet and never make two blocks, of one card or of two, coincide.
HostChannelsAddressed == conf.cards \in AddressedLists

====

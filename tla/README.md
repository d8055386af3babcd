# TLA+ models of the MuMuDVB helper scripts

These modules model the Python scripts that run around the `mumudvb`
streaming daemon (`src/scripts/`) and the OpenWrt `dvb.mk` generator
(`src/openwrt/generate_dvbmk.py`). The TLC model checker checks them.
The `mumudvb` daemon itself is C code. It is not part of these sources, so
the models treat it as the environment.

## The system and how its parts interact

- **`sat_base.py`, class `carte`**: the process controller for one DVB
  card. `start()` writes the card's configuration file (`gen_conf`) and
  launches `mumudvb`. It then polls the pid file and `ps` (`is_running`)
  every second and re-launches every 5 s, for `2*timeout_accord` seconds.
  `stop()` sends SIGTERM, then SIGKILL. `restart()` calls `stop()` and then
  `start()`.
- **`sat_conf.py`**: the list of cards of this host.
- **`sat_daemon.py`**: the fleet supervisor. It takes a lock and installs
  handlers for SIGTERM, SIGINT and SIGHUP. It loads `sat_conf` and then
  loops every 60 s. SIGHUP reloads `sat_conf` and stops the slots whose card
  is gone. SIGTERM stops every slot and exits. `analyse_opt()` parses the
  command line.
- **`sap.py`**: the SAP wrapper. Every 60 s it rebuilds `/etc/sap.cfg` from
  the channel lists that the `mumudvb` instances publish. When the md5 of
  the file changes, it kills its `sapserver` child. It respawns the child
  when the child is not alive.
- **`generate_dvbmk.py`**: reads the dvb-usb `Kconfig`. For each device
  block it asks the operator and writes a `dvb.mk` entry. `deal_config`
  builds the entry by searching the kernel's Makefiles for the module's
  objects and their sources. It scans those sources for `.firmware`
  lines, and searches the tuner or frontend Makefile for each selected
  module.
- **`vignettes.py`**: the thumbnail page. It runs `recup_sap` and reads
  the sorted channel list. A radio gets a cell for each logo file that
  starts with its short name. A TV channel gets a background `dumpudp`
  (2 s of stream), an immediate `ffmpeg`, a retry of both when no `.mpg`
  came out, then `transcode` (frame 11) and `convert` to `images/<ip>.jpg`.
  The cell is decided on the `.mpg`. It writes two pages, with rows of 2 and
  3 cells, and moves them into `/var/www`.

## Modules

| module | models | state | actions |
|---|---|---|---|
| `CardLifecycle` | what a caller of `carte` may rely on (abstract) | `phase` (idle, start, stop), `restart`, `streams`, `result` | `Invoke`, `Begin`, `End`, `Handover` (restart's stop phase hands over to start), `Finish` |
| `Carte` | `sat_base.py` `carte.start/stop/restart/is_running/get_pid/gen_conf` | `proc`/`age`/`termd` (the OS process table), `pidfile`, `pc` (where the caller is inside the method), `i`, `lpid` (the pid `stop()` read), `launched`, `outcome`, `timeout_accord` and `verbose` (set once by `config()`), `fg` (the foreground `mumudvb` that `os.system` waits for) | one action per step between two observations of the OS: `start_check`, `gen_conf`, `start_launch` (with `launch`, the `os.system` call), `system_return`, `sleep`, `start_poll`, `start_final_check`, `stop_check`, `stop_get_pid`, `stop_term`, `stop_recheck`, `stop_kill`. The environment: `daemon_startup`, `daemon_exit`, `foreign_spawn`, `foreign_exit` |
| `SatDaemon` | `sat_daemon.py` main program, `hup`, `term`, `stop`, `config`; `sat_conf.py`; `AnalyseOpt` through `Opt == INSTANCE AnalyseOpt` | `args` (the command line), `pc`, `lock`, `conf` (the list, with the generation of its instances), `file` (what `sat_conf.py` holds now), `reloads`, `stopped` (the slot list given to the last `stop()`), `exit` | `parse_opts` (`analyse_opt`; a usage exit), `make_lock`, `install_handlers`, `load_conf`, `main_pass`, `wake`, `hup`, `term`, and `edit` by the operator |
| `GenConf` | `sat_base.py` descriptor classes, `carte.__init__` (freq), `carte.gen_conf`; `sat_conf.py` host tables | none: operators over constant data | none: `gen_conf(cls, card)` gives the header variant and the channel blocks with their addresses |
| `AnalyseOpt` | `sat_daemon.py` `analyse_opt`, `usage` | `args` (one command line) | none: the option loop is the recursive operator `Loop`, used by `SatDaemon` |
| `SapServer` | `sap.py` | `proc`/`parent`/`conf_of` (processes, their wrapper generation, the `sap.cfg` they read), `chan`, `cfg`, `gen`, `lock`, `pc`, `sap_pid`, `sum`, `newpid` (the `os.spawnl` result before it is stored), `kret`, `exit` | `make_lock`, `install_handlers`, `gen_sap` (with its `no_data` path), `md5`, `check`, `spawn`, `store`, `sleep`, `kill_check/term/recheck/kill`, `term`, `term_exit`. The environment: `restart`, `feed`, `server_exit`, `init_reap`, `foreign_spawn`, `foreign_exit` |
| `DvbMk` | `generate_dvbmk.py` main loop, `deal_config`, `find_module_files` | `lines`, `idx`, `haveconfig`, `cur` (`current_config`), `pc`, `resume`, `asked`, `dealt` (the blocks written) | `config_line`, `reset`, `tristate_line`, `paren`, `list_line`, `other_line`, `last_block`, `ask`, `deal`. The searches are operators: `find_module_files` (substring test on a line of atoms), `SourceFiles`, `FirmwareTokens`, `Firmwares`, `SelectedFiles`, and `Entry`, the files and firmwares of the entry written |

| `Vignettes` | `vignettes.py` `vignettes()` | `data`, `k` (the line), `pc`, `logo`/`ok` (the logo search), `dumper` (the background `dumpudp`), `ts`/`mpg`/`ppm` (the files in `/tmp`), `jpg` (`images/<ip>.jpg`: none, an earlier run's, this run's), `col`/`colp`, `html`/`htmlp` (the cells and row breaks), `problems` | `line`, `logo_file`, `logo_done`, `dump`, `ffmpeg`, `check`, `retry`, `transcode`, `convert`, `publish`, `cleanup`, `finish` (`ajoute_image` is the operator both cell-adding steps use). The environment: `dump_progress` |

`PROJECT.json` ("map") gives the source lines of every definition.

**Granularity.** An action is the code between two points where something
else can act.

- In `Carte`, the daemon and other processes act between two system calls.
- In `SapServer`, a signal can arrive between any two statements, including
  between `os.spawnl` returning and the assignment to `sap_pid`.
- Python runs a signal handler between two bytecodes, and no other handler
  interrupts it. So `hup` and `term` of `SatDaemon`, and `term` of
  `SapServer`, are atomic steps. `kill()` inside `term()` is a sequence of
  steps, because the child can exit between them.

**Fault models.** Each module defines operators named "Fault model". Each is
a plausible bug in the code it stands beside: a dropped guard, an
off-by-one, a missing reset. They are not used by `Spec`. `PROJECT.json`
("mutants") substitutes each one for its original. Under the run's own
configuration, TLC must then find the run's property violated.

**Composition.** `SatDaemon` instantiates `GenConf` (`Writer`). `HostChannelsAddressed` renders every card of the list it holds. That is what `carte.start()` would write for those cards; in this revision the call is commented out. `SatDaemon` also instantiates `AnalyseOpt`. Its first step,
`parse_opts`, runs `analyse_opt` on a command line chosen in `Init`. A
usage exit ends the program before the lock is taken. So the option
property is checked on the command lines the supervisor really runs with.

**Refinement.** `CardLifecycle` is the contract of `carte` without pid
files, polling or signals:
- a stream begins only during a start phase, when none runs;
- a normal return of `stop()` (and of `restart()`'s stop phase) leaves the
  card silent;
- every call returns.

`Carte` maps onto it:
- `phase` comes from `pc`;
- `restart` is `op = "restart"`;
- `streams` is the number of its own `mumudvb` daemons;
- `result` is `outcome`.

`ImplementsCardLifecycle == Card!Safety /\ (verbose <= 2 => Card!Fairness)`
is checked as a temporal property. With `verbose > 2` (the class default,
and `sat_daemon -d`) line 147 adds ` -d -s` to the command: `mumudvb` stays
in the foreground and `os.system` returns only when it exits. `start()` then
does not return while the card streams, so for those runs only the safety
part of the lifecycle is claimed. Under `sat_daemon` the level is 1 by
default and 2 with `-v`; `mumudvb` daemonizes and every call returns.

**Reference definitions.** `DvbMk` checks the offers against
`Devices`, which are the device blocks of the Kconfig read as a whole.

## Runs

| run | cfg | expect | what it shows |
|---|---|---|---|
| carte | MCCarte | pass | The pid file appears up to 1 s after launch, pids are reused, `--timeout_accord` is 0 or 5, and `verbose` is 1, 2 or 3. One card never runs two `mumudvb` (`SingleDaemon`). A normal return of `stop()` leaves none running (`StopSilencesCard`). `Carte` implements `CardLifecycle` (`ImplementsCardLifecycle`). When `mumudvb` daemonizes (`verbose <= 2`) that includes every call returning, under the fairness below. |
| carte_orphan | MCCarteOrphan | violation | The pid file appears up to 5 s after launch. The re-launch at i = 5 starts while the first attempt is still coming up. The first writes its pid file and takes the frontend. The second finds the frontend busy and exits, and its clean-up removes the pid file, which names the first. `stop()` then finds nothing running and returns with a `mumudvb` alive. |
| carte_foreign_kill | MCCarteForeignKill | violation | `stop()` sends SIGTERM to an unrelated process that took the daemon's pid, through a stale pid file or an exit between check and kill. |
| carte_stale_pid | MCCarteStalePid | violation | The pid file appears up to 2 s late, and pids are reused. A SIGKILL leaves the pid file behind (line 187), and another program takes that pid. `start()`'s poll (line 157) then sees `is_running()` true and returns while its own daemon is still starting. A following `restart()` finds the foreign process gone and starts a second daemon beside the first. This violates `ImplementsCardLifecycle`. |
| sat_daemon | MCSatDaemon | pass | Every command line of up to three options runs in front of the supervisor. Every SIGHUP stops every slot whose card changed or disappeared (`StopCoversChanged`). Every card list the supervisor can hold, including the three host tables of `sat_conf.py`, would be written with one block per channel. Each channel gets a multicast address that is a valid IPv4 address and differs from every other channel of the host (`HostChannelsAddressed`). |
| sat_daemon_keep | MCSatDaemonKeep | violation | SIGHUP also stops unchanged slots: `carte in conf` compares object identity. |
| sap | MCSapServer | pass | At most one `sapserver` per wrapper (`OneServerPerWrapper`). At every sleep the server runs on the current `sap.cfg` (`ServerConfCurrent`). `kill()` signals a pid only while it is the wrapper's own unreaped child, never a reused pid (`SignalsOnlyOwnChild`). `sap_pid = 0` is not a pid and is left out; see the defects below. Suppose the channel lists stop changing and servers stop dying. Then the wrapper ends up announcing the current list for good, or it has exited (`ServerEventuallyCurrent`). After an md5 change this goes through a kill and a respawn at the next `is_alive()` test. |
| sap_duplicate | MCSapServerDup | violation | SIGTERM between `os.spawnl` and `sap_pid = ...` orphans a server. The next wrapper then starts a second one. |
| dvbmk | MCDvbMk | pass | Every device block is offered exactly once and in order, the last one included (`EachDeviceOfferedOnce`). `deal_config` gets the lists of its own block (`DealtConfigMatchesBlock`). |
| dvbmk_parens | MCDvbMkParens | violation | A description with `)` before `(` makes the loop at lines 256-258 run forever. |
| vignettes | MCVignettes | pass | Both pages tile their cells in rows of 2 and 3, every row full but the last, with the same cells in the same order (`PagesTiled`). Every channel is on the page exactly one way: as cells, or once in the problem list (`EachChannelCellOrProblem`). |
| vignettes_stale | MCVignettesStale | violation | `ffmpeg` reads the `.ts` the background `dumpudp` is still writing and makes a short `.mpg`. The `.mpg` exists, so there is no retry. `transcode` finds no frame 11, `convert` fails, and the cell shows the `.jpg` of an earlier run (`FreshThumbnails`). |

"findings" in `PROJECT.json` explains each violation.

Seven more defects are modelled but have no run of their own. Each is a
single path that one or two lines of the code show. The hazards in `PROJECT.json`
point to them:

- `sat_daemon.py` takes the lock before it installs the signal handlers
  (lines 124-135) and before `conf` exists (line 137). A signal in that
  window, or a broken `sat_conf.py` at a SIGHUP (line 105), ends the
  supervisor with its lock file left behind. In `SatDaemon` these are the
  `Die` outcomes.
- In `sap.py`, a malformed channel line raises `ValueError` (line 69), and
  a fork failure raises in `os.spawnl` (line 135). Either one ends the
  wrapper. In `SapServer` this is `exit = "crash"`.
- In `sat_base.py`, `stop()` raises although no daemon is left. It raises
  `OSError` when the daemon exits before `os.kill` (line 189). It raises
  `CarteOqp` right after a successful SIGKILL. In `Carte` these are the
  `outcome` exceptions of `stop_term` and `stop_kill`. `CardLifecycle`
  allows an exception from any call, so the refinement holds.
- In `sat_daemon.py` line 58, `opt == ['-q', '--quiet']` is never true, so
  `-q` is ignored, although the usage text says `-q ou --quiet : affiche
  rien` (line 35). In `AnalyseOpt`, `Apply` lets `-q` fall through, so
  `carte.verbose` is never 0.
- In `sap.py`, a SIGTERM while the first `os.spawnl` has returned but
  `sap_pid` is still 0 makes `kill()` work on pid 0 (lines 96-104). The
  SIGTERM to the process group reaches the wrapper too; Python 2 keeps it
  pending while `term()` runs. If the server is still alive a second later,
  `os.kill(0, 9)` kills the wrapper before `remove_lock`. The lock file then
  keeps `sap.py` from starting again. In `SapServer` this is `kill_kill`
  with `sap_pid = 0` (`exit = "killed"`, `lock` held).
- In `generate_dvbmk.py`, a first select that is neither `MEDIA_*` nor
  `DVB_*` prints an unassigned `new_files` (line 183). In `DvbMk` this is
  `pc = "crash"`.
- In `generate_dvbmk.py`, `find_module_files` tests `module in line`
  (line 97), a substring test. The search for `DVB_USB_AF9005` also
  matches the line of `DVB_USB_AF9005_REMOTE`, so the package takes the
  other module's object and the firmwares of its sources. In `MCDvbMk`,
  `Entry` for `DVB_USB_A` holds `dvb-usb-a-r` and `r.fw`.

"hazards" in `PROJECT.json` lists what is hard to test in this code and
which property covers it.

## Bounds and why they are enough

- **Carte.**
  - Three pids. That is enough for the daemon of two overlapping attempts
    plus one foreign process.
  - `verbose` is 1, 2 or 3, the levels `analyse_opt()` can return (`-q`
    is ignored). Level 3 is the foreground mode of line 147.
  - `timeout_accord` is 0 or 5. It is a variable set once by `config()`.
    - 0 stands for every value up to 0, which `int()` accepts. There,
      `range(2*timeout_accord)` is empty.
    - 5 gives 10 polling seconds and two re-launches.
  - `PidDelay` is 2, 3 or 6 depending on the run (the pid file appears at
    most `PidDelay - 1` s after launch).
    - 2 is the largest value that `start()` survives when pids are reused.
    - 3 is the smallest value at which a `start()` poll can see a stale pid
      file. The sleep guard makes the daemon start within two polls.
    - 6 lets the first attempt still be coming up at the re-launch of i = 5.
  - A process's age is capped at `PidDelay`.
- **SatDaemon.**
  - The six slots of `range(6)`.
  - Two card lists. The second keeps, changes, drops and adds a slot.
    Their cards are the largest channel table (`Hotbird_10873`, 10
    channels) and a TNT one.
  - The host tables of `canard`, `lapin` and `oie` from `sat_conf.py`.
    Among them they use 12 of the 22 descriptor classes and up to 5 cards.
  - `HostOctet = 255`, the largest last field of an address.
    `HostChannelsAddressed` depends only on the card list, so TLC computes
    it once per list (`AddressedLists`).
  - A broken file.
  - Four `config()` calls: the start-up load and three reloads, enough to
    go A→B→A and to reload an unchanged file.
- **SapServer.**
  - Three pids.
  - Two channel sets, "no data" and a malformed line.
  - Two wrapper lifetimes (`MaxGens = 2`), the least that exposes the
    duplicate server.
- **SatDaemon's command line (AnalyseOpt).** Every command line of up to
  three options built from all nine option spellings, an unknown option,
  and valid and invalid timeouts. They decide whether the supervisor runs
  or leaves through `usage()` before it takes its lock.
- **DvbMk.**
  - Kconfig files of up to four lines from a small alphabet: config of
    `DVB_USB` or a device, tristate with a description, select
    `MEDIA`/`DVB`/other, depends (including `EXPERIMENTAL`), and other.
  - This covers a block without a tristate, two consecutive blocks, and
    the last block.
  - Kernel files shaped like 2.6.32's, four Makefile lines and three C
    files. Device `A` and device `A_R`, whose name extends `A`'s. Frontend
    `F` and `F2`, the same way. A source that names `a.fw` twice and a
    macro once, and one more source that names `a.fw` again. The
    substring matches and the duplicate firmwares therefore both occur;
    no property checks the entries, whose contents follow from the
    searches (the prefix match is listed above).

- **Vignettes.** Every channel list of up to three lines. The lines are
  radios with 0, 1 or 2 matching logo files, live and dead TV streams, and
  a line without `:`. Every mix of earlier thumbnails is present or absent.
  - Three lines give up to six cells. Each page then breaks a row at least
    once, and the two pages break at different cells.
  - The background dump has three stages (nothing, a few packets, 2 s). That
    is enough to separate "no `.mpg`" (retry) from "a short `.mpg`" (no
    retry).

## Fairness

- **Carte.** Weak fairness of the controller steps. A running Python method
  keeps being scheduled. Weak fairness of `daemon_startup`: a launched
  `mumudvb` writes its pid file or exits. The environment's other actions
  (exits, foreign processes) have no fairness. A `mumudvb` that never
  writes its pid file is outside this environment: it would outlive the
  re-launch at i = 5, which is the defect of carte_orphan.
- **CardLifecycle.** `Fairness == WF_vars(Handover \/ Finish)`: a call in
  progress ends. `Carte` claims it only for `verbose <= 2`. `Carte`'s own fairness implies it, because its controller steps are
  weakly fair.
- **DvbMk.** `WF_vars(Next)`. The script runs alone, and the operator
  answers every question.
- **SapServer.** `WF_vars(Wrapper)`. The wrapper is one process whose
  loop only sleeps 60 s, so it keeps taking steps. The environment has no
  fairness: signals, the `mumudvb` instances that publish channels, and
  other processes. `ServerEventuallyCurrent` therefore assumes that the
  channel lists settle and that servers stop dying (`<>[][...]_vars`).
- **SatDaemon, Vignettes.** No fairness. Only safety is checked.
  The properties of `Vignettes` are about the page the script publishes.

## What is not modelled, and the plan

- **Not modelled.**
  - The fixed text `gen_conf` writes: the port and the channel names and
    pids, which are copied as they are. `GenConf` keeps the header variant
    and the address of each block.
  - Which channel gets which address. The ordinal follows
    `self.chaines.items()`, which is Python 2 dict order (string hashes).
    spec.md 4.1 says descriptor order. Editing a table can therefore move
    the other channels of a card to other addresses. The model numbers
    the channels by their place in `items()`, and `HostChannelsAddressed`
    holds for every order.
  - Polarisation, symbol rate and the TNT parameters of the descriptors.
    They reach no property. The shipped tables have at most 10 channels
    and cards come from `range(6)`, so the `2%02i` octet (valid up to 55)
    and the `20%i` octet are never exceeded.
  - `dvb_conf.py`. It imports the absent `dvb_base`.
  - The text of a `dvb.mk` entry: the title cut at 50 characters, the
    `KCONFIG` and `DEPENDS` lines. This is layout. `Entry` keeps the files
    and firmwares.
  - A Makefile or C line that contains the searched name but no `=`. It
    would raise `IndexError` at line 98. The model's kernel files have no
    such line, so that path is not modelled.
  - The HTML text of `vignettes.py`, and what happens to `/tmp/<ip>.ts`
    when the foreground `dumpudp` of the retry writes while the background
    one is still running. The model assumes that the retry yields a whole
    dump of a live stream.
  - The `lock` and `daemon` modules. They are not in the repository.
    `make_lock` is assumed to wait while the lock file exists.
- **Plan.**
  1. Two consecutive `vignettes.py` runs (cron), to follow an old
     thumbnail across runs.

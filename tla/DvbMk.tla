------------------------------- MODULE DvbMk -------------------------------
(***************************************************************************)
(* The main loop of src/openwrt/generate_dvbmk.py: it reads the dvb-usb    *)
(* Kconfig line by line.  A "config X" line closes the block before it:    *)
(* if that block had a tristate line and is not DVB_USB, the operator is   *)
(* asked whether to keep it and deal_config() writes its dvb.mk entry.     *)
(* A tristate line gives the description, with every "(...)" removed by   *)
(* a while loop; select and depends lines fill the current block's lists.  *)
(* After the last line the last block is offered the same way.            *)
(*                                                                         *)
(* A line is abstracted to the keyword the code tests for and the value    *)
(* it extracts: the config name, the description as a sequence of          *)
(* characters "(", ")" and "a", the selected module, the dependency.       *)
(* deal_config() searches the kernel's Makefiles and C files with          *)
(* find_module_files(), a substring test per line.  A name, and the text   *)
(* of a line, is a sequence of atoms (one atom per part a name can end     *)
(* at), so `module in line` is a contiguous subsequence: "A" is found in   *)
(* "CONFIG_A_R" as it is in the files.  A token after '=' is its stem (the *)
(* code cuts ".o" with [:-2]); "" stands for the tokens under 3            *)
(* characters.  A token of a C line has the name left once the comma and   *)
(* the quotes are removed, and whether '.fw"' was in it.                   *)
(***************************************************************************)
EXTENDS Naturals, Sequences, SequencesExt

CONSTANTS
    Kconfigs,   \* the Kconfig files read: sequences of lines, the first a config line
    UsbMakefile,      \* drivers/media/dvb/dvb-usb/Makefile: lines [text, objs]
    TunerMakefile,    \* drivers/media/common/tuners/Makefile
    FrontendMakefile, \* drivers/media/dvb/frontends/Makefile
    Sources           \* the C file of each stem: its lines

VARIABLES
    lines,      \* the Kconfig being read
    idx,        \* index of the line being handled (Len(lines) + 1 after the loop)
    haveconfig, \* the current block had a tristate line
    cur,        \* current_config: [name, desc, select, depends]
    pc,         \* "line", "paren", "ask", "deal", "reset", "done", "crash"
    resume,     \* where the main program goes after the offer: "reset" or "done"
    asked,      \* names offered to the operator, in order
    dealt       \* the blocks deal_config() wrote an entry for, in order: [name, select]

vars == <<lines, idx, haveconfig, cur, pc, resume, asked, dealt>>

-----------------------------------------------------------------------------
(* Helpers *)

\* current_config = {"name" : "", "select" : [], "depends" : []}
Fresh(n) == [name |-> n, desc |-> <<>>, select |-> <<>>, depends |-> <<>>]

DvbUsb == <<"DVB_USB">>

\* str.find: first position of a character, 0 when absent.
Find(d, c) == SelectInSeq(d, LAMBDA x : x = c)

\* One pass of the while loop of lines 256-258:
\* d[:d.find('(')] + d[d.find(')')+1:].
StripParens(d) == SubSeq(d, 1, Find(d, "(") - 1) \o SubSeq(d, Find(d, ")") + 1, Len(d))

Offered == haveconfig /\ cur.name # DvbUsb

Line == lines[idx]

-----------------------------------------------------------------------------
(* deal_config() *)

\* find_module_files(pre, filename, module): for every line that contains
\* module, the tokens of line.split('=')[1].split(' ') of 3 characters or
\* more, with pre in front.
find_module_files(pre, mk, module) ==
    FlattenSeq([n \in DOMAIN mk |->
        IF module \in SubSeqs(mk[n].text)
        THEN LET kept == SelectSeq(mk[n].objs, LAMBDA t : t.s # "")
             IN  [j \in DOMAIN kept |-> [kept[j] EXCEPT !.dir = pre]]
        ELSE <<>>])

\* Lines 141-153: the module's objects, then the objects of each one's
\* "<stem>-objs" line, whose .c files are searched for firmwares.
ModuleFiles(name) == find_module_files("dvb-usb", UsbMakefile, name)

SourceFiles(files) ==
    FlattenSeq([n \in DOMAIN files |->
        find_module_files("dvb-usb", UsbMakefile, <<files[n].s, "-objs">>)])

\* Lines 155-160: the tokens of the ".firmware" lines of every source.
FirmwareTokens(srcs) ==
    FlattenSeq([n \in DOMAIN srcs |-> find_module_files("", Sources[srcs[n].s], <<".firmware">>)])

\* Lines 161-164: a token with '.fw"' is kept, quotes removed, unless that
\* name is already in config["firmwares"].
Firmwares(toks) ==
    FoldLeft(LAMBDA acc, t : IF t.fw /\ ~Contains(acc, t.s) THEN Append(acc, t.s) ELSE acc,
             <<>>, toks)

\* Lines 175-182: a MEDIA* module adds the tuner objects of CONFIG_<module>,
\* a DVB* one the frontend objects, any other nothing.
SelectedFiles(sel) ==
    FlattenSeq([n \in DOMAIN sel |->
        CASE sel[n][1] = "MEDIA" -> find_module_files("tuners", TunerMakefile, <<"CONFIG_">> \o sel[n])
          [] sel[n][1] = "DVB" -> find_module_files("frontends", FrontendMakefile, <<"CONFIG_">> \o sel[n])
          [] OTHER -> <<>>])

\* The entry deal_config() writes for block c: its files, the firmware
\* tokens found and the firmwares kept.
Entry(c) ==
    LET files == ModuleFiles(c.name)
        found == FirmwareTokens(SourceFiles(files))
    IN  [name |-> c.name, files |-> files \o SelectedFiles(c.select),
         found |-> found, firmwares |-> Firmwares(found)]

-----------------------------------------------------------------------------
(* The main program *)

Init ==
    /\ lines \in Kconfigs
    /\ idx = 1
    /\ haveconfig = FALSE
    /\ cur = Fresh(<<>>)
    /\ pc = "line"
    /\ resume = "reset"
    /\ asked = <<>>
    /\ dealt = <<>>

\* A config line: offer the block it closes, then start a new one.
config_line ==
    /\ pc = "line" /\ idx <= Len(lines) /\ Line.k = "config"
    /\ pc' = IF Offered THEN "ask" ELSE "reset"
    /\ resume' = "reset"
    /\ UNCHANGED <<lines, idx, haveconfig, cur, asked, dealt>>

\* Fault model: the new block keeps the lists of the previous one.
reset_keeping_lists ==
    /\ pc = "reset"
    /\ haveconfig' = FALSE
    /\ cur' = [cur EXCEPT !.name = Line.v, !.desc = <<>>]
    /\ idx' = idx + 1 /\ pc' = "line"
    /\ UNCHANGED <<lines, resume, asked, dealt>>

\* haveconfig = False; current_config = {...}; name = split(' ')[1].
reset ==
    /\ pc = "reset"
    /\ haveconfig' = FALSE
    /\ cur' = Fresh(Line.v)
    /\ idx' = idx + 1 /\ pc' = "line"
    /\ UNCHANGED <<lines, resume, asked, dealt>>

\* A tristate line: haveconfig = True, the description, then the loop.
tristate_line ==
    /\ pc = "line" /\ idx <= Len(lines) /\ Line.k = "tristate"
    /\ haveconfig' = TRUE
    /\ cur' = [cur EXCEPT !.desc = Line.d]
    /\ pc' = "paren"
    /\ UNCHANGED <<lines, idx, resume, asked, dealt>>

\* while '(' in description and ')' in description: strip.
paren ==
    /\ pc = "paren"
    /\ IF Find(cur.desc, "(") # 0 /\ Find(cur.desc, ")") # 0
       THEN cur' = [cur EXCEPT !.desc = StripParens(cur.desc)] /\ UNCHANGED <<idx, pc>>
       ELSE idx' = idx + 1 /\ pc' = "line" /\ UNCHANGED cur
    /\ UNCHANGED <<lines, haveconfig, resume, asked, dealt>>

\* select and depends on lines; "depends on EXPERIMENTAL" is skipped.
list_line ==
    /\ pc = "line" /\ idx <= Len(lines) /\ Line.k \in {"select", "depends"}
    /\ cur' = CASE Line.k = "select" -> [cur EXCEPT !.select = Append(@, Line.v)]
                [] Line.v = "EXPERIMENTAL" -> cur
                [] OTHER -> [cur EXCEPT !.depends = Append(@, Line.v)]
    /\ idx' = idx + 1
    /\ UNCHANGED <<lines, haveconfig, pc, resume, asked, dealt>>

\* Any other line (help text, if, endif, comment).
other_line ==
    /\ pc = "line" /\ idx <= Len(lines) /\ Line.k = "other"
    /\ idx' = idx + 1
    /\ UNCHANGED <<lines, haveconfig, cur, pc, resume, asked, dealt>>

\* Fault model: the loop's end without "We deal with the last one".
last_block_skipped ==
    /\ pc = "line" /\ idx > Len(lines)
    /\ pc' = "done" /\ resume' = "done"
    /\ UNCHANGED <<lines, idx, haveconfig, cur, asked, dealt>>

\* After the loop: "We deal with the last one".
last_block ==
    /\ pc = "line" /\ idx > Len(lines)
    /\ pc' = IF Offered THEN "ask" ELSE "done"
    /\ resume' = "done"
    /\ UNCHANGED <<lines, idx, haveconfig, cur, asked, dealt>>

\* raw_input("Do you want it (Y/n) ? "): yes, or an empty answer, deals.
ask ==
    /\ pc = "ask"
    /\ asked' = Append(asked, cur.name)
    /\ pc' \in {"deal", resume}
    /\ UNCHANGED <<lines, idx, haveconfig, cur, resume, dealt>>

\* deal_config(): the module, source and firmware searches, then for each
\* selected module, MEDIA* and DVB* search a Makefile and set new_files,
\* then `print new_files`.  A first module of neither kind prints a
\* new_files never assigned: NameError, before anything is written.
deal ==
    /\ pc = "deal"
    /\ IF cur.select # <<>> /\ cur.select[1][1] \notin {"MEDIA", "DVB"}
       THEN pc' = "crash" /\ UNCHANGED dealt
       ELSE pc' = resume /\ dealt' = Append(dealt, [name |-> cur.name, select |-> cur.select])
    /\ UNCHANGED <<lines, idx, haveconfig, cur, resume, asked>>

Next ==
    \/ config_line \/ reset \/ tristate_line \/ paren \/ list_line
    \/ other_line \/ last_block \/ ask \/ deal

\* The script runs alone and the operator answers every question.
Spec == Init /\ [][Next]_vars /\ WF_vars(Next)

-----------------------------------------------------------------------------
(* Reference: the blocks of a Kconfig *)

Configs(ls) == {c \in DOMAIN ls : ls[c].k = "config"}

\* The lines of the block that starts at config line c.
Block(ls, c) ==
    LET later == {n \in Configs(ls) : n > c}
        end == IF later = {} THEN Len(ls) ELSE Min(later) - 1
    IN  SubSeq(ls, c, end)

Values(ls, kind, skip) ==
    LET s == SelectSeq(ls, LAMBDA l : l.k = kind /\ l.v # skip)
    IN  [n \in 1..Len(s) |-> s[n].v]

\* A block is offered when it has a tristate line and is not DVB_USB.
Device(ls, c) ==
    /\ ls[c].v # DvbUsb
    /\ \E n \in DOMAIN Block(ls, c) : Block(ls, c)[n].k = "tristate"

\* The names of the devices, in file order.
Devices(ls) ==
    LET ds == SetToSortSeq({c \in Configs(ls) : Device(ls, c)}, <)
    IN  [n \in 1..Len(ds) |-> ls[ds[n]].v]

\* The config line of the block that ends just before line n.
BlockBefore(ls, n) == Max({c \in Configs(ls) : c < n})

-----------------------------------------------------------------------------
(* Properties *)

\* When the generator has read the whole Kconfig, it has asked about every
\* device exactly once and in file order: the block closed by each config
\* line and the last block closed by the end of the file.
EachDeviceOfferedOnce == pc = "done" => asked = Devices(lines)

\* deal_config() receives the select and depends lists of the block it is
\* writing, and nothing left over from an earlier block: current_config is
\* rebuilt after the offer, not before.
DealtConfigMatchesBlock ==
    pc = "deal" =>
        LET c == BlockBefore(lines, idx)
        IN  /\ cur.name = lines[c].v
            /\ cur.select = Values(Block(lines, c), "select", "")
            /\ cur.depends = Values(Block(lines, c), "depends", "EXPERIMENTAL")

\* The generator ends (docstring: "it will generate a dvb.mk file"): every
\* loop, the description loop of lines 256-258 included, terminates.
GeneratorEnds == <>(pc \in {"done", "crash"})

====

---------------------------- MODULE MCSatDaemon ----------------------------
(* Instantiates SatDaemon for TLC: the six slots of range(6); two card    *)
(* lists, the second keeping slot 0, changing slot 1, dropping slot 2 and  *)
(* adding slot 3, and the three host tables of sat_conf.py; command lines  *)
(* of up to three options.                                                 *)
EXTENDS SatDaemon

\* The largest channel table and a TNT one.
TA == "Hotbird_10873"
TB == "TNT_R1_586000"

MCSlots == 0..5
ListA == [s \in MCSlots |-> IF s \in 0..2 THEN TA ELSE NoCard]
ListB == [s \in MCSlots |-> CASE s = 0 -> TA
                              [] s = 1 -> TB
                              [] s = 3 -> TA
                              [] OTHER -> NoCard]
\* sat_conf.py on canard, lapin and oie: conf[i] is on slot i.
HostList(h) == [s \in MCSlots |-> IF s < Len(Writer!HostTables[h])
                                  THEN Writer!HostTables[h][s + 1] ELSE NoCard]
MCConfs == {ListA, ListB} \cup {HostList(h) : h \in DOMAIN Writer!HostTables}

\* Every known option, two valid and an invalid --timeout_accord value, and
\* an option getopt rejects.
MCPairs ==
    {[opt |-> o, val |-> 0, isint |-> FALSE] :
        o \in {"-h", "-d", "--debug", "-v", "--verbose", "-q", "--quiet", "-z"}}
    \cup {[opt |-> "--timeout_accord", val |-> v, isint |-> TRUE] : v \in {7, 0}}
    \cup {[opt |-> "--timeout_accord", val |-> 0, isint |-> FALSE]}
====

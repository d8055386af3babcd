------------------------------ MODULE GenConf ------------------------------
(***************************************************************************)
(* The card descriptors and the config file writer of                      *)
(* src/scripts/sat_base.py, and the host card tables of sat_conf.py.       *)
(*                                                                         *)
(* A descriptor is a subclass of carte.  What gen_conf() takes from it is  *)
(* the tuning variant and the channel table:                               *)
(*   - the header: the try at line 83 formats entete_conf_TNT with qam,    *)
(*     trans_mode, ...; a Hotbird class has none, the lookup raises and    *)
(*     the except writes entete_conf with pol and srate;                   *)
(*   - one block per entry of chaines, in the order items() gives, the     *)
(*     n-th with ip = '239.%s.20%i.2%02i' % (last field of IP, card, n).   *)
(* The text is reduced to the header variant and, per block, the channel   *)
(* and its address; an address is the four numbers its dotted string      *)
(* reads as.  The port, the name and the pids are copied unchanged.        *)
(***************************************************************************)
EXTENDS Naturals, FiniteSets, Sequences

CONSTANT HostOctet   \* IP.split('.')[-1]: the last field of the host's address

-----------------------------------------------------------------------------
(* The descriptor classes: the number of entries of chaines (lines 199-418) *)

\* Hotbird_*: pol and srate, no qam: the except branch, entete_conf.
SatTable ==
    [Hotbird_10796 |-> 2, Hotbird_10873 |-> 10, Hotbird_10911 |-> 7,
     Hotbird_11137 |-> 9, Hotbird_11200 |-> 9, Hotbird_11242 |-> 1,
     Hotbird_11304 |-> 5, Hotbird_11604 |-> 6, Hotbird_11623 |-> 5,
     Hotbird_11642 |-> 3, Hotbird_11727 |-> 3, Hotbird_11785 |-> 3,
     Hotbird_12245 |-> 3, Hotbird_12476 |-> 3, Hotbird_12558 |-> 2,
     Hotbird_12577 |-> 4, Hotbird_12597 |-> 5]

\* TNT_*: qam, trans_mode, bandwidth, guardinterval, coderate: entete_conf_TNT.
TNTTable ==
    [TNT_R1_586000 |-> 6, TNT_R2_474000 |-> 2, TNT_R3_522000 |-> 1,
     TNT_R4_498000 |-> 3, TNT_R6_562000 |-> 2]

Classes == DOMAIN SatTable \cup DOMAIN TNTTable

Chaines(cls) == IF cls \in DOMAIN TNTTable THEN TNTTable[cls] ELSE SatTable[cls]

\* The host tables of sat_conf.py: conf[i] is constructed with card i.
HostTables ==
    [canard |-> <<"Hotbird_12476", "Hotbird_10911", "Hotbird_12597", "Hotbird_12577">>,
     lapin  |-> <<"Hotbird_10796", "Hotbird_11604", "TNT_R1_586000">>,
     oie    |-> <<"Hotbird_12245", "Hotbird_11137", "Hotbird_10873",
                  "Hotbird_11304", "Hotbird_11623">>]

-----------------------------------------------------------------------------
(* carte.__init__ and gen_conf() *)

\* self.freq = int(str(self.__class__).split('_')[-1]): every descriptor
\* name ends in its frequency; the base class carte yields '' (no freq).
HasFreq(cls) == cls \in Classes

RECURSIVE Digits(_)
Digits(x) == IF x < 10 THEN 1 ELSE 1 + Digits(x \div 10)

\* The number the string p followed by '%0wi' % x reads as.
Prefixed(p, x, w) == p * 10^(IF Digits(x) < w THEN w ELSE Digits(x)) + x

\* ip of the n-th block (from 0) of card: '239.%s.20%i.2%02i'.
Address(card, n) == <<239, HostOctet, Prefixed(20, card, 1), Prefixed(2, n, 2)>>

\* Fault model: n += 1 left out of the loop.
BlocksSameOrdinal(cls, card) ==
    [k \in 1..Chaines(cls) |-> [chan |-> k, ip |-> Address(card, 0)]]

\* for pids, name in self.chaines.items(): a block with the current n, then
\* n += 1.  A channel is its place in items() (Python 2 dict order).
Blocks(cls, card) ==
    [k \in 1..Chaines(cls) |-> [chan |-> k, ip |-> Address(card, k - 1)]]

\* gen_conf(): nothing written without a frequency; else the header of the
\* class's variant and the channel blocks.
gen_conf(cls, card) ==
    IF ~HasFreq(cls)
    THEN [written |-> FALSE, header |-> "none", blocks |-> <<>>]
    ELSE [written |-> TRUE,
          header  |-> IF cls \in DOMAIN TNTTable THEN "entete_conf_TNT" ELSE "entete_conf",
          blocks  |-> Blocks(cls, card)]

\* An IPv4 multicast address: four octets, the first in 224..239.
IsMulticast(a) == a[1] \in 224..239 /\ \A o \in 1..4 : a[o] \in 0..255

====

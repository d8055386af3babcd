---------------------------- MODULE MCVignettes ----------------------------
EXTENDS Vignettes

\* Radios with no, one or two matching logo files (nom_court is '' for a
\* two-word name and matches every file), live and dead TV streams, and a
\* line without ':'.
MCLines ==
    {[kind |-> "radio", logos |-> n] : n \in 0..2}
    \cup {[kind |-> "tv", alive |-> b] : b \in BOOLEAN}
    \cup {[kind |-> "bad"]}

\* Every sorted channel list of up to three lines.
MCInputs == BoundedSeq(MCLines, 3)

====

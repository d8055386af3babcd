------------------------------ MODULE Vignettes ------------------------------
(***************************************************************************)
(* The thumbnail page: src/scripts/vignettes/vignettes.py.  vignettes()    *)
(* reads the sorted channel list and, for each line:                       *)
(*   - a radio ("rad ..."): copies every logo file whose name starts with  *)
(*     the short name to images/<ip>.jpg, one table cell each; with no     *)
(*     such file the channel goes to the problem list;                     *)
(*   - a TV channel: starts dumpudp in the background (2 s of stream),     *)
(*     converts /tmp/<ip>.ts to mpeg at once, retries dump and conversion  *)
(*     in the foreground when no .mpg came out, extracts frame 11          *)
(*     (transcode) and converts it to images/<ip>.jpg; a cell when the     *)
(*     .mpg exists, else the problem list and the jpgs are removed.        *)
(* Two pages are written, rows of 2 cells (index.html) and of 3            *)
(* (index_petites.html), then moved into /var/www.                         *)
(*                                                                         *)
(* A channel is its line number (ip and name are unique per line).  The    *)
(* external programs are abstracted to what they leave on disk: a .ts is   *)
(* absent, "short" (less than the 11 frames transcode needs) or "full";    *)
(* the .mpg is converted from whatever .ts there is.  A line without ':'   *)
(* raises IndexError (line 87).                                            *)
(***************************************************************************)
EXTENDS Naturals, Sequences, SequencesExt

CONSTANTS
    Inputs,    \* the channel lists recup_sap may give: sequences of line records
    Width,     \* cells per row of index.html (2)
    WidthP     \* cells per row of index_petites.html (3)

\* A line: [kind |-> "radio", logos |-> n] (n logo files match its short
\* name), [kind |-> "tv", alive |-> b] (the stream carries data or not), or
\* [kind |-> "bad"] (no ':').

VARIABLES
    data,      \* the lines of chaines_recup_sap_triees.txt
    k,         \* the line being handled
    pc,        \* "line", "logo", "dump", "ffmpeg", "check", "retry",
               \* "transcode", "convert", "publish", "cleanup", "done", "crash"
    logo,      \* logo files still to go over for the current radio
    ok,        \* the current radio got a cell
    dumper,    \* the background dumpudp is still writing /tmp/<ip>.ts
    ts,        \* /tmp/<ip>.ts: "none", "short" or "full"
    mpg,       \* /tmp/<ip>.mpg: "none", "short" or "full"
    ppm,       \* /tmp/image_<ip>*ppm exists
    jpg,       \* jpg[c]: images/<ip>.jpg is "none", "old" (an earlier run's) or "new"
    col,       \* col, col_petites: cells in the current row of each page
    colp,
    html,      \* index.html: the cells in order, Tr for a row break
    htmlp,     \* index_petites.html, the same
    problems   \* chaines_probleamatiques: the channels in order

vars == <<data, k, pc, logo, ok, dumper, ts, mpg, ppm, jpg, col, colp, html,
          htmlp, problems>>

-----------------------------------------------------------------------------
(* Helpers *)

Line == data[k]

\* '</tr><tr>' on a page (channels are numbered from 1).
Tr == 0

\* What ffmpeg may write from a .ts: no .mpg from an empty one; from one
\* still being written, none (the probe fails) or the few frames there are.
Mpegs(t) == CASE t = "none" -> {"none"}
              [] t = "short" -> {"none", "short"}
              [] t = "full" -> {"full"}

\* if col == W: col = 1, write '</tr><tr>' else col += 1.
Counter(c, w) == IF c = w THEN 1 ELSE c + 1
Break(c, w, page) == IF c = w THEN Append(page, Tr) ELSE page

\* ajoute_image(): one cell for the channel on each page (after the row
\* break the counters may have written).
ajoute_image(page, pagep) == html' = Append(page, k) /\ htmlp' = Append(pagep, k)

\* Fault model: a new row starts the counter at 0.
AddCellFromZero ==
    /\ col' = IF col = Width THEN 0 ELSE col + 1
    /\ colp' = IF colp = WidthP THEN 0 ELSE colp + 1
    /\ ajoute_image(Break(col, Width, html), Break(colp, WidthP, htmlp))

\* The two counters, then ajoute_image(): a cell on each page.
AddCell ==
    /\ col' = Counter(col, Width)
    /\ colp' = Counter(colp, WidthP)
    /\ ajoute_image(Break(col, Width, html), Break(colp, WidthP, htmlp))

NextLine == k' = k + 1 /\ pc' = "line"

Files == <<dumper, ts, mpg, ppm>>
Page == <<col, colp, html, htmlp>>

-----------------------------------------------------------------------------
(* vignettes() *)

Init ==
    /\ data \in Inputs
    /\ k = 1
    /\ pc = "line"
    /\ logo = 0
    /\ ok = FALSE
    /\ dumper = FALSE /\ ts = "none" /\ mpg = "none" /\ ppm = FALSE
    /\ jpg \in [DOMAIN data -> {"none", "old"}]
    /\ col = 0 /\ colp = 0
    /\ html = <<>> /\ htmlp = <<>>
    /\ problems = <<>>

\* Fault model: ok=0 set once before the loop, not for every radio.
line_keeping_ok ==
    /\ pc = "line" /\ k <= Len(data)
    /\ CASE Line.kind = "bad" -> pc' = "crash" /\ UNCHANGED logo
         [] Line.kind = "radio" -> pc' = "logo" /\ logo' = Line.logos
         [] OTHER -> pc' = "dump" /\ UNCHANGED logo
    /\ UNCHANGED <<ok, data, k, Files, jpg, Page, problems>>

\* for line in data: split the line; a radio or a TV channel.
line ==
    /\ pc = "line" /\ k <= Len(data)
    /\ CASE Line.kind = "bad" -> pc' = "crash" /\ UNCHANGED logo
         [] Line.kind = "radio" -> pc' = "logo" /\ logo' = Line.logos
         [] OTHER -> pc' = "dump" /\ UNCHANGED logo
    /\ ok' = FALSE
    /\ UNCHANGED <<data, k, Files, jpg, Page, problems>>

\* One logo file that starts with nom_court: cp to images/<ip>.jpg, a cell.
logo_file ==
    /\ pc = "logo" /\ logo > 0
    /\ jpg' = [jpg EXCEPT ![k] = "new"]
    /\ AddCell
    /\ logo' = logo - 1 /\ ok' = TRUE
    /\ UNCHANGED <<data, k, pc, Files, problems>>

\* End of os.listdir: no logo, the problem list; continue.
logo_done ==
    /\ pc = "logo" /\ logo = 0
    /\ problems' = IF ok THEN problems ELSE Append(problems, k)
    /\ NextLine
    /\ UNCHANGED <<data, logo, ok, Files, jpg, Page>>

\* dumpudp ... > /tmp/<ip>.ts &: the dump runs on beside the script.
dump ==
    /\ pc = "dump"
    /\ dumper' = Line.alive /\ ts' = "none"
    /\ pc' = "ffmpeg"
    /\ UNCHANGED <<data, k, logo, ok, mpg, ppm, jpg, Page, problems>>

\* The background dumpudp writes its 2 s of stream and ends.
dump_progress ==
    /\ dumper
    /\ ts' = IF ts = "none" THEN "short" ELSE "full"
    /\ dumper' = (ts = "none")
    /\ UNCHANGED <<data, k, pc, logo, ok, mpg, ppm, jpg, Page, problems>>

\* rm /tmp/<ip>.mpg; ffmpeg on the .ts as it is now.
ffmpeg ==
    /\ pc = "ffmpeg"
    /\ mpg' \in Mpegs(ts)
    /\ pc' = "check"
    /\ UNCHANGED <<data, k, logo, ok, dumper, ts, ppm, jpg, Page, problems>>

\* if not os.path.exists(.mpg): dumpudp in the foreground, ffmpeg again.
check ==
    /\ pc = "check"
    /\ pc' = IF mpg = "none" THEN "retry" ELSE "transcode"
    /\ UNCHANGED <<data, k, logo, ok, Files, jpg, Page, problems>>

retry ==
    /\ pc = "retry"
    /\ ts' = IF Line.alive THEN "full" ELSE "none"
    /\ mpg' \in Mpegs(ts')
    /\ pc' = "transcode"
    /\ UNCHANGED <<data, k, logo, ok, dumper, ppm, jpg, Page, problems>>

\* rm the ppm files; transcode extracts frames 10-11 when the mpeg has them.
transcode ==
    /\ pc = "transcode"
    /\ ppm' = (mpg = "full")
    /\ pc' = "convert"
    /\ UNCHANGED <<data, k, logo, ok, dumper, ts, mpg, jpg, Page, problems>>

\* convert writes both jpgs from the ppm; with no ppm it fails and the
\* jpgs of an earlier run stay.
convert ==
    /\ pc = "convert"
    /\ jpg' = IF ppm THEN [jpg EXCEPT ![k] = "new"] ELSE jpg
    /\ pc' = "publish"
    /\ UNCHANGED <<data, k, logo, ok, Files, Page, problems>>

\* The test is on the .mpg: a cell, or the problem list and rm the jpgs.
publish ==
    /\ pc = "publish"
    /\ \/ mpg # "none" /\ AddCell /\ UNCHANGED <<jpg, problems>>
       \/ /\ mpg = "none"
          /\ problems' = Append(problems, k)
          /\ jpg' = [jpg EXCEPT ![k] = "none"]
          /\ UNCHANGED Page
    /\ pc' = "cleanup"
    /\ UNCHANGED <<data, k, logo, ok, Files>>

\* rm the .ts, .mpg and ppm files; a dump still running writes to the
\* removed .ts.
cleanup ==
    /\ pc = "cleanup"
    /\ dumper' = FALSE /\ ts' = "none" /\ mpg' = "none" /\ ppm' = FALSE
    /\ NextLine
    /\ UNCHANGED <<data, logo, ok, jpg, Page, problems>>

\* The table footer, the problem list, and mv of both pages to /var/www.
finish ==
    /\ pc = "line" /\ k > Len(data)
    /\ pc' = "done"
    /\ UNCHANGED <<data, k, logo, ok, Files, jpg, Page, problems>>

Next ==
    \/ line \/ logo_file \/ logo_done \/ dump \/ dump_progress \/ ffmpeg
    \/ check \/ retry \/ transcode \/ convert \/ publish \/ cleanup \/ finish

Spec == Init /\ [][Next]_vars

-----------------------------------------------------------------------------
(* Properties *)

\* The rows of a page: the cells between two row breaks.
RECURSIVE Rows(_)
Rows(p) ==
    IF \E n \in DOMAIN p : p[n] = Tr
    THEN LET n == SelectInSeq(p, LAMBDA x : x = Tr)
         IN  <<SubSeq(p, 1, n - 1)>> \o Rows(SubSeq(p, n + 1, Len(p)))
    ELSE <<p>>

Cells(p) == SelectSeq(p, LAMBDA x : x # Tr)

\* Every row of a page is full except the last, which holds 1 to w cells.
Tiled(p, w) ==
    LET r == Rows(p)
    IN  /\ \A n \in 1..Len(r) - 1 : Len(r[n]) = w
        /\ p # <<>> => Len(r[Len(r)]) \in 1..w

\* A published page lays its cells out in rows of 2 (index.html) and of 3
\* (index_petites.html), every row full but the last, and both pages show
\* the same cells in the same order: the two counters of lines 98-107 and
\* 135-144, reset to 1 when a row is broken.
PagesTiled ==
    pc = "done" => /\ Tiled(html, Width)
                   /\ Tiled(htmlp, WidthP)
                   /\ Cells(html) = Cells(htmlp)

\* Every channel of the list is on the published page exactly one way:
\* with its cells, or once in the problem list, never both and never
\* neither.  For a radio this rests on ok being reset for each line; for a
\* TV channel on the single test of the .mpg deciding cell or problem.
EachChannelCellOrProblem ==
    pc = "done" =>
        /\ \A c \in DOMAIN data : (c \in ToSet(Cells(html))) # (c \in ToSet(problems))
        /\ IsInjective(problems)

\* Every thumbnail the page shows was made in this run: a cell is added
\* only for a channel whose images/<ip>.jpg is new.
FreshThumbnails ==
    pc = "done" => \A c \in ToSet(Cells(html)) : jpg[c] = "new"

====

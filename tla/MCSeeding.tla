------------------------------- MODULE MCSeeding -------------------------------
(* Boxes a few kilometres wide, with the limits scaled down to match: one that  *)
(* is narrower than half the default cell, one that is a multiple of nothing,   *)
(* and one too large for small cells.  Two workers, and three places whose links *)
(* show up in the feeds of several searches.                                    *)
EXTENDS Seeding

CONSTANTS q1, q2, q3, q4, p1, p2, p3

SmallBoxes == {[height |-> 2, width |-> 1], [height |-> 5, width |-> 3]}
MCBoxes == SmallBoxes \cup {[height |-> 13, width |-> 17]}
MCVariations == <<q1, q2, q3, q4>>
MCTargets == <<2, 3, 5, 6>>
MCFeeds == {<<>>, <<p1, p2, p1>>, <<p2, p3>>}

MCLines == {<<>>, <<q1>>, <<Blank, q1, q2>>, <<Blank>>, <<q2, NoText>>}
MCSimple == [kind : {"simple"}, box : MCBoxes \cup {NoBox}, intensity : {0, 20, 21, 41, 51, 61, 76, 81},
             fast : {FALSE}, coords : {TRUE}, zoomOK : {TRUE}, cellKm : {0}, lines : {<<>>}]
MCOther == [kind : {"advanced", "file"}, box : MCBoxes \cup {NoBox, BadBox}, intensity : {0},
            fast : BOOLEAN, coords : BOOLEAN, zoomOK : BOOLEAN, cellKm : {-1, 0, 2, 5}, lines : MCLines]
\* The flags of fast mode and the zoom level are varied for one list of lines, and
\* the large box is for the requests that have a limit.
MCRequests == MCSimple \cup {r \in MCOther :
    /\ r.lines = <<q1>> \/ (~r.fast /\ r.coords /\ r.zoomOK)
    /\ r.kind = "file" => r.box \in SmallBoxes \cup {NoBox, BadBox}}

=============================================================================

------------------------------- MODULE Seeding -------------------------------
(***************************************************************************)
(* From a request to place jobs: the web form or API request and its       *)
(* validation (web/simple_jobdata.go, web/intensity.go, web/job.go), the   *)
(* seed jobs of a web or file run (runner/webrunner, runner/filerunner,    *)
(* runner/jobs.go, grid/grid.go), and the seed jobs' shared deduper        *)
(* (gmaps/job.go, deduper/hashmap.go).                                     *)
(*                                                                         *)
(* A bounding box is measured in kilometres on the ground at its middle    *)
(* latitude.  In that unit the latitude step and the longitude step, which *)
(* the code divides by the kilometres per degree, are both the cell size.  *)
(* Rounding of floating point numbers is left out, and the search for a    *)
(* cell size stops at 1 km where the code stops at 0.02 km.                *)
(***************************************************************************)
EXTENDS Integers, Sequences, FiniteSets

CONSTANTS
    Requests,       \* the requests of users
    Boxes,          \* area presets: records of a height and a width in km
    NoBox, BadBox,  \* no area, and an unknown preset or a box that is not valid
    Queries,        \* query texts
    Variations,     \* the keywords made from a business: it, "it near me", ...
    Blank, NoText,  \* an empty line, and a line with only a custom id
    Places,         \* what the links of a feed lead to
    Feeds,          \* the feeds a search may show: sequences of links
    Anywhere,       \* a search that is not bound to a cell
    Workers,        \* concurrent workers of the scraper
    NoPlace, NoSeed,
    Targets,        \* cells aimed at by the four higher bands of intensity
    MaxGridCells,   \* 900
    DefaultCellKm,  \* 45
    MinCellKm,      \* 5: where the search for a cell size starts
    MaxCellKm       \* 500

Kinds == {"simple", "advanced", "file"}
Lines == Queries \cup {Blank, NoText}

ASSUME SizesAssumption ==
    /\ {MaxGridCells, DefaultCellKm, MinCellKm, MaxCellKm} \subseteq Nat \ {0}
    /\ MinCellKm + 1 < MaxCellKm
    /\ Targets \in [1 .. 4 -> 2 .. MaxGridCells]
ASSUME BoxesAssumption ==
    /\ \A box \in Boxes : box.height \in Nat \ {0} /\ box.width \in Nat \ {0}
    /\ NoBox \notin Boxes /\ BadBox \notin Boxes /\ NoBox # BadBox
ASSUME RequestsAssumption ==
    \A r \in Requests :
        /\ r.kind \in Kinds /\ r.box \in Boxes \cup {NoBox, BadBox}
        /\ r.cellKm \in Int /\ r.lines \in Seq(Lines)
        /\ r.kind = "simple" =>
              r.intensity \in Int /\ r.box # BadBox /\ ~r.fast /\ r.zoomOK
ASSUME VariationsAssumption == Variations \in Seq(Queries) /\ Len(Variations) >= 4
ASSUME FeedsAssumption == NoPlace \notin Places /\ Feeds \subseteq Seq(Places)

VARIABLES
    request,    \* what was asked for
    data,       \* the job's data: area preset, cell size and keywords
    pc,         \* where the request is
    lo, hi,     \* the bounds of the search for a cell size
    seeds,      \* the seed jobs not yet taken by a worker
    at,         \* the seed job of each worker
    links,      \* the links its Process has not looked at
    unseen,     \* the link it found absent under the read lock
    seen,       \* the deduper
    made,       \* how many place jobs the feeds gave each place
    opened      \* the places that searches opened and gave a job of their own

vars == <<request, data, pc, lo, hi, seeds, at, links, unseen, seen, made, opened>>
feedVars == <<at, links, unseen, seen, made, opened>>

-----------------------------------------------------------------------------
(* The grid                                                                *)

\* Mutant: the loops stop at the last cell that lies within the box.
CentreCountWhole(extent, km) == Cardinality({k \in 0 .. extent : 2 * km + 2 * k * km <= 2 * extent})

\* The cells along one side: their number, counting centres below the far edge.
CentreCount(extent, km) == Cardinality({k \in 0 .. extent : km + 2 * k * km < 2 * extent})
\* The centre of the cell after the k-th, in half kilometres from the near edge.
Centre(k, km) == km + 2 * k * km

NormalSize(km) == IF km <= 0 THEN 1 ELSE km

\* Row by row, as the two nested loops append them.
GenerateCells(box, size) ==
    LET km == NormalSize(size)
        columns == CentreCount(box.width, km)
    IN  [i \in 1 .. CentreCount(box.height, km) * columns |->
            [lat |-> Centre((i - 1) \div columns, km), lon |-> Centre((i - 1) % columns, km)]]

\* Mutant: the estimate rounds down.
CeilingFloor(extent, km) == extent \div km

Ceiling(extent, km) == (extent + km - 1) \div km
EstimateCellCount(box, size) ==
    LET km == NormalSize(size) IN Ceiling(box.height, km) * Ceiling(box.width, km)

\* The largest preset, Alaska, is 30 cells of 499 km; the second band aims at 50.
ASSUME PresetsAssumption ==
    \A box \in Boxes, band \in 1 .. 4 :
        EstimateCellCount(box, MaxCellKm - 1) <= Targets[band]

-----------------------------------------------------------------------------
(* The plan of a quick search                                              *)

TargetCellCount(intensity) ==
    CASE intensity <= 20 -> 1
      [] intensity \in 21 .. 40 -> Targets[1]
      [] intensity \in 41 .. 60 -> Targets[2]
      [] intensity \in 61 .. 80 -> Targets[3]
      [] OTHER -> Targets[4]

KeywordVariations(intensity) ==
    SubSeq(Variations, 1, CASE intensity <= 20 -> 1
                            [] intensity \in 21 .. 50 -> 2
                            [] intensity \in 51 .. 75 -> 3
                            [] OTHER -> 4)

CellKm(d) == IF d.cellKm <= 0 THEN DefaultCellKm ELSE d.cellKm

\* A quick search over a state has a grid when it aims at more than one cell.
BuildJobData ==
    /\ pc = "form" /\ request.kind = "simple"
    /\ LET gridded == request.box # NoBox /\ TargetCellCount(request.intensity) > 1
       IN  /\ data' = [box    |-> IF gridded THEN request.box ELSE NoBox,
                       cellKm |-> IF gridded THEN DefaultCellKm ELSE 0,
                       lines  |-> KeywordVariations(request.intensity)]
           /\ pc' = IF gridded THEN "planning" ELSE "validating"
    /\ lo' = MinCellKm /\ hi' = MaxCellKm
    /\ UNCHANGED <<request, seeds, feedVars>>

\* Mutant: the search keeps every size it tries.
NarrowKeepsAll ==
    /\ pc = "planning" /\ hi - lo > 1
    /\ LET mid == (lo + hi) \div 2
       IN  /\ IF EstimateCellCount(data.box, mid) > TargetCellCount(request.intensity)
              THEN lo' = mid /\ UNCHANGED hi
              ELSE hi' = mid /\ UNCHANGED lo
           /\ data' = [data EXCEPT !.cellKm = mid]
    /\ UNCHANGED <<request, pc, seeds, feedVars>>

\* One round of GridCellKmForBBox; data.cellKm is the best size so far.
Narrow ==
    /\ pc = "planning" /\ hi - lo > 1
    /\ LET mid == (lo + hi) \div 2
       IN  IF EstimateCellCount(data.box, mid) > TargetCellCount(request.intensity)
           THEN lo' = mid /\ UNCHANGED <<hi, data>>
           ELSE hi' = mid /\ data' = [data EXCEPT !.cellKm = mid] /\ UNCHANGED lo
    /\ UNCHANGED <<request, pc, seeds, feedVars>>

Planned ==
    /\ pc = "planning" /\ hi - lo <= 1
    /\ pc' = "validating"
    /\ UNCHANGED <<request, data, lo, hi, seeds, feedVars>>

\* The full form and the API take the area, the size and the keywords as given.
ParseForm ==
    /\ pc = "form" /\ request.kind = "advanced"
    /\ data' = [box |-> request.box, cellKm |-> request.cellKm, lines |-> request.lines]
    /\ pc' = "validating"
    /\ UNCHANGED <<request, lo, hi, seeds, feedVars>>

\* The command line goes to the run without the web's validation.
ReadFlags ==
    /\ pc = "form" /\ request.kind = "file"
    /\ data' = [box |-> request.box, cellKm |-> request.cellKm, lines |-> request.lines]
    /\ pc' = "seeding"
    /\ UNCHANGED <<request, lo, hi, seeds, feedVars>>

TooLarge(d) == EstimateCellCount(d.box, CellKm(d)) > MaxGridCells

Acceptable ==
    /\ data.lines # <<>>
    /\ request.fast => request.coords
    /\ data.box # NoBox => /\ ~request.fast
                           /\ data.box # BadBox
                           /\ request.zoomOK
                           /\ ~TooLarge(data)

\* JobData.Validate, then the insertion of the job.
Validate ==
    /\ pc = "validating"
    /\ pc' = IF Acceptable THEN "seeding" ELSE "rejected"
    /\ UNCHANGED <<request, data, lo, hi, seeds, feedVars>>

-----------------------------------------------------------------------------
(* The seed jobs                                                           *)

IsQuery(line) == line \in Queries
\* What the reader of the lines keeps; it stops at the first line without text.
ReadQueries(lines) == SelectSeq(lines, IsQuery)
HasBadLine(lines) == \E i \in DOMAIN lines : lines[i] = NoText

\* One job per query and cell, the cells of a query together.
GridSeeds(queries, cells) ==
    [i \in 1 .. Len(queries) * Len(cells) |->
        [query |-> queries[1 + ((i - 1) \div Len(cells))],
         where |-> cells[1 + ((i - 1) % Len(cells))]]]

PlainSeeds(queries) == [i \in DOMAIN queries |-> [query |-> queries[i], where |-> Anywhere]]

\* The file runner passes the size as it is, and has no limit on the cells.
RunCells == GenerateCells(data.box, IF request.kind = "file" THEN data.cellKm ELSE CellKm(data))

GridSeedable ==
    /\ request.kind = "file" => ~request.fast
    /\ data.box # BadBox
    /\ request.kind # "file" => ~TooLarge(data)
    /\ request.zoomOK
    /\ RunCells # <<>>
    /\ ~HasBadLine(data.lines)
    /\ ReadQueries(data.lines) # <<>>

PlainSeedable ==
    /\ request.fast => request.coords /\ request.zoomOK
    /\ ~HasBadLine(data.lines)

SeedsFail ==
    /\ pc = "seeding"
    /\ ~(IF data.box = NoBox THEN PlainSeedable ELSE GridSeedable)
    /\ pc' = "failed"
    /\ UNCHANGED <<request, data, lo, hi, seeds, feedVars>>

CreateGridSeedJobs ==
    /\ pc = "seeding" /\ data.box # NoBox /\ GridSeedable
    /\ seeds' = GridSeeds(ReadQueries(data.lines), RunCells)
    /\ pc' = "scraping"
    /\ UNCHANGED <<request, data, lo, hi, feedVars>>

\* The seeds of fast mode are search jobs, which make no place jobs and use no
\* deduper: they end here.
CreateSeedJobs ==
    /\ pc = "seeding" /\ data.box = NoBox /\ PlainSeedable
    /\ seeds' = PlainSeeds(ReadQueries(data.lines))
    /\ pc' = IF request.fast THEN "done" ELSE "scraping"
    /\ UNCHANGED <<request, data, lo, hi, feedVars>>

-----------------------------------------------------------------------------
(* The feeds, and the deduper the seed jobs of a run share                 *)

runVars == <<request, data, pc, lo, hi>>

\* A worker fetches the next seed.  The search shows a feed, opens a place, which
\* gets a job without the deduper, or fails.
TakeSeed(w) ==
    /\ pc = "scraping" /\ at[w] = NoSeed /\ seeds # <<>>
    /\ at' = [at EXCEPT ![w] = Head(seeds)]
    /\ seeds' = Tail(seeds)
    /\ \/ \E feed \in Feeds : links' = [links EXCEPT ![w] = feed] /\ UNCHANGED opened
       \/ \E p \in Places : opened' = opened \cup {p} /\ UNCHANGED links
       \/ UNCHANGED <<links, opened>>
    /\ UNCHANGED <<runVars, unseen, seen, made>>

\* AddIfNotExists, under the read lock.
LookUp(w) ==
    /\ unseen[w] = NoPlace /\ links[w] # <<>>
    /\ unseen' = [unseen EXCEPT ![w] = IF Head(links[w]) \in seen THEN NoPlace ELSE Head(links[w])]
    /\ links' = [links EXCEPT ![w] = Tail(@)]
    /\ UNCHANGED <<runVars, seeds, at, seen, made, opened>>

\* Mutant: the deduper does not look again under the write lock.
AddUnchecked(w) ==
    /\ unseen[w] # NoPlace
    /\ seen' = seen \cup {unseen[w]}
    /\ made' = [made EXCEPT ![unseen[w]] = @ + 1]
    /\ unseen' = [unseen EXCEPT ![w] = NoPlace]
    /\ UNCHANGED <<runVars, seeds, at, links, opened>>

\* AddIfNotExists, under the write lock: it looks again, and a link that is
\* still absent becomes a place job.
Add(w) ==
    /\ unseen[w] # NoPlace
    /\ seen' = seen \cup {unseen[w]}
    /\ made' = IF unseen[w] \in seen THEN made ELSE [made EXCEPT ![unseen[w]] = @ + 1]
    /\ unseen' = [unseen EXCEPT ![w] = NoPlace]
    /\ UNCHANGED <<runVars, seeds, at, links, opened>>

\* Process returns.
FinishSeed(w) ==
    /\ at[w] # NoSeed /\ links[w] = <<>> /\ unseen[w] = NoPlace
    /\ at' = [at EXCEPT ![w] = NoSeed]
    /\ UNCHANGED <<runVars, seeds, links, unseen, seen, made, opened>>

FeedsEnd ==
    /\ pc = "scraping" /\ seeds = <<>> /\ \A w \in Workers : at[w] = NoSeed
    /\ pc' = "done"
    /\ UNCHANGED <<request, data, lo, hi, seeds, feedVars>>

-----------------------------------------------------------------------------

Init ==
    /\ request \in Requests
    /\ data = [box |-> NoBox, cellKm |-> 0, lines |-> <<>>]
    /\ pc = "form"
    /\ lo = MinCellKm /\ hi = MaxCellKm
    /\ seeds = <<>>
    /\ at = [w \in Workers |-> NoSeed]
    /\ links = [w \in Workers |-> <<>>]
    /\ unseen = [w \in Workers |-> NoPlace]
    /\ seen = {}
    /\ made = [p \in Places |-> 0]
    /\ opened = {}

Next ==
    \/ BuildJobData \/ Narrow \/ Planned \/ ParseForm \/ ReadFlags \/ Validate
    \/ SeedsFail \/ CreateGridSeedJobs \/ CreateSeedJobs \/ FeedsEnd
    \/ \E w \in Workers : TakeSeed(w) \/ LookUp(w) \/ Add(w) \/ FinishSeed(w)

Spec == Init /\ [][Next]_vars

-----------------------------------------------------------------------------
(* Properties                                                              *)

Steps == {"form", "planning", "validating", "rejected", "seeding", "failed", "scraping", "done"}

\* Types of the variables; a seed job is what CreateSeedJobs made it.
TypeOK ==
    /\ request \in Requests
    /\ data \in [box : Boxes \cup {NoBox, BadBox}, cellKm : Int, lines : Seq(Lines)]
    /\ pc \in Steps
    /\ lo \in Nat /\ hi \in Nat
    /\ links \in [Workers -> Seq(Places)]
    /\ unseen \in [Workers -> Places \cup {NoPlace}]
    /\ seen \subseteq Places
    /\ made \in [Places -> Nat]
    /\ opened \subseteq Places

Web == request.kind # "file"
Gridded == data.box \in Boxes
Fits(km) == EstimateCellCount(data.box, km) <= TargetCellCount(request.intensity)

\* The limit on a grid is checked against an estimate and the cells come from
\* another computation: a web run still never searches more than 900 of them.
GridIsBounded ==
    Web /\ Gridded /\ pc = "scraping" => Len(RunCells) <= MaxGridCells

\* A quick search is never told that the grid it chose itself is too large: the
\* search for a cell size ends at one that aims at no more cells than asked,
\* and a size 1 km smaller would not do (or the smallest size does).
PlanIsAccepted ==
    request.kind = "simple" =>
        /\ pc # "rejected"
        /\ Gridded /\ pc = "validating" =>
               /\ Fits(data.cellKm)
               /\ Fits(data.cellKm - 1) => data.cellKm = MinCellKm + 1

\* The cells of a grid leave no part of the box further than one cell from the
\* centre of a search, whatever the remainder of the division.
GridCovers ==
    Gridded /\ pc = "seeding" /\ RunCells # <<>> =>
        LET km == NormalSize(IF Web THEN CellKm(data) ELSE data.cellKm)
            Near(point, centre) == point - centre <= 2 * km /\ centre - point <= 2 * km
        IN  \A lat \in 0 .. 2 * data.box.height, lon \in 0 .. 2 * data.box.width :
               \E i \in DOMAIN RunCells : Near(lat, RunCells[i].lat) /\ Near(lon, RunCells[i].lon)

\* However the workers that share the deduper interleave, a link found in any
\* number of feeds gives one place job, and a link the deduper holds has it.
OneJobPerLink == \A p \in Places : made[p] = IF p \in seen THEN 1 ELSE 0

=============================================================================

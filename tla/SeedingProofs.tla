---------------------------- MODULE SeedingProofs ----------------------------
(***************************************************************************)
(* Seed jobs for any boxes, limits, requests and workers: the cells of a    *)
(* grid cover its box and are never more than its estimate, so the limit    *)
(* checked against the estimate bounds the cells; and the deduper's two      *)
(* looks give each link at most one place job.                              *)
(***************************************************************************)
EXTENDS Seeding, FiniteSetTheorems, TLAPS

\* The estimate of a grid that is searched from the web is within the limit.
LimitInv == Web /\ Gridded /\ pc = "scraping" => ~TooLarge(data)

\* The search for a cell size: sizes up to lo give too many cells, hi does not.
SearchInv ==
    /\ Gridded
    /\ TargetCellCount(request.intensity) > 1
    /\ MinCellKm <= lo /\ lo < hi /\ hi <= MaxCellKm
    /\ lo = MinCellKm \/ ~Fits(lo)
    /\ hi = MaxCellKm \/ (Fits(hi) /\ data.cellKm = hi)

PlanInv ==
    request.kind = "simple" =>
        /\ pc # "rejected"
        /\ pc \in {"planning", "validating"} => data.lines # <<>>
        /\ pc = "planning" => SearchInv
        /\ pc = "validating" =>
              \/ data.box = NoBox
              \/ /\ Gridded /\ data.cellKm > 0
                 /\ Fits(data.cellKm)
                 /\ Fits(data.cellKm - 1) => data.cellKm = MinCellKm + 1

IInv == TypeOK /\ LimitInv /\ PlanInv /\ OneJobPerLink

-----------------------------------------------------------------------------
(* The grid                                                                *)

\* Division rounded up: the smallest multiple of km that reaches the extent.
LEMMA CeilingType ==
    ASSUME NEW extent \in Nat \ {0}, NEW km \in Nat \ {0}
    PROVE  Ceiling(extent, km) \in Nat /\ extent <= Ceiling(extent, km) * km
BY Z3 DEF Ceiling

\* The centres along a side are at most the extent divided by the cell size,
\* rounded up: the k-th centre lies beyond k whole cells.
LEMMA CentresWithinCeiling ==
    ASSUME NEW extent \in Nat \ {0}, NEW km \in Nat \ {0}
    PROVE  /\ CentreCount(extent, km) \in Nat
           /\ CentreCount(extent, km) <= Ceiling(extent, km)
<1> DEFINE ks == {k \in 0 .. extent : km + 2 * k * km < 2 * extent}
           c == Ceiling(extent, km)
<1>1. c \in Nat /\ extent <= c * km
    BY CeilingType
<1>2. ks \subseteq 0 .. (c - 1)
    <2> SUFFICES ASSUME NEW k \in ks PROVE k \in 0 .. (c - 1)
        OBVIOUS
    <2>1. k \in Nat /\ km + 2 * k * km < 2 * extent
        OBVIOUS
    <2> HIDE DEF ks, c
    <2>2. k * km \in Nat /\ c * km \in Nat /\ km + 2 * (k * km) < 2 * (c * km)
        BY <2>1, <1>1, Z3
    <2>3. k * km < c * km
        BY <2>2
    <2>4. k < c
        <3>1. SUFFICES ASSUME c <= k PROVE FALSE
            BY <2>1, <1>1
        <3>2. c * km <= k * km
            BY <3>1, <2>1, <1>1, Z3
        <3> QED BY <3>2, <2>2, <2>3
    <2> QED BY <2>1, <2>4, <1>1
<1>3. IsFiniteSet(0 .. (c - 1)) /\ Cardinality(0 .. (c - 1)) = c
    <2>1. 0 \in Int /\ c - 1 \in Int
        BY <1>1
    <2>2. IsFiniteSet(0 .. (c - 1))
          /\ Cardinality(0 .. (c - 1)) = IF 0 > c - 1 THEN 0 ELSE (c - 1) - 0 + 1
        BY <2>1, FS_Interval
    <2> HIDE DEF c
    <2> QED BY <2>2, <1>1
<1>4. Cardinality(ks) <= Cardinality(0 .. (c - 1)) /\ IsFiniteSet(ks)
    BY <1>2, <1>3, FS_Subset
<1>5. Cardinality(ks) \in Nat
    BY <1>4, FS_CardinalityType
<1> QED BY <1>3, <1>4, <1>5 DEF CentreCount

\* For any box and cell size the cells generated are at most the estimate: a
\* limit on the estimate is a limit on the searches.
THEOREM CellsWithinEstimate ==
    ASSUME NEW box \in Boxes, NEW size \in Int
    PROVE  /\ Len(GenerateCells(box, size)) \in Nat
           /\ EstimateCellCount(box, size) \in Nat
           /\ Len(GenerateCells(box, size)) <= EstimateCellCount(box, size)
<1> DEFINE km == NormalSize(size)
           rows == CentreCount(box.height, km)
           columns == CentreCount(box.width, km)
           high == Ceiling(box.height, km)
           wide == Ceiling(box.width, km)
<1>1. km \in Nat \ {0}
    BY DEF NormalSize
<1>2. box.height \in Nat \ {0} /\ box.width \in Nat \ {0}
    BY BoxesAssumption
<1>3. /\ rows \in Nat /\ rows <= high /\ high \in Nat
      /\ columns \in Nat /\ columns <= wide /\ wide \in Nat
    BY <1>1, <1>2, CentresWithinCeiling, CeilingType
<1>4. Len(GenerateCells(box, size)) = rows * columns
    <2>1. rows * columns \in Nat
        BY <1>3
    <2> HIDE DEF rows, columns
    <2>2. ASSUME NEW F(_) PROVE Len([i \in 1 .. rows * columns |-> F(i)]) = rows * columns
        BY <2>1
    <2> USE DEF rows, columns
    <2> QED BY <2>1, <2>2 DEF GenerateCells
<1>5. EstimateCellCount(box, size) = high * wide
    BY DEF EstimateCellCount
<1>6. rows * columns \in Nat /\ high * wide \in Nat /\ rows * columns <= high * wide
    <2> HIDE DEF rows, columns, high, wide
    <2>1. rows * columns <= high * columns
        BY <1>3, Z3
    <2>2. high * columns <= high * wide
        BY <1>3, Z3
    <2>3. rows * columns \in Nat /\ high * columns \in Nat /\ high * wide \in Nat
        BY <1>3
    <2> QED BY <2>1, <2>2, <2>3
<1> QED BY <1>4, <1>5, <1>6

-----------------------------------------------------------------------------
(* The plan                                                                *)

\* Every band aims at no more cells than the limit allows.
LEMMA TargetType ==
    ASSUME NEW intensity \in Int
    PROVE  /\ TargetCellCount(intensity) \in Nat
           /\ TargetCellCount(intensity) <= MaxGridCells
           /\ TargetCellCount(intensity) > 1 =>
                 \E band \in 1 .. 4 : TargetCellCount(intensity) = Targets[band]
BY SizesAssumption DEF TargetCellCount

\* A business gives at least one keyword, and keywords are query texts.
LEMMA KeywordsType ==
    ASSUME NEW intensity \in Int
    PROVE  KeywordVariations(intensity) \in Seq(Lines) /\ KeywordVariations(intensity) # <<>>
<1> DEFINE n == CASE intensity <= 20 -> 1
                  [] intensity \in 21 .. 50 -> 2
                  [] intensity \in 51 .. 75 -> 3
                  [] OTHER -> 4
<1>1. n \in 1 .. 4
    OBVIOUS
<1>2. Variations \in Seq(Lines) /\ Len(Variations) >= 4
    BY VariationsAssumption DEF Lines
<1> HIDE DEF n
<1>3. SubSeq(Variations, 1, n) \in Seq(Lines) /\ Len(SubSeq(Variations, 1, n)) = n
    BY <1>1, <1>2
<1>4. SubSeq(Variations, 1, n) # <<>>
    <2>1. Len(<<>>) = 0
        OBVIOUS
    <2>2. SUFFICES ASSUME SubSeq(Variations, 1, n) = <<>> PROVE FALSE
        OBVIOUS
    <2>3. Len(SubSeq(Variations, 1, n)) = 0
        BY <2>1, <2>2, Zenon
    <2> QED BY <1>1, <1>3, <2>3
<1>5. KeywordVariations(intensity) = SubSeq(Variations, 1, n)
    BY Zenon DEF KeywordVariations, n
<1> QED BY <1>3, <1>4, <1>5

\* A request starts the search between the smallest and the largest cell.
LEMMA BuildJobDataPlans ==
    ASSUME TypeOK, BuildJobData
    PROVE  PlanInv'
<1>1. /\ request \in Requests /\ request.kind = "simple" /\ request' = request
      /\ request.intensity \in Int
    BY RequestsAssumption DEF TypeOK, BuildJobData
<1> DEFINE gridded == request.box # NoBox /\ TargetCellCount(request.intensity) > 1
<1>2. /\ data'.box = IF gridded THEN request.box ELSE NoBox
      /\ data'.lines = KeywordVariations(request.intensity)
      /\ pc' = IF gridded THEN "planning" ELSE "validating"
      /\ lo' = MinCellKm /\ hi' = MaxCellKm
    BY DEF BuildJobData
<1>3. data'.lines # <<>>
    BY <1>1, <1>2, KeywordsType
<1>4. CASE gridded
    <2>1. request.box \in Boxes
        BY <1>1, <1>4, RequestsAssumption
    <2>2. SearchInv'
        BY <1>1, <1>2, <1>4, <2>1, SizesAssumption DEF SearchInv, Gridded
    <2> QED BY <1>2, <1>3, <1>4, <2>2 DEF PlanInv
<1>5. CASE ~gridded
    BY <1>2, <1>3, <1>5 DEF PlanInv
<1> QED BY <1>4, <1>5

\* A round moves one bound to the middle and keeps the search between them.
LEMMA NarrowSearches ==
    ASSUME TypeOK, PlanInv, Narrow
    PROVE  PlanInv'
<1> SUFFICES ASSUME request.kind = "simple" PROVE PlanInv'
    BY DEF PlanInv, Narrow
<1> DEFINE mid == (lo + hi) \div 2
<1>1. /\ pc = "planning" /\ hi - lo > 1 /\ pc' = "planning" /\ request' = request
      /\ data.lines # <<>> /\ SearchInv
    BY DEF Narrow, PlanInv
<1>2. lo \in Nat /\ hi \in Nat /\ mid \in Nat /\ lo < mid /\ mid < hi
    BY <1>1 DEF TypeOK
<1>3. data \in [box : Boxes \cup {NoBox, BadBox}, cellKm : Int, lines : Seq(Lines)]
    BY DEF TypeOK
<1>4. CASE ~Fits(mid)
    <2>1. lo' = mid /\ hi' = hi /\ data' = data
        <3>1. EstimateCellCount(data.box, mid) \in Nat
            BY <1>1, <1>2, CellsWithinEstimate DEF SearchInv, Gridded
        <3>2. TargetCellCount(request.intensity) \in Nat
            BY <1>1, TargetType, RequestsAssumption DEF TypeOK
        <3>3. EstimateCellCount(data.box, mid) > TargetCellCount(request.intensity)
            BY <1>4, <3>1, <3>2 DEF Fits
        <3> QED BY <3>3 DEF Narrow
    <2>2. SearchInv'
        BY <1>1, <1>2, <1>4, <2>1, SizesAssumption DEF SearchInv, Gridded, Fits
    <2> QED BY <1>1, <2>1, <2>2 DEF PlanInv
<1>5. CASE Fits(mid)
    <2>1. lo' = lo /\ hi' = mid /\ data' = [data EXCEPT !.cellKm = mid]
        <3>1. EstimateCellCount(data.box, mid) \in Nat
            BY <1>1, <1>2, CellsWithinEstimate DEF SearchInv, Gridded
        <3>2. TargetCellCount(request.intensity) \in Nat
            BY <1>1, TargetType, RequestsAssumption DEF TypeOK
        <3>3. ~(EstimateCellCount(data.box, mid) > TargetCellCount(request.intensity))
            BY <1>5, <3>1, <3>2 DEF Fits
        <3> QED BY <3>3 DEF Narrow
    <2>2. data'.box = data.box /\ data'.cellKm = mid /\ data'.lines = data.lines
        BY <1>3, <2>1
    <2>3. SearchInv'
        BY <1>1, <1>2, <1>5, <2>1, <2>2, SizesAssumption DEF SearchInv, Gridded, Fits
    <2> QED BY <1>1, <2>2, <2>3 DEF PlanInv
<1> QED BY <1>4, <1>5

\* When the bounds meet, hi fits and lo does not: the largest preset fits at the
\* last size the search can try.
LEMMA PlannedPlans ==
    ASSUME TypeOK, PlanInv, Planned
    PROVE  PlanInv'
<1> SUFFICES ASSUME request.kind = "simple" PROVE PlanInv'
    BY DEF PlanInv, Planned
<1>1. /\ pc = "planning" /\ hi - lo <= 1 /\ pc' = "validating"
      /\ request' = request /\ data' = data
      /\ data.lines # <<>> /\ SearchInv
    BY DEF Planned, PlanInv
<1>2. lo \in Nat /\ hi \in Nat /\ hi = lo + 1 /\ lo = hi - 1
    BY <1>1 DEF TypeOK, SearchInv
<1>3. Fits(MaxCellKm - 1)
    <2>1. request.intensity \in Int
        BY RequestsAssumption DEF TypeOK
    <2>2. PICK band \in 1 .. 4 : TargetCellCount(request.intensity) = Targets[band]
        BY <1>1, <2>1, TargetType DEF SearchInv
    <2> QED BY <1>1, <2>2, PresetsAssumption DEF SearchInv, Gridded, Fits
<1>4. hi # MaxCellKm
    BY <1>1, <1>2, <1>3, SizesAssumption DEF SearchInv
<1>5. Gridded /\ Fits(hi) /\ data.cellKm = hi /\ data.cellKm > 0
    BY <1>1, <1>2, <1>4, SizesAssumption DEF SearchInv
<1>6. Fits(data.cellKm - 1) => data.cellKm = MinCellKm + 1
    BY <1>1, <1>2, <1>5 DEF SearchInv
<1>7. Gridded' /\ Fits(data.cellKm)' /\ (Fits(data.cellKm - 1) => data.cellKm = MinCellKm + 1)'
    BY <1>1, <1>5, <1>6 DEF Gridded, Fits
<1> QED BY <1>1, <1>5, <1>7 DEF PlanInv

\* What the search chose passes the validation.
LEMMA ValidateAccepts ==
    ASSUME TypeOK, PlanInv, Validate
    PROVE  PlanInv'
<1> SUFFICES ASSUME request.kind = "simple" PROVE pc' # "rejected" /\ pc' = "seeding"
    BY DEF PlanInv, Validate
<1>1. request.intensity \in Int /\ ~request.fast /\ request.zoomOK
    BY RequestsAssumption DEF TypeOK
<1>2. data.lines # <<>>
    BY DEF PlanInv, Validate
<1>3. data.box # NoBox => data.box # BadBox /\ ~TooLarge(data)
    <2> SUFFICES ASSUME data.box # NoBox PROVE data.box # BadBox /\ ~TooLarge(data)
        OBVIOUS
    <2>1. data.box \in Boxes /\ data.cellKm \in Int /\ data.cellKm > 0 /\ Fits(data.cellKm)
        BY DEF PlanInv, Validate, Gridded, TypeOK
    <2>2. CellKm(data) = data.cellKm
        BY <2>1 DEF CellKm
    <2>3. EstimateCellCount(data.box, data.cellKm) \in Nat
        BY <2>1, CellsWithinEstimate
    <2>4. /\ TargetCellCount(request.intensity) \in Nat
          /\ TargetCellCount(request.intensity) <= MaxGridCells
        BY <1>1, TargetType
    <2>5. ~TooLarge(data)
        BY <2>1, <2>2, <2>3, <2>4, SizesAssumption DEF TooLarge, Fits
    <2> QED BY <2>1, <2>5, BoxesAssumption
<1>4. Acceptable
    BY <1>1, <1>2, <1>3 DEF Acceptable
<1> QED BY <1>4 DEF Validate

-----------------------------------------------------------------------------
(* Every step keeps the invariant                                          *)

LEMMA InitIInv == Init => IInv
BY SizesAssumption DEF Init, IInv, TypeOK, Steps, LimitInv, PlanInv, OneJobPerLink

LEMMA TypeStep ==
    ASSUME TypeOK, [Next]_vars
    PROVE  TypeOK'
<1> USE DEF TypeOK, Steps
<1>1. CASE BuildJobData
    <2>1. request.intensity \in Int /\ request.box \in Boxes \cup {NoBox, BadBox}
        BY <1>1, RequestsAssumption DEF BuildJobData
    <2>2. KeywordVariations(request.intensity) \in Seq(Lines)
        BY <2>1, KeywordsType
    <2>3. data' \in [box : Boxes \cup {NoBox, BadBox}, cellKm : Int, lines : Seq(Lines)]
        BY <1>1, <2>1, <2>2, SizesAssumption DEF BuildJobData
    <2> QED BY <1>1, <2>3, SizesAssumption DEF BuildJobData, feedVars
<1>2. CASE Narrow
    <2> DEFINE mid == (lo + hi) \div 2
    <2>1. mid \in Nat
        OBVIOUS
    <2> HIDE DEF mid
    <2>2. /\ lo' \in {lo, mid} /\ hi' \in {hi, mid}
          /\ data' = data \/ data' = [data EXCEPT !.cellKm = mid]
          /\ UNCHANGED <<request, pc, links, unseen, seen, made, opened>>
        BY <1>2, Zenon DEF Narrow, feedVars, mid
    <2>3. data' \in [box : Boxes \cup {NoBox, BadBox}, cellKm : Int, lines : Seq(Lines)]
        BY <2>1, <2>2
    <2> QED BY <2>1, <2>2, <2>3
<1>3. CASE Planned
    BY <1>3 DEF Planned, feedVars
<1>4. CASE ParseForm \/ ReadFlags
    BY <1>4, RequestsAssumption DEF ParseForm, ReadFlags, feedVars
<1>5. CASE Validate \/ SeedsFail \/ CreateGridSeedJobs \/ CreateSeedJobs
    BY <1>5 DEF Validate, SeedsFail, CreateGridSeedJobs, CreateSeedJobs, feedVars
<1>6. ASSUME NEW w \in Workers, TakeSeed(w) PROVE TypeOK'
    BY <1>6, FeedsAssumption DEF TakeSeed, runVars
<1>7. ASSUME NEW w \in Workers, LookUp(w) PROVE TypeOK'
    <2>1. links[w] \in Seq(Places) /\ links[w] # <<>>
        BY <1>7 DEF LookUp
    <2>2. Head(links[w]) \in Places /\ Tail(links[w]) \in Seq(Places)
        BY <2>1
    <2> QED BY <1>7, <2>2 DEF LookUp, runVars
<1>8. ASSUME NEW w \in Workers, Add(w) PROVE TypeOK'
    <2>1. unseen[w] \in Places
        BY <1>8 DEF Add
    <2> QED BY <1>8, <2>1 DEF Add, runVars
<1>9. ASSUME NEW w \in Workers, FinishSeed(w) PROVE TypeOK'
    BY <1>9 DEF FinishSeed, runVars
<1>10. CASE FeedsEnd
    BY <1>10 DEF FeedsEnd, feedVars
<1>11. CASE UNCHANGED vars
    BY <1>11 DEF vars
<1> QED BY <1>1, <1>2, <1>3, <1>4, <1>5, <1>6, <1>7, <1>8, <1>9, <1>10, <1>11 DEF Next

\* A run starts to scrape a grid only after the limit was checked, and its data
\* do not change from then on.
LEMMA LimitStep ==
    ASSUME TypeOK, LimitInv, [Next]_vars
    PROVE  LimitInv'
<1>1. CASE pc' # "scraping"
    BY <1>1 DEF LimitInv
<1>2. CASE pc = "scraping" /\ UNCHANGED <<request, data>>
    BY <1>2 DEF LimitInv, Web, Gridded, TooLarge, CellKm
<1>3. CASE CreateGridSeedJobs
    BY <1>3 DEF CreateGridSeedJobs, GridSeedable, LimitInv, Web, Gridded, TooLarge, CellKm
<1>4. CASE CreateSeedJobs
    BY <1>4, BoxesAssumption DEF CreateSeedJobs, LimitInv, Gridded
<1>5. \/ pc' # "scraping"
      \/ pc = "scraping" /\ UNCHANGED <<request, data>>
      \/ CreateGridSeedJobs \/ CreateSeedJobs
    BY DEF Next, vars, runVars, BuildJobData, Narrow, Planned, ParseForm, ReadFlags, Validate,
           SeedsFail, FeedsEnd, TakeSeed, LookUp, Add, FinishSeed
<1> QED BY <1>1, <1>2, <1>3, <1>4, <1>5

LEMMA PlanStep ==
    ASSUME TypeOK, PlanInv, [Next]_vars
    PROVE  PlanInv'
<1>1. CASE BuildJobData \/ Narrow \/ Planned \/ Validate
    BY <1>1, BuildJobDataPlans, NarrowSearches, PlannedPlans, ValidateAccepts
<1>2. CASE request' = request /\ pc' \in Steps \ {"planning", "validating", "rejected"}
    BY <1>2 DEF PlanInv, Steps
<1>3. CASE request.kind # "simple" /\ request' = request
    BY <1>3 DEF PlanInv
<1>4. CASE UNCHANGED <<request, pc, data, lo, hi>>
    BY <1>4 DEF PlanInv, SearchInv, Gridded, Fits
<1>5. \/ BuildJobData \/ Narrow \/ Planned \/ Validate
      \/ request' = request /\ pc' \in Steps \ {"planning", "validating", "rejected"}
      \/ request.kind # "simple" /\ request' = request
      \/ UNCHANGED <<request, pc, data, lo, hi>>
    BY DEF Next, vars, runVars, Steps, ParseForm, ReadFlags, SeedsFail, CreateGridSeedJobs,
           CreateSeedJobs, FeedsEnd, TakeSeed, LookUp, Add, FinishSeed
<1> QED BY <1>1, <1>2, <1>3, <1>4, <1>5

\* Only Add makes a place job, and it looks at the deduper again first.
LEMMA OneJobStep ==
    ASSUME TypeOK, OneJobPerLink, [Next]_vars
    PROVE  OneJobPerLink'
<1>1. ASSUME NEW w \in Workers, Add(w) PROVE OneJobPerLink'
    <2>1. unseen[w] \in Places /\ made \in [Places -> Nat]
        BY <1>1 DEF Add, TypeOK
    <2> QED BY <1>1, <2>1 DEF Add, OneJobPerLink
<1>2. CASE UNCHANGED <<seen, made>>
    BY <1>2 DEF OneJobPerLink
<1>3. UNCHANGED <<seen, made>> \/ \E w \in Workers : Add(w)
    BY DEF Next, vars, feedVars, BuildJobData, Narrow, Planned, ParseForm, ReadFlags, Validate,
           SeedsFail, CreateGridSeedJobs, CreateSeedJobs, FeedsEnd, TakeSeed, LookUp, FinishSeed
<1> QED BY <1>1, <1>2, <1>3

LEMMA Invariance == Spec => []IInv
<1>1. IInv /\ [Next]_vars => IInv'
    BY TypeStep, LimitStep, PlanStep, OneJobStep DEF IInv
<1> QED BY InitIInv, <1>1, PTL DEF Spec

-----------------------------------------------------------------------------

\* Type correctness.
THEOREM TypeCorrect == Spec => []TypeOK
<1>1. IInv => TypeOK
    BY DEF IInv
<1> QED BY Invariance, <1>1, PTL

\* A web run never searches more cells than the limit, which its data are
\* checked against through the estimate.
THEOREM GridBounded == Spec => []GridIsBounded
<1>1. IInv => GridIsBounded
    <2> SUFFICES ASSUME TypeOK, LimitInv, Web, Gridded, pc = "scraping"
                 PROVE  Len(RunCells) <= MaxGridCells
        BY DEF IInv, GridIsBounded
    <2>1. CellKm(data) \in Int
        BY SizesAssumption DEF TypeOK, CellKm
    <2>2. RunCells = GenerateCells(data.box, CellKm(data))
        BY DEF RunCells, Web
    <2>3. /\ Len(RunCells) \in Nat
          /\ EstimateCellCount(data.box, CellKm(data)) \in Nat
          /\ Len(RunCells) <= EstimateCellCount(data.box, CellKm(data))
        BY <2>1, <2>2, CellsWithinEstimate DEF Gridded
    <2>4. ~(EstimateCellCount(data.box, CellKm(data)) > MaxGridCells)
        BY DEF LimitInv, TooLarge
    <2> QED BY <2>3, <2>4, SizesAssumption
<1> QED BY Invariance, <1>1, PTL

\* The grid that a quick search chooses is accepted, and is as fine as the number
\* of cells it aims at allows.
THEOREM PlanAccepted == Spec => []PlanIsAccepted
<1>1. IInv => PlanIsAccepted
    BY BoxesAssumption DEF IInv, PlanInv, PlanIsAccepted, Gridded
<1> QED BY Invariance, <1>1, PTL

\* Workers that share the deduper never give a link two place jobs.
THEOREM OneJob == Spec => []OneJobPerLink
<1>1. IInv => OneJobPerLink
    BY DEF IInv
<1> QED BY Invariance, <1>1, PTL

-----------------------------------------------------------------------------
(* The cells cover the box                                                 *)

\* The centres along a side are an initial segment: they end at the far edge.
LEMMA CentreCounted ==
    ASSUME NEW extent \in Nat \ {0}, NEW km \in Nat \ {0},
           NEW k \in 0 .. extent, Centre(k, km) < 2 * extent
    PROVE  k < CentreCount(extent, km)
<1> DEFINE ks == {n \in 0 .. extent : km + 2 * n * km < 2 * extent}
<1>1. 0 .. k \subseteq ks
    <2> SUFFICES ASSUME NEW n \in 0 .. k PROVE n \in ks
        OBVIOUS
    <2>1. n \in 0 .. extent
        OBVIOUS
    <2>2. n * km <= k * km /\ n * km \in Nat /\ k * km \in Nat
        BY Z3
    <2>3. 2 * n * km = 2 * (n * km) /\ 2 * k * km = 2 * (k * km)
        BY Z3
    <2>4. km + 2 * (k * km) < 2 * extent
        BY <2>3 DEF Centre
    <2>5. km + 2 * (n * km) < 2 * extent
        <3> DEFINE a == n * km
                   b == k * km
        <3> HIDE DEF a, b
        <3>1. a \in Nat /\ b \in Nat /\ a <= b /\ km + 2 * b < 2 * extent
            BY <2>2, <2>4 DEF a, b
        <3>2. km + 2 * a < 2 * extent
            BY <3>1
        <3> QED BY <3>2 DEF a
    <2> QED BY <2>1, <2>3, <2>5
<1>2. IsFiniteSet(0 .. extent) /\ ks \in SUBSET (0 .. extent)
    <2>1. 0 \in Int /\ extent \in Int
        OBVIOUS
    <2>2. IsFiniteSet(0 .. extent)
        BY <2>1, FS_Interval
    <2> QED BY <2>2
<1>3. IsFiniteSet(ks) /\ Cardinality(ks) \in Nat
    BY <1>2, FS_Subset, FS_CardinalityType
<1>4. Cardinality(0 .. k) = k + 1
    BY FS_Interval
<1>5. Cardinality(0 .. k) <= Cardinality(ks)
    BY <1>1, <1>3, FS_Subset
<1>6. CentreCount(extent, km) = Cardinality(ks)
    BY DEF CentreCount
<1> HIDE DEF ks
<1> QED BY <1>3, <1>4, <1>5, <1>6

\* A side that has a centre at all has one within a cell of every point: the one
\* of the point's own cell, or of the cell before if that lies beyond the edge.
LEMMA SideCovered ==
    ASSUME NEW extent \in Nat \ {0}, NEW km \in Nat \ {0},
           CentreCount(extent, km) # 0, NEW point \in 0 .. 2 * extent
    PROVE  \E k \in 0 .. CentreCount(extent, km) - 1 :
              /\ point - Centre(k, km) <= 2 * km
              /\ Centre(k, km) - point <= 2 * km
<1> DEFINE q == point \div (2 * km)
           x == q * km
<1>0. CentreCount(extent, km) \in Nat
    BY CentresWithinCeiling
<1>1. q \in Nat /\ 2 * km * q <= point /\ point < 2 * km * q + 2 * km
    <2> DEFINE d == 2 * km
    <2>1. d \in Nat \ {0} /\ point \in Nat
        OBVIOUS
    <2> HIDE DEF d
    <2>2. point \div d \in Nat /\ d * (point \div d) <= point /\ point < d * (point \div d) + d
        BY <2>1, Z3
    <2> QED BY <2>2 DEF d
<1>2. x \in Nat /\ 2 * km * q = 2 * x /\ Centre(q, km) = km + 2 * x
    <2> HIDE DEF q
    <2> QED BY <1>1, Z3 DEF Centre
<1>3. q <= x
    <2> HIDE DEF q
    <2> QED BY <1>1, Z3
<1> HIDE DEF q, x
<1>4. 2 * x <= point /\ point < 2 * x + 2 * km /\ q \in 0 .. extent
    BY <1>1, <1>2, <1>3
<1>5. CASE km + 2 * x < 2 * extent
    <2>1. q < CentreCount(extent, km)
        BY <1>2, <1>4, <1>5, CentreCounted
    <2>2. point - Centre(q, km) <= 2 * km /\ Centre(q, km) - point <= 2 * km
        BY <1>2, <1>4
    <2> QED BY <1>0, <1>1, <2>1, <2>2
<1>6. CASE ~(km + 2 * x < 2 * extent)
    <2>1. q # 0
        <3>1. SUFFICES ASSUME q = 0 PROVE FALSE
            OBVIOUS
        <3>2. x = 0
            BY <3>1 DEF x
        <3>3. \A k \in 0 .. extent : ~(km + 2 * k * km < 2 * extent)
            <4> SUFFICES ASSUME NEW k \in 0 .. extent PROVE ~(km + 2 * k * km < 2 * extent)
                OBVIOUS
            <4>1. 2 * k * km \in Nat
                BY Z3
            <4> QED BY <1>6, <3>2, <4>1
        <3>4. {k \in 0 .. extent : km + 2 * k * km < 2 * extent} = {}
            BY <3>3
        <3> QED BY <3>4, FS_EmptySet DEF CentreCount
    <2>2. q - 1 \in 0 .. extent /\ Centre(q - 1, km) = 2 * x - km
        <3>1. (q - 1) * km = x - km
            BY <1>1, <2>1, Z3 DEF x
        <3>2. 2 * (q - 1) * km = 2 * ((q - 1) * km)
            BY <1>1, Z3
        <3> QED BY <1>2, <1>4, <2>1, <3>1, <3>2 DEF Centre
    <2>3. q - 1 < CentreCount(extent, km)
        <3>1. Centre(q - 1, km) < 2 * extent
            BY <1>2, <1>4, <2>2
        <3> QED BY <2>2, <3>1, CentreCounted
    <2>4. point - Centre(q - 1, km) <= 2 * km /\ Centre(q - 1, km) - point <= 2 * km
        BY <1>2, <1>4, <1>6, <2>2
    <2> QED BY <1>0, <1>1, <2>1, <2>3, <2>4
<1> QED BY <1>5, <1>6

\* The cell of a row and a column.
LEMMA RowColumn ==
    ASSUME NEW columns \in Nat \ {0}, NEW r \in Nat, NEW c \in 0 .. columns - 1
    PROVE  (r * columns + c) \div columns = r /\ (r * columns + c) % columns = c
BY Z3

\* Whatever the remainder of the division of the box by the cell size.
THEOREM CellsCover ==
    ASSUME NEW box \in Boxes, NEW size \in Int, GenerateCells(box, size) # <<>>,
           NEW lat \in 0 .. 2 * box.height, NEW lon \in 0 .. 2 * box.width
    PROVE  \E i \in DOMAIN GenerateCells(box, size) :
              /\ lat - GenerateCells(box, size)[i].lat <= 2 * NormalSize(size)
              /\ GenerateCells(box, size)[i].lat - lat <= 2 * NormalSize(size)
              /\ lon - GenerateCells(box, size)[i].lon <= 2 * NormalSize(size)
              /\ GenerateCells(box, size)[i].lon - lon <= 2 * NormalSize(size)
<1> DEFINE km == NormalSize(size)
           rows == CentreCount(box.height, km)
           columns == CentreCount(box.width, km)
           cell(i) == [lat |-> Centre((i - 1) \div columns, km), lon |-> Centre((i - 1) % columns, km)]
<1>1. km \in Nat \ {0} /\ box.height \in Nat \ {0} /\ box.width \in Nat \ {0}
    BY BoxesAssumption DEF NormalSize
<1>2. rows \in Nat /\ columns \in Nat
    BY <1>1, CentresWithinCeiling
<1>3. GenerateCells(box, size) = [i \in 1 .. rows * columns |-> cell(i)]
    BY DEF GenerateCells
<1>4. rows # 0 /\ columns # 0
    <2>1. SUFFICES ASSUME rows * columns = 0 PROVE FALSE
        BY <1>2
    <2> HIDE DEF rows, columns, km
    <2>2. 1 .. rows * columns = {}
        BY <2>1
    <2>3. [i \in 1 .. rows * columns |-> cell(i)] = <<>>
        BY <2>2
    <2> QED BY <1>3, <2>3
<1> HIDE DEF rows, columns
<1>5. PICK r \in 0 .. rows - 1 : lat - Centre(r, km) <= 2 * km /\ Centre(r, km) - lat <= 2 * km
    BY <1>1, <1>4, SideCovered DEF rows
<1>6. PICK c \in 0 .. columns - 1 : lon - Centre(c, km) <= 2 * km /\ Centre(c, km) - lon <= 2 * km
    BY <1>1, <1>4, SideCovered DEF columns
<1> DEFINE i == r * columns + c + 1
<1>7. i \in 1 .. rows * columns
    <2>1. r * columns \in Nat /\ rows * columns \in Nat /\ r * columns + columns <= rows * columns
        <3>1. (r + 1) * columns <= rows * columns
            BY <1>2, <1>5, Z3
        <3>2. (r + 1) * columns = r * columns + columns
            BY <1>2, <1>5, Z3
        <3> QED BY <1>2, <1>5, <3>1, <3>2, Z3
    <2> QED BY <1>2, <1>6, <2>1
<1>8. (i - 1) \div columns = r /\ (i - 1) % columns = c
    <2>1. i - 1 = r * columns + c
        <3>1. r * columns \in Nat
            BY <1>2, <1>5, Z3
        <3> QED BY <1>2, <1>6, <3>1
    <2>2. columns \in Nat \ {0} /\ r \in Nat
        BY <1>2, <1>4, <1>5
    <2> QED BY <1>6, <2>1, <2>2, RowColumn
<1>9. cell(i).lat = Centre(r, km) /\ cell(i).lon = Centre(c, km)
    BY <1>8
<1> HIDE DEF i, cell
<1>10. i \in DOMAIN GenerateCells(box, size) /\ GenerateCells(box, size)[i] = cell(i)
    BY <1>3, <1>7
<1> QED BY <1>5, <1>6, <1>9, <1>10

\* The searches of a grid leave no part of its box further than one cell from
\* the centre of one of them.
THEOREM GridCovered == Spec => []GridCovers
<1>1. IInv => GridCovers
    <2> SUFFICES ASSUME TypeOK, Gridded, RunCells # <<>>
                 PROVE  GridCovers
        BY DEF IInv, GridCovers
    <2> DEFINE size == IF Web THEN CellKm(data) ELSE data.cellKm
    <2>1. size \in Int
        BY SizesAssumption DEF TypeOK, CellKm
    <2>2. RunCells = GenerateCells(data.box, size)
        BY DEF RunCells, Web
    <2>3. data.box \in Boxes
        BY DEF Gridded
    <2> HIDE DEF size
    <2>4. \A lat \in 0 .. 2 * data.box.height, lon \in 0 .. 2 * data.box.width :
            \E i \in DOMAIN RunCells :
              /\ lat - RunCells[i].lat <= 2 * NormalSize(size)
              /\ RunCells[i].lat - lat <= 2 * NormalSize(size)
              /\ lon - RunCells[i].lon <= 2 * NormalSize(size)
              /\ RunCells[i].lon - lon <= 2 * NormalSize(size)
        BY <2>1, <2>2, <2>3, CellsCover
    <2> QED BY <2>4, Zenon DEF GridCovers, size
<1> QED BY Invariance, <1>1, PTL

=============================================================================

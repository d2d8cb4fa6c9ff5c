------------------------------ MODULE TrendChart ------------------------------
(***************************************************************************)
(* The part of the usage trend that a person looks at: it is zoomed by the *)
(* wheel, buttons and keys, and dragged by the pointer, while answers of   *)
(* the server change the number of buckets below it.                       *)
(*                                                                         *)
(* The pointer is at one of the positions 0..Width.  What is drawn of the  *)
(* buckets, the tooltip, and the error of floating-point quotients (one    *)
(* bucket more for some parts of 21 buckets and more) are left out.        *)
(***************************************************************************)
EXTENDS Integers, FiniteSets, FiniteSetsExt

CONSTANTS
    Totals,         \* the numbers of buckets of an answer; zero before the first
    Width           \* of the plot, in positions of the pointer

ASSUME ChartAssumption ==
    /\ Totals \subseteq Nat
    /\ Width \in Nat \ {0} /\ Width % 2 = 0

VARIABLES
    total,          \* buckets.length
    viewStart,      \* trendViewportStart
    viewSize,       \* trendViewportSize, or WholeRange
    panOrigin       \* trendPanOrigin with what was shown then, or NoPan

chartVars == <<total, viewStart, viewSize, panOrigin>>

WholeRange == 0
NoPan == [at |-> -1, viewStart |-> 0, shown |-> {}]

MINIMUM_TREND_BUCKETS == 4
Smallest == Min({MINIMUM_TREND_BUCKETS, total})

Between(low, n, high) == Max({low, Min({n, high})})

\* Math.round of a quotient.
Rounded(n, by) == (2 * n + by) \div (2 * by)

\* trendViewportBounds: the part that is shown, whatever is stored.
Size  == Between(Smallest, IF viewSize = WholeRange THEN total ELSE viewSize, total)
Start == Between(0, viewStart, total - Size)
Shown == Start .. (Start + Size - 1)
-----------------------------------------------------------------------------
SizeInward  == Max({Smallest, Rounded(7 * Size, 10)})
SizeOutward == Min({total, (10 * Size + 6) \div 7})

\* What is below the pointer stays below it.
ZoomTo(size, at) ==
    /\ viewSize' = IF size = total THEN WholeRange ELSE size
    /\ viewStart' = IF size = Size THEN Start
                    ELSE Between(0, Start + Rounded(at * (Size - size), Width), total - size)

\* nextTrendZoom, by the wheel at the pointer, by a button or a key in the middle.
Zoom(direction, at) ==
    /\ IF total <= 1 THEN UNCHANGED <<viewStart, viewSize>>
       ELSE ZoomTo(IF direction = "in" THEN SizeInward ELSE SizeOutward, at)
    /\ UNCHANGED <<total, panOrigin>>

\* Home, or a button.
Reset ==
    /\ viewStart' = 0
    /\ viewSize' = WholeRange
    /\ panOrigin' = NoPan
    /\ UNCHANGED total

\* The arrow keys.
PanBy(buckets) ==
    /\ viewStart' = Between(0, Start + buckets, total - Size)
    /\ UNCHANGED <<total, viewSize, panOrigin>>

PointerDown(at) ==
    /\ Size < total
    /\ panOrigin' = [at |-> at, viewStart |-> Start, shown |-> Shown]
    /\ UNCHANGED <<total, viewStart, viewSize>>

\* Faulty variant: the part is moved on from where it is by now.
PointerMoveOn(at) ==
    /\ panOrigin # NoPan
    /\ viewStart' = Between(0, Start + Rounded((panOrigin.at - at) * Size, Width), total - Size)
    /\ UNCHANGED <<total, viewSize, panOrigin>>

\* The distance is that from where the drag began.
PointerMove(at) ==
    /\ panOrigin # NoPan
    /\ viewStart' = Between(0, panOrigin.viewStart + Rounded((panOrigin.at - at) * Size, Width),
                            total - Size)
    /\ UNCHANGED <<total, viewSize, panOrigin>>

\* The pointer is released, or its drag is cancelled.
FinishPan ==
    /\ panOrigin' = NoPan
    /\ UNCHANGED <<total, viewStart, viewSize>>

\* An answer for the same window replaces the buckets below the chart.
BucketsArrive(n) ==
    /\ total' = n
    /\ UNCHANGED <<viewStart, viewSize, panOrigin>>

Directions == {"in", "out"}

ChartInit ==
    /\ total \in Totals
    /\ viewStart = 0
    /\ viewSize = WholeRange
    /\ panOrigin = NoPan

ChartNext ==
    \/ \E direction \in Directions, at \in 0 .. Width : Zoom(direction, at)
    \/ Reset
    \/ \E buckets \in {-1, 1} : PanBy(buckets)
    \/ \E at \in 0 .. Width : PointerDown(at) \/ PointerMove(at)
    \/ FinishPan
    \/ \E n \in Totals : BucketsArrive(n)

ChartSpec == ChartInit /\ [][ChartNext]_chartVars

ChartTypeOK ==
    /\ total \in Totals
    /\ viewStart \in 0 .. Max(Totals)
    /\ viewSize \in 0 .. Max(Totals)
    /\ panOrigin.at \in -1 .. Width
-----------------------------------------------------------------------------
(* Properties.                                                             *)

BucketBelow(at) == Start + Rounded(at * (Size - 1), Width)

\* Zooming in shows a part of what was shown, with the bucket below the pointer in
\* it, zooming out shows all of it, and a drag that comes back to where it began
\* shows again what was shown then, whatever answers, zooms and keys came between
\* (usage-trend.ts:103, UsageTrendChart.svelte:183); the part is never too small.
ZoomAndDragKeepThePlace ==
    [][total > 0 =>
        /\ \A at \in 0 .. Width :
              /\ Zoom("in", at) => Shown' \subseteq Shown /\ BucketBelow(at) \in Shown'
              /\ Zoom("out", at) => Shown \subseteq Shown'
        /\ PointerMove(panOrigin.at) /\ Cardinality(panOrigin.shown) = Size
              /\ panOrigin.shown \subseteq 0 .. (total - 1) => Shown' = panOrigin.shown
        /\ Shown' \subseteq 0 .. (total' - 1) /\ Cardinality(Shown') >= Smallest']_chartVars
=============================================================================

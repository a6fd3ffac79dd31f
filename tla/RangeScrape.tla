----------------------------- MODULE RangeScrape ----------------------------
(***************************************************************************)
(* A scrape of /metrics while the missing-block ranges change.  The        *)
(* operations of MissingRanges hold Metrics.mu, but the handler of         *)
(* promhttp does not take it: it collects the gauge vectors one by one,    *)
(* each atomically, while an operation is between two of its writes.       *)
(*                                                                         *)
(* An operation is the action of MissingRanges, which says what calls of   *)
(* deleteRange and updateRange it makes, and then one step per gauge write *)
(* of these calls.  A series is represented by its range, which determines *)
(* its label and its value.                                                *)
(***************************************************************************)
EXTENDS MissingRanges, FiniteSets

CONSTANT MaxOverlaps   \* bound: operations that begin during one scrape

ASSUME MaxOverlapsAssumption == MaxOverlaps \in Nat

VARIABLES
    gauges,   \* per vector, what it holds: series per blob type, or totals
    todo,     \* gauge writes the operation that holds Metrics.mu has yet to make
    scraping, \* a scrape is in progress
    scrape,   \* what it has collected so far: a function on some of the vectors
    before,   \* history: the moment before the operation in progress
    overlaps, \* operations begun during the scrape (bounded by MaxOverlaps)
    seen      \* history: the moments between operations the scrape overlaps

scrapeVars == <<vars, gauges, todo, scraping, scrape, before, overlaps, seen>>

Vectors == {"start", "end", "total"}
Moment == [published |-> published, total |-> total]

ScrapeInit ==
    /\ Init
    /\ gauges = [v \in Vectors |-> IF v = "total" THEN total ELSE published]
    /\ todo = << >> /\ before = Moment
    /\ scraping = FALSE /\ scrape = << >> /\ overlaps = 0 /\ seen = {}

-----------------------------------------------------------------------------
(* The writer. *)

\* What a call does to vector v of blob type b: series deleted, series set.
CallWrite(v, b, c) == IF c.call = "delete" THEN <<v, b, {c.range}, {}>> ELSE <<v, b, {}, {c.range}>>

\* deleteRange and updateRange write the start vector, then the end vector.
RangeWrites(b) ==
    [k \in 1 .. 2 * Len(calls') |->
        CallWrite(IF k % 2 = 1 THEN "start" ELSE "end", b, calls'[(k + 1) \div 2])]

\* The deferred RecordTotalMissingBlocks.
TotalWrites(b) == <<<<"total", b, total'[b]>>>>

\* RecordMissingBlock or RemoveVerifiedBlock takes m.mu.
Operate(b) ==
    /\ todo = << >>
    /\ \E h \in Heights : RecordMissingBlock(b, h) \/ RemoveVerifiedBlock(b, h)
    /\ todo' = RangeWrites(b) \o TotalWrites(b)
    /\ before' = Moment
    /\ \/ ~scraping /\ UNCHANGED <<overlaps, seen>>
       \/ /\ scraping /\ overlaps < MaxOverlaps
          /\ overlaps' = overlaps + 1 /\ seen' = seen \cup {Moment'}
    /\ UNCHANGED <<gauges, scraping, scrape>>

\* Its next gauge write; m.mu is released after the last one.
Write ==
    /\ todo # << >>
    /\ LET w == Head(todo)
       IN  gauges' = [gauges EXCEPT ![w[1]][w[2]] =
                          IF w[1] = "total" THEN w[3] ELSE (@ \ w[3]) \cup w[4]]
    /\ todo' = Tail(todo)
    /\ before' = IF Len(todo) = 1 THEN Moment ELSE before
    /\ UNCHANGED <<vars, scraping, scrape, overlaps, seen>>

-----------------------------------------------------------------------------
(* The scrape: Gather collects the vectors in any order. *)

BeginScrape ==
    /\ ~scraping
    /\ scraping' = TRUE /\ seen' = {before, Moment}
    /\ UNCHANGED <<vars, gauges, todo, before, scrape, overlaps>>

Collect(v) ==
    /\ scraping /\ v \notin DOMAIN scrape
    /\ scrape' = [u \in DOMAIN scrape \cup {v} |-> IF u = v THEN gauges[v] ELSE scrape[u]]
    /\ UNCHANGED <<vars, gauges, todo, scraping, before, overlaps, seen>>

Collected == DOMAIN scrape = Vectors

EndScrape ==
    /\ Collected
    /\ scraping' = FALSE /\ scrape' = << >> /\ overlaps' = 0 /\ seen' = {}
    /\ UNCHANGED <<vars, gauges, todo, before>>

ScrapeNext == \/ \E b \in BlobTypes : Operate(b)
              \/ Write \/ BeginScrape \/ EndScrape
              \/ \E v \in Vectors : Collect(v)

ScrapeSpec == ScrapeInit /\ [][ScrapeNext]_scrapeVars

-----------------------------------------------------------------------------
(* Properties. *)

\* Whenever Metrics.mu is free, both vectors hold exactly the ranges of the slice and
\* the total counts the heights they cover: whatever path the operations took, their
\* calls leave behind what m.ranges says (metrics.go:485-600).
GaugesSettled ==
    todo = << >> =>
        \A b \in BlobTypes :
            /\ gauges["start"][b] = ToSet(ranges[b]) /\ gauges["end"][b] = ToSet(ranges[b])
            /\ gauges["total"][b] = Cardinality(Covered(ranges[b])) % (MaxHeight + 1)

\* Ranges collected together never overlap or touch, even in the middle of an
\* operation, so a dashboard that adds them up counts no height twice: the label of a
\* range that grew, shrank or was split is gone before its successors appear, the
\* ones that start at the same height included (metrics.go:485-600).
NoDoubleCount ==
    \A v \in {"start", "end"} \cap DOMAIN scrape : \A b \in BlobTypes :
        \A r, s \in scrape[v][b] : r # s => r.end + 1 < s.start \/ s.end + 1 < r.start

\* A scrape shows nothing but what was so at some moment it overlaps, and of what was
\* so at all of them it misses nothing: only a range that an operation changes
\* meanwhile may be absent.  The total never leaves the values it had.
ScrapeIsOfItsTime ==
    Collected =>
        \A b \in BlobTypes :
            /\ \A v \in {"start", "end"}, r \in Range64 :
                  /\ r \in scrape[v][b] => \E m \in seen : r \in m.published[b]
                  /\ (\A m \in seen : r \in m.published[b]) => r \in scrape[v][b]
            /\ \E m \in seen : scrape["total"][b] = m.total[b]
=============================================================================

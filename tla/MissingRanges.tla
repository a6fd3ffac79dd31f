--------------------------- MODULE MissingRanges ----------------------------
(***************************************************************************)
(* The missing-block ranges of pkg/metrics/metrics.go: per blob type a     *)
(* slice of inclusive [start, end] ranges, and the gauges published from   *)
(* it -- one start/end pair of series per range, labelled with the range's *)
(* text "start-end", and one total.  Every operation runs under m.mu, so   *)
(* each is one atomic action.  Slices are sequences (index 1 is Go's 0).   *)
(***************************************************************************)
EXTENDS Integers, Sequences, SequencesExt

CONSTANTS BlobTypes,   \* "header" and "data" in the code
          MaxHeight    \* largest uint64: heights wrap after it

ASSUME MaxHeightAssumption == MaxHeight \in Nat

Heights == 0 .. MaxHeight

\* A *blockRange.  Its rangeID label is determined by the two ends, so the
\* record also stands for the label and for the two values published under it.
Range64 == [start : Heights, end : Heights]

VARIABLES ranges,      \* ranges[b]: the slice m.ranges[b]; nil is << >>
          published,   \* published[b]: label sets present in UnsubmittedRangeStart/End
          total,       \* total[b]: UnsubmittedBlocksTotal
          calls        \* the deleteRange and updateRange calls of the last operation

vars == <<ranges, published, total, calls>>

TypeOK == /\ ranges \in [BlobTypes -> Seq(Range64)]
          /\ published \in [BlobTypes -> SUBSET Range64]
          /\ calls \in Seq([call : {"delete", "update"}, range : Range64])

Init == /\ ranges = [b \in BlobTypes |-> << >>]
        /\ published = [b \in BlobTypes |-> {}]
        /\ total = [b \in BlobTypes |-> 0]
        /\ calls = << >>

-----------------------------------------------------------------------------
\* uint64 increment and decrement, which wrap.
Succ64(h) == IF h = MaxHeight THEN 0 ELSE h + 1
Pred64(h) == IF h = 0 THEN MaxHeight ELSE h - 1

NewRange(s, e) == [start |-> s, end |-> e]

Within(h, r) == r.start <= h /\ h <= r.end

\* sort.Search: the first position whose range starts after h, Len + 1 if none.
FirstAfter(rs, h) ==
    CHOOSE i \in 1 .. Len(rs) + 1 :
        /\ \A j \in 1 .. i - 1 : rs[j].start <= h
        /\ i <= Len(rs) => h < rs[i].start

FindRangeIndex(rs, h) ==
    LET idx == FirstAfter(rs, h)
    IN  IF idx > 1 /\ h <= rs[idx - 1].end THEN idx - 1 ELSE idx

\* mutant: ranges counted half-open
TotalHalfOpen(rs) ==
    MapThenSumSet(LAMBDA i : rs[i].end - rs[i].start, DOMAIN rs) % (MaxHeight + 1)

\* RecordTotalMissingBlocks: the sum, in uint64, of the inclusive lengths.
TotalMissing(rs) ==
    MapThenSumSet(LAMBDA i : rs[i].end - rs[i].start + 1, DOMAIN rs) % (MaxHeight + 1)

\* A call of deleteRange, or of updateRange, for the label r has at that moment.
Delete(r) == [call |-> "delete", range |-> r]
Update(r) == [call |-> "update", range |-> r]

\* The series there are after the calls of made, if those of shown were there before:
\* the last call about a range decides.
After(made, shown) ==
    {r \in shown \cup {c.range : c \in ToSet(made)} :
        \/ r \in shown /\ Delete(r) \notin ToSet(made)
        \/ \E k \in DOMAIN made :
              made[k] = Update(r) /\ \A j \in DOMAIN made : k < j => made[j] # Delete(r)}

\* The calls of made, in this order; rs is the slice the operation leaves behind.
Replace(b, made, rs) ==
    /\ ranges' = [ranges EXCEPT ![b] = rs]
    /\ published' = [published EXCEPT ![b] = After(made, @)]
    /\ calls' = made

\* An early return: no call at all.
NoCalls == calls' = << >> /\ UNCHANGED <<ranges, published>>

-----------------------------------------------------------------------------
\* mutant: deleteRange called after the range was modified
ExtendLeftStale(b, i, h) ==
    LET r == NewRange(ranges[b][i].start, h)
    IN  Replace(b, <<Delete(r), Update(r)>>, ReplaceAt(ranges[b], i, r))

\* mutant: the old series are deleted after the new ones are set
ExtendLeftLate(b, i, h) ==
    LET r == NewRange(ranges[b][i].start, h)
    IN  Replace(b, <<Update(r), Delete(ranges[b][i])>>, ReplaceAt(ranges[b], i, r))

ExtendLeft(b, i, h) ==
    LET r == NewRange(ranges[b][i].start, h)
    IN  Replace(b, <<Delete(ranges[b][i]), Update(r)>>, ReplaceAt(ranges[b], i, r))

ExtendRight(b, i, h) ==
    LET r == NewRange(h, ranges[b][i].end)
    IN  Replace(b, <<Delete(ranges[b][i]), Update(r)>>, ReplaceAt(ranges[b], i, r))

\* mutant: the absorbed range is left in the slice
MergeNeighboursKeepsRight(b, i) ==
    LET left == ranges[b][i]  right == ranges[b][i + 1]
        both == NewRange(left.start, right.end)
    IN  Replace(b, <<Delete(left), Delete(right), Update(both)>>, ReplaceAt(ranges[b], i, both))

\* The range at i takes in the one after it.
MergeNeighbours(b, i) ==
    LET left == ranges[b][i]  right == ranges[b][i + 1]
        both == NewRange(left.start, right.end)
    IN  Replace(b, <<Delete(left), Delete(right), Update(both)>>,
                ReplaceAt(RemoveAt(ranges[b], i + 1), i, both))

\* mutant: a new range ends after its height
InsertRangeHalfOpen(b, i, h) ==
    Replace(b, <<Update(NewRange(h, h + 1))>>, InsertAt(ranges[b], i, NewRange(h, h + 1)))

\* mutant: the series of the blob type are cleared and set anew
InsertRangeAnew(b, i, h) ==
    LET old == ranges[b]  new == InsertAt(old, i, NewRange(h, h))
    IN  Replace(b, [k \in DOMAIN old |-> Delete(old[k])] \o [k \in DOMAIN new |-> Update(new[k])], new)

InsertRange(b, i, h) ==
    Replace(b, <<Update(NewRange(h, h))>>, InsertAt(ranges[b], i, NewRange(h, h)))

RecordMissingBlock(b, h) ==
    LET rs  == ranges[b]
        idx == FindRangeIndex(rs, h)
        tracked    == idx <= Len(rs) /\ Within(h, rs[idx])
        mergeLeft  == idx > 1 /\ Succ64(rs[idx - 1].end) = h
        mergeRight == idx <= Len(rs) /\ Pred64(rs[idx].start) = h
    IN  /\ \/ tracked /\ NoCalls
           \/ ~tracked /\ mergeLeft /\ mergeRight /\ MergeNeighbours(b, idx - 1)
           \/ ~tracked /\ mergeLeft /\ ~mergeRight /\ ExtendLeft(b, idx - 1, h)
           \/ ~tracked /\ ~mergeLeft /\ mergeRight /\ ExtendRight(b, idx, h)
           \/ ~tracked /\ ~mergeLeft /\ ~mergeRight /\ InsertRange(b, idx, h)
        /\ total' = [total EXCEPT ![b] = TotalMissing(ranges'[b])]

-----------------------------------------------------------------------------
DeleteRange(b, i) == Replace(b, <<Delete(ranges[b][i])>>, RemoveAt(ranges[b], i))

ShrinkStart(b, i) ==
    LET r == NewRange(Succ64(ranges[b][i].start), ranges[b][i].end)
    IN  Replace(b, <<Delete(ranges[b][i]), Update(r)>>, ReplaceAt(ranges[b], i, r))

\* mutant: deleteRange forgotten
ShrinkEndForgets(b, i) ==
    LET r == NewRange(ranges[b][i].start, Pred64(ranges[b][i].end))
    IN  Replace(b, <<Update(r)>>, ReplaceAt(ranges[b], i, r))

ShrinkEnd(b, i) ==
    LET r == NewRange(ranges[b][i].start, Pred64(ranges[b][i].end))
    IN  Replace(b, <<Delete(ranges[b][i]), Update(r)>>, ReplaceAt(ranges[b], i, r))

\* mutant: the second half starts one height too late
SplitRangeSkips(b, i, h) ==
    LET lower == NewRange(ranges[b][i].start, Pred64(h))
        upper == NewRange(Succ64(Succ64(h)), ranges[b][i].end)
    IN  Replace(b, <<Delete(ranges[b][i]), Update(lower), Update(upper)>>,
                InsertAt(ReplaceAt(ranges[b], i, lower), i + 1, upper))

SplitRange(b, i, h) ==
    LET lower == NewRange(ranges[b][i].start, Pred64(h))
        upper == NewRange(Succ64(h), ranges[b][i].end)
    IN  Replace(b, <<Delete(ranges[b][i]), Update(lower), Update(upper)>>,
                InsertAt(ReplaceAt(ranges[b], i, lower), i + 1, upper))

RemoveVerifiedBlock(b, h) ==
    LET rs  == ranges[b]
        idx == FindRangeIndex(rs, h)
        tracked == idx <= Len(rs) /\ Within(h, rs[idx])
        first   == h = rs[idx].start
        last    == h = rs[idx].end
    IN  /\ \/ ~tracked /\ NoCalls
           \/ tracked /\ first /\ last /\ DeleteRange(b, idx)
           \/ tracked /\ first /\ ~last /\ ShrinkStart(b, idx)
           \/ tracked /\ ~first /\ last /\ ShrinkEnd(b, idx)
           \/ tracked /\ ~first /\ ~last /\ SplitRange(b, idx, h)
        /\ total' = [total EXCEPT ![b] = TotalMissing(ranges'[b])]

Next == \E b \in BlobTypes, h \in Heights :
            RecordMissingBlock(b, h) \/ RemoveVerifiedBlock(b, h)

Spec == Init /\ [][Next]_vars

-----------------------------------------------------------------------------
(* What a reader of the dashboard relies on. *)

Covered(rs) == {h \in Heights : \E r \in ToSet(rs) : Within(h, r)}

\* A slice that findRangeIndex's binary search and the dashboards can use:
\* every range is non-empty, ranges are in ascending order, and two ranges
\* are separated by a height that is not missing (touching ranges are merged).
Canonical(rs) ==
    /\ \A i \in DOMAIN rs : rs[i].start <= rs[i].end
    /\ \A i, j \in DOMAIN rs : i < j => rs[i].end + 1 < rs[j].start

\* After any sequence of records and removals, at either end of the uint64
\* range included, the slices stay canonical.
RangesCanonical == \A b \in BlobTypes : Canonical(ranges[b])

\* The start/end series exported under range labels are exactly the current
\* ranges: no series of a range that was extended, split or merged survives.
PublishedMatchesRanges ==
    \A b \in BlobTypes : published[b] = ToSet(ranges[b])

\* The exported total counts each missing height once.
TotalMatchesRanges ==
    \A b \in BlobTypes :
        total[b] = Cardinality(Covered(ranges[b])) % (MaxHeight + 1)

\* The ranges implement the abstract set: a record adds exactly its height, a
\* removal takes exactly its height away, and the other blob type is untouched.
Set == INSTANCE MissingSet
           WITH missing <- [b \in BlobTypes |-> Covered(ranges[b])]
ImplementsMissingSet == Set!Spec
=============================================================================

------------------------------- MODULE Ranges -------------------------------
(***************************************************************************)
(* Byte ranges of a Range header (iroh-link-gateway/src/ranges.rs). A part *)
(* of the header is <<first, last>>, where Empty stands for a number that  *)
(* was left out, or Malformed. A range is [start, end), as in the code.    *)
(***************************************************************************)
EXTENDS Integers, Sequences, FiniteSets, SequencesExt

CONSTANTS U64Max,    \* largest number that parses
          MAX_PARTS, \* parts of a header above which it is ignored
          Empty,
          Malformed

ASSUME RangesAssumption == U64Max \in Nat /\ MAX_PARTS \in Nat /\ Empty \notin Nat

Numbers == {Empty} \cup 0 .. U64Max
Parts == {Malformed} \cup Numbers \X Numbers

Full == [kind |-> "full"]
Unsatisfiable == [kind |-> "unsatisfiable"]
Partial(ranges) == [kind |-> "partial", ranges |-> ranges]

smaller(m, n) == IF m < n THEN m ELSE n
larger(m, n) == IF m > n THEN m ELSE n

\* One part of the header: malformed, a suffix, or a range that may be open.
single(part, size) ==
  IF part = Malformed \/ part = <<Empty, Empty>> THEN Full
  ELSE IF part[1] = Empty
  THEN IF part[2] = 0 \/ size = 0 THEN Unsatisfiable
       ELSE Partial(<<[start |-> larger(0, size - part[2]), end |-> size]>>)
  ELSE IF part[2] # Empty /\ part[2] < part[1] THEN Full
  ELSE IF part[1] >= size THEN Unsatisfiable
  ELSE Partial(<<[start |-> part[1],
                  end |-> IF part[2] = Empty THEN size
                          ELSE smaller(smaller(part[2] + 1, U64Max), size)]>>)

\* sort_by_key, where equal ranges are one.
Before(q, r) == q.start < r.start \/ (q.start = r.start /\ q.end < r.end)
sort(ranges) ==
  LET n == Cardinality(ranges) IN
  CHOOSE s \in [1 .. n -> ranges] :
    /\ \A r \in ranges : \E i \in 1 .. n : s[i] = r
    /\ \A i, j \in 1 .. n : i < j => Before(s[i], s[j])

\* The loop of merge: a range that overlaps the last one or follows it at once extends it.
extend(merged, r) ==
  IF merged # <<>> /\ r.start <= Last(merged).end
  THEN Append(Front(merged), [start |-> Last(merged).start, end |-> larger(Last(merged).end, r.end)])
  ELSE Append(merged, r)

\* Mutant: adjacent and overlapping ranges stay apart.
mergeNothing(ranges) == sort(ranges)

merge(ranges) ==
  LET sorted == sort(ranges)
      merged[n \in 0 .. Len(sorted)] ==
        IF n = 0 THEN <<>> ELSE extend(merged[n - 1], sorted[n])
  IN  merged[Len(sorted)]

\* Which ranges of a blob to serve for the parts of a header.
select(parts, size) ==
  LET selected == [i \in DOMAIN parts |-> single(parts[i], size)]
      partial == {i \in DOMAIN parts : selected[i].kind = "partial"}
      ranges == {selected[i].ranges[1] : i \in partial}
  IN  IF Len(parts) > MAX_PARTS \/ \E i \in DOMAIN parts : selected[i] = Full THEN Full
      ELSE IF partial = {} THEN Unsatisfiable
      ELSE Partial(merge(ranges))

----------------------------------------------------------------------------
(* What a header asks for, by HTTP: the bytes that any of its parts names.  *)

Named(part, size) ==
  {b \in 0 .. size - 1 :
     IF part[1] = Empty THEN b >= size - part[2]
     ELSE part[1] <= b /\ (part[2] = Empty \/ b <= part[2])}

WellFormed(part) ==
  /\ part # Malformed /\ part # <<Empty, Empty>>
  /\ Empty \notin {part[1], part[2]} => part[1] <= part[2]
============================================================================

--------------------------- MODULE StakingExposure ---------------------------
(***************************************************************************)
(* The exposure primitives of substrate/primitives/staking/src/lib.rs as   *)
(* operators: Exposure::split_others, Exposure::into_pages,                *)
(* ExposurePage::from and PagedExposureMetadata::update_with.  Balances    *)
(* are unsigned integers of BalanceBits bits with the saturating           *)
(* arithmetic of sp_arithmetic.                                            *)
(*                                                                         *)
(* The state machine is a caller that pages one validator's exposure       *)
(* incrementally: it calls split_others repeatedly on the same exposure    *)
(* (&mut self), keeps what each call returned, and keeps for every page    *)
(* size the overview metadata advanced by update_with with the stake and   *)
(* count of each split-off part.  The properties compare the results with  *)
(* reference definitions (concatenation, sums, chunking) and the two       *)
(* page-count computations with each other.                                *)
(***************************************************************************)
EXTENDS Naturals, Sequences, SequencesExt

CONSTANTS
  Nominators,   \* AccountId of nominators
  Values,       \* exposed values of one nominator
  OwnValues,    \* exposed values of the validator's own stash
  BalanceBits,  \* width of Balance, scaled down
  CountBits,    \* width of u32 (nominator_count, Page), scaled down
  PageSizes,    \* page sizes (MaxExposurePageSize) the caller may use
  MaxOthers,    \* bound on the nominators of one exposure
  MaxSplit,     \* bound on n_others of one split_others call
  MaxSplits     \* bound on the number of split_others calls

ASSUME PageSizes \subseteq Nat \ {0}

VARIABLES
  original,   \* the exposure as the caller got it (history)
  exposure,   \* self after the split_others calls so far
  parts,      \* the exposures those calls returned, in order
  meta        \* [PageSizes -> PagedExposureMetadata] kept by update_with

vars == <<original, exposure, parts, meta>>

BalMax == 2^BalanceBits - 1

\* Saturating::saturating_add and saturating_sub on Balance.
SatAdd(a, b) == IF a + b > BalMax THEN BalMax ELSE a + b
SatSub(a, b) == IF a > b THEN a - b ELSE 0

Balance == 0 .. BalMax

\* u32 and Page: saturating_add, and the truncating cast `as u32`.
CountMax == 2^CountBits - 1
SatAddCount(a, b) == IF a + b > CountMax THEN CountMax ELSE a + b
AsCount(n) == n % (CountMax + 1)

IndividualExposure == [who : Nominators, value : Values]

Exposure ==
  [total : Balance, own : Balance, others : BoundedSeq(IndividualExposure, MaxOthers)]

ExposurePage == [page_total : Balance, others : BoundedSeq(IndividualExposure, MaxOthers)]

PagedExposureMetadata ==
  [total : Balance, own : Balance, nominator_count : 0 .. MaxOthers,
   page_count : 0 .. MaxOthers]

\* The saturating fold of split_others and the page_total accrual of
\* into_pages: the sum of the values, saturated at BalMax.
SumValues(others) == FoldLeft(LAMBDA acc, o : SatAdd(acc, o.value), 0, others)

(***************************************************************************)
(* split_others(&mut self, n_others): the first min(n_others, len) others  *)
(* are drained into a new exposure with the same own and total head + own; *)
(* self keeps the rest and its total loses the head's sum.                 *)
(***************************************************************************)
\* Mutation: self.total is not reduced by the drained stake.
SplitOthersKeepTotal(e, n) ==
  LET k == IF n < Len(e.others) THEN n ELSE Len(e.others)
      head == SubSeq(e.others, 1, k)
  IN [rest |-> [e EXCEPT !.others = SubSeq(e.others, k + 1, Len(e.others))],
      head |-> [total |-> SatAdd(SumValues(head), e.own), own |-> e.own, others |-> head]]

SplitOthers(e, n) ==
  LET k == IF n < Len(e.others) THEN n ELSE Len(e.others)
      head == SubSeq(e.others, 1, k)
      totalOthersHead == SumValues(head)
  IN [rest |-> [e EXCEPT !.total = SatSub(@, totalOthersHead),
                         !.others = SubSeq(e.others, k + 1, Len(e.others))],
      head |-> [total |-> SatAdd(totalOthersHead, e.own), own |-> e.own, others |-> head]]

(***************************************************************************)
(* slice::chunks(page_size): consecutive chunks of page_size elements, the *)
(* last one shorter if the length is not a multiple (page_size > 0).       *)
(***************************************************************************)
\* Mutation: a chunk ends one element early.
ChunksShort(s, ps) ==
  [i \in 1 .. (Len(s) + ps - 1) \div ps |->
     SubSeq(s, (i - 1) * ps + 1, IF i * ps < Len(s) THEN i * ps - 1 ELSE Len(s))]

Chunks(s, ps) ==
  [i \in 1 .. (Len(s) + ps - 1) \div ps |->
     SubSeq(s, (i - 1) * ps + 1, IF i * ps < Len(s) THEN i * ps ELSE Len(s))]

\* into_pages(self, page_size): one ExposurePage per chunk with its
\* saturating page_total, and the metadata with the counts.
IntoPages(e, ps) ==
  LET chunks == Chunks(e.others, ps)
      pages == [i \in DOMAIN chunks |->
                  [page_total |-> SumValues(chunks[i]), others |-> chunks[i]]]
  IN [meta |-> [total |-> e.total, own |-> e.own,
                nominator_count |-> AsCount(Len(e.others)),
                page_count |-> AsCount(Len(pages))],
      pages |-> pages]

\* Mutation: each exposure is inserted at the front instead of pushed.
ExposurePageFromPrepend(exposures) ==
  FoldLeft(LAMBDA page, e : [page_total |-> page.page_total + e.value,
                             others |-> <<e>> \o page.others],
           [page_total |-> 0, others |-> <<>>], exposures)

\* ExposurePage::from(Vec<IndividualExposure>): page_total += value per
\* element.  The inputs keep every sum within Balance, where += neither
\* wraps nor panics.
ExposurePageFrom(exposures) ==
  FoldLeft(LAMBDA page, e : [page_total |-> page.page_total + e.value,
                             others |-> Append(page.others, e)],
           [page_total |-> 0, others |-> <<>>], exposures)

(***************************************************************************)
(* update_with::<Max>(self, others_balance, others_num): the count grows   *)
(* by others_num and the page count is its ceiling division by             *)
(* max(Max, 1), computed as (count + limit - 1) / limit, every step a      *)
(* saturating u32 operation.                                               *)
(***************************************************************************)
\* Mutation: the page count without the saturating_sub(1).
UpdateWithNoMinusOne(m, othersBalance, othersNum, max) ==
  LET pageLimit == IF max > 1 THEN max ELSE 1
      count == SatAddCount(m.nominator_count, othersNum)
  IN [total |-> SatAdd(m.total, othersBalance), own |-> m.own,
      nominator_count |-> count,
      page_count |-> SatAddCount(count, pageLimit) \div pageLimit]

\* Mutation: the page count rounded down.
UpdateWithFloorDiv(m, othersBalance, othersNum, max) ==
  LET pageLimit == IF max > 1 THEN max ELSE 1
      count == SatAddCount(m.nominator_count, othersNum)
  IN [total |-> SatAdd(m.total, othersBalance), own |-> m.own,
      nominator_count |-> count, page_count |-> count \div pageLimit]

UpdateWith(m, othersBalance, othersNum, max) ==
  LET pageLimit == IF max > 1 THEN max ELSE 1
      count == SatAddCount(m.nominator_count, othersNum)
  IN [total |-> SatAdd(m.total, othersBalance), own |-> m.own,
      nominator_count |-> count,
      page_count |-> SatSub(SatAddCount(count, pageLimit), 1) \div pageLimit]

-----------------------------------------------------------------------------
(***************************************************************************)
(* The caller.  An exposure as staking builds it has total = own + the sum *)
(* of the others; the overview of the validator starts as the metadata of  *)
(* its own stake alone.                                                    *)
(***************************************************************************)
PlainSum(others) == FoldLeft(LAMBDA acc, o : acc + o.value, 0, others)

InitialExposures ==
  {[total |-> own + PlainSum(os), own |-> own, others |-> os] :
     own \in OwnValues, os \in BoundedSeq(IndividualExposure, MaxOthers)}

Init ==
  /\ original \in {e \in InitialExposures : e.total <= BalMax}
  /\ exposure = original
  /\ parts = <<>>
  /\ meta = [ps \in PageSizes |->
               IntoPages([total |-> original.own, own |-> original.own,
                          others |-> <<>>], ps).meta]

\* One split_others(n) call; the overview of every page size is advanced by
\* the part's nominator stake total - own and its count.
Split(n) ==
  LET r == SplitOthers(exposure, n)
  IN /\ Len(parts) < MaxSplits
     /\ exposure' = r.rest
     /\ parts' = Append(parts, r.head)
     /\ meta' = [ps \in PageSizes |->
                   UpdateWith(meta[ps], SatSub(r.head.total, r.head.own),
                              Len(r.head.others), ps)]
     /\ UNCHANGED original

Next == \E n \in 0 .. MaxSplit : Split(n)

Spec == Init /\ [][Next]_vars

-----------------------------------------------------------------------------
(***************************************************************************)
(* Properties                                                              *)
(***************************************************************************)

PartOthers == FlattenSeq([i \in DOMAIN parts |-> parts[i].others])

TypeOK ==
  /\ original \in Exposure
  /\ exposure \in Exposure
  /\ Len(parts) <= MaxSplits /\ \A i \in DOMAIN parts : parts[i] \in Exposure
  /\ meta \in [PageSizes -> PagedExposureMetadata]

\* split_others loses and duplicates nothing: the parts returned so far,
\* then what self keeps, are the original nominators in order; every part
\* keeps the validator's own stake and totals own + its nominators; and
\* self's remaining total plus the parts' nominator stake is the original
\* total ("total.own will be the same for both").
SplitIsLossless ==
  /\ PartOthers \o exposure.others = original.others
  /\ exposure.own = original.own
  /\ \A i \in DOMAIN parts :
       /\ parts[i].own = original.own
       /\ parts[i].total = parts[i].own + PlainSum(parts[i].others)
  /\ exposure.total + PlainSum(PartOthers) = original.total

\* into_pages is a paging of the nominators: its pages concatenate to
\* others, every page is non-empty and holds page_size of them except the
\* last, every page equals ExposurePage::from of its nominators, and the
\* metadata counts the nominators and the pages.  Checked for the original
\* exposure, what self keeps and every split-off part.
IsPaging(e, ps) ==
  LET r == IntoPages(e, ps)
      n == Len(r.pages)
  IN /\ FlattenSeq([i \in 1 .. n |-> r.pages[i].others]) = e.others
     /\ \A i \in 1 .. n :
          /\ r.pages[i].others # <<>>
          /\ Len(r.pages[i].others) = IF i < n THEN ps ELSE Len(r.pages[i].others)
          /\ Len(r.pages[i].others) <= ps
          /\ r.pages[i] = ExposurePageFrom(r.pages[i].others)
     /\ r.meta.nominator_count = Len(e.others)
     /\ r.meta.page_count = n

IntoPagesIsPaging ==
  \A ps \in PageSizes :
    /\ IsPaging(original, ps)
    /\ IsPaging(exposure, ps)
    /\ \A i \in DOMAIN parts : IsPaging(parts[i], ps)

\* The overview kept incrementally by update_with is the metadata
\* into_pages gives for all the nominators split off so far at once: the
\* ceiling division of update_with counts exactly the pages chunks makes,
\* including calls that split off nobody.
UpdateWithMatchesIntoPages ==
  \A ps \in PageSizes :
    meta[ps] = IntoPages([total |-> original.own + PlainSum(PartOthers),
                          own |-> original.own, others |-> PartOthers], ps).meta

=============================================================================

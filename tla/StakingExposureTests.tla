------------------------- MODULE StakingExposureTests -------------------------
(***************************************************************************)
(* The unit tests of substrate/primitives/staking/src/lib.rs (mod tests),  *)
(* each as the conjunction of its assertions over the operators of         *)
(* StakingExposure.  They pin the operators to the inputs and results the  *)
(* repository's own tests fix, with Balance wide enough for the tests.     *)
(***************************************************************************)
EXTENDS StakingExposure

\* u32::MAX as n_others: TLC's largest integer, which like u32::MAX exceeds
\* any length of others.
U32Max == 2147483647

\* update_with_works: 10 nominators on one page, one more added, for
\* page limits 10, 5, 4 and 1.
UpdateWithWorks ==
  LET metadata == [total |-> 1000, own |-> 0, nominator_count |-> 10, page_count |-> 1]
      expected(pages) == [total |-> 1001, own |-> 0, nominator_count |-> 11,
                          page_count |-> pages]
  IN /\ UpdateWith(metadata, 1, 1, 10) = expected(2)
     /\ UpdateWith(metadata, 1, 1, 5) = expected(3)
     /\ UpdateWith(metadata, 1, 1, 4) = expected(3)
     /\ UpdateWith(metadata, 1, 1, 1) = expected(11)

\* individual_exposures_to_exposure_works and
\* empty_individual_exposures_to_exposure_works: ExposurePage::from.
ExposurePageFromWorks ==
  LET es == <<[who |-> 1, value |-> 10], [who |-> 2, value |-> 20],
              [who |-> 3, value |-> 30]>>
  IN /\ ExposurePageFrom(es) = [page_total |-> 60, others |-> es]
     /\ ExposurePageFrom(<<>>) = [page_total |-> 0, others |-> <<>>]

\* The assertions of exposure_split_others_works that hold of any exposure
\* built as own + others: split_others(0) is a noop returning own only,
\* split_others(n) for n up to the length moves exactly n nominators, and
\* split_others(u32::MAX) moves them all and leaves own only.
SplitOthersWorks(e) ==
  LET bare == [total |-> e.own, own |-> e.own, others |-> <<>>]
      sMax == SplitOthers(e, U32Max)
  IN /\ SplitOthers(e, 0).rest = e
     /\ SplitOthers(e, 0).head = bare
     /\ \A n \in 1 .. Len(e.others) :
          LET s == SplitOthers(e, n)
          IN /\ s.rest.own = e.own /\ s.head.own = e.own
             /\ Len(s.head.others) = n /\ Len(s.rest.others) = Len(e.others) - n
     /\ sMax.head = e
     /\ sMax.rest = bare

\* exposure_split_others_works: split_others of 0, 1, 3 and u32::MAX of
\* four nominators of 20 each, own 20, total 100.
ExposureSplitOthersWorks ==
  LET e == [total |-> 100, own |-> 20,
            others |-> [i \in 1 .. 4 |-> [who |-> i, value |-> 20]]]
  IN /\ SplitOthersWorks(e)
     /\ SplitOthers(e, 1).rest.total = 20 + 3 * 20
     /\ SplitOthers(e, 1).head.total = 20 + 1 * 20
     /\ SplitOthers(e, 3).rest.total = 20 + 1 * 20
     /\ SplitOthers(e, 3).head.total = 20 + 3 * 20

\* The operators give the results every unit test of the file asserts, and
\* the split_others assertions hold not only of the test's exposure but of
\* the original exposure, of what self keeps after every sequence of calls
\* and of every part split off: the model and the code agree on the cases
\* their authors wrote down and on their generalisation to the caller.
UnitTestsHold ==
  /\ UpdateWithWorks
  /\ ExposurePageFromWorks
  /\ ExposureSplitOthersWorks
  /\ SplitOthersWorks(original)
  /\ SplitOthersWorks(exposure)
  /\ \A i \in DOMAIN parts : SplitOthersWorks(parts[i])

=============================================================================

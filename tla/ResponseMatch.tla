--------------------------- MODULE ResponseMatch ---------------------------
(***************************************************************************)
(* check_if_response_is_matched                                            *)
(* (src/protocols/light_client/components/send_last_state_proof.rs): it  *)
(* splits the headers of a SendLastStateProof into reorg, sampled and     *)
(* last-n headers and checks them against the GetLastStateProof request.  *)
(*                                                                         *)
(* A header is a record [number, td, parentTd]: its block number, its     *)
(* total difficulty and the total difficulty of its parent chain root.    *)
(* A request is [startNumber, boundary, difficulties], the difficulties a *)
(* sequence. The result is [status, reorg, sampled, lastN]; "Panic" is    *)
(* the usize subtraction `before_boundary_count - reorg_count` going      *)
(* below zero, which panics in a debug build and, wrapped in a release    *)
(* build, makes the slice `headers[reorg_count..reorg_count +             *)
(* sampled_count]` panic.                                                  *)
(***************************************************************************)
EXTENDS Integers, Sequences, SequencesExt

\* The number of leading elements of xs below bound
\* (`take_while(|x| x < bound).count()`).
TakeWhileCount(xs, bound) ==
  LET firstMiss == SelectInSeq(xs, LAMBDA x : x >= bound)
  IN  IF firstMiss = 0 THEN Len(xs) ELSE firstMiss - 1

\* The numbers and the total difficulties of a sequence of headers.
Numbers(hs) == [i \in 1..Len(hs) |-> hs[i].number]
Tds(hs)     == [i \in 1..Len(hs) |-> hs[i].td]

Result(status, r, s, l) == [status |-> status, reorg |-> r, sampled |-> s, lastN |-> l]

Reject(status) == Result(status, 0, 0, 0)

\* Mutants of ConsumeSamples: a sample equal to the parent's total
\* difficulty accepted; further samples in the same block not skipped.
RECURSIVE ConsumeSamplesParentInclusive(_, _, _)
ConsumeSamplesParentInclusive(diffs, h, isValid) ==
  IF diffs = <<>> THEN [diffs |-> diffs, valid |-> isValid]
  ELSE LET d == Head(diffs) IN
       CASE isValid /\ d <= h.td -> ConsumeSamplesParentInclusive(Tail(diffs), h, TRUE)
         [] ~isValid /\ h.parentTd <= d /\ d <= h.td -> ConsumeSamplesParentInclusive(Tail(diffs), h, TRUE)
         [] OTHER -> [diffs |-> diffs, valid |-> isValid]

RECURSIVE ConsumeSamplesNoSkip(_, _, _)
ConsumeSamplesNoSkip(diffs, h, isValid) ==
  IF diffs = <<>> \/ isValid THEN [diffs |-> diffs, valid |-> isValid]
  ELSE LET d == Head(diffs) IN
       IF h.parentTd < d /\ d <= h.td THEN ConsumeSamplesNoSkip(Tail(diffs), h, TRUE)
                                     ELSE [diffs |-> diffs, valid |-> isValid]

(***************************************************************************)
(* The inner `while let Some(diff) = difficulties.first()` loop for one   *)
(* sampled header: the first sample must fall in (parentTd, td], the      *)
(* following ones that are <= td are skipped as covered by the same      *)
(* block. Returns the samples left and whether the header was valid.      *)
(***************************************************************************)
RECURSIVE ConsumeSamples(_, _, _)
ConsumeSamples(diffs, h, isValid) ==
  IF diffs = <<>> THEN [diffs |-> diffs, valid |-> isValid]
  ELSE LET d == Head(diffs) IN
       CASE isValid /\ d <= h.td                -> ConsumeSamples(Tail(diffs), h, TRUE)
         [] ~isValid /\ h.parentTd < d /\ d <= h.td -> ConsumeSamples(Tail(diffs), h, TRUE)
         [] OTHER                               -> [diffs |-> diffs, valid |-> isValid]

\* The outer `for item in &headers[reorg..reorg + sampled]` loop: the
\* samples left after all sampled headers, or "invalid".
RECURSIVE MatchSamples(_, _)
MatchSamples(diffs, sampled) ==
  IF sampled = <<>> THEN diffs
  ELSE LET r == ConsumeSamples(diffs, Head(sampled), FALSE)
       IN  IF r.valid THEN MatchSamples(r.diffs, Tail(sampled)) ELSE "invalid"

(***************************************************************************)
(* check_if_response_is_matched                                            *)
(***************************************************************************)
CheckIfResponseIsMatched(lastNBlocks, req, headers, lastHeader) ==
  LET total  == Len(headers)
      start  == req.startNumber
      reorg  == TakeWhileCount(Numbers(headers), start)
      sorted == \A i \in 1..(total - 1) : headers[i].number < headers[i + 1].number
      reorgOk ==
        reorg # 0 =>
          /\ reorg # lastNBlocks => headers[1].number = 1
          /\ headers[reorg].number = start - 1
      beforeBoundary == TakeWhileCount(Tds(headers), req.boundary)
      split ==
        IF total - reorg > lastNBlocks
        THEN IF total - beforeBoundary > lastNBlocks
             THEN [sampled |-> beforeBoundary - reorg, lastN |-> total - beforeBoundary]
             ELSE [sampled |-> total - reorg - lastNBlocks, lastN |-> lastNBlocks]
        ELSE [sampled |-> 0, lastN |-> total - reorg]
      sampled == split.sampled
      lastN   == split.lastN
      \* sampled_count == 0: the last-n headers must be all of [start, last).
      allNewOk ==
        lastN > 0 => /\ headers[reorg + 1].number = start
                     /\ headers[total].number + 1 = lastHeader.number
      \* sampled_count > 0: every sample below the first last-n header
      \* is matched, and the first unmatched one lies above its parent.
      firstLastN == headers[reorg + sampled + 1]
      diffs  == SubSeq(req.difficulties, 1,
                  TakeWhileCount(req.difficulties, firstLastN.td))
      left   == MatchSamples(diffs, SubSeq(headers, reorg + 1, reorg + sampled))
      samplesOk ==
        /\ left # "invalid"
        /\ left # <<>> => Head(left) > firstLastN.parentTd
  IN  CASE total = 0 \/ ~sorted -> Reject("MalformedProtocolMessage")
        [] ~reorgOk             -> Reject("InvalidReorgHeaders")
        [] sampled < 0          -> Reject("Panic")
        [] sampled = 0 /\ ~allNewOk -> Reject("MalformedProtocolMessage")
        [] sampled > 0 /\ ~samplesOk -> Reject("InvalidSamples")
        [] OTHER                -> Result("Ok", reorg, sampled, lastN)

=============================================================================

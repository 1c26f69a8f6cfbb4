----------------------------- MODULE FullNode -----------------------------
(***************************************************************************)
(* The two ends of a GetLastStateProof exchange that are not part of this *)
(* repository: the request the client builds                              *)
(* (LightClientProtocol::build_prove_request_content) and the answer an   *)
(* honest full node gives. Both are modelled from the spec (sections 2,   *)
(* 3 and 4.C).                                                             *)
(*                                                                         *)
(* A chain is a function from block numbers 0..tip to block difficulties; *)
(* a header is [number, td, parentTd], its total difficulty and that of   *)
(* its parent chain root.                                                  *)
(***************************************************************************)
EXTENDS Integers, Sequences, SequencesExt, FiniteSets

RECURSIVE TdOf(_, _)
TdOf(c, i) == IF i < 0 THEN 0 ELSE c[i] + TdOf(c, i - 1)

HeaderOf(c, i) == [number |-> i, td |-> TdOf(c, i), parentTd |-> TdOf(c, i - 1)]

\* The headers of chain c with the given numbers, in ascending order.
HeadersOf(c, numbers) ==
  LET s == SetToSortSeq(numbers, <) IN [i \in 1..Len(s) |-> HeaderOf(c, s[i])]

SortedSeqs(S, k) == { SetToSortSeq(D, <) : D \in { D \in SUBSET S : Cardinality(D) <= k } }

(***************************************************************************)
(* The request for a peer whose tip is `tip`, starting at startNumber     *)
(* above a proved header of total difficulty startTd: if more than        *)
(* lastN blocks are new, a boundary above startTd and up to the tip's     *)
(* total difficulty and up to maxSamples sorted samples between startTd   *)
(* and the boundary; otherwise no samples.                                 *)
(***************************************************************************)
Requests(lastN, maxSamples, tip, startNumber, startTd, lastTd) ==
  IF tip - startNumber > lastN
  THEN UNION { { [startNumber |-> startNumber, boundary |-> b, difficulties |-> ds] :
                   ds \in SortedSeqs((startTd + 1)..(b - 1), maxSamples) \ {<<>>} } :
               b \in (startTd + 1)..lastTd }
  ELSE { [startNumber |-> startNumber, boundary |-> 0, difficulties |-> <<>>] }

(***************************************************************************)
(* What an honest full node whose tip is `tip` answers: when the start    *)
(* block is not on its chain, the lastN blocks before the start (from     *)
(* block 1 on); if at most lastN blocks are new, all of them; otherwise   *)
(* the last-n region from the first block at or above the boundary (or    *)
(* the last lastN blocks, whichever starts earlier) and, below it, the    *)
(* block covering each sample.                                             *)
(***************************************************************************)
HonestLastNStart(lastN, tip, c, req) ==
  LET atBoundary == { b \in req.startNumber..tip : TdOf(c, b) >= req.boundary }
      boundaryBlock == IF atBoundary = {} THEN tip ELSE Min(atBoundary)
  IN  IF boundaryBlock < tip - lastN THEN boundaryBlock ELSE tip - lastN

HonestSamples(lastN, tip, c, req) ==
  LET covering(d) == { b \in req.startNumber..(HonestLastNStart(lastN, tip, c, req) - 1) :
                         TdOf(c, b - 1) < d /\ d <= TdOf(c, b) }
  IN  UNION { covering(req.difficulties[i]) : i \in 1..Len(req.difficulties) }

HonestNumbers(lastN, tip, c, req, withReorg) ==
  LET s == req.startNumber
      reorgPart == IF withReorg THEN (IF s - lastN > 1 THEN s - lastN ELSE 1)..(s - 1)
                                ELSE {}
  IN  reorgPart \cup
      IF tip - s <= lastN THEN s..(tip - 1)
      ELSE HonestSamples(lastN, tip, c, req) \cup HonestLastNStart(lastN, tip, c, req)..(tip - 1)

=============================================================================

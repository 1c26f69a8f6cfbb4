------------------------- MODULE MCEpochDifficulty -------------------------
(***************************************************************************)
(* Checks the difficulty arithmetic of EpochDifficulty over bounded       *)
(* inputs. An initial state holds one input of the chosen set and no     *)
(* verdict; Verify runs the verifiers on it and records what they return. *)
(* The model stops there, as the verification does.                       *)
(***************************************************************************)
EXTENDS EpochDifficulty, Sequences

CONSTANTS
  MaxSwitches,   \* most epoch switches between two headers
  Lengths,       \* epoch lengths
  Inputs         \* which of the input sets below a run checks

VARIABLES input, verdict

vars == <<input, verdict>>

(* Compact targets decode to block difficulties: a larger target is an    *)
(* easier block. Not all ratios are powers of Tau, so the divisions of    *)
(* the limits truncate.                                                    *)
MCTargets == 1..5
MCCompactToDifficulty(t) == <<6, 4, 3, 2, 1>>[t]

(***************************************************************************)
(* Pairs of epoch difficulties and switch counts, for the tau loops.      *)
(***************************************************************************)
TauInputs == [kind: {"tau"}, start: 1..MaxU, end: 1..MaxU, n: 0..MaxSwitches]

(***************************************************************************)
(* Honest chain segments: epochs 0..n, each a target and a length, every  *)
(* epoch difficulty within a factor Tau of the one before it; the start   *)
(* block is at index si of epoch 0, the end block at index ei of epoch n, *)
(* and endTd - startTd is the sum of the difficulties of the blocks after *)
(* the start block up to and including the end block.                     *)
(***************************************************************************)
EpochsOf == [target: MCTargets, length: Lengths]

EpochDiffOf(ep) == CompactToDifficulty(ep.target) * ep.length

TauStep(a, b) == EpochDiffOf(b) <= Tau * EpochDiffOf(a) /\ Tau * EpochDiffOf(b) >= EpochDiffOf(a)

\* Sequences of m + 1 epochs in which every switch is a TauStep.
RECURSIVE HonestEpochs(_)
HonestEpochs(m) ==
  IF m = 0 THEN { <<ep>> : ep \in EpochsOf }
  ELSE UNION { { c \o <<ep>> : ep \in { e \in EpochsOf : TauStep(c[m], e) } } :
               c \in HonestEpochs(m - 1) }

\* Epoch i of a segment, counting from 0.
Ep(seg, i) == seg.eps[i + 1]

RECURSIVE SumMiddle(_, _)
SumMiddle(seg, i) == IF i >= seg.n THEN 0 ELSE EpochDiffOf(Ep(seg, i)) + SumMiddle(seg, i + 1)

TrueTd(seg) ==
  LET first == Ep(seg, 0)
      last  == Ep(seg, seg.n)
  IN  IF seg.n = 0
      THEN CompactToDifficulty(first.target) * (seg.ei - seg.si)
      ELSE CompactToDifficulty(first.target) * (first.length - seg.si - 1)
           + SumMiddle(seg, 1)
           + CompactToDifficulty(last.target) * (seg.ei + 1)

HonestInputs ==
  { seg \in UNION { [kind: {"segment"}, n: {n}, eps: HonestEpochs(n), si: 0..1, ei: 0..1] :
                      n \in 0..MaxSwitches } :
      /\ seg.si < Ep(seg, 0).length
      /\ seg.ei < Ep(seg, seg.n).length
      /\ seg.n = 0 => seg.si <= seg.ei
      /\ TrueTd(seg) <= MaxU }

(***************************************************************************)
(* What a peer may put against a proved tip: the start header of a proved *)
(* state and any end header, whose epoch number the peer chooses freely.  *)
(***************************************************************************)
PeerInputs ==
  [kind: {"peer"}, st: MCTargets, et: MCTargets, n: 0..MaxSwitches, ei: 0..0, gap: 0..MaxU]

\* Epoch-difficulty pairs and honest segments together.
TauAndHonestInputs == TauInputs \cup HonestInputs

(***************************************************************************)
(* What the verifiers return on an input.                                  *)
(***************************************************************************)
SegmentVerdict(seg) ==
  LET first == Ep(seg, 0)
      last  == Ep(seg, seg.n)
      se    == Epoch(0, seg.si, first.length)
      ee    == Epoch(seg.n, seg.ei, last.length)
  IN  [tau |-> VerifyTau(se, first.target, ee, last.target),
       td  |-> VerifyTotalDifficulty(se, first.target, 0, ee, last.target, TrueTd(seg))]

TauVerdict(in) ==
  LET t == EpochDifficultyTrend(in.start, in.end)
  IN  [check |-> CheckTau(t, in.n), k |-> CalculateTauExponent(t, in.n)]

PeerVerdict(in) ==
  [td |-> VerifyTotalDifficulty(Epoch(0, 0, 1), in.st, 0,
                                Epoch(in.n, in.ei, 1), in.et, in.gap)]

Verdict(in) ==
  CASE in.kind = "tau"     -> TauVerdict(in)
    [] in.kind = "segment" -> SegmentVerdict(in)
    [] in.kind = "peer"    -> PeerVerdict(in)

NoVerdict == [none |-> TRUE]

Init == input \in Inputs /\ verdict = NoVerdict

Verify ==
  /\ verdict = NoVerdict
  /\ verdict' = Verdict(input)
  /\ UNCHANGED input

Next == Verify
Spec == Init /\ [][Next]_vars

Done == verdict # NoVerdict

TypeOK ==
  /\ input.kind \in {"tau", "segment", "peer"}
  /\ verdict \in {NoVerdict, Verdict(input)}

(***************************************************************************)
(* The tau loops agree with exact powers: check_tau and                    *)
(* calculate_tau_exponent iterate saturating_mul (or truncating division) *)
(* instead of computing start * tau^n, and must still give the bound of   *)
(* the FlyClient paper: check_tau holds iff end <= start * tau^n (or      *)
(* end >= start / tau^n), and the tau exponent is the least k < n with    *)
(* start * tau^(k+1) >= end (or start / tau^(k+1) <= end), None if none.  *)
(***************************************************************************)
ExactReach(t, j) ==
  IF t.kind = "Increased" THEN t.start * Tau^j >= t.end
                          ELSE t.start \div Tau^j <= t.end

TauLoopsMatchExactPowers ==
  LET t == EpochDifficultyTrend(input.start, input.end)
      k == verdict.k
  IN  Done /\ input.kind = "tau" =>
      /\ verdict.check <=> (t.kind = "Unchanged" \/ ExactReach(t, input.n))
      /\ t.kind # "Unchanged" =>
           IF \E j \in 0..(input.n - 1) : ExactReach(t, j + 1)
           THEN /\ k \in 0..(input.n - 1)
                /\ ExactReach(t, k + 1)
                /\ \A j \in 0..(k - 1) : ~ExactReach(t, j + 1)
           ELSE k = None

(***************************************************************************)
(* An honest chain is never rejected: for two headers of a chain whose    *)
(* epoch difficulty changes by at most a factor Tau per epoch, verify_tau *)
(* holds and verify_total_difficulty accepts the true difference of total *)
(* difficulties, i.e. the unaligned part plus the aligned limits computed *)
(* by split_epochs, remove_last_epoch and calculate_total_difficulty_limit *)
(* enclose every honest sum of the middle epochs.                         *)
(***************************************************************************)
HonestSegmentAccepted == Done /\ input.kind = "segment" => verdict = [tau |-> TRUE, td |-> "ok"]

(***************************************************************************)
(* Verifying a peer's tip never panics: whatever start header was proved  *)
(* and whatever end header a peer sends, verify_total_difficulty returns  *)
(* Ok or Err, never overflowing the checked_add in                        *)
(* calculate_total_difficulty_limit (the spec requires a fatal status,    *)
(* not a panic, for adversarial inputs).                                   *)
(***************************************************************************)
NoOverflowPanic == Done => verdict.td # "panic"

=============================================================================

-------------------------- MODULE EpochDifficulty --------------------------
(***************************************************************************)
(* The difficulty arithmetic of the light client's proof verification:    *)
(* the epoch difficulty trend and its tau check, tau exponent, epoch      *)
(* split and total-difficulty limits, and the two verifiers built on      *)
(* them, verify_tau and verify_total_difficulty                           *)
(* (src/protocols/light_client/components/send_last_state_proof.rs).     *)
(*                                                                         *)
(* U256 values are integers of Width bits: saturating_mul saturates at    *)
(* MaxU, checked_add reports an overflow, integer division truncates.     *)
(* A compact target is an element of Targets and CompactToDifficulty is   *)
(* the decoding done by ckb_types (not part of this repository).          *)
(***************************************************************************)
EXTENDS Integers

CONSTANTS
  Width,                  \* bit width standing in for U256
  Tau,                    \* ckb_constant::consensus::TAU
  Targets,                \* compact targets a header may carry
  CompactToDifficulty(_)  \* ckb_types::utilities::compact_to_difficulty

ASSUME Width \in Nat \ {0} /\ Tau \in Nat /\ Tau >= 2

MaxU == 2^Width - 1

SaturatingMul(a, b) == IF a * b > MaxU THEN MaxU ELSE a * b

\* An epoch as EpochNumberWithFraction: its number, the block's index in
\* it and the epoch's length.
Epoch(n, i, l) == [number |-> n, index |-> i, length |-> l]

(***************************************************************************)
(* EpochDifficultyTrend::new                                               *)
(***************************************************************************)
EpochDifficultyTrend(s, e) ==
  [kind  |-> IF s = e THEN "Unchanged" ELSE IF s < e THEN "Increased" ELSE "Decreased",
   start |-> s, end |-> e]

\* Mutant of MulTimes: a wrapping multiplication instead of a saturating one.
RECURSIVE MulTimesWrap(_, _)
MulTimesWrap(x, n) == IF n = 0 THEN x ELSE MulTimesWrap((x * Tau) % (MaxU + 1), n - 1)

\* `for _ in 0..n { x = x.saturating_mul(tau) }` and `x /= tau`.
RECURSIVE MulTimes(_, _), DivTimes(_, _)
MulTimes(x, n) == IF n = 0 THEN x ELSE MulTimes(SaturatingMul(x, Tau), n - 1)
DivTimes(x, n) == IF n = 0 THEN x ELSE DivTimes(x \div Tau, n - 1)

(***************************************************************************)
(* EpochDifficultyTrend::check_tau                                         *)
(***************************************************************************)
CheckTau(trend, epochsSwitchCount) ==
  CASE trend.kind = "Unchanged" -> TRUE
    [] trend.kind = "Increased" -> trend.end <= MulTimes(trend.start, epochsSwitchCount)
    [] trend.kind = "Decreased" -> trend.end >= DivTimes(trend.start, epochsSwitchCount)

(***************************************************************************)
(* EpochDifficultyTrend::calculate_tau_exponent: the loop over k in        *)
(* 0..limit, returning Some(k) at the first hit and None (-1) otherwise.  *)
(***************************************************************************)
None == -1

RECURSIVE TauExponentLoop(_, _, _, _)
TauExponentLoop(trend, tmp, k, limit) ==
  IF k >= limit THEN None
  ELSE LET next == IF trend.kind = "Increased" THEN SaturatingMul(tmp, Tau)
                                                ELSE tmp \div Tau
       IN  IF \/ trend.kind = "Increased" /\ next >= trend.end
              \/ trend.kind = "Decreased" /\ next <= trend.end
           THEN k
           ELSE TauExponentLoop(trend, next, k + 1, limit)

CalculateTauExponent(trend, limit) ==
  IF trend.kind = "Unchanged" THEN 0 ELSE TauExponentLoop(trend, trend.start, 0, limit)

(***************************************************************************)
(* EpochDifficultyTrend::split_epochs: the two groups of epochs, each a   *)
(* direction and a count, decreasing first for the Min limit and          *)
(* increasing first for the Max limit.                                     *)
(***************************************************************************)
Group(dir, count) == [dir |-> dir, count |-> count]

\* Mutant of SplitEpochs: (n - k) / 2 without rounding up.
SplitEpochsFloor(limit, trend, n, k) ==
  LET halfK    == (n - k) \div 2
      increased ==
        CASE limit = "Min" /\ trend.kind = "Unchanged" -> n - (n \div 2)
          [] limit = "Max" /\ trend.kind = "Unchanged" -> n \div 2
          [] limit = "Min" /\ trend.kind = "Increased" -> n - halfK
          [] limit = "Max" /\ trend.kind = "Increased" -> halfK + k
          [] limit = "Min" /\ trend.kind = "Decreased" -> n - (halfK + k)
          [] limit = "Max" /\ trend.kind = "Decreased" -> halfK
  IN  IF limit = "Min"
      THEN [start |-> Group("Decreased", n - increased), end |-> Group("Increased", increased)]
      ELSE [start |-> Group("Increased", increased), end |-> Group("Decreased", n - increased)]

SplitEpochs(limit, trend, n, k) ==
  LET half     == (n + 1) \div 2
      halfK    == (n - k + 1) \div 2
      increased ==
        CASE limit = "Min" /\ trend.kind = "Unchanged" -> n - half
          [] limit = "Max" /\ trend.kind = "Unchanged" -> half
          [] limit = "Min" /\ trend.kind = "Increased" -> n - halfK
          [] limit = "Max" /\ trend.kind = "Increased" -> halfK + k
          [] limit = "Min" /\ trend.kind = "Decreased" -> n - (halfK + k)
          [] limit = "Max" /\ trend.kind = "Decreased" -> halfK
      decreased == n - increased
  IN  IF limit = "Min"
      THEN [start |-> Group("Decreased", decreased), end |-> Group("Increased", increased)]
      ELSE [start |-> Group("Increased", increased), end |-> Group("Decreased", decreased)]

\* EpochCountGroupByTrend::subtract1 (a u64 subtraction).
Subtract1(g) == [g EXCEPT !.count = @ - 1]

\* EpochDifficultyTrendDetails::remove_last_epoch
RemoveLastEpoch(d) ==
  IF d.end.count = 0 THEN [d EXCEPT !.start = Subtract1(@)]
                     ELSE [d EXCEPT !.end = Subtract1(@)]

(***************************************************************************)
(* EpochDifficultyTrend::calculate_total_difficulty_limit: each group     *)
(* walks `curr` down by division or up by saturating multiplication and  *)
(* adds it to `total` with checked_add, which panics on overflow.        *)
(* The result is [total, panic].                                           *)
(***************************************************************************)
RECURSIVE RunGroup(_, _, _, _)
RunGroup(dir, count, curr, total) ==
  IF count = 0 THEN [curr |-> curr, total |-> total, panic |-> FALSE]
  ELSE LET next == IF dir = "Decreased" THEN curr \div Tau ELSE SaturatingMul(curr, Tau)
       IN  IF total + next > MaxU
           THEN [curr |-> next, total |-> total, panic |-> TRUE]
           ELSE RunGroup(dir, count - 1, next, total + next)

CalculateTotalDifficultyLimit(startEpochDifficulty, details) ==
  LET first  == RunGroup(details.start.dir, details.start.count, startEpochDifficulty, 0)
      second == RunGroup(details.end.dir, details.end.count, first.curr, first.total)
  IN  IF first.panic THEN [total |-> first.total, panic |-> TRUE]
                     ELSE [total |-> second.total, panic |-> second.panic]

(***************************************************************************)
(* verify_tau: Err(InvalidCompactTarget), or Ok(result of check_tau).     *)
(***************************************************************************)
VerifyTau(startEpoch, startTarget, endEpoch, endTarget) ==
  IF startEpoch.number = endEpoch.number
  THEN IF startTarget # endTarget THEN "InvalidCompactTarget" ELSE TRUE
  ELSE LET s == CompactToDifficulty(startTarget) * startEpoch.length
           e == CompactToDifficulty(endTarget) * endEpoch.length
       IN  CheckTau(EpochDifficultyTrend(s, e), endEpoch.number - startEpoch.number)

(***************************************************************************)
(* verify_total_difficulty: "ok", "err" (the Err(String) branches) or     *)
(* "panic" (an overflow inside calculate_total_difficulty_limit).         *)
(***************************************************************************)
VerifyTotalDifficulty(startEpoch, startTarget, startTd, endEpoch, endTarget, endTd) ==
  LET td == endTd - startTd
      sb == CompactToDifficulty(startTarget)
      eb == CompactToDifficulty(endTarget)
      n  == endEpoch.number - startEpoch.number
      trend == EpochDifficultyTrend(sb * startEpoch.length, eb * endEpoch.length)
      k  == CalculateTauExponent(trend, n)
      unaligned == sb * (startEpoch.length - startEpoch.index - 1) + eb * (endEpoch.index + 1)
      lo == CalculateTotalDifficultyLimit(sb * startEpoch.length,
                                          RemoveLastEpoch(SplitEpochs("Min", trend, n, k)))
      hi == CalculateTotalDifficultyLimit(sb * startEpoch.length,
                                          RemoveLastEpoch(SplitEpochs("Max", trend, n, k)))
  IN  CASE startTd > endTd -> "err"
        [] n = 0 -> IF td = sb * (endEpoch.index - startEpoch.index) THEN "ok" ELSE "err"
        [] k = None -> "err"
        [] n = 1 -> IF td = unaligned THEN "ok" ELSE "err"
        [] lo.panic \/ hi.panic -> "panic"
        [] OTHER -> IF td < unaligned + lo.total \/ td > unaligned + hi.total
                    THEN "err" ELSE "ok"

=============================================================================

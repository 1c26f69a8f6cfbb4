-------------------------- MODULE MCResponseMatch --------------------------
(***************************************************************************)
(* Checks check_if_response_is_matched over bounded chains, requests and  *)
(* responses. An initial state holds one input; Match runs the matcher on *)
(* it and records the result.                                              *)
(*                                                                         *)
(* A chain is the function from block numbers 0..Tip to block             *)
(* difficulties; a header's total difficulty is the sum up to it, and the *)
(* MMR proof binds every header of a response to the peer's chain at its  *)
(* number, so a response is a set of block numbers of that chain.         *)
(***************************************************************************)
EXTENDS ResponseMatch, FullNode

CONSTANTS
  Tip,           \* number of the peer's last header
  BlockDiffs,    \* difficulties a block may have
  LastNBlocks,   \* last_n_blocks of the protocol
  MaxSamples,    \* most difficulties in a request
  MaxPeerSamples, \* most difficulties in a request of a "peer" input
  Kinds          \* the input sets a run checks: "honest", "peer", "fork"

ASSUME Tip \in Nat \ {0} /\ LastNBlocks \in Nat \ {0}

VARIABLES input, result

vars == <<input, result>>

\* Block 0 is the genesis block, of difficulty 1.
Chains == { c \in [0..Tip -> BlockDiffs \cup {1}] : c[0] = 1 }

Reqs(startNumber, startTd, lastTd) ==
  Requests(LastNBlocks, MaxSamples, Tip, startNumber, startTd, lastTd)

Honest(c, req, withReorg) == HonestNumbers(LastNBlocks, Tip, c, req, withReorg)

HonestInputs(chains) ==
  UNION { { [kind |-> "honest", chain |-> c, req |-> r, numbers |-> Honest(c, r, w)] :
              r \in Reqs(s, TdOf(c, s - 1), TdOf(c, Tip)), w \in BOOLEAN } :
          c \in chains, s \in 1..(Tip - 1) }

\* Any response over the peer's chain to a request of at most
\* MaxPeerSamples difficulties the client built from the same chain's
\* total difficulty at the start.
PeerInputs(chains) ==
  UNION { { [kind |-> "peer", chain |-> c, req |-> r, numbers |-> ns] :
              r \in Requests(LastNBlocks, MaxPeerSamples, Tip, s, TdOf(c, s - 1), TdOf(c, Tip)),
              ns \in SUBSET (1..(Tip - 1)) } :
          c \in chains, s \in 1..(Tip - 1) }

(***************************************************************************)
(* An honest full node on a heavier fork: the client proved a block at    *)
(* startNumber - 1 of its own, lighter chain (total difficulty below the  *)
(* peer's block there) and builds the request from that total difficulty; *)
(* the peer answers honestly, with reorg headers.                          *)
(***************************************************************************)
ForkInputs(chains) ==
  LET ForStart(c, s) ==
        UNION { { [kind |-> "fork", chain |-> c, req |-> r, numbers |-> Honest(c, r, TRUE)] :
                    r \in Reqs(s, clientTd, TdOf(c, Tip)) } :
                clientTd \in s..(TdOf(c, s - 1) - 1) }
  IN  UNION { ForStart(c, s) : c \in chains, s \in 2..(Tip - 1) }

InputsOf(kind) ==
  CASE kind = "honest" -> HonestInputs(Chains)
    [] kind = "peer"   -> PeerInputs(Chains)
    [] kind = "fork"   -> ForkInputs(Chains)

Inputs == UNION { InputsOf(k) : k \in Kinds }

Match(in) ==
  CheckIfResponseIsMatched(LastNBlocks, in.req, HeadersOf(in.chain, in.numbers),
                           HeaderOf(in.chain, Tip))

NoResult == [status |-> "none"]

Init == input \in Inputs /\ result = NoResult

RunMatch ==
  /\ result = NoResult
  /\ result' = Match(input)
  /\ UNCHANGED input

Next == RunMatch
Spec == Init /\ [][Next]_vars

Done == result # NoResult

TypeOK ==
  /\ input.kind \in {"honest", "peer", "fork"}
  /\ result \in {NoResult, Match(input)}

(***************************************************************************)
(* An honest full node's answer to a request the client builds is         *)
(* matched and split into exactly the reorg, sampled and last-n parts it  *)
(* was built from (spec, testable property 3), provided the answer needs  *)
(* no samples or carries at least one.                                     *)
(***************************************************************************)
HonestAnswerSplit ==
  LET ns == input.numbers
  IN  /\ result.status = "Ok"
      /\ result.reorg = Cardinality({ n \in ns : n < input.req.startNumber })
      /\ result.reorg + result.sampled + result.lastN = Cardinality(ns)

HonestResponseMatched ==
  Done /\ input.kind = "honest" /\ (Tip - input.req.startNumber <= LastNBlocks
           \/ HonestSamples(LastNBlocks, Tip, input.chain, input.req) # {})
    => HonestAnswerSplit

(***************************************************************************)
(* Spec, testable property 3, for every honest answer: also when the full *)
(* node drops all samples because they lie at or above the parent total   *)
(* difficulty of its first last-n block, the answer is matched.           *)
(***************************************************************************)
HonestUnsampledResponseMatched == Done /\ input.kind = "honest" => HonestAnswerSplit

(***************************************************************************)
(* A matched response with samples proves every sample: each requested    *)
(* difficulty below the parent total difficulty of the first last-n       *)
(* header lies in (parentTd, td] of one of the sampled headers, so no     *)
(* block the sampling drew was left out.                                   *)
(***************************************************************************)
SampledCoverRequested ==
  LET hs == HeadersOf(input.chain, input.numbers)
      firstLastN == hs[result.reorg + result.sampled + 1]
      sampled == { hs[i] : i \in (result.reorg + 1)..(result.reorg + result.sampled) }
      ds == input.req.difficulties
  IN  Done /\ result.status = "Ok" /\ result.sampled > 0 =>
        \A i \in 1..Len(ds) :
          ds[i] <= firstLastN.parentTd =>
            \E h \in sampled : h.parentTd < ds[i] /\ ds[i] <= h.td

(***************************************************************************)
(* The matcher never panics on a response: `before_boundary_count -       *)
(* reorg_count` in check_if_response_is_matched is a usize subtraction,   *)
(* and the spec requires every malformed or unexpected response to end in *)
(* a status, not a crash. Checked on honest answers from a heavier fork,  *)
(* whose reorg headers may lie at or above the client's boundary.          *)
(***************************************************************************)
MatcherNeverPanics == Done => result.status # "Panic"

=============================================================================

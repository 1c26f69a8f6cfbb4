------------------------- MODULE MCLightClientProve -------------------------
(***************************************************************************)
(* LightClientProve for TLC: a chain of alternating block difficulties    *)
(* 1 and 2, so total difficulties are not block numbers and samples can   *)
(* fall inside a block.                                                    *)
(***************************************************************************)
EXTENDS LightClientProve, TLC

CONSTANTS p1

MCPeers == {p1}

MCChain == [i \in 0..Tip |-> IF i % 2 = 0 THEN 1 ELSE 2]

\* Block difficulties 1, 1, 2, 1, 1, 2, ...: a chain on which an honest
\* answer whose sample falls in the last-n region is rejected by the
\* matcher (the match_unsampled run), so that the client must retry.
MCChainUnsampled == [i \in 0..Tip |-> IF i % 3 = 2 THEN 2 ELSE 1]

TypeOK ==
  /\ connected \subseteq Peers
  /\ \A p \in Peers :
       /\ request[p] = NoRequest \/ request[p].tip \in 2..Tip
       /\ proveState[p] = NoState \/ proveState[p].tip \in 2..Tip
       /\ p \notin connected => request[p] = NoRequest /\ proveState[p] = NoState
  /\ updateDue \in [Peers -> BOOLEAN]
  /\ \A m \in net : m.peer \in Peers /\ m.tip \in 1..Tip /\ m.numbers \subseteq 1..Tip
  /\ \A g \in asks : g.peer \in Peers /\ g.tip \in 2..Tip
  /\ \A p \in Peers :
       \/ txsRequest[p] = NoTxsRequest
       \/ p \in connected /\ txsRequest[p].last \in 2..Tip /\ txsRequest[p].txs = TxBlocks
  /\ \A m \in txsNet : m.peer \in Peers /\ m.last \in AnswerLastHeaders
  /\ fetched \subseteq [tx : TxBlocks, header : TxHeaders]

(***************************************************************************)
(* The refinement mapping: a peer's proved header is the last header of   *)
(* its ProveState, its outstanding request the last header of its         *)
(* ProveRequest. A recheck with skip_check_tau keeps the request's header *)
(* and is a stuttering step of the abstract machine.                       *)
(***************************************************************************)
ProvedOf(p)  == IF proveState[p] = NoState THEN 0 ELSE proveState[p].tip
PendingOf(p) == IF request[p] = NoRequest THEN 0 ELSE request[p].tip

Abs == INSTANCE ProveAbstract WITH
         connected <- connected,
         proved <- [p \in Peers |-> ProvedOf(p)],
         pending <- [p \in Peers |-> PendingOf(p)]

(***************************************************************************)
(* The handler and the registry implement the abstract prove state        *)
(* machine: whatever responses arrive, late or twice, execute commits     *)
(* only the outstanding request and ends it (commit_prove_state), every  *)
(* new request is for a header above the proved one                      *)
(* (build_prove_request_content's start), and remove_peer drops both.     *)
(***************************************************************************)
AbsSpec == Abs!Spec

(***************************************************************************)
(* A peer that stays connected is in the end proved at the chain's tip    *)
(* for good, once the environment stops its faults: the sweeper's         *)
(* resubmission (get_peers_which_require_updating), the full node's      *)
(* answer and execute's commit or recheck make progress together, and no *)
(* answer the handler rejects leaves the peer waiting for ever.           *)
(***************************************************************************)
ProvedAtTip ==
  \A p \in Peers :
    (<>[](p \in connected) /\ <>[][~Fault(p)]_vars) => <>[](ProvedOf(p) = Tip)
=============================================================================

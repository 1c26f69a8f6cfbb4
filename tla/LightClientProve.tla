-------------------------- MODULE LightClientProve --------------------------
(***************************************************************************)
(* The per-peer prove state of the light client (peers.rs) driven by the  *)
(* SendLastStateProof handler (SendLastStateProofProcess::execute in      *)
(* components/send_last_state_proof.rs), over a network that loses,       *)
(* duplicates and reorders messages and peers that connect and           *)
(* disconnect. The GetLastStateProof requests the client sends and the    *)
(* SendLastStateProof answers and announcements of its peers are two     *)
(* channels; a full node answers the request it received, which may have *)
(* been superseded since.                                                  *)
(*                                                                         *)
(* Every peer serves the one chain Chain, whose blocks 0..Tip are known  *)
(* to the model; a header is its block number. The checks the handler     *)
(* makes on header contents that the model does not carry (chain root,    *)
(* PoW, MMR proof) pass for headers of Chain; the tau and total-          *)
(* difficulty verdicts, checked on their own in EpochDifficulty, are      *)
(* free choices when peers may misbehave and pass when they are honest.   *)
(***************************************************************************)
EXTENDS ResponseMatch, FullNode

CONSTANTS
  Peers,         \* peer indexes
  Chain,         \* block difficulties of the served chain, 0..Tip
  Tip,           \* the highest block any peer announces
  LastNBlocks,   \* LightClientProtocol::last_n_blocks
  MaxSamples,    \* most difficulties the client samples in a request
  MaxInFlight,   \* most messages in flight at once, in both channels
  HonestPeers,   \* TRUE: peers answer as full nodes; FALSE: any headers
  TxBlocks       \* blocks of Chain whose transactions the client fetches

VARIABLES
  connected,     \* the keys of Peers::inner
  request,       \* PeerState::prove_request of each peer
  proveState,    \* PeerState::prove_state of each peer
  updateDue,     \* Peer::update_timestamp < before_timestamp, per peer
  net,           \* SendLastStateProof messages in flight
  asks,          \* GetLastStateProof messages in flight
  txsRequest,    \* PeerState's transactions proof request of each peer
  txsNet,        \* SendTransactionsProof messages in flight
  fetched        \* transactions stored by add_fetched_tx, with their block

txsVars == <<txsRequest, txsNet, fetched>>
vars == <<connected, request, proveState, updateDue, net, asks, txsRequest, txsNet, fetched>>

NoRequest == [none |-> "request"]
NoState   == [none |-> "state"]
NoTxsRequest == [none |-> "txs"]

Header(i) == HeaderOf(Chain, i)

(***************************************************************************)
(* ProveRequest: the announced last header, the GetLastStateProof content *)
(* and skip_check_tau. ProveState: the proved last header and the         *)
(* reorg_last_headers and last_headers kept with it.                      *)
(***************************************************************************)
Request(tip, content, skipTau) == [tip |-> tip, content |-> content, skipTau |-> skipTau]

\* build_prove_request_content (spec): start after the proved header, or
\* at block 1 (block 0 has no chain root).
StartNumber(ps) == IF ps = NoState THEN 1 ELSE ps.tip

ContentsFrom(s, tip) == Requests(LastNBlocks, MaxSamples, tip, s, TdOf(Chain, s - 1), TdOf(Chain, tip))

Contents(ps, tip) == ContentsFrom(StartNumber(ps), tip)

\* The GetLastStateProof message that carries a prove request's content.
Ask(p, req) == [peer |-> p, tip |-> req.tip, content |-> req.content]

\* Mutant of IsSameAs: any last header taken as the announced one.
IsSameAsAny(req, lastHeader) == TRUE

\* ProveRequest::is_same_as: the response is about the announced header.
IsSameAs(req, lastHeader) == req.tip = lastHeader

\* check_continuous_headers: every header is the parent of the next one.
ContinuousHeaders(ns) == \A i \in 1..(Len(ns) - 1) : ns[i] + 1 = ns[i + 1]

\* Mutant of LastHeaders: the top-up takes one old header too few.
LastHeadersShortTopUp(ps, ns, reorg, lastN) ==
  LET new == SubSeq(ns, Len(ns) - lastN + 1, Len(ns))
      old == IF reorg = 0 THEN ps.last ELSE SubSeq(ns, 1, reorg)
      keep == LastNBlocks - lastN - 1
      oldSkip == IF Len(old) > keep THEN Len(old) - keep ELSE 0
  IN  CASE lastN >= LastNBlocks -> SubSeq(new, lastN - LastNBlocks + 1, lastN)
        [] ps # NoState     -> IF old = <<>> THEN new ELSE SubSeq(old, oldSkip + 1, Len(old)) \o new
        [] reorg = 0        -> new
        [] OTHER            -> "invalid"

(***************************************************************************)
(* The last_headers a commit keeps: the last-n headers, cut to            *)
(* last_n_blocks, or topped up from the old last_headers (the reorg       *)
(* headers when there are some); "invalid" for reorg headers without a    *)
(* previous prove state.                                                   *)
(***************************************************************************)
LastHeaders(ps, ns, reorg, lastN) ==
  LET new == SubSeq(ns, Len(ns) - lastN + 1, Len(ns))
      old == IF reorg = 0 THEN ps.last ELSE SubSeq(ns, 1, reorg)
      keep == LastNBlocks - lastN
      oldSkip == IF Len(old) > keep THEN Len(old) - keep ELSE 0
  IN  CASE lastN >= LastNBlocks -> SubSeq(new, lastN - LastNBlocks + 1, lastN)
        [] ps # NoState     -> IF old = <<>> THEN new ELSE SubSeq(old, oldSkip + 1, Len(old)) \o new
        [] reorg = 0        -> new
        [] OTHER            -> "invalid"

\* Mutant of CommitProveState: the prove request is kept.
CommitProveStateKeepRequest(req, state) ==
  [request |-> req, state |-> state, due |-> FALSE, ask |-> FALSE]

\* Peers::commit_prove_state: the state is set, the request cleared and
\* the update timestamp set to now.
CommitProveState(req, state) ==
  [request |-> NoRequest, state |-> state, due |-> FALSE, ask |-> FALSE]

\* ProveState::new_from_request: the request's last header with the
\* reorg_last_headers and last_headers of the response.
NewFromRequest(req, reorg, last) == [tip |-> req.tip, reorg |-> reorg, last |-> last]

(***************************************************************************)
(* The tau and total-difficulty verdicts a response may get.               *)
(***************************************************************************)
TauFailures(req, sampled) ==
  IF req.skipTau \/ sampled = 0 \/ HonestPeers THEN {FALSE} ELSE BOOLEAN

TdVerdicts(ps, sampled) ==
  IF sampled = 0 \/ ps = NoState \/ HonestPeers THEN {TRUE} ELSE BOOLEAN

(***************************************************************************)
(* The outcomes of SendLastStateProofProcess::execute for message m, each *)
(* [request, state, due, ask]: the peer's new prove request, prove state, *)
(* whether its update is due and whether the handler sends the new       *)
(* request. Every early return leaves the first three as they were.       *)
(***************************************************************************)
Unchanged(p) ==
  [request |-> request[p], state |-> proveState[p], due |-> updateDue[p], ask |-> FALSE]

\* A new prove request for tip, sent to the peer (on a new last state, or
\* with skip_check_tau after a failed tau check); when no request can be
\* built the handler only logs and returns Ok.
NewRequest(p, tip, skipTau) ==
  LET ps == proveState[p]
  IN  IF StartNumber(ps) >= tip \/ Contents(ps, tip) = {} THEN {Unchanged(p)}
      ELSE { [request |-> Request(tip, c, skipTau), state |-> ps, due |-> FALSE, ask |-> TRUE]
             : c \in Contents(ps, tip) }

Execute(p, m) ==
  LET req == request[p]
      ps  == proveState[p]
      hs  == HeadersOf(Chain, m.numbers)
      ns  == SetToSortSeq(m.numbers, <)
      res == CheckIfResponseIsMatched(LastNBlocks, req.content, hs, Header(m.tip))
      r   == res.reorg
      s   == res.sampled
      l   == res.lastN
      checked ==
        /\ res.status = "Ok"
        /\ r # 0 => ContinuousHeaders(SubSeq(ns, 1, r - 1))
        /\ ContinuousHeaders(SubSeq(ns, r + s + 1, Len(ns)))
      lh == LastHeaders(ps, ns, r, l)
  IN  CASE p \notin connected \/ req = NoRequest -> {Unchanged(p)}
        [] ~IsSameAs(req, m.tip) /\ ~m.proof ->
             \* process_last_state, then get_last_state_proof
             NewRequest(p, m.tip, FALSE)
        [] ~IsSameAs(req, m.tip) \/ ~checked -> {Unchanged(p)}
        [] OTHER ->
             UNION { CASE ~tdOk -> {Unchanged(p)}
                       [] tauFail -> NewRequest(p, m.tip, TRUE)
                       [] lh = "invalid" -> {Unchanged(p)}
                       [] OTHER ->
                            {CommitProveState(req, NewFromRequest(req, SubSeq(ns, 1, r), lh))}
                     : tauFail \in TauFailures(req, s), tdOk \in TdVerdicts(ps, s) }

(***************************************************************************)
(* Actions                                                                 *)
(***************************************************************************)

\* Peers::add_peer: a new entry with an empty PeerState, updated now.
AddPeer(p) ==
  /\ p \notin connected
  /\ connected' = connected \cup {p}
  /\ request' = [request EXCEPT ![p] = NoRequest]
  /\ proveState' = [proveState EXCEPT ![p] = NoState]
  /\ updateDue' = [updateDue EXCEPT ![p] = FALSE]
  /\ txsRequest' = [txsRequest EXCEPT ![p] = NoTxsRequest]
  /\ UNCHANGED <<net, asks, txsNet, fetched>>

\* Mutant of RemovePeer: the peer's state outlives its entry.
RemovePeerKeepState(p) ==
  /\ p \in connected
  /\ connected' = connected \ {p}
  /\ UNCHANGED <<request, proveState, updateDue, net, asks>>
  /\ UNCHANGED txsVars

\* Peers::remove_peer: the entry goes; messages in flight stay.
RemovePeer(p) ==
  /\ p \in connected
  /\ connected' = connected \ {p}
  /\ request' = [request EXCEPT ![p] = NoRequest]
  /\ proveState' = [proveState EXCEPT ![p] = NoState]
  /\ updateDue' = [updateDue EXCEPT ![p] = FALSE]
  /\ txsRequest' = [txsRequest EXCEPT ![p] = NoTxsRequest]
  /\ UNCHANGED <<net, asks, txsNet, fetched>>

\* PeerState::is_ready: the peer has a prove request or a prove state.
IsReady(p) == request[p] # NoRequest \/ proveState[p] # NoState

\* Mutant of PeersWhichRequireUpdating: only peers that are not ready.
PeersWhichRequireUpdatingNotReady == {p \in connected : ~IsReady(p)}

\* Peers::get_peers_which_require_updating: peers not ready, or whose
\* update timestamp is older than the sweeper's horizon.
PeersWhichRequireUpdating == {p \in connected : ~IsReady(p) \/ updateDue[p]}

(***************************************************************************)
(* Time passes the sweeper's horizon for a connected peer: its            *)
(* update_timestamp is now older than before_timestamp (spec, section 5:  *)
(* the sweeper marks such peers as requiring a refresh).                   *)
(***************************************************************************)
Expire(p) ==
  /\ p \in connected
  /\ ~updateDue[p]
  /\ updateDue' = [updateDue EXCEPT ![p] = TRUE]
  /\ UNCHANGED <<connected, request, proveState, net, asks>>
  /\ UNCHANGED txsVars

\* Messages of both channels in flight.
InFlightCount == Cardinality(net) + Cardinality(asks) + Cardinality(txsNet)

\* The client's send never blocks: a request sent when MaxInFlight
\* messages are in flight (n being the answers) is lost.
Post(n, g) ==
  IF Cardinality(n) + Cardinality(asks) + Cardinality(txsNet) < MaxInFlight THEN asks \cup {g} ELSE asks

\* Mutant of SubmitProveRequest: no check that the tip is above the proved
\* header.
SubmitProveRequestAnyTip(p, tip) ==
  /\ p \in PeersWhichRequireUpdating
  /\ \E c \in Contents(proveState[p], tip) :
       /\ request' = [request EXCEPT ![p] = Request(tip, c, FALSE)]
       /\ asks' = Post(net, Ask(p, Request(tip, c, FALSE)))
  /\ updateDue' = [updateDue EXCEPT ![p] = FALSE]
  /\ UNCHANGED <<connected, proveState, net>>
  /\ UNCHANGED txsVars

(***************************************************************************)
(* The client asks a peer the sweeper selected for a proof of its         *)
(* announced tip (process_last_state and get_last_state_proof, which      *)
(* Peers::submit_prove_request ends): the request is replaced and the    *)
(* update timestamp set to now.                                            *)
(***************************************************************************)
SubmitProveRequest(p, tip) ==
  /\ p \in PeersWhichRequireUpdating
  /\ StartNumber(proveState[p]) < tip
  /\ \E c \in Contents(proveState[p], tip) :
       /\ request' = [request EXCEPT ![p] = Request(tip, c, FALSE)]
       /\ asks' = Post(net, Ask(p, Request(tip, c, FALSE)))
  /\ updateDue' = [updateDue EXCEPT ![p] = FALSE]
  /\ UNCHANGED <<connected, proveState, net>>
  /\ UNCHANGED txsVars

Send(m) ==
  /\ InFlightCount < MaxInFlight
  /\ net' = net \cup {m}
  /\ UNCHANGED <<connected, request, proveState, updateDue>>
  /\ UNCHANGED txsVars

\* A connected peer answers a GetLastStateProof it received with headers
\* and a proof; the answer takes the request's place in flight.
PeerReply(g) ==
  /\ g.peer \in connected
  /\ \E ns \in IF HonestPeers
               THEN {HonestNumbers(LastNBlocks, g.tip, Chain, g.content, FALSE)}
               ELSE SUBSET (1..(g.tip - 1)) :
       net' = net \cup {[peer |-> g.peer, tip |-> g.tip, proof |-> TRUE, numbers |-> ns]}
  /\ asks' = asks \ {g}
  /\ UNCHANGED <<connected, request, proveState, updateDue>>
  /\ UNCHANGED txsVars

\* A peer announces a tip: a SendLastStateProof with an empty proof.
PeerAnnounce(p, tip) ==
  /\ p \in connected
  /\ Send([peer |-> p, tip |-> tip, proof |-> FALSE, numbers |-> {}])
  /\ UNCHANGED asks

(***************************************************************************)
(* The handler runs on a delivered message; the network may deliver it    *)
(* again later (keep) or drop it.                                          *)
(***************************************************************************)
ReceiveSendLastStateProof(m) ==
  LET p == m.peer
  IN  /\ m \in net
      /\ \E keep \in BOOLEAN, o \in Execute(p, m) :
           /\ net' = IF keep THEN net ELSE net \ {m}
           /\ request' = [request EXCEPT ![p] = o.request]
           /\ proveState' = [proveState EXCEPT ![p] = o.state]
           /\ updateDue' = [updateDue EXCEPT ![p] = o.due]
           /\ asks' = IF o.ask THEN Post(net', Ask(p, o.request)) ELSE asks
      /\ UNCHANGED connected
      /\ UNCHANGED txsVars

Lose(m) ==
  /\ m \in net
  /\ net' = net \ {m}
  /\ UNCHANGED <<connected, request, proveState, updateDue, asks>>
  /\ UNCHANGED txsVars

LoseAsk(g) ==
  /\ g \in asks
  /\ asks' = asks \ {g}
  /\ UNCHANGED <<connected, request, proveState, updateDue, net>>
  /\ UNCHANGED txsVars

(***************************************************************************)
(* The SendTransactionsProof handler (components/send_transactions_      *)
(* proof.rs). A transaction is named by the block of Chain that contains  *)
(* it. Besides blocks of Chain a peer may use Orphan, a block with valid *)
(* PoW and the same transactions on a fork whose last header is ForkTip,  *)
(* and Forged, a header without valid PoW. They are numbered below the   *)
(* genesis block so that they compare with the blocks of Chain.           *)
(***************************************************************************)
Orphan  == -1
Forged  == -2
ForkTip == -3

\* The headers of filtered blocks and the last headers a peer may send.
TxHeaders   == TxBlocks \cup {Orphan, Forged}
AnswerLastHeaders == (1..Tip) \cup {ForkTip}

\* The blocks the MMR root of a last header commits to: the blocks of its
\* chain below it.
Committed(last) == IF last = ForkTip THEN {Orphan} ELSE 1..(last - 1)

\* The transactions a header's transactions root commits to: those of the
\* block, and for a forged header whatever its root was made from.
InBlock(tx, header) == header \in {Forged, Orphan, tx}

\* The client asks a proved peer for the transactions of TxBlocks under
\* the last header it proved (the fetcher of the light client protocol).
SubmitTxsProofRequest(p) ==
  /\ p \in connected
  /\ TxBlocks # {}
  /\ proveState[p] # NoState
  /\ txsRequest[p] = NoTxsRequest
  /\ txsRequest' = [txsRequest EXCEPT ![p] = [last |-> proveState[p].tip, txs |-> TxBlocks]]
  /\ UNCHANGED <<connected, request, proveState, updateDue, net, asks, txsNet, fetched>>

\* The answers a peer may send: a full node proves the requested
\* transactions below the requested last header; any peer sends anything.
TxsAnswers(p) ==
  IF HonestPeers
  THEN IF txsRequest[p] = NoTxsRequest THEN {}
       ELSE { [peer |-> p, last |-> txsRequest[p].last,
               blocks |-> {[header |-> b, tx |-> b] : b \in txsRequest[p].txs \cap Committed(txsRequest[p].last)}] }
  ELSE [peer : {p}, last : AnswerLastHeaders,
        blocks : {{}} \cup {{b} : b \in [header : TxHeaders, tx : TxBlocks]}]

PeerSendTxsProof(p) ==
  /\ p \in connected
  /\ InFlightCount < MaxInFlight
  /\ \E m \in TxsAnswers(p) : txsNet' = txsNet \cup {m}
  /\ UNCHANGED <<connected, request, proveState, updateDue, net, asks, txsRequest, fetched>>

\* Mutant of IsSameLastHash: the answer's own last header is trusted.
IsSameLastHashAny(req, last) == TRUE

\* original_request.last_hash() == last_header.header().hash()
IsSameLastHash(req, last) == req.last = last

\* check_tx_hashes: every received transaction was asked for.
TxHashesOk(req, m) == \A b \in m.blocks : b.tx \in req.txs

\* check_pow_for_headers, verify_mmr_proof against the answer's last
\* header, and the transactions merkle proof of every filtered block.
ProofOk(m) ==
  \A b \in m.blocks :
    /\ b.header # Forged
    /\ b.header \in Committed(m.last)
    /\ InBlock(b.tx, b.header)

(***************************************************************************)
(* execute_internally: the sets of (transaction, block) pairs it stores.  *)
(* An answer about another last header stores nothing (process_last_state *)
(* and mark_fetching_txs_timeout when it carries no data, UnexpectedResponse *)
(* otherwise); add_transaction decides which verified transactions are     *)
(* still being fetched, and only those are stored.                         *)
(***************************************************************************)
TxsStored(p, m) ==
  LET req == txsRequest[p]
  IN  IF \/ p \notin connected \/ req = NoTxsRequest
         \/ ~IsSameLastHash(req, m.last)
         \/ ~TxHashesOk(req, m) \/ ~ProofOk(m)
      THEN {{}}
      ELSE {{[tx |-> b.tx, header |-> b.header] : b \in added} : added \in SUBSET m.blocks}

\* execute: the handler, then update_txs_proof_request(peer, None) on every
\* outcome. The network may deliver the answer again later.
ReceiveSendTransactionsProof(m) ==
  /\ m \in txsNet
  /\ \E keep \in BOOLEAN, stored \in TxsStored(m.peer, m) :
       /\ txsNet' = IF keep THEN txsNet ELSE txsNet \ {m}
       /\ fetched' = fetched \cup stored
  /\ txsRequest' = [txsRequest EXCEPT ![m.peer] = NoTxsRequest]
  /\ UNCHANGED <<connected, request, proveState, updateDue, net, asks>>

LoseTxsProof(m) ==
  /\ m \in txsNet
  /\ txsNet' = txsNet \ {m}
  /\ UNCHANGED <<connected, request, proveState, updateDue, net, asks, txsRequest, fetched>>

Init ==
  /\ connected = {}
  /\ request = [p \in Peers |-> NoRequest]
  /\ proveState = [p \in Peers |-> NoState]
  /\ updateDue = [p \in Peers |-> FALSE]
  /\ net = {}
  /\ asks = {}
  /\ txsRequest = [p \in Peers |-> NoTxsRequest]
  /\ txsNet = {}
  /\ fetched = {}

Next ==
  \/ \E p \in Peers : AddPeer(p) \/ RemovePeer(p) \/ Expire(p)
  \/ \E p \in Peers, t \in 1..Tip : SubmitProveRequest(p, t) \/ PeerAnnounce(p, t)
  \/ \E g \in asks : PeerReply(g) \/ LoseAsk(g)
  \/ \E m \in net : ReceiveSendLastStateProof(m) \/ Lose(m)
  \/ \E p \in Peers : SubmitTxsProofRequest(p) \/ PeerSendTxsProof(p)
  \/ \E m \in txsNet : ReceiveSendTransactionsProof(m) \/ LoseTxsProof(m)

Spec == Init /\ [][Next]_vars

\* The handler runs on a message and the network drops it.
ReceiveOnce(m) == ReceiveSendLastStateProof(m) /\ m \notin net'

\* No request to peer p, and no proof from it, is in flight.
Idle(p) == \A m \in asks \cup {n \in net : n.proof} : m.peer # p

(***************************************************************************)
(* The faults of the environment for peer p: a message lost (a drop the  *)
(* handler would have made itself is none) or delivered again, an        *)
(* announcement of a tip below the chain's, the update timestamp         *)
(* expiring while a request of the peer or its proof is in flight (the   *)
(* sweeper's horizon shorter than a round trip), and a new request lost  *)
(* because MaxInFlight messages are in flight.                            *)
(***************************************************************************)
Fault(p) ==
  \/ \E m \in net : m.peer = p /\ Lose(m) /\ ~ReceiveOnce(m)
  \/ \E m \in net : m.peer = p /\ ReceiveSendLastStateProof(m) /\ m \in net'
  \/ \E g \in asks : g.peer = p /\ LoseAsk(g)
  \/ \E t \in 1..(Tip - 1) : PeerAnnounce(p, t)
  \/ Expire(p) /\ ~Idle(p)
  \/ request'[p] \notin {request[p], NoRequest} /\ asks' = asks

\* The announcements (proof FALSE) or the proofs of peer p for tip t in
\* flight.
InFlight(p, t, proof) == {m \in net : m.peer = p /\ m.tip = t /\ m.proof = proof}

\* The handler runs on one of them and the network drops it.
Deliver(p, t, proof) == \E m \in InFlight(p, t, proof) : ReceiveOnce(m)

\* Sampling content c draws a difficulty below the last-n region of the
\* served chain, or needs no samples.
DrawsBelowLastN(c) ==
  LET lastNStart == HonestLastNStart(LastNBlocks, Tip, Chain, c)
  IN  \/ c.difficulties = <<>>
      \/ \E i \in DOMAIN c.difficulties : c.difficulties[i] <= TdOf(Chain, lastNStart - 1)

\* The sweeper submits a request for the tip with such a content.
SubmitSampledBelowLastN(p) ==
  SubmitProveRequest(p, Tip) /\ DrawsBelowLastN(request'[p].content)

(***************************************************************************)
(* Fairness: a full node answers the requests it receives, time passes,  *)
(* and the network delivers the announcements and the proofs in flight;  *)
(* the last is weak fairness of Deliver written out: execute returns on  *)
(* every message, so <<Deliver(p, t, proof)>>_vars is enabled exactly    *)
(* when InFlight(p, t, proof) is not empty.                               *)
(* The client's sweeper loop submits a request for every peer that       *)
(* requires updating, and as the samples are drawn at random over the    *)
(* total difficulty range, a draw that falls below the last-n region,    *)
(* possible again and again, happens in the end (strong fairness).       *)
(***************************************************************************)
Fairness ==
  \A p \in Peers :
    /\ WF_vars(\E g \in asks : g.peer = p /\ PeerReply(g))
    /\ WF_vars(Expire(p) /\ Idle(p))
    /\ SF_vars(SubmitSampledBelowLastN(p))
    /\ \A t \in 1..Tip, proof \in BOOLEAN :
         <>[](InFlight(p, t, proof) # {}) => []<><<Deliver(p, t, proof)>>_vars

FairSpec == Spec /\ Fairness

(***************************************************************************)
(* Properties                                                              *)
(***************************************************************************)

\* The block numbers lo..hi as a sequence.
NumberRange(lo, hi) == [i \in 1..(hi - lo + 1) |-> lo + i - 1]

(***************************************************************************)
(* The last_headers kept with a proved header are the blocks right below  *)
(* it, up to last_n_blocks of them and never block 0 (spec, data model    *)
(* of ProveState): the commit in execute cuts the last-n headers of the   *)
(* response or tops them up from the previous prove state, and the next   *)
(* request starts from the headers it keeps.                               *)
(***************************************************************************)
LastHeadersAreTipSuffix ==
  \A p \in connected :
    LET ps == proveState[p]
        lo == IF ps.tip - LastNBlocks > 1 THEN ps.tip - LastNBlocks ELSE 1
    IN  ps # NoState => ps.last = NumberRange(lo, ps.tip - 1)

(***************************************************************************)
(* The reorg_last_headers kept with a proved header are contiguous blocks *)
(* (spec, data model of ProveState): execute checks their parent links   *)
(* with check_continuous_headers before the commit.                       *)
(***************************************************************************)
ReorgHeadersContinuous ==
  \A p \in connected : proveState[p] # NoState => ContinuousHeaders(proveState[p].reorg)

(***************************************************************************)
(* Every transaction the handler stores is recorded with a block of the   *)
(* chain the client proved, and that block contains it, whatever the     *)
(* peers send: execute_internally proves the filtered blocks only against *)
(* the last header it asked about, and checks PoW, the MMR proof and the  *)
(* transactions merkle proof before add_fetched_tx.                       *)
(***************************************************************************)
FetchedTxsOnChain ==
  \A f \in fetched : f.header \in 1..Tip /\ f.tx = f.header

=============================================================================

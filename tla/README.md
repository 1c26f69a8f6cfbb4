# TLA+ models of ckb-light-client

These are TLA+ specifications of the CKB light client (`src/`), together with
the TLC configurations that check them. The models cover:

- the FlyClient proof verification:
  - the difficulty arithmetic;
  - the matcher for sampling responses;
- the per-peer prove state machine that the `SendLastStateProof` handler drives;
- the resolution of transactions in `verify.rs`;
- the indexer query RPCs of `service.rs` (`get_cells`, `get_transactions`,
  `get_cells_capacity`) and their cursor paging.

Every definition that models code is listed in `PROJECT.json` under `map`,
with the source lines it translates.

## The system

| Source | What it does |
|---|---|
| `protocols/light_client/peers.rs` | `Peers` is the registry of connected peers. Each entry holds a `PeerState` with an optional `ProveRequest` and an optional `ProveState`, plus an update timestamp. Operations: `add_peer`, `remove_peer`, `submit_prove_request`, `commit_prove_state`, and the sweeper queries `get_peers_which_require_updating` and `get_peers_which_are_proved`. |
| `components/send_last_state_proof.rs` | The handler for a peer's `SendLastStateProof` answer. See the steps below. |
| `components/send_transactions_proof.rs` | The handler for `SendTransactionsProof`. It checks the proof of fetched transactions against the peer's prove state and stores the transactions. |
| `verify.rs` | `verify_tx`: `resolve_tx` resolves inputs and cell deps, with dep groups expanded, against the cell store. The external `ckb_verification` verifiers then run. |
| `service.rs` | The JSON-RPC service: scripts, cells, transactions, and the fetch of transactions and headers. |
| `subcmds.rs`, `types.rs` | Start-up wiring and configuration. |

The `SendLastStateProof` handler (`SendLastStateProofProcess::execute`) works in this order:

1. It looks up the peer's `ProveRequest`.
2. If the peer announces a new tip, it asks again.
3. It runs `check_if_response_is_matched`, which splits the headers into:
   - reorg headers;
   - sampled headers;
   - last-n headers.
4. It checks:
   - the chain roots;
   - the proof of work;
   - continuity (`check_continuous_headers`);
   - the MMR proof;
   - tau (`verify_tau`);
   - the total difficulty (`verify_total_difficulty`).
5. It asks again with `skip_check_tau` when only the tau check failed.
6. Otherwise it builds `last_headers` and commits a new `ProveState`.

The handler and the registry interact through the peer's `PeerState`. A
request is submitted by the client, for example when a peer announces a new tip. An
answer is matched against that request, and a commit replaces the prove state
and clears the request. Messages can arrive late, twice or never, and peers
connect and disconnect at any time.

Parts of this protocol are not in this repository. The request builder
(`build_prove_request_content`, `process_last_state`,
`get_last_state_proof`) and the full node that answers are modelled from the
spec (sections 2, 3 and 4.C) in `FullNode.tla`. Their map entries are marked
`spec_modelled`.

## Modules

| Module | Models | State and steps |
|---|---|---|
| `EpochDifficulty` | `EpochDifficultyTrend::{new, check_tau, calculate_tau_exponent, split_epochs, calculate_total_difficulty_limit}`, `subtract1`, `remove_last_epoch`, `verify_tau`, `verify_total_difficulty` | Pure operators, with RECURSIVE for the loops. Each U256 value is an integer of `Width` bits: `saturating_mul` saturates at `2^Width - 1`, `checked_add` reports overflow (the code panics), and division truncates. `compact_to_difficulty` is a table constant. |
| `ResponseMatch` | `check_if_response_is_matched` | A pure operator on header records `[number, td, parentTd]`. The nested sample loop is `ConsumeSamples` and `MatchSamples`. `"Panic"` stands for the usize underflow of `before_boundary_count - reorg_count`. |
| `FullNode` | The request builder and an honest full node (from the spec) | Operators. `Requests` gives every request the client may build. `HonestNumbers` gives the blocks an honest node returns. |
| `LightClientProve` | `Peers` and `PeerState` (peers.rs) together with `SendLastStateProofProcess::execute` | Variables: `connected` (the keys of `Peers::inner`), `request` and `proveState` (the `PeerState` of each peer), `updateDue` (the peer's `update_timestamp` is older than the sweeper's `before_timestamp`), `net` (the SendLastStateProof answers and announcements in flight) and `asks` (the GetLastStateProof requests in flight). Actions: `AddPeer`, `RemovePeer`, `Expire` (time passing), `SubmitProveRequest` (only for a peer in `PeersWhichRequireUpdating`, i.e. `get_peers_which_require_updating`; it sends the request), `PeerReply` (a full node answers a request it received, which may be superseded by then) / `PeerAnnounce` (the peer's side), `ReceiveSendLastStateProof` (execute, the whole handler, as `Execute`, sending the new request when it makes one), `Lose` and `LoseAsk`. A submit and a commit renew the timestamp. At most `MaxInFlight` messages are in flight over all channels; the client's send never blocks, so a request sent beyond that is lost (`Post`). The same module holds the `SendTransactionsProof` handler: `txsRequest` (a peer's transactions proof request), `txsNet` (answers in flight) and `fetched` (what `add_fetched_tx` stored, as transaction and block). `SubmitTxsProofRequest` asks a proved peer for the transactions of `TxBlocks` under its proved header, `PeerSendTxsProof` sends an answer (`TxsAnswers`), and `ReceiveSendTransactionsProof` is `execute`: `TxsStored` is `execute_internally` with its early returns (`IsSameLastHash`, `TxHashesOk`, `ProofOk`), and the request is cleared on every outcome. |
| `ProveAbstract` | What the prove state machine promises (spec 3, 4.G, 5) | Per peer a proved header and an outstanding request, as block numbers. `Ask` replaces the request by one above the proved header; `Prove` proves exactly the outstanding request and ends it; `Connect` / `Disconnect` reset the slot. `MCLightClientProve` maps the detailed state onto it (`ProvedOf`, `PendingOf`) and checks `AbsSpec`. |
| `BlockFilterRpc` | `build_query_options`, `build_filter_options`, `get_cells`, `get_transactions`, `get_cells_capacity` (service.rs) | Pure operators over a store snapshot `[index, txs]`: `index` maps the byte-sequence keys of the cell and tx indexes to transaction hashes. `Iterate` is RocksDB's `IteratorMode::From` (Forward: keys at or after the start; Reverse: a seek-for-prev) with `skip`; `TakeWhilePrefix`, the filter closures (`CellPasses`, its copy `CapacityCellPasses`, `TxPasses`), the limit, and the grouped loop with its early `break` and `last_key` on every scanned key are translated with each early return. Keys are decoded with the code's slice bounds (`Bytes`, `FromBE`). |
| `ResolveTx` | `resolve_tx` and `parse_dep_group_data` (verify.rs) | Pure operators. The `resolved_cells` cache, keyed by `(out_point, eager_load)`, is threaded through the input loop, the dep loop and the sub-out-point loop, with every early return. |

The MC modules (`MCEpochDifficulty`, `MCResponseMatch`, `MCLightClientProve`,
`MCResolveTx`, `MCBlockFilterRpc`) instantiate these for TLC. For the pure algorithms, an initial
state holds one input from a bounded set. A single step (`Verify`, `RunMatch`,
`Resolve`) computes the result, so those runs say `CHECK_DEADLOCK FALSE`: the
computation really ends there. `MCBlockFilterRpc` is a client that pages
through one query: each `FetchPage` step is one RPC call with the last
page's `last_cursor`, until a page comes back empty or the call errs; the
client then stops, so that run also says `CHECK_DEADLOCK FALSE`.

How `Execute` covers the handler:

- **What the model leaves out.** The model carries block numbers, not hashes.
  A response is a set of block numbers of the served chain. The chain-root,
  PoW and MMR checks establish exactly that every header is a block of the
  served chain, so they pass.
- **Continuity** is checked on block numbers, with the same slices as the
  code.
- **Tau and total-difficulty verdicts.** With honest peers, the model uses the
  outcome `EpochDifficulty` shows for honest segments. With adversarial peers,
  the verdicts are free choices.
- **Recheck.** A failed tau check re-requests with `skip_check_tau` (`NewRequest`).
- **Commit.** `LastHeaders` picks the headers to keep, `NewFromRequest` builds
  the new prove state, and `CommitProveState` stores it and clears the request.

How `TxsStored` covers `execute_internally` of `send_transactions_proof.rs`:

- **Data.** A transaction is named by the block of the chain that contains
  it. Besides the blocks of the chain, a peer may send `Orphan` (a block
  with valid PoW and the same transactions, on a fork whose last header is
  `ForkTip`) and `Forged` (a header without valid PoW).
- **Checks by what they establish.** `check_pow_for_headers` fails only on
  `Forged`. `verify_mmr_proof` passes when every filtered block is
  committed by the answer's own last header (`Committed`): the blocks of
  the chain below it, or `Orphan` for `ForkTip`. The merkle proof passes
  when the transaction is in the header (`InBlock`); a forged header's root
  can be made from anything.
- **Free choices.** `add_transaction`'s answer (is the transaction still
  being fetched?) is a free choice of a subset of the verified blocks,
  because the fetch-info it reads is not in this repository.
- **Left out.** An answer about another last header stores nothing. When it
  carries no data, the code also calls `process_last_state` and
  `mark_fetching_txs_timeout`; their effect on the last state and the
  fetch-info is not modelled (the prove model picks announced tips freely).

## Runs

| Run | Result | What it shows |
|---|---|---|
| `honest_segments` | pass | `check_tau` and `calculate_tau_exponent` agree with exact powers of tau (`TauLoopsMatchExactPowers`), and honest chain segments of up to 3 epoch switches pass `verify_tau` and `verify_total_difficulty` (`HonestSegmentAccepted`). |
| `honest_segments_4` | violation | With 4 switches, an honest segment (epoch difficulties 12, 6, 4, 4, 6) is rejected. The aligned minimum from `split_epochs` (15) exceeds the honest middle sum (14). |
| `overflow_panic` | violation | An end epoch chosen by the peer makes `checked_add` in `calculate_total_difficulty_limit` panic (line 541). |
| `match_honest` | pass | An honest answer that carries samples, or needs none, is matched and split exactly into its reorg, sampled and last-n parts (`HonestResponseMatched`). Whatever headers of its chain a peer returns to a one-sample request, an accepted sampled response covers the requested difficulty when it lies below the last-n region (`SampledCoverRequested`). |
| `match_unsampled` | violation | An honest answer whose samples all lie in the last-n region is rejected as `MalformedProtocolMessage` (line 703). |
| `match_fork` | violation | An honest answer from a heavier fork makes `before_boundary_count - reorg_count` underflow (line 689). |
| `prove_honest` | pass | With honest peers answering possibly superseded requests, a lossy, duplicating and reordering network, and churn, every committed `last_headers` is exactly the `last_n_blocks` blocks below the proved tip (`LastHeadersAreTipSuffix`). Under `FairSpec`, a peer that stays connected is in the end proved at the tip for good once the environment's faults stop (`ProvedAtTip`). The chain (difficulties 1, 1, 2, 1, 1) is one on which honest answers are rejected by the matcher (the `match_unsampled` divergence), so the property holds only through the sweeper's retry: with weak fairness for the sweeper instead of strong fairness per sample, TLC finds the lasso that redraws the same rejected sample for ever. |
| `prove_reorg_only` | violation | A response with only reorg headers commits the new tip with no header between start and tip checked (lines 698-711). |
| `prove_reorg_gap` | violation | `check_continuous_headers(&headers[..reorg_count - 1])` skips the last reorg header, so reorg headers {1, 3} are committed (line 159). |
| `prove_adversary` | pass | Against any responses, late and duplicated deliveries, sweeper re-requests racing answers in flight, and churn, the registry and handler implement `ProveAbstract` (`AbsSpec`): a commit only proves the outstanding request, for a header above the proved one, and clears it. A removed peer keeps no request or state (`TypeOK`). A transaction the `SendTransactionsProof` handler stores is recorded with the block of the proved chain that contains it, whatever last header, orphan or forged block a peer sends (`FetchedTxsOnChain`). Trusting the answer's own last header (`IsSameLastHashAny`) lets a peer holding a fork get an orphan block stored. |
| `block_filter_rpc` | pass | Paging by `last_cursor` through `get_cells` or `get_transactions`, ascending or descending, grouped or not, with prefix searches and every filter, returns exactly the reference list of matching entries, each once and in order (`PagesVisitEveryMatchOnce`); no page exceeds the limit (`TypeOK`); `get_cells_capacity` sums exactly the cells `get_cells` lists (`CapacityMatchesCells`). |
| `resolve_tx` | pass | `resolve_tx` computes exactly the reference resolution (`ResolvedAsReference`): distinct live inputs, live deps, and non-empty dep groups of live members, flattened in order. The dep-group `expect` never fires, even when an out point is resolved both with and without data (`DepGroupNeverPanics`). |

Every property of a passing run has a mutant in `PROJECT.json`: a plausible
bug in the mapped code that TLC catches under the run's own configuration. The
`findings` in `PROJECT.json` record what each violation run shows about the
code.

## Bounds

- **`EpochDifficulty`.**
  - Width and targets: 8-bit values and five compact targets (difficulties 6, 4, 3, 2, 1). Their ratios are not all powers of tau = 2, so every division truncates somewhere.
  - Epochs: 0 to 3 switches with lengths {1, 2}. This covers all six `split_epochs` cases with odd and even `n - k`. The fourth switch is where the rejection appears.
  - Overflow run: 6 bits and up to 6 switches, so the saturated running total reaches the limit.
- **`ResponseMatch`.** Chains of 5 or 6 blocks with difficulties {1, 2}, `last_n_blocks = 2`, and up to 2 samples. Peer responses (every subset of blocks of the chain) are enumerated for one-sample requests only (`MaxPeerSamples = 1`), which keeps the initial states under a minute. That is enough for:
  - samples inside one block;
  - a boundary inside the chain;
  - reorg headers;
  - both branches of the split.
- **`LightClientProve`.** One peer, a chain of 5 blocks (blocks 0 to 4; 0 to 5 in `prove_reorg_gap`; 0 to 3 in `prove_adversary`, because with blocks 0 to 4 the 20 adversarial transactions-proof answers multiply the state space by nine, to 445,120 states), `last_n_blocks = 2`, one sample, and at most 2 messages in flight over both channels. This gives:
  - a prove state followed by a later one;
  - top-ups from the previous `last_headers`;
  - reorg headers;
  - a stale or duplicated answer arriving after a newer request;
  - an answer to a superseded request for the same tip with other samples;
  - an honest answer the matcher rejects, and the retry after it.

  Peers do not share state in the code, so a second peer only multiplies the state space.
  The sweeper's due flag is per peer, so `Expire` can make a re-request race any answer in flight.
  In `prove_adversary`, `TxBlocks = {1}` and a peer sends any last header of
  the chain or `ForkTip` with no block, or with one filtered block of any
  header (block 1, `Orphan`, `Forged`) and the transaction. That covers
  the answers which pass each check but one. The other runs fetch no
  transactions (`TxBlocks = {}`), so their state spaces are those of the
  prove state alone.
- **`BlockFilterRpc`.** Two transactions (t1 in block 0 with two outputs,
  t2 in block 1 spending t1's output 0, with two outputs), each output locked
  by L1 or L2 and typed by T1 or not (81 stores). L1's raw data is a prefix
  of L2's, so a search for L1 is a prefix search that also meets L2 keys.
  `MAX_PREFIX_SEARCH_SIZE` is 2 instead of 65535, so the Desc start key is
  the prefix padded with 0xff bytes, and a filter script L3 with 3 args
  takes the error path. Limits 1 and 2 split every result over several
  pages and make a grouped page stop before a new transaction. The limit-0
  error branch is left out of the run; it returns before any iteration.
- **`ResolveTx`.** 2 out points, in every status and with every kind of cell data, and transactions of up to 2 inputs and 2 deps. This covers:
  - duplicate inputs;
  - an input that is also a dep group;
  - a group listing itself;
  - two groups sharing members.

## Fairness

Only `prove_honest` checks liveness, `ProvedAtTip`, under
`FairSpec == Spec /\ Fairness`. `Fairness` states, per peer:

- weak fairness of `PeerReply`: a full node answers the requests it receives;
- weak fairness of `Expire` while no request of the peer and no proof from it
  is in flight: time passes, so the sweeper's `before_timestamp` overtakes
  the update timestamp;
- weak fairness of delivery, per tip, for announcements and for proofs. It
  is written out as `<>[](InFlight # {}) => []<><<Deliver>>_vars`. This is
  WF of `Deliver`, because `execute` returns on every message, so
  `<<Deliver>>_vars` is enabled exactly when a message is in flight;
- strong fairness of the sweeper submitting a request whose sample falls
  below the last-n region (`SubmitSampledBelowLastN`). The samples are drawn
  at random, so a draw that is possible again and again happens in the end.

The property's premise excludes faults only from some point on
(`<>[][~Fault(p)]_vars`), so faults may happen for any finite time. `Fault`
covers:

- a lost message, other than a drop the handler makes itself;
- a duplicated delivery;
- a stale announcement;
- a request lost at the `MaxInFlight` bound;
- an expiry while a round trip is in progress, which makes a resubmission
  race the answer.

That last fault must stop for progress: the sweeper's horizon is assumed to
be longer than a round trip. Without that assumption, the expire /
resubmit / late-answer cycle can repeat forever. Safety across the race is
checked by `AbsSpec` and `LastHeadersAreTipSuffix`.

## Not modelled

- **The trusted-state branch of `execute` (lines 52-67), the long-fork path
  (286-330) and `LightClientProtocol::commit_prove_state`.** The API they
  use is not in this repository's `peers.rs`.
- **Hashing: MMR, chain root, PoW and the Merkle proofs of transactions.**
  They are represented by what they establish.
- **The effects of `process_last_state`, `mark_fetching_txs_timeout` and
  `add_transaction`** in `send_transactions_proof.rs`. They update the
  last state and the fetch-info of the `Peers` API, which is not in this
  repository. Which transactions are still wanted is a free choice, and a
  timed-out transaction is not followed further.
- **The rest of `service.rs`.** `fetch_transaction`, `fetch_header`,
  `set_scripts` and the chain and net RPCs read and write the fetch-info
  maps of `StorageWithChainData` and the network controller. Neither is in
  this repository, and the spec does not describe them, so their effect
  cannot be translated. The query RPCs assume the store's key layout that
  they decode; the writes that build the indexes are in storage, so a
  snapshot changing between two pages is not modelled.
- **`MAX_PREFIX_SEARCH_SIZE` edge.** With args of exactly the maximum length
  the `>` check passes, the Desc start key is the bare prefix, and a Desc
  query returns an empty first page. TLC shows it with
  `MaxPrefixSearchSize = 1` and a one-byte-args search. It is recorded as a
  hazard, not as a run: it needs 65535-byte args in the code.
- **`verify_tx`'s verifiers** are external to this repository.

## Plan for further work

1. Give `MCBlockFilterRpc` a store that changes between pages (a cell
   spent, a block added), to show the cursor's `skip(1)` after its key is
   deleted.
2. A second peer in `MCLightClientProve` with a shared chain-root snapshot,
   once the trusted-state branch's API is available.

--------------------------- MODULE BlockFilterRpc ---------------------------
(***************************************************************************)
(* The paginated queries of BlockFilterRpcImpl (src/service.rs):          *)
(* get_cells, get_transactions (grouped and ungrouped) and                *)
(* get_cells_capacity, with build_query_options and build_filter_options. *)
(*                                                                         *)
(* A query walks a snapshot of the key-value store in key order from a    *)
(* start key, skips the cursor, takes the keys that start with the        *)
(* search prefix and filters them. Keys are byte sequences ordered        *)
(* bytewise; a snapshot db is [index, txs]: index maps every key of the   *)
(* four script indexes to the hash of its transaction, and txs maps a     *)
(* hash to [outputs, outputsData] (each output [lock, type, capacity],    *)
(* each output data its length). A script is [codeHash, args]: codeHash   *)
(* is one byte that stands for code_hash and hash_type.                   *)
(***************************************************************************)
EXTENDS Integers, Sequences, SequencesExt

CONSTANTS
  CellLockScript, CellTypeScript,  \* KeyPrefix bytes of the cell indexes
  TxLockScript, TxTypeScript,      \* KeyPrefix bytes of the tx indexes
  MaxPrefixSearchSize              \* MAX_PREFIX_SEARCH_SIZE (u16::MAX)

NoScript == [codeHash |-> -1, args |-> <<>>]
None     == <<>>      \* an absent range or cursor
Err      == [status |-> "Err"]

\* extract_raw_data: the script's bytes without the molecule header.
RawData(s) == <<s.codeHash>> \o s.args

\* The bytewise order of the store's keys.
RECURSIVE KeyLess(_, _)
KeyLess(a, b) ==
  IF a = <<>> \/ b = <<>> THEN a = <<>> /\ b # <<>>
  ELSE IF Head(a) # Head(b) THEN Head(a) < Head(b) ELSE KeyLess(Tail(a), Tail(b))

\* The keys of a set in the store's order, least first.
RECURSIVE SortedKeys(_)
SortedKeys(S) ==
  IF S = {} THEN <<>>
  ELSE LET least == CHOOSE k \in S : \A j \in S \ {k} : KeyLess(k, j)
       IN  <<least>> \o SortedKeys(S \ {least})

\* to_be_bytes and from_be_bytes.
RECURSIVE BE(_, _)
BE(n, w) == IF w = 0 THEN <<>> ELSE BE(n \div 256, w - 1) \o <<n % 256>>
ShiftIn(acc, b) == acc * 256 + b
FromBE(bs) == FoldLeft(ShiftIn, 0, bs)

\* The bytes k[from..to), in Rust's 0-based slice bounds.
Bytes(k, from, to) == SubSeq(k, from + 1, to)

(***************************************************************************)
(* snapshot.iterator(IteratorMode::From(from, direction)).skip(skip): the *)
(* keys at or after from (Forward), or at or before it (Reverse, a seek   *)
(* for prev), in the direction's order, without the first skip of them.   *)
(***************************************************************************)
Iterate(db, from, dir, skip) ==
  LET sorted == SortedKeys(DOMAIN db.index)
      After(k)  == ~KeyLess(k, from)
      Before(k) == ~KeyLess(from, k)
      run == IF dir = "Forward" THEN SelectSeq(sorted, After)
             ELSE Reverse(SelectSeq(sorted, Before))
  IN  SubSeq(run, skip + 1, Len(run))

\* take_while(|(key, _)| key.starts_with(&prefix)).
RECURSIVE TakeWhilePrefix(_, _)
TakeWhilePrefix(ks, prefix) ==
  IF ks = <<>> \/ ~IsPrefix(prefix, Head(ks)) THEN <<>>
  ELSE <<Head(ks)>> \o TakeWhilePrefix(Tail(ks), prefix)

\* Mutant of CursorSkip: the cursor's own key is not skipped.
CursorSkipNone == 0

\* After a cursor the iterator skips one key, the cursor's own.
CursorSkip == 1

(***************************************************************************)
(* build_query_options: the prefix is the index's KeyPrefix byte and the  *)
(* script's raw data; Asc starts at the prefix, Desc at the prefix padded *)
(* with MAX_PREFIX_SEARCH_SIZE - args_len bytes 0xff; a cursor is the     *)
(* start instead and is skipped. Args longer than the maximum are an     *)
(* invalid_params error.                                                  *)
(***************************************************************************)
BuildQueryOptions(sk, lockPrefix, typePrefix, order, cursor) ==
  LET prefix == <<IF sk.scriptType = "lock" THEN lockPrefix ELSE typePrefix>> \o RawData(sk.script)
      argsLen == Len(sk.script.args)
      dir == IF order = "asc" THEN "Forward" ELSE "Reverse"
      pad == [i \in 1..(MaxPrefixSearchSize - argsLen) |-> 255]
  IN  CASE argsLen > MaxPrefixSearchSize -> Err
        [] cursor # None -> [status |-> "Ok", prefix |-> prefix, from |-> cursor, dir |-> dir, skip |-> CursorSkip]
        [] order = "asc" -> [status |-> "Ok", prefix |-> prefix, from |-> prefix, dir |-> dir, skip |-> 0]
        [] OTHER -> [status |-> "Ok", prefix |-> prefix, from |-> prefix \o pad, dir |-> dir, skip |-> 0]

\* build_filter_options: the filter script's raw data as a prefix, and the
\* ranges as given; filter args longer than the maximum are an error.
BuildFilterOptions(sk) ==
  LET f == sk.filter
  IN  IF f.script # NoScript /\ Len(f.script.args) > MaxPrefixSearchSize THEN Err
      ELSE [status |-> "Ok",
            prefix |-> IF f.script = NoScript THEN None ELSE RawData(f.script),
            scriptLen |-> f.scriptLenRange, dataLen |-> f.dataLenRange,
            capacity |-> f.capacityRange, block |-> f.blockRange]

\* The filtered script type is the other one of the search.
FilterScriptType(sk) == IF sk.scriptType = "lock" THEN "type" ELSE "lock"

InRange(x, r)     == r = None \/ (r[1] <= x /\ x < r[2])
InClosedRange(x, r) == r = None \/ (r[1] <= x /\ x <= r[2])

\* The ScriptType of an output's filtered script, NoScript when an absent
\* type script is asked for.
FilteredScript(out, ft) == IF ft = "lock" THEN out.lock ELSE out.type

(***************************************************************************)
(* The filter closure of get_cells: the filtered script starts with the   *)
(* filter prefix (an absent type script never does), its length lies in  *)
(* [r0, r1] (an absent type script has length 0), and the data length,   *)
(* capacity and block number lie in [r0, r1).                              *)
(***************************************************************************)
CellPasses(fo, ft, out, dataLen, block) ==
  LET s == FilteredScript(out, ft)
      len == IF s = NoScript THEN 0 ELSE Len(RawData(s))
  IN  /\ fo.prefix = None \/ (s # NoScript /\ IsPrefix(fo.prefix, RawData(s)))
      /\ InClosedRange(len, fo.scriptLen)
      /\ InRange(dataLen, fo.dataLen)
      /\ InRange(out.capacity, fo.capacity)
      /\ InRange(block, fo.block)

\* Mutant of CapacityCellPasses: the data length range includes r1.
CapacityCellPassesDataInclusive(fo, ft, out, dataLen, block) ==
  LET s == FilteredScript(out, ft)
      len == IF s = NoScript THEN 0 ELSE Len(RawData(s))
  IN  /\ fo.prefix = None \/ (s # NoScript /\ IsPrefix(fo.prefix, RawData(s)))
      /\ InClosedRange(len, fo.scriptLen)
      /\ InClosedRange(dataLen, fo.dataLen)
      /\ InRange(out.capacity, fo.capacity)
      /\ InRange(block, fo.block)

\* The filter closure of get_cells_capacity, a copy of get_cells' one.
CapacityCellPasses(fo, ft, out, dataLen, block) ==
  LET s == FilteredScript(out, ft)
      len == IF s = NoScript THEN 0 ELSE Len(RawData(s))
  IN  /\ fo.prefix = None \/ (s # NoScript /\ IsPrefix(fo.prefix, RawData(s)))
      /\ InClosedRange(len, fo.scriptLen)
      /\ InRange(dataLen, fo.dataLen)
      /\ InRange(out.capacity, fo.capacity)
      /\ InRange(block, fo.block)

\* A cell key ends with block_number (8 bytes), tx_index and
\* output_index (4 bytes each), big-endian.
CellAt(db, k) ==
  LET n == Len(k)
      h == db.index[k]
      oi == FromBE(Bytes(k, n - 4, n))
  IN  [tx |-> h, index |-> oi, txIndex |-> FromBE(Bytes(k, n - 8, n - 4)),
       block |-> FromBE(Bytes(k, n - 16, n - 8)),
       output |-> db.txs[h].outputs[oi + 1], dataLen |-> db.txs[h].outputsData[oi + 1]]

\* The filter_map ... take(limit) of get_cells; last_key is the key of the
\* last cell taken.
RECURSIVE CellsLoop(_, _, _, _, _, _)
CellsLoop(db, ks, fo, ft, limit, acc) ==
  IF ks = <<>> \/ Len(acc.objects) = limit THEN acc
  ELSE LET c == CellAt(db, Head(ks))
           obj == [tx |-> c.tx, index |-> c.index, block |-> c.block, txIndex |-> c.txIndex]
       IN  CellsLoop(db, Tail(ks), fo, ft, limit,
             IF CellPasses(fo, ft, c.output, c.dataLen, c.block)
             THEN [objects |-> Append(acc.objects, obj), lastKey |-> Head(ks)]
             ELSE acc)

NoPage == [objects |-> <<>>, lastKey |-> <<>>]

\* get_cells: a page of at most limit cells and the cursor after it.
GetCells(db, sk, order, limit, cursor) ==
  LET q  == BuildQueryOptions(sk, CellLockScript, CellTypeScript, order, cursor)
      fo == BuildFilterOptions(sk)
  IN  CASE q.status = "Err" -> Err
        [] limit = 0 -> Err
        [] fo.status = "Err" -> Err
        [] OTHER ->
             LET r == CellsLoop(db, TakeWhilePrefix(Iterate(db, q.from, q.dir, q.skip), q.prefix),
                                fo, FilterScriptType(sk), limit, NoPage)
             IN  [status |-> "Ok", objects |-> r.objects, lastCursor |-> r.lastKey]

\* The filter_map ... sum() of get_cells_capacity.
RECURSIVE CapacitySum(_, _, _, _)
CapacitySum(db, ks, fo, ft) ==
  IF ks = <<>> THEN 0
  ELSE LET c == CellAt(db, Head(ks))
       IN  (IF CapacityCellPasses(fo, ft, c.output, c.dataLen, c.block) THEN c.output.capacity ELSE 0)
           + CapacitySum(db, Tail(ks), fo, ft)

\* get_cells_capacity: the capacity of every cell of the search, in
\* ascending order from the prefix.
GetCellsCapacity(db, sk) ==
  LET q  == BuildQueryOptions(sk, CellLockScript, CellTypeScript, "asc", None)
      fo == BuildFilterOptions(sk)
  IN  CASE q.status = "Err" -> Err
        [] fo.status = "Err" -> Err
        [] OTHER ->
             [status |-> "Ok",
              capacity |-> CapacitySum(db, TakeWhilePrefix(Iterate(db, q.from, q.dir, q.skip), q.prefix),
                                       fo, FilterScriptType(sk))]

\* Key::TxLockScript / Key::TxTypeScript: the prefix byte, the script's raw
\* data, block_number (8 bytes), tx_index and io_index (4 bytes each) and
\* io_type (0 for an input, 1 for an output).
IoTypeByte(iot) == IF iot = "input" THEN 0 ELSE 1
TxKey(kp, script, block, txi, ioi, iot) ==
  <<kp>> \o RawData(script) \o BE(block, 8) \o BE(txi, 4) \o BE(ioi, 4) \o <<IoTypeByte(iot)>>

\* The fields get_transactions decodes from a key of a tx index.
TxIoAt(db, k) ==
  LET n == Len(k)
  IN  [tx |-> db.index[k], block |-> FromBE(Bytes(k, n - 17, n - 9)),
       txIndex |-> FromBE(Bytes(k, n - 9, n - 5)), ioIndex |-> FromBE(Bytes(k, n - 5, n - 1)),
       ioType |-> IF k[n] = 0 THEN "input" ELSE "output"]

\* The filters of get_transactions: the same io is in the other tx index
\* under the filter script (an exact key, not a prefix), and its block
\* number lies in [r0, r1).
TxPasses(db, tf, io) ==
  /\ tf.script = NoScript
     \/ TxKey(IF tf.scriptType = "lock" THEN TxLockScript ELSE TxTypeScript,
              tf.script, io.block, io.txIndex, io.ioIndex, io.ioType) \in DOMAIN db.index
  /\ InRange(io.block, tf.block)

\* Mutant of PageFull: a page takes one transaction more than limit.
PageFullOverLimit(objects, tx, limit) ==
  Len(objects) > limit /\ objects[Len(objects)].tx # tx

\* `tx_with_cells.len() == limit && last.hash != tx_hash`.
PageFull(objects, tx, limit) ==
  Len(objects) = limit /\ objects[Len(objects)].tx # tx

(***************************************************************************)
(* The group_by_transaction loop: a page is full when it holds limit      *)
(* transactions and a key of another one comes; every key before that    *)
(* moves last_key, also one the filters drop; a cell joins the last       *)
(* transaction of the page when it is the same one.                       *)
(***************************************************************************)
RECURSIVE GroupedLoop(_, _, _, _, _)
GroupedLoop(db, ks, tf, limit, acc) ==
  IF ks = <<>> THEN acc
  ELSE LET io == TxIoAt(db, Head(ks))
           acc1 == [acc EXCEPT !.lastKey = Head(ks)]
           cell == [ioType |-> io.ioType, ioIndex |-> io.ioIndex]
           n == Len(acc.objects)
       IN  IF PageFull(acc.objects, io.tx, limit) THEN acc
           ELSE GroupedLoop(db, Tail(ks), tf, limit,
                  CASE ~TxPasses(db, tf, io) -> acc1
                    [] n > 0 /\ acc.objects[n].tx = io.tx ->
                         [acc1 EXCEPT !.objects[n].cells = Append(@, cell)]
                    [] OTHER ->
                         [acc1 EXCEPT !.objects = Append(@, [tx |-> io.tx, block |-> io.block,
                                                             txIndex |-> io.txIndex, cells |-> <<cell>>])])

\* The ungrouped filter_map ... take(limit); last_key is the key of the
\* last io taken.
RECURSIVE UngroupedLoop(_, _, _, _, _)
UngroupedLoop(db, ks, tf, limit, acc) ==
  IF ks = <<>> \/ Len(acc.objects) = limit THEN acc
  ELSE LET io == TxIoAt(db, Head(ks))
       IN  UngroupedLoop(db, Tail(ks), tf, limit,
             IF TxPasses(db, tf, io)
             THEN [objects |-> Append(acc.objects, io), lastKey |-> Head(ks)]
             ELSE acc)

(***************************************************************************)
(* get_transactions: the tx indexes, no data-length or capacity filter    *)
(* (invalid_params), and a page of transactions with their ios, or of     *)
(* single ios.                                                             *)
(***************************************************************************)
GetTransactions(db, sk, order, limit, cursor) ==
  LET q  == BuildQueryOptions(sk, TxLockScript, TxTypeScript, order, cursor)
      tf == [script |-> sk.filter.script, scriptType |-> FilterScriptType(sk),
             block |-> sk.filter.blockRange]
      ks == TakeWhilePrefix(Iterate(db, q.from, q.dir, q.skip), q.prefix)
      r  == IF sk.group THEN GroupedLoop(db, ks, tf, limit, NoPage)
            ELSE UngroupedLoop(db, ks, tf, limit, NoPage)
  IN  CASE q.status = "Err" -> Err
        [] limit = 0 -> Err
        [] sk.filter.dataLenRange # None -> Err
        [] sk.filter.capacityRange # None -> Err
        [] OTHER -> [status |-> "Ok", objects |-> r.objects, lastCursor |-> r.lastKey]

=============================================================================

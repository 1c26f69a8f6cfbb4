-------------------------- MODULE MCBlockFilterRpc --------------------------
(***************************************************************************)
(* A client pages through get_cells or get_transactions: it starts with   *)
(* no cursor and passes each page's last_cursor to the next call until a  *)
(* page is empty. The snapshot is one of a family of stores of two        *)
(* transactions whose outputs carry every combination of lock and type    *)
(* scripts; the query is any search key, order and limit of small sets.   *)
(*                                                                         *)
(* The store's key layout is the one the queries decode: the KeyPrefix    *)
(* byte, the script's raw data, then block_number, tx_index and the       *)
(* output (or io) index, big-endian, and for the tx indexes the io type.  *)
(***************************************************************************)
EXTENDS BlockFilterRpc, FiniteSets

CONSTANTS
  Limits,     \* the limits a query may ask for
  MaxPages    \* the most pages a client fetches

\* Lock L1 is a prefix of lock L2 (same code hash, one more args byte); L3
\* has more args than MAX_PREFIX_SEARCH_SIZE; T1 is a type script.
L1 == [codeHash |-> 1, args |-> <<>>]
L2 == [codeHash |-> 1, args |-> <<2>>]
L3 == [codeHash |-> 1, args |-> <<2, 2, 2>>]
T1 == [codeHash |-> 3, args |-> <<>>]

\* Transaction t1 (block 0, index 0) has two outputs; t2 (block 1, index
\* 1) spends t1's output 0 and has two outputs. Outputs differ in capacity
\* and data length, so every range filter tells some apart.
Hashes == {"t1", "t2"}
Place == [t1 |-> [block |-> 0, txIndex |-> 0], t2 |-> [block |-> 1, txIndex |-> 1]]
Capacity == [t1 |-> <<1, 2>>, t2 |-> <<3, 4>>]
DataLen == <<0, 1>>
LiveCells == {<<"t1", 1>>, <<"t2", 0>>, <<"t2", 1>>}
\* The ios of each transaction: [ioType, ioIndex, the output it is].
Ios == [t1 |-> {[ioType |-> "output", ioIndex |-> 0, cell |-> <<"t1", 0>>],
                [ioType |-> "output", ioIndex |-> 1, cell |-> <<"t1", 1>>]},
        t2 |-> {[ioType |-> "input", ioIndex |-> 0, cell |-> <<"t1", 0>>],
                [ioType |-> "output", ioIndex |-> 0, cell |-> <<"t2", 0>>],
                [ioType |-> "output", ioIndex |-> 1, cell |-> <<"t2", 1>>]}]
Outputs == {<<h, i>> : h \in Hashes, i \in 0..1}

CellKey(kp, script, block, txi, idx) ==
  <<kp>> \o RawData(script) \o BE(block, 8) \o BE(txi, 4) \o BE(idx, 4)

\* The store for a choice of [lock, type] per output.
Store(scripts) ==
  LET out(c) == [lock |-> scripts[c].lock, type |-> scripts[c].type,
                 capacity |-> Capacity[c[1]][c[2] + 1]]
      cellEntries ==
        { <<CellKey(CellLockScript, scripts[c].lock, Place[c[1]].block, Place[c[1]].txIndex, c[2]), c[1]>> :
            c \in LiveCells }
        \cup { <<CellKey(CellTypeScript, scripts[c].type, Place[c[1]].block, Place[c[1]].txIndex, c[2]), c[1]>> :
                 c \in { d \in LiveCells : scripts[d].type # NoScript } }
      txEntries ==
        UNION { { <<TxKey(TxLockScript, scripts[io.cell].lock, Place[h].block, Place[h].txIndex,
                          io.ioIndex, io.ioType), h>> : io \in Ios[h] }
                \cup { <<TxKey(TxTypeScript, scripts[io.cell].type, Place[h].block, Place[h].txIndex,
                               io.ioIndex, io.ioType), h>> : io \in { j \in Ios[h] : scripts[j.cell].type # NoScript } }
                : h \in Hashes }
      entries == cellEntries \cup txEntries
  IN  [index |-> [k \in { e[1] : e \in entries } |-> CHOOSE h \in Hashes : <<k, h>> \in entries],
       txs |-> [h \in Hashes |-> [outputs |-> <<out(<<h, 0>>), out(<<h, 1>>)>>, outputsData |-> DataLen]]]

\* Each output is locked by L1 or L2 and typed by T1 or not, except that an
\* L2 output always carries T1.
OutputScripts == {[lock |-> L1, type |-> NoScript], [lock |-> L1, type |-> T1], [lock |-> L2, type |-> T1]}
Stores == { Store(s) : s \in [Outputs -> OutputScripts] }

NoFilter == [script |-> NoScript, scriptLenRange |-> None, dataLenRange |-> None,
             capacityRange |-> None, blockRange |-> None]
Filters == {NoFilter, [NoFilter EXCEPT !.script = T1], [NoFilter EXCEPT !.script = L1],
            [NoFilter EXCEPT !.script = L3], [NoFilter EXCEPT !.scriptLenRange = <<1, 1>>],
            [NoFilter EXCEPT !.dataLenRange = <<0, 1>>], [NoFilter EXCEPT !.capacityRange = <<2, 4>>],
            [NoFilter EXCEPT !.blockRange = <<1, 2>>]}

SearchKeys(group) ==
  { [script |-> s, scriptType |-> "lock", filter |-> f, group |-> group] : s \in {L1, L2}, f \in Filters }
  \cup { [script |-> T1, scriptType |-> "type", filter |-> f, group |-> group] : f \in Filters }

Queries ==
  { [rpc |-> "cells", sk |-> sk, order |-> o, limit |-> l] : sk \in SearchKeys(FALSE), o \in {"asc", "desc"}, l \in Limits }
  \cup { [rpc |-> "txs", sk |-> sk, order |-> o, limit |-> l] : sk \in SearchKeys(FALSE) \cup SearchKeys(TRUE),
                                                                o \in {"asc", "desc"}, l \in Limits }

VARIABLES db, query, cursor, pages, status

vars == <<db, query, cursor, pages, status>>

Call(q, c) ==
  IF q.rpc = "cells" THEN GetCells(db, q.sk, q.order, q.limit, c)
  ELSE GetTransactions(db, q.sk, q.order, q.limit, c)

Init ==
  /\ db \in Stores
  /\ query \in Queries
  /\ cursor = None
  /\ pages = <<>>
  /\ status = "paging"

\* One call of the query with the current cursor.
FetchPage ==
  LET r == Call(query, cursor)
  IN  /\ status = "paging"
      /\ Len(pages) < MaxPages
      /\ CASE r.status = "Err" -> status' = "err" /\ UNCHANGED <<pages, cursor>>
           [] r.objects = <<>> -> status' = "done" /\ UNCHANGED <<pages, cursor>>
           [] OTHER -> /\ pages' = Append(pages, r.objects)
                       /\ cursor' = r.lastCursor
                       /\ UNCHANGED status
      /\ UNCHANGED <<db, query>>

Next == FetchPage

Spec == Init /\ [][Next]_vars

\* The type of the client's state; a page holds at most limit objects
\* (cells, ios, or transactions when grouped).
TypeOK ==
  /\ query \in Queries
  /\ status \in {"paging", "done", "err"}
  /\ Len(pages) <= MaxPages
  /\ \A i \in 1..Len(pages) : Len(pages[i]) \in 1..query.limit

(***************************************************************************)
(* Reference: the entries of the search, in the order's direction. A key  *)
(* of the search starts with the index's prefix byte and the script's raw *)
(* data and passes the filters; a grouped transaction contributes its     *)
(* ios.                                                                    *)
(***************************************************************************)
SearchPrefix(q) ==
  LET kps == IF q.rpc = "cells" THEN <<CellLockScript, CellTypeScript>> ELSE <<TxLockScript, TxTypeScript>>
  IN  <<IF q.sk.scriptType = "lock" THEN kps[1] ELSE kps[2]>> \o RawData(q.sk.script)

Item(q, k) ==
  IF q.rpc = "cells"
  THEN LET c == CellAt(db, k) IN [tx |-> c.tx, index |-> c.index, block |-> c.block, txIndex |-> c.txIndex]
  ELSE LET io == TxIoAt(db, k)
       IN  IF q.sk.group THEN [tx |-> io.tx, ioType |-> io.ioType, ioIndex |-> io.ioIndex] ELSE io

Matches(q, k) ==
  IF q.rpc = "cells"
  THEN LET c == CellAt(db, k) IN CellPasses(BuildFilterOptions(q.sk), FilterScriptType(q.sk), c.output, c.dataLen, c.block)
  ELSE TxPasses(db, [script |-> q.sk.filter.script, scriptType |-> FilterScriptType(q.sk),
                     block |-> q.sk.filter.blockRange], TxIoAt(db, k))

Reference(q) ==
  LET keys == SortedKeys({ k \in DOMAIN db.index : IsPrefix(SearchPrefix(q), k) /\ Matches(q, k) })
      ordered == IF q.order = "asc" THEN keys ELSE Reverse(keys)
  IN  [i \in 1..Len(ordered) |-> Item(query, ordered[i])]

\* The items of the pages so far: a grouped transaction's ios one by one.
GroupItems(g) == [i \in 1..Len(g.cells) |-> [tx |-> g.tx, ioType |-> g.cells[i].ioType, ioIndex |-> g.cells[i].ioIndex]]
PageItems(p) == IF query.rpc = "txs" /\ query.sk.group THEN FlattenSeq([i \in 1..Len(p) |-> GroupItems(p[i])]) ELSE p
Paged == FlattenSeq([i \in 1..Len(pages) |-> PageItems(pages[i])])

(***************************************************************************)
(* Following last_cursor page by page visits every entry of the search   *)
(* exactly once and in order: the pages so far are a prefix of the       *)
(* entries, and when a page comes back empty they are all of them. This   *)
(* is what the cursor (the last key a page took, or in grouped mode the   *)
(* last key it scanned), the skip of the cursor's own key, take_while on  *)
(* the prefix and the limit together must get right.                     *)
(***************************************************************************)
PagesVisitEveryMatchOnce ==
  /\ pages # <<>> => IsPrefix(Paged, Reference(query))
  /\ status = "done" => Paged = Reference(query)

(***************************************************************************)
(* get_cells_capacity, which copies get_cells' filter closure, sums the   *)
(* capacity of exactly the cells that paging through get_cells returns,  *)
(* in either order.                                                        *)
(***************************************************************************)
CellCapacity(c) == db.txs[c.tx].outputs[c.index + 1].capacity

AddCapacity(acc, c) == acc + CellCapacity(c)

CapacityMatchesCells ==
  status = "done" /\ query.rpc = "cells" =>
    GetCellsCapacity(db, query.sk).capacity = FoldLeft(AddCapacity, 0, Paged)

=============================================================================

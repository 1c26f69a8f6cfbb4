----------------------------- MODULE ResolveTx -----------------------------
(***************************************************************************)
(* resolve_tx and parse_dep_group_data (src/verify.rs): the resolution of *)
(* a transaction's inputs and cell deps against the light client's cell   *)
(* store before it is verified and sent.                                  *)
(*                                                                         *)
(* The store, swc, is a record [status, data]: the CellStatus of every    *)
(* out point ("live", "dead" or "unknown") and the bytes of its cell,     *)
(* abstracted to a record [bytes, vec]: bytes is "empty", "malformed"     *)
(* (not an OutPointVec) or "vec", and vec the out points an OutPointVec   *)
(* decodes to. swc.cell(out_point, eager_load)                             *)
(* gives a CellMeta that carries the data only when eager_load is set.    *)
(* A transaction is [inputs, deps]: a sequence of out points and a        *)
(* sequence of cell deps [outPoint, depType].                             *)
(***************************************************************************)
EXTENDS Integers, Sequences, SequencesExt, TLC

NoData == [bytes |-> "none", vec |-> <<>>]

CellMeta(swc, op, eager) == [outPoint |-> op, data |-> IF eager THEN swc.data[op] ELSE NoData]

\* A result of resolve_tx: "Ok", or an OutPointError ("Dead", "Unknown",
\* "InvalidDepGroup") with its out point, or "Panic" from the expect.
Failed(status, op) == [status |-> status, outPoint |-> op]

IsFailure(r) == "status" \in DOMAIN r

\* StorageWithChainData::cell, as the closure sees it.
Cell(swc, op, eager) ==
  CASE swc.status[op] = "dead"    -> Failed("Dead", op)
    [] swc.status[op] = "unknown" -> Failed("Unknown", op)
    [] OTHER                      -> CellMeta(swc, op, eager)

(***************************************************************************)
(* The resolve_cell closure: a hit in resolved_cells, keyed by            *)
(* (out_point, eager_load), or the store's answer, cached when live.      *)
(***************************************************************************)
ResolveCell(swc, cache, op, eager) ==
  IF <<op, eager>> \in DOMAIN cache THEN [meta |-> cache[<<op, eager>>], cache |-> cache]
  ELSE LET c == Cell(swc, op, eager)
       IN  [meta |-> c, cache |-> IF IsFailure(c) THEN cache ELSE (<<op, eager>> :> c) @@ cache]

\* Mutant of ResolveDepGroup: the group loaded without its data.
ResolveDepGroupLazy(swc, cache, op) == ResolveCell(swc, cache, op, FALSE)

\* `resolve_cell(&outpoint, true)` for a dep group.
ResolveDepGroup(swc, cache, op) == ResolveCell(swc, cache, op, TRUE)

\* parse_dep_group_data: Ok with the sub out points, or Err.
ParseDepGroupData(data) ==
  [ok |-> data.bytes = "vec" /\ data.vec # <<>>, subs |-> data.vec]

\* The loop state: the cache, resolved_inputs, resolved_cell_deps and
\* resolved_dep_groups, and the failure that ended it, if any.
NoFailure == Failed("none", "none")

Start == [cache |-> <<>>, inputs |-> <<>>, cellDeps |-> <<>>, groups |-> <<>>, failure |-> NoFailure]

Fail(st, f) == [st EXCEPT !.failure = f]

\* Mutant of ResolveInputs: no check of current_inputs.
RECURSIVE ResolveInputsNoDuplicateCheck(_, _, _, _)
ResolveInputsNoDuplicateCheck(swc, ins, seen, st) ==
  IF ins = <<>> THEN st
  ELSE LET op == Head(ins)
           r  == ResolveCell(swc, st.cache, op, FALSE)
       IN  IF IsFailure(r.meta) THEN Fail(st, r.meta)
           ELSE ResolveInputsNoDuplicateCheck(swc, Tail(ins), seen \cup {op},
                  [st EXCEPT !.cache = r.cache, !.inputs = Append(@, r.meta)])

(***************************************************************************)
(* `for out_point in transaction.input_pts_iter()`: an out point already  *)
(* in current_inputs is Dead; otherwise it is resolved without data.      *)
(***************************************************************************)
RECURSIVE ResolveInputs(_, _, _, _)
ResolveInputs(swc, ins, seen, st) ==
  IF ins = <<>> THEN st
  ELSE LET op == Head(ins)
           r  == ResolveCell(swc, st.cache, op, FALSE)
       IN  CASE op \in seen        -> Fail(st, Failed("Dead", op))
             [] IsFailure(r.meta) -> Fail(st, r.meta)
             [] OTHER -> ResolveInputs(swc, Tail(ins), seen \cup {op},
                           [st EXCEPT !.cache = r.cache, !.inputs = Append(@, r.meta)])

\* `for sub_out_point in sub_out_points`: each resolved without data.
RECURSIVE ResolveSubs(_, _, _)
ResolveSubs(swc, subs, st) ==
  IF subs = <<>> THEN st
  ELSE LET r == ResolveCell(swc, st.cache, Head(subs), FALSE)
       IN  IF IsFailure(r.meta) THEN Fail(st, r.meta)
           ELSE ResolveSubs(swc, Tail(subs),
                  [st EXCEPT !.cache = r.cache, !.cellDeps = Append(@, r.meta)])

(***************************************************************************)
(* `for cell_dep in transaction.cell_deps_iter()`: a code dep is resolved *)
(* without data; a dep group is resolved with data, its data must be      *)
(* there (`expect`, else a panic) and parse to a non-empty OutPointVec    *)
(* (else InvalidDepGroup), its sub out points are resolved into           *)
(* resolved_cell_deps and the group into resolved_dep_groups.             *)
(***************************************************************************)
RECURSIVE ResolveDeps(_, _, _)
ResolveDeps(swc, deps, st) ==
  IF deps = <<>> \/ st.failure # NoFailure THEN st
  ELSE LET dep == Head(deps)
           op  == dep.outPoint
       IN  IF dep.depType = "code"
           THEN LET r == ResolveCell(swc, st.cache, op, FALSE) IN
                IF IsFailure(r.meta) THEN Fail(st, r.meta)
                ELSE ResolveDeps(swc, Tail(deps),
                       [st EXCEPT !.cache = r.cache, !.cellDeps = Append(@, r.meta)])
           ELSE LET r   == ResolveDepGroup(swc, st.cache, op)
                    sub == ParseDepGroupData(r.meta.data)
                    st2 == ResolveSubs(swc, sub.subs, [st EXCEPT !.cache = r.cache])
                IN  CASE IsFailure(r.meta)   -> Fail(st, r.meta)
                      [] r.meta.data = NoData -> Fail(st, Failed("Panic", op))
                      [] ~sub.ok             -> Fail(st, Failed("InvalidDepGroup", op))
                      [] st2.failure # NoFailure -> st2
                      [] OTHER -> ResolveDeps(swc, Tail(deps),
                                    [st2 EXCEPT !.groups = Append(@, r.meta)])

\* resolve_tx: the inputs, then the cell deps, then the ResolvedTransaction.
ResolveTx(swc, tx) ==
  LET afterInputs == ResolveInputs(swc, tx.inputs, {}, Start)
      st == IF afterInputs.failure # NoFailure THEN afterInputs
            ELSE ResolveDeps(swc, tx.deps, afterInputs)
  IN  IF st.failure # NoFailure THEN st.failure
      ELSE [status |-> "Ok", inputs |-> st.inputs, cellDeps |-> st.cellDeps, groups |-> st.groups]

=============================================================================

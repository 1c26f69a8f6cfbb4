---------------------------- MODULE MCResolveTx ----------------------------
(***************************************************************************)
(* Checks resolve_tx over every store of Ops out points and every         *)
(* transaction of at most MaxInputs inputs and MaxDeps cell deps. An      *)
(* initial state holds one store and one transaction; Resolve runs        *)
(* resolve_tx on them and records the result.                              *)
(***************************************************************************)
EXTENDS ResolveTx, FiniteSets

CONSTANTS
  Ops,        \* out points
  MaxInputs,  \* most inputs of a transaction
  MaxDeps     \* most cell deps of a transaction

CONSTANTS o1, o2

MCOps == {o1, o2}

VARIABLES swc, tx, result

vars == <<swc, tx, result>>

\* Cell data: empty, not an OutPointVec, or an OutPointVec of at most two.
DataChoices == [bytes : {"empty", "malformed"}, vec : {<<>>}]
                 \cup [bytes : {"vec"}, vec : SeqOf(Ops, 2)]

Stores == [status : [Ops -> {"live", "dead", "unknown"}], data : [Ops -> DataChoices]]

Txs == [inputs : SeqOf(Ops, MaxInputs),
        deps   : SeqOf([outPoint : Ops, depType : {"code", "group"}], MaxDeps)]

NoResult == [status |-> "none"]

Init == swc \in Stores /\ tx \in Txs /\ result = NoResult

Resolve ==
  /\ result = NoResult
  /\ result' = ResolveTx(swc, tx)
  /\ UNCHANGED <<swc, tx>>

Next == Resolve
Spec == Init /\ [][Next]_vars

Done == result # NoResult

TypeOK ==
  /\ swc \in Stores /\ tx \in Txs
  /\ result.status \in {"none", "Ok", "Dead", "Unknown", "InvalidDepGroup", "Panic"}

(***************************************************************************)
(* What resolve_tx is meant to compute, stated without its loops and its  *)
(* cache: a transaction resolves iff its inputs are distinct and live,    *)
(* every cell dep is live and every dep group's data decodes to a         *)
(* non-empty list of live out points; then resolved_inputs are the        *)
(* inputs' cells, resolved_cell_deps the code deps' cells and the groups' *)
(* members in order, and resolved_dep_groups the groups' cells with data. *)
(***************************************************************************)
Live(op) == swc.status[op] = "live"

IsGroup(dep) == dep.depType = "group"

GroupMembers(dep) == swc.data[dep.outPoint].vec

GroupOk(dep) ==
  /\ swc.data[dep.outPoint].bytes = "vec"
  /\ GroupMembers(dep) # <<>>
  /\ \A j \in 1..Len(GroupMembers(dep)) : Live(GroupMembers(dep)[j])

Resolvable ==
  /\ IsInjective(tx.inputs)
  /\ \A i \in 1..Len(tx.inputs) : Live(tx.inputs[i])
  /\ \A i \in 1..Len(tx.deps) : Live(tx.deps[i].outPoint) /\ (IsGroup(tx.deps[i]) => GroupOk(tx.deps[i]))

DepCells(dep) ==
  IF IsGroup(dep)
  THEN [j \in 1..Len(GroupMembers(dep)) |-> CellMeta(swc, GroupMembers(dep)[j], FALSE)]
  ELSE <<CellMeta(swc, dep.outPoint, FALSE)>>

Expected ==
  [status   |-> "Ok",
   inputs   |-> [i \in 1..Len(tx.inputs) |-> CellMeta(swc, tx.inputs[i], FALSE)],
   cellDeps |-> FlattenSeq([i \in 1..Len(tx.deps) |-> DepCells(tx.deps[i])]),
   groups   |-> LET gs == SelectSeq(tx.deps, IsGroup)
                IN  [i \in 1..Len(gs) |-> CellMeta(swc, gs[i].outPoint, TRUE)]]

(***************************************************************************)
(* resolve_tx, its early returns and its resolved_cells cache, resolves a *)
(* transaction exactly when the reference says it is resolvable, and then *)
(* to the reference's ResolvedTransaction.                                 *)
(***************************************************************************)
ResolvedAsReference ==
  Done /\ result.status # "Panic" =>
    /\ result.status = "Ok" <=> Resolvable
    /\ Resolvable => result = Expected

(***************************************************************************)
(* The `expect("Load cell meta must with data")` on a dep group never     *)
(* fires: a dep group's CellMeta always comes from an eager load, even    *)
(* when the same out point was resolved without data before, as an input  *)
(* or as a member of another group.                                        *)
(***************************************************************************)
DepGroupNeverPanics == Done => result.status # "Panic"

=============================================================================

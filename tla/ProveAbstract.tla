---------------------------- MODULE ProveAbstract ----------------------------
(***************************************************************************)
(* What the per-peer prove state machine promises (spec 3 PeerSlot, 4.G   *)
(* and 5 Cancellation), with headers reduced to block numbers: a          *)
(* connected peer has at most one outstanding request, for a header above *)
(* the one it has proved; a proof only ever proves the outstanding        *)
(* request and ends it; a disconnect drops the peer's slot. 0 stands for  *)
(* "no request" and "not proved".                                          *)
(***************************************************************************)
EXTENDS Naturals

CONSTANTS Peers, Tip

VARIABLES
  connected,   \* peers with a slot
  proved,      \* the proved header of each peer, 0 for none
  pending      \* the header of the outstanding request, 0 for none

vars == <<connected, proved, pending>>

\* Headers start at 2: block 0 has no chain root and a request starts
\* after block 1 at the earliest.
Headers == 2..Tip

TypeOK ==
  /\ connected \subseteq Peers
  /\ proved \in [Peers -> {0} \cup Headers]
  /\ pending \in [Peers -> {0} \cup Headers]

Init ==
  /\ connected = {}
  /\ proved = [p \in Peers |-> 0]
  /\ pending = [p \in Peers |-> 0]

Connect(p) ==
  /\ p \notin connected
  /\ connected' = connected \cup {p}
  /\ proved' = [proved EXCEPT ![p] = 0]
  /\ pending' = [pending EXCEPT ![p] = 0]

Disconnect(p) ==
  /\ p \in connected
  /\ connected' = connected \ {p}
  /\ proved' = [proved EXCEPT ![p] = 0]
  /\ pending' = [pending EXCEPT ![p] = 0]

\* A request for header h replaces any outstanding one.
Ask(p, h) ==
  /\ p \in connected
  /\ h > proved[p]
  /\ pending' = [pending EXCEPT ![p] = h]
  /\ UNCHANGED <<connected, proved>>

\* The outstanding request is proved and ends.
Prove(p) ==
  /\ p \in connected
  /\ pending[p] # 0
  /\ proved' = [proved EXCEPT ![p] = pending[p]]
  /\ pending' = [pending EXCEPT ![p] = 0]
  /\ UNCHANGED connected

Next ==
  \E p \in Peers :
    \/ Connect(p) \/ Disconnect(p) \/ Prove(p)
    \/ \E h \in Headers : Ask(p, h)

Spec == Init /\ [][Next]_vars

=============================================================================

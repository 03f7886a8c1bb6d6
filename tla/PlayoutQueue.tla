---------------------------- MODULE PlayoutQueue ----------------------------
(***************************************************************************)
(* What a peer's playout buffer promises, without slots or counters: a     *)
(* bounded set of pending packets from which the oldest is emitted, and a  *)
(* horizon below which nothing is accepted.                                *)
(***************************************************************************)
EXTENDS Naturals, FiniteSets

CONSTANTS Capacity, Gap, Counts, Data, Silence

VARIABLES pending, horizon, out

qvars == <<pending, horizon, out>>

Packet == [count : Counts, data : Data]

Init == pending = {} /\ horizon = 0 /\ out = Silence

\* A packet beyond the horizon whose count is not pending is taken if it fits.
Accept(p) ==
  /\ p.count > horizon
  /\ \A q \in pending : q.count # p.count
  /\ Cardinality(pending) < Capacity
  /\ pending' = pending \cup {p}
  /\ UNCHANGED <<horizon, out>>

\* A count more than Gap behind the horizon starts the stream again from there.
Flush(p) ==
  /\ p.count + Gap < horizon
  /\ pending' = {}
  /\ horizon' = p.count
  /\ UNCHANGED out

\* The oldest pending packet is emitted; it is the new horizon.
Emit(p) ==
  /\ \A q \in pending : p.count <= q.count
  /\ pending' = pending \ {p}
  /\ horizon' = p.count
  /\ out' = p

StayQuiet == out' = Silence /\ UNCHANGED <<pending, horizon>>

Next ==
  \/ \E p \in Packet : Accept(p) \/ Flush(p)
  \/ \E p \in pending : Emit(p)
  \/ StayQuiet

Spec == Init /\ [][Next]_qvars
=============================================================================

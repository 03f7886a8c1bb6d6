------------------------------ MODULE Presence ------------------------------
(***************************************************************************)
(* What peer discovery promises: a bounded set of known peers, each one a  *)
(* foreign address, and none dropped before it was silent for long enough. *)
(***************************************************************************)
EXTENDS Naturals, FiniteSets

CONSTANTS
  Peers,      \* the addresses of other hosts
  Capacity,   \* how many peers are known at a time
  TimeOut     \* how many ticks of silence a known peer survives

VARIABLES
  known,    \* the peers audio is exchanged with
  silent    \* ticks since a peer was heard of, no further than TimeOut + 1

pvars == <<known, silent>>

Init == known = {} /\ silent \in [Peers -> 0 .. TimeOut + 1]

Ping(a) == silent' = [silent EXCEPT ![a] = 0] /\ UNCHANGED known

Tick ==
  /\ silent' = [a \in Peers |-> IF silent[a] > TimeOut THEN silent[a] ELSE silent[a] + 1]
  /\ UNCHANGED known

Join(a) ==
  /\ a \notin known
  /\ Cardinality(known) < Capacity
  /\ known' = known \cup {a}
  /\ UNCHANGED silent

Leave(a) ==
  /\ a \in known
  /\ silent[a] > TimeOut
  /\ known' = known \ {a}
  /\ UNCHANGED silent

Next == Tick \/ \E a \in Peers : Ping(a) \/ Join(a) \/ Leave(a)

Spec == Init /\ [][Next]_pvars
=============================================================================

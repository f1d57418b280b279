---------------------------- MODULE MCListener ----------------------------
(* A small instance of Listener: a careful client that reads, and one that *)
(* does neither.                                                           *)
EXTENDS Listener

CONSTANTS a, b

MCClients == {a, b}
MCCareful == {a}
MCReaders == {a}
MCIds == 2..4
=============================================================================

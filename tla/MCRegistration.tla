-------------------------- MODULE MCRegistration --------------------------
(***************************************************************************)
(* Registration for TLC.                                                   *)
(***************************************************************************)
EXTENDS Registration

\* Bound: the receiver moves only to a bond without other trouble, and after a
\* fault of the receiver no interface goes away.
OneTrouble ==
  /\ dns.left < MaxMoves => rcv.faults = 0 /\ \A i \in Idx : up[i]
  /\ rcv.faults > 0 => \A i \in Idx : up[i]
=============================================================================

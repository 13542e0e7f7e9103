--------------------------- MODULE MCMeetingQueries ---------------------------
(* Values for the constants of MeetingQueries.                                 *)
EXTENDS MeetingQueries, TLC

CONSTANTS p1, n1, n2

OwnNames == [p \in Persons |-> IF p = p1 THEN n1 ELSE n2]

(* All tenants are there from the start and stay.                              *)
Symmetry == Permutations(Handlers) \cup Permutations(Tenants)
=============================================================================

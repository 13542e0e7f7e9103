---------------------------- MODULE MCMeetingState ----------------------------
(* Values for the constants of MeetingState. *)
EXTENDS MeetingState, TLC

CONSTANTS p1, n1, n2

OwnNames == [p \in Persons |-> IF p = p1 THEN n1 ELSE n2]

Symmetry == Permutations(Handlers) \cup Permutations(Meetings)
=============================================================================

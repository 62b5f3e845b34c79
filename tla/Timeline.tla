------------------------------ MODULE Timeline ------------------------------
(***************************************************************************)
(* The timeline of a case: domain/case.go ValidateTimeline and             *)
(* domain/segments.go resequence.  The code sorts the segments by their    *)
(* start and looks at neighbours only; what a release needs is that no two *)
(* segments overlap, neighbours or not (Disjoint).  A case's slice of      *)
(* segments is a set here: every writer leaves it sorted by start, and     *)
(* each segment carries its place as the field sequence.                   *)
(***************************************************************************)
EXTENDS Integers, FiniteSets

(* Mutant: segments with one start are not compared. *)
Adjacent_DistinctStarts(S, s, t) ==
    /\ s.start < t.start
    /\ \A u \in S : ~(s.start < u.start /\ u.start < t.start)

(* s is directly before t when S is sorted by start.  Two segments with    *)
(* one start are neighbours in whichever order the sort leaves them.       *)
Adjacent(S, s, t) ==
    /\ s # t
    /\ s.start <= t.start
    /\ \A u \in S : ~(s.start < u.start /\ u.start < t.start)

ValidTimeline(S) ==
    /\ \A s \in S : s.start >= 0 /\ s.end > s.start
    /\ \A s, t \in S : Adjacent(S, s, t) => s.end <= t.start

(* Every segment numbered by its place in the sorted slice, from 1. *)
Resequence(S) ==
    {[s EXCEPT !.sequence = 1 + Cardinality({u \in S : u.start < s.start})] :
        s \in S}

-----------------------------------------------------------------------------
Disjoint(S) ==
    \A s, t \in S : s # t => s.end <= t.start \/ t.end <= s.start
=============================================================================

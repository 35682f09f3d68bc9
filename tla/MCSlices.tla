------------------------------ MODULE MCSlices ------------------------------
(***************************************************************************)
(* One array of two elements, viewed at start by s1 = a1[:]; s2 is free *)
(* for the slices the methods make.  A literal assigned to a variable    *)
(* that holds the only slice of the array replaces it.                    *)
(***************************************************************************)
EXTENDS Slices

CONSTANTS a1, s1, s2

(* A literal element as LITERAL pops it: its index, -1 when unkeyed.      *)
P(k, e) == [key |-> k, elem |-> e]

(* []int{7}, []int{2: 7, 0: 0, 7} and []int{1: 7}: unkeyed, keyed back   *)
(* over a gap, and a leading gap.                                          *)
MCLiterals == { <<P(-1, 7)>>, <<P(2, 7), P(0, 0), P(-1, 7)>>, <<P(1, 7)>> }

MCInitData == [a \in Arrs |-> << 1, 2 >>]

MCInitSlices == [s \in SVars |->
                    IF s = s1 THEN [arr |-> a1, begin |-> 0, end |-> 2, cap_end |-> 2]
                    ELSE Nil]
=============================================================================

----------------------------- MODULE MCClosures -----------------------------
(***************************************************************************)
(* main calls outer; outer declares x (local 1), takes its address and    *)
(* builds the closure inner that captures x, and may call itself.  In the *)
(* nested program inner also builds inner2, which captures the same x.    *)
(***************************************************************************)
EXTENDS Closures

CONSTANTS main, outer, inner, inner2

Own(i)     == [func |-> outer, index |-> i, is_up_value |-> FALSE]
Captured(i) == [func |-> outer, index |-> i, is_up_value |-> TRUE]

MCUpPtrs == [f \in Funcs |-> CASE f = outer -> << Own(1) >>
                               [] f \in {inner, inner2} -> << Captured(1) >>
                               [] OTHER -> << >>]

MCNSlots == [f \in Funcs |-> 1]

(* Flat program: outer builds inner, and recurses.                        *)
MCLits == [f \in Funcs |-> IF f = outer THEN {inner} ELSE {}]
MCCalls == [f \in Funcs |-> IF f \in {main, outer} THEN {outer} ELSE {}]

(* Nested program: inner builds inner2 as well.                           *)
MCLitsNested == [f \in Funcs |-> CASE f = outer -> {inner}
                                   [] f = inner -> {inner2}
                                   [] OTHER -> {}]
=============================================================================

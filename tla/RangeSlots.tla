----------------------------- MODULE RangeSlots -----------------------------
(***************************************************************************)
(* The iteration slots of a fiber's dispatcher (Fiber::main_loop,         *)
(* src/vm/src/vm.rs).  main_loop declares 16 sets of range iterator       *)
(* variables and one counter range_slot, shared by every frame the fiber  *)
(* runs.  RANGE_INIT takes slot range_slot, increments the counter and    *)
(* asserts it stays below 16; RANGE decrements it when the range is       *)
(* exhausted.  A range that is left otherwise (a break out of the loop,   *)
(* a return from inside it) never gives its slot back.                    *)
(*                                                                         *)
(* The program is abstracted to the control flow that moves ranges: the   *)
(* current function may start a range, exhaust or break out of its       *)
(* innermost one, call a function or return, in any order.  What a range  *)
(* iterates over is left out.                                              *)
(***************************************************************************)
EXTENDS Naturals, Sequences, FiniteSets

CONSTANTS
    MaxDepth    \* bound on the number of frames

VARIABLES
    range_slot, \* the counter of Fiber::main_loop
    ranges,     \* ranges[k]: the slots of the live ranges of frame k, innermost last
    panicked    \* an assert! failed: the Rust panic aborts the process

vars == <<range_slot, ranges, panicked>>

(* range_vars! is expanded for slots 0 .. 15.                             *)
NumSlots == 16

Top == Len(ranges)
Live == ~panicked /\ ranges # <<>>

-----------------------------------------------------------------------------
(* The counter after RANGE finds its range exhausted.                     *)
Released(rs) == rs - 1

(* RANGE_INIT: the range gets slot range_slot (stamped as its mark on the *)
(* stack), the counter is incremented, and assert!(range_slot < 16) fails *)
(* once it reaches 16.                                                    *)
RANGE_INIT ==
    /\ Live
    /\ range_slot' = range_slot + 1
    /\ IF range_slot + 1 < NumSlots
       THEN /\ ranges' = [ranges EXCEPT ![Top] = Append(@, range_slot)]
            /\ UNCHANGED panicked
       ELSE /\ panicked' = TRUE
            /\ UNCHANGED ranges

(* RANGE finding the innermost range of the current frame exhausted: it  *)
(* jumps past the loop and releases one slot.                             *)
RANGE_end ==
    /\ Live
    /\ ranges[Top] # <<>>
    /\ ranges' = [ranges EXCEPT ![Top] = SubSeq(@, 1, Len(@) - 1)]
    /\ range_slot' = Released(range_slot)
    /\ UNCHANGED panicked

(* A JUMP out of the body of the innermost range (break, or a labelled   *)
(* continue of an outer loop): the counter is left as it is.              *)
Break ==
    /\ Live
    /\ ranges[Top] # <<>>
    /\ ranges' = [ranges EXCEPT ![Top] = SubSeq(@, 1, Len(@) - 1)]
    /\ UNCHANGED <<range_slot, panicked>>

(* CALL pushes a frame with no live range.                                *)
CALL ==
    /\ Live
    /\ Top < MaxDepth
    /\ ranges' = Append(ranges, <<>>)
    /\ UNCHANGED <<range_slot, panicked>>

(* RETURN pops the frame, with any range it is inside of; the counter is *)
(* left as it is.  The last RETURN ends the fiber.                        *)
RETURN ==
    /\ Live
    /\ ranges' = SubSeq(ranges, 1, Top - 1)
    /\ UNCHANGED <<range_slot, panicked>>

-----------------------------------------------------------------------------
Init ==
    /\ range_slot = 0
    /\ ranges = << <<>> >>
    /\ panicked = FALSE

(* The fiber returned from its entry function, or the process aborted.   *)
Ended ==
    /\ ~Live
    /\ UNCHANGED vars

Next == RANGE_INIT \/ RANGE_end \/ Break \/ CALL \/ RETURN \/ Ended

Spec == Init /\ [][Next]_vars

-----------------------------------------------------------------------------
(* The live ranges of the fiber, as (frame, nesting level) pairs.         *)
LiveRanges == UNION {{<<k, j>> : j \in DOMAIN ranges[k]} : k \in DOMAIN ranges}
SlotOf(p) == ranges[p[1]][p[2]]

TypeOK ==
    /\ range_slot \in 0 .. NumSlots
    /\ ranges \in Seq(Seq(0 .. NumSlots - 1))
    /\ Len(ranges) <= MaxDepth
    /\ panicked \in BOOLEAN

(* No two live ranges, of the same frame or of different frames of the   *)
(* fiber, iterate with the same slot's iterator variables, and every live *)
(* slot is below the counter, so that the next RANGE_INIT cannot take one *)
(* in use; however many ranges were left by break or return before.       *)
SlotsDistinct ==
    /\ \A p, q \in LiveRanges : p # q => SlotOf(p) # SlotOf(q)
    /\ \A p \in LiveRanges : SlotOf(p) < range_slot

(* Spec 4.7, a pool of 16 iteration slots: the dispatcher fails a        *)
(* RANGE_INIT only when 16 ranges are live in the fiber.                  *)
SlotsSuffice == panicked => Cardinality(LiveRanges) >= NumSlots

=============================================================================

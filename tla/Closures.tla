------------------------------ MODULE Closures ------------------------------
(***************************************************************************)
(* Closure up-values and call frames of one fiber (src/vm/src/vm.rs and   *)
(* the UpValue cells of src/vm/src/objects.rs).                            *)
(*                                                                         *)
(* A fiber has a chain of call frames, each with the local slots of its   *)
(* function.  An up-value is a cell that is Open (it reads and writes a   *)
(* slot of a frame) or Closed (it owns a value).  CALL gives a frame an   *)
(* Open up-value for every local a pointer is taken of, LITERAL gives a   *)
(* new closure one Open up-value per captured variable and registers it   *)
(* with the frame it finds for the variable, and RETURN closes every      *)
(* up-value registered with the frame before popping it.                  *)
(*                                                                         *)
(* The bytecode is abstracted to the instructions that touch this state,  *)
(* any of which the current function may execute at any point: the        *)
(* functions, their up-value descriptors (up_ptrs), the closure literals  *)
(* they contain and the functions they call are constants.  Every closure *)
(* and pointer made can be called or dereferenced later from anywhere, as *)
(* if stored in a package variable.  Activation ids (act) are ghost state: *)
(* they name the instance of a variable that Go semantics says an alias   *)
(* refers to.                                                              *)
(***************************************************************************)
EXTENDS Integers, Sequences, FiniteSets

CONSTANTS
    Funcs,      \* the function keys
    Entry,      \* the function the fiber runs (Fiber::run)
    UpPtrs,     \* UpPtrs[f]: the ValueDesc sequence func.up_ptrs of f
    NSlots,     \* NSlots[f]: the number of local slots of f
    Lits,       \* Lits[f]: the functions f builds closures of (LITERAL)
    Calls,      \* Calls[f]: the package-level functions f calls
    Vals,       \* the values a local holds
    Zero,       \* the zero value of a local
    MaxDepth,   \* bound on the number of frames
    MaxAct,     \* bound on the number of calls made
    MaxUV,      \* bound on the number of up-values made
    MaxCls      \* bound on the number of closures made

VARIABLES
    frames,     \* the call frames, frames[1] the entry frame
    slots,      \* slots[k][i]: local i of frame k on the stack
    uvs,        \* uvs[u]: up-value cell u
    cls,        \* cls[c]: closure object c built by LITERAL
    ptrs,       \* the up-values that a pointer (REF_UPVALUE, REF_LITERAL, NEW) was made of
    retVals,    \* retVals[a][i]: ghost, local i of returned activation a
    nextAct,    \* ghost: the id of the next activation
    panicked    \* an out-of-range stack index aborted the process

vars == <<frames, slots, uvs, cls, ptrs, retVals, nextAct, panicked>>

Acts == 1 .. MaxAct
(* A frame: its function, ghost activation id, local_ptrs (up-value ids *)
(* by up_ptrs position) and referred_by as a set of (index, up-value).    *)
FrameRec == [func: Funcs, act: Acts, lp: Seq(1 .. MaxUV),
             ref: SUBSET [index: Nat, uv: 1 .. MaxUV]]
(* An up-value: UpValueState Open(frame, index) or Closed(val); act is   *)
(* the activation whose variable it stands for in Go semantics.           *)
UVRec == [open: BOOLEAN, frame: Nat, index: Nat, val: Vals, act: 0 .. MaxAct]

SlotIdx == UNION {1 .. NSlots[f] : f \in Funcs}
PtrIdx == UNION {DOMAIN UpPtrs[f] : f \in Funcs}

Top == Len(frames)
Cur == frames[Top]

(* The positions of up_ptrs that are captured variables (is_up_value),  *)
(* and those that are the function's own locals.                          *)
UpPos(g) == {i \in DOMAIN UpPtrs[g] : UpPtrs[g][i].is_up_value}
LocalPos(g) == {i \in DOMAIN UpPtrs[g] : ~UpPtrs[g][i].is_up_value}
(* Ids given to the up-values made for a set of positions, in order.     *)
NewId(P, i) == Len(uvs) + Cardinality({j \in P : j <= i})

-----------------------------------------------------------------------------
(* Faults the closure code could have; each replaces the definition it is *)
(* named after when a property is checked for its power to tell them apart.*)
ClosedValue_of_caller(r) == slots[Top - 1][r.index]
Truncated_kept(s) == s


-----------------------------------------------------------------------------
(* The frame LITERAL finds for an up-value of function fn: the loop      *)
(* `for i in 1..frame_height` tries frames frame_height - 1 down to 1    *)
(* and takes the first whose function is fn; frame 0 (position 1) is     *)
(* never tried.  0 when none is found.                                    *)
FindFrame(fn) ==
    LET K == {k \in 2 .. Top : frames[k].func = fn}
    IN IF K = {} THEN 0 ELSE CHOOSE k \in K : \A j \in K : j <= k

(* Ghost: the activation whose local d denotes when the current function *)
(* evaluates a closure literal capturing d: the current one when d is its *)
(* own local, else the one its own up-value for d stands for.             *)
Intended(d) ==
    IF d.func = Cur.func THEN Cur.act
    ELSE LET P == {p \in UpPos(Cur.func) : UpPtrs[Cur.func][p].func = d.func
                                         /\ UpPtrs[Cur.func][p].index = d.index}
         IN IF P = {} THEN 0 ELSE uvs[Cur.lp[CHOOSE p \in P : TRUE]].act

(* The value RETURN closes a referrer of the top frame over: its local   *)
(* read at stack_base + ind.                                              *)
ClosedValue(r) == slots[Top][r.index]

(* stack.truncate(stack_base + ret_count) in RETURN: the frame's locals *)
(* leave the stack.                                                       *)
Truncated(s) == SubSeq(s, 1, Top - 1)

(* UpValue::new(p.clone_with_frame(frame_height)) in CALL, for position *)
(* i of up_ptrs of g: frame_height is the height before the push, so the *)
(* position of the new frame.                                             *)
LocalUV(g, i) ==
    [open |-> TRUE, frame |-> Top + 1, index |-> UpPtrs[g][i].index, val |-> Zero,
     act |-> nextAct]

(* The value a load through up-value u yields (UpValue::value), or the   *)
(* slot it reaches being gone (an out-of-range stack index).              *)
Reaches(u) ==
    uvs[u].open => /\ uvs[u].frame \in 1 .. Top
                   /\ uvs[u].index \in 1 .. NSlots[frames[uvs[u].frame].func]
Val(u) == IF uvs[u].open THEN slots[uvs[u].frame][uvs[u].index] ELSE uvs[u].val

Live == ~panicked /\ frames # <<>>

(* UpValue::close: the cell becomes Closed over v.                        *)
close(x, v) == [x EXCEPT !.open = FALSE, !.val = v]

(* UpValue::new_closed(v): a Closed cell that stands for no variable.     *)
NewClosed(v) == [open |-> FALSE, frame |-> 0, index |-> 0, val |-> v, act |-> 0]

(* CallFrame::add_referred_by: each (local index, up-value) of es is      *)
(* registered with the frame, for RETURN to close.                        *)
add_referred_by(ref, es) == ref \cup es

-----------------------------------------------------------------------------
(* PRE_CALL then CALL of a closure of function g whose captured up-values *)
(* are cuvs: the new frame's local_ptrs take cuvs for the captured        *)
(* positions and a new Open up-value, registered with the new frame in   *)
(* referred_by, for every own local; then its local slots are allocated. *)
CallWith(g, cuvs) ==
    LET L == LocalPos(g)
        lp == [i \in DOMAIN UpPtrs[g] |-> IF i \in L THEN NewId(L, i) ELSE cuvs[i]]
        made == [j \in 1 .. Cardinality(L) |->
                    LocalUV(g, CHOOSE i \in L : Cardinality({k \in L : k <= i}) = j)]
    IN /\ Top < MaxDepth
       /\ nextAct <= MaxAct
       /\ Len(uvs) + Cardinality(L) <= MaxUV
       /\ frames' = Append(frames, [func |-> g, act |-> nextAct, lp |-> lp,
                                    ref |-> add_referred_by({},
                                              {[index |-> UpPtrs[g][i].index, uv |-> lp[i]] : i \in L})])
       /\ slots' = Append(slots, [i \in 1 .. NSlots[g] |-> Zero])
       /\ uvs' = uvs \o made
       /\ nextAct' = nextAct + 1
       /\ UNCHANGED <<cls, ptrs, retVals, panicked>>

(* Calling a package-level function: its closure has no captured values. *)
CallFunc(g) ==
    /\ Live
    /\ g \in Calls[Cur.func]
    /\ CallWith(g, [i \in {} |-> 0])

(* Calling a closure that LITERAL built.                                  *)
CallClosure(c) ==
    /\ Live
    /\ CallWith(cls[c].func, cls[c].uvs)

(* LITERAL of function g: ClosureObj::new_gos makes an Open up-value per  *)
(* captured position; each is bound to the frame FindFrame gives and     *)
(* registered in its referred_by, or left as up_ptrs had it (frame 0).   *)
LITERAL(g) ==
    LET U == UpPos(g)
        d(i) == UpPtrs[g][i]
        k(i) == FindFrame(d(i).func)
        made == [j \in 1 .. Cardinality(U) |->
                    LET i == CHOOSE p \in U : Cardinality({q \in U : q <= p}) = j
                    IN [open |-> TRUE, frame |-> IF k(i) = 0 THEN 1 ELSE k(i),
                        index |-> d(i).index, val |-> Zero,
                        act |-> Intended(d(i))]]
    IN /\ Live
       /\ g \in Lits[Cur.func]
       /\ Len(cls) < MaxCls
       /\ Len(uvs) + Cardinality(U) <= MaxUV
       /\ cls' = Append(cls, [func |-> g, uvs |-> [i \in U |-> NewId(U, i)]])
       /\ uvs' = uvs \o made
       /\ frames' = [p \in DOMAIN frames |->
                        [frames[p] EXCEPT !.ref = add_referred_by(@,
                            {[index |-> d(i).index, uv |-> NewId(U, i)] : i \in {q \in U : k(q) = p}})]]
       /\ UNCHANGED <<slots, ptrs, retVals, nextAct, panicked>>

(* STORE_LOCAL of local i of the current frame.                           *)
STORE_LOCAL(i, v) ==
    /\ Live
    /\ i \in 1 .. NSlots[Cur.func]
    /\ slots' = [slots EXCEPT ![Top][i] = v]
    /\ UNCHANGED <<frames, uvs, cls, ptrs, retVals, nextAct, panicked>>

(* UpValue::set_value: write the slot an Open up-value refers to, or the *)
(* value a Closed one owns; a slot that is gone is an index panic.        *)
SetValue(u, v) ==
    IF ~uvs[u].open
    THEN /\ uvs' = [uvs EXCEPT ![u].val = v]
         /\ retVals' = IF uvs[u].act = 0 THEN retVals
                       ELSE [retVals EXCEPT ![uvs[u].act][uvs[u].index] = v]
         /\ UNCHANGED <<slots, panicked>>
    ELSE IF Reaches(u)
    THEN /\ slots' = [slots EXCEPT ![uvs[u].frame][uvs[u].index] = v]
         /\ UNCHANGED <<uvs, retVals, panicked>>
    ELSE /\ panicked' = TRUE
         /\ UNCHANGED <<uvs, slots, retVals>>

(* STORE_UPVALUE through local_ptrs[i] of the current frame.              *)
STORE_UPVALUE(i, v) ==
    /\ Live
    /\ i \in DOMAIN Cur.lp
    /\ SetValue(Cur.lp[i], v)
    /\ UNCHANGED <<frames, cls, ptrs, nextAct>>

(* REF_UPVALUE: a pointer PointerObj::UpVal to local_ptrs[i].            *)
REF_UPVALUE(i) ==
    /\ Live
    /\ i \in DOMAIN Cur.lp
    /\ ptrs' = ptrs \cup {Cur.lp[i]}
    /\ UNCHANGED <<frames, slots, uvs, cls, retVals, nextAct, panicked>>

(* A store through a pointer made by REF_UPVALUE, as `*p = v` does.     *)
StorePtr(u, v) ==
    /\ Live
    /\ u \in ptrs
    /\ SetValue(u, v)
    /\ UNCHANGED <<frames, cls, ptrs, nextAct>>

(* A pointer to a new Closed up-value over v: REF_LITERAL of &T{...} and   *)
(* NEW with the type's zero value.                                        *)
NewPtr(v) ==
    /\ Live
    /\ Len(uvs) < MaxUV
    /\ uvs' = Append(uvs, NewClosed(v))
    /\ ptrs' = ptrs \cup {Len(uvs) + 1}
    /\ UNCHANGED <<frames, slots, cls, retVals, nextAct, panicked>>

REF_LITERAL(v) == NewPtr(v)
NEW_ == NewPtr(Zero)   \* the opcode NEW; NEW is a keyword of TLA+

(* A load through up-value u (UpValue::value) whose result the following *)
(* STORE_LOCAL puts in local j; a slot that is gone is an index panic.    *)
LoadInto(u, j) ==
    /\ Live
    /\ j \in 1 .. NSlots[Cur.func]
    /\ IF Reaches(u)
       THEN /\ slots' = [slots EXCEPT ![Top][j] = Val(u)]
            /\ UNCHANGED panicked
       ELSE /\ panicked' = TRUE
            /\ UNCHANGED slots
    /\ UNCHANGED <<frames, uvs, cls, ptrs, retVals, nextAct>>

(* LOAD_UPVALUE through local_ptrs[i], then STORE_LOCAL to local j.       *)
LOAD_UPVALUE(i, j) ==
    /\ Live
    /\ i \in DOMAIN Cur.lp
    /\ LoadInto(Cur.lp[i], j)

(* DEREF of a pointer (PointerObj::deref of an UpVal), then STORE_LOCAL   *)
(* to local j.                                                             *)
DEREF(u, j) ==
    /\ u \in ptrs
    /\ LoadInto(u, j)

(* RETURN: every up-value in referred_by is closed over the current value *)
(* of its local (each with its own clone of it); then the frame and its  *)
(* slots are popped.  The last RETURN ends the fiber (Result::End).       *)
RETURN ==
    LET R == Cur.ref
    IN /\ Live
       /\ uvs' = [u \in DOMAIN uvs |->
                    IF \E r \in R : r.uv = u
                    THEN close(uvs[u], ClosedValue(CHOOSE r \in R : r.uv = u))
                    ELSE uvs[u]]
       /\ retVals' = [retVals EXCEPT ![Cur.act] = slots[Top]]
       /\ frames' = SubSeq(frames, 1, Top - 1)
       /\ slots' = Truncated(slots)
       /\ UNCHANGED <<cls, ptrs, nextAct, panicked>>

-----------------------------------------------------------------------------
Init ==
    /\ frames = << [func |-> Entry, act |-> 1, lp |-> <<>>, ref |-> {}] >>
    /\ slots = << [i \in 1 .. NSlots[Entry] |-> Zero] >>
    /\ uvs = <<>>
    /\ cls = <<>>
    /\ ptrs = {}
    /\ retVals = [a \in Acts |-> <<>>]
    /\ nextAct = 2
    /\ panicked = FALSE

(* The fiber has returned from its entry function, or aborted.           *)
Ended ==
    /\ ~Live
    /\ UNCHANGED vars

Next ==
    \/ \E g \in Funcs : CallFunc(g) \/ LITERAL(g)
    \/ \E c \in DOMAIN cls : CallClosure(c)
    \/ \E i \in SlotIdx, v \in Vals : STORE_LOCAL(i, v)
    \/ \E i \in PtrIdx, v \in Vals : STORE_UPVALUE(i, v)
    \/ \E i \in PtrIdx : REF_UPVALUE(i)
    \/ \E u \in ptrs, v \in Vals : StorePtr(u, v)
    \/ \E v \in Vals : REF_LITERAL(v)
    \/ NEW_
    \/ \E i \in PtrIdx, j \in SlotIdx : LOAD_UPVALUE(i, j)
    \/ \E u \in ptrs, j \in SlotIdx : DEREF(u, j)
    \/ RETURN
    \/ Ended

Spec == Init /\ [][Next]_vars

-----------------------------------------------------------------------------
TypeOK ==
    /\ frames \in Seq(FrameRec) /\ Len(frames) <= MaxDepth
    /\ Len(slots) = Len(frames)
    /\ \A k \in DOMAIN frames : DOMAIN slots[k] = 1 .. NSlots[frames[k].func]
    /\ uvs \in Seq(UVRec) /\ Len(uvs) <= MaxUV
    /\ \A u \in DOMAIN uvs : uvs[u].open => uvs[u].frame \in 1 .. MaxDepth
    /\ ptrs \subseteq DOMAIN uvs
    /\ nextAct \in 2 .. MaxAct + 1
    /\ panicked \in BOOLEAN

(* The activation a is still on the frame chain, at position k.          *)
IsLive(a) == \E k \in DOMAIN frames : frames[k].act = a
PosOf(a) == CHOOSE k \in DOMAIN frames : frames[k].act = a

(* The current value of local i of activation a, as Go defines it: its   *)
(* stack slot while a runs, afterwards what it held at return as changed *)
(* by every store through any alias of it.                                *)
VarValue(a, i) == IF IsLive(a) THEN slots[PosOf(a)][i] ELSE retVals[a][i]

(* Spec 8: every open up-value resolves to a live stack slot, the one of *)
(* the activation of the function that declares the variable: LITERAL's  *)
(* frame search binds it to that frame, and RETURN of that frame closes  *)
(* it before the frame is popped.                                         *)
OpenUpvalueLive ==
    \A u \in DOMAIN uvs : uvs[u].open =>
        /\ uvs[u].frame \in 1 .. Top
        /\ frames[uvs[u].frame].act = uvs[u].act

(* A RETURN never changes what a load through any up-value yields, nor   *)
(* makes one that could be read unreadable: every closure and pointer    *)
(* sees the value its variable had when the frame went away.              *)
ReturnPreservesCaptures ==
    [][RETURN => \A u \in DOMAIN uvs :
                    Reaches(u) => (Reaches(u)' /\ Val(u)' = Val(u))]_vars

(* Spec 4.4 and test 3, closures capture by reference: every up-value   *)
(* bound to a variable, of a closure or of a pointer alike, reads the    *)
(* variable's current value, also after its frame returned and after     *)
(* stores through another of them.                                        *)
VariableCoherence ==
    \A u \in DOMAIN uvs :
        (uvs[u].act # 0 /\ (uvs[u].open => frames[uvs[u].frame].act = uvs[u].act)
                        /\ Reaches(u))
            => Val(u) = VarValue(uvs[u].act, uvs[u].index)

=============================================================================

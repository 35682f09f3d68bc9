------------------------------- MODULE Slices -------------------------------
(***************************************************************************)
(* SliceObj and the ArrayObj it views (src/vm/src/objects.rs).             *)
(*                                                                         *)
(* An ArrayObj is a growable Vec of elements behind a RefCell; a SliceObj  *)
(* is (array, begin, end, cap_end) over it, and several slices may view    *)
(* the same array.  The model keeps a few arrays and a few slice           *)
(* variables; every SliceObj method is an action on one of them, with its  *)
(* index arguments drawn from small ranges.  A RuntimeResult error leaves  *)
(* the state as it was; a Rust panic (a Vec index or range out of bounds)  *)
(* aborts the process and ends the behaviour.                              *)
(***************************************************************************)
EXTENDS Integers, Sequences, SequencesExt

CONSTANTS
    Arrs,       \* the ArrayObj objects
    SVars,      \* the variables that can hold a SliceObj
    Elems,      \* the element values an array can hold
    Written,    \* the element values that set and push store
    InitData,   \* InitData[a]: the contents array a is created with
    InitSlices, \* InitSlices[s]: the slice s holds at start, or Nil
    Nil,        \* no slice
    MaxLen,     \* bound on the length of an array (Vec growth by push/append)
    Zero,       \* the zero value of an element
    Literals    \* the slice literals the program evaluates, as LITERAL pops them

VARIABLES
    data,       \* data[a]: the Vec inside array a
    sl,         \* sl[s]: the SliceObj in variable s, or Nil
    panicked    \* a Vec access out of bounds aborted the process

vars == <<data, sl, panicked>>

Idx == 0 .. MaxLen
SliceRec == [arr: Arrs, begin: Idx, end: Idx, cap_end: Idx]

(* The fields of a slice and what it shows.                               *)
len(x) == x.end - x.begin
cap(x) == x.cap_end - x.begin
range(x) == SubSeq(data[x.arr], x.begin + 1, x.end)   \* Rust begin..end
sharing_with(x, y) == x.arr = y.arr

-----------------------------------------------------------------------------
(* Faults a slice method could have; each replaces the definition named   *)
(* after it when a property is checked for its power to tell them apart.  *)
check_indices_without_end_check(this_begin, this_len, this_cap, begin, end, max) ==
    LET bi == this_begin + begin
        this_len_p1 == this_len + 1
        ei == this_begin + ((this_len_p1 + end) % this_len_p1)
        cp == IF max < 0 THEN this_cap ELSE max
    IN [ok |-> bi <= this_cap /\ cp <= this_cap, bi |-> bi, ei |-> ei, cap |-> cp]
check_indices_without_wrap(this_begin, this_len, this_cap, begin, end, max) ==
    LET bi == this_begin + begin
        ei == this_begin + (IF end < 0 THEN this_len ELSE end)
        cp == IF max < 0 THEN this_cap ELSE max
    IN [ok |-> bi <= this_cap /\ ei >= bi /\ cp <= this_cap,
        bi |-> bi, ei |-> ei, cap |-> cp]
truncate_skipped(d, n) == d
RECURSIVE literal_vec_gap_drops_elem(_, _, _)
literal_vec_gap_drops_elem(ps, cur, val) ==
    IF ps = <<>> THEN val
    ELSE LET p == Head(ps)
             c == IF p.key < 0 THEN cur + 1 ELSE p.key
             gap == c - Len(val)
         IN literal_vec_gap_drops_elem(Tail(ps), c,
              CASE gap = 0 -> Append(val, p.elem)
                [] gap > 0 -> val \o [k \in 1 .. gap |-> Zero]
                [] OTHER   -> [val EXCEPT ![c + 1] = p.elem])
push_end_keeping_end(x) == [x EXCEPT !.cap_end = IF @ < x.end + 1 THEN @ + 1 ELSE @]

(* SliceObj::check_indices: the absolute (begin, end, cap_end) of         *)
(* self[begin:end:max], or ok = FALSE for Err("index out of range").  An  *)
(* end of -1 means len and a max of -1 means no max.                       *)
check_indices(this_begin, this_len, this_cap, begin, end, max) ==
    LET bi == this_begin + begin
        this_len_p1 == this_len + 1
        ei == this_begin + ((this_len_p1 + end) % this_len_p1)
        cp == IF max < 0 THEN this_cap ELSE max
    IN [ok |-> bi <= this_cap /\ ei >= bi /\ cp <= this_cap,
        bi |-> bi, ei |-> ei, cap |-> cp]

(* The element loop of LITERAL for a slice or array type: each popped    *)
(* (index, element) pair goes to the given index, or after the previous   *)
(* one when the index is negative (an unkeyed element); a gap is filled  *)
(* with zero values and an index below the length overwrites.            *)
RECURSIVE literal_vec(_, _, _)
literal_vec(ps, cur, val) ==
    IF ps = <<>> THEN val
    ELSE LET p == Head(ps)
             c == IF p.key < 0 THEN cur + 1 ELSE p.key
             gap == c - Len(val)
         IN literal_vec(Tail(ps), c,
              CASE gap = 0 -> Append(val, p.elem)
                [] gap > 0 -> val \o [k \in 1 .. gap |-> Zero] \o <<p.elem>>
                [] OTHER   -> [val EXCEPT ![c + 1] = p.elem])

(* A panic ends everything: no further step.                              *)
Panic ==
    /\ panicked' = TRUE
    /\ UNCHANGED <<data, sl>>

Live == ~panicked

(* SliceObj::with_array: t := arr[begin:end].                             *)
with_array(t, a, begin, end) ==
    /\ Live
    /\ LET n == Len(data[a])
           r == check_indices(0, n, n, begin, end, -1)
       IN /\ sl' = IF r.ok THEN [sl EXCEPT ![t] = [arr |-> a, begin |-> r.bi,
                                                    end |-> r.ei, cap_end |-> r.cap]]
                           ELSE sl
    /\ UNCHANGED <<data, panicked>>

(* SliceObj::slice: t := s[begin:end:max], sharing the array.             *)
slice(t, s, begin, end, max) ==
    /\ Live
    /\ sl[s] # Nil
    /\ LET x == sl[s]
           r == check_indices(x.begin, len(x), x.cap_end, begin, end, max)
       IN /\ sl' = IF r.ok THEN [sl EXCEPT ![t] = [arr |-> x.arr, begin |-> r.bi,
                                                    end |-> r.ei, cap_end |-> r.cap]]
                           ELSE sl
    /\ UNCHANGED <<data, panicked>>

(* SliceObj::get: ArrayObj::get of begin + i, checked against the      *)
(* length of the array; it reads and changes nothing.  get_ok(x, i) is   *)
(* whether it returns Ok, get(x, i) what it returns then.                 *)
get_ok(x, i) == x.begin + i < Len(data[x.arr])
get(x, i) == data[x.arr][x.begin + i + 1]

(* SliceObj::set: ArrayObj::set of index i.                               *)
set(s, i, v) ==
    /\ Live
    /\ sl[s] # Nil
    /\ LET x == sl[s]
           ok == i < Len(data[x.arr])
       IN /\ data' = IF ok THEN [data EXCEPT ![x.arr][i + 1] = v] ELSE data
    /\ UNCHANGED <<sl, panicked>>

(* Vec::truncate(n).                                                       *)
truncate(d, n) == SubSeq(d, 1, n)

(* The tail of SliceObj::push: end += 1, and cap_end += 1 when it is now  *)
(* below end.                                                             *)
push_end(x) == [x EXCEPT !.end = @ + 1, !.cap_end = IF @ < x.end + 1 THEN @ + 1 ELSE @]

(* SliceObj::push: push onto the Vec when its length equals the slice's  *)
(* len, otherwise overwrite data[end]; then end (and cap_end) grow.       *)
push(s, v) ==
    /\ Live
    /\ sl[s] # Nil
    /\ LET x == sl[s]
           d == data[x.arr]
           x2 == push_end(x)
       IN IF Len(d) = len(x)
          THEN /\ Len(d) < MaxLen
               /\ data' = [data EXCEPT ![x.arr] = Append(d, v)]
               /\ sl' = [sl EXCEPT ![s] = x2]
               /\ UNCHANGED panicked
          ELSE IF x.end < Len(d)
          THEN /\ data' = [data EXCEPT ![x.arr][x.end + 1] = v]
               /\ sl' = [sl EXCEPT ![s] = x2]
               /\ UNCHANGED panicked
          ELSE Panic

(* SliceObj::append: self gets other's elements after its end.  When the *)
(* Vec has no more than other.len() elements after end it is truncated to *)
(* end and extended (from within itself when the slices share the array), *)
(* otherwise other's elements are copied over data[end..new_end].          *)
append(s, o) ==
    /\ Live
    /\ sl[s] # Nil /\ sl[o] # Nil
    /\ LET x == sl[s]
           y == sl[o]
           d == data[x.arr]
           new_end == x.end + len(y)
           sharing == sharing_with(x, y)
           trunc == truncate(d, x.end)
           x2 == [x EXCEPT !.end = new_end, !.cap_end = IF @ < new_end THEN new_end ELSE @]
           Done(d2) == /\ Len(d2) <= MaxLen
                       /\ data' = [data EXCEPT ![x.arr] = d2]
                       /\ sl' = [sl EXCEPT ![s] = x2]
                       /\ UNCHANGED panicked
       IN CASE x.end > Len(d) ->                       \* data.len() - self.end() underflows
                 Panic
            [] Len(d) - x.end <= len(y) /\ ~sharing ->
                 IF y.end > Len(data[y.arr]) THEN Panic
                 ELSE Done(trunc \o range(y))
            [] Len(d) - x.end <= len(y) /\ sharing ->  \* extend_from_within(other.range())
                 IF y.end > x.end THEN Panic
                 ELSE Done(trunc \o SubSeq(trunc, y.begin + 1, y.end))
            [] OTHER ->
                 IF y.end > Len(data[y.arr]) THEN Panic
                 ELSE Done([k \in 1 .. Len(d) |->
                              IF x.end < k /\ k <= new_end THEN range(y)[k - x.end] ELSE d[k]])

(* SliceObj::copy_from: copies min(len) elements of other to the front of *)
(* self; Rust indexing of either Vec panics when a range is past its end.  *)
copy_from(s, o) ==
    /\ Live
    /\ sl[s] # Nil /\ sl[o] # Nil
    /\ LET x == sl[s]
           y == sl[o]
           n == IF len(x) >= len(y) THEN len(y) ELSE len(x)
           d == data[x.arr]
           src == SubSeq(data[y.arr], y.begin + 1, y.begin + n)
       IN IF x.begin + n > Len(d) \/ y.begin + n > Len(data[y.arr])
          THEN Panic
          ELSE /\ data' = [data EXCEPT ![x.arr] =
                              [k \in 1 .. Len(d) |->
                                 IF x.begin < k /\ k <= x.begin + n THEN src[k - x.begin] ELSE d[k]]]
               /\ UNCHANGED <<sl, panicked>>

(* LITERAL of a slice type: the elements make a new ArrayObj (with_data), *)
(* viewed whole by the new slice in t.  An array no other slice refers  *)
(* to (the one t held is dropped with it) stands for the new one.        *)
LITERAL(t, a, ps) ==
    /\ Live
    /\ \A s \in SVars \ {t} : sl[s] # Nil => sl[s].arr # a
    /\ LET v == literal_vec(ps, -1, <<>>)
       IN /\ data' = [data EXCEPT ![a] = v]
          /\ sl' = [sl EXCEPT ![t] = [arr |-> a, begin |-> 0, end |-> Len(v),
                                       cap_end |-> Len(v)]]
    /\ UNCHANGED panicked

(* SliceObj::swap: indices checked against len, then a Vec swap.          *)
swap(s, i, j) ==
    /\ Live
    /\ sl[s] # Nil
    /\ LET x == sl[s]
           d == data[x.arr]
       IN CASE i >= len(x) \/ j >= len(x) ->      \* Err: index out of range
                 UNCHANGED <<data, sl, panicked>>
            [] x.begin + i >= Len(d) \/ x.begin + j >= Len(d) ->
                 Panic
            [] OTHER ->
                 /\ data' = [data EXCEPT ![x.arr] = [@ EXCEPT ![x.begin + i + 1] = d[x.begin + j + 1],
                                                          ![x.begin + j + 1] = d[x.begin + i + 1]]]
                 /\ UNCHANGED <<sl, panicked>>

-----------------------------------------------------------------------------
Init ==
    /\ data = InitData
    /\ sl = InitSlices
    /\ panicked = FALSE

(* Index arguments: begin and i from 0..MaxLen, end and max also -1.      *)
Next ==
    \/ \E t \in SVars, a \in Arrs, b \in Idx, e \in {-1} \cup Idx : with_array(t, a, b, e)
    \/ \E t, s \in SVars, b \in Idx, e, m \in {-1} \cup Idx : slice(t, s, b, e, m)
    \/ \E s \in SVars, i \in Idx, v \in Written : set(s, i, v)
    \/ \E s \in SVars, v \in Written : push(s, v)
    \/ \E s, o \in SVars : append(s, o) \/ copy_from(s, o)
    \/ \E s \in SVars, i, j \in Idx : swap(s, i, j)
    \/ \E t \in SVars, a \in Arrs, ps \in Literals : LITERAL(t, a, ps)

Spec == Init /\ [][Next]_vars

-----------------------------------------------------------------------------
(* Types.  len is a usize: a slice's end is never before its begin.       *)
TypeOK ==
    /\ data \in [Arrs -> Seq(Elems)]
    /\ \A a \in Arrs : Len(data[a]) <= MaxLen
    /\ sl \in [SVars -> SliceRec \cup {Nil}]
    /\ \A s \in SVars : sl[s] # Nil => sl[s].begin <= sl[s].end
    /\ panicked \in BOOLEAN

(* What the slice in s shows, before and after a step: the elements of  *)
(* begin..end that its array still has.                                   *)
Shown(d, x) == SubSeq(d, x.begin + 1, IF x.end <= Len(d) THEN x.end ELSE Len(d))
View(s) == Shown(data[sl[s].arr], sl[s])
ViewAfter(s) == Shown(data'[sl'[s].arr], sl'[s])

(* Append (spec 4.5 APPEND): after an append(s, o) that does not panic, *)
(* s shows what it showed followed by what o showed before the call,      *)
(* also when s and o share the array and overlap.  (An append of an empty *)
(* o leaves s as it was; the first conjunct skips it cheaply.)            *)
AppendContents ==
    [][\A s, o \in SVars :
          (sl'[s] # sl[s] /\ append(s, o) /\ ~panicked') =>
              ViewAfter(s) = View(s) \o View(o)]_vars

(* A push(s, v) that does not panic makes s show what it showed and then  *)
(* v, wherever on its array s begins.                                     *)
PushContents ==
    [][\A s \in SVars, v \in Written :
          (sl'[s] # sl[s] /\ push(s, v) /\ ~panicked') => ViewAfter(s) = Append(View(s), v)]_vars

(* Spec 3 and 8, first half: every slice ends within its array, whatever  *)
(* slicing, pushing and appending through other slices of the same array  *)
(* did before (ArrayObj's Vec never shrinks: append truncates only what   *)
(* it writes back).                                                       *)
EndInArray ==
    \A s \in SVars : sl[s] # Nil => sl[s].end <= Len(data[sl[s].arr])

(* Spec 4.5 APPEND: an append that needs more than cap(s) allocates a new *)
(* backing array, so no other slice sees what it writes.                  *)
AppendBeyondCapIsolated ==
    [][\A s, o \in SVars :
          (sl'[s] # sl[s] /\ append(s, o) /\ ~panicked' /\ sl[s] # Nil /\ sl[o] # Nil
             /\ len(sl[s]) + len(sl[o]) > cap(sl[s]))
          => \A t \in SVars \ {s} : sl[t] # Nil => ViewAfter(t) = View(t)]_vars

(* Reference (Go spec, composite literals): the index of each element of *)
(* a literal, the given key or one after the previous element's (0 for  *)
(* the first); the literal's length is one past the largest index and    *)
(* every index no element names holds the zero value.  Go rejects a     *)
(* literal that names an index twice, so in a literal Go accepts every   *)
(* index has one element, the one CHOOSE picks.                           *)
RECURSIVE GoIndices(_, _)
GoIndices(ps, prev) ==
    IF ps = <<>> THEN <<>>
    ELSE LET i == IF Head(ps).key < 0 THEN prev + 1 ELSE Head(ps).key
         IN <<i>> \o GoIndices(Tail(ps), i)
GoLiteral(ps) ==
    LET ix == GoIndices(ps, -1)
        n == IF ps = <<>> THEN 0
             ELSE 1 + CHOOSE m \in Range(ix) : \A j \in Range(ix) : j <= m
    IN [k \in 1 .. n |-> IF \E j \in DOMAIN ix : ix[j] = k - 1
                         THEN ps[CHOOSE j \in DOMAIN ix : ix[j] = k - 1].elem
                         ELSE Zero]

(* A slice literal evaluates to what Go defines, whatever the order and  *)
(* gaps of its keyed and unkeyed elements: LITERAL's gap filling,        *)
(* overwriting and running index agree with the spec's indexing.         *)
LiteralContents ==
    [][\A t \in SVars, a \in Arrs, ps \in Literals :
          LITERAL(t, a, ps) => ViewAfter(t) = GoLiteral(ps)]_vars

=============================================================================

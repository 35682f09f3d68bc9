----------------------------- MODULE MCTypeMeta -----------------------------
(***************************************************************************)
(* The types of a small Go program, as the type checker hands them to the *)
(* code generator:                                                         *)
(*                                                                         *)
(*   type Node struct { Val int; Next *Node; Kids []Node }                 *)
(*   type Pair struct { Node; Tag string; N Num }                          *)
(*   type Shape interface { Area() int }                                   *)
(*   type Grid [2]Node                                                     *)
(*   var index map[string]Node                                             *)
(*   func sum(first int, rest ...int) chan int                             *)
(*   func visit(ns ...Node)                                                *)
(*   type Num struct { A int8; B int16; C uint16; D rune; E byte;        *)
(*                     F float32; G uintptr }                              *)
(*                                                                         *)
(* Node is recursive through a pointer and through a slice, Pair embeds   *)
(* it, Grid holds it in an array, and Shape's method has the interface as *)
(* receiver: every arm of the translation and both ways of re-entering a  *)
(* type being translated occur.  No type has methods: the checker cannot *)
(* resolve a method's receiver (resolve_base_type_name is unimplemented). *)
(***************************************************************************)
EXTENDS TypeMeta

F(n, t, e) == [name |-> n, typ |-> t, embedded |-> e]

MCTC ==
    [t \in {"int", "string", "int8", "int16", "uint16", "rune", "byte", "uint8", "float32", "uintptr"} |->
        [kind |-> "Basic", basic |-> t]]
    @@ ("Node" :> [kind |-> "Named", underlying |-> "NodeS",
                   methods |-> <<>>])
    @@ ("NodeS" :> [kind |-> "Struct",
                    fields |-> <<F("Val", "int", FALSE), F("Next", "*Node", FALSE),
                                 F("Kids", "[]Node", FALSE)>>])
    @@ ("*Node" :> [kind |-> "Pointer", base |-> "Node"])
    @@ ("[]Node" :> [kind |-> "Slice", elem |-> "Node"])
    @@ ("Pair" :> [kind |-> "Named", underlying |-> "PairS", methods |-> <<>>])
    @@ ("PairS" :> [kind |-> "Struct",
                    fields |-> <<F("Node", "Node", TRUE), F("Tag", "string", FALSE),
                                 F("N", "Num", FALSE)>>])
    @@ ("Shape" :> [kind |-> "Named", underlying |-> "ShapeI", methods |-> <<>>])
    @@ ("ShapeI" :> [kind |-> "Interface", methods |-> <<F("Area", "AreaSig", FALSE)>>])
    @@ ("AreaSig" :> [kind |-> "Signature", recv |-> "Shape", params |-> <<>>,
                      results |-> <<"int">>, variadic |-> FALSE])
    @@ ("Grid" :> [kind |-> "Named", underlying |-> "[2]Node", methods |-> <<>>])
    @@ ("[2]Node" :> [kind |-> "Array", elem |-> "Node", len |-> 2])
    @@ ("map[string]Node" :> [kind |-> "Map", key |-> "string", elem |-> "Node"])
    @@ ("chan int" :> [kind |-> "Chan", dir |-> "SendRecv", elem |-> "int"])
    @@ ("[]int" :> [kind |-> "Slice", elem |-> "int"])
    @@ ("Num" :> [kind |-> "Named", underlying |-> "NumS", methods |-> <<>>])
    @@ ("NumS" :> [kind |-> "Struct",
                   fields |-> <<F("A", "int8", FALSE), F("B", "int16", FALSE),
                                F("C", "uint16", FALSE), F("D", "rune", FALSE),
                                F("E", "byte", FALSE), F("F", "float32", FALSE), F("G", "uintptr", FALSE)>>])
    @@ ("sum" :> [kind |-> "Signature", recv |-> "none", params |-> <<"int", "[]int">>,
                  results |-> <<"chan int">>, variadic |-> TRUE])
    @@ ("visit" :> [kind |-> "Signature", recv |-> "none", params |-> <<"[]Node">>,
                    results |-> <<>>, variadic |-> TRUE])

MCRoots == {"Pair", "Grid", "Shape", "map[string]Node", "sum", "visit"}

(* Grid, an array type, and a string are sliced.                          *)
MCSliced == {"Grid", "string"}

MCBasicMetas ==
    [i \in 1 .. 10 |-> LET n == <<"bool", "int", "string", "int8", "int16", "int32",
                                 "uint8", "uint16", "float32", "uint">>[i]
                     IN [kind |-> "Basic", name |-> n, of |-> n]]

(* Integer constants at the edges of the 8- and 16-bit types.             *)
MCConstInts == {-129, -128, -1, 0, 127, 128, 255, 256, 32767, 32768, 65535, 65536}
=============================================================================

------------------------------ MODULE TypeMeta ------------------------------
(***************************************************************************)
(* The code generator's translation of type-checker types into VM          *)
(* metadata (src/codegen/src/types.rs, TypeLookup::tc_type_to_meta and its *)
(* helpers).  The type checker's types form a graph TC, cyclic through     *)
(* named types; the generator asks for the metadata of a type whenever it  *)
(* needs one, in the order the program's code leads it to, and each call  *)
(* runs to completion.  The metadata registry is an append-only arena      *)
(* metas addressed by keys, a Meta is a key with a pointer depth, and      *)
(* types_cache maps the types already translated to their Meta.           *)
(*                                                                         *)
(* One action is one top-level call of tc_type_to_meta.  The recursion of *)
(* the call is an operator that threads the arena and the cache through   *)
(* the translation of the components, in the order the code visits them. *)
(* Every arena entry records, as a ghost field "of", the type it was made  *)
(* for, so that properties can say which metadata stands for which type.  *)
(***************************************************************************)
EXTENDS Integers, Sequences, FiniteSets, TLC

CONSTANTS
    TC,         \* TC[t]: the type checker's type t, a record by kind
    Roots,      \* the types the generator asks for directly
    BasicMetas, \* the predeclared basic metadata, in arena order
    MaxDepth,   \* bound on the nesting of a translation
    Sliced,     \* the types of the expressions the program slices or ranges over
    Depth,      \* depth to which properties unfold a type
    ConstInts   \* the integer constant values const_value_type is checked on

ASSUME MaxDepth \in Nat

VARIABLES
    types_cache, \* the types translated so far, to their Meta
    metas,       \* the metadata arena: metas[k] is the entry of key k
    diverged     \* a translation nested deeper than MaxDepth

vars == <<types_cache, metas, diverged>>

Types == DOMAIN TC

(* A Meta: the key of its arena entry and a pointer depth (Meta::ptr_to). *)
MetaOf(k, d) == [key |-> k, ptr |-> d]
NoMeta == MetaOf(0, 0)

(* The predeclared metadata of a basic type (vm_objs.s_meta), named by    *)
(* the type it is made for: aliases and untyped constants share the       *)
(* entry of another type, and uintptr that of uint.                       *)
DefaultBasic(b) ==
    CASE b \in {"untyped bool"}                -> "bool"
      [] b \in {"untyped int"}                 -> "int"
      [] b \in {"rune", "untyped rune"}        -> "int32"
      [] b \in {"uintptr"}                     -> "uint"
      [] b \in {"byte"}                        -> "uint8"
      [] b \in {"untyped float"}               -> "float64"
      [] b \in {"untyped string"}              -> "string"
      [] OTHER                                 -> b

BasicKey(b) == CHOOSE k \in DOMAIN BasicMetas : BasicMetas[k].name = b

basic_type_meta(t) == MetaOf(BasicKey(DefaultBasic(TC[t].basic)), 0)

(* The dummy underlying a named placeholder gets: s_meta.mint.            *)
mint == MetaOf(BasicKey("int"), 0)

(* Mutant: the key handed out is one past the entry appended.            *)
Alloc_past_end(rec, st) ==
    [m  |-> MetaOf(Len(st.metas) + 2, 0),
     st |-> [st EXCEPT !.metas = Append(@, rec)]]

(* A translation state: the arena, the cache and the divergence flag.     *)
(* Alloc appends an arena entry, as every Meta::new_* does.               *)
Alloc(rec, st) ==
    [m  |-> MetaOf(Len(st.metas) + 1, 0),
     st |-> [st EXCEPT !.metas = Append(@, rec)]]

(* The entry a Meta designates, looking through a named type to its      *)
(* underlying one (Meta::mtype_unwraped).                                  *)
Unwrapped(ms, m) ==
    IF ms[m.key].kind = "Named" THEN ms[ms[m.key].underlying.key] ELSE ms[m.key]

(* Type::is_interface: the type or, for a named type, its underlying one. *)
IsInterface(t) ==
    \/ TC[t].kind = "Interface"
    \/ TC[t].kind = "Named" /\ TC[TC[t].underlying].kind = "Interface"

RECURSIVE tc_type_to_meta(_, _, _), tc_type_to_meta_impl(_, _, _),
          build_fields(_, _, _, _, _, _), ConvertList(_, _, _, _)

(* The metadata of each type of the sequence ts, translated in order.     *)
ConvertList(ts, st, d, acc) ==
    IF ts = <<>> THEN [m |-> acc, st |-> st]
    ELSE LET r == tc_type_to_meta(Head(ts), st, d)
         IN ConvertList(Tail(ts), r.st, d, Append(acc, r.m))

(* Fields (or interface methods) fs from index i on: translate the type   *)
(* of each, record it, map its name to its index and, for an embedded     *)
(* field whose metadata is a struct, map each name that struct maps to    *)
(* the path through the field.  Later insertions overwrite earlier ones. *)
build_fields(fs, i, st, d, infos, map) ==
    IF i > Len(fs) THEN [m |-> [infos |-> infos, mapping |-> map], st |-> st]
    ELSE
      LET f == fs[i]
          r == tc_type_to_meta(f.typ, st, d)
          own == (f.name :> <<i - 1>>) @@ map
          inner == Unwrapped(r.st.metas, r.m)
          promoted ==
            IF f.embedded /\ inner.kind = "Struct"
            THEN [k \in DOMAIN inner.mapping |-> <<i - 1>> \o inner.mapping[k]] @@ own
            ELSE own
      IN build_fields(fs, i + 1, r.st,  d,
                      Append(infos, [meta |-> r.m, name |-> f.name,
                                     embedded |-> f.embedded]),
                      promoted)

(* The arms of tc_type_to_meta_impl, one per kind of type.                *)
ArrayMeta(t, st, d) ==
    LET e == tc_type_to_meta_impl(TC[t].elem, st, d)
    IN Alloc([kind |-> "Array", of |-> t, elem |-> e.m, len |-> TC[t].len], e.st)

SliceMeta(t, st, d) ==
    LET e == tc_type_to_meta(TC[t].elem, st, d)
    IN Alloc([kind |-> "Slice", of |-> t, elem |-> e.m], e.st)

(* Mutant: key and value metadata recorded the wrong way round.          *)
MapMeta_swapped(t, st, d) ==
    LET k == tc_type_to_meta(TC[t].key, st, d)
        v == tc_type_to_meta(TC[t].elem, k.st, d)
    IN Alloc([kind |-> "Map", of |-> t, key |-> v.m, elem |-> k.m], v.st)

MapMeta(t, st, d) ==
    LET k == tc_type_to_meta(TC[t].key, st, d)
        v == tc_type_to_meta(TC[t].elem, k.st, d)
    IN Alloc([kind |-> "Map", of |-> t, key |-> k.m, elem |-> v.m], v.st)

StructMeta(t, st, d) ==
    LET fs == build_fields(TC[t].fields, 1, st, d, <<>>, <<>>)
    IN Alloc([kind |-> "Struct", of |-> t, fields |-> fs.m.infos,
              mapping |-> fs.m.mapping], fs.st)

InterfaceMeta(t, st, d) ==
    LET fs == build_fields(TC[t].methods, 1, st, d, <<>>, <<>>)
    IN Alloc([kind |-> "Interface", of |-> t, fields |-> fs.m.infos,
              mapping |-> fs.m.mapping], fs.st)

ChanMeta(t, st, d) ==
    LET e == tc_type_to_meta(TC[t].elem, st, d)
    IN Alloc([kind |-> "Chan", of |-> t, dir |-> TC[t].dir, elem |-> e.m], e.st)

(* Mutant: the variadic element recorded as the slice itself.            *)
SignatureMeta_variadic_slice(t, st, d) ==
    LET T == TC[t]
        ps == ConvertList(T.params, st, d, <<>>)
        rs == ConvertList(T.results, ps.st, d, <<>>)
        skip == T.recv = "none" \/ IsInterface(T.recv)
        rv == IF skip THEN [m |-> NoMeta, st |-> rs.st]
              ELSE tc_type_to_meta(T.recv, rs.st, d)
        last == ps.m[Len(ps.m)]
    IN Alloc([kind |-> "Signature", of |-> t, recv |-> rv.m, params |-> ps.m,
              results |-> rs.m,
              variadic |-> IF T.variadic THEN <<last, last>> ELSE <<>>], rv.st)

(* The receiver of a method is translated unless it is an interface,      *)
(* "to avoid infinite recursion".  A variadic signature records its last  *)
(* parameter's slice metadata and that slice's element metadata, read   *)
(* from the arena after the receiver is translated (Option<(Meta, Meta)>, *)
(* here a sequence of length 0 or 2).                                     *)
SignatureMeta(t, st, d) ==
    LET T == TC[t]
        ps == ConvertList(T.params, st, d, <<>>)
        rs == ConvertList(T.results, ps.st, d, <<>>)
        skip == T.recv = "none" \/ IsInterface(T.recv)
        rv == IF skip THEN [m |-> NoMeta, st |-> rs.st]
              ELSE tc_type_to_meta(T.recv, rs.st, d)
        last == ps.m[Len(ps.m)]
    IN Alloc([kind |-> "Signature", of |-> t, recv |-> rv.m, params |-> ps.m,
              results |-> rs.m,
              variadic |-> IF T.variadic THEN <<last, rv.st.metas[last.key].elem>>
                           ELSE <<>>], rv.st)

PointerMeta(t, st, d) ==
    LET b == tc_type_to_meta(TC[t].base, st, d)
    IN [m |-> [b.m EXCEPT !.ptr = @ + 1], st |-> b.st]

(* Mutant: the placeholder is cached only once the underlying type is    *)
(* translated.                                                            *)
NamedMeta_late_cache(t, st, d) ==
    LET p == Alloc([kind |-> "Named", of |-> t, underlying |-> mint,
                    methods |-> TC[t].methods], st)
        u == tc_type_to_meta(TC[t].underlying, p.st, d)
    IN [m |-> p.m,
        st |-> [u.st EXCEPT !.metas[p.m.key].underlying = u.m,
                            !.cache = (t :> p.m) @@ @]]

(* A named type: a placeholder with the dummy underlying and the method   *)
(* table goes into the arena and the cache first, then the underlying     *)
(* type is translated and written into the placeholder.                   *)
NamedMeta(t, st, d) ==
    LET p == Alloc([kind |-> "Named", of |-> t, underlying |-> mint,
                    methods |-> TC[t].methods], st)
        cached == [p.st EXCEPT !.cache = (t :> p.m) @@ @]
        u == tc_type_to_meta(TC[t].underlying, cached, d)
    IN [m |-> p.m,
        st |-> [u.st EXCEPT !.metas[p.m.key].underlying = u.m]]

tc_type_to_meta_impl(t, st, d) ==
    IF d > MaxDepth THEN [m |-> mint, st |-> [st EXCEPT !.diverged = TRUE]]
    ELSE CASE TC[t].kind = "Basic"     -> [m |-> basic_type_meta(t), st |-> st]
           [] TC[t].kind = "Array"     -> ArrayMeta(t, st, d + 1)
           [] TC[t].kind = "Slice"     -> SliceMeta(t, st, d + 1)
           [] TC[t].kind = "Map"       -> MapMeta(t, st, d + 1)
           [] TC[t].kind = "Struct"    -> StructMeta(t, st, d + 1)
           [] TC[t].kind = "Interface" -> InterfaceMeta(t, st, d + 1)
           [] TC[t].kind = "Chan"      -> ChanMeta(t, st, d + 1)
           [] TC[t].kind = "Signature" -> SignatureMeta(t, st, d + 1)
           [] TC[t].kind = "Pointer"   -> PointerMeta(t, st, d + 1)
           [] TC[t].kind = "Named"     -> NamedMeta(t, st, d + 1)

(* The cached translation: a type not in the cache is translated and the  *)
(* result inserted, replacing whatever the translation itself cached.     *)
tc_type_to_meta(t, st, d) ==
    IF t \in DOMAIN st.cache THEN [m |-> st.cache[t], st |-> st]
    ELSE LET r == tc_type_to_meta_impl(t, st, d)
         IN [m |-> r.m, st |-> [r.st EXCEPT !.cache = (t :> r.m) @@ @]]

-----------------------------------------------------------------------------

Init ==
    /\ types_cache = <<>>
    /\ metas = BasicMetas
    /\ diverged = FALSE

CurSt == [cache |-> types_cache, metas |-> metas, diverged |-> diverged]

(* The generator asks for the metadata of a type.                         *)
Convert(t) ==
    LET r == tc_type_to_meta(t, CurSt, 0)
    IN /\ ~diverged
       /\ types_cache' = r.st.cache
       /\ metas' = r.st.metas
       /\ diverged' = r.st.diverged

(* The value type and element type of a sliceable expression, from the   *)
(* arena entry e of the metadata of its underlying type typ.               *)
sliceable_value_types(e, typ) ==
    [vt   |-> CASE e.kind = "Array" -> "Array"
                [] e.kind = "Slice" -> "Slice"
                [] e.kind = "Basic" /\ e.name = "string" -> "String"
                [] OTHER -> "unreachable",
     elem |-> IF e.kind \in {"Array", "Slice"} THEN TC[typ].elem ELSE "uint8"]

(* TypeLookup::sliceable_expr_value_types, for an expression that is      *)
(* sliced or ranged over: the underlying type of its type is translated   *)
(* and the kind of its metadata entry gives the value type; the element  *)
(* type comes from the type checker (uint8 for a string).  A kind other   *)
(* than array, slice or string is unreachable!().                         *)
sliceable_expr_value_types(t, st) ==
    LET typ == IF TC[t].kind = "Named" THEN TC[t].underlying ELSE t
        r == tc_type_to_meta(typ, st, 0)
    IN [st |-> r.st] @@ sliceable_value_types(r.st.metas[r.m.key], typ)

(* The generator compiles a slice expression or a range over an          *)
(* expression of type t.                                                  *)
Sliceable(t) ==
    LET r == sliceable_expr_value_types(t, CurSt)
    IN /\ ~diverged
       /\ types_cache' = r.st.cache
       /\ metas' = r.st.metas
       /\ diverged' = r.st.diverged

Next ==
    \/ \E t \in Roots : Convert(t)
    \/ \E t \in Sliced : Sliceable(t)

Spec == Init /\ [][Next]_vars

(* The value type of each basic type (the Basic arm of                    *)
(* tc_type_to_value_type).  Complex, unsafe and nil types are left out.  *)
BasicVT ==
    ("bool" :> "Bool") @@ ("untyped bool" :> "Bool")
    @@ ("int" :> "Int") @@ ("untyped int" :> "Int") @@ ("int8" :> "Int8")
    @@ ("int16" :> "Int16") @@ ("int32" :> "Int32") @@ ("rune" :> "Int32")
    @@ ("untyped rune" :> "Int32") @@ ("int64" :> "Int64") @@ ("uint" :> "Uint")
    @@ ("uintptr" :> "UintPtr") @@ ("uint8" :> "Uint8") @@ ("byte" :> "Uint8")
    @@ ("uint16" :> "Uint16") @@ ("uint32" :> "Uint32") @@ ("uint64" :> "Uint64")
    @@ ("float32" :> "Float32") @@ ("float64" :> "Float64")
    @@ ("untyped float" :> "Float64") @@ ("string" :> "String")
    @@ ("untyped string" :> "String")

(* The value type the code generator assigns to a type                    *)
(* (tc_type_to_value_type): a named type has that of its underlying one.  *)
RECURSIVE tc_type_to_value_type(_)
tc_type_to_value_type(t) ==
    CASE TC[t].kind = "Basic"     -> BasicVT[TC[t].basic]
      [] TC[t].kind = "Array"     -> "Array"
      [] TC[t].kind = "Slice"     -> "Slice"
      [] TC[t].kind = "Map"       -> "Map"
      [] TC[t].kind = "Struct"    -> "Struct"
      [] TC[t].kind = "Interface" -> "Interface"
      [] TC[t].kind = "Chan"      -> "Channel"
      [] TC[t].kind = "Signature" -> "Closure"
      [] TC[t].kind = "Pointer"   -> "Pointer"
      [] TC[t].kind = "Named"     -> tc_type_to_value_type(TC[t].underlying)

(* The value type of the values the VM makes from a Meta: a pointer for a *)
(* pointer depth above 0, that of the underlying entry for a named one.   *)
MetaValueType(ms, m) ==
    LET e == Unwrapped(ms, m)
    IN CASE m.ptr > 0               -> "Pointer"
         [] e.kind = "Basic"        -> BasicVT[e.name]
         [] e.kind = "Chan"         -> "Channel"
         [] e.kind = "Signature"    -> "Closure"
         [] OTHER                   -> e.kind

(* TypeLookup::sig_params_tc_types: the parameter types of a function    *)
(* type and, when it is variadic, the element type of its last parameter  *)
(* (a slice, or string for append's []byte special case, giving byte),    *)
(* which the generator uses to pack the arguments of a variadic call.    *)
sig_params_tc_types(t) ==
    LET T == TC[IF TC[t].kind = "Named" THEN TC[t].underlying ELSE t]
        last == T.params[Len(T.params)]
    IN [params |-> T.params,
        variadic |-> IF ~T.variadic THEN "none"
                     ELSE CASE TC[last].kind = "Slice" -> TC[last].elem
                            [] TC[last].kind = "Basic" -> "byte"]

(* TypeLookup::underlying_tc.                                             *)
underlying_tc(t) == IF TC[t].kind = "Named" THEN TC[t].underlying ELSE t

(* The value types of what a pointer points to and of a slice's elements *)
(* (pointer_point_to_type, slice_elem_type).                              *)
pointer_point_to_type(t) == tc_type_to_value_type(TC[t].base)
slice_elem_type(t) == tc_type_to_value_type(TC[t].elem)

(* sig_returns_tc_types: the result types of a function type.            *)
sig_returns_tc_types(t) == TC[underlying_tc(t)].results

(* Mutant: the key and element types of a range over a map swapped.      *)
range_tc_types_map_swapped(t) ==
    LET typ == underlying_tc(t)
    IN CASE TC[typ].kind = "Basic"              -> <<typ, "int", "int">>
         [] TC[typ].kind \in {"Slice", "Array"} -> <<typ, "int", TC[typ].elem>>
         [] TC[typ].kind = "Map"                -> <<typ, TC[typ].elem, TC[typ].key>>

(* range_tc_types: the types of the container, the key and the value of a *)
(* range over a value of type t: an int index and the element for an     *)
(* array or slice, the key and element for a map, and int and int for a  *)
(* string.  Any other type is unreachable!().                             *)
range_tc_types(t) ==
    LET typ == underlying_tc(t)
    IN CASE TC[typ].kind = "Basic"              -> <<typ, "int", "int">>
         [] TC[typ].kind \in {"Slice", "Array"} -> <<typ, "int", TC[typ].elem>>
         [] TC[typ].kind = "Map"                -> <<typ, TC[typ].key, TC[typ].elem>>

-----------------------------------------------------------------------------
(* Rust's `as` casts of an integer to w bits.  TLC's integers are 32 bits *)
(* wide, so a cast to 32 bits or more is exact on every value it meets.   *)
AsSigned(v, w) ==
    IF w >= 32 THEN v
    ELSE LET r == v % (2 ^ w) IN IF r >= 2 ^ (w - 1) THEN r - 2 ^ w ELSE r
AsUnsigned(v, w) == IF w >= 32 THEN v ELSE v % (2 ^ w)

(* Mutant: uint16 constants narrowed to 8 bits.                          *)
const_value_type_uint16_as_u8(b, v) ==
    CASE b \in {"bool", "untyped bool"}        -> [val |-> v, vt |-> "Bool"]
      [] b \in {"int", "untyped int"}          -> [val |-> AsSigned(v, 64), vt |-> "Int"]
      [] b = "int8"                            -> [val |-> AsSigned(v, 8), vt |-> "Int8"]
      [] b = "int16"                           -> [val |-> AsSigned(v, 16), vt |-> "Int16"]
      [] b \in {"int32", "rune", "untyped rune"} -> [val |-> AsSigned(v, 32), vt |-> "Int32"]
      [] b = "int64"                           -> [val |-> v, vt |-> "Int64"]
      [] b = "uint"                            -> [val |-> AsUnsigned(v, 64), vt |-> "Uint"]
      [] b = "uintptr"                         -> [val |-> AsUnsigned(v, 64), vt |-> "UintPtr"]
      [] b \in {"uint8", "byte"}               -> [val |-> AsUnsigned(v, 8), vt |-> "Uint8"]
      [] b = "uint16"                          -> [val |-> AsUnsigned(v, 8), vt |-> "Uint16"]
      [] b = "uint32"                          -> [val |-> AsUnsigned(v, 32), vt |-> "Uint32"]
      [] b = "uint64"                          -> [val |-> AsUnsigned(v, 64), vt |-> "Uint64"]
      [] b = "float32"                         -> [val |-> v, vt |-> "Float32"]
      [] b \in {"float64", "untyped float"}    -> [val |-> v, vt |-> "Float64"]
      [] b \in {"string", "untyped string"}    -> [val |-> v, vt |-> "String"]

(* TypeLookup::const_value_type: the VM value and value type of a         *)
(* constant of basic type b with (exact) value v.  Integers go through     *)
(* int_as_i64 or int_as_u64 and an `as` cast to the type's width; a       *)
(* float is exact on the integers the check uses (below 2^24).            *)
const_value_type(b, v) ==
    CASE b \in {"bool", "untyped bool"}        -> [val |-> v, vt |-> "Bool"]
      [] b \in {"int", "untyped int"}          -> [val |-> AsSigned(v, 64), vt |-> "Int"]
      [] b = "int8"                            -> [val |-> AsSigned(v, 8), vt |-> "Int8"]
      [] b = "int16"                           -> [val |-> AsSigned(v, 16), vt |-> "Int16"]
      [] b \in {"int32", "rune", "untyped rune"} -> [val |-> AsSigned(v, 32), vt |-> "Int32"]
      [] b = "int64"                           -> [val |-> v, vt |-> "Int64"]
      [] b = "uint"                            -> [val |-> AsUnsigned(v, 64), vt |-> "Uint"]
      [] b = "uintptr"                         -> [val |-> AsUnsigned(v, 64), vt |-> "UintPtr"]
      [] b \in {"uint8", "byte"}               -> [val |-> AsUnsigned(v, 8), vt |-> "Uint8"]
      [] b = "uint16"                          -> [val |-> AsUnsigned(v, 16), vt |-> "Uint16"]
      [] b = "uint32"                          -> [val |-> AsUnsigned(v, 32), vt |-> "Uint32"]
      [] b = "uint64"                          -> [val |-> AsUnsigned(v, 64), vt |-> "Uint64"]
      [] b = "float32"                         -> [val |-> v, vt |-> "Float32"]
      [] b \in {"float64", "untyped float"}    -> [val |-> v, vt |-> "Float64"]
      [] b \in {"string", "untyped string"}    -> [val |-> v, vt |-> "String"]

(* Reference: the values of basic type b (Go spec, numeric types), among  *)
(* the integers TLC has.                                                  *)
IntBits == ("int8" :> 8) @@ ("int16" :> 16) @@ ("int32" :> 32) @@ ("rune" :> 32)
           @@ ("untyped rune" :> 32) @@ ("uint8" :> 8) @@ ("byte" :> 8)
           @@ ("uint16" :> 16) @@ ("uint32" :> 32)
Unsigned == {"uint", "uintptr", "uint8", "byte", "uint16", "uint32", "uint64"}
Representable(v, b) ==
    /\ b \in Unsigned => v >= 0
    /\ b \in DOMAIN IntBits /\ IntBits[b] < 32 =>
         IF b \in Unsigned THEN v < 2 ^ IntBits[b]
         ELSE -(2 ^ (IntBits[b] - 1)) <= v /\ v < 2 ^ (IntBits[b] - 1)

-----------------------------------------------------------------------------
(* Reference: what a type is, unfolded to depth k, read from the type     *)
(* graph and from the metadata.  A named type unfolds to its identity,    *)
(* its method table and its underlying type; a signature leaves out an    *)
(* interface receiver, as the translation does on purpose.               *)

RECURSIVE TypeTree(_, _)
TypeTree(t, k) ==
    LET T == TC[t]
        Sub(u) == TypeTree(u, k - 1)
        Fields(fs) == [i \in DOMAIN fs |-> <<fs[i].name, fs[i].embedded, Sub(fs[i].typ)>>]
    IN IF k = 0 THEN "cut"
       ELSE CASE T.kind = "Basic"     -> <<"Basic", DefaultBasic(T.basic)>>
              [] T.kind = "Array"     -> <<"Array", T.len, Sub(T.elem)>>
              [] T.kind = "Slice"     -> <<"Slice", Sub(T.elem)>>
              [] T.kind = "Map"       -> <<"Map", Sub(T.key), Sub(T.elem)>>
              [] T.kind = "Chan"      -> <<"Chan", T.dir, Sub(T.elem)>>
              [] T.kind = "Struct"    -> <<"Struct", Fields(T.fields)>>
              [] T.kind = "Interface" -> <<"Interface", Fields(T.methods)>>
              [] T.kind = "Signature" ->
                   <<"Signature",
                     IF T.recv = "none" \/ IsInterface(T.recv) THEN "none" ELSE Sub(T.recv),
                     [i \in DOMAIN T.params |-> Sub(T.params[i])],
                     [i \in DOMAIN T.results |-> Sub(T.results[i])], T.variadic>>
              [] T.kind = "Pointer"   -> <<"Pointer", Sub(T.base)>>
              [] T.kind = "Named"     -> <<"Named", t, T.methods, Sub(T.underlying)>>

RECURSIVE MetaTree(_, _, _)
MetaTree(ms, m, k) ==
    LET e == ms[m.key]
        Sub(n) == MetaTree(ms, n, k - 1)
        Fields(fs) == [i \in DOMAIN fs |-> <<fs[i].name, fs[i].embedded, Sub(fs[i].meta)>>]
    IN IF k = 0 THEN "cut"
       ELSE IF m = NoMeta THEN "none"
       ELSE IF m.ptr > 0 THEN <<"Pointer", Sub([m EXCEPT !.ptr = @ - 1])>>
       ELSE CASE e.kind = "Basic"     -> <<"Basic", e.name>>
              [] e.kind = "Array"     -> <<"Array", e.len, Sub(e.elem)>>
              [] e.kind = "Slice"     -> <<"Slice", Sub(e.elem)>>
              [] e.kind = "Map"       -> <<"Map", Sub(e.key), Sub(e.elem)>>
              [] e.kind = "Chan"      -> <<"Chan", e.dir, Sub(e.elem)>>
              [] e.kind = "Struct"    -> <<"Struct", Fields(e.fields)>>
              [] e.kind = "Interface" -> <<"Interface", Fields(e.fields)>>
              [] e.kind = "Signature" ->
                   <<"Signature", Sub(e.recv),
                     [i \in DOMAIN e.params |-> Sub(e.params[i])],
                     [i \in DOMAIN e.results |-> Sub(e.results[i])], (e.variadic # <<>>)>>
              [] e.kind = "Named"     -> <<"Named", e.of, e.methods, Sub(e.underlying)>>

-----------------------------------------------------------------------------

TypeOK ==
    /\ DOMAIN types_cache \subseteq Types
    /\ \A t \in DOMAIN types_cache : types_cache[t].key \in 1 .. Len(metas)
    /\ diverged \in BOOLEAN

(* The metadata the cache gives for a type describes that type, to depth  *)
(* Depth: its components, array length, channel direction, field names   *)
(* and pointer depth, and for a named type its identity, methods and a    *)
(* filled-in underlying type.  It is what the two-phase construction of   *)
(* a named type (placeholder, then underlying) must get right for every   *)
(* order in which the generator meets the types of a cycle.              *)
MetaMatchesType ==
    \A t \in DOMAIN types_cache :
        MetaTree(metas, types_cache[t], Depth) = TypeTree(t, Depth)

(* Every translation ends: the placeholder cached before the underlying   *)
(* type is translated stops the recursion through recursive types.        *)
TranslationBounded == ~diverged

(* The value type the generator compiles an operation for is the value    *)
(* type of the values the VM makes from the type's metadata.              *)
ValueTypeAgrees ==
    \A t \in DOMAIN types_cache :
        tc_type_to_value_type(t) = MetaValueType(metas, types_cache[t])

(* The registry interns: one type has one metadata entry, so that a       *)
(* type assertion or type switch (TYPE_ASSERT compares Metas) sees the    *)
(* same Meta wherever the type occurs (spec 3, 4.1 and 9).                *)
Interned ==
    \A k1, k2 \in Len(BasicMetas) + 1 .. Len(metas) :
        metas[k1].of = metas[k2].of => k1 = k2

(* A constant of a basic type the generator has translated is materialised *)
(* with the value type it gives variables of that type and, when its      *)
(* value is representable in the type (which the checker guarantees),    *)
(* with that value: the arms of const_value_type and                      *)
(* tc_type_to_value_type agree and every cast keeps the type's width.     *)
ConstValueKept ==
    \A t \in DOMAIN types_cache :
        LET b == TC[t].basic
            Vals == CASE b \in {"bool", "untyped bool"}     -> BOOLEAN
                      [] b \in {"string", "untyped string"} -> {"s"}
                      [] OTHER -> {v \in ConstInts : Representable(v, b)}
        IN TC[t].kind = "Basic" =>
             \A v \in Vals : const_value_type(b, v) = [val |-> v, vt |-> tc_type_to_value_type(t)]

(* A variadic call is packed twice over: the VM packs the trailing        *)
(* arguments by the element metadata the signature's metadata records,    *)
(* the generator by the element type sig_params_tc_types gives.  For every *)
(* variadic function type translated, in every order the generator meets *)
(* the types of a recursive type in, the two describe the same type.      *)
VariadicAgrees ==
    \A t \in DOMAIN types_cache :
        (TC[t].kind = "Signature" /\ TC[t].variadic) =>
            MetaTree(metas, metas[types_cache[t].key].variadic[2], Depth)
                = TypeTree(sig_params_tc_types(t).variadic, Depth)

(* The generator types the variables of a range, a slice's elements, a   *)
(* pointer's target and a call's results from the type checker's types   *)
(* (range_tc_types, slice_elem_type, pointer_point_to_type,               *)
(* sig_returns_tc_types); the VM builds and reads the values from the    *)
(* metadata.  For every type translated, in every order the generator     *)
(* meets the types of a recursive type in, the two describe the same     *)
(* component types.                                                       *)
ComponentTypesAgree ==
    \A t \in DOMAIN types_cache :
        LET m == types_cache[t]
            e == Unwrapped(metas, m)
            Same(n, u) == MetaTree(metas, n, Depth) = TypeTree(u, Depth)
        IN /\ (m.ptr = 0 /\ e.kind \in {"Slice", "Array"}) =>
                 /\ Same(e.elem, range_tc_types(t)[3])
                 /\ TC[underlying_tc(t)].kind = "Slice" =>
                      slice_elem_type(underlying_tc(t)) = MetaValueType(metas, e.elem)
           /\ (m.ptr = 0 /\ e.kind = "Map") =>
                 Same(e.key, range_tc_types(t)[2]) /\ Same(e.elem, range_tc_types(t)[3])
           /\ TC[t].kind = "Pointer" =>
                 pointer_point_to_type(t) = MetaValueType(metas, [m EXCEPT !.ptr = @ - 1])
           /\ (m.ptr = 0 /\ e.kind = "Signature") =>
                 \A i \in DOMAIN e.results : Same(e.results[i], sig_returns_tc_types(t)[i])

=============================================================================

----------------------------- MODULE MCPackages -----------------------------
(***************************************************************************)
(* Every program over main and two packages a and b that Go accepts:     *)
(* each import graph in which main reaches a and b and no package imports *)
(* itself or main, in every source order; main has var w, a has vars x   *)
(* and y, b has var z, each initialised by its own constant or by a      *)
(* variable of a package its package imports; func main is one of a few  *)
(* bodies of direct and pointer loads and stores over the packages main  *)
(* imports.  The graphs include main -> a -> b with main -> b, where b   *)
(* is imported twice.                                                      *)
(***************************************************************************)
EXTENDS Packages

Const(v) == [kind |-> "const", val |-> v]
Var(q, n) == [kind |-> "var", pkg |-> q, name |-> n]
Deref(q, n) == [kind |-> "deref", pkg |-> q, name |-> n]
Dst(q, n, ptr) == [pkg |-> q, name |-> n, ptr |-> ptr]
Assign(d, r) == [dst |-> d, rhs |-> r]

MCNames == ("main" :> <<"w">>) @@ ("a" :> <<"x", "y">>) @@ ("b" :> <<"z">>)
MCConst == ("w" :> 4) @@ ("x" :> 1) @@ ("y" :> 2) @@ ("z" :> 3)

(* The import lists: sequences of distinct packages other than main.     *)
ImportLists == {<<>>, <<"a">>, <<"b">>, <<"a", "b">>, <<"b", "a">>}

Reaches(imp, p, q) ==
    \/ q \in Range(imp[p])
    \/ \E r \in Range(imp[p]) : q \in Range(imp[r])
Acyclic(imp) == \A p \in Pkgs : ~Reaches(imp, p, p)
MCImportGraphs ==
    {imp \in [Pkgs -> ImportLists] :
        /\ Acyclic(imp)
        /\ \A p \in Pkgs \ {Main} : Reaches(imp, Main, p)}

(* The initialisers variable n of p may have.                             *)
Inits(imp, n) ==
    {Const(MCConst[n])} \cup
    UNION {{Var(q, m) : m \in Range(MCNames[q])} : q \in Range(imp[CHOOSE p \in Pkgs : n \in Range(MCNames[p])])}

MCBodies ==
    { << Assign(Dst("a", "y", TRUE), Const(5)), Assign(Dst("main", "w", FALSE), Var("a", "y")) >>,
      << Assign(Dst("main", "w", FALSE), Deref("b", "z")), Assign(Dst("b", "z", FALSE), Const(5)) >>,
      << Assign(Dst("a", "x", TRUE), Deref("a", "y")) >> }

(* The packages a statement names.                                        *)
BodyPkgs(body) ==
    UNION {{body[i].dst.pkg} \cup (IF body[i].rhs.kind = "const" THEN {} ELSE {body[i].rhs.pkg})
           : i \in DOMAIN body}

MCPrograms ==
    UNION {{[imports |-> imp,
             vars |-> [p \in Pkgs |-> [k \in DOMAIN MCNames[p] |->
                                          [name |-> MCNames[p][k], init |-> ini[MCNames[p][k]]]]],
             main |-> body] :
              ini \in {f \in [DOMAIN MCConst -> UNION {Inits(imp, n) : n \in DOMAIN MCConst}] :
                        \A n \in DOMAIN MCConst : f[n] \in Inits(imp, n)},
              body \in {bd \in MCBodies : BodyPkgs(bd) \subseteq Range(imp[Main]) \cup {Main}}}
           : imp \in MCImportGraphs}
====

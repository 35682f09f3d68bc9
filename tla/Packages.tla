------------------------------ MODULE Packages ------------------------------
(***************************************************************************)
(* Packages and their initialisation: PackageVal of src/vm/src/objects.rs, *)
(* the entry function EntryGen builds (src/codegen/src/entry.rs) and the   *)
(* opcodes of src/vm/src/vm.rs that run a package's constructor and read   *)
(* and write its members: IMPORT, JUMP_IF_NOT, LOAD_PKG_FIELD,             *)
(* STORE_PKG_FIELD, PUSH_CONST, POP, PRE_CALL, CALL, RETURN and            *)
(* RETURN_INIT_PKG.                                                        *)
(*                                                                         *)
(* One fiber runs the bytecode, so a behaviour is the single run of the    *)
(* program; the code of each function is a constant sequence of           *)
(* instructions.  The code the generator emits for an import and for a    *)
(* package constructor (emit_import, the constructor of PkgHelper) is not *)
(* in src and is modelled from the description of IMPORT: the importer    *)
(* calls the constructor, member 0 of the package, when IMPORT pushes      *)
(* TRUE, then each variable initialiser leaves its value on the stack and *)
(* RETURN_INIT_PKG moves them into the members.                            *)
(***************************************************************************)
EXTENDS Integers, Sequences, SequencesExt

CONSTANTS
    Pkgs,       \* the packages of the program
    Main,       \* the main package
    Programs,   \* the programs: [imports, vars, main] over Pkgs
    Vals,       \* the values of constants
    Zero        \* the zero value a member holds before initialisation

(* A program: imports[p] the packages p imports, in source order;        *)
(* vars[p] p's variable declarations [name, init], in order; main the    *)
(* statements of func main.                                               *)

VARIABLES
    prog,        \* the program being run; fixed by Init
    code,        \* code[f]: the instructions of function f (ByteCode); fixed
    packages,    \* packages[p]: the PackageVal of p
    stack,       \* the fiber's value stack
    frames,      \* the call frames, [fn, pc, base]; pc indexes the code
    next_frames, \* frames made by PRE_CALL, waiting for their CALL
    result,      \* "Continue" or "End"
    inits        \* ghost: inits[p] counts the entries into p's constructor

vars == <<prog, code, packages, stack, frames, next_frames, result, inits>>

Imports == prog.imports
Vars == prog.vars
MainBody == prog.main

(* Function values: a package's constructor and its func main.           *)
Ctor(p) == [fn |-> "ctor", pkg |-> p]
MainFn == [fn |-> "main", pkg |-> Main]
EntryFn == [fn |-> "entry", pkg |-> Main]

(* The member names of p, in the order the generator adds them.          *)
VarNames(p) == [k \in DOMAIN Vars[p] |-> Vars[p][k].name]
MemberNames(p) == <<"ctor">> \o VarNames(p) \o (IF p = Main THEN <<"main">> ELSE <<>>)

-----------------------------------------------------------------------------
(* PackageVal: members in insertion order, member_indices from name to   *)
(* index (0-based as OpIndex), and var_mapping, an Option of a map from   *)
(* the constructor's variable index to the member index.                  *)
PackageVal_new ==
    [members |-> <<>>, member_indices |-> <<>>, var_mapping |-> <<>>, some |-> TRUE]

add_member(pv, name, val) ==
    [pv EXCEPT !.members = Append(@, val),
               !.member_indices = @ @@ (name :> Len(pv.members))]

get_member_index(pv, name) == pv.member_indices[name]

add_var_mapping(pv, name, fn_index) ==
    [pv EXCEPT !.var_mapping = @ @@ (fn_index :> get_member_index(pv, name))]

inited(pv) == ~pv.some

set_inited(pv) == [pv EXCEPT !.some = FALSE]

member(pv, i) == pv.members[i + 1]

member_mut(pv, i, val) == [pv EXCEPT !.members[i + 1] = val]

(* A drain that pairs the i-th value popped with var_mapping[i], the     *)
(* forward order (a fault init_vars could have).                           *)
init_vars_forward(pv, st) ==
    LET count == Cardinality(DOMAIN pv.var_mapping)
    IN FoldLeft(LAMBDA x, i : member_mut(x, pv.var_mapping[i], st[Len(st) - i]),
                pv, [n \in 1 .. count |-> n - 1])

(* init_vars: the i-th value popped from the stack st goes to the member  *)
(* var_mapping[count - 1 - i].                                             *)
init_vars(pv, st) ==
    LET count == Cardinality(DOMAIN pv.var_mapping)
    IN FoldLeft(LAMBDA x, i : member_mut(x, pv.var_mapping[count - 1 - i], st[Len(st) - i]),
                pv, [n \in 1 .. count |-> n - 1])

(* The PackageVal of p once code generation has added its members (the   *)
(* constructor, the variables at Zero, func main) and its var_mapping.    *)
BuildPackage(p) ==
    LET names == MemberNames(p)
        init(n) == CASE n = "ctor" -> Ctor(p) [] n = "main" -> MainFn [] OTHER -> Zero
        withMembers == FoldLeft(LAMBDA pv, n : add_member(pv, n, init(n)),
                                PackageVal_new, names)
    IN FoldLeft(LAMBDA pv, k : add_var_mapping(pv, Vars[p][k].name, k - 1),
                withMembers, [k \in 1 .. Len(Vars[p]) |-> k])

-----------------------------------------------------------------------------
(* The code.  An instruction is [op, imm]; read_imm_pkg takes the package *)
(* of LOAD_PKG_FIELD and STORE_PKG_FIELD from the next code word, PKG.    *)
Inst(op, imm) == [op |-> op, imm |-> imm]
PkgWord(q) == Inst("PKG", q)

(* The member index of name n in package q (member_indices).              *)
MIdx(q, n) == (CHOOSE k \in DOMAIN MemberNames(q) : MemberNames(q)[k] = n) - 1

(* emit_import: IMPORT, then a JUMP_IF_NOT over the call of the           *)
(* constructor, member 0 of the package.                                  *)
ImportCode(q) ==
    << Inst("IMPORT", q), Inst("JUMP_IF_NOT", 4), Inst("LOAD_PKG_FIELD", 0), PkgWord(q),
       Inst("PRE_CALL", 0), Inst("CALL", 0) >>

(* A variable initialiser leaves its value on the stack: a constant, or  *)
(* a variable of an imported package.                                      *)
InitCode(d) ==
    IF d.init.kind = "const"
    THEN << Inst("PUSH_CONST", d.init.val) >>
    ELSE << Inst("LOAD_PKG_FIELD", MIdx(d.init.pkg, d.init.name)), PkgWord(d.init.pkg) >>

(* The constructor of p: its imports, its variable initialisers in order, *)
(* and RETURN_INIT_PKG.                                                    *)
CtorCode(p) ==
    FlattenSeq([i \in DOMAIN Imports[p] |-> ImportCode(Imports[p][i])])
    \o FlattenSeq([k \in DOMAIN Vars[p] |-> InitCode(Vars[p][k])])
    \o << Inst("RETURN_INIT_PKG", p) >>

(* A statement of main is an assignment dst = rhs to a package variable, *)
(* written directly or through a pointer, *p = rhs where p = &q.n; rhs  *)
(* is a constant, a package variable, or *p with p = &q.n.  A store's     *)
(* right-hand side is the top of the stack (rhs_index -1); STORE_DEREF    *)
(* finds its pointer below it.                                             *)
RhsCode(r) ==
    CASE r.kind = "const" -> << Inst("PUSH_CONST", r.val) >>
      [] r.kind = "var"   -> << Inst("LOAD_PKG_FIELD", MIdx(r.pkg, r.name)), PkgWord(r.pkg) >>
      [] r.kind = "deref" -> << Inst("REF_PKG_MEMBER", MIdx(r.pkg, r.name)), PkgWord(r.pkg),
                               Inst("DEREF", 0) >>

StmtCode(st) ==
    LET d == st.dst
    IN IF d.ptr
       THEN << Inst("REF_PKG_MEMBER", MIdx(d.pkg, d.name)), PkgWord(d.pkg) >> \o RhsCode(st.rhs)
            \o << Inst("STORE_DEREF", [rhs |-> -1, imm |-> -2]), Inst("POP", 2) >>
       ELSE RhsCode(st.rhs)
            \o << Inst("STORE_PKG_FIELD", [rhs |-> -1, imm |-> MIdx(d.pkg, d.name)]), PkgWord(d.pkg),
                  Inst("POP", 1) >>

MainCode == FlattenSeq([i \in DOMAIN MainBody |-> StmtCode(MainBody[i])]) \o << Inst("RETURN", 0) >>

(* gen_entry_func: import the main package, load its func main, call it   *)
(* and return.                                                             *)
gen_entry_func ==
    ImportCode(Main)
    \o << Inst("LOAD_PKG_FIELD", MIdx(Main, "main")), PkgWord(Main),
          Inst("PRE_CALL", 0), Inst("CALL", 0), Inst("RETURN", 0) >>

Funcs == {EntryFn, MainFn} \cup {Ctor(p) : p \in Pkgs}

Code(f) == CASE f.fn = "entry" -> gen_entry_func
             [] f.fn = "ctor" -> CtorCode(f.pkg)
             [] f.fn = "main" -> MainCode

-----------------------------------------------------------------------------
Top == Len(frames)
Cur == frames[Top]
(* The instruction main_loop fetches; its pc has been advanced past it.   *)
I == code[Cur.fn][Cur.pc]
Fetch(op) == result = "Continue" /\ I.op = op
Advance(n) == frames' = [frames EXCEPT ![Top].pc = @ + n]
Push(v) == stack' = Append(stack, v)
PkgOf == code[Cur.fn][Cur.pc + 1].imm

IMPORT ==
    /\ Fetch("IMPORT")
    /\ Push(~inited(packages[I.imm]))
    /\ Advance(1)
    /\ UNCHANGED <<prog, code, packages, next_frames, result, inits>>

JUMP_IF_NOT ==
    /\ Fetch("JUMP_IF_NOT")
    /\ stack' = Front(stack)
    /\ Advance(IF Last(stack) THEN 1 ELSE 1 + I.imm)
    /\ UNCHANGED <<prog, code, packages, next_frames, result, inits>>

LOAD_PKG_FIELD ==
    /\ Fetch("LOAD_PKG_FIELD")
    /\ Push(member(packages[PkgOf], I.imm))
    /\ Advance(2)
    /\ UNCHANGED <<prog, code, packages, next_frames, result, inits>>

STORE_PKG_FIELD ==
    /\ Fetch("STORE_PKG_FIELD")
    /\ packages' = [packages EXCEPT ![PkgOf] =
                      member_mut(@, I.imm.imm, stack[Len(stack) + I.imm.rhs + 1])]
    /\ Advance(2)
    /\ UNCHANGED <<prog, code, stack, next_frames, result, inits>>

(* PointerObj::PkgMember(pkg, index) and its PointerObj::deref.          *)
PkgMember(p, i) == [ptr |-> "PkgMember", pkg |-> p, index |-> i]
deref(pt) == member(packages[pt.pkg], pt.index)

(* Stack::offset(len, i): the 1-based position of the slot at offset i   *)
(* from the top.                                                           *)
Offset(i) == Len(stack) + i + 1

REF_PKG_MEMBER ==
    /\ Fetch("REF_PKG_MEMBER")
    /\ Push(PkgMember(PkgOf, I.imm))
    /\ Advance(2)
    /\ UNCHANGED <<prog, code, packages, next_frames, result, inits>>

DEREF ==
    /\ Fetch("DEREF")
    /\ stack' = Append(Front(stack), deref(Last(stack)))
    /\ Advance(1)
    /\ UNCHANGED <<prog, code, packages, next_frames, result, inits>>

(* STORE_DEREF, PkgMember arm: the pointer is at offset imm, the value at *)
(* offset rhs; both stay on the stack.                                     *)
STORE_DEREF ==
    /\ Fetch("STORE_DEREF")
    /\ LET pt == stack[Offset(I.imm.imm)]
       IN packages' = [packages EXCEPT ![pt.pkg] =
                         member_mut(@, pt.index, stack[Offset(I.imm.rhs)])]
    /\ Advance(1)
    /\ UNCHANGED <<prog, code, stack, next_frames, result, inits>>

PUSH_CONST ==
    /\ Fetch("PUSH_CONST")
    /\ Push(I.imm)
    /\ Advance(1)
    /\ UNCHANGED <<prog, code, packages, next_frames, result, inits>>

POP ==
    /\ Fetch("POP")
    /\ stack' = SubSeq(stack, 1, Len(stack) - I.imm)
    /\ Advance(1)
    /\ UNCHANGED <<prog, code, packages, next_frames, result, inits>>

(* Faults PRE_CALL and CALL could have: a base taken before the closure *)
(* is popped, and a CALL that leaves the frame it pushes pending.          *)
PRE_CALL_base_before_pop ==
    /\ Fetch("PRE_CALL")
    /\ stack' = Front(stack)
    /\ next_frames' = Append(next_frames, [fn |-> Last(stack), pc |-> 1, base |-> Len(stack)])
    /\ Advance(1)
    /\ UNCHANGED <<prog, code, packages, result, inits>>
CALL_keeps_next_frame ==
    /\ Fetch("CALL")
    /\ UNCHANGED next_frames
    /\ frames' = Append([frames EXCEPT ![Top].pc = @ + 1], Last(next_frames))
    /\ inits' = IF Last(next_frames).fn.fn = "ctor"
                THEN [inits EXCEPT ![Last(next_frames).fn.pkg] = @ + 1]
                ELSE inits
    /\ UNCHANGED <<prog, code, packages, stack, result>>

(* PRE_CALL pops the closure and makes its frame with the stack base it  *)
(* leaves; the functions here have no results and no receiver.            *)
PRE_CALL ==
    /\ Fetch("PRE_CALL")
    /\ stack' = Front(stack)
    /\ next_frames' = Append(next_frames, [fn |-> Last(stack), pc |-> 1, base |-> Len(stack) - 1])
    /\ Advance(1)
    /\ UNCHANGED <<prog, code, packages, result, inits>>

(* CALL pushes the frame PRE_CALL made; the functions here have no        *)
(* up-values and no locals.                                                *)
CALL ==
    /\ Fetch("CALL")
    /\ next_frames' = Front(next_frames)
    /\ frames' = Append([frames EXCEPT ![Top].pc = @ + 1], Last(next_frames))
    /\ inits' = IF Last(next_frames).fn.fn = "ctor"
                THEN [inits EXCEPT ![Last(next_frames).fn.pkg] = @ + 1]
                ELSE inits
    /\ UNCHANGED <<prog, code, packages, stack, result>>

(* The end of RETURN and RETURN_INIT_PKG: pop the frame; the fiber ends   *)
(* with the last one.                                                      *)
PopFrame ==
    /\ frames' = Front(frames)
    /\ result' = IF Top = 1 THEN "End" ELSE "Continue"

RETURN ==
    /\ Fetch("RETURN")
    /\ stack' = SubSeq(stack, 1, Cur.base)
    /\ PopFrame
    /\ UNCHANGED <<prog, code, packages, next_frames, inits>>

(* RETURN_INIT_PKG moves the values the constructor left into the         *)
(* package's members (init_pkg_vars, count = var_count) and returns.      *)
RETURN_INIT_PKG ==
    /\ Fetch("RETURN_INIT_PKG")
    /\ LET count == Cardinality(DOMAIN packages[I.imm].var_mapping)
       IN /\ packages' = [packages EXCEPT ![I.imm] = init_vars(@, stack)]
          /\ stack' = SubSeq(stack, 1, Len(stack) - count)
    /\ PopFrame
    /\ UNCHANGED <<prog, code, next_frames, inits>>

Init ==
    /\ prog \in Programs
    /\ code = [f \in Funcs |-> Code(f)]
    /\ packages = [p \in Pkgs |-> BuildPackage(p)]
    /\ stack = <<>>
    /\ frames = << [fn |-> EntryFn, pc |-> 1, base |-> 0] >>
    /\ next_frames = <<>>
    /\ result = "Continue"
    /\ inits = [p \in Pkgs |-> 0]

(* The fiber has returned from the entry function.                        *)
Ended ==
    /\ result = "End"
    /\ UNCHANGED vars

Next ==
    \/ IMPORT \/ JUMP_IF_NOT \/ LOAD_PKG_FIELD \/ STORE_PKG_FIELD \/ PUSH_CONST \/ POP
    \/ REF_PKG_MEMBER \/ DEREF \/ STORE_DEREF
    \/ PRE_CALL \/ CALL \/ RETURN \/ RETURN_INIT_PKG
    \/ Ended

Spec == Init /\ [][Next]_vars

-----------------------------------------------------------------------------
TypeOK ==
    /\ \A p \in Pkgs : Len(packages[p].members) = Len(MemberNames(p))
    /\ \A k \in DOMAIN frames : frames[k].fn \in Funcs /\ frames[k].pc \in DOMAIN code[frames[k].fn]
    /\ Len(next_frames) <= 1
    /\ result \in {"Continue", "End"}
    /\ inits \in [Pkgs -> Nat]

(* Reference (the Go specification, package initialisation and            *)
(* assignment): every package variable starts with the value of its        *)
(* initialiser, a constant or a variable of an imported package, and each  *)
(* statement of func main then assigns its right-hand side's value.        *)
VarKeys == UNION {{<<p, Vars[p][k].name>> : k \in DOMAIN Vars[p]} : p \in Pkgs}
RECURSIVE GoValue(_, _)
GoValue(p, n) ==
    LET d == Vars[p][CHOOSE k \in DOMAIN Vars[p] : Vars[p][k].name = n]
    IN IF d.init.kind = "const" THEN d.init.val ELSE GoValue(d.init.pkg, d.init.name)
GoExec(mem, st) ==
    LET r == st.rhs
    IN [mem EXCEPT ![<<st.dst.pkg, st.dst.name>>] =
          IF r.kind = "const" THEN r.val ELSE mem[<<r.pkg, r.name>>]]
GoFinal == FoldLeft(GoExec, [k \in VarKeys |-> GoValue(k[1], k[2])], MainBody)

(* When the entry function has returned, every package variable holds     *)
(* what Go gives it: the constructors' values drained by RETURN_INIT_PKG   *)
(* into the members var_mapping names (init_vars' reverse order), through  *)
(* every import order and repeated import, then main's direct stores,      *)
(* loads and stores and loads through PointerObj::PkgMember.              *)
MatchesGo ==
    result = "End" =>
        \A k \in VarKeys : member(packages[k[1]], MIdx(k[1], k[2])) = GoFinal[k]

(* A package constructor returns with the stack as its caller left it:    *)
(* RETURN_INIT_PKG pops exactly the values its variable initialisers      *)
(* pushed, down to the base PRE_CALL gave the frame.                      *)
CtorStackBalanced ==
    [][RETURN_INIT_PKG => Len(stack') = Cur.base]_vars

-----------------------------------------------------------------------------
(* Go initialises each package once, however many packages import it:     *)
(* IMPORT pushes whether the package still needs initialising so that     *)
(* the importer runs its constructor only the first time.  Here no        *)
(* constructor of a package may be entered twice.                         *)
InitOnce == \A p \in Pkgs : inits[p] <= 1
====

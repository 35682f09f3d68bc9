------------------------------- MODULE GoFile -------------------------------
(***************************************************************************)
(* What a Go program is promised of a file it opens with os.OpenFile and  *)
(* uses with the Write, Read and Seek methods of File: os.OpenFile hands  *)
(* its flag to open(2) unchanged (syscall.Open with flag|O_CLOEXEC), so   *)
(* every O_ flag means what the kernel makes of it.  The os FFI of       *)
(* goscript declares its flags with these names and values ("Flags to    *)
(* OpenFile").                                                            *)
(***************************************************************************)
EXTENDS PosixFile

CONSTANT Flags      \* the flag arguments the program passes

Open(flag) == SysOpen(flag)

Next ==
    \/ \E flag \in Flags : Open(flag)
    \/ \E h \in DOMAIN handles, b \in Bytes : SysWrite(h, b)
    \/ \E h \in DOMAIN handles : SysRead(h)
    \/ \E h \in DOMAIN handles, w \in {"Start", "End"} : SysSeek(h, w)

Spec == InitFile /\ [][Next]_vars

=============================================================================

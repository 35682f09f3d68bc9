------------------------------ MODULE MCOsFile ------------------------------
(***************************************************************************)
(* The flag arguments of the os.OpenFile calls a program makes: each       *)
(* access mode, with any of O_APPEND, O_CREATE, O_TRUNC and O_CREATE|O_EXCL,*)
(* leaving out the combinations POSIX leaves undefined (O_TRUNC with      *)
(* O_RDONLY, O_EXCL without O_CREAT).                                      *)
(***************************************************************************)
EXTENDS OsFile

Extras == {0, O_APPEND, O_CREAT, O_TRUNC, O_CREAT + O_EXCL,
           O_APPEND + O_CREAT, O_CREAT + O_TRUNC, O_APPEND + O_CREAT + O_EXCL}

MCFlags == {a + x : a \in {O_RDONLY, O_WRONLY, O_RDWR}, x \in Extras}
              \ {O_RDONLY + O_TRUNC, O_RDONLY + O_CREAT + O_TRUNC}

(* One byte waiting on stdin; stdout has a slot, stderr goes to the      *)
(* process stream.                                                        *)
MCInput == <<CHOOSE b \in Bytes : TRUE>>

=============================================================================

----------------------------- MODULE PosixFile -----------------------------
(***************************************************************************)
(* One regular file as Linux open(2), read(2), write(2) and lseek(2) treat *)
(* it: the environment both the Go runtime and the goscript os FFI         *)
(* (src/engine/src/std/os.rs) end up calling.  A file opened is a handle   *)
(* with its access rights, its O_APPEND flag and its offset.  Handles are  *)
(* never closed: the os FFI has no close, the file is dropped with its     *)
(* last reference.                                                         *)
(*                                                                         *)
(* result is what the last call returned to the program: "ok" or an errno *)
(* for an open, the byte read or "EOF", the count written, the new offset. *)
(***************************************************************************)
EXTENDS Naturals, Sequences, Bitwise

CONSTANTS
    Bytes,      \* the bytes written and read
    MaxSize,    \* bound on the length of the file
    MaxHandles  \* bound on the number of handles opened

VARIABLES
    exists,     \* the path names a file
    content,    \* the bytes of the file
    handles,    \* handles[h]: [read, write, append, pos] of open file h
    result      \* the value the last call returned

vars == <<exists, content, handles, result>>

(* The open(2) flags, with the values of Linux amd64.                     *)
O_RDONLY == 0
O_WRONLY == 1
O_RDWR == 2
O_CREAT == 64
O_EXCL == 128
O_TRUNC == 512
O_APPEND == 1024

Has(oflag, bit) == (oflag & bit) # 0
AccessMode(oflag) == oflag & 3

(* The handle open(2) makes for oflag.                                    *)
Handle(oflag) ==
    [read   |-> AccessMode(oflag) \in {O_RDONLY, O_RDWR},
     write  |-> AccessMode(oflag) \in {O_WRONLY, O_RDWR},
     append |-> Has(oflag, O_APPEND),
     pos    |-> 0]

(* open(2) of the path with oflag: EEXIST for O_CREAT|O_EXCL of an        *)
(* existing file, ENOENT for a missing one without O_CREAT; otherwise the *)
(* file is created if missing and emptied when O_TRUNC is given with a    *)
(* writable access mode.                                                   *)
SysOpen(oflag) ==
    /\ Len(handles) < MaxHandles
    /\ CASE exists /\ Has(oflag, O_CREAT) /\ Has(oflag, O_EXCL) ->
              /\ result' = "EEXIST"
              /\ UNCHANGED <<exists, content, handles>>
         [] ~exists /\ ~Has(oflag, O_CREAT) ->
              /\ result' = "ENOENT"
              /\ UNCHANGED <<exists, content, handles>>
         [] OTHER ->
              /\ exists' = TRUE
              /\ content' = IF Has(oflag, O_TRUNC) /\ Handle(oflag).write
                            THEN <<>> ELSE content
              /\ handles' = Append(handles, Handle(oflag))
              /\ result' = "ok"

(* write(2) of one byte b through handle h: EBADF unless writable; with   *)
(* O_APPEND the offset first moves to the end of the file.               *)
SysWrite(h, b) ==
    LET hd == handles[h]
        p == IF hd.append THEN Len(content) ELSE hd.pos
    IN IF ~hd.write
       THEN /\ result' = "EBADF"
            /\ UNCHANGED <<exists, content, handles>>
       ELSE /\ p < MaxSize
            /\ content' = IF p = Len(content) THEN Append(content, b)
                          ELSE [content EXCEPT ![p + 1] = b]
            /\ handles' = [handles EXCEPT ![h].pos = p + 1]
            /\ result' = 1
            /\ UNCHANGED exists

(* read(2) of one byte through handle h: EBADF unless readable, "EOF" at *)
(* the end of the file.                                                   *)
SysRead(h) ==
    LET hd == handles[h]
    IN /\ CASE ~hd.read ->
                 /\ result' = "EBADF"
                 /\ UNCHANGED handles
            [] hd.pos >= Len(content) ->
                 /\ result' = "EOF"
                 /\ UNCHANGED handles
            [] OTHER ->
                 /\ result' = content[hd.pos + 1]
                 /\ handles' = [handles EXCEPT ![h].pos = @ + 1]
       /\ UNCHANGED <<exists, content>>

(* lseek(2) of handle h to offset 0 from SEEK_SET or SEEK_END.            *)
SysSeek(h, whence) ==
    LET p == IF whence = "Start" THEN 0 ELSE Len(content)
    IN /\ handles' = [handles EXCEPT ![h].pos = p]
       /\ result' = p
       /\ UNCHANGED <<exists, content>>

(* The file may or may not exist before the program starts, and hold up  *)
(* to MaxSize bytes.                                                      *)
InitFile ==
    /\ exists \in BOOLEAN
    /\ content \in IF exists THEN UNION {[1 .. n -> Bytes] : n \in 0 .. MaxSize}
                   ELSE {<<>>}
    /\ handles = <<>>
    /\ result = "none"

=============================================================================

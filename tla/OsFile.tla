------------------------------- MODULE OsFile -------------------------------
(***************************************************************************)
(* The os FFI of goscript (FileFfi in src/engine/src/std/os.rs) on one    *)
(* file.  ffi_open translates the Go flags into a std::fs::OpenOptions    *)
(* builder, and OpenOptions::open turns the builder into the flags of     *)
(* open(2) (Rust's std, sys/unix/fs.rs: get_access_mode and               *)
(* get_creation_mode), refusing some combinations with EINVAL.  ffi_read, *)
(* ffi_write and ffi_seek call read, write and seek of the std::fs::File  *)
(* and hand the io::Result back through result_to_go.  ffi_get_std_io     *)
(* hands out the standard streams, which go to the run context's slots   *)
(* when the engine has them and to the process streams otherwise.        *)
(***************************************************************************)
EXTENDS PosixFile

CONSTANTS
    Flags,      \* the flag arguments the program passes
    Slots,      \* the standard streams the run context has a slot for
    Input,      \* the bytes the program's stdin holds
    MaxStdIo    \* bound on the number of std io files fetched

VARIABLES
    vfiles,     \* vfiles[v]: the VirtualFile v, a sys file handle or a std stream
    streams,    \* streams[<<s, where>>]: the bytes of standard stream s, in its
                \* run-context slot ("slot") or the process stream ("process")
    io_result   \* the value the last std io call returned

osvars == <<vars, vfiles, streams, io_result>>

Std == {"StdIn", "StdOut", "StdErr"}

(* The FFI's flag constants (os.rs lines 21-27).                          *)
FFI_O_RDONLY == 0
FFI_O_WRONLY == 1
FFI_O_RDWR == 2
FFI_O_APPEND == 1024
FFI_O_CREATE == 64
FFI_O_EXCL == 128
FFI_O_TRUNC == 512

(* ffi_open's builder: each call of a setter overwrites the field, so of  *)
(* the two append calls the second one (O_TRUNC) wins; the match on       *)
(* flags & O_RDWR sees only 0 and O_RDWR.                                  *)
ffi_open(flags) ==
    LET acc == flags & FFI_O_RDWR
        creat == (flags & FFI_O_CREATE) # 0
        excl == (flags & FFI_O_EXCL) # 0
    IN [read       |-> acc \in {FFI_O_RDONLY, FFI_O_RDWR},
        write      |-> acc \in {FFI_O_WRONLY, FFI_O_RDWR},
        append     |-> (flags & FFI_O_TRUNC) # 0,
        truncate   |-> FALSE,
        create     |-> creat /\ ~excl,
        create_new |-> creat /\ excl]

(* OpenOptions::open: the open(2) flags of a builder, ok = FALSE for an  *)
(* Err of kind InvalidInput (EINVAL).                                      *)
Flag(n) == [ok |-> TRUE, bits |-> n]
EINVAL == [ok |-> FALSE, bits |-> 0]
AccessFlags(o) ==
    CASE o.append /\ o.read  -> Flag(O_RDWR + O_APPEND)
      [] o.append            -> Flag(O_WRONLY + O_APPEND)
      [] o.read /\ o.write   -> Flag(O_RDWR)
      [] o.write             -> Flag(O_WRONLY)
      [] o.read              -> Flag(O_RDONLY)
      [] OTHER               -> EINVAL
CreationFlags(o) ==
    CASE ~o.write /\ ~o.append /\ (o.truncate \/ o.create \/ o.create_new) -> EINVAL
      [] o.append /\ o.truncate /\ ~o.create_new                         -> EINVAL
      [] o.create_new -> Flag(O_CREAT + O_EXCL)
      [] OTHER        -> Flag((IF o.create THEN O_CREAT ELSE 0) + (IF o.truncate THEN O_TRUNC ELSE 0))
RustOpenFlags(o) ==
    IF AccessFlags(o).ok /\ CreationFlags(o).ok
    THEN Flag(AccessFlags(o).bits + CreationFlags(o).bits)
    ELSE EINVAL

(* ffi_open(path, flags): the builder is opened; an Err is returned to   *)
(* the program through result_to_go.                                      *)
Open(flags) ==
    LET oflag == RustOpenFlags(ffi_open(flags))
    IN /\ IF ~oflag.ok
          THEN /\ Len(handles) < MaxHandles
               /\ result' = "EINVAL"
               /\ UNCHANGED <<exists, content, handles, vfiles>>
          ELSE /\ SysOpen(oflag.bits)
               /\ vfiles' = IF result' = "ok"
                            THEN Append(vfiles, [kind |-> "File", h |-> Len(handles) + 1])
                            ELSE vfiles
       /\ UNCHANGED <<streams, io_result>>

(* ffi_get_std_io(i): a new VirtualFile::StdIo for stream 0, 1 or 2.      *)
ffi_get_std_io(i) ==
    /\ Len(vfiles) < MaxHandles + MaxStdIo
    /\ vfiles' = Append(vfiles, [kind |-> "StdIo", io |-> <<"StdIn", "StdOut", "StdErr">>[i + 1]])
    /\ UNCHANGED <<vars, streams, io_result>>

(* Where a standard stream goes: its slot on the run context if the       *)
(* engine was given one (Statics std_in, std_out, std_err), else the      *)
(* process stream.                                                         *)
Sink(s) == <<s, IF s \in Slots THEN "slot" ELSE "process">>

(* StdIo::read: stdin gives its next byte, or Ok(0) at its end ("EOF");  *)
(* reading stdout or stderr is an Err of kind Unsupported.               *)
StdIoRead(s) ==
    /\ CASE s # "StdIn"           -> io_result' = "Unsupported" /\ UNCHANGED streams
         [] streams[Sink(s)] = <<>> -> io_result' = "EOF" /\ UNCHANGED streams
         [] OTHER -> /\ io_result' = Head(streams[Sink(s)])
                     /\ streams' = [streams EXCEPT ![Sink(s)] = Tail(@)]
    /\ UNCHANGED <<vars, vfiles>>

(* StdIo::write: stdout and stderr take the byte; writing stdin is an    *)
(* Err of kind Unsupported.                                               *)
StdIoWrite(s, b) ==
    /\ IF s = "StdIn"
       THEN io_result' = "Unsupported" /\ UNCHANGED streams
       ELSE /\ Len(streams[Sink(s)]) < MaxSize
            /\ streams' = [streams EXCEPT ![Sink(s)] = Append(@, b)]
            /\ io_result' = 1
    /\ UNCHANGED <<vars, vfiles>>

(* ffi_write, ffi_read and ffi_seek of VirtualFile v: a File calls the   *)
(* std::fs::File, a StdIo its stream; seeking a StdIo is an Err of kind   *)
(* Unsupported.                                                            *)
OnFile(v) == vfiles[v].kind = "File"
ffi_write(v, b) ==
    IF OnFile(v)
    THEN SysWrite(vfiles[v].h, b) /\ UNCHANGED <<vfiles, streams, io_result>>
    ELSE StdIoWrite(vfiles[v].io, b)
ffi_read(v) ==
    IF OnFile(v)
    THEN SysRead(vfiles[v].h) /\ UNCHANGED <<vfiles, streams, io_result>>
    ELSE StdIoRead(vfiles[v].io)
ffi_seek(v, whence) ==
    IF OnFile(v)
    THEN SysSeek(vfiles[v].h, whence) /\ UNCHANGED <<vfiles, streams, io_result>>
    ELSE io_result' = "Unsupported" /\ UNCHANGED <<vars, vfiles, streams>>

(* The program starts with no file fetched and its input on stdin, in     *)
(* its slot or on the process stream; every output stream is empty.       *)
Init ==
    /\ InitFile
    /\ vfiles = <<>>
    /\ streams = [x \in Std \X {"slot", "process"} |->
                     IF x = Sink("StdIn") THEN Input ELSE <<>>]
    /\ io_result = "none"

Next ==
    \/ \E flags \in Flags : Open(flags)
    \/ \E i \in 0 .. 2 : ffi_get_std_io(i)
    \/ \E v \in DOMAIN vfiles, b \in Bytes : ffi_write(v, b)
    \/ \E v \in DOMAIN vfiles : ffi_read(v)
    \/ \E v \in DOMAIN vfiles, w \in {"Start", "End"} : ffi_seek(v, w)

Spec == Init /\ [][Next]_osvars

-----------------------------------------------------------------------------
Go == INSTANCE GoFile

(* os.OpenFile as Go defines it: every sequence of opens, writes, reads  *)
(* and seeks a goscript program makes through the os FFI leaves the file *)
(* and its handles as they would be in Go, and returns what Go returns.   *)
(* Calls on the standard streams leave the file and its handles alone.   *)
ImplementsGoFile == Go!Spec

=============================================================================

# TLA+ models of the goscript virtual machine

goscript compiles a Go-like language to bytecode and runs it on a VM written in Rust.
The pipeline has four stages:

1. The parser and type checker (`src/types`) check the source.
2. Code generation (`src/codegen`) produces function objects, constants and up-value descriptors.
3. `GosVM::run` (`src/vm/src/vm.rs`) executes the bytecode.
4. The runtime objects behind the bytecode are in `src/vm/src/objects.rs` and `src/vm/src/channel.rs`.

The VM runs every fiber on one smol `LocalExecutor`, so there is no preemption. A fiber's
`main_loop` executes instructions until a channel operation returns `Pending` (the operations
are polling loops around `try_send`/`try_recv` with `yield_now`) or until 1024 instructions
have run. It then yields to the executor, and the executor runs the next task in its queue.
`GosVM::run` ends once `try_tick` finds no task left.

The parts are tied together by shared mutable state:

- Fibers share channels.
- Slices share backing arrays through `Rc<RefCell<Vec>>`.
- Closures and pointers share variables through up-value cells. A cell is *open* while it
  points to a stack slot of a live call frame, and *closed* once it owns a value.
- The frames of one fiber share its stack, and they share the 16 range-iterator slots declared
  in `main_loop`.

These sharings are what the models check.

## Modules

| Module | Models | Code |
|---|---|---|
| `Channels` | rendezvous and bounded channels, `select`, the fiber interleaving | `channel.rs` (whole file), `ChannelObj` in `objects.rs`, `GosVM::run` in `vm.rs`; the fibers running channel operations are from spec 8 |
| `Slices` | slices over shared arrays, slice literals | `SliceObj`/`ArrayObj` in `objects.rs`, the `SLICE` opcode and the slice arm of `LITERAL` |
| `Closures` | call frames, up-values, closures, pointers to up-values | `CALL`, `PRE_CALL`, `LITERAL`, `RETURN`, `STORE_LOCAL`, `LOAD_UPVALUE`, `STORE_UPVALUE`, `REF_UPVALUE`, `REF_LITERAL`, `NEW`, `DEREF`, `STORE_DEREF` in `vm.rs`; `UpValue` and `PointerObj::deref` in `objects.rs` |
| `RangeSlots` | the `range_slot` counter and the 16 iterator slots of a fiber | `RANGE_INIT`, `RANGE`, `JUMP`, `CALL`, `RETURN` in `vm.rs` |
| `GoChannels` | abstract: what Go channels promise the same fiber programs | spec 8; refined by `Channels` |
| `OsFile` | `ffi_open`, `ffi_read`, `ffi_write`, `ffi_seek` on one file; `ffi_get_std_io` and the standard streams | `src/engine/src/std/os.rs`, the std io slots of `run_fs.rs` |
| `PosixFile` | one file under Linux open(2), read(2), write(2), lseek(2): the environment | (operating system) |
| `GoFile` | abstract: `os.OpenFile` passing its flag to open(2) unchanged | refined (or not) by `OsFile` |
| `TypeMeta` | the code generator's translation of type-checker types into VM metadata | `TypeLookup` in `src/codegen/src/types.rs`, the type cache of `entry.rs` |
| `Packages` | package members, package constructors and their imports | `PackageVal` in `objects.rs`; `IMPORT`, `JUMP_IF_NOT`, `LOAD_PKG_FIELD`, `STORE_PKG_FIELD`, `REF_PKG_MEMBER`, `DEREF`, the package arm of `STORE_DEREF`, `PUSH_CONST`, `POP`, `PRE_CALL`, `CALL`, `RETURN`, `RETURN_INIT_PKG` in `vm.rs`; `EntryGen::gen` and `gen_entry_func` in `entry.rs` |

Each `MC*` module fixes the constants for TLC. `PROJECT.json` maps every definition that models
code to the lines it translates.

### Channels

The state is as follows:

- `chan[c]` is a record. For a rendezvous channel it holds `rs`, the `RendezvousState`, and
  `slot`, the value of `InPlace(v)`. For a bounded channel it holds the queue `buf` and the
  flag `closed`.
- `pc[f]` and `status[f]` give the program position of each fiber. Each fiber runs a fixed
  straight-line program `Prog[f]` of send, recv, close and select operations.
- `sentLog` and `recvLog` are history variables. They record every send that returned `Ok`
  and every value received.

`try_send`, `try_recv` and `close` are operators that translate the match arms of the code.
`scan` is the loop of `Selector::select` over its cases, starting at `pseudo_rand`, which is 0
in a fresh `Selector`. Each action (`send`, `recv`, `closeChan`, `select`) is one iteration of
the corresponding polling loop:

- An iteration that returns advances `pc`.
- An error (a send on a closed channel) ends the fiber through `Fail`, as `main_loop` breaks
  on `Result::Error`.
- An iteration that only yields is a step only when it changes the channel, as `try_recv`
  does when it marks a rendezvous channel `Ready`. Iterations that change nothing are
  stuttering.
- `Terminated` is the state `GosVM::run` returns from.

No opcode of this snapshot calls a channel operation: there is no `SEND`, `RECV` or `SELECT`
handler in `vm.rs`. The fibers that run the programs (`Step`, `Advance`, `Fail`) are
therefore the goroutines of spec 8, and `PROJECT.json` marks them `spec_modelled`.

`GoChannels` is the abstract specification:

- Each channel is a FIFO `q` with a `closed` flag and the sequence of values `received`.
- A buffered channel holds up to its capacity.
- An unbuffered channel accepts a send only while another fiber waits to receive on it, and
  holds the value for that hand-off.
- A send on a closed channel ends the fiber. A receive on a closed, empty channel returns.
- A select takes any ready case, and takes its default only when no case is ready.

`Channels` instantiates it with a refinement mapping. `q` is `Pending(c)` (the buffer, or the
`InPlace` value). `closed` is the bounded flag or the `Closed` state. `received` is `recvLog`.
The property `ImplementsGoChannels` is `GC!Spec`. A `Ready` mark is invisible to the Go
program, so the steps that set it are stuttering steps of `GoChannels`.

### Slices

The state is as follows:

- `data[a]` is the `Vec` of array `a`.
- `sl[s]` is the slice held by variable `s`: `[arr, begin, end, cap_end]`, or `Nil`.
- `panicked` records a Rust panic (index out of range, or a usize underflow). A panic aborts
  the process, so nothing follows it.

`check_indices` translates the code's index arithmetic, including its modulo for a negative
end. The actions are `with_array`, `slice`, `set`, `push`, `append`, `copy_from`, `swap` and
`LITERAL`. Each follows its method branch by branch. A method that returns `Err` leaves the
state unchanged.

`LITERAL` of a slice type builds the element vector with `literal_vec`, the loop of the
opcode: an element with key `-1` follows the previous one, a keyed element goes to its index,
a gap is filled with zero values, and an index below the length overwrites. The result goes
into an array no other slice variable references (the model has one array, which it reuses).
The literals are a constant set: one unkeyed element, keys that go back and forward
(`{2: 7, 0: 0, 7}`), and a key that leaves a gap. `GoLiteral` is the reference: Go's meaning
of a composite literal, the last element given for each index and zero elsewhere.

### Closures

The state is as follows:

- `frames` is the call stack. Each frame has its function, `local_ptrs`, and `referred_by`.
  `referred_by` records which up-values refer to which local.
- `slots` holds the locals of each frame.
- `uvs` holds the up-value cells. A cell is open with a frame and an index, or closed with a
  value.
- `cls` holds the closures that `LITERAL` built.
- `ptrs` holds the up-values a pointer was made of.

Two ghost variables give the Go meaning of every alias:

- `act` is the activation id of each frame and cell.
- `retVals` holds the locals of returned activations, updated by every store through a
  closed alias.

`NEW` and `REF_LITERAL` make a pointer: a new closed cell. `DEREF` and `LOAD_UPVALUE` read
through a cell into a local, and panic when the cell is open on a frame that is gone.
`add_referred_by` registers an open cell with the frame whose local it stands for, which is
what `CALL` and `LITERAL` do.

Functions, their `up_ptrs` descriptors, the closure literals they contain and the functions
they call are constants. This stands for a program in which any function may run any of these
instructions at any point, and any closure or pointer made may be used later from anywhere.

### RangeSlots

The state is the counter `range_slot` and, for each frame, the slots of its live ranges.

- `RANGE_INIT` takes the counter's value as the slot, increments the counter and asserts it
  stays below 16.
- `RANGE_end` is `RANGE` finding its iterator exhausted. It decrements the counter.
- `Break`, `CALL` and `RETURN` move ranges without changing the counter.

### OsFile, GoFile and PosixFile

`PosixFile` holds one path: whether it exists, its bytes, the open handles (access rights,
`O_APPEND`, offset) and the value the last call returned to the program. It defines open(2),
read(2), write(2) and lseek(2) over that state, with Linux's flag values.

- `GoFile` is Go's `os.OpenFile`, which hands its flag to open(2) unchanged.
- `OsFile` is goscript's FFI. `ffi_open` translates the flag into an `OpenOptions` builder,
  and `RustOpenFlags` is Rust std's translation of the builder back into open(2) flags,
  including its refusals with `InvalidInput`.
- Reads and writes move one byte. Seeks go to offset 0 from the start or the end.
- The FFI has no close.

`ImplementsGoFile` is `Go!Spec` with the identity mapping: the same file and handles, and the
same results.

The program's files are `VirtualFile`s (`vfiles`): a sys-file handle, or one of the three
standard streams that `ffi_get_std_io` hands out. `ffi_read`, `ffi_write` and `ffi_seek`
dispatch on the variant, as `VirtualFile`'s methods do. A standard stream reads or writes the
run context's slot when the engine was given one (`Slots`), and the process stream
otherwise. Reading stdout or stderr, writing stdin and seeking any of them return
`Unsupported`. The streams keep their own result variable, `io_result`, because they are not
part of `os.OpenFile`'s contract. The refinement therefore sees their calls as stuttering
steps.

### TypeMeta

The type checker's types are a constant graph `TC`, cyclic through named types. The state is:

- the metadata arena `metas`, which only grows;
- `types_cache`, from type to Meta (a key and a pointer depth);
- the flag `diverged`, set when a translation nests deeper than `MaxDepth`.

One action is one top-level call, and each call runs to completion:

- `Convert(t)` is `tc_type_to_meta`.
- `Sliceable(t)` is `sliceable_expr_value_types`, which the generator calls for a slice or
  range expression.

The recursion is a set of RECURSIVE operators that thread the arena and the cache through the
translation of the components, in the order the code visits them. There is one operator per
arm of `tc_type_to_meta_impl`, plus `build_fields` for struct fields and interface methods.
Every arena entry records, in a ghost field, the type it was made for.

The properties compare the metadata with the types by unfolding both to depth `Depth`:
`MetaTree` unfolds the metadata and `TypeTree` the types. They also compare the type queries
the generator compiles with against the metadata the VM builds values from:

- `tc_type_to_value_type`;
- `sig_params_tc_types` and `sig_returns_tc_types`;
- `range_tc_types`, `slice_elem_type` and `pointer_point_to_type`.

`MCTypeMeta` is a small program, listed in the module's header:

- a named struct recursive through a pointer and a slice;
- a struct embedding it;
- an array of it;
- an interface whose method takes the interface as receiver;
- a map;
- two variadic functions, one returning a channel;
- a struct of sized integer fields.

The generator asks for the types in every order, and slices the array type `Grid` and a
`string`.

### Packages

A package is a `PackageVal`. It has:

- `members`, a vector of values;
- `member_indices`, from a name to a member;
- `var_mapping`, an `Option` of a map from a constructor's variable number to a member.

`inited()` is `var_mapping.is_none()`, and `set_inited` sets it to `None`.

`BuildPackage(p)` is the package after code generation. `EntryGen::gen` makes one
`PackageVal::new()` per package. The generator then adds members with `add_member`: the
constructor, each variable at its zero value, and `main` for the main package. It records each
variable with `add_var_mapping`.

One fiber runs the program. `frames` holds the call frames (function, `pc`, `stack_base`),
`stack` the value stack, and `next_frames` the frames `PRE_CALL` made. `result` is the
`Continue`/`End` of `main_loop`. Each action is one opcode of `main_loop`. It fires when the
instruction at the top frame's `pc` has that opcode, and it advances `pc` as `main_loop` does.
`LOAD_PKG_FIELD` and `STORE_PKG_FIELD` read the package from the next code word, as
`read_imm_pkg` does.

The program is the constant `prog`, one of `Programs`. It gives each package's import list, its
variables with their initialisers (a constant, or a variable of an imported package), and the
body of `func main`: assignments `q.n = rhs` or `*p = rhs` with `p = &q.n`, where `rhs` is a
constant, `q.n`, or `*&q.n`. `Init` chooses the program and stores its code in `code`, the
function from each function to its instructions, `Code(f)`:

- `gen_entry_func` is translated from `entry.rs`: import the main package, load its `main`,
  call it, return.
- The code of an import and of a constructor is emitted by helpers that are not in `src`
  (`emit_import`, `PkgHelper`). It is modelled from spec 3 (Package) and 4.5 (`IMPORT`), and marked `spec_modelled`.
  `IMPORT` is followed by `JUMP_IF_NOT` over the call of member 0, the constructor. The
  constructor imports its dependencies, leaves one value per variable initialiser on the stack,
  and ends with `RETURN_INIT_PKG`.
- `RETURN_INIT_PKG` hands those values to `PackageVal::init_vars`. The handler in `vm.rs` calls
  `var_count` and `stack.init_pkg_vars`, which no file of the repository defines.

- `func main`'s statements are compiled by `StmtCode` and `RhsCode` (spec-modelled: the
  statement compiler is not in `src`). A pointer to a package member is pushed by
  `REF_PKG_MEMBER` as `PointerObj::PkgMember`, read by `DEREF` through `PointerObj::deref`, and
  written by `STORE_DEREF`'s `PkgMember` arm through `member_mut`.

`inits` is a ghost counter of entries into each constructor.

The reference, `GoFinal`, is Go's semantics of the same program: every variable holds the value
of its initialiser (`GoValue`, recursive over variable loads), then `func main`'s statements
are applied in order (`GoExec`, folded with `FoldLeft`). `MatchesGo` says that when the VM ends,
every package member holds `GoFinal`'s value. It covers the reverse drain of `init_vars`, the
member indices of `var_mapping`, the stack offsets of `STORE_DEREF` and the package read from
the next code word. `CtorStackBalanced` says that `RETURN_INIT_PKG` leaves the stack at the
constructor frame's base: the constructor's variable values are all consumed.

## Runs

| Run | Expect | What it shows |
|---|---|---|
| `channels` | pass | `ImplementsGoChannels`: every step refines `GoChannels`. Also 4 fibers, a rendezvous channel and a bounded channel of capacity 1. The programs are sends and receives (some inside selects), a select-with-default that may succeed or find the channel full or closed, and a close. Every select has one case and `c1` is never closed, so no receiver stops waiting on `c1` (the next row shows what happens when one does). In every interleaving: `ChannelConservation` (every value whose send returned Ok is received exactly once and in order, or is still in the channel); `AllFibersEnd` (under fairness, every fiber ends). |
| `channels_select_ready` | violation | `RendezvousHandshake` (a rendezvous send completes only while some fiber waits to receive). A select over `c1` and `c2` marks `c1` `Ready`, takes `c2`'s value and leaves; a later send on `c1` returns Ok with nobody receiving (`channel.rs:92`, `channel.rs:193`). |
| `channels_close_race` | violation | A `close` between a sender's `InPlace` and the receiver's take drops the sent value (`channel.rs:61`). |
| `slices` | pass | Two slice variables over one array of up to 3 elements, in every sequence of operations, literals included. `EndInArray`: every slice's end stays inside its array. `AppendContents` and `PushContents`: the slice shows its old elements followed by the new ones. `LiteralContents`: a literal with keyed and unkeyed elements holds `GoLiteral`. |
| `slices_append_shared` | violation | An append past capacity writes into the array another slice reads. The spec says append reallocates. |
| `closures` | pass | Entry function `main` calls `outer`; `outer` builds closures of `inner` that capture `outer`'s local. Pointers are made with `NEW` and `REF_LITERAL`. Runs go 3 frames deep with 4 calls, 5 up-values and 2 closures. Closure literals are built only by `outer`, the function that declares the captured variable. `ReturnPreservesCaptures`: a `RETURN` never changes what any up-value reads. |
| `closures_coherence` | violation | After `outer` returns, its closure and a pointer to the same variable hold separate copies (`vm.rs:828`). |
| `os_open_flags` | violation | `ffi_open` does not implement `os.OpenFile`. The first counterexample is `O_RDONLY|O_CREATE`, which is refused with EINVAL. `O_WRONLY` opens read-only, and `os.Create`'s `O_RDWR|O_CREATE|O_TRUNC` opens for append without truncating (`os.rs:47`, `os.rs:53`). |
| `range_slots_leak` | violation | `SlotsSuffice`: `RANGE_INIT` aborts only when 16 ranges are live. The run is restricted to programs with at most one live range at a time (`CONSTRAINT FewLiveRanges`), so the counterexample is the leak: 14 ranges left by `break` keep their slots, and a range started inside a 15th aborts with a single live range (`vm.rs:912`). |
| `typemeta` | pass | Every order of the generator's calls over the types of `MCTypeMeta` has these properties. `TranslationBounded`: every translation ends. `MetaMatchesType`: the cached metadata describes its type, named placeholders filled in. `VariadicAgrees`: a variadic signature's element metadata is the element type the generator packs a call by. `ComponentTypesAgree`: the range key and value, slice element, pointer target and result types the generator compiles with describe the metadata's. `ConstValueKept`: every constant of a basic type keeps its value and value type through `const_value_type`'s casts. |
| `packages` | pass | Every one of 222 programs over `main`, `a` and `b` (every acyclic import graph in which `main` reaches both, every initialiser, three bodies of direct and pointer stores and loads). `MatchesGo`: at the end every package variable holds the value Go's initialisation order and `func main` give it. `CtorStackBalanced`: `RETURN_INIT_PKG` pops exactly the constructor's values. The re-run constructor of the next row does not break `MatchesGo`, because initialisers here have no side effects. |
| `packages_reinit` | violation | `InitOnce`: `main` imports `a` and `b`, and `a` imports `b`. `set_inited` is never called, so the second `IMPORT` of `b` pushes `TRUE` and `b`'s constructor runs again (`objects.rs:1612`, `vm.rs:1043`). |

Each property of a pass run has a mutant in `PROJECT.json`. A mutant is a plausible fault of the
code the property is about, and TLC finds the property violated when the mutant is substituted.
The mutants are:

- a dropped capacity check in `try_send`;
- a bounded send that ignores `closed` (breaks `ImplementsGoChannels` but not
  `ChannelConservation`);
- a receive that does not take the value;
- a receive that withdraws its `Ready` mark;
- a dropped `end` check and a dropped modulo in `check_indices`;
- a skipped truncate in `append`;
- a `push` that forgets to advance `end`;
- a close with the caller's slot;
- a `RETURN` that keeps the popped frame's slots;
- a literal gap filled without the element;
- key-before-cache translation of a named type;
- an arena key one past the entry;
- a map's key and element metadata swapped;
- a variadic element recorded as the slice;
- a range over a map typed with key and element swapped;
- uint16 constants narrowed to 8 bits;
- `init_vars` draining the stack front to back;
- `PRE_CALL` taking the frame base before popping the callee;
- a `CALL` that leaves the frame in `next_frames`.

## Bounds

- **Channels:** each channel case is reached by some interleaving of the programs:
  - `Ready` set and consumed;
  - `InPlace` taken;
  - the bounded channel full, then closed while non-empty;
  - a send on a closed channel;
  - a select that finds nothing and either polls again or takes its default.
- **Slices:** an array of 2 elements that may grow to 3 is enough for every branch of
  `check_indices` and `push`, and for the branches of `append` where both slices view the
  same array: equal lengths, overwriting inside the Vec, extension, and out-of-range. The
  branches of `append` for slices of different arrays are not reached. One array is
  modelled, and with a second one the run did not finish in 20 minutes. Index arguments range over `-1..3`, which covers the boundary
  values. The three literals exercise each branch of the gap arithmetic.
- **Closures:** 3 frames allow a declaring frame, a closure's frame and one more call. 4
  activations let a function be called again after it returned.
- **TypeMeta:** every arm of the translation is reached. The named types are re-entered
  through a pointer, through a slice and through an array, which is how the Array arm's
  cache bypass shows. `MaxDepth` 12 is above the deepest translation the program needs.
  `Depth` 4 unfolds every type through a named type and back. An array type and a string are
  sliced. Adding a `[]int` reaches the slice arm of `sliceable_value_types`
  too, but it quadruples the state space. The slice element types the properties compare come
  from the cached slice metadata instead.
- **OsFile:** one byte on stdin; stdout has a slot and stderr does not, so both ways of
  routing a stream occur.
- **Packages:** three packages give every import shape: none, a chain, a package imported
  twice (`main -> a -> b` with `main -> b`), in both source orders. `a` has two variables, so
  the order of `init_vars`' drain and of the member indices matters. Initialisers reading an
  imported variable make the order of constructors matter. The bodies store through a pointer
  before a load, load through a pointer before a store, and store one member of a package
  through a pointer read from another. Each program is deterministic; the 222 programs are the
  initial states.
- **RangeSlots:** the counter's 16 values are modelled in full. Two frames are enough for a leak
  through return. The violation run keeps at most `MaxLive` = 1 range live, so that the
  counterexample is a leak and not the nesting of 16 ranges.

## Fairness

The `LocalExecutor` keeps a yielding task in its FIFO run queue, and `try_tick` polls every task
in turn. A fiber whose next iteration can make progress is therefore polled until it does. This
justifies weak fairness per fiber (`Fairness` in `Channels`).

The other modules check only safety properties. Their pass runs set `CHECK_DEADLOCK FALSE`
where a panic stops the process, or have an explicit `Ended` step for a fiber that returned.

## Not modelled

- **Value operations:** arithmetic, casts, interfaces, maps, structs and strings. These are
  per-value transformations, and their helpers (`stack.rs`, `value.rs`, `vm_util`,
  `metadata.rs`) are not in the repository. This also rules out `MAKE`, whose slice and map
  constructors are in `value.rs`.
- **Pointers to slice elements and struct fields:** the handlers of
  `REF_SLICE_MEMBER`, `REF_STRUCT_FIELD` and the other arms of `STORE_DEREF` in `vm.rs` use `PointerObj`
  variants that `objects.rs` does not define. `vm.rs` and `objects.rs` come from different
  versions.
- **The type checker's resolver, the engine driver and the FFI proc macro:** the resolver is a
  sequential pass over syntax trees; the other two are I/O and generated code.
- **Package init functions:** `add_init_func` and `init_func` store a package's `init`
  functions. Their callers are in code the generator emits, which is not in `src`. Variables
  initialised by function calls are left out for the same reason.
- **Spawning fibers:** no opcode in this snapshot spawns a fiber. The fibers of the Channels
  model stand for the goroutines the spec describes.

Defects seen while modelling that no run shows:

- `TypeLookup`'s Array arm bypasses the type cache, and the cache is filled only after a
  translation returns. A type reached again inside its own translation gets a second metadata
  entry (`types.rs:303`, `types.rs:481`). Its run, `typemeta_interned`, was retired to free a
  slot for the `packages` pass run. It is reproduced by `MCTypeMeta.cfg` with only
  `INVARIANT Interned`.

- The `range_slots` pass run was retired to give `channels_select_ready` its slot.
  `SlotsDistinct` (no two live ranges share a slot) still holds. It is checked by
  `MCRangeSlots_leak.cfg` with `INVARIANT SlotsDistinct` in place of `SlotsSuffice` and
  without the constraint.
- `assert!(range_slot < 16)` runs after the increment, so only 15 of the 16 slots are usable:
  the 16th nested range aborts (`vm.rs:913`). `MCRangeSlots_leak.cfg` without its
  `CONSTRAINT` finds this first.
- `uint` and `uintptr` share the metadata `muint`, but `tc_type_to_value_type` gives them
  `Uint` and `UintPtr` (`types.rs:366`, `types.rs:597`). Whatever value type `metadata.rs`
  gives `muint`, one of the two disagrees with the code compiled for it. `ValueTypeAgrees`
  states the agreement. `MCTypeMeta.cfg` with only `INVARIANT ValueTypeAgrees` finds it
  violated at the first translation of `Num`, whose field `G` is a `uintptr`.

- `SliceObj::push` on a slice with `begin > 0` indexes `data[end]` past the Vec's end and
  panics (`objects.rs:469`). The model reaches the state and records the panic.
- `SliceObj::set` ignores `begin` (`objects.rs:460`).
- `check_indices` takes `max` as absolute, so `s[b:e:m]` with `begin > 0` gives `cap < len`
  (`objects.rs:597`).
- `LITERAL` of a closure run after the declaring frame has returned finds no frame. It leaves
  the up-value open on frame 0 (`vm.rs:1080`). `OpenUpvalueLive` states that an open up-value
  refers to a live frame of its own activation. `MCClosures.cfg` with `Funcs = {main, outer,
  inner, inner2}`, `Lits <- MCLitsNested` and only `INVARIANT OpenUpvalueLive` finds it
  violated. In that program `ReturnPreservesCaptures` fails too, so the pass run keeps the
  flat program.
- The `APPEND` opcode calls `borrow_data_mut` on a `SliceObj`, which `objects.rs` does not
  define. The model follows `SliceObj::append`.
- `UpValue`'s `Hash` hashes a closed cell by its `Rc` address, while `eq` compares closed cells
  of non-copyable values by the value's address. Two equal pointers can hash differently
  (`objects.rs:1434`).
- `range_tc_types` types the value of a range over a string as `int`; Go gives a `rune`
  (`types.rs:661`). The VM's string iterator is not in the repository, so what it pushes
  cannot be compared.

The ones at lines 469, 460, 597, 1080 and 1434 are listed as hazards in `PROJECT.json`, with
the property that covers each where there is one.

## Plan

Done so far:

- the four core modules;
- the refinement of `Channels` to `GoChannels`;
- the `os` FFI against `GoFile`, with the standard streams;
- `TypeMeta`, with the type queries of the generator;
- `Packages`: package members, constructors, imports and pointers to members, with a pass run
  against Go's initialisation order;
- slice literals;
- pointers made by `NEW` and `REF_LITERAL`.

The project has the 12 runs it can keep. The runs below would need a slot freed first:

1. Select fairness: fibers that loop over a select, with a property that every ready case is
   eventually taken. The property should fail, showing the starvation that
   `pseudo_rand = 0` allows.
2. A pass run for the standard streams of `OsFile`, saying that bytes written reach the slot
   or the process stream.
3. Closures across several fibers, and argument and return values through frames.
4. An abstract slice specification, `GoSlices`: a slice as a window of an array, with
   append allocating beyond capacity. `Slices` would be checked against it.

# SQALE in TLA+

TLA+ models of SQALE, a small typed Lisp with channels, threads and a
mark-and-sweep heap, written in C. The modules are translated from the C
sources (`src/src/*.c`, `src/include/*.h`); TLC checks them on small instances,
and TLAPS proves the safety of the channel, of the handover to threads, of
imports, of maps, of the collector (for calls that do not overlap), of
environments shared by threads, of the arena and the tree in it, and of the lexer
with the parser, for every number of threads, every capacity, text, program, hash
function and chunk size. `PROJECT.json` holds
the machine-readable side: components, runs, mutants, the map from every
definition to the source lines it models, hazards, findings and theorems.

Contents: 1 the system, 2 modules and code, 3 runs, 4 fairness, 5 proofs,
6 disagreements with the documentation, 7 what is not modelled, 8 plan.

## 1. The system

`sqale run f.sq` reads a file, parses it, collects and expands macros,
typechecks and evaluates the top-level forms, calls `main`, and frees
everything. `sqale emit-ir` and `build` typecheck in the same way and then print
LLVM IR. The parts, with the state each keeps:

| component | source | state | operations |
|---|---|---|---|
| channel | `channel.c` | ring `buf/head/tail/count/cap`, one mutex, two condition variables | new, send, recv, free (unused) |
| natives `send`, `recv` | `runtime.c` | a heap box per message in flight | `rt_send` allocates, `rt_recv` copies and frees |
| threads | `thread.c`, `runtime.c` | an argument block for the trampoline and one for the closure | `rt_spawn`, `rt_thread_spawn`, `tramp`, `spawn_tramp` |
| collector | `gc.c` | singly linked object list, mark bits, byte count, threshold | `gc_alloc`, `gc_mark`, `gc_collect`, `gc_free_all` |
| evaluator and typechecker | `eval.c`, `type.c`, `env.c`, `value.c` | environments: lists of (name, type, value) | `typecheck_node`, `eval_node`, closures |
| imports | `eval.c` | the list of imported paths, the arenas of modules | `vm_import_resolve_and_load`, `eval_program` |
| macros | `macro.c` | the macro environment | collect, expand |
| lexer, parser | `lexer.c`, `parser.c` | position, two tokens, the C stack of `parse_list` | `lexer_next`, `parse_toplevel` |
| maps, vectors, strings, structs | `runtime.c`, `vec.c`, `str.c` | objects of the collector's heap | natives |
| arena, AST lists | `arena.c`, `ast.c` | chunks; arrays that double | `arena_alloc`, `node_list_push` |
| code generator and its runtime | `codegen_llvm.c`, `runtime_llvm.c` | output text, register and label counters | one function per form |
| command line, REPL | `main.c`, `repl.c` | an interpreter per command | `cmd_run`, `cmd_repl`, ... |

How they interact. Threads meet in four places. A **channel** is shared on
purpose: ring, mutex and condition variables, and the box whose ownership goes
from sender to ring to receiver. **Environments** are shared because a spawned
closure extends the frame it was made in: threads look names up, assign them and
push new entries on one list without a lock. The **collector** is shared by
accident: every native that allocates calls `gc_alloc` on the one heap of the
VM, from whatever thread evaluates it, without a lock either. And the
**lifetime of the interpreter** is shared: `cmd_run` frees the heap, the
environment and the AST when `main` returns, whether or not spawned threads
still use them.

Sequentially, imports re-enter `eval_program` from both of its passes, over one
global environment and one import cache. The typechecker and the evaluator share
one environment: the first leaves entries without values that the second reads.
Macro expansion runs the evaluator in a VM of its own. The code generator reads
the types the typechecker wrote on the nodes, after the program was evaluated.

What is hard here, and what correctness means for each part:

* *Channel*: a wait gives up the mutex in the middle of a call, signals wake one
  sleeper while others compete for the mutex, a time-out may race a signal, and
  the four ring fields are updated one by one. It is correct if it is a
  linearizable FIFO queue, loses no wake-up, cannot come to rest with both roles
  asleep, and if every box has one owner until it is freed.
* *Collector*: the sweep edits the list it walks; a mark must survive exactly one
  cycle; a fresh object is on the list before its caller holds it. It is correct
  if the list and the allocated objects agree, nothing reachable is freed and
  every walk ends.
* *Threads*: the new thread may run before `pthread_create` returns to its
  creator. Correct if each argument block is freed once by its reader, and no
  thread uses what teardown has freed.
* *Imports*: cycles, one file under several names, names that several files
  answer to, and imports that run between the two passes of their importer.
  Correct if loading ends, no path is loaded twice, the nearest file wins, and
  evaluated expressions find their values.
* *Maps*: a fixed table with wrap-around probing. Correct if it is a dictionary
  and calls return.
* *Reader*: lookahead across nested lists, unknown characters, the end of the
  text. Correct if what is printed reads back, nothing of a text is lost, and
  reading ends.
* *Language*: the typechecker's view of names (one table, changed in place) and
  the evaluator's (the same table, later). Correct if the value of an accepted
  form is of the form's type, a rejected or accepted form changes no name that
  it does not bind, and a file means what its lines mean.
* *Macros*: expansion by position, in which types, bindings and calls look
  alike, of code that macros produced. Correct if no call is left, if the core
  macros mean what they are documented to mean, and if expansion ends.
* *Code generator*: blocks that nested conditionals move, temporaries without a
  value, two back ends. Correct if LLVM accepts the module, and the compiled
  `main` prints and returns what the interpreter's does.
* *Shared environments*: a push is two steps, a value is two words, a lookup is
  a walk. Correct if a lookup finds the newest entry and a thread reads its own
  assignments, as far as no other thread interfered.
* *Arena*: rounding, chunks that are started early, arrays that are abandoned
  when they double. Correct if no two blocks overlap and the tree keeps its
  items.

## 2. Modules and code

| module | models | notes |
|---|---|---|
| `BoundedQueue` | what a channel promises | abstract specification: invocation, effect and return of each call are separate steps |
| `Channel` | `channel.c` (pthread half) with `rt_send`, `rt_recv` of `runtime.c` | implements `BoundedQueue` |
| `ChannelProofs` | | theorems about `Channel` |
| `Links` | the objects on a singly linked list in memory | used by the properties of `Heap` and the proofs about `Shared` |
| `Heap` | `gc.c` | one step per access to the list, several threads |
| `HeapProofs` | | lemmas about lists in memory, theorems about `Heap` |
| `Spawn` | `thread.c`, `rt_spawn` of `runtime.c`, teardown in `main.c` | uses a channel by the number of messages only |
| `SpawnProofs` | | theorems about `Spawn` |
| `Import` | `eval_program`, `vm_import_resolve_and_load` of `eval.c` | the global table by the state and the type of each name |
| `ImportProofs` | | theorems about `Import` |
| `Dictionary` | what a map promises | abstract specification |
| `HashMap` | `map_set_pair`, `map_get_pair`, `map-len` of `runtime.c` | implements `Dictionary` |
| `HashMapProofs` | | theorems about `HashMap` |
| `Reader` | `lexer.c`, `parser.c` | loops and recursion as recursive functions on positions |
| `ReaderProofs` | | theorems about `Reader` |
| `Values` | types, values, the natives of `runtime.c`, `vm_new`'s signatures | data only, no variables |
| `Language` | typechecker and evaluator of `eval.c`, `env.c` | operators on a state of the interpreter |
| `Macro` | `macro.c` | operators; extends `Language` |
| `Session` | `cmd_repl`, `cmd_run` of `main.c` | composes `Macro` and `Language` |
| `Codegen` | `codegen_llvm.c`, `cmd_emit_ir` | extends `Language`; executes what it emits |
| `Arena` | `arena.c`, `ast.c` | byte by byte |
| `ArenaProofs` | | theorems about `Arena` |
| `Shared` | `env_set`, `env_lookup`, symbols and `set!` on several threads | one step per access to a shared word |
| `SharedProofs` | | theorems about `Shared` |
| `MC*` | | instances for TLC |

Definitions named `Bug_*` are not part of any specification. Each is a plausible
fault of the definition below it; putting it in that definition's place makes
TLC report the property that `PROJECT.json` pairs it with.

**Channel.** `mu, buf, head, tail, count` are the fields of `struct Channel`. A
thread's `pc` says where in `rt_channel_send` or `rt_channel_recv` it is: `lock`
before `pthread_mutex_lock`, `test` at the `while`, `wait` in `wait_ms`,
`giveup` in `wait_ms` with a nonzero result to come, `signal` after the ring was
updated, `unlock`, and `return` back in the native. What lies between two of
these places happens under the mutex, so one step does it. A wait releases the
mutex and sleeps in one step (that is pthread's promise), and wakes because of a
signal, spuriously, or because its time is up; in each case the mutex is taken
again first. A signal wakes one sleeper of the other role, or nobody, and a
sleeper whose time is up may use a signal up and still return `ETIMEDOUT`.
`live` is the set of boxes that `malloc` handed out and nobody freed.
The natives pass a timeout of -1; finite timeouts are in the model because
`thread.h` offers them, and `Timeouts` chooses.

**Heap.** The model has any number of threads, since every thread allocates on the
one heap; the runs have one, because the collector promises nothing for more
(section 6). `objects`, `next` and `marked` are the C fields, and `cur` is the
`Obj**` of the sweep: the list head or the next field of an object, read again
at each step. `roots` is what the program still refers to, which the collector
only learns through a root callback. The interpreter installs none:
`RootCallback = FALSE`. `TRUE` is a client of `gc.h` that marks its roots, and
also covers the interpreter's runs in which no object is referred to when a
collection starts. Objects are leaves: no object type has a mark function. An
object joins `roots` when `gc_alloc` returns it, freed or not; `dangling` is a
history variable that names the objects which the collection of their own
`gc_alloc` freed, until `malloc` hands the address out again. `Teardown` is
`vm_free` at the end of `main`: it is called by `Main` only, and waits for no
other thread.

**Spawn.** `targ` and `sarg` are the two argument blocks of each worker. The
program is `examples/threads.sq`: workers send one message each; `main` receives
from all of them, or (for `waits = FALSE`) returns when it likes.

**Import.** `stack` is the C stack of `eval_program` calls, each with its file,
its pass and its form. Forms are imports, definitions with the globals they read
at once, and ill-typed forms. The typechecker enters a name with its declared type
and no value before it looks at the expression (`Entered`, `EnteredTypes`). What
the expression reads has the type of the newest entry, which another file may have
made; each place of a read accepts some types, and the type that the expression
yields must agree with the declared one (`TyEq`: `Any` agrees with every type). If
not, the file is given up (`aborted`), its names stay entered, and its importer does
not notice: return codes of imports are ignored, as in the code. Evaluation enters
the name again, at the type the expression yields, and reads a name without value as
Unit; `blind` records that this happened. What an expression yields does not depend
on what it reads: it is fixed by its form, and a type is a name, without the types
in it.

**HashMap.** A call is one step per slot it looks at. The hash is any function
from keys to slots, chosen in the initial state. `SetProbe` has no test for
having come round, as in the code; `GetProbe` has.

**Reader.** `open` is the C stack of `parse_list` calls with the lists they
build, `cur` and `peek` the two tokens. `lexer_next` is an operator on
positions. A text is a sequence of characters; the classes of `ctype.h` are
constants (`Letter`, `Digit`, `Space`), of which the run keeps a few members. The
loops of the lexer are given by where they end: `Past` and `Skip` choose the first
position whose character is not passed over, and `Endless` says that there is
none. A list is kept flat, as the sequence of its items with those of the lists
in it between brackets, so that a program and a token stream are compared item by
item. `Spelled` is the grammar of the items a program may have: what the lexer
reads as one token. What `strtoll` and `strtod` make of a number, and line
numbers, are left out.

**Values, Language.** A node is `<<kind, payload, type>>`; typechecking returns the
node with its types filled in, as the C code writes them into it. A state of
the interpreter is a record of its frames (lists of entries with a link to the
frame around), the objects of the heap, the output, the closures handed to
`spawn`, and two things the code has not: `fuel`, a bound on calls and loop
turns, and `unset`, which remembers that a name was read before it had a value.
`typecheck_node` and `eval_node` are operators from such a state to the next,
with one operator per form, named after it. Frames that the typechecker frees
are dropped. `halt` says why evaluation does not go on: `crash` (the process
would die of a division or of a NULL), `blocked` (a `send` or `recv` that waits
for another thread), or `fuel`. Integers wrap at `W` bits; a float is a number
of halves, enough to tell rounding directions apart.

**Macro.** `m` is the macro-time VM, a state of `Language`. `expand_items` and
`expand_rec` are the two mutually recursive functions of `macro.c`; a core macro
is its own name, a user macro the closure its definition was evaluated to.

**Session.** `ReadLine` and `EvalForm` are the loop of `cmd_repl`; `LoadProgram`,
`CheckNext`, `EvalNext` and `CallMain` are `cmd_run`. `RunThread` runs a spawned
closure to its end between two forms. `raw`, `accepted` and `last` are history.

**Codegen.** `cg` is `CgContext` (counters and the stack of scopes) with the
function emitted so far, as blocks of instructions. The definitions from
`cg_args` to `cg_function` are the text back end, those ending in `_llvm` the
one on the LLVM C API. `machine` executes the module and stands for LLVM and the
few functions of `runtime_llvm.c` that generated code calls; it halts as
`invalid` where the module has no meaning, and as `trap` where an operation has
no result. In one run of the model, a program is checked and evaluated
(`cmd_emit_ir` does evaluate it), compiled and executed.

**Arena.** `chunks` is the list of chunks with its head last. A call of a
constructor of `ast.c` is one `Begin*` step, a step for each decision of each of
its `arena_alloc` calls, and an `End*` step for its writes. `mem` holds for each
byte the datum last written there: a list item is told from every other, and a
pointer covers several bytes, so that an overlap of any kind shows.

**Shared.** `head` is `Env.head`, `next`, `name` and `box` are the fields of an
entry. A value is two words (its kind and its payload), copied and stored in any
order. An entry may have no value, as those of the typechecker, of `defstruct` and
of `defenum`: a symbol reads Unit from it, and a `set!` stores nothing there. Between
its lookup and its store a `set!` evaluates the new value: `waiting` holds the
entries that the `set!`s of a thread have found, innermost last, and all calls of
the thread up to the matching `CallStore` are those of that expression, in which
names may be defined, read and assigned. `order`, `lost`, `floor`, `upset` and `own`
are history variables that say what a lookup ought to find. The names are those of
one frame.

## 3. Runs

Distinct states in parentheses.

| run | instance | checks |
|---|---|---|
| `channel` (65,741) | 3 threads, 3 boxes, capacity 2, with and without timeouts; threads and boxes are symmetric | `TypeOK`, `RingConsistent`, `OneOwner`, `ImplementsBoundedQueue` |
| `channel_blocking` (128,892) | the same, blocking calls, fairness, no symmetry | `NoLostWakeup`, `NoStandoff`, `NoLeak`, `ReceiversServed`, `SendersServed` |
| `heap` (60,400) | 1 thread, 3 addresses, sizes 1 and 2, threshold 2, 5 allocations, root callback | `TypeOK`, `ListIntact`, `MarksCleared`, `RootsKept`, `CallsReturn` |
| `heap_live_objects` | 1 thread, no callback | *violated:* `RootsSurvive` |
| `spawn` (7,714) | 3 workers, `main` waits or not, creation may fail | `ArgsHandedOver`, `TeardownAfterSends`, `ProgramEnds` |
| `import` (278,373) | 27,440 programs of a root and 3 other files: all with up to 2 forms in the root and 1 in each other file; and self-contained ones of up to 3 forms that share names at different types | `LoadedOnce`, `MissingExhausted`, `NearestWins`, `SelfContainedReads`, `LoadingEnds` |
| `hashmap` (742,797) | 4 keys, 2 values, every hash, 3 slots | `TypeOK`, `KeysReachable`, `ImplementsDictionary`, `CallsReturn` |
| `reader` (211,543) | all texts of length 4 over ten characters and of length 5 over five, with and without a final newline; printed programs of depth up to 3 | `NothingLost`, `PrintsBack`, `SpacedTextsRead` |
| `session` (67,069) | every native on edge values; programs of up to four lines over 17 forms; pairs over 12 lines with macros; `cond` with up to three clauses; each in both drivers | `Sound`, `OnlyDefsBind`, `DriversAgree`, `ExpansionComplete`, `CoreMacrosMean` |
| `codegen` (16,038) | a function with one of some 150 bodies, called with two arguments, and mains without calls; both back ends | `IRWellFormed`, `CompiledAgrees` |
| `arena` (94,769) | chunks of 12 bytes, header 3, pointers 2, nodes 4, two lists of up to 6 items, texts of length 0 and 2, up to 10 blocks | `BlocksDisjoint`, `TreeKept` |
| `shared` (2,937,806) | 2 threads, 2 names, 2 values; 3 entries while one thread assigns, or 2 while both do and one nests its `set!`s; names and values are symmetric | `FindsNewest`, `OwnWrites` |

Why the bounds are enough to meet the hard cases. *Channel*: three threads allow two
sleepers of one role with one of the other, and a thread that barges in between a
signal and the waking of the signalled; capacity 2 lets a ring be full, empty and
neither, and lets indices wrap; three boxes are fewer than what three threads and
the ring can hold, so `malloc` reuses addresses. (With two of the three boxes in the
ring a second sender has none to send: two receivers sleep at once in these runs,
two senders do not. For competing senders see `WakeupsNotLost`, which has any number
of boxes.) In `channel_blocking`, symmetry is off because TLC's liveness checking
needs the full graph. *Heap*: five allocations at threshold 2 give several
collections while addresses are reused; three objects give a first, middle and last
place of the list. *Spawn*: teardown may meet workers in different places. *Import*:
an import cycle takes two files, and `a` may mean `./a.sq` or `std/a.sq`. The second
family has what it takes for a read to go wrong between self-contained files: the
root defines and reads a name, imports `a` before, between or after; the second pass
takes `std/a.sq`, which defines the same name, imports `./b.sq` and reads another
name of its own, which `./b.sq` may retype. *HashMap*: four keys in three slots fill
the table, and every collision and wrap happens under some hash. *Reader*: four
characters are a token and its neighbour, five are two nested lists with an unknown
character inside; the printed programs have longer tokens and three levels.
*Session*: `W = 4` gives a smallest and a largest integer, and results that wrap;
four lines are a definition, a closure over it, a change and a use; `ChanCap = 2`
lets a channel be empty and full; recursion and loops go 9 calls deep before `Fuel`
ends them, which no property takes for an answer. *Codegen*: bodies nest
conditionals in conditions, branches and operands, and recurse to `Fuel`. *Arena*:
an array of 4 pointers with its node outgrows a chunk of 12, arrays double twice
within 6 items, and texts of odd size leave the next free byte unaligned. *Shared*:
three entries are the two of a race with one below them or between them, and two are
what a `set!` holds and what its new value defines; `Limits` has the two cases,
since their product is too large. Symmetry is sound since only invariants are
checked, and no definition tells names or values apart.

`MaxAllocs`, `Addr`, `Box`, `Fuel`, `MaxCount`, `MaxBlocks`, `MaxEntries`
and `Limits` bound otherwise unbounded counters and heaps.
`CHECK_DEADLOCK FALSE` is set where the system may stop: all threads asleep in
`recv` on an empty channel (the program is then waiting for itself), a heap that
was torn down or has made its last allocation, a process that has ended, a file
that is read, a session whose lines are evaluated or whose form blocks, a
compiled program that has returned, an arena with an array as long as
`MaxCount`. `hashmap` and `shared` never stop, and there deadlock is checked.

What the properties say beyond single steps:

* `ImplementsBoundedQueue`: with `queue` read off the ring, every step of the
  channel is a step of a FIFO queue or invisible to it; a call takes effect
  once, between invocation and return; only a call with a timeout gives up, and
  without effect.
* `NoLostWakeup`: one signal per message is enough. While a receiver sleeps,
  each message in the ring has a receiver of its own that is awake, or a signal
  on its way. It is stated for blocking calls: with finite timeouts, a thread
  that times out may use up the signal meant for another.
* `ReceiversServed`, `SendersServed`: progress of the role, not of each thread:
  pthread does not promise who gets a contended mutex, and a thread may be
  overtaken for ever.
* `OneOwner`, `NoLeak`: the box goes from hand to hand and is freed once.
* `ListIntact`: at every step of a sweep that edits the list it walks, what the
  list leads to is allocated; between calls it holds all that is allocated; and
  `gc_free_all` leaves nothing.
* `RootsSurvive` (what the program refers to is allocated) is what a collector is
  for, and the code does not keep it: `heap_live_objects`. The shortest trace is one
  call of `gc_alloc` that frees the object it returns, which no callback can
  prevent. `RootsKept`, in the run `heap`, is what is left to a client that marks its
  roots: the object so returned is the only one in use that a collection ever
  frees. Of the interpreter it says something only while no object is in use
  when a collection starts.
* `SelfContainedReads`: suppose that each file typechecks by itself: it reads only
  what it defined before, at a type that fits. Every evaluated expression then finds
  its values, although imports run when the importer's own names have types and no
  values yet, unless a file was given up at a type error; and that happens only if
  the files give one name two types. The exception is real: an import may retype a
  name that its importer is about to read, the importer is given up with some names
  entered and no values, and a third file reads them.
* `KeysReachable`: each key is in one slot, is counted once, and no unused slot
  lies on the way from the slot it hashes to.
* `CallsReturn` of the map: every call returns, except an update with a new key
  of a full table, which probes for ever (`map_new_gc` makes 16 slots and
  nothing enlarges them).
* `NothingLost`: an unknown character ends its list early and shifts the rest of
  the text to other lists, but no atom is dropped or reordered by that.
* `SpacedTextsRead`: reading ends for each text whose last character is a space
  or a newline. A text that ends in a symbol is not (section 6).
* `Sound`: type soundness. The value of an accepted form, and of every entry of
  every frame, is of its static type, and evaluation crashes only in a program
  that divides. `Excused` lists where the code does not promise that, each case
  something the typechecker lets through: a name read before it has a value; a
  name bound twice where a closure may see both binders (entries of another type
  shadow those a closure was checked against); values that pass through `Any`;
  `str-split-ws`, declared for any argument; a `while` whose last body item is
  not Unit; an `if` of more than four items. These are real faults of the code that
  `Sound` does not catch, and section 6 lists them. Every other program of the run is
  sound, with redefinition, capture, `set!`, recursion, threads and channels.
* `OnlyDefsBind`: a form that is rejected half-way, and a form that is accepted,
  change the meaning of no name but those they define or assign.
* `DriversAgree`: `cmd_run` typechecks all forms before it evaluates the first,
  `cmd_repl` goes form by form; still a file is accepted with the same output
  and the same globals as its lines are. Exceptions: a macro used on a
  line after its own (the REPL forgets macros), values through `Any`, names read
  before they have values (they differ in when that is), and threads.
* `ExpansionComplete`, `CoreMacrosMean`: expansion that ends leaves no macro call
  outside of what is taken for a type; `cond` and `when`, once expanded, yield
  and print what a definition of their meaning on the unexpanded form says.
* `IRWellFormed`, `CompiledAgrees`: within the sublanguage `Supported`, which is
  what the generators can translate (section 6 says what falls outside), every
  temporary is assigned once and before its use on every path, at the type it is
  used at, every phi has a value for each block it is reached from, and the
  compiled program agrees with the interpreter, errors included. A program
  outside of `Supported` is compiled and executed, too, and nothing is claimed: in
  particular of a conditional nested in the value of another one, which the text
  back end gets wrong, and of a remainder by zero.
* `TeardownAfterSends` is about messages: it does not exclude that a worker which
  has sent its message is still in its call when `main` frees what it uses, and
  `ProgramEnds` leaves the hang after a failed thread creation out. Both
  are in section 6.
* `FindsNewest`: a lookup that runs while others push finds an entry of its name
  at least as new as the newest there was when it began; the only entries ever
  missed are those that two overlapping pushes lose. `OwnWrites`: a `set!` is
  read back whole by its thread, and never as a name without value, unless
  another thread stored to that name since, or any thread, itself included, defined
  it since the lookup (as the new value's own evaluation may), or an entry of that
  name had been lost in a race (it may come back on the list, see section 5).
* `BlocksDisjoint`, `TreeKept`: no byte has two owners, and every list reads back
  in order, although arrays are replaced and others grow next to them.

## 4. Fairness

* *Channel*: weak fairness for the steps of a call in progress (`Step(t)`): the
  operating system runs a thread that can run. A thread that waits for the mutex
  is enabled only while the mutex is free, so weak fairness says nothing about
  who gets it. Nothing is assumed of new calls, spurious wake-ups or time-outs;
  the progress properties allow for endless spurious wake-ups in so many words.
* *Heap, HashMap, Import, Reader*: sequential code in progress goes on. The caller
  need not call again.
* *Session, Codegen, Arena, Shared*: no liveness is stated, and no fairness.
* *Spawn*: every thread that can run runs. `ProgramEnds` excepts a thread whose
  creation failed: `rt_spawn` ignores the failure, and a `main` that waits for
  its message blocks.

## 5. Proofs

### Channel

`ChannelProofs` proves, with TLAPS, for every finite set of threads, every set of
boxes and every capacity of at least 1 (`ChannelAssumption`, `ThreadsFinite`;
`rt_channel_new` with capacity 0 would divide by zero in `%`):

| theorem | states |
|---|---|
| `TypeCorrect` | `Spec => []TypeOK` |
| `MutexHeld` | `Spec => []MutualExclusion` |
| `RingAgrees` | `Spec => []RingConsistent` |
| `ChannelIsBoundedQueue` | `Spec => ImplementsBoundedQueue` |
| `BoxesHaveOneOwner` | `Spec => []OneOwner` |
| `WakeupsNotLost`, `NeverStandoff` | for blocking calls, `Spec => []NoLostWakeup`, `Spec => []NoStandoff` |
| `NoBoxLeaks` | for blocking calls, `Spec => []NoLeak` |

The argument. `TypeOK` and `MutualExclusion` are each inductive, the second on
top of the first. `RingConsistent` is inductive with `TypeOK`; the provers do
not reason well about `%`, so `ModWrap` replaces it by a conditional subtraction
(`Wrap`) once and for all, and everything about the ring rests on that lemma.

*Refinement.* `Contents` is the abstract queue. Two lemmas do the work:
`EnqueueAppends` (storing at `tail` appends to `Contents`, because `tail` is
`count` slots after `head`, by `RingConsistent`) and `DequeueTakes` (moving
`head` takes the first element off). `StepRefines` then maps each action to one
of `BoundedQueue`'s or to a stutter. One extra invariant is needed, that only a
call with a timeout is ever at `giveup` (`GiveUpTimed`): otherwise a blocking
call could give up, which the abstract queue forbids.

*Wake-ups.* `NoLostWakeup` compares what sleepers wait for (messages, or free slots)
with the number of threads about to use it up. It is inductive together with
`TypeOK` and `Untimed` (no blocking call ever gives up). The proof counts: when a
thread goes to sleep it found nothing available; when it adds a message it joins the
helpers itself, as the signaller; when it signals, the sleeper it wakes takes its
place. `NeverStandoff` follows by arithmetic: if both roles sleep, either something
is available for receivers or (as `Cap > 0`) for senders, so there is a helper.

*Boxes.* `OneOwner` and `NoLeak` need `BoxWhenDone` (an idle thread has no box, a
receiver none before it takes one out) besides the ring lemmas, and `NoLeak`
also `Untimed`: a send that gives up leaves its box behind.

### Threads

`SpawnProofs`, for every finite set of workers, programs that wait and programs
that do not, and whether or not creation can fail (`SpawnAssumption`):
`SpawnTypeCorrect`; `ArgumentsHandedOver` (`Spec => []ArgsHandedOver`), which is
inductive together with `Handover`: while `rt_spawn` is between its allocations
and the return of `pthread_create` both blocks are there, and a thread that is
past `tramp` has freed its block; and `SendsBeforeTeardown`
(`Spec => []TeardownAfterSends`). The last one counts: `Received` says that
`main` received no more messages than workers have sent, and that a `main` that
waits and has returned received as many as there are workers; the set of
senders is a subset of the workers of the same cardinality, so it is all of
them.

### Imports

`ImportProofs`, for every set of files, every list of candidate paths for each
module and every set of programs (`ImportAssumption`; files may import each
other in any way): `ImportTypeCorrect`, `FilesLoadedOnce` (`LoadedOnce`),
`NestingBounded` (`DepthBounded`), `MissingMeansExhausted`
(`MissingExhausted`), `NearestFileWins` (`NearestWins`) and
`SelfContainedFilesRead` (`SelfContainedReads`).

The first four rest on the cache: an import starts a file only when its path is
not cached and caches it in the same call (`CacheSteps`). The search takes the
first candidate that qualifies; `LeastNatural` gives that a qualifying candidate
implies a first one, so a search that finds nothing has no candidate left
(`SearchComplete`).

`SelfContainedReads` needs the strengthening `ReadsFind`. While no file was given up
(`aborted = {}`), it says of each file on the stack what its pass has achieved: in
the first pass, the names that its earlier forms define are in the global table
(`absent` no more); in the second, they have values, or a frame further up the stack
is about to give them one (`Pending`): its file defines the name too, its first pass
has entered it without a value, and its second pass has that definition still ahead.
The property as checked is not inductive, because a file imported half-way may
overwrite what its importer defined. One lemma for each way the stack can change
(`TopMoves`, `PushSettled`, `PopSettled`) shows that the frames below keep what they
have. That a file is given up only if a name has two types (`CheckFailsRetyped`)
needs `TypesKnown`: what is on the table has a type that some definition in the
program gives its name. In a self-contained file the earlier definition of what is
read gives that name a fitting type, so the entry found, which does not fit, is of
another.

### Maps

`HashMapProofs`, for every set of keys, every capacity of at least 1 and every
hash function (`MapAssumption`): `MapTypeCorrect` (no slot outside of the table
is looked at), `NoGapOnTheWay` (`NoGap`), `LengthCounts` (`LenCounts`), the two
together as `KeysCountedAndFound` (`Spec => []KeysReachable`), and
`TableIsDictionary` (`Spec => ImplementsDictionary`).

`NoGap` is inductive with `Probed` (the slots a call has passed hold other
keys) and `OneSlot` (a key is in one slot). The central lemma is `NotInTable`: of
the slot where the probe met an unused one, and a slot where the key could be
hidden, one comes first on the way from the hash (`RunOrder`), and either case
contradicts one of the two. With it an update adds a key only where there was
none, and a lookup that gives up is right to. A lookup that came round has seen
every slot (`CameRound`). The steps of a probe are stutters of `Dictionary`; hits
and insertions are its `Assign` and `Lookup` (`UpdateMeaning`, `HitMeaning`).

### Arena

`ArenaProofs`, for every chunk size, pointer size, header, set of lists and
sequence of requests (`ArenaAssumption`): `Disjoint` (`Spec => []BlocksDisjoint`)
and `TreeSurvives` (`Spec => []TreeKept`).

`BlocksDisjoint` is not inductive: it does not say where the next block goes.
`IInv` adds that the blocks of a chunk end at or below its `used`, and `used` at
or below its `cap` (`Cut`, `UsedInCap`). A block is cut at the next multiple of
its alignment at or above `used` (`RoundUpFacts`), so behind all others; in a
chunk that exists, `Fits` was tested. In a new chunk the code does not test
again: the block fits because the size was doubled until it reached
`size + align + header`, and an offset of 0 is a multiple of anything.

`TreeInv` adds to `IInv` what the tree relies on. `node_list_push` does not store
the capacity of an array; it makes a new one when the count is a power of two and
trusts otherwise that there is room. `Room` says why there is: a power of two lies
between the count and the capacity. A count that is not a power of two is below
that one, and the next item fits (`PushRoom`); at a power of two the new array
has twice the size. (The capacity itself need not be a power of two: the hint of
`node_list` is any number.) `Arrays` says that the array of a list is a block that
no other list, node or text has, so what `Over` writes to it changes nothing else
(`TreeSpared`); `Filled` is `TreeKept` with the addition that the bytes were
written at all. `CopyMoves` is the `memcpy` of the old items.

### Collector

`HeapProofs` has any number of threads, addresses and sizes, with or without a
callback (`HeapAssumption`). `HeapTypeCorrect` (`Spec => []TypeOK`) needs nothing
else. The others are about calls that do not overlap, since the code has no
lock: `Serial` says that while one thread is in a call the others are in none,
and the theorems take `[]Serial` as a hypothesis.

| theorem | states |
|---|---|
| `SerialListIntact` | `Spec /\ []Serial => []ListIntact` |
| `SerialMarksCleared` | `Spec /\ []Serial => []MarksCleared` |
| `SerialRootsKept` | with a callback, `Spec /\ []Serial => []RootsKept` |
| `OneThreadListIntact` | for one thread, `Spec => []ListIntact /\ []MarksCleared` |

So a lock around the calls of `gc.h` would be enough for the list and the marks, and
a program that does not spawn has both intact. It is not enough for the objects in
use: that takes a callback too, and even then leaves out the object that `gc_alloc`
is about to return. The invariant `HInv` says of the one call in progress: that the
list has all that is allocated, but for the object that `gc_alloc` is about to push
(`Linked`, `Fresh`); that marks are left only on objects which the sweep has yet to
pass (`Marks`); that the sweep stands on the list, behind all it has yet to look at,
and that with a callback the roots among those are marked (`Sweeping`); and what is
left during `gc_free_all` (`TornDown`). `SerialRootsKept` adds `Kept`: the object a
call will return is allocated or was freed by its own sweep. The list is the least
set that is closed under `next` (`Reach`, in `Links`), so no induction along it is
needed: the first lemmas say what becomes of this set when an object is taken off,
put in front or unlinked, and that writes to other objects do not change it.
`Tight`, that no two objects have the same successor, is what makes unlinking remove
one object and no more.

### Shared environments

`SharedProofs`, for any number of threads, names, values and entries
(`SharedAssumption`), without any hypothesis on how threads interleave:
`LookupFindsNewest` (`Spec => []FindsNewest`) and `SetIsReadBack`
(`Spec => []OwnWrites`).

`ListInv` says that an entry being filled in is known to its thread alone
(`Private`), that links go to entries pushed before (`Ordered`), and that every
entry which no race lost is on the list, and on the list which a push between its
two steps is about to publish (`Whole`). (`SharedTypeCorrect` is `Spec =>
[]ListInv`.) Since links go back in the order of the pushes, a lookup cannot skip
the newest entry of its name: that entry stays on the part of the list before it
until it is found (`Lookups`). `Assigned` is about a `set!` until its new value is
there: its lookup ends at the newest entry of the name, and every entry held in
`waiting`, at any depth, still is the newest of its name, if nobody has defined the
name since and no entry of it was lost. `Owned` follows the thread from there to the
next read: while nobody interferes, the entry it stores to is the newest of that
name, has a value, and holds the words stored so far.

The proof of `OwnWrites` showed the property, as it was first stated, to be false;
a small bound had hidden it. An entry that one of two overlapping pushes lost is
not gone for good: a push that read the head when the entry was still there may
publish it again later. A `set!` in between stores to an older entry of the name,
which the lost one then shadows. It takes four entries; `shared` has three. So
`CallStore` takes a `set!` for the thread's own only if no entry of its name was
lost.

### Lexer and parser

`ReaderProofs`, for every alphabet whose classes are disjoint and contain none of
the lexer's own characters, every text and every program with matching brackets
whose items the lexer can spell (`ReaderAssumption`):

| theorem | states |
|---|---|
| `LexerAdvances` | `lexer_next` returns a token and goes on behind it, or is at the end and stays there, or never returns |
| `SpacedTextsReturn` | it returns if the text ends in a space or a newline |
| `ReaderInvariant` | `Spec => []ReaderInv` |
| `NothingLostHolds` | `Spec => []NothingLost` |
| `PrintsBackHolds` | `Spec => []PrintsBack` |

Both safety properties speak of `Done` only, so each needs an invariant that says
what has been achieved on the way. `Unrolled` joins the lists on the stack into one
sequence, with the bracket that opened each; an atom, a list that begins and a
list that returns append one item to it (`UnrolledPush`, `UnrolledOpen`,
`UnrolledReturn`). `ReaderInv` says that the atoms of this sequence, then those of
`cur` and `peek`, then those from `pos` on, are the atoms of the text (`Kept`): a
step moves an atom from one part to the next, or moves none. It adds that behind
the end of the text there is only the end (`Lookahead`), so nothing is left when
`cur` is there. That an unknown character cuts a list short, or that brackets do
not match, makes no difference to it.

`Matches` is about a printed program: after `k` of its items have been taken the
unrolled lists are its first `k` items, the two tokens are the next two, and the
lexer stands behind these. Its core is `ReadOn`, that `lexer_next` reads the next
item from behind any item, which has one lemma for each kind of token (`LexMark`,
`LexArrow`, `LexSymbol`, `LexString`, `LexNumber`) and one for what is printed
(`PrintedOne`). `Matches` also counts brackets: as many lists are open as brackets
have been opened and not closed. With `Balanced` this excludes what would make the
parser go wrong: a bracket at top level (`Drop`), a list that the end of the text
closes, and an unknown character (`Cut`).

The recursive functions of the model are solutions of equations that the provers do
not unfold by themselves. `Onward` (recursion to later positions, with any step
width) and `Upto` (from 0 to a bound) show once that such equations have solutions;
`StringEndIs`, `AtomsFromIs`, `AtomsOfIs` and `PrintedIs` carry this over. What they
compute is then shown without an induction rule: by the least position at which a
claim would fail (`Least`, `Greatest`), or by a set of numbers that climbs from 0 to
its bound (`Climb`).

### What is only model-checked

* Liveness, which TLAPS cannot prove here: `ReceiversServed`, `SendersServed`, all
  `CallsReturn`, `ProgramEnds`, `LoadingEnds`, `SpacedTextsRead` (its part in the lexer is
  `SpacedTextsReturn`).
* The five invariants of `Session` and `Codegen`. These modules, with `Values`,
  `Language` and `Macro`, have operators that are recursive on forms and
  instructions, through one another, which keeps the SMT prover out (`Values` also
  uses `Bitwise`), and what such an operator computes for every input would need an
  induction over that data. `OnlyDefsBind` and `CoreMacrosMean`, of the same run,
  are model-checked for the same reason.

Every other safety property of the runs is a theorem.

## 6. Disagreements with the documentation

One is a run that TLC must find violated; `PROJECT.json` quotes the lines.

* `heap_live_objects` — nothing calls `gc_set_root_callback`, so a collection
  marks nothing and frees what is in use; the README promises memory safety by
  precise mark and sweep.

Seen while modelling, and not stated as runs of their own. Each is in the models
as the code has it; where a property would fail because of it, the property
excepts it by name.

*Collector and threads.* The collection that `gc_alloc` starts frees the object it
is about to return, with or without a root callback. Two threads that allocate at
once lose an object from the list, and race on `bytes_allocated`. `cmd_run` frees
the AST when `main` has received the last message, while the worker that sent it is
on its way out of `vm_call_closure`. Two overlapping pushes on an environment lose
one entry; a `set!` may be read torn by another thread. `set!` looks its entry up
before it evaluates the new value: if that defines the name, the store goes to the
entry which the new one hides.

*Reader and imports.* `is_sym_part` asks `strchr` for the 0 at the end of the text
and finds the terminator (`lexer.c:9`), so a text that ends in a symbol is never
read to its end. An import that is met in both passes may, the second time, load a
farther file of the same name or report "module not found" although it was loaded.
A file that a retyped name aborts leaves names without values behind, and its
importer goes on.

*Typechecker and evaluator.* `[def x : Int [+ x 1]]` over an `x` that has a value
reads Unit, since the typechecker pushed a valueless `x` first; a rejected `def`
hides the old value in the same way. A redefinition at another type changes what
earlier closures read, and so does a second binding in one `let`. A `while` has the
value of its body, though `eval.c:580` says that the body returns Unit. An `if` of
more than four items is typed by a branch and evaluates to Unit. The type of a
condition of `if` is not checked. Every prefix of a type's name is that type. `def`
gives its entry the type of the expression, not the declared one. Items of a quoted
list are evaluated. The bindings of a `let` without a body are not. `/` traps on
zero and on the smallest integer by -1, `mod` and `%` on the latter. `str-split-ws`
of a non-string, and `list-tail` or `list-cons` of a non-list, make a NULL that
later readers follow.

*Macros.* A list with `->` or `Chan` in it is taken for a type, so the built-in
macro `->` is never expanded; what stands behind a `:` is not expanded, and so
neither are the bodies of definitions. A macro that produces its own call, and
`[cond]` or `[when]` without arguments, expand for ever. The REPL forgets a
macro with its line.

*Code generator.* The text back end's phi names the labels the branches began with,
though a nested conditional ended the branch elsewhere (the C API back end takes
the right blocks). A binding `[x : T]` with its expression as the next item,
`while`, `set!`, closures and `quote` are compiled to nothing, and values of
globals to temporary 0. A function's own name hides a parameter of that name; a
parameter that is a function is called as a global. `=` on Bool and Str compares
integers. An argument of type Unit is a temporary that does not exist. A whole
float is printed without a point, which LLVM rejects. The C API's `main` returns
the lower half of an integer. Of two definitions of `main` the text has both, the
API takes the first. A remainder by zero is 0 in the interpreter, and has no
result when compiled. `emit-ir` evaluates the program.

## 7. What is not modelled

* **`pow`, `sqrt`, conversions between Int and Float**: properties of floating
  point that halves cannot show. **Files and console input**: plain I/O.
* **Printing of REPL results, option parsing, diagnostics**: layout only.
* **`runtime_llvm.c`** beyond its print and string functions: no generated code
  reaches the rest (vectors, closures, channels).
* **`vec.c` and `str.c`** as such: the interpreter's vectors and texts are modelled
  by what they hold.
* **Weak memory.** `Shared`, `Heap` and `Channel` take the accesses of one thread in
  program order. `Value` is taken as two words, its kind and its payload.
* **Windows halves** of `channel.c` and `thread.c`: the same algorithm on other
  primitives.
* **`rt_channel_free`, `rt_thread_join`**: no caller.
* Failure of `malloc`: the code does not test for it anywhere.

## 8. Plan

Done: `Channel` over `BoundedQueue`, `Spawn`, `Import`, `HashMap` over `Dictionary`,
`Heap`, `Shared`, `Arena` and `Reader`, with proofs of their safety; `Language` with
`Macro` under `Session`, and `Codegen`, model-checked.

Left:

1. A composition of `Spawn` with `Channel`, where the message count becomes a
   refinement.
2. An abstract dictionary of names that `Shared` implements when pushes do not
   overlap, as `Serial` has it for the collector.

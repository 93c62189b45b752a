# A TLA+ model of Aegis Browser Triage

Aegis inspects an untrusted executable inside a browser tab. Static analysis, an
instruction-level emulation of Windows and Linux programs, and YARA run in Wasm, each in
a worker of its own. This directory holds TLA+ modules of the parts whose behaviour
depends on the order of events, TLC configurations that check them on small instances,
and TLAPS proofs of what holds for every size. `PROJECT.json` maps every definition to
the lines it models. Paths below are relative to `src/`.

## 1. The system and its parts

| Part | Source | State it keeps | Operations | What is hard |
|---|---|---|---|---|
| PE32 machine | `crates/analysis-dynamic/src/engine.rs` | registers, threads, pending exception, handlers, logs, counters | dispatch loop, rotation, thread creation and end, exception dispatch and return, API calls | interleaving of guest threads, handlers that change the handler list, guest code that jumps to return sentinels, limits met in the middle of a step |
| PE64 machine | `engine64.rs` | as PE32, with the registers saved at an exception | as PE32 | as PE32 |
| Linux machine | `engine_elf64.rs` | one thread, descriptors, files, `brk`, `mmap_next` | syscalls, imports | partial failures, descriptors that outlive files, stub calls that no budget counts |
| Guest memory | `memory.rs`, `memory64.rs` | regions with permissions and write ranges, bytes mapped | map, unmap, read, fetch, write, set_permissions | overlap, reuse of addresses, merged write ranges, failure half way |
| Synthetic Windows | `windows.rs` | handle table, files, registry, remote memory, kernel objects | allocate, close, file, wait, find and remote operations | handles that outlive what they designate, accounts of bytes, limits |
| Provenance | `provenance.rs` | sources, flows, labelled ranges | source, derive, propagate, clear, observe | splitting and merging of ranges, labels that go stale |
| Artifacts, generations | `artifact.rs`, `generation.rs` | artifacts by digest, the current generation of each region | capture, observe, record_runtime_import | deduplication, limits, parent links |
| Scripted network | `network.rs` | handles, requests, cursors | register, resolve, read, connect, close | redirects, handles of the wrong kind |
| Static analysis | `crates/analysis-core` | none between calls; budgets of the disassembler | analyze | several budgets at once |
| YARA engine | `crates/analysis-yara` | compiled rules | compile, scan | limits |
| Wasm adapters | `crates/*-wasm` | none | conversions | - |
| Clients and workers | `web/src/*Client.ts`, `*.worker.ts` | open promises and timers; the worker's sample, rules or sessions | analyze, read, compile, scan, cancel, close | two processes, timeouts that race answers, termination with messages under way, a suspended handler |
| Page | `web/src/App.tsx` | the file and reports shown | open, analyze, scan, close | results that arrive after the page moved on |

How they interact: the page calls a client; the client creates its worker on demand, posts
messages and keeps a promise and a timer for each call; the worker calls its Wasm module.
A machine owns one instance of memory, synthetic Windows, provenance, artifacts,
generations and network, and calls them synchronously from its dispatch loop: inside a
machine the only concurrency is that of the guest threads it rotates. Results leave the
machine as one report, and artifacts stay in the worker's session until they are read.

What makes each part correct:

* machine: only runnable threads run, with their own registers, in turn; an exception
  visits its handlers in order and at most as many as allowed; every run ends within its
  budgets; the report says so when it is not complete;
* memory: regions never overlap, the limit counts what is mapped, what counts as written
  was written;
* synthetic Windows: limits hold in every sequence of calls, accounts are exact, a closed
  handle stays closed;
* kernel objects: a wait is granted once, the two tables that know an object by its handle
  agree, and what was read of a response is never more than there is of it;
* provenance and lineage: a byte has the labels of what it came from, every entered
  region is in the report with what it held, and a report that lost something says so;
* clients: every promise is settled, once, by the call it belongs to; an answer never
  comes from another analysis than the one the page looks at;
* page: what is shown belongs to the file that is open, and the page never stays busy.

## 2. Modules

| Module | Models | Uses |
|---|---|---|
| `PeMachine` | the loop of `engine.rs`, its scheduler, exception dispatcher and the API calls that touch them | |
| `RoundRobin` | what a scheduler promises: abstract specification | |
| `Pe64Machine` | the same loop in `engine64.rs` | refines `RoundRobin` |
| `LinuxMachine` | the loop of `engine_elf64.rs`, system calls and libc stubs | extends `ScriptedNetwork` |
| `HandleTable` | `VirtualWindows::allocate`, `close` | |
| `VirtualFiles` | file operations of `VirtualWindows` and their API calls | extends `HandleTable` |
| `ScriptedNetwork` | `NetworkRuntime` | |
| `KernelObjects` | the other objects behind handles and the calls on them | extends `HandleTable` and `ScriptedNetwork` |
| `GuestMemory` | `Memory` under the allocation calls and writes | |
| `ByteLabels` | what a report of data flows promises: abstract specification | |
| `Provenance` | `ProvenanceTracker` under the calls that use it | refines `ByteLabels` |
| `Lineage` | artifacts, generations, and the memory they are captured from | |
| `Requests` | what a caller may rely on in a client: abstract specification | |
| `DynamicClient` | `dynamicClient.ts` with `dynamic.worker.ts` | refines `Requests` |
| `StaticClient` | `analysisClient.ts` with `analyzer.worker.ts`, as operators | |
| `YaraClient` | `yaraClient.ts` with `yara.worker.ts`, as operators | |
| `Page` | the handlers of `App.tsx` and the steps of both clients | extends `StaticClient` and `YaraClient` |
| `MC...` | definitions the configurations need | |
| `..._proofs` | theorems about the module of that name; `Storage_proofs` about `VirtualFiles` and `Lineage` | |

### PeMachine

`pc` says where `execute` stands: at the top of its loop, where a rotation may be due, in
the body, or done. `cpu` holds the registers of the running thread: the kind of address in
EIP and the thread whose TEB FS points to. `threads`, `current`, `nextSwitch`, `count`,
`apis`, `events`, `vectored`, `pending`, `exceptions` and `termination` are the fields of
the same purpose; `starts` are the TLS callbacks that have not been started, followed by
the entry point, which is never used up; `truncated` is the report's mark. `seh` stands for the
contents of the TEBs: which threads have a frame at `FS:[0]`. `since` is auxiliary, it
remembers scheduling decisions for `NoOvertaking`.

Guest code is arbitrary: after an instruction EIP holds any address kind in `Targets`, an
instruction may fault, a handler may return any disposition, and a frame chain may go on,
end, or be cyclic. Where the file puts its TLS callbacks and its entry point, the loaders do
not check: they are any kind of address in `Starts`, return sentinels included, and what a
sample gives as a handler or as the start of a thread is any kind in `Fetchable`. What the
emulator itself does is not left open: the search for the next
thread, the order of handlers, what is saved and loaded, the events and when they are
dropped, and each budget. One action stands for one pass of the loop's body, including the
calls it makes: an API call that ends a thread saves, logs, searches for the next thread
and loads its registers in the same step. Left out: the values of registers and memory,
the text of events, timing, and API calls that touch neither threads nor exceptions (they
are `PlainApi`).

### Pe64Machine, RoundRobin

The 64-bit engine has the same structure and differs in what matters here: a return from
the entry point ends only the first thread, exceptions visit vectored handlers alone, a
handler that continues gets the registers back that were saved when it was called, and a
return to the exception sentinel with no exception pending is not noticed. `pending`
carries the saved registers and, as an auxiliary field, whose they are. The logs are left
out, they never change what happens next. `RoundRobin` knows threads, whose turn it is and
whether the run is over; `Pe64Machine` maps `threads` to which of them are alive, so that
a rotation or an end that skips a thread, or runs a dead one, is no step of it.

### LinuxMachine

A pass of `execute` runs an instruction, a system call or a libc stub. An instruction
leaves any kind of address in RIP, any kind in the first argument register and any room on
the stack, which is what `__libc_start_main` and returning stubs look at. Descriptors are
records of path, cursor, writable and socket; files are lengths; mapped memory is kept in
pages, `brk` and the heap in units, with the clamping, the hint and the fixed address of
`mmap`, and failures that leave part of the work done. Sockets live in the network's table
under the number of their descriptor.

### HandleTable, VirtualFiles, KernelObjects, ScriptedNetwork

Handles are numbered from 0 instead of 0x100. `files` maps a path to its length or to
`NoFile`; `total` is `total_file_bytes`. `WriteFile` follows `write_file`: what fits is
computed from the offset and the account, the hole is filled before the previous length is
taken, the pointer moves, the account grows by what was appended. `CreateFile` makes the
file even when no handle is left. `holed` is auxiliary.

`KernelObjects` composes the table of handles with that of the network, which is keyed by
the same numbers. A call that finds the first table full goes on, and enters what it made
under the number that stands for no handle, -1 or -2 here. Handles are closed by calls
that clear both tables and by calls that clear only the first. Waits never block; `spent`
is auxiliary and holds the mutexes and events granted and not given back since. Remote
memory is kept as regions with sizes, its sums saturating at `TopAddress` as those of the
code at `u32::MAX`; `aborted` is the panic of a copy out of bounds. Of a response the
network keeps the URL it came from and how much was read.

### GuestMemory

`regions` maps the first address of a region to its size, permissions, dirty flag and
write ranges; `written` in a region is auxiliary, the bytes that writes stored. `HeapFree`
stands for all the calls that end in `heap_free`, UnmapViewOfFile included, and
`VirtualAlloc` for MapViewOfFile too. `HeapReAlloc` gives the old block up first, as the
code does. The width of addresses is kept: sizes are rounded with saturation and the
heap's position advances modulo 2^32 before it saturates, with `usize` of 32 bits as in
the Wasm build. `map` is an operator of the regions it works on, so that `HeapReAlloc` can
map into what is left after the free.

### Provenance, ByteLabels

`ranges` is the tracker's sorted list. A change cuts the ranges it meets, sorts, joins
neighbours and cuts the list off at its limit; labels are collected until there are
enough. `ByteLabels` has no list: it maps each byte to its labels, and a call changes the
bytes it names to the labels of the bytes it takes from. `call` is auxiliary, it names
these bytes. Buffers may be empty, as that of a WriteFile to a full file or of a hash of
nothing: to label, clear or copy no byte is no step, but an empty buffer is looked up like
any other, and gets the labels of the range it lies inside of. `ByteLabels` states this
without ranges: the labels of the bytes on both sides of it, when these have the same. The mapping looks every address up in the list, and `lost` is `truncated`:
once the report says that it is incomplete, only what was recorded is kept.

### Lineage

Regions have a content (a model value that stands for its own digest), permissions, the
dirty flag and the cells that were written. Entering an executable region captures its
content as an artifact and observes a generation; freeing, mapping again, protecting and
writing change what the next entry sees. Artifacts are shared by content, the limits of
artifacts, bytes, generations and imports can all be reached. `Finish` takes the dirty
regions in the order of their addresses and then any sequence of contents, for the files
and the remote memory. `LineageSpec` and the names like it are so called because one
module proves theorems of `VirtualFiles` and of `Lineage`.

### DynamicClient, Requests

The client's variables are `pending`, `artifactReads` and `timers`, with the outcome of
each promise; the worker's are `worker` (the state of `engineReady`), `waiting` (handlers
suspended at it) and `sessions`. Between them are two queues in order. `FailAndReset`
rejects what is open and terminates the worker, with all it held and every message under
way. `HandleJob` runs up to `await engineReady`; `Resume` is the rest, and since it is a
microtask it precedes the next message. A read is never suspended. `Execute` may fail,
which clears the sessions. `latest`, `batch`, `intact` and `source` are auxiliary: the
analysis the page looks at, whether the worker that was asked for it still is the one there,
and the analysis a read was answered from. A worker that crashes with nothing open rejects
nothing, and the page goes on showing `latest` without a session behind it. Progress messages are left out.

`Requests` is the promise to the page: pending from the call, settled once, and settled.

### StaticClient, YaraClient, Page

The two clients are sets of operators, because what the page does at a call or when a
promise is settled happens in the same task as the client's part of it: an action of
`Page` is a conjunction of both. `opening` says how far `inspectFile` has come for each
file, so that a file may still be read while another is open; `scans` does the same for
the operations on rules, which make two requests each. The worker's `sample` and
`compiled` rules stay when the page has moved on. Dynamic runs are present by the contract
that `DynamicClient` is shown to implement: a run is settled once, in any way. `hexOf` and
`bytesOf` are auxiliary: the report a hex page was asked for, and the file its bytes are of.

## 3. Runs

| Run | Question | Bounds and why they are enough |
|---|---|---|
| `PeMachine` | Do rotation, thread ends, ExitProcess, exceptions and budgets keep scheduler and logs right, and does every emulation end? | three threads (one waits while two compete), quantum 2 in 5 instructions, so that a rotation falls inside, at and after a quantum; two exceptions, two levels of search and a thread log of 4, all of which overflow; a handler that may be registered twice; all address kinds for jumps, and code or the TLS sentinel for callback, entry point, handlers and thread starts: the other kinds do there what they do after a jump |
| `Pe64Machine` | Does the scheduler implement round robin, does a handler keep the CPU, does every emulation end? | three threads, quantum 2, 4 instructions, two exceptions, handler lists of two, a TLS callback, address kinds as in `PeMachine` |
| `LinuxMachine` | Are files, descriptors, sockets and mappings right after any sequence of calls, and does each step bring the end nearer? | files of 2 units, two descriptors beside the standard three, an image page and room for two more in an address space of four, a heap of two units; two counted instructions with any number of stub calls the stack allows |
| `VirtualFiles` | Do limits and accounts hold in every sequence of file calls? | three paths (source, destination, other), two live handles out of three ever given, files of 2 to 3 bytes and a total that fewer than all full files reach |
| `KernelObjects` | Are waits granted once, do both tables agree, are cursors and the account of remote memory right? | two handles, which fill the table, and both numbers for no handle; three URLs in a chain of redirects one longer than the limit; regions at the end of the address space |
| `GuestMemory` | Do regions, limits and write records stay right? | pages of 2, an address space of 12 with image, heap and room between; sizes that fit, collide, pass the limit and wrap; two recorded ranges |
| `Provenance` | Does the list of ranges implement a map of labels? | four bytes, which hold every way two ranges can meet; buffers of none, one and two bytes; three ranges, two sources and one label for each range, so that all limits are met |
| `Lineage` | Is every payload that ran in the report, with the right parent and within the limits? | an image and a heap region of one cell each, three contents of which one is of interest, two artifacts, three units of bytes, three generations |
| `DynamicClient` | Are promises and sessions right, whatever the order? | two analyses (one replaces the other), two reads, two profiles, lists that are valid, name a profile twice, or are too long |
| `Page` | Does the page show what belongs to the open file, and does it never stay busy? | two files (one replaces the other), one hex page, one operation on rules and one dynamic run at a time under way |
| `RemoteWrite`, `PageClosed` | two statements of the documentation that the code breaks, see below | as `KernelObjects` and `Page` |

Deadlock is checked where the system never stops. A machine stops when its run ends, the
files and objects when no handle number is left, and a client or the page when every call
was made and settled; their configurations say so.

Bounds of the models: `MaxInstructions` and `MaxApiEvents` are the code's own;
`HandleSpace` and `MaxFd` bound the numbers ever given out, `MaxExtras` the contents
captured at the end besides the regions, `MaxFound` and `MaxHashed` the
files a search finds and the data a hash takes; the ids in `Jobs`, `Reads`, `Files`,
`HexReads`, `Scans` and `Runs` bound the calls ever made; rules are edited only while
fewer than `MaxQueued` messages wait; files, addresses and requests are as large as the
configuration says.

### What the properties are about

* Scheduling: `CurrentIsRunnable`, `IsolatedTebs`, `NoOvertaking`, `EndedForGood`,
  `HandlerKeepsCpu` and `ImplementsRoundRobin`, over every interleaving of rotation,
  thread ends and exceptions. Termination: `EndsUnlessEntryLoops`,
  `EndsUnlessItLoops` (PE32 has one way not to end, PE64 two; see section 5) and `Advances` (a measure for Linux, where stub calls are
  not counted).
* Logs: `ThreadLogFaithful`, `ExceptionLogBound`, `OpenEventIsPending`, `SearchBudget`.
* Accounts: `NeverOvercounted`, `ExactWithoutHoles`, `Accounted`, `RemoteAccounted`,
  `FilesBounded`, `ArtifactsAccounted`, over sequences in which calls fail half way.
* Identity: `ClosedForGood`, `DescriptorsFinal`, `SocketsMatch`, `RequestsApart`, which
  relate two tables or a handle to its past.
* Memory: `Disjoint`, `RangesInside`, `WritesCovered`, `MappingsApart`.
* Evidence: `ImplementsLabels`, `LineageComplete`, `ChainsLinked`.
* Promises: `OpenCallsTimed`, `SessionsMatchReports`, `ReadsCurrent`,
  `ImplementsRequests`, `DynamicOfOpenFile`, `HexOfReport`, `NeverStuck`.

### Fairness

* `PeMachine`, `Pe64Machine`, `LinuxMachine`: weak fairness of `Next`. The loop of
  `execute` runs until it terminates or its budget is used up; it never waits for anything.
* `DynamicClient`: weak fairness of each call's timeout, and of nothing else. Browser
  timers fire; the worker may hang, its engine may never load, and the page may do
  nothing. `Requests` is met all the same, which is the purpose of the timers.
* `Page`: the browser reads the files and buffers it was asked for, and timers fire. The
  workers may hang, and the user may do nothing.
* All other modules state safety only.

## 4. Proofs

The theorems hold for every value of the constants that satisfies the named assumptions of
the modules: limits are natural numbers, a quantum, a page and a depth are not zero, the
image lies below the heap, no scripted redirect leaves the known URLs, the handles of the
network are the numbers that can be given out with those that stand for none, and the
values for "nothing" are no members of what they stand beside. TLC evaluates them in every run.

* `PeMachine_proofs`. `TypeOK` is inductive and is proved first; a lemma for each group of
  actions (faults and plain steps, API calls, sentinels, handler returns) carries it.
  `IsolatedTebs` and `CurrentIsRunnable` are preserved together with it: a rotation saves
  the registers of the current thread before it loads those of the next, and the next is
  chosen among the runnable. `BudgetKept` rests on the number of iterations a repeated
  string instruction may use. The exception log needs a strengthening, `ExceptionInv`: the
  pending exception's event is the last of the log and the only open one, and at most
  `depth` events were added since the limit was looked at. Without it a returning handler
  could close any event. From it follow `ExceptionLogBound` and `OpenEventIsPending`.
  Three more rest on `TypeOK` and an invariant of their own at most: `EndedForGood`, because
  a step writes no record but the current thread's, which is runnable while a step is made;
  `NoOvertaking`, from `TurnInv`: whoever had a turn since a thread was last served lies
  between that thread and the current one in the circular order; `SearchBudget`, from
  `SearchDepthInv`: the handlers in a row that passed the latest exception on are no more
  than its `depth`, and a search that found no handler has ended the run.
  `ThreadLogFaithful` is stated by positions in the log and is inductive together with
  the types: lemmas say what pushing an event leaves of the fate told of its own thread
  (`TellsFate`) and of every other.
* `Pe64Machine_proofs`. `HandlerKeepsCpu` is not inductive: an exception is raised only by
  a thread that runs, and a rotation is held back only while one is pending. The invariant
  adds both, and that the body of the loop is only reached while the run goes on. With it
  every step is shown to be a step of `RoundRobin` or to leave it alone: `TakesTurns`
  states the refinement as a theorem, one lemma for each kind of step.
* `LinuxMachine_proofs`. `IoInv`: types, `SocketsMatch`, the limits, every descriptor
  designates a file that exists or a socket, and nothing exists under a number that is
  still to be given out. The last two are what a new descriptor needs to be new.
  `FilesBounded`, `SocketsMatch` and `DescriptorsFinal` follow. `Advances` needs only that
  the instructions counted and the room on the stack are natural numbers: what it proves
  is that no call of a stub leaves all parts of its measure as they were. `MappingsApart`
  starts from `LayoutAssumption` (what the loader maps is apart and lies in the address
  space) and is kept because a mapping is only placed where none is; the account is then
  the number of addresses that are mapped. `TypeOK` follows from these invariants.
* `Storage_proofs`, on `VirtualFiles` and `Lineage`. Lemmas about the table
  (`AllocateType`, `CloseType`) and about what a write may do (`WriteBounds`) carry types,
  the limit of a file, of the account and of the table. `ClosedForGood` follows from the
  numbering: live handles lie below `nextHandle`, and a new one is `nextHandle`.
  `NeverOvercounted` and `ExactWithoutHoles` are proved together, from what each call does
  to the set of stored bytes. In `Lineage` the invariant `Good` is stated of any store and
  tracker, because the captures at the end are made one after the other within one step:
  each capture preserves it, and `StepsExist` and `StepsStay`, proved from the
  well-foundedness of the numbers, carry it along the whole sequence. It says that
  `current` is the last generation of each region (without which the parent of the next
  one could be any), that every generation's artifact is in the store, and that what was
  not cut off has its generation. `LineageComplete`, `ChainsLinked` and
  `ArtifactsAccounted` follow.
* `KernelObjects_proofs`. Every call is reduced to what it does to a handle (make, change,
  close, or nothing) together with what it grants, and to what it does to the network's
  table. `GrantInv` adds that only numbers given out were granted, since otherwise a new
  mutex could be born granted. `NetInv` adds that no reading entry stands under a number
  that is still to be given out, since otherwise a new file search could find itself a
  request. `GrantedOnce` and `RequestsApart` follow. `RemoteAccounted`: a write replaces
  the region that begins at its address and adds its own, so the account changes with the
  set of stored bytes; only a region at the last address is not found again and is counted
  twice (`windows.rs:443-455`), which the property allows. `CursorsWithin` looks at a
  cursor together with the response it reads, for a request that is resolved again starts
  over; that a chain of redirects leads to a known URL is `HopsExist`, by induction on its
  length. `TypeOK` is proved from these.
* `GuestMemory_proofs`. The invariant is stated of any set of regions, `RegionsOK(rs)`:
  typed, apart, with ranges inside. `map`, `unmap`, a write and a change of permissions
  each preserve it, so that `HeapReAlloc` is two of them in a row. `Disjoint` and
  `RangesInside` follow, and the limit of memory. `Accounted` follows from `Disjoint`:
  what `map` adds and `unmap` takes away is the region's addresses, which no other has.
  `WritesCovered` is inductive region by region: `RangesTakeUp` says that a write's bytes are in the ranges afterwards, and what
  was in them still is, unless all ranges are used up.
* `DynamicClient_proofs`. Whatever the worker sends, the client keeps `OpenCallsTimed`
  (`Inv` adds the types of the client's maps); no assumption on messages is needed, since
  an answer is dropped unless its call is open. With it every step is a step of `Requests`
  or leaves the promises alone, so that `Spec => R!Safety`. `SessionsMatchReports` and
  `ReadsCurrent` do depend on the worker. `SessionInv` follows an analysis through it: it
  is in the inbox or awaits the engine, once, and then no session is open and no answer to
  it under way; or its answer is under way or has arrived, and every session, and every
  answer to a read, is of the analysis the page looks at and stands behind its report; or
  the worker was terminated since (`intact` is false), and no session is left, although the
  page may show the report still. That the worker of a report is still there is a part of
  `ReadsCurrent`, not an assumption of it.
* `Page_proofs`. `DynamicInv` ties the page's run to the file it was started for, whatever
  became of other runs. `HexOfReport` needs the most: `HexInv` says that the client has at
  most one analysis, which is on its way to the worker, held by it, or answered; that a
  report is shown only when none is under way, and then the worker's sample is that of the
  report or closed; and that hex pages are never pending while an analysis is.

Accounts are stated as the number of elements of a set (the mapped addresses, the stored
bytes of files, regions or artifacts) and not as sums, so that a step's effect on them is
that of a union or a difference of sets; TLC checks them in the same form. A sequence of
steps within one action is a recursive function on an interval of numbers, and no fold, in
the modules theorems are about.

Only model-checked. Liveness (`EndsUnlessEntryLoops`, `EndsUnlessItLoops`, `NeverStuck` and the
fairness part of `Requests`), which the prover cannot do. `ImplementsLabels`: the list of
ranges is computed by folds over a sorted set, about which nothing can be proved in
this form; it would have to be restated by what a cut and a join leave of each byte.

## 5. Where code and documentation disagree

Two runs check a statement of the documentation, and TLC finds a behaviour that breaks it.

| Run | Statement | What the code does |
|---|---|---|
| `RemoteWrite` | `docs/security-model.md:138`: invalid writes become structured termination reasons | `windows.rs:466` compares two sums that saturate: a write past the end of a remote region that ends with the address space passes, and the copy behind it panics, which aborts the engine |
| `PageClosed` | `docs/security-model.md:23-24`: closing terminates the worker and drops its buffer | `App.tsx:146`: a file that is closed while it is being read is still handed to the worker, analysed and kept there |

Found while the models were written and visible in them, without a run of their own:

* `engine.rs:774`: the limit of exception events (`docs/security-model.md:114-115`) is
  looked at when an exception is dispatched, not while the search goes on;
  `ExceptionLogBound` states the bound that holds.
* `engine.rs:552`: the first frame of a chain comes from the first thread's TEB, whoever
  faults (`README.md:79,82-83` says that TEB state is isolated).
* `engine.rs:408`: a thread that ends inside a handler leaves the exception pending, and
  while it is pending nobody is rotated (`README.md:83`).
* `engine.rs:876`: the search counts positions in a list that handlers change, so that one
  removed during the search makes it skip another.
* `windows.rs:291`: the bytes of a hole are stored but not counted
  (`docs/security-model.md:91`); `ExactWithoutHoles` states the account that is right.
* `windows.rs:443-455`: a remote region at the last address is not found when it is written
  again, and its bytes are counted twice; `RemoteAccounted` says so.
* `memory.rs:147`: two writes on either side of the entry point are recorded as one range
  over it (`docs/security-model.md:131-132`); `WritesCovered` states the other direction.
* `engine64.rs:672`: a return to the exception sentinel with nothing pending uses no
  budget and is repeated for ever (`README.md:99`); `EndsUnlessItLoops` states it.
* `loader.rs:45-47`, `loader64.rs:37-39`: the entry point is not checked, and may be the
  address of the TLS sentinel. `execute` then starts it again and again
  (`engine.rs:424-429,1149-1163`, `engine64.rs:828-842,865-870`) without counting anything,
  though TLS callbacks should run "under the same instruction, time, memory, and worker
  limits" (`docs/security-model.md:125`): only the page's timer ends it.
  `EndsUnlessEntryLoops` and `EndsUnlessItLoops` say that this, and the stray return of
  PE64, are the only ways not to end.
* `provenance.rs:114-126,186-198`: a WriteFile, send or hash of no bytes, at an address
  inside a labelled range, is recorded as a flow or with parents, though no byte reached
  anything; `ByteLabels` says exactly when.
* `engine.rs:447,942-976`: a generation is recorded before the first fetch from a region,
  and for any region that was written (`docs/security-model.md:129-131`).

Noticed, and modelled as it is: LoadLibrary enters a session of the network for a module
(`engine.rs:2526`); calls that get no handle enter what they made under the number for
none; FindClose and CryptDestroyHash do not look at the network's table; the name of a
mutex is not looked up, anyone releases it, and a wait never blocks; a response that is
received twice follows as many redirects again; CreateThread leaves its stack mapped when
the TEB cannot be mapped (`engine.rs:674`), and the thread runs when the table is full
(`engine.rs:2468`); labels survive the freeing of memory; a region mapped
where another was freed has that one's last generation as its parent (`generation.rs:51`),
which `ChainsLinked` accepts; a dynamic report stays on the page when an idle worker crashes
(`dynamicClient.ts:86`), and reads of its artifacts fail until the next analysis; the YARA report of one file may
be shown for the next (`App.tsx:159`), and its summary and report may be of different
rules when these are edited meanwhile; "Dismiss" names `closeSample` without calling it
(`App.tsx:490`); cancelling an analysis shows an error; a hex page has no timeout.

## 6. Not modelled

* Instruction semantics, parsing of formats, entropy, strings, comparison, export and
  rendering: functions without a state of their own. The machines leave to guest code
  every result an instruction can have.
* The disassembler, the loaders and the YARA engine: sequential passes over data in
  memory, with budgets that unit tests reach.
* The API calls of PE64 on files, objects and the network repeat those of PE32. The
  regions of CreateThread are not in `GuestMemory`, and the handles it gives out are in
  neither `PeMachine` nor `KernelObjects`.
* In `LinuxMachine` the permissions of regions are left out, which is all that `mprotect`
  and `munmap` change.
* In `Page` the editor of profiles and the comparison of two reports. Its run has one
  operation on rules and one dynamic run: that a file is closed or replaced under them is
  checked, but one operation replaced by another is within the theorems only
  (`DynamicOfOpenFile`, `HexOfReport`), and `NeverStuck` was not checked for it.

## 7. Plan

Done, in the order of importance: the PE32 machine; files and memory; the dynamic client;
kernel objects with the network; the PE64 and Linux machines; provenance and lineage; the
other clients and the page. Left, should the code grow:

1. `GuestMemory` composed with `PeMachine`: stacks and TEBs of threads, whose mapping can
   fail half way.
2. `Provenance` composed with `GuestMemory`: labels on memory that was freed.
3. `ImplementsLabels` as a theorem, with the list of ranges described by its order and
   by what it says of each byte; and the refinement of `RoundRobin` by PE32, which
   implements it as well but for an exception that is left pending.
4. The worklist and budgets of the disassembler.

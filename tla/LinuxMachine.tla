---------------------------- MODULE LinuxMachine ----------------------------
(***************************************************************************)
(* The emulator of Linux programs in                                       *)
(* crates/analysis-dynamic/src/engine_elf64.rs: its loop, the system calls *)
(* and the libc stubs, with the descriptors, files, sockets and memory     *)
(* they change.  The sample is arbitrary: an instruction leaves any kind   *)
(* of address in RIP and in the first argument register, and any stack.    *)
(* What the program counts, checks and hands out is kept; its logs, which  *)
(* never change what happens next, are not.                                *)
(***************************************************************************)
EXTENDS ScriptedNetwork, FiniteSets

CONSTANTS
  MaxInstructions,  \* options.max_instructions
  MaxIo,            \* MAX_IO_BYTES, which also limits a file
  Paths,            \* names of files
  Shipped,          \* of the files there are at the start: their length
  StdPaths,         \* /dev/stdin, /dev/stdout and /dev/stderr
  MaxFd,            \* bound of the model: the last descriptor given out
  Offline,          \* environment.network_mode
  Layout,           \* the regions the loader maps: first page to pages
  MmapBase,         \* LINUX_MMAP_BASE, in pages
  LastPage,         \* MAX_EXACT_GUEST_ADDRESS, in pages
  MaxPages,         \* HARD_MAX_MEMORY_BYTES, in pages
  MaxMapPages,      \* the 16 MiB an mmap is clamped to, in pages
  HeapUnits,        \* LINUX_HEAP_SIZE, in units of 16 bytes
  HeapReserved,     \* what of the heap lies below heap_next at the start
  StackWords,       \* words from initial_rsp to the end of the stack
  Targets,          \* kinds of address the sample jumps to
  NoFile, NoFd

Fds == 0..MaxFd

\* What RIP can hold: executable memory, an import stub, memory that cannot be
\* fetched, or ENTRY_RETURN_SENTINEL.
Locations == {"code", "stub", "bad", "entry_return"}

Terminations == {"none", "exit_process", "instruction_limit", "halted", "memory_fault",
                 "invalid_instruction", "unsupported"}

\* `path` of a socket names no file.
Descriptor == [path : Paths, cursor : Nat, writable : BOOLEAN, socket : BOOLEAN]

ASSUME LinuxAssumption ==
  /\ MaxInstructions \in Nat /\ MaxIo \in Nat
  /\ MaxFd \in Nat /\ MaxFd >= 2 /\ NetHandles = Fds
  /\ DOMAIN Shipped \subseteq Paths /\ \A p \in DOMAIN Shipped : Shipped[p] \in 0..MaxIo
  /\ StdPaths \in [0..2 -> DOMAIN Shipped]
  /\ Offline \in BOOLEAN
  /\ MmapBase \in Nat /\ LastPage \in Nat /\ MaxPages \in Nat /\ MaxMapPages \in Nat \ {0}
  /\ HeapUnits \in Nat /\ HeapReserved \in 0..HeapUnits /\ StackWords \in Nat
  /\ Targets \subseteq Locations
  /\ NoFile \notin Nat /\ NoFd \notin Descriptor

VARIABLES
  rip,            \* kind of address in RIP
  arg,            \* kind of address in RDI
  room,           \* words that can be popped from the stack
  count,          \* instruction_count
  termination,
  files,          \* length of each file
  descriptors,
  nextFd,         \* next_fd
  regions,        \* memory.regions: first page to pages
  allocated,      \* memory.allocated
  mmapNext,       \* mmap_next
  heapNext,       \* heap_next, in units from the start of the heap
  brk             \* brk, likewise

machine == <<rip, arg, room, count, termination>>
io == <<files, descriptors, nextFd, network>>
memory == <<regions, allocated, mmapNext, heapNext, brk>>
vars == <<machine, io, memory>>

TypeOK ==
  /\ rip \in Locations /\ arg \in Locations /\ room \in Nat
  /\ count \in 0..MaxInstructions
  /\ termination \in Terminations
  /\ files \in [Paths -> Nat \cup {NoFile}]
  /\ descriptors \in [Fds -> Descriptor \cup {NoFd}]
  /\ nextFd \in 3..(MaxFd + 1)
  /\ NetworkTypeOK
  /\ DOMAIN regions \subseteq Nat /\ regions \in [DOMAIN regions -> Nat \ {0}]
  /\ allocated \in 0..MaxPages /\ mmapNext \in Nat
  /\ heapNext \in 0..HeapUnits /\ brk \in 0..HeapUnits

End(rs, a) == a + rs[a]
\* The pages that are mapped.
Mapped(rs) == {page \in 0..(LastPage - 1) : \E a \in DOMAIN rs : a <= page /\ page < End(rs, a)}
\* Regions that share no page and end within the address space.
Apart(rs) ==
  /\ \A a, b \in DOMAIN rs : a < b => End(rs, a) <= b
  /\ \A a \in DOMAIN rs : End(rs, a) <= LastPage

\* The loader maps its regions with Memory64::map too, or fails.
ASSUME LayoutAssumption ==
  /\ DOMAIN Layout \subseteq Nat /\ Layout \in [DOMAIN Layout -> Nat \ {0}]
  /\ Apart(Layout) /\ Cardinality(Mapped(Layout)) <= MaxPages

\* load, default_files, default_descriptors
Init ==
  /\ rip = "code" /\ arg \in Targets /\ room = StackWords
  /\ count = 0 /\ termination = "none"
  /\ files = [p \in Paths |-> IF p \in DOMAIN Shipped THEN Shipped[p] ELSE NoFile]
  /\ descriptors = [fd \in Fds |->
       IF fd <= 2 THEN [path |-> StdPaths[fd], cursor |-> 0, writable |-> fd # 0, socket |-> FALSE]
       ELSE NoFd]
  /\ nextFd = 3
  /\ NetworkInit
  /\ regions = Layout /\ allocated = Cardinality(Mapped(Layout))
  /\ mmapNext = MmapBase /\ heapNext = HeapReserved /\ brk = HeapReserved

-----------------------------------------------------------------------------
(* The loop: how an instruction, a system call or a libc stub ends *)

At(location) == termination = "none" /\ count < MaxInstructions /\ rip = location

\* handle_syscall to its end: a system call is an instruction.
SyscallReturns ==
  /\ At("code")
  /\ count' = count + 1
  /\ rip' \in Targets
  /\ UNCHANGED <<arg, room, termination>>

\* handle_import to its end: the call is not counted, but it returns by popping
\* an address, which the stack may not have.
ImportReturns ==
  /\ At("stub")
  /\ \/ /\ room > 0
        /\ room' = room - 1
        /\ rip' \in Targets
        /\ UNCHANGED termination
     \/ /\ termination' = "memory_fault"
        /\ UNCHANGED <<room, rip>>
  /\ UNCHANGED <<arg, count>>

Returns == SyscallReturns \/ ImportReturns

\* stop_for_error: guest memory a call uses cannot be accessed.
Faults ==
  /\ \/ At("code") /\ count' = count + 1
     \/ At("stub") /\ UNCHANGED count
  /\ termination' = "memory_fault"
  /\ UNCHANGED <<rip, arg, room>>

OutOfInstructions ==
  /\ termination = "none" /\ count >= MaxInstructions
  /\ termination' = "instruction_limit"
  /\ UNCHANGED <<rip, arg, room, count, io, memory>>

EntryReturn ==
  /\ At("entry_return")
  /\ termination' = "exit_process"
  /\ UNCHANGED <<rip, arg, room, count, io, memory>>

\* The bytes at RIP cannot be fetched or do not decode; nothing is counted.
FetchFault ==
  /\ \/ At("bad") /\ termination' = "memory_fault"
     \/ At("code") /\ termination' = "invalid_instruction"
  /\ UNCHANGED <<rip, arg, room, count, io, memory>>

\* Any instruction but syscall: it sets registers and flags, jumps, or fails.
Step ==
  /\ At("code") /\ count' = count + 1
  /\ \/ /\ rip' \in Targets /\ arg' \in Targets /\ room' \in 0..StackWords
        /\ UNCHANGED termination
     \/ /\ termination' \in {"halted", "memory_fault", "unsupported"}
        /\ UNCHANGED <<rip, arg, room>>
  /\ UNCHANGED <<io, memory>>

\* RDI left alone.
ArgcNotSet == {arg}
\* What there can be at address 1.
Argc == {"code", "bad"}
\* __libc_start_main: a fresh stack, then main, whose address is in RDI; RDI
\* becomes argc.  The call is not counted either.
LibcStartMain ==
  /\ \/ /\ At("stub")
        /\ room' = StackWords + 1
        /\ rip' = arg
        /\ arg' \in Argc
        /\ UNCHANGED <<count, termination>>
     \/ At("stub") /\ Faults
  /\ UNCHANGED <<io, memory>>

\* exit and exit_group, as a system call or as a stub.
Exit ==
  /\ \/ At("code") /\ count' = count + 1
     \/ At("stub") /\ UNCHANGED count
  /\ termination' = "exit_process"
  /\ UNCHANGED <<rip, arg, room, io, memory>>

\* Calls that answer without changing anything modelled here: process and
\* time, uname, stat, access, readlink, getrandom, string functions, execve and
\* system, which are denied, all that is not modelled by the emulator, and
\* mprotect and munmap, which set the permissions of the region that holds the
\* range, or fail, and unmap nothing.
PlainCall == (Returns \/ Faults) /\ UNCHANGED <<io, memory>>

-----------------------------------------------------------------------------
(* Descriptors and files *)

\* The lowest descriptor that is free, as POSIX has it.
LowestFd == CHOOSE fd \in 0..nextFd :
  /\ fd < nextFd => descriptors[fd] = NoFd
  /\ \A lower \in 0..(fd - 1) : descriptors[lower] # NoFd
FreshFd == nextFd
NewFd(d) ==
  /\ nextFd \in Fds
  /\ descriptors' = [descriptors EXCEPT ![FreshFd] = d]
  /\ nextFd' = nextFd + 1

\* open_path with O_CREAT and O_TRUNC as given.
Open(p, create, truncate, writable) ==
  /\ Returns
  /\ \/ /\ files[p] = NoFile /\ ~create
        /\ UNCHANGED <<files, descriptors, nextFd>>
     \/ /\ files[p] # NoFile \/ create
        /\ files' = [files EXCEPT ![p] =
             IF @ = NoFile \/ (truncate /\ writable) THEN 0 ELSE @]
        /\ NewFd([path |-> p, cursor |-> 0, writable |-> writable, socket |-> FALSE])
  /\ UNCHANGED <<network, memory>>

CloseLeavingSocket(fd) == UNCHANGED network
CloseSocket(fd) == CloseNetwork(fd)

\* close_fd
CloseFd(fd) ==
  /\ Returns
  /\ IF descriptors[fd] = NoFd THEN UNCHANGED <<descriptors, network>>
     ELSE /\ descriptors' = [descriptors EXCEPT ![fd] = NoFd]
          /\ CloseSocket(fd)
  /\ UNCHANGED <<files, nextFd, memory>>

\* What a file gives to a read of n bytes at a cursor that may lie past its
\* end, since another descriptor can have truncated it.
FileDelivered(d, n) ==
  IF d.cursor < files[d.path] THEN Fewest(n, files[d.path] - d.cursor) ELSE 0

\* sys_read: the socket gives its bytes up before they are stored, and the
\* cursor moves after.
Read(fd, n) ==
  /\ LET d == descriptors[fd]
     IN  IF d = NoFd THEN Returns /\ UNCHANGED <<descriptors, network>>
         ELSE /\ IF d.socket THEN RecvSocket(fd, n) ELSE UNCHANGED network
              /\ \/ /\ Returns
                    /\ descriptors' = [descriptors EXCEPT ![fd].cursor =
                         @ + IF d.socket THEN Delivered(fd, n) ELSE FileDelivered(d, n)]
                 \/ Faults /\ UNCHANGED descriptors
  /\ UNCHANGED <<files, nextFd, memory>>

\* The hole before the cursor is filled whether or not the write fits.
Filled(d) == IF d.cursor > files[d.path] THEN d.cursor ELSE files[d.path]
FitsBeforeWrite(d, n) == d.cursor <= MaxIo
Fits(d, n) == d.cursor + n <= MaxIo
WritesToFile(fd) == /\ fd \notin {1, 2}
                    /\ descriptors[fd] # NoFd
                    /\ ~descriptors[fd].socket /\ descriptors[fd].writable

\* sys_write to a file.  Descriptors 1 and 2 are written to even when they are
\* closed; sockets take everything; the others that are not open or not
\* writable give an error.
Write(fd, n) ==
  /\ LET d == descriptors[fd]
     IN  \/ ~WritesToFile(fd) /\ Returns /\ UNCHANGED <<files, descriptors>>
         \/ Faults /\ UNCHANGED <<files, descriptors>>
         \/ /\ WritesToFile(fd) /\ Fits(d, n) /\ Returns
            /\ files' = [files EXCEPT ![d.path] =
                 IF d.cursor + n > Filled(d) THEN d.cursor + n ELSE Filled(d)]
            /\ descriptors' = [descriptors EXCEPT ![fd].cursor = @ + n]
         \/ /\ WritesToFile(fd) /\ ~Fits(d, n)
            /\ Returns
            /\ files' = [files EXCEPT ![d.path] = Filled(d)]
            /\ UNCHANGED descriptors
  /\ UNCHANGED <<nextFd, network, memory>>

-----------------------------------------------------------------------------
(* Sockets *)

\* sys_socket for a stream socket; other kinds are a PlainCall.
OpenSocket ==
  /\ Returns
  /\ NewFd([path |-> StdPaths[0], cursor |-> 0, writable |-> TRUE, socket |-> TRUE])
  /\ RegisterSocket(FreshFd)
  /\ UNCHANGED <<files, memory>>

\* sys_connect with an address that can be read.
Connect(fd, peer) ==
  /\ Returns
  /\ IF descriptors[fd] # NoFd /\ descriptors[fd].socket /\ ~Offline
     THEN ConnectSocket(fd, peer) ELSE UNCHANGED network
  /\ UNCHANGED <<files, descriptors, nextFd, memory>>

-----------------------------------------------------------------------------
(* Memory *)

OverlapsStart(rs, a, n) == \E b \in DOMAIN rs : b <= a /\ a < End(rs, b)
Overlaps(rs, a, n) == \E b \in DOMAIN rs : a < End(rs, b) /\ a + n > b

\* Memory64::map
CanMap(a, n) == /\ allocated + n <= MaxPages
                /\ a + n <= LastPage
                /\ ~Overlaps(regions, a, n)
Map(a, n) ==
  /\ regions' = [b \in DOMAIN regions \cup {a} |-> IF b = a THEN n ELSE regions[b]]
  /\ allocated' = allocated + n

TryMap(a, n) == IF CanMap(a, n) THEN Map(a, n) ELSE UNCHANGED <<regions, allocated>>

\* sys_mmap with MAP_FIXED; it replaces no mapping.
MmapFixed(a, n) ==
  /\ Returns
  /\ TryMap(a, n)
  /\ UNCHANGED <<mmapNext, heapNext, brk, io>>

\* sys_mmap without: mmap_next moves on by the size and a guard page even if
\* the mapping then fails.
MmapAnywhere(n) ==
  /\ Returns
  /\ TryMap(mmapNext, n)
  /\ mmapNext' = mmapNext + n + 1
  /\ UNCHANGED <<heapNext, brk, io>>

\* sys_brk; outside the heap it changes nothing.
Brk(position) ==
  /\ SyscallReturns
  /\ brk' = position
  /\ UNCHANGED <<regions, allocated, mmapNext, heapNext, io>>

HeapFits(n) == heapNext + n <= HeapUnits

\* allocate_heap: malloc, calloc, realloc and __errno_location.
Malloc(n) ==
  /\ ImportReturns
  /\ heapNext' = IF HeapFits(n) THEN heapNext + n ELSE heapNext
  /\ UNCHANGED <<regions, allocated, mmapNext, brk, io>>

-----------------------------------------------------------------------------

FileCalls ==
  \/ \E p \in Paths, create, truncate, writable \in BOOLEAN :
       Open(p, create, truncate, writable)
  \/ \E fd \in Fds : CloseFd(fd)
  \/ \E fd \in Fds, n \in 0..MaxIo : Read(fd, n) \/ Write(fd, n)
SocketCalls == OpenSocket \/ \E fd \in Fds, peer \in Destinations : Connect(fd, peer)
MemoryCalls ==
  \/ \E n \in 1..MaxMapPages :
       MmapAnywhere(n) \/ \E a \in 0..(LastPage - 1) : MmapFixed(a, n)
  \/ \E position \in 0..HeapUnits : Brk(position)
  \/ \E n \in 1..HeapUnits : Malloc(n)
Instructions == EntryReturn \/ FetchFault \/ Step \/ OutOfInstructions

Next == Instructions \/ LibcStartMain \/ Exit \/ PlainCall
        \/ FileCalls \/ SocketCalls \/ MemoryCalls

\* `execute` is a loop that never waits: it goes on as long as it can.
Spec == Init /\ [][Next]_vars /\ WF_vars(Next)

-----------------------------------------------------------------------------
(* Safety *)

\* No file passes the limit of a write, although a write past the end fills the
\* hole before the limit is looked at: the cursors of files stay within it too
\* (sys_write, sys_read, open_path).
FilesBounded ==
  /\ \A p \in Paths : files[p] # NoFile => files[p] <= MaxIo
  /\ \A fd \in Fds : descriptors[fd] # NoFd /\ ~descriptors[fd].socket
                       => descriptors[fd].cursor <= MaxIo

\* The descriptors and the network's own table agree on which are sockets, so
\* that no call finds a socket without a peer or a peer without a socket
\* (sys_socket, close_fd, open_path).
SocketsMatch ==
  \A fd \in Fds :
    (network[fd] # NotOpen) <=> (descriptors[fd] # NoFd /\ descriptors[fd].socket)

\* Whatever is mapped where, regions never overlap, stay in the address space
\* and are all counted, for whichever of them a fixed address collides with
\* (sys_mmap, Memory64::map).
MappingsApart ==
  /\ Apart(regions)
  /\ allocated = Cardinality(Mapped(regions)) /\ allocated <= MaxPages

(* Action properties *)

\* A descriptor that was closed is never given out again, and one that is open
\* never turns into another: what a late read or write reaches is what was
\* opened (open_path, sys_socket, close_fd).
DescriptorsFinal ==
  [][\A fd \in 0..(nextFd - 1) :
       descriptors'[fd] # NoFd =>
         /\ descriptors[fd] # NoFd
         /\ descriptors'[fd].path = descriptors[fd].path
         /\ descriptors'[fd].socket = descriptors[fd].socket]_vars

\* Every step brings the end nearer although calls of stubs are not counted: a
\* stub uses the stack up, and __libc_start_main, which makes a new one, leaves
\* an argument no second call can go on from (execute, handle_import).
Rank(location) == IF location = "stub" THEN 1 ELSE 0
Advances ==
  [][\/ termination' # "none"
     \/ count' > count
     \/ Rank(arg') < Rank(arg)
     \/ Rank(arg') = Rank(arg) /\ Rank(rip') < Rank(rip)
     \/ Rank(arg') = Rank(arg) /\ Rank(rip') = Rank(rip) /\ room' < room]_vars

=============================================================================

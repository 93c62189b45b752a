---------------------------- MODULE VirtualFiles ----------------------------
(***************************************************************************)
(* The synthetic file system of the PE emulators: the file operations of   *)
(* VirtualWindows (crates/analysis-dynamic/src/windows.rs) as the API      *)
(* calls of engine.rs use them.  Of a file only its length is kept, which  *)
(* is what its limits and their accounting depend on.                      *)
(***************************************************************************)
EXTENDS HandleTable

CONSTANTS
  Paths,          \* file names
  MaxFileBytes,   \* MAX_FILE_BYTES
  MaxTotalBytes,  \* MAX_TOTAL_FILE_BYTES
  MaxRequest,     \* the 65,536 bytes one ReadFile or WriteFile moves
  NoFile          \* no file has the name

ASSUME FileAssumption ==
  /\ MaxFileBytes \in Nat /\ MaxTotalBytes \in Nat /\ MaxRequest \in Nat
  /\ MaxFileBytes <= MaxTotalBytes
  /\ NoFile \notin Nat

VARIABLES
  files,          \* the length of each file
  total,          \* total_file_bytes
  holed           \* auxiliary: some write started past the end of its file

vars == <<handles, nextHandle, files, total, holed>>

FileHandle == [path : Paths, offset : 0..MaxFileBytes]

TypeOK ==
  /\ HandlesTypeOK(FileHandle)
  /\ files \in [Paths -> 0..MaxFileBytes \cup {NoFile}]
  /\ total \in Nat
  /\ holed \in BOOLEAN

Init ==
  /\ HandlesInit
  /\ files = [p \in Paths |-> NoFile]
  /\ total = 0
  /\ holed = FALSE

-----------------------------------------------------------------------------
(* Helpers *)

Least(a, b) == IF a <= b THEN a ELSE b
Most(a, b) == IF a >= b THEN a ELSE b

\* saturating_sub
Minus(a, b) == IF a >= b THEN a - b ELSE 0

\* The length a file that may not exist is taken to have.
Length(p) == IF files[p] = NoFile THEN 0 ELSE files[p]

-----------------------------------------------------------------------------
(* CreateFile, CloseHandle *)

\* open_file: the file is there from now on, even if no handle is left for it.
CreateFile(p) ==
  /\ files' = [files EXCEPT ![p] = Length(p)]
  /\ Allocate([path |-> p, offset |-> 0]) \/ AllocateFails
  /\ UNCHANGED <<total, holed>>

CloseHandle(h) == Close(h) /\ UNCHANGED <<files, total, holed>>

-----------------------------------------------------------------------------
(* ReadFile, WriteFile, SetFilePointer *)

\* How much of a write at offset fits: into the file and into all files.
Fits(offset, requested) ==
  Least(Least(requested, Minus(MaxFileBytes, offset)), Minus(MaxTotalBytes, total))

\* What a write adds to the account; the hole up to its offset was made before.
GrowthRequested(before, offset, length) == length
Growth(before, offset, length) == Minus(offset + length, Most(before, offset))

\* write_file recreates a file that was deleted under the handle, fills the
\* hole up to the offset, writes what fits and counts what it appended.
WriteFile(h, requested) ==
  LET r == handles[h]
      before == Length(r.path)
      length == Fits(r.offset, requested)
  IN  /\ files' = [files EXCEPT ![r.path] = Most(before, r.offset + length)]
      /\ total' = total + Growth(before, r.offset, length)
      /\ Update(h, [r EXCEPT !.offset = r.offset + length])
      /\ holed' = (holed \/ r.offset > before)

\* read_file leaves the pointer at the end of what it read: at the end of the
\* file, if the pointer was past it.
ReadFile(h, requested) ==
  LET r == handles[h]
  IN  /\ IF files[r.path] = NoFile
         THEN UNCHANGED handleVars
         ELSE Update(h, [r EXCEPT !.offset = Least(r.offset + requested, files[r.path])])
      /\ UNCHANGED <<files, total, holed>>

\* set_file_offset, from the start, the pointer or the end.
Pointer(next) == Least(Most(next, 0), MaxFileBytes)

SetFilePointer(h, distance) ==
  LET r == handles[h]
  IN  /\ \E base \in {0, r.offset, Length(r.path)} :
           Update(h, [r EXCEPT !.offset = Pointer(base + distance)])
      /\ UNCHANGED <<files, total, holed>>

-----------------------------------------------------------------------------
(* DeleteFile, CopyFile, MoveFile; handles stay open *)

DeleteUncounted(p) == total
AfterDelete(p) == Minus(total, files[p])

DeleteFile(p) ==
  /\ files[p] # NoFile
  /\ files' = [files EXCEPT ![p] = NoFile]
  /\ total' = AfterDelete(p)
  /\ UNCHANGED <<handles, nextHandle, holed>>

CopyFile(source, destination) ==
  /\ files[source] # NoFile
  /\ total + Minus(files[source], Length(destination)) <= MaxTotalBytes
  /\ files' = [files EXCEPT ![destination] = files[source]]
  /\ total' = Minus(total, Length(destination)) + files[source]
  /\ UNCHANGED <<handles, nextHandle, holed>>

\* The file a move replaces is no longer counted.  With one name for both, the
\* file is taken away before it is put back and nothing is replaced.
Replaced(source, destination) == IF source = destination THEN 0 ELSE Length(destination)

MoveFile(source, destination) ==
  /\ files[source] # NoFile
  /\ files' = [p \in Paths |-> IF p = destination THEN files[source]
                               ELSE IF p = source THEN NoFile ELSE files[p]]
  /\ total' = Minus(total, Replaced(source, destination))
  /\ handles' = [h \in DOMAIN handles |->
                   IF handles[h].path = source
                   THEN [handles[h] EXCEPT !.path = destination] ELSE handles[h]]
  /\ UNCHANGED <<nextHandle, holed>>

Next ==
  \/ \E p \in Paths : CreateFile(p) \/ DeleteFile(p)
  \/ \E p, q \in Paths : CopyFile(p, q) \/ MoveFile(p, q)
  \/ \E h \in DOMAIN handles :
       \/ CloseHandle(h)
       \/ \E n \in 0..MaxRequest : WriteFile(h, n) \/ ReadFile(h, n)
       \/ \E d \in (-MaxFileBytes)..MaxFileBytes : SetFilePointer(h, d)

Spec == Init /\ [][Next]_vars

-----------------------------------------------------------------------------
(* Properties *)

\* The bytes all files hold, each known by its file and its place in it.
StoredBytes == {b \in Paths \X (1..MaxFileBytes) : b[2] <= Length(b[1])}
Stored == Cardinality(StoredBytes)

\* No file grows past its limit, whichever handles, holes, moves and copies
\* made it (docs/security-model.md, "1 MiB per virtual file").
FileLimit == \A p \in Paths : Length(p) <= MaxFileBytes

\* What is counted never passes the limit, so that the room a write computes
\* is exact and not cut off at zero.
CountedLimit == total <= MaxTotalBytes

\* The account never says that more is stored than is: a write is not refused
\* for bytes that a delete, move or copy has given back.
NeverOvercounted == total <= Stored

\* As long as no write started past the end of its file, the account is exact
\* through every sequence of writes, copies, moves and deletes.
ExactWithoutHoles == ~holed => total = Stored

=============================================================================

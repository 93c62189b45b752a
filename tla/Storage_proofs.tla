--------------------------- MODULE Storage_proofs ---------------------------
(***************************************************************************)
(* What holds of the two stores of a run for every value of their          *)
(* constants.  VirtualFiles: types, the limits of a file, of what is       *)
(* counted and of the handle table, that the account agrees with the       *)
(* files, and that a closed handle stays invalid.  Lineage: the artifacts, *)
(* their account, and that no payload that mattered lacks its generation.  *)
(***************************************************************************)
EXTENDS VirtualFiles, Lineage, FiniteSetTheorems, WellFoundedInduction, TLAPS

-----------------------------------------------------------------------------
(* The handle table *)

LEMMA AllocateType ==
  ASSUME NEW R, HandlesTypeOK(R), NEW r \in R, Allocate(r)
  PROVE  HandlesTypeOK(R)'
  <1>1. nextHandle \in 0..HandleSpace /\ nextHandle + 1 \in 0..HandleSpace
    BY HandleAssumption DEF HandlesTypeOK, Allocate
  <1>2. DOMAIN handles' = DOMAIN handles \cup {nextHandle}
    BY DEF Allocate, NewHandle
  <1>3. DOMAIN handles' \subseteq 0..(nextHandle' - 1)
    BY <1>1, <1>2 DEF HandlesTypeOK, Allocate
  <1>4. handles' \in [DOMAIN handles' -> R]
    BY DEF HandlesTypeOK, Allocate, NewHandle
  <1> QED  BY <1>1, <1>3, <1>4 DEF HandlesTypeOK, Allocate

LEMMA CloseType ==
  ASSUME NEW R, HandlesTypeOK(R), NEW h, Close(h)
  PROVE  HandlesTypeOK(R)'
  BY DEF HandlesTypeOK, Close

LEMMA UpdateType ==
  ASSUME NEW R, HandlesTypeOK(R), NEW h \in DOMAIN handles, NEW r \in R, Update(h, r)
  PROVE  HandlesTypeOK(R)'
  BY DEF HandlesTypeOK, Update

\* The live handles are a finite set.
LEMMA HandlesFinite ==
  ASSUME NEW R, HandlesTypeOK(R)
  PROVE  IsFiniteSet(DOMAIN handles)
  <1>1. IsFiniteSet(0..(nextHandle - 1))
    <2>1. nextHandle - 1 \in Int
      BY HandleAssumption DEF HandlesTypeOK
    <2> QED  BY <2>1, FS_Interval
  <1> QED  BY <1>1, FS_Subset DEF HandlesTypeOK

-----------------------------------------------------------------------------
(* Types *)

\* A write leaves the pointer and the file within the limit of a file.
LEMMA WriteBounds ==
  ASSUME TypeOK, NEW h \in DOMAIN handles, NEW n \in 0..MaxRequest
  PROVE  LET r == handles[h]
             length == Fits(r.offset, n)
         IN  /\ r \in FileHandle
             /\ length \in Nat /\ length <= Minus(MaxTotalBytes, total)
             /\ r.offset + length \in 0..MaxFileBytes
             /\ Length(r.path) \in 0..MaxFileBytes
  <1> DEFINE r == handles[h]
             length == Fits(r.offset, n)
  <1>1. r \in FileHandle
    BY DEF TypeOK, HandlesTypeOK
  <1>2. r.offset \in 0..MaxFileBytes /\ r.path \in Paths
    BY <1>1 DEF FileHandle
  <1>3. Length(r.path) \in 0..MaxFileBytes
    BY <1>2, FileAssumption DEF TypeOK, Length
  <1>4. /\ length \in Nat /\ length <= Minus(MaxTotalBytes, total)
        /\ r.offset + length \in 0..MaxFileBytes
    BY <1>2, FileAssumption DEF TypeOK, Fits, Least, Minus
  <1> QED  BY <1>1, <1>3, <1>4

\* TypeOK: the pointer of every handle and the length of every file stay
\* within MAX_FILE_BYTES, the account stays a natural number, and no handle
\* number is live that was not given out (VirtualWindows).
THEOREM TypeCorrect == Spec => []TypeOK
  <1>1. Init => TypeOK
    <2> SUFFICES ASSUME Init PROVE TypeOK
      OBVIOUS
    <2>1. DOMAIN handles = {} /\ handles \in [DOMAIN handles -> FileHandle]
      BY DEF Init, HandlesInit
    <2>2. HandlesTypeOK(FileHandle)
      BY <2>1, HandleAssumption DEF Init, HandlesInit, HandlesTypeOK
    <2> QED  BY <2>2, FileAssumption DEF Init, TypeOK
  <1>2. TypeOK /\ [Next]_vars => TypeOK'
    <2> SUFFICES ASSUME TypeOK, [Next]_vars PROVE TypeOK'
      OBVIOUS
    <2> USE FileAssumption
    <2>1. ASSUME NEW p \in Paths, CreateFile(p) PROVE TypeOK'
      <3>1. HandlesTypeOK(FileHandle)'
        <4>1. [path |-> p, offset |-> 0] \in FileHandle
          BY DEF FileHandle
        <4>2. CASE Allocate([path |-> p, offset |-> 0])
          BY <4>1, <4>2, AllocateType DEF TypeOK
        <4>3. CASE AllocateFails
          BY <4>3 DEF TypeOK, HandlesTypeOK, AllocateFails, handleVars
        <4> QED  BY <2>1, <4>2, <4>3 DEF CreateFile
      <3>2. files' \in [Paths -> 0..MaxFileBytes \cup {NoFile}]
        BY <2>1 DEF TypeOK, CreateFile, Length
      <3> QED  BY <2>1, <3>1, <3>2 DEF TypeOK, CreateFile
    <2>2. ASSUME NEW p \in Paths, DeleteFile(p) PROVE TypeOK'
      <3>1. total' \in Nat
        BY <2>2 DEF TypeOK, DeleteFile, AfterDelete, Minus
      <3> QED  BY <2>2, <3>1 DEF TypeOK, HandlesTypeOK, DeleteFile
    <2>3. ASSUME NEW p \in Paths, NEW q \in Paths, CopyFile(p, q) PROVE TypeOK'
      <3>1. total' \in Nat
        BY <2>3 DEF TypeOK, CopyFile, Minus, Length
      <3> QED  BY <2>3, <3>1 DEF TypeOK, HandlesTypeOK, CopyFile
    <2>4. ASSUME NEW p \in Paths, NEW q \in Paths, MoveFile(p, q) PROVE TypeOK'
      <3>1. total' \in Nat
        BY <2>4 DEF TypeOK, MoveFile, Replaced, Minus, Length
      <3>2. files' \in [Paths -> 0..MaxFileBytes \cup {NoFile}]
        BY <2>4 DEF TypeOK, MoveFile
      <3>3. HandlesTypeOK(FileHandle)'
        <4>1. handles \in [DOMAIN handles -> FileHandle]
          BY DEF TypeOK, HandlesTypeOK
        <4>2. \A h \in DOMAIN handles :
                /\ handles[h] \in FileHandle
                /\ [handles[h] EXCEPT !.path = q] \in FileHandle
          BY <4>1, <2>4 DEF FileHandle
        <4>3. handles' \in [DOMAIN handles -> FileHandle] /\ DOMAIN handles' = DOMAIN handles
          BY <2>4, <4>2 DEF MoveFile
        <4> QED  BY <2>4, <4>3 DEF TypeOK, HandlesTypeOK, MoveFile
      <3> QED  BY <2>4, <3>1, <3>2, <3>3 DEF TypeOK, MoveFile
    <2>5. ASSUME NEW h \in DOMAIN handles, CloseHandle(h) PROVE TypeOK'
      BY <2>5, CloseType DEF TypeOK, CloseHandle
    <2>6. ASSUME NEW h \in DOMAIN handles, NEW n \in 0..MaxRequest, WriteFile(h, n)
          PROVE TypeOK'
      <3> DEFINE r == handles[h]
                 length == Fits(r.offset, n)
                 next == [r EXCEPT !.offset = r.offset + length]
      <3>1. /\ r \in FileHandle /\ length \in Nat
            /\ r.offset + length \in 0..MaxFileBytes /\ Length(r.path) \in 0..MaxFileBytes
        BY WriteBounds
      <3>2. next \in FileHandle /\ r.path \in Paths /\ r.offset \in 0..MaxFileBytes
        BY <3>1 DEF FileHandle
      <3>3. HandlesTypeOK(FileHandle)'
        BY <2>6, <3>2, UpdateType DEF TypeOK, WriteFile
      <3>4. files' \in [Paths -> 0..MaxFileBytes \cup {NoFile}]
        <4>1. Most(Length(r.path), r.offset + length) \in 0..MaxFileBytes
          BY <3>1 DEF Most
        <4> QED  BY <2>6, <3>2, <4>1 DEF TypeOK, WriteFile
      <3>5. total' \in Nat
        <4>1. Growth(Length(r.path), r.offset, length) \in Nat
          BY <3>1, <3>2 DEF Growth, Minus, Most
        <4> QED  BY <2>6, <4>1 DEF TypeOK, WriteFile
      <3>6. holed' \in BOOLEAN
        BY <2>6, Zenon DEF TypeOK, WriteFile
      <3> QED  BY <3>3, <3>4, <3>5, <3>6 DEF TypeOK
    <2>7. ASSUME NEW h \in DOMAIN handles, NEW n \in 0..MaxRequest, ReadFile(h, n)
          PROVE TypeOK'
      <3> DEFINE r == handles[h]
                 next == [r EXCEPT !.offset = Least(r.offset + n, files[r.path])]
      <3>1. r \in FileHandle
        BY DEF TypeOK, HandlesTypeOK
      <3>2. CASE files[r.path] = NoFile
        BY <2>7, <3>2 DEF TypeOK, HandlesTypeOK, ReadFile, handleVars
      <3>3. CASE files[r.path] # NoFile
        <4>1. files[r.path] \in 0..MaxFileBytes /\ r.offset + n \in Nat
          BY <3>1, <3>3 DEF TypeOK, FileHandle
        <4>2. next \in FileHandle
          <5>1. Least(r.offset + n, files[r.path]) \in 0..MaxFileBytes
            BY <4>1 DEF Least
          <5> QED  BY <3>1, <5>1 DEF FileHandle
        <4> QED  BY <2>7, <3>3, <4>2, UpdateType DEF TypeOK, ReadFile
      <3> QED  BY <3>2, <3>3
    <2>8. ASSUME NEW h \in DOMAIN handles, NEW d \in (-MaxFileBytes)..MaxFileBytes,
                 SetFilePointer(h, d)
          PROVE TypeOK'
      <3> DEFINE r == handles[h]
      <3>1. r \in FileHandle
        BY DEF TypeOK, HandlesTypeOK
      <3>2. PICK base \in {0, r.offset, Length(r.path)} :
              Update(h, [r EXCEPT !.offset = Pointer(base + d)])
        BY <2>8 DEF SetFilePointer
      <3>3. base + d \in Int
        BY <3>1 DEF FileHandle, TypeOK, Length
      <3>4. Pointer(base + d) \in 0..MaxFileBytes
        BY <3>3 DEF Pointer, Least, Most
      <3>5. [r EXCEPT !.offset = Pointer(base + d)] \in FileHandle
        BY <3>1, <3>4 DEF FileHandle
      <3> QED  BY <2>8, <3>2, <3>5, UpdateType DEF TypeOK, SetFilePointer
    <2>9. CASE UNCHANGED vars
      BY <2>9 DEF TypeOK, HandlesTypeOK, vars
    <2> QED  BY <2>1, <2>2, <2>3, <2>4, <2>5, <2>6, <2>7, <2>8, <2>9 DEF Next
  <1> QED  BY <1>1, <1>2, PTL DEF Spec

\* FileLimit: no file ever passes MAX_FILE_BYTES (write_file, set_file_offset).
THEOREM FilesBounded == Spec => []FileLimit
  <1>1. TypeOK => FileLimit
    BY FileAssumption DEF TypeOK, FileLimit, Length
  <1> QED  BY <1>1, TypeCorrect, PTL

-----------------------------------------------------------------------------
(* The account *)

\* CountedLimit: total_file_bytes never passes MAX_TOTAL_FILE_BYTES, so that
\* the room write_file and copy_file compute from it is never cut off at zero.
THEOREM CountBounded == Spec => []CountedLimit
  <1>1. Init => CountedLimit
    BY FileAssumption DEF Init, CountedLimit
  <1>2. TypeOK /\ CountedLimit /\ [Next]_vars => CountedLimit'
    <2> SUFFICES ASSUME TypeOK, CountedLimit, [Next]_vars PROVE CountedLimit'
      OBVIOUS
    <2> USE FileAssumption DEF CountedLimit
    <2>1. ASSUME NEW p \in Paths, CreateFile(p) PROVE CountedLimit'
      BY <2>1 DEF CreateFile
    <2>2. ASSUME NEW p \in Paths, DeleteFile(p) PROVE CountedLimit'
      BY <2>2 DEF TypeOK, DeleteFile, AfterDelete, Minus
    <2>3. ASSUME NEW p \in Paths, NEW q \in Paths, CopyFile(p, q) PROVE CountedLimit'
      <3>1. files[p] \in 0..MaxFileBytes /\ Length(q) \in 0..MaxFileBytes /\ total \in Nat
        BY <2>3 DEF TypeOK, CopyFile, Length
      <3> QED  BY <2>3, <3>1 DEF CopyFile, Minus
    <2>4. ASSUME NEW p \in Paths, NEW q \in Paths, MoveFile(p, q) PROVE CountedLimit'
      BY <2>4 DEF TypeOK, MoveFile, Replaced, Minus, Length
    <2>5. ASSUME NEW h \in DOMAIN handles, CloseHandle(h) PROVE CountedLimit'
      BY <2>5 DEF CloseHandle
    <2>6. ASSUME NEW h \in DOMAIN handles, NEW n \in 0..MaxRequest, WriteFile(h, n)
          PROVE CountedLimit'
      <3> DEFINE r == handles[h]
                 length == Fits(r.offset, n)
      <3>1. /\ r \in FileHandle /\ length \in Nat /\ length <= Minus(MaxTotalBytes, total)
            /\ Length(r.path) \in 0..MaxFileBytes
        BY WriteBounds
      <3>2. r.offset \in Nat
        BY <3>1 DEF FileHandle
      <3> HIDE DEF length
      <3>3. Growth(Length(r.path), r.offset, length) <= length
        BY <3>1, <3>2 DEF Growth, Minus, Most
      <3>4. Growth(Length(r.path), r.offset, length) \in Nat
        BY <3>1, <3>2 DEF Growth, Minus, Most
      <3>5. total' = total + Growth(Length(r.path), r.offset, length)
        BY <2>6 DEF WriteFile, length
      <3> QED  BY <3>1, <3>3, <3>4, <3>5 DEF TypeOK, Minus
    <2>7. ASSUME NEW h \in DOMAIN handles, NEW n \in 0..MaxRequest, ReadFile(h, n)
          PROVE CountedLimit'
      BY <2>7 DEF ReadFile
    <2>8. ASSUME NEW h \in DOMAIN handles, NEW d \in (-MaxFileBytes)..MaxFileBytes,
                 SetFilePointer(h, d)
          PROVE CountedLimit'
      BY <2>8 DEF SetFilePointer
    <2>9. CASE UNCHANGED vars
      BY <2>9 DEF vars
    <2> QED  BY <2>1, <2>2, <2>3, <2>4, <2>5, <2>6, <2>7, <2>8, <2>9 DEF Next
  <1> QED  BY <1>1, <1>2, TypeCorrect, PTL DEF Spec

-----------------------------------------------------------------------------
(* The handle table under every file operation *)

\* What a step does to the set of live handles: it gives out the next one,
\* takes some away, or leaves them alone.
LEMMA LiveHandles ==
  ASSUME TypeOK, [Next]_vars
  PROVE  \/ /\ HandleLeft
            /\ DOMAIN handles' = DOMAIN handles \cup {nextHandle}
            /\ nextHandle' = nextHandle + 1
         \/ /\ \E h \in DOMAIN handles : DOMAIN handles' = DOMAIN handles \ {h}
            /\ nextHandle' = nextHandle
         \/ /\ DOMAIN handles' = DOMAIN handles
            /\ nextHandle' = nextHandle
  <1>1. ASSUME NEW p \in Paths, CreateFile(p) \/ DeleteFile(p)
        PROVE \/ /\ HandleLeft
                 /\ DOMAIN handles' = DOMAIN handles \cup {nextHandle}
                 /\ nextHandle' = nextHandle + 1
              \/ DOMAIN handles' = DOMAIN handles /\ nextHandle' = nextHandle
    BY <1>1 DEF CreateFile, DeleteFile, Allocate, AllocateFails, handleVars, NewHandle
  <1>2. ASSUME NEW p \in Paths, NEW q \in Paths, CopyFile(p, q) \/ MoveFile(p, q)
        PROVE DOMAIN handles' = DOMAIN handles /\ nextHandle' = nextHandle
    BY <1>2 DEF CopyFile, MoveFile
  <1>3. ASSUME NEW h \in DOMAIN handles, CloseHandle(h)
        PROVE /\ \E k \in DOMAIN handles : DOMAIN handles' = DOMAIN handles \ {k}
              /\ nextHandle' = nextHandle
    BY <1>3 DEF CloseHandle, Close
  <1>4. ASSUME NEW h \in DOMAIN handles, NEW n \in 0..MaxRequest,
               WriteFile(h, n) \/ ReadFile(h, n)
        PROVE DOMAIN handles' = DOMAIN handles /\ nextHandle' = nextHandle
    BY <1>4 DEF WriteFile, ReadFile, Update, handleVars
  <1>5. ASSUME NEW h \in DOMAIN handles, NEW d \in (-MaxFileBytes)..MaxFileBytes,
               SetFilePointer(h, d)
        PROVE DOMAIN handles' = DOMAIN handles /\ nextHandle' = nextHandle
    BY <1>5 DEF SetFilePointer, Update
  <1>6. CASE UNCHANGED vars
    BY <1>6 DEF vars
  <1> QED  BY <1>1, <1>2, <1>3, <1>4, <1>5, <1>6 DEF Next

\* HandleLimit: never more than MAX_HANDLES live handles (allocate).
THEOREM HandlesBounded == Spec => []HandleLimit
  <1>1. Init => HandleLimit
    BY HandleAssumption, FS_EmptySet DEF Init, HandlesInit, HandleLimit
  <1>2. TypeOK /\ HandleLimit /\ [Next]_vars => HandleLimit'
    <2> SUFFICES ASSUME TypeOK, HandleLimit, [Next]_vars PROVE HandleLimit'
      OBVIOUS
    <2>1. IsFiniteSet(DOMAIN handles)
      BY HandlesFinite DEF TypeOK
    <2>2. Cardinality(DOMAIN handles) \in Nat
      BY <2>1, FS_CardinalityType
    <2>3. CASE HandleLeft /\ DOMAIN handles' = DOMAIN handles \cup {nextHandle}
      <3>1. \/ Cardinality(DOMAIN handles') = Cardinality(DOMAIN handles)
            \/ Cardinality(DOMAIN handles') = Cardinality(DOMAIN handles) + 1
        BY <2>1, <2>3, FS_AddElement, Zenon
      <3>2. Cardinality(DOMAIN handles') \in Nat
        BY <2>1, <2>3, FS_AddElement, FS_CardinalityType
      <3> QED  BY <2>2, <2>3, <3>1, <3>2, HandleAssumption DEF HandleLeft, HandleLimit
    <2>4. ASSUME NEW h \in DOMAIN handles, DOMAIN handles' = DOMAIN handles \ {h}
          PROVE HandleLimit'
      <3>1. Cardinality(DOMAIN handles') = Cardinality(DOMAIN handles) - 1
        BY <2>1, <2>4, FS_RemoveElement, Zenon
      <3> QED  BY <2>2, <3>1, HandleAssumption DEF HandleLimit
    <2>5. CASE DOMAIN handles' = DOMAIN handles
      BY <2>5 DEF HandleLimit
    <2> QED  BY <2>3, <2>4, <2>5, LiveHandles
  <1> QED  BY <1>1, <1>2, TypeCorrect, PTL DEF Spec

\* ClosedForGood: a number that was given out and closed is never given out
\* again (allocate counts next_handle up and never back).
THEOREM ClosedStaysClosed == Spec => ClosedForGood
  <1>1. TypeOK /\ [Next]_vars =>
          [\A h \in 0..(nextHandle - 1) :
             h \notin DOMAIN handles => h \notin DOMAIN handles']_handleVars
    <2> SUFFICES ASSUME TypeOK, [Next]_vars, NEW h \in 0..(nextHandle - 1),
                        h \notin DOMAIN handles
                 PROVE  h \notin DOMAIN handles'
      OBVIOUS
    <2>1. nextHandle \in Nat /\ h # nextHandle
      BY HandleAssumption DEF TypeOK, HandlesTypeOK
    <2>2. CASE DOMAIN handles' = DOMAIN handles \cup {nextHandle}
      BY <2>1, <2>2
    <2>3. CASE DOMAIN handles' = DOMAIN handles
      BY <2>3
    <2>4. CASE \E k \in DOMAIN handles : DOMAIN handles' = DOMAIN handles \ {k}
      BY <2>4
    <2> QED  BY <2>2, <2>3, <2>4, LiveHandles
  <1> QED  BY <1>1, TypeCorrect, PTL DEF Spec, ClosedForGood

-----------------------------------------------------------------------------
(* What is counted and what is stored *)

Bytes(p, n) == {p} \X (1..n)

LEMMA BytesCount ==
  ASSUME NEW p, NEW n \in Nat
  PROVE  IsFiniteSet(Bytes(p, n)) /\ Cardinality(Bytes(p, n)) = n
  <1>1. IsFiniteSet({p}) /\ Cardinality({p}) = 1
    BY FS_Singleton
  <1>2. IsFiniteSet(1..n) /\ Cardinality(1..n) = n
    BY FS_Interval
  <1>3. IsFiniteSet(Bytes(p, n)) /\ Cardinality(Bytes(p, n)) = 1 * n
    BY <1>1, <1>2, FS_Product DEF Bytes
  <1> QED  BY <1>3

\* A file of m bytes among others becomes one of n bytes.
LEMMA BytesResized ==
  ASSUME NEW S, IsFiniteSet(S), NEW p, NEW m \in Nat, NEW n \in Nat,
         Bytes(p, m) \subseteq S, (S \ Bytes(p, m)) \cap Bytes(p, n) = {},
         NEW T, T = (S \ Bytes(p, m)) \cup Bytes(p, n)
  PROVE  IsFiniteSet(T) /\ Cardinality(T) = Cardinality(S) - m + n
  <1> DEFINE R == S \ Bytes(p, m)
  <1>1. S \cap Bytes(p, m) = Bytes(p, m)
    OBVIOUS
  <1>2. IsFiniteSet(R) /\ Cardinality(R) = Cardinality(S) - m
    <2>1. Cardinality(Bytes(p, m)) = m
      BY BytesCount
    <2>2. IsFiniteSet(R) /\ Cardinality(R) = Cardinality(S) - Cardinality(S \cap Bytes(p, m))
      BY FS_Difference
    <2> QED  BY <1>1, <2>1, <2>2
  <1>3. Cardinality(R \cap Bytes(p, n)) = 0
    BY FS_EmptySet
  <1> HIDE DEF R
  <1>4. /\ IsFiniteSet(R \cup Bytes(p, n))
        /\ Cardinality(R \cup Bytes(p, n)) = Cardinality(R) + n - 0
    BY <1>2, <1>3, BytesCount, FS_Union
  <1>5. Cardinality(R) \in Nat /\ Cardinality(S) \in Nat
    BY <1>2, FS_CardinalityType
  <1> QED  BY <1>2, <1>4, <1>5 DEF R

\* A file of a bytes takes the name of another, of b bytes.
LEMMA BytesMoved ==
  ASSUME NEW S, IsFiniteSet(S), NEW p, NEW q, p # q, NEW a \in Nat, NEW b \in Nat,
         Bytes(p, a) \subseteq S, Bytes(q, b) \subseteq S,
         (S \ Bytes(q, b)) \cap Bytes(q, a) = {},
         NEW T, T = ((S \ Bytes(p, a)) \ Bytes(q, b)) \cup Bytes(q, a)
  PROVE  IsFiniteSet(T) /\ Cardinality(T) = Cardinality(S) - b /\ b <= Cardinality(S)
  <1>1. PICK R : R = S \ Bytes(p, a)
    OBVIOUS
  <1>2. IsFiniteSet(R) /\ Cardinality(R) = Cardinality(S) - a
    <2>1. S \cap Bytes(p, a) = Bytes(p, a) /\ Cardinality(Bytes(p, a)) = a
      BY BytesCount
    <2>2. IsFiniteSet(R) /\ Cardinality(R) = Cardinality(S) - Cardinality(S \cap Bytes(p, a))
      BY <1>1, FS_Difference
    <2> QED  BY <2>1, <2>2
  <1>3. Bytes(q, b) \subseteq R
    <2>1. \A x \in Bytes(q, b) : x \notin Bytes(p, a)
      BY DEF Bytes
    <2> QED  BY <1>1, <2>1
  <1>4. (R \ Bytes(q, b)) \cap Bytes(q, a) = {} /\ T = (R \ Bytes(q, b)) \cup Bytes(q, a)
    BY <1>1
  <1>5. IsFiniteSet(T) /\ Cardinality(T) = Cardinality(R) - b + a
    BY <1>2, <1>3, <1>4, BytesResized
  <1>6. b <= Cardinality(R)
    BY <1>2, <1>3, BytesCount, FS_Subset
  <1>7. Cardinality(S) \in Nat
    BY FS_CardinalityType
  <1> QED  BY <1>2, <1>5, <1>6, <1>7

\* The bytes of one file are among those stored, and no others of that file.
LEMMA BytesOfFile ==
  ASSUME TypeOK, NEW p \in Paths
  PROVE  /\ Length(p) \in 0..MaxFileBytes
         /\ Bytes(p, Length(p)) \subseteq StoredBytes
         /\ \A n : (StoredBytes \ Bytes(p, Length(p))) \cap Bytes(p, n) = {}
  <1>1. Length(p) \in 0..MaxFileBytes
    BY FileAssumption DEF TypeOK, Length
  <1>2. Bytes(p, Length(p)) \subseteq StoredBytes
    BY <1>1, FileAssumption DEF Bytes, StoredBytes
  <1>3. \A b \in StoredBytes : b[1] = p => b \in Bytes(p, Length(p))
    BY <1>1 DEF Bytes, StoredBytes
  <1>4. \A n : \A b \in Bytes(p, n) : b[1] = p
    BY DEF Bytes
  <1> QED  BY <1>1, <1>2, <1>3, <1>4

\* A step that only changes the length of p.
LEMMA OneResized ==
  ASSUME TypeOK, IsFiniteSet(StoredBytes), NEW p \in Paths, NEW n \in 0..MaxFileBytes,
         \A q \in Paths : Length(q)' = IF q = p THEN n ELSE Length(q)
  PROVE  /\ IsFiniteSet(StoredBytes') /\ Stored \in Nat /\ Length(p) <= Stored
         /\ Stored' = Stored - Length(p) + n
  <1>1. /\ Length(p) \in 0..MaxFileBytes /\ Bytes(p, Length(p)) \subseteq StoredBytes
        /\ (StoredBytes \ Bytes(p, Length(p))) \cap Bytes(p, n) = {}
    BY BytesOfFile
  <1>2. StoredBytes' = (StoredBytes \ Bytes(p, Length(p))) \cup Bytes(p, n)
    <2>1. StoredBytes' = {b \in Paths \X (1..MaxFileBytes) :
                            b[2] <= IF b[1] = p THEN n ELSE Length(b[1])}
      BY DEF StoredBytes
    <2>2. ASSUME NEW b \in StoredBytes'
          PROVE  b \in (StoredBytes \ Bytes(p, Length(p))) \cup Bytes(p, n)
      BY <2>1, <2>2, FileAssumption DEF StoredBytes, Bytes
    <2>3. ASSUME NEW b \in (StoredBytes \ Bytes(p, Length(p))) \cup Bytes(p, n)
          PROVE  b \in StoredBytes'
      BY <1>1, <2>1, <2>3, FileAssumption DEF StoredBytes, Bytes
    <2> QED  BY <2>2, <2>3
  <1>3. Length(p) \in Nat /\ n \in Nat
    BY <1>1, FileAssumption
  <1>4. /\ IsFiniteSet(StoredBytes')
        /\ Cardinality(StoredBytes') = Cardinality(StoredBytes) - Length(p) + n
    BY <1>1, <1>2, <1>3, BytesResized
  <1>5. Cardinality(StoredBytes) \in Nat /\ Length(p) <= Cardinality(StoredBytes)
    BY <1>1, <1>3, BytesCount, FS_CardinalityType, FS_Subset
  <1> QED  BY <1>4, <1>5 DEF Stored

AccountInv ==
  TypeOK /\ IsFiniteSet(StoredBytes) /\ NeverOvercounted /\ ExactWithoutHoles

Accounted == IsFiniteSet(StoredBytes) /\ NeverOvercounted /\ ExactWithoutHoles

\* A step that leaves every length and the account alone.
LEMMA SameLengths ==
  ASSUME AccountInv, \A q \in Paths : Length(q)' = Length(q), UNCHANGED <<total, holed>>
  PROVE  Accounted'
  <1>1. StoredBytes' = StoredBytes
    BY DEF StoredBytes
  <1> QED  BY <1>1 DEF AccountInv, Accounted, NeverOvercounted, ExactWithoutHoles, Stored

LEMMA AccountWrite ==
  ASSUME AccountInv, NEW h \in DOMAIN handles, NEW n \in 0..MaxRequest, WriteFile(h, n)
  PROVE  Accounted'
  <1> DEFINE r == handles[h]
             length == Fits(r.offset, n)
             before == Length(r.path)
             after == Most(before, r.offset + length)
  <1>1. /\ TypeOK /\ r \in FileHandle /\ length \in Nat
        /\ r.offset + length \in 0..MaxFileBytes /\ before \in 0..MaxFileBytes
    BY WriteBounds DEF AccountInv
  <1>2. r.offset \in Nat /\ r.path \in Paths /\ after \in 0..MaxFileBytes
    BY <1>1, FileAssumption DEF FileHandle, Most
  <1>3. \A q \in Paths : Length(q)' = IF q = r.path THEN after ELSE Length(q)
    BY <1>1, <1>2, FileAssumption DEF WriteFile, Length, TypeOK
  <1>4. /\ total' = total + Growth(before, r.offset, length)
        /\ holed' = (holed \/ r.offset > before)
    BY DEF WriteFile
  <1> HIDE DEF r, length, before, after
  <1>5. /\ IsFiniteSet(StoredBytes') /\ Stored \in Nat /\ before <= Stored
        /\ Stored' = Stored - before + after
    BY <1>1, <1>2, <1>3, OneResized DEF AccountInv, before
  <1>6. Growth(before, r.offset, length) <= after - before
    BY <1>1, <1>2 DEF Growth, Minus, Most, after
  <1>7. ~(r.offset > before) => Growth(before, r.offset, length) = after - before
    BY <1>1, <1>2 DEF Growth, Minus, Most, after
  <1>8. Growth(before, r.offset, length) \in Nat /\ after \in Nat /\ before \in Nat
    BY <1>1, <1>2 DEF Growth, Minus, Most
  <1>9. total \in Nat /\ total <= Stored /\ (~holed => total = Stored)
    BY DEF AccountInv, NeverOvercounted, ExactWithoutHoles, TypeOK
  <1>10. total' <= Stored'
    BY <1>4, <1>5, <1>6, <1>8, <1>9
  <1>11. ~holed' => ~holed /\ ~(r.offset > before)
    BY <1>4, Zenon
  <1>12. ~holed /\ ~(r.offset > before) => total' = Stored'
    BY <1>4, <1>5, <1>7, <1>8, <1>9
  <1> QED  BY <1>5, <1>10, <1>11, <1>12 DEF Accounted, NeverOvercounted, ExactWithoutHoles

LEMMA AccountDelete ==
  ASSUME AccountInv, NEW p \in Paths, DeleteFile(p)
  PROVE  Accounted'
  <1>1. TypeOK /\ files[p] = Length(p) /\ Length(p) \in 0..MaxFileBytes
    BY BytesOfFile DEF AccountInv, DeleteFile, Length
  <1>2. \A q \in Paths : Length(q)' = IF q = p THEN 0 ELSE Length(q)
    BY <1>1 DEF DeleteFile, Length, TypeOK
  <1>3. /\ IsFiniteSet(StoredBytes') /\ Stored \in Nat /\ Length(p) <= Stored
        /\ Stored' = Stored - Length(p) + 0
    BY <1>1, <1>2, OneResized, FileAssumption DEF AccountInv
  <1>4. total' = Minus(total, Length(p)) /\ holed' = holed
    BY <1>1 DEF DeleteFile, AfterDelete
  <1>5. total \in Nat /\ total <= Stored /\ (~holed => total = Stored)
    BY DEF AccountInv, NeverOvercounted, ExactWithoutHoles, TypeOK
  <1> QED  BY <1>1, <1>3, <1>4, <1>5
           DEF Accounted, NeverOvercounted, ExactWithoutHoles, Minus

LEMMA AccountCopy ==
  ASSUME AccountInv, NEW p \in Paths, NEW q \in Paths, CopyFile(p, q)
  PROVE  Accounted'
  <1>1. /\ TypeOK /\ files[p] = Length(p) /\ Length(p) \in 0..MaxFileBytes
        /\ Length(q) \in 0..MaxFileBytes
    BY BytesOfFile DEF AccountInv, CopyFile, Length
  <1>2. \A s \in Paths : Length(s)' = IF s = q THEN Length(p) ELSE Length(s)
    BY <1>1, FileAssumption DEF CopyFile, Length, TypeOK
  <1>3. /\ IsFiniteSet(StoredBytes') /\ Stored \in Nat /\ Length(q) <= Stored
        /\ Stored' = Stored - Length(q) + Length(p)
    BY <1>1, <1>2, OneResized DEF AccountInv
  <1>4. total' = Minus(total, Length(q)) + Length(p) /\ holed' = holed
    BY <1>1 DEF CopyFile
  <1>5. total \in Nat /\ total <= Stored /\ (~holed => total = Stored)
    BY DEF AccountInv, NeverOvercounted, ExactWithoutHoles, TypeOK
  <1> QED  BY <1>1, <1>3, <1>4, <1>5
           DEF Accounted, NeverOvercounted, ExactWithoutHoles, Minus

LEMMA AccountMove ==
  ASSUME AccountInv, NEW p \in Paths, NEW q \in Paths, MoveFile(p, q)
  PROVE  Accounted'
  <1>1. /\ TypeOK /\ files[p] = Length(p) /\ Length(p) \in 0..MaxFileBytes
        /\ Length(q) \in 0..MaxFileBytes
    BY BytesOfFile DEF AccountInv, MoveFile, Length
  <1>2. \A s \in Paths : Length(s)' = IF s = q THEN Length(p)
                                      ELSE IF s = p THEN 0 ELSE Length(s)
    BY <1>1, FileAssumption DEF MoveFile, Length, TypeOK
  <1>3. total' = Minus(total, Replaced(p, q)) /\ holed' = holed
    BY DEF MoveFile
  <1>4. total \in Nat /\ total <= Stored /\ (~holed => total = Stored)
    BY DEF AccountInv, NeverOvercounted, ExactWithoutHoles, TypeOK
  <1>5. CASE p = q
    <2>1. \A s \in Paths : Length(s)' = Length(s)
      BY <1>2, <1>5
    <2>2. total' = total
      BY <1>3, <1>4, <1>5 DEF Replaced, Minus
    <2> QED  BY <1>3, <2>1, <2>2, SameLengths
  <1>6. CASE p # q
    <2> DEFINE S == StoredBytes \ Bytes(p, Length(p))
               T == (S \ Bytes(q, Length(q))) \cup Bytes(q, Length(p))
    <2>1. /\ IsFiniteSet(StoredBytes) /\ Length(p) \in Nat /\ Length(q) \in Nat
          /\ Bytes(p, Length(p)) \subseteq StoredBytes
          /\ Bytes(q, Length(q)) \subseteq StoredBytes
          /\ (StoredBytes \ Bytes(q, Length(q))) \cap Bytes(q, Length(p)) = {}
      BY <1>1, BytesOfFile, FileAssumption DEF AccountInv
    <2>6. StoredBytes' = T
      <3>1. StoredBytes' = {b \in Paths \X (1..MaxFileBytes) :
                              b[2] <= IF b[1] = q THEN Length(p)
                                      ELSE IF b[1] = p THEN 0 ELSE Length(b[1])}
        BY <1>2 DEF StoredBytes
      <3>2. ASSUME NEW b \in StoredBytes' PROVE b \in T
        <4>1. b \in Paths \X (1..MaxFileBytes) /\ b = <<b[1], b[2]>>
          BY <3>1, <3>2
        <4>2. CASE b[1] = q
          BY <1>1, <3>1, <3>2, <4>1, <4>2 DEF Bytes
        <4>3. CASE b[1] # q
          <5>1. b[1] # p /\ b \in StoredBytes
            BY <1>1, <3>1, <3>2, <4>1, <4>3, FileAssumption DEF StoredBytes
          <5> QED  BY <4>3, <5>1 DEF Bytes
        <4> QED  BY <4>2, <4>3
      <3>3. ASSUME NEW b \in T PROVE b \in StoredBytes'
        <4>1. CASE b \in Bytes(q, Length(p))
          BY <1>1, <3>1, <4>1, FileAssumption DEF Bytes
        <4>2. CASE b \in S \ Bytes(q, Length(q))
          <5>1. b \in StoredBytes /\ b \notin Bytes(p, Length(p))
            BY <4>2
          <5>2. b[1] # p /\ b[1] # q
            BY <4>2, <5>1, FileAssumption DEF StoredBytes, Bytes
          <5> QED  BY <3>1, <5>1, <5>2 DEF StoredBytes
        <4> QED  BY <3>3, <4>1, <4>2
      <3> QED  BY <3>2, <3>3
    <2>7. /\ IsFiniteSet(StoredBytes')
          /\ Cardinality(StoredBytes') = Cardinality(StoredBytes) - Length(q)
          /\ Length(q) <= Cardinality(StoredBytes)
      BY <1>6, <2>1, <2>6, BytesMoved
    <2>8. Cardinality(StoredBytes) \in Nat
      BY <2>1, FS_CardinalityType
    <2>9. Replaced(p, q) = Length(q)
      BY <1>6 DEF Replaced
    <2>10. total' <= Stored' /\ (~holed' => total' = Stored')
      BY <1>3, <1>4, <2>1, <2>7, <2>8, <2>9 DEF Minus, Stored
    <2> QED  BY <2>7, <2>10 DEF Accounted, NeverOvercounted, ExactWithoutHoles
  <1> QED  BY <1>5, <1>6

LEMMA AccountCorrect == Spec => []AccountInv
  <1>1. Init => Accounted
    <2> SUFFICES ASSUME Init PROVE Accounted
      OBVIOUS
    <2>1. \A p \in Paths : Length(p) = 0
      BY DEF Init, Length
    <2>2. StoredBytes = {}
      BY <2>1, FileAssumption DEF StoredBytes
    <2> QED  BY <2>2, FS_EmptySet DEF Init, Accounted, NeverOvercounted, ExactWithoutHoles, Stored
  <1>2. AccountInv /\ [Next]_vars => Accounted'
    <2> SUFFICES ASSUME AccountInv, [Next]_vars PROVE Accounted'
      OBVIOUS
    <2>1. ASSUME NEW p \in Paths, CreateFile(p) PROVE Accounted'
      <3>1. \A q \in Paths : Length(q)' = Length(q)
        BY <2>1, FileAssumption DEF CreateFile, Length, AccountInv, TypeOK
      <3> QED  BY <2>1, <3>1, SameLengths DEF CreateFile
    <2>2. ASSUME NEW h \in DOMAIN handles, CloseHandle(h) PROVE Accounted'
      BY <2>2, SameLengths DEF CloseHandle, Length
    <2>3. ASSUME NEW h \in DOMAIN handles, NEW n \in 0..MaxRequest, ReadFile(h, n)
          PROVE Accounted'
      BY <2>3, SameLengths DEF ReadFile, Length
    <2>4. ASSUME NEW h \in DOMAIN handles, NEW d \in (-MaxFileBytes)..MaxFileBytes,
                 SetFilePointer(h, d)
          PROVE Accounted'
      BY <2>4, SameLengths DEF SetFilePointer, Length
    <2>5. CASE UNCHANGED vars
      BY <2>5, SameLengths DEF vars, Length
    <2> QED  BY <2>1, <2>2, <2>3, <2>4, <2>5, AccountWrite, AccountDelete, AccountCopy, AccountMove
             DEF Next
  <1>3. AccountInv <=> TypeOK /\ Accounted
    BY DEF AccountInv, Accounted
  <1> QED  BY <1>1, <1>2, <1>3, TypeCorrect, PTL DEF Spec

\* NeverOvercounted: whatever is written, deleted, copied and moved, the
\* account is never above what the files hold, so that no write is refused for
\* bytes that were given back (write_file, delete_file, copy_file, move_file).
THEOREM NothingOvercounted == Spec => []NeverOvercounted
  <1>1. AccountInv => NeverOvercounted
    BY DEF AccountInv
  <1> QED  BY <1>1, AccountCorrect, PTL

\* ExactWithoutHoles: the account is exact until the first write past the end
\* of its file, whose hole is not counted (write_file).
THEOREM ExactCount == Spec => []ExactWithoutHoles
  <1>1. AccountInv => ExactWithoutHoles
    BY DEF AccountInv
  <1> QED  BY <1>1, AccountCorrect, PTL

-----------------------------------------------------------------------------
(* Artifacts *)

StoreOK(s) ==
  /\ s \in [ids : SUBSET Contents, retained : Nat, truncated : BOOLEAN]
  /\ IsFiniteSet(s.ids) /\ IsFiniteSet(ArtifactBytes(s.ids))
  /\ s.retained = Cardinality(ArtifactBytes(s.ids))
  /\ s.retained <= MaxArtifactBytes /\ Cardinality(s.ids) <= MaxArtifacts

\* A later store keeps what there was and never forgets that it was cut off.
StoreGrows(s, u) == s.ids \subseteq u.ids /\ (s.truncated = TRUE => u.truncated = TRUE)

LEMMA BytesOfOneMore ==
  ASSUME NEW ids \in SUBSET Contents, NEW id \in Contents, id \notin ids,
         IsFiniteSet(ArtifactBytes(ids))
  PROVE  /\ IsFiniteSet(ArtifactBytes(ids \cup {id}))
         /\ Cardinality(ArtifactBytes(ids \cup {id})) = Cardinality(ArtifactBytes(ids)) + Size[id]
  <1> DEFINE T == {id} \X (1..Size[id])
  <1>1. Size[id] \in Nat /\ Size[id] >= 1
    BY LineageAssumption
  <1>2. IsFiniteSet(1..Size[id]) /\ Cardinality(1..Size[id]) = Size[id]
    BY <1>1, FS_Interval
  <1>3. IsFiniteSet({id}) /\ Cardinality({id}) = 1
    BY FS_Singleton
  <1>4. IsFiniteSet(T) /\ Cardinality(T) = 1 * Size[id]
    BY <1>2, <1>3, FS_Product
  <1>5. ArtifactBytes(ids \cup {id}) = ArtifactBytes(ids) \cup T
    BY DEF ArtifactBytes
  <1>6. ArtifactBytes(ids) \cap T = {}
    BY DEF ArtifactBytes
  <1> HIDE DEF T
  <1>7. Cardinality({}) = 0
    BY FS_EmptySet
  <1>8. /\ IsFiniteSet(ArtifactBytes(ids) \cup T)
        /\ Cardinality(ArtifactBytes(ids) \cup T)
             = Cardinality(ArtifactBytes(ids)) + Cardinality(T)
               - Cardinality(ArtifactBytes(ids) \cap T)
    BY <1>4, FS_Union
  <1>9. Cardinality(ArtifactBytes(ids)) \in Nat
    BY FS_CardinalityType
  <1>10. Cardinality(T) = Size[id]
    <2> DEFINE n == Size[id]
    <2> HIDE DEF n
    <2>1. n \in Nat /\ Cardinality(T) = 1 * n
      BY <1>1, <1>4 DEF n
    <2>2. Cardinality(T) = n
      BY <2>1
    <2> QED  BY <2>2 DEF n
  <1>11. Cardinality(ArtifactBytes(ids) \cap T) = 0
    BY <1>6, <1>7
  <1>12. Cardinality(ArtifactBytes(ids) \cup T) = Cardinality(ArtifactBytes(ids)) + Size[id]
    <2> DEFINE n == Size[id]
               a == Cardinality(ArtifactBytes(ids))
               all == Cardinality(ArtifactBytes(ids) \cup T)
    <2>1. n \in Nat /\ a \in Nat /\ all = a + Cardinality(T) - Cardinality(ArtifactBytes(ids) \cap T)
      BY <1>1, <1>8, <1>9
    <2>2. Cardinality(T) = n
      BY <1>10
    <2> HIDE DEF n, a, all
    <2>3. all = a + n - 0
      BY <2>1, <2>2, <1>11
    <2>4. all = a + n
      BY <2>1, <2>3
    <2> QED  BY <2>4 DEF n, a, all
  <1> QED  BY <1>5, <1>8, <1>12

LEMMA CapturedOK ==
  ASSUME NEW s, StoreOK(s), NEW id \in Contents
  PROVE  /\ StoreOK(Captured(s, id)) /\ StoreGrows(s, Captured(s, id))
         /\ id \in Captured(s, id).ids \/ Captured(s, id).truncated = TRUE
  <1>1. CASE id \in s.ids
    BY <1>1 DEF Captured, StoreGrows
  <1>2. CASE id \notin s.ids /\ Room(s, id)
    <2> DEFINE u == [s EXCEPT !.ids = @ \cup {id}, !.retained = @ + Size[id]]
    <2>1. Captured(s, id) = u
      BY <1>2 DEF Captured
    <2>2. /\ u.ids = s.ids \cup {id} /\ u.retained = s.retained + Size[id]
          /\ u.truncated = s.truncated
          /\ u \in [ids : SUBSET Contents, retained : Nat, truncated : BOOLEAN]
      <3>1. Size[id] \in Nat
        BY LineageAssumption
      <3>2. s.ids \cup {id} \in SUBSET Contents /\ s.retained + Size[id] \in Nat
        BY <3>1 DEF StoreOK
      <3> QED  BY <3>2 DEF StoreOK
    <2> HIDE DEF u
    <2>3. /\ IsFiniteSet(ArtifactBytes(s.ids \cup {id}))
          /\ Cardinality(ArtifactBytes(s.ids \cup {id}))
               = Cardinality(ArtifactBytes(s.ids)) + Size[id]
      BY <1>2, BytesOfOneMore DEF StoreOK
    <2>4. /\ IsFiniteSet(s.ids \cup {id})
          /\ Cardinality(s.ids \cup {id}) = Cardinality(s.ids) + 1
      BY <1>2, FS_AddElement DEF StoreOK
    <2>5. u.retained <= MaxArtifactBytes /\ Cardinality(u.ids) <= MaxArtifacts
      <3>1. Cardinality(s.ids) \in Nat /\ MaxArtifacts \in Nat
        BY FS_CardinalityType, LineageAssumption DEF StoreOK
      <3> QED  BY <1>2, <2>2, <2>4, <3>1 DEF Room
    <2> QED  BY <2>1, <2>2, <2>3, <2>4, <2>5 DEF StoreOK, StoreGrows
  <1>3. CASE id \notin s.ids /\ ~Room(s, id)
    <2>1. Captured(s, id) = [s EXCEPT !.truncated = TRUE]
      BY <1>3 DEF Captured
    <2> QED  BY <2>1 DEF StoreOK, StoreGrows
  <1> QED  BY <1>1, <1>2, <1>3

-----------------------------------------------------------------------------
(* Generations *)

\* The generation at i continues the chain of its region.
Linked(g, i) ==
  LET before == {j \in 1..(i - 1) : g[j].base = g[i].base}
      p == g[i].parent
  IN  IF before = {} THEN p = 0
      ELSE /\ p \in before /\ \A j \in before : j <= p
           /\ g[p].artifact # g[i].artifact

\* `current` is the last generation of each region.
CurrentIsLast(t) ==
  \A b \in Bases :
    /\ t.current[b] <= Len(t.generations)
    /\ t.current[b] # 0 => t.generations[t.current[b]].base = b
    /\ \A i \in DOMAIN t.generations : t.generations[i].base = b => i <= t.current[b]

TrackerTypes == [generations : Seq(Generation), current : [Bases -> Nat], truncated : BOOLEAN]
TrackerOK(t) ==
  /\ t \in TrackerTypes
  /\ CurrentIsLast(t)
  /\ \A i \in DOMAIN t.generations : Linked(t.generations, i)

\* What g says of a payload, h says too.
Keeps(g, h) ==
  /\ g.base = h.base /\ g.artifact = h.artifact /\ g.parent = h.parent
  /\ g.candidate # {} => h.candidate # {}
TrackerGrows(t, u) ==
  /\ Len(t.generations) <= Len(u.generations)
  /\ \A i \in DOMAIN t.generations : Keeps(t.generations[i], u.generations[i])
  /\ t.truncated = TRUE => u.truncated = TRUE

\* The generation of a payload.
Has(t, p) ==
  \E i \in DOMAIN t.generations :
    /\ t.generations[i].base = p[1] /\ t.generations[i].artifact = p[2]
    /\ p[3] # {} => t.generations[i].candidate # {}

Observation == [base : Bases, artifact : Contents, candidate : SUBSET Cells]

LEMMA GrowingHas ==
  ASSUME NEW t \in TrackerTypes, NEW u \in TrackerTypes, TrackerGrows(t, u), NEW p, Has(t, p)
  PROVE  Has(u, p)
  <1>1. PICK i \in DOMAIN t.generations :
          /\ t.generations[i].base = p[1] /\ t.generations[i].artifact = p[2]
          /\ p[3] # {} => t.generations[i].candidate # {}
    BY DEF Has
  <1>2. i \in DOMAIN u.generations
    BY DEF TrackerGrows, TrackerTypes
  <1> QED  BY <1>1, <1>2 DEF Has, TrackerGrows, Keeps

\* Chains depend on bases, artifacts and parents only.
LEMMA SameLinks ==
  ASSUME NEW g, NEW h, NEW i \in Nat \ {0}, Linked(g, i),
         \A j \in 1..i : /\ g[j].base = h[j].base /\ g[j].artifact = h[j].artifact
                         /\ g[j].parent = h[j].parent
  PROVE  Linked(h, i)
  <1> DEFINE before == {j \in 1..(i - 1) : g[j].base = g[i].base}
             beforeH == {j \in 1..(i - 1) : h[j].base = h[i].base}
  <1>1. i \in 1..i /\ \A j \in 1..(i - 1) : j \in 1..i
    OBVIOUS
  <1>2. before = beforeH
    BY <1>1
  <1>3. h[i].parent = g[i].parent /\ h[i].artifact = g[i].artifact
    BY <1>1
  <1>4. \A j \in before : h[j].artifact = g[j].artifact
    BY <1>1
  <1> QED  BY <1>2, <1>3, <1>4 DEF Linked

\* A change of one generation that leaves its place in the chain alone.
LEMMA ChangeOne ==
  ASSUME NEW t, TrackerOK(t), NEW i \in DOMAIN t.generations,
         NEW g \in Generation, Keeps(t.generations[i], g)
  PROVE  LET u == [t EXCEPT !.generations[i] = g]
         IN  TrackerOK(u) /\ TrackerGrows(t, u) /\ u.generations[i] = g
             /\ u.truncated = t.truncated
  <1> DEFINE h == [t.generations EXCEPT ![i] = g]
             u == [t EXCEPT !.generations[i] = g]
  <1>1. u = [t EXCEPT !.generations = h]
    OBVIOUS
  <1>2. t.generations \in Seq(Generation)
    BY DEF TrackerOK, TrackerTypes
  <1>3. /\ h \in Seq(Generation) /\ Len(h) = Len(t.generations)
        /\ DOMAIN h = DOMAIN t.generations /\ h[i] = g
        /\ \A j \in DOMAIN t.generations : j # i => h[j] = t.generations[j]
    BY <1>2
  <1> HIDE DEF h
  <1>4. /\ u \in TrackerTypes /\ u.generations = h /\ u.current = t.current
        /\ u.truncated = t.truncated
    BY <1>1, <1>3 DEF TrackerOK, TrackerTypes
  <1> HIDE DEF u
  <1>5. \A j \in DOMAIN t.generations : Keeps(t.generations[j], h[j])
    BY <1>3 DEF Keeps
  <1>6. DOMAIN h = 1..Len(h) /\ Len(h) \in Nat
    BY <1>3
  <1>7. \A j \in DOMAIN h : Linked(h, j)
    <2> SUFFICES ASSUME NEW j \in DOMAIN h PROVE Linked(h, j)
      OBVIOUS
    <2>1. j \in Nat \ {0} /\ \A n \in 1..j : n \in DOMAIN t.generations
      BY <1>3, <1>6
    <2>2. \A n \in 1..j : /\ t.generations[n].base = h[n].base
                          /\ t.generations[n].artifact = h[n].artifact
                          /\ t.generations[n].parent = h[n].parent
      BY <1>5, <2>1 DEF Keeps
    <2>3. Linked(t.generations, j)
      BY <1>3 DEF TrackerOK
    <2> QED  BY <2>1, <2>2, <2>3, SameLinks
  <1>8. CurrentIsLast(u)
    <2> SUFFICES ASSUME NEW b \in Bases
                 PROVE  /\ t.current[b] <= Len(h)
                        /\ t.current[b] # 0 => h[t.current[b]].base = b
                        /\ \A j \in DOMAIN h : h[j].base = b => j <= t.current[b]
      BY <1>4 DEF CurrentIsLast
    <2>1. t.current[b] \in Nat
      BY DEF TrackerOK, TrackerTypes
    <2>2. t.current[b] # 0 => t.current[b] \in DOMAIN h
      BY <1>3, <1>6, <2>1 DEF TrackerOK, CurrentIsLast
    <2> QED  BY <1>3, <1>5, <2>2 DEF TrackerOK, CurrentIsLast, Keeps
  <1>9. TrackerGrows(t, u)
    BY <1>2, <1>3, <1>4, <1>5 DEF TrackerGrows
  <1> QED  BY <1>3, <1>4, <1>7, <1>8, <1>9 DEF TrackerOK, u

\* A new generation comes after the current one of its region.
LEMMA AppendOne ==
  ASSUME NEW t, TrackerOK(t), NEW o \in Observation, ~IsCurrent(t, o)
  PROVE  LET u == [t EXCEPT !.generations = Append(@, NextGeneration(t, o)),
                            !.current[o.base] = CurrentAfter(t, o)]
         IN  /\ TrackerOK(u) /\ TrackerGrows(t, u)
             /\ \A i \in DOMAIN u.generations :
                  i \in DOMAIN t.generations \/ u.generations[i] = NextGeneration(t, o)
             /\ Has(u, <<o.base, o.artifact, o.candidate>>)
             /\ u.truncated = t.truncated
  <1> DEFINE n == Len(t.generations)
             g == NextGeneration(t, o)
             h == Append(t.generations, g)
             c == [t.current EXCEPT ![o.base] = n + 1]
             u == [t EXCEPT !.generations = Append(@, NextGeneration(t, o)),
                            !.current[o.base] = CurrentAfter(t, o)]
  <1>1. /\ t.generations \in Seq(Generation) /\ t.current \in [Bases -> Nat]
        /\ t.truncated \in BOOLEAN /\ n \in Nat /\ DOMAIN t.generations = 1..n
    BY DEF TrackerOK, TrackerTypes
  <1>2. /\ o.base \in Bases /\ o.artifact \in Contents /\ o.candidate \in SUBSET Cells
    BY DEF Observation
  <1>3. /\ g \in Generation /\ g.base = o.base /\ g.artifact = o.artifact
        /\ g.parent = t.current[o.base] /\ g.candidate = o.candidate
    BY <1>1, <1>2 DEF NextGeneration, Generation
  <1> HIDE DEF g
  <1>4. /\ h \in Seq(Generation) /\ Len(h) = n + 1 /\ DOMAIN h = 1..(n + 1) /\ h[n + 1] = g
        /\ \A j \in 1..n : h[j] = t.generations[j]
    BY <1>1, <1>3
  <1>5. /\ c \in [Bases -> Nat] /\ c[o.base] = n + 1
        /\ \A b \in Bases : b # o.base => c[b] = t.current[b]
    BY <1>1, <1>2
  <1>6. /\ u.generations = h /\ u.current = c /\ u.truncated = t.truncated
        /\ u = [generations |-> h, current |-> c, truncated |-> t.truncated]
    <2>1. u = [[t EXCEPT !.generations = h] EXCEPT !.current = c]
      BY DEF CurrentAfter, g
    <2> HIDE DEF u, h, c
    <2>2. t = [generations |-> t.generations, current |-> t.current, truncated |-> t.truncated]
      BY DEF TrackerOK, TrackerTypes
    <2>3. u = [generations |-> h, current |-> c, truncated |-> t.truncated]
      BY <2>1, <2>2
    <2> QED  BY <2>3
  <1> HIDE DEF h, c, u
  <1>7. u \in TrackerTypes
    BY <1>1, <1>4, <1>5, <1>6 DEF TrackerTypes
  <1>8. CurrentIsLast(u)
    <2> SUFFICES ASSUME NEW b \in Bases
                 PROVE  /\ c[b] <= n + 1
                        /\ c[b] # 0 => h[c[b]].base = b
                        /\ \A j \in DOMAIN h : h[j].base = b => j <= c[b]
      BY <1>4, <1>6 DEF CurrentIsLast
    <2>1. CASE b = o.base
      BY <1>1, <1>3, <1>4, <1>5, <2>1
    <2>2. CASE b # o.base
      <3>1. /\ c[b] = t.current[b] /\ c[b] \in Nat /\ c[b] <= n
            /\ c[b] # 0 => t.generations[c[b]].base = b
            /\ \A j \in 1..n : t.generations[j].base = b => j <= c[b]
        BY <1>1, <1>5, <2>2 DEF TrackerOK, CurrentIsLast
      <3>2. c[b] # 0 => c[b] \in 1..n
        BY <1>1, <3>1
      <3>3. \A j \in 1..(n + 1) : j = n + 1 \/ j \in 1..n
        BY <1>1
      <3> QED  BY <1>1, <1>3, <1>4, <2>2, <3>1, <3>2, <3>3
    <2> QED  BY <2>1, <2>2
  <1>9. \A j \in DOMAIN h : Linked(h, j)
    <2> SUFFICES ASSUME NEW j \in DOMAIN h PROVE Linked(h, j)
      OBVIOUS
    <2>1. CASE j \in 1..n
      <3>1. j \in Nat \ {0} /\ \A i \in 1..j : i \in 1..n
        BY <1>1, <2>1
      <3>2. Linked(t.generations, j)
        BY <1>1, <2>1 DEF TrackerOK
      <3> QED  BY <1>4, <3>1, <3>2, SameLinks
    <2>2. CASE j = n + 1
      <3> DEFINE before == {i \in 1..n : h[i].base = o.base}
                 p == t.current[o.base]
      <3>1. before = {i \in 1..(j - 1) : h[i].base = h[j].base} /\ h[j].parent = p
        BY <1>1, <1>3, <1>4, <2>2
      <3>2. /\ p \in Nat /\ p <= n
            /\ p # 0 => t.generations[p].base = o.base
            /\ \A i \in 1..n : t.generations[i].base = o.base => i <= p
        BY <1>1, <1>2 DEF TrackerOK, CurrentIsLast
      <3>3. CASE p = 0
        <4>1. before = {}
          BY <1>1, <1>4, <3>2, <3>3
        <4> QED  BY <3>1, <3>3, <4>1 DEF Linked
      <3>4. CASE p # 0
        <4>1. p \in before /\ \A i \in before : i <= p
          <5>1. p \in 1..n
            BY <1>1, <3>2, <3>4
          <5>2. h[p].base = o.base
            BY <1>4, <3>2, <3>4, <5>1
          <5>3. \A i \in before : i <= p
            BY <1>4, <3>2
          <5> QED  BY <5>1, <5>2, <5>3
        <4>2. t.generations[p].artifact # o.artifact
          BY <3>4 DEF IsCurrent
        <4>3. h[p].artifact # h[j].artifact
          BY <1>3, <1>4, <2>2, <4>1, <4>2
        <4> HIDE DEF before, p
        <4> QED  BY <3>1, <4>1, <4>3 DEF Linked
      <3> QED  BY <3>3, <3>4
    <2> QED  BY <1>1, <1>4, <2>1, <2>2
  <1>10. TrackerGrows(t, u)
    BY <1>1, <1>4, <1>6 DEF TrackerGrows, Keeps
  <1>11. Has(u, <<o.base, o.artifact, o.candidate>>)
    <2>1. n + 1 \in DOMAIN h /\ h[n + 1] = g
      BY <1>1, <1>4
    <2> QED  BY <1>3, <1>6, <2>1 DEF Has
  <1>12. \A i \in DOMAIN h : i \in 1..n \/ h[i] = g
    BY <1>1, <1>4
  <1> QED  BY <1>1, <1>4, <1>6, <1>7, <1>8, <1>9, <1>10, <1>11, <1>12 DEF TrackerOK, u, g

\* What is observed has a generation, or the tracker says that it was cut off.
LEMMA ObservedOK ==
  ASSUME NEW t, TrackerOK(t), NEW o \in Observation
  PROVE  LET u == Observed(t, o)
         IN  /\ TrackerOK(u) /\ TrackerGrows(t, u)
             /\ \A i \in DOMAIN u.generations :
                  \/ u.generations[i].artifact = o.artifact
                  \/ /\ i \in DOMAIN t.generations
                     /\ u.generations[i].artifact = t.generations[i].artifact
             /\ Has(u, <<o.base, o.artifact, o.candidate>>) \/ u.truncated = TRUE
  <1> DEFINE u == Observed(t, o)
             i == t.current[o.base]
  <1>1. CASE IsCurrent(t, o)
    <2> DEFINE g == t.generations[i]
               c == Confirmed(g, o)
    <2>1. i \in DOMAIN t.generations /\ g.base = o.base /\ g.artifact = o.artifact
      <3>1. o.base \in Bases /\ i \in Nat /\ t.generations \in Seq(Generation)
        BY DEF Observation, TrackerOK, TrackerTypes
      <3>2. i # 0 /\ i <= Len(t.generations) /\ g.base = o.base
        BY <1>1, <3>1 DEF IsCurrent, TrackerOK, CurrentIsLast
      <3> QED  BY <1>1, <3>1, <3>2 DEF IsCurrent
    <2>2. g \in Generation
      BY <2>1 DEF TrackerOK, TrackerTypes
    <2>3. c \in Generation /\ Keeps(g, c) /\ (o.candidate # {} => c.candidate # {})
      BY <2>2 DEF Confirmed, Generation, Observation, Keeps
    <2>4. u = [t EXCEPT !.generations[i] = c]
      BY <1>1 DEF Observed
    <2> HIDE DEF c
    <2>5. TrackerOK(u) /\ TrackerGrows(t, u) /\ u.generations[i] = c
      BY <2>1, <2>3, <2>4, ChangeOne
    <2>6. DOMAIN u.generations = DOMAIN t.generations
      BY <2>4
    <2> HIDE DEF u
    <2>7. Has(u, <<o.base, o.artifact, o.candidate>>)
      BY <2>1, <2>3, <2>5, <2>6 DEF Has, Keeps
    <2>8. \A j \in DOMAIN u.generations :
            u.generations[j].artifact = t.generations[j].artifact
      BY <2>5, <2>6 DEF TrackerGrows, Keeps
    <2> QED  BY <2>5, <2>6, <2>7, <2>8 DEF u
  <1>2. CASE ~IsCurrent(t, o) /\ Len(t.generations) >= MaxGenerations
    <2>1. u = [t EXCEPT !.truncated = TRUE]
      BY <1>2 DEF Observed
    <2>2. /\ u.generations = t.generations /\ u.current = t.current /\ u.truncated = TRUE
          /\ u \in TrackerTypes
      BY <2>1 DEF TrackerOK, TrackerTypes
    <2> HIDE DEF u
    <2>3. Len(t.generations) \in Nat
      BY DEF TrackerOK, TrackerTypes
    <2>4. TrackerOK(u) /\ TrackerGrows(t, u)
      BY <2>2, <2>3 DEF TrackerOK, TrackerGrows, CurrentIsLast, Keeps
    <2> QED  BY <2>2, <2>4 DEF u
  <1>3. CASE ~IsCurrent(t, o) /\ ~(Len(t.generations) >= MaxGenerations)
    <2>1. u = [t EXCEPT !.generations = Append(@, NextGeneration(t, o)),
                        !.current[o.base] = CurrentAfter(t, o)]
      BY <1>3 DEF Observed
    <2> HIDE DEF u
    <2>2. /\ TrackerOK(u) /\ TrackerGrows(t, u)
          /\ \A j \in DOMAIN u.generations :
               j \in DOMAIN t.generations \/ u.generations[j] = NextGeneration(t, o)
          /\ Has(u, <<o.base, o.artifact, o.candidate>>)
      BY <1>3, <2>1, AppendOne
    <2>3. NextGeneration(t, o).artifact = o.artifact
      BY DEF NextGeneration
    <2>4. \A j \in DOMAIN t.generations :
            u.generations[j].artifact = t.generations[j].artifact
      BY <2>2 DEF TrackerGrows, Keeps
    <2> QED  BY <2>2, <2>3, <2>4 DEF u
  <1> QED  BY <1>1, <1>2, <1>3

-----------------------------------------------------------------------------
(* The store and the tracker together *)

KeptTypes ==
  [store : [ids : SUBSET Contents, retained : Nat, truncated : BOOLEAN],
   tracker : TrackerTypes,
   seen : SUBSET (Bases \X Contents \X SUBSET Cells)]

\* Every generation has its artifact, and every payload its generation unless
\* something was cut off.
Good(k) ==
  /\ StoreOK(k.store) /\ TrackerOK(k.tracker)
  /\ \A i \in DOMAIN k.tracker.generations :
       k.tracker.generations[i].artifact \in k.store.ids
  /\ \/ k.store.truncated = TRUE \/ k.tracker.truncated = TRUE
     \/ \A p \in k.seen : Has(k.tracker, p)

GoodKept == {k \in KeptTypes : Good(k)}

\* A store that has grown fits the generations there are.
LEMMA GrownGood ==
  ASSUME NEW k \in GoodKept, NEW s, StoreOK(s), StoreGrows(k.store, s)
  PROVE  [k EXCEPT !.store = s] \in GoodKept
  <1> DEFINE m == [k EXCEPT !.store = s]
  <1>1. m \in KeptTypes /\ m.store = s /\ m.tracker = k.tracker /\ m.seen = k.seen
    BY DEF GoodKept, KeptTypes, StoreOK
  <1> HIDE DEF m
  <1>2. Good(m)
    BY <1>1 DEF GoodKept, Good, StoreGrows
  <1> QED  BY <1>1, <1>2 DEF GoodKept, m

LEMMA StoredGood ==
  ASSUME NEW k \in GoodKept, NEW c \in Contents
  PROVE  [k EXCEPT !.store = Captured(@, c)] \in GoodKept
  <1> DEFINE s == Captured(k.store, c)
  <1>1. StoreOK(s) /\ StoreGrows(k.store, s)
    BY CapturedOK DEF GoodKept, Good
  <1>2. [k EXCEPT !.store = s] = [k EXCEPT !.store = Captured(@, c)]
    OBVIOUS
  <1> HIDE DEF s
  <1> QED  BY <1>1, <1>2, GrownGood

\* A payload is captured, and observed if it is an artifact then.
LEMMA NotedGood ==
  ASSUME NEW k \in GoodKept, NEW o \in Observation
  PROVE  LET s == Captured(k.store, o.artifact)
             t == IF o.artifact \in s.ids THEN Observed(k.tracker, o) ELSE k.tracker
         IN  [store |-> s, tracker |-> t,
              seen |-> k.seen \cup {<<o.base, o.artifact, o.candidate>>}] \in GoodKept
  <1> DEFINE p == <<o.base, o.artifact, o.candidate>>
             s == Captured(k.store, o.artifact)
             t == IF o.artifact \in s.ids THEN Observed(k.tracker, o) ELSE k.tracker
             m == [store |-> s, tracker |-> t, seen |-> k.seen \cup {p}]
  <1>1. /\ StoreOK(s) /\ StoreGrows(k.store, s)
        /\ o.artifact \in s.ids \/ s.truncated = TRUE
    BY CapturedOK DEF GoodKept, Good, Observation
  <1>2. TrackerOK(k.tracker) /\ k.tracker \in TrackerTypes
    BY DEF GoodKept, Good, TrackerOK
  <1> HIDE DEF s
  <1>3. /\ TrackerOK(t) /\ TrackerGrows(k.tracker, t)
        /\ \A i \in DOMAIN t.generations : t.generations[i].artifact \in s.ids
        /\ o.artifact \in s.ids => Has(t, p) \/ t.truncated = TRUE
    <2>1. \A i \in DOMAIN k.tracker.generations :
            k.tracker.generations[i].artifact \in s.ids
      BY <1>1 DEF GoodKept, Good, StoreGrows
    <2>2. CASE o.artifact \in s.ids
      <3>1. t = Observed(k.tracker, o)
        BY <2>2
      <3> HIDE DEF t
      <3> QED  BY <1>2, <2>1, <2>2, <3>1, ObservedOK
    <2>3. CASE o.artifact \notin s.ids
      <3>1. t = k.tracker
        BY <2>3
      <3> HIDE DEF t
      <3>2. Len(k.tracker.generations) \in Nat
        BY <1>2 DEF TrackerTypes
      <3>3. TrackerGrows(k.tracker, t)
        BY <3>1, <3>2 DEF TrackerGrows, Keeps
      <3> QED  BY <1>2, <2>1, <2>3, <3>1, <3>3
    <2> QED  BY <2>2, <2>3
  <1> HIDE DEF t
  <1>4. t \in TrackerTypes
    BY <1>3 DEF TrackerOK
  <1>5. p \in Bases \X Contents \X SUBSET Cells
    BY DEF Observation
  <1>6. \/ s.truncated = TRUE \/ t.truncated = TRUE
        \/ \A q \in k.seen \cup {p} : Has(t, q)
    <2> SUFFICES ASSUME s.truncated # TRUE, t.truncated # TRUE, NEW q \in k.seen \cup {p}
                 PROVE  Has(t, q)
      OBVIOUS
    <2>1. CASE q = p
      BY <1>1, <1>3, <2>1
    <2>2. CASE q \in k.seen
      <3>1. Has(k.tracker, q)
        BY <1>1, <1>3, <2>2 DEF GoodKept, Good, StoreGrows, TrackerGrows
      <3> QED  BY <1>2, <1>3, <1>4, <3>1, GrowingHas
    <2> QED  BY <2>1, <2>2
  <1> HIDE DEF p
  <1>7. m \in KeptTypes
    BY <1>1, <1>4, <1>5 DEF GoodKept, KeptTypes, StoreOK
  <1>8. Good(m)
    BY <1>1, <1>3, <1>6 DEF Good
  <1> QED  BY <1>7, <1>8 DEF GoodKept, s, t, p

RegionsTyped == regions \in [Bases -> Region \cup {Unmapped}]

LEMMA CaptureGood ==
  ASSUME RegionsTyped, NEW k \in GoodKept, NEW b \in Mapped, NEW cell \in Cells,
         NEW trigger, NEW force
  PROVE  CaptureRegion(k, b, cell, trigger, force) \in GoodKept
  <1> DEFINE id == regions[b].content
             s == Captured(k.store, id)
             o == [base |-> b, artifact |-> id,
                   candidate |-> IF Entered(b, cell, trigger) THEN {cell} ELSE {}]
             m == CaptureRegion(k, b, cell, trigger, force)
  <1>1. b \in Bases /\ id \in Contents
    BY DEF RegionsTyped, Mapped, Region
  <1>2. o \in Observation /\ o.base = b /\ o.artifact = id
    BY <1>1 DEF Observation
  <1>3. CASE \/ ~regions[b].dirty
             \/ trigger = "dynamic_execution" /\ ~Relevant(b, cell, trigger)
             \/ ~Worthwhile(b, force)
    BY <1>3 DEF CaptureRegion
  <1>4. CASE ~(\/ ~regions[b].dirty
               \/ trigger = "dynamic_execution" /\ ~Relevant(b, cell, trigger)
               \/ ~Worthwhile(b, force))
    <2>1. CASE Relevant(b, cell, trigger)
      <3>1. m = [store |-> s,
                 tracker |-> IF id \in s.ids THEN Observed(k.tracker, o) ELSE k.tracker,
                 seen |-> k.seen \cup {<<b, id, o.candidate>>}]
        BY <1>4, <2>1 DEF CaptureRegion
      <3> HIDE DEF o, m, id
      <3>2. s = Captured(k.store, o.artifact)
        BY <1>2
      <3> HIDE DEF s
      <3> QED  BY <1>2, <3>1, <3>2, NotedGood DEF m
    <2>2. CASE ~Relevant(b, cell, trigger)
      <3>1. m = [store |-> s, tracker |-> k.tracker, seen |-> k.seen]
        BY <1>4, <2>2 DEF CaptureRegion
      <3> HIDE DEF m
      <3>2. m = [k EXCEPT !.store = Captured(@, id)]
        BY <3>1 DEF GoodKept, KeptTypes
      <3> QED  BY <1>1, <3>2, StoredGood DEF m
    <2> QED  BY <2>1, <2>2
  <1> QED  BY <1>3, <1>4

-----------------------------------------------------------------------------
(* The captures at the end of a run, one after the other *)

\* A set with 0 and every successor has every number.
LEMMA AllNumbers ==
  ASSUME NEW S, 0 \in S, \A n \in Nat : n \in S => n + 1 \in S
  PROVE  Nat \subseteq S
  <1> DEFINE T == Nat \ S
             R == OpToRel(<, Nat)
  <1>1. SUFFICES ASSUME T # {} PROVE FALSE
    OBVIOUS
  <1>2. IsWellFoundedOn(R, Nat) /\ T \subseteq Nat
    BY NatLessThanWellFounded
  <1> HIDE DEF R, T
  <1>3. PICK x \in T : \A y \in T : <<y, x>> \notin R
    BY <1>1, <1>2, WFMin
  <1>4. x \in Nat /\ x # 0
    BY DEF T
  <1>5. x - 1 \in Nat /\ x - 1 < x
    BY <1>4
  <1>6. <<x - 1, x>> \in R
    BY <1>4, <1>5 DEF R, OpToRel
  <1>7. x - 1 \in S
    BY <1>3, <1>5, <1>6 DEF T
  <1>8. (x - 1) + 1 \in S
    BY <1>5, <1>7
  <1> QED  BY <1>3, <1>4, <1>8 DEF T

\* f goes from one member of S to the next as F says, n times.
Steps(f, F, n) == \A i \in 1..n : f[i] = F[<<i, f[i - 1]>>]

\* However many steps are taken, there is where they lead to.
LEMMA StepsExist ==
  ASSUME NEW S, NEW x \in S, NEW N \in Nat, NEW F \in [(1..N) \X S -> S]
  PROVE  \E f \in [0..N -> S] : f[0] = x /\ Steps(f, F, N)
  <1> DEFINE Reached == {n \in Nat : n <= N => \E f \in [0..n -> S] : f[0] = x /\ Steps(f, F, n)}
  <1>1. 0 \in Reached
    <2>1. /\ [i \in 0..0 |-> x] \in [0..0 -> S]
          /\ [i \in 0..0 |-> x][0] = x /\ Steps([i \in 0..0 |-> x], F, 0)
      BY DEF Steps
    <2> QED  BY <2>1
  <1>2. ASSUME NEW n \in Nat, n \in Reached PROVE n + 1 \in Reached
    <2> SUFFICES ASSUME n + 1 <= N
                 PROVE  \E f \in [0..(n + 1) -> S] : f[0] = x /\ Steps(f, F, n + 1)
      OBVIOUS
    <2>1. PICK f \in [0..n -> S] : f[0] = x /\ Steps(f, F, n)
      BY <1>2
    <2>2. f[n] \in S /\ n + 1 \in 1..N
      OBVIOUS
    <2>3. F[<<n + 1, f[n]>>] \in S
      BY <2>2
    <2> DEFINE g == [i \in 0..(n + 1) |-> IF i = n + 1 THEN F[<<n + 1, f[n]>>] ELSE f[i]]
    <2>4. \A i \in 0..(n + 1) : i # n + 1 => i \in 0..n
      OBVIOUS
    <2>5. g \in [0..(n + 1) -> S] /\ g[0] = x
      BY <2>1, <2>3, <2>4
    <2>6. ASSUME NEW i \in 1..(n + 1) PROVE g[i] = F[<<i, g[i - 1]>>]
      <3>1. i - 1 \in 0..n /\ i - 1 # n + 1 /\ g[i - 1] = f[i - 1]
        OBVIOUS
      <3>2. CASE i = n + 1
        BY <3>1, <3>2
      <3>3. CASE i # n + 1
        <4>1. i \in 1..n /\ g[i] = f[i]
          BY <3>3
        <4> QED  BY <2>1, <3>1, <4>1 DEF Steps
      <3> QED  BY <3>2, <3>3
    <2> HIDE DEF g
    <2> QED  BY <2>5, <2>6 DEF Steps
  <1> HIDE DEF Reached
  <1>3. Nat \subseteq Reached
    BY <1>1, <1>2, AllNumbers
  <1> QED  BY <1>3 DEF Reached

\* What starts in S and is not left by a step stays in S.
LEMMA StepsStay ==
  ASSUME NEW S, NEW N \in Nat, NEW f, f[0] \in S,
         \A i \in 1..N : f[i - 1] \in S => f[i] \in S
  PROVE  f[N] \in S
  <1> DEFINE Reached == {n \in Nat : n <= N => f[n] \in S}
  <1>1. 0 \in Reached
    OBVIOUS
  <1>2. ASSUME NEW n \in Nat, n \in Reached PROVE n + 1 \in Reached
    <2> SUFFICES ASSUME n + 1 <= N PROVE f[n + 1] \in S
      OBVIOUS
    <2>1. f[n] \in S /\ n + 1 \in 1..N /\ (n + 1) - 1 = n
      BY <1>2
    <2> QED  BY <2>1
  <1> HIDE DEF Reached
  <1>3. Nat \subseteq Reached
    BY <1>1, <1>2, AllNumbers
  <1> QED  BY <1>3 DEF Reached

LEMMA LengthOfOrder ==
  ASSUME NEW S, NEW n \in Nat, NEW order \in [1..n -> S]
  PROVE  Len(order) = n
  OBVIOUS

LEMMA RegionsGood ==
  ASSUME RegionsTyped, NEW k \in GoodKept, NEW N \in Nat, NEW order \in [1..N -> Mapped]
  PROVE  RegionsCaptured(k, order) \in GoodKept
  <1> DEFINE Next1(i, m) == CaptureRegion(m, order[i], Entry, "final_dirty_region", FALSE)
             F == [p \in (1..N) \X GoodKept |-> Next1(p[1], p[2])]
             Is(g) == g = [i \in 0..N |-> IF i = 0 THEN k ELSE Next1(i, g[i - 1])]
             after == CHOOSE g : Is(g)
  <1>1. Len(order) = N
    BY LengthOfOrder
  <1>2. RegionsCaptured(k, order) = after[N]
    BY <1>1 DEF RegionsCaptured
  <1>3. \A i \in 1..N, m \in GoodKept : Next1(i, m) \in GoodKept
    BY CaptureGood, LineageAssumption
  <1> HIDE DEF Next1
  <1>4. \E g : Is(g)
    <2>1. F \in [(1..N) \X GoodKept -> GoodKept]
      BY <1>3
    <2>2. PICK f \in [0..N -> GoodKept] : f[0] = k /\ Steps(f, F, N)
      BY <2>1, StepsExist
    <2>3. \A i \in 0..N : f[i] = IF i = 0 THEN k ELSE Next1(i, f[i - 1])
      <3> SUFFICES ASSUME NEW i \in 1..N PROVE f[i] = Next1(i, f[i - 1])
        BY <2>2
      <3>1. i - 1 \in 0..N /\ f[i - 1] \in GoodKept
        BY <2>2
      <3> QED  BY <2>2, <3>1 DEF Steps
    <2> QED  BY <2>2, <2>3
  <1>5. Is(after)
    BY <1>4
  <1> HIDE DEF after
  <1>6. after[0] \in GoodKept
    BY <1>5
  <1>7. ASSUME NEW i \in 1..N, after[i - 1] \in GoodKept PROVE after[i] \in GoodKept
    <2>1. i \in 0..N /\ i # 0
      OBVIOUS
    <2>2. after[i] = Next1(i, after[i - 1])
      BY <1>5, <2>1
    <2> QED  BY <1>3, <1>7, <2>2
  <1> QED  BY <1>2, <1>6, <1>7, StepsStay

LEMMA ContentsGood ==
  ASSUME NEW k \in GoodKept, NEW N \in Nat, NEW order \in [1..N -> Contents]
  PROVE  [k EXCEPT !.store = ContentsCaptured(@, order)] \in GoodKept
  <1> DEFINE S == {s \in [ids : SUBSET Contents, retained : Nat, truncated : BOOLEAN] :
                     StoreOK(s) /\ StoreGrows(k.store, s)}
             Next1(i, s) == Captured(s, order[i])
             F == [p \in (1..N) \X S |-> Next1(p[1], p[2])]
             Is(g) == g = [i \in 0..N |-> IF i = 0 THEN k.store ELSE Next1(i, g[i - 1])]
             after == CHOOSE g : Is(g)
  <1>1. Len(order) = N
    BY LengthOfOrder
  <1>2. ContentsCaptured(k.store, order) = after[N]
    BY <1>1 DEF ContentsCaptured
  <1>3. \A i \in 1..N, s \in S : Next1(i, s) \in S
    <2> SUFFICES ASSUME NEW i \in 1..N, NEW s \in S PROVE Captured(s, order[i]) \in S
      OBVIOUS
    <2>1. StoreOK(Captured(s, order[i])) /\ StoreGrows(s, Captured(s, order[i]))
      BY CapturedOK
    <2> QED  BY <2>1 DEF StoreOK, StoreGrows
  <1>4. k.store \in S
    BY DEF GoodKept, Good, KeptTypes, StoreGrows
  <1> HIDE DEF S, Next1
  <1>5. \E g : Is(g)
    <2>1. F \in [(1..N) \X S -> S]
      BY <1>3
    <2>2. PICK f \in [0..N -> S] : f[0] = k.store /\ Steps(f, F, N)
      BY <1>4, <2>1, StepsExist
    <2>3. \A i \in 0..N : f[i] = IF i = 0 THEN k.store ELSE Next1(i, f[i - 1])
      <3> SUFFICES ASSUME NEW i \in 1..N PROVE f[i] = Next1(i, f[i - 1])
        BY <2>2
      <3>1. i - 1 \in 0..N /\ f[i - 1] \in S
        BY <2>2
      <3> QED  BY <2>2, <3>1 DEF Steps
    <2> QED  BY <2>2, <2>3
  <1>6. Is(after)
    BY <1>5
  <1> HIDE DEF after
  <1>7. after[0] \in S
    BY <1>4, <1>6
  <1>8. ASSUME NEW i \in 1..N, after[i - 1] \in S PROVE after[i] \in S
    <2>1. i \in 0..N /\ i # 0
      OBVIOUS
    <2>2. after[i] = Next1(i, after[i - 1])
      BY <1>6, <2>1
    <2> QED  BY <1>3, <1>8, <2>2
  <1>9. after[N] \in S
    BY <1>7, <1>8, StepsStay
  <1>10. [k EXCEPT !.store = after[N]] = [k EXCEPT !.store = ContentsCaptured(@, order)]
    BY <1>2
  <1> QED  BY <1>9, <1>10, GrownGood DEF S

-----------------------------------------------------------------------------
(* The inductive invariant *)

LineageInv == RegionsTyped /\ Kept \in GoodKept

\* What is kept is what was made of it, and less is promised of it.
LEMMA KeepGood ==
  ASSUME NEW k \in GoodKept, Keep(k)
  PROVE  Kept' \in GoodKept
  <1> DEFINE m == [store |-> k.store, tracker |-> k.tracker, seen |-> Promised(k)]
  <1>1. Promised(k) \subseteq k.seen
    BY DEF Promised
  <1>2. m \in KeptTypes /\ m.store = k.store /\ m.tracker = k.tracker /\ m.seen = Promised(k)
    BY <1>1 DEF GoodKept, KeptTypes
  <1>3. Kept' = m
    BY DEF Keep, Kept
  <1> HIDE DEF m
  <1>4. Good(m)
    BY <1>1, <1>2 DEF GoodKept, Good
  <1> QED  BY <1>2, <1>3, <1>4 DEF GoodKept

LEMMA ImportGood ==
  ASSUME LineageInv, NEW b \in Mapped, NEW name \in Imports, RuntimeImport(b, name)
  PROVE  Kept' \in GoodKept
  <1>1. PICK i \in DOMAIN tracker.generations :
          tracker' = IF name \in tracker.generations[i].imports THEN tracker
                     ELSE IF Cardinality(tracker.generations[i].imports) >= MaxImports
                     THEN [tracker EXCEPT !.truncated = TRUE]
                     ELSE [tracker EXCEPT !.generations[i].imports = @ \cup {name}]
    BY DEF RuntimeImport
  <1>2. store' = store /\ seen' = seen
    BY DEF RuntimeImport
  <1>3. /\ StoreOK(store) /\ TrackerOK(tracker) /\ tracker \in TrackerTypes
        /\ \A j \in DOMAIN tracker.generations : tracker.generations[j].artifact \in store.ids
        /\ \/ store.truncated = TRUE \/ tracker.truncated = TRUE
           \/ \A p \in seen : Has(tracker, p)
        /\ store \in [ids : SUBSET Contents, retained : Nat, truncated : BOOLEAN]
        /\ seen \in SUBSET (Bases \X Contents \X SUBSET Cells)
    BY DEF LineageInv, GoodKept, Good, KeptTypes, Kept
  <1>4. SUFFICES
          /\ TrackerOK(tracker') /\ TrackerGrows(tracker, tracker')
          /\ DOMAIN tracker'.generations = DOMAIN tracker.generations
    <2>1. tracker' \in TrackerTypes
      BY <1>4 DEF TrackerOK
    <2>2. \A p \in seen : Has(tracker, p) => Has(tracker', p)
      BY <1>3, <1>4, <2>1, GrowingHas
    <2>3. /\ Kept' \in KeptTypes /\ Kept'.store = store /\ Kept'.tracker = tracker'
          /\ Kept'.seen = seen
      BY <1>2, <1>3, <2>1 DEF KeptTypes, Kept
    <2>4. Good(Kept')
      BY <1>3, <1>4, <2>2, <2>3 DEF Good, TrackerGrows, Keeps
    <2> QED  BY <2>3, <2>4 DEF GoodKept
  <1>5. Len(tracker.generations) \in Nat
    BY <1>3 DEF TrackerTypes
  <1>6. CASE tracker' = tracker
    BY <1>3, <1>5, <1>6 DEF TrackerGrows, Keeps
  <1>7. CASE tracker' = [tracker EXCEPT !.truncated = TRUE]
    <2>1. /\ tracker'.generations = tracker.generations /\ tracker'.current = tracker.current
          /\ tracker'.truncated = TRUE /\ tracker' \in TrackerTypes
      BY <1>3, <1>7 DEF TrackerTypes
    <2> QED  BY <1>3, <1>5, <2>1 DEF TrackerOK, TrackerGrows, CurrentIsLast, Keeps
  <1>8. CASE tracker' = [tracker EXCEPT !.generations[i].imports = @ \cup {name}]
    <2> DEFINE old == tracker.generations[i]
               g == [old EXCEPT !.imports = @ \cup {name}]
    <2>1. old \in Generation
      BY <1>3 DEF TrackerTypes
    <2>2. g \in Generation /\ Keeps(old, g)
      BY <2>1 DEF Generation, Keeps
    <2>3. tracker' = [tracker EXCEPT !.generations[i] = g]
      BY <1>8
    <2> HIDE DEF g
    <2>4. TrackerOK(tracker') /\ TrackerGrows(tracker, tracker')
      BY <1>3, <2>2, <2>3, ChangeOne
    <2> QED  BY <2>3, <2>4
  <1> QED  BY <1>1, <1>6, <1>7, <1>8

LEMMA ProtectGood ==
  ASSUME LineageInv, NEW b \in Mapped, NEW exec \in BOOLEAN, VirtualProtect(b, exec)
  PROVE  Kept' \in GoodKept
  <1> DEFINE o == [base |-> b, artifact |-> regions[b].content, candidate |-> {}]
             s == Captured(store, o.artifact)
             m == [store |-> s,
                   tracker |-> IF o.artifact \in s.ids THEN Observed(tracker, o) ELSE tracker,
                   seen |-> seen \cup {<<o.base, o.artifact, o.candidate>>}]
  <1>1. Kept \in GoodKept
    BY DEF LineageInv
  <1>2. regions[b] \in Region
    BY DEF LineageInv, RegionsTyped, Mapped
  <1>3. o \in Observation
    BY <1>2 DEF Observation, Region, Mapped
  <1>4. m \in GoodKept
    <2> HIDE DEF o
    <2>1. Kept.store = store /\ Kept.tracker = tracker /\ Kept.seen = seen
      BY DEF Kept
    <2> QED  BY <1>1, <1>3, <2>1, NotedGood
  <1>5. Keep(Kept) \/ Keep(m)
    <2>1. CASE exec = FALSE
      BY <2>1 DEF VirtualProtect
    <2>2. CASE exec = TRUE
      <3> DEFINE r == [regions[b] EXCEPT !.exec = TRUE]
      <3>1. r.content = regions[b].content
        BY <1>2 DEF Region
      <3>2. CASE ~r.dirty
        BY <2>2, <3>2 DEF VirtualProtect
      <3>3. CASE r.dirty
        BY <2>2, <3>1, <3>3 DEF VirtualProtect
      <3> QED  BY <3>2, <3>3
    <2> QED  BY <2>1, <2>2
  <1> HIDE DEF m
  <1> QED  BY <1>1, <1>4, <1>5, KeepGood

LEMMA FinishGood ==
  ASSUME LineageInv, Finish
  PROVE  Kept' \in GoodKept
  <1> DEFINE dirty == {b \in Mapped : regions[b].dirty}
             N == Cardinality(dirty)
  <1>1. PICK order \in [1..N -> dirty], n \in 0..MaxExtras :
          \E extras \in [1..n -> Contents] :
            LET memory == RegionsCaptured(Kept, order)
            IN  Keep([memory EXCEPT !.store = ContentsCaptured(@, extras)])
    BY DEF Finish
  <1>2. PICK extras \in [1..n -> Contents] :
          LET memory == RegionsCaptured(Kept, order)
          IN  Keep([memory EXCEPT !.store = ContentsCaptured(@, extras)])
    BY <1>1
  <1> DEFINE memory == RegionsCaptured(Kept, order)
  <1>3. N \in Nat
    <2>1. dirty \subseteq Bases
      BY DEF Mapped
    <2> HIDE DEF dirty
    <2> QED  BY <2>1, LineageAssumption, FS_Subset, FS_CardinalityType
  <1>4. order \in [1..N -> Mapped]
    OBVIOUS
  <1> HIDE DEF N, dirty
  <1>5. memory \in GoodKept
    BY <1>3, <1>4, RegionsGood DEF LineageInv
  <1>6. n \in Nat
    BY LineageAssumption
  <1>7. [memory EXCEPT !.store = ContentsCaptured(@, extras)] \in GoodKept
    BY <1>5, <1>6, ContentsGood
  <1> QED  BY <1>2, <1>7, KeepGood

LEMMA LineageInvariant == LineageSpec => []LineageInv
  <1>1. LineageInit => LineageInv
    <2> SUFFICES ASSUME LineageInit PROVE LineageInv
      OBVIOUS
    <2>1. RegionsTyped
      BY LineageAssumption DEF LineageInit, RegionsTyped, Region, Fresh
    <2>2. /\ Kept.store = [ids |-> {}, retained |-> 0, truncated |-> FALSE]
          /\ Kept.tracker = [generations |-> <<>>, current |-> [b \in Bases |-> 0], truncated |-> FALSE]
          /\ Kept.seen = {} /\ Kept \in KeptTypes
      BY DEF LineageInit, Kept, KeptTypes, TrackerTypes
    <2>3. StoreOK(Kept.store)
      <3>1. ArtifactBytes({}) = {}
        BY DEF ArtifactBytes
      <3>2. IsFiniteSet({}) /\ Cardinality({}) = 0
        BY FS_EmptySet
      <3>3. MaxArtifacts \in Nat /\ MaxArtifactBytes \in Nat
        BY LineageAssumption
      <3>4. Kept.store \in [ids : SUBSET Contents, retained : Nat, truncated : BOOLEAN]
        BY <2>2
      <3>5. Kept.store.ids = {} /\ Kept.store.retained = 0
        BY <2>2
      <3> QED  BY <3>1, <3>2, <3>3, <3>4, <3>5 DEF StoreOK
    <2>4. TrackerOK(Kept.tracker)
      BY <2>2 DEF TrackerOK, TrackerTypes, CurrentIsLast
    <2>5. Good(Kept)
      BY <2>2, <2>3, <2>4 DEF Good
    <2> QED  BY <2>1, <2>2, <2>5 DEF LineageInv, GoodKept
  <1>2. LineageInv /\ [LineageNext]_lineageVars => LineageInv'
    <2> SUFFICES ASSUME LineageInv, [LineageNext]_lineageVars PROVE LineageInv'
      OBVIOUS
    <2>1. ASSUME UNCHANGED <<store, tracker, seen>> PROVE Kept' \in GoodKept
      <3>1. Kept' = Kept
        BY <2>1 DEF Kept
      <3> QED  BY <3>1 DEF LineageInv
    <2>2. RegionsTyped /\ Kept \in GoodKept
      BY DEF LineageInv
    <2>3. ASSUME NEW b \in Mapped, NEW cell \in Cells, Execute(b, cell) PROVE LineageInv'
      <3>1. Kept' \in GoodKept
        BY <2>2, <2>3, CaptureGood, KeepGood DEF Execute
      <3> QED  BY <2>2, <2>3, <3>1 DEF Execute, LineageInv, RegionsTyped
    <2>4. ASSUME NEW b \in Mapped, NEW cell \in Cells, NEW c \in Contents, Write(b, cell, c)
          PROVE  LineageInv'
      <3>1. Kept' \in GoodKept
        BY <2>1, <2>4 DEF Write
      <3>2. regions[b] \in Region
        BY <2>2 DEF RegionsTyped, Mapped
      <3> DEFINE r == [regions[b] EXCEPT !.content = c, !.dirty = TRUE, !.written = @ \cup {cell}]
      <3>3. r \in Region
        BY <3>2 DEF Region
      <3>4. regions' = [regions EXCEPT ![b] = r]
        BY <2>4 DEF Write
      <3> HIDE DEF r
      <3>5. RegionsTyped'
        BY <2>2, <3>3, <3>4 DEF RegionsTyped
      <3> QED  BY <3>1, <3>5 DEF LineageInv
    <2>5. ASSUME NEW b \in Mapped, NEW name \in Imports, RuntimeImport(b, name) PROVE LineageInv'
      <3>1. Kept' \in GoodKept
        BY <2>5, ImportGood
      <3> QED  BY <2>2, <2>5, <3>1 DEF RuntimeImport, LineageInv, RegionsTyped
    <2>6. ASSUME NEW b \in Mapped, NEW exec \in BOOLEAN, VirtualProtect(b, exec) PROVE LineageInv'
      <3>1. Kept' \in GoodKept
        BY <2>6, ProtectGood
      <3>2. [regions[b] EXCEPT !.exec = exec] \in Region
        BY <2>2 DEF RegionsTyped, Mapped, Region
      <3>3. regions' = [regions EXCEPT ![b] = [regions[b] EXCEPT !.exec = exec]]
        BY <2>6 DEF VirtualProtect
      <3>4. RegionsTyped'
        BY <2>2, <3>2, <3>3 DEF RegionsTyped
      <3> QED  BY <3>1, <3>4 DEF LineageInv
    <2>7. ASSUME NEW b \in Mapped, HeapFree(b) PROVE LineageInv'
      <3>1. Kept' \in GoodKept
        BY <2>2, <2>7, CaptureGood, KeepGood, LineageAssumption DEF HeapFree
      <3>2. RegionsTyped'
        BY <2>2, <2>7 DEF HeapFree, RegionsTyped
      <3> QED  BY <3>1, <3>2 DEF LineageInv
    <2>8. ASSUME NEW b \in Bases, NEW exec \in BOOLEAN, MapRegion(b, exec) PROVE LineageInv'
      <3>1. Kept' \in GoodKept
        BY <2>1, <2>8 DEF MapRegion
      <3>2. [Fresh EXCEPT !.exec = exec] \in Region
        BY LineageAssumption DEF Fresh, Region
      <3>3. RegionsTyped'
        BY <2>2, <2>8, <3>2 DEF MapRegion, RegionsTyped
      <3> QED  BY <3>1, <3>3 DEF LineageInv
    <2>9. ASSUME NEW c \in Contents, Download(c) PROVE LineageInv'
      <3> DEFINE m == [Kept EXCEPT !.store = Captured(@, c)]
      <3>1. m \in GoodKept
        BY <2>2, StoredGood
      <3>2. m = [Kept EXCEPT !.store = Captured(store, c)]
        BY DEF Kept
      <3>3. Keep(m)
        BY <2>9, <3>2 DEF Download
      <3> HIDE DEF m
      <3>4. Kept' \in GoodKept
        BY <3>1, <3>3, KeepGood
      <3> QED  BY <2>2, <2>9, <3>4 DEF Download, LineageInv, RegionsTyped
    <2>10. CASE Finish
      <3>1. Kept' \in GoodKept
        BY <2>10, FinishGood
      <3> QED  BY <2>2, <2>10, <3>1 DEF Finish, LineageInv, RegionsTyped
    <2>11. CASE UNCHANGED lineageVars
      BY <2>1, <2>2, <2>11 DEF lineageVars, LineageInv, RegionsTyped
    <2> QED  BY <2>3, <2>4, <2>5, <2>6, <2>7, <2>8, <2>9, <2>10, <2>11 DEF LineageNext
  <1> QED  BY <1>1, <1>2, PTL DEF LineageSpec

-----------------------------------------------------------------------------

\* LineageComplete: unless the report says that something was cut off, every
\* payload that mattered when it was captured has its generation, and one that
\* was entered has a candidate for it (capture_memory_region, observe).
THEOREM NoPayloadLost == LineageSpec => []LineageComplete
  <1>1. LineageInv => LineageComplete
    BY DEF LineageInv, GoodKept, Good, Kept, LineageComplete, Generations, Has
  <1> QED  BY <1>1, LineageInvariant, PTL

\* ChainsLinked: the parent of a generation is the one before it in its region
\* and holds something else, or there is none (observe).
THEOREM ChainsUnbroken == LineageSpec => []ChainsLinked
  <1>1. LineageInv => ChainsLinked
    BY DEF LineageInv, GoodKept, Good, Kept, TrackerOK, Linked, ChainsLinked, Generations
  <1> QED  BY <1>1, LineageInvariant, PTL

\* ArtifactsAccounted: the bytes retained are those of the artifacts, each
\* once, within the limits, and no generation lacks its artifact (capture).
THEOREM ArtifactsExact == LineageSpec => []ArtifactsAccounted
  <1>1. LineageInv => ArtifactsAccounted
    BY DEF LineageInv, GoodKept, Good, Kept, StoreOK, ArtifactsAccounted, Generations
  <1> QED  BY <1>1, LineageInvariant, PTL

=============================================================================

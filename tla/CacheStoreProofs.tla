-------------------------- MODULE CacheStoreProofs --------------------------
(***************************************************************************)
(* Safety of the liboryxcache store for any number of workers, keys,       *)
(* payloads, inodes and calls.                                             *)
(***************************************************************************)
EXTENDS CacheStore, TLAPS

-----------------------------------------------------------------------------
(***************************************************************************)
(* The inductive invariant.  Its first three parts hold in every setting,  *)
(* the others for undisturbed writers.                                     *)
(***************************************************************************)

\* The addresses an index entry may hold: those put under its key, and those an
\* alteration made it hold.
Named == put \cup forged

\* The payloads whose bytes may be found in file f: for an index entry those it may
\* name, for a blob its own if it was ever put.
PutIn(f) == { d \in Payloads : \/ f \in Keys /\ <<f, d>> \in Named
                               \/ f = d /\ \E k \in Keys : <<k, d>> \in put }

Writing == {"open", "write", "sync", "rename"}
Reading == {"open_read", "read"}

\* What a call in state r holds, given the pairs P put and the pairs Q named so far.
Shaped(r, P, Q) ==
  /\ r.pc # "idle" => r.rc = "none"
  /\ r.op = "put" <=> r.pc \in Writing \cup {"check"}
  /\ r.op = "put" =>
       /\ r.key \in Keys /\ r.val \in Payloads /\ <<r.key, r.val>> \in P
       /\ r.pc \in Writing => r.file \in {r.key, r.val}
  /\ r.pc \in {"write", "sync", "rename", "read"} => r.ino \in Slots
  /\ r.pc = "write" => r.off < 2
  /\ r.pc \in Reading =>
       \/ r.op = "get" /\ r.key \in Keys /\ r.file = r.key
       \/ /\ r.op = "get" /\ r.key \in Keys /\ r.file \in Payloads
          /\ r.val = r.file /\ <<r.key, r.val>> \in Q
       \/ r.op = "get_blob" /\ r.file \in Payloads /\ r.val = r.file
  /\ r.op \in {"get", "get_blob"} /\ r.rc = "OK" =>
       /\ \E k \in Keys : <<k, r.val>> \in P
       /\ r.op = "get" => <<r.key, r.val>> \in Q

CallShape == \A w \in Workers : Shaped(wk[w], put, Named)

\* Nothing but holes and the bytes of payloads put there is ever in a file.
Made(s, D) == \A n \in 1..Len(s) : s[n] \in D \cup {Hole}

BytesPut ==
  \A f \in Files :
    /\ \A i \in Slots : Made(data[f][i], PutIn(f))
    /\ disk[f] # None => Made(disk[f], PutIn(f))

\* The names of a file refer to different inodes.
NamesApart ==
  \A f \in Files : \A x, y \in Pids \cup {"final"} :
    dir[<<f, x>>] # None /\ dir[<<f, x>>] = dir[<<f, y>>] => x = y

\* A writer's temporary name keeps its inode, which has what it has written so far.
Owns(w) ==
  LET r == wk[w]
  IN  /\ r.pc \in {"write", "sync", "rename"} => dir[Tmp(w, r.file)] = r.ino
      /\ r.pc = "write" =>
           /\ Len(data[r.file][r.ino]) = r.off
           /\ \A n \in 1..r.off : data[r.file][r.ino][n] = r.val
      /\ r.pc \in {"sync", "rename"} => data[r.file][r.ino] = Whole(r.val)
      /\ r.pc = "rename" => <<r.file, r.ino>> \in synced

WriterOwns == Undisturbed => \A w \in Workers : Owns(w)

\* A final name refers to a durable inode with all the bytes of one payload.
FinalWhole ==
  Undisturbed =>
    \A f \in Files :
      Exists(f) => /\ <<f, dir[Final(f)]>> \in synced
                   /\ \E d \in PutIn(f) : Content(f) = Whole(d)

\* So does what a power loss leaves.
DiskWhole ==
  Undisturbed =>
    \A f \in Files : disk[f] # None => \E d \in PutIn(f) : disk[f] = Whole(d)

\* The index is written only once the blob is there.
BlobThere(w) == wk[w].pc \in Writing /\ wk[w].file \in Keys => Exists(wk[w].val)

BlobFirst == Undisturbed => \A w \in Workers : BlobThere(w)

\* A stored key has an index entry that names an existing blob.
StoredNamed ==
  Undisturbed =>
    \A k \in stored :
      /\ Exists(k)
      /\ \A d \in Payloads : Content(k) = Whole(d) => Exists(d)

Calm == WriterOwns /\ FinalWhole /\ DiskWhole /\ BlobFirst /\ StoredNamed

\* Index entries are altered only where files rot.
Unforged == ~env.rot => forged = {}

IInv == TypeOK /\ CallShape /\ BytesPut /\ NamesApart /\ Calm /\ Unforged

-----------------------------------------------------------------------------
(* The operators *)

\* A file is a sequence of at most two chunks.
LEMMA BytesAreSeq ==
  ASSUME NEW s \in Bytes
  PROVE  /\ s \in Seq(Chunk) /\ Len(s) \in 0..2 /\ DOMAIN s = 1..Len(s)
         /\ \A n \in 1..Len(s) : s[n] \in Chunk
  <1>1. PICK n \in 0..2 : s \in [1..n -> Chunk]
    BY DEF Bytes
  <1>2. s \in Seq(Chunk) /\ Len(s) = n
    BY <1>1
  <1>3. QED
    BY <1>1, <1>2

\* A sequence of at most two chunks is a file.
LEMMA SeqIsBytes ==
  ASSUME NEW n \in 0..2, NEW s \in [1..n -> Chunk]
  PROVE  s \in Bytes /\ Len(s) = n
  <1>1. s \in Bytes
    BY DEF Bytes
  <1>2. Len(s) = n
    OBVIOUS
  <1>3. QED
    BY <1>1, <1>2

\* An empty file is one.
LEMMA EmptyBytes == <<>> \in Bytes /\ Len(<<>>) = 0
  <1>1. 0 \in 0..2 /\ <<>> \in [1..0 -> Chunk] /\ Len(<<>>) = 0
    OBVIOUS
  <1>2. <<>> \in Bytes
    BY <1>1, Zenon DEF Bytes
  <1>3. QED
    BY <1>1, <1>2

\* A payload's bytes are two chunks of it, and say which payload it is.
LEMMA WholeBytes ==
  ASSUME NEW d \in Chunk
  PROVE  /\ Whole(d) \in Bytes /\ Len(Whole(d)) = 2
         /\ Whole(d)[1] = d /\ Whole(d)[2] = d
  <1>1. Whole(d) \in [1..2 -> Chunk]
    BY DEF Whole
  <1>2. QED
    BY <1>1, SeqIsBytes DEF Whole

\* A file with two chunks of d is d's.
LEMMA WholeFrom ==
  ASSUME NEW s \in Bytes, NEW d, Len(s) = 2, s[1] = d, s[2] = d
  PROVE  s = Whole(d)
  <1>1. PICK n \in 0..2 : s \in [1..n -> Chunk]
    BY DEF Bytes
  <1>2. n = 2
    BY <1>1, SeqIsBytes
  <1>3. DOMAIN s = 1..2 /\ s = [j \in 1..2 |-> s[j]]
    BY <1>1, <1>2
  <1>4. s = [j \in 1..2 |-> d]
    BY <1>3
  <1>5. Whole(d) = [j \in 1..2 |-> d]
    BY DEF Whole
  <1>6. QED
    BY <1>4, <1>5

\* What write(2) leaves: the new chunk where it was written, the old ones
\* elsewhere, holes in between.
LEMMA WriteAtResult ==
  ASSUME NEW s \in Bytes, NEW off \in 0..1, NEW c \in Chunk
  PROVE  LET t == WriteAt(s, off, c)
         IN  /\ t \in Bytes
             /\ Len(t) = IF Len(s) > off THEN Len(s) ELSE off + 1
             /\ \A n \in 1..Len(t) :
                  t[n] = IF n = off + 1 THEN c ELSE IF n <= Len(s) THEN s[n] ELSE Hole
  <1> DEFINE m == IF Len(s) > off THEN Len(s) ELSE off + 1
             t == WriteAt(s, off, c)
  <1>1. Len(s) \in 0..2 /\ \A n \in 1..Len(s) : s[n] \in Chunk
    BY BytesAreSeq
  <1>2. m \in 0..2
    BY <1>1
  <1>3. t \in [1..m -> Chunk]
    BY <1>1 DEF WriteAt, Chunk
  <1>4. t \in Bytes /\ Len(t) = m
    BY <1>2, <1>3, SeqIsBytes
  <1>5. QED
    BY <1>4 DEF WriteAt

\* The temporary name and the final name of a file are names, and are different.
LEMMA NameTypes ==
  ASSUME env \in Settings, NEW w \in Workers, NEW f \in Files
  PROVE  /\ env.pid[w] \in Pids /\ env.pid[w] # "final"
         /\ Tmp(w, f) \in Names /\ Final(f) \in Names /\ Tmp(w, f) # Final(f)
  <1>1. env.pid[w] \in Pids /\ env.pid[w] # "final"
    BY StoreAssumption DEF Pids
  <1>2. QED
    BY <1>1 DEF Tmp, Final, Names

\* open(O_CREAT) gives the name's inode, or one no name of the file has.
LEMMA OpenedInode ==
  ASSUME TypeOK, NEW n \in Names, NEW i \in Opened(n)
  PROVE  /\ i \in Slots
         /\ dir[n] = i \/ \A m \in Names : m[1] = n[1] => dir[m] # i
  <1>1. CASE dir[n] # None
    BY <1>1 DEF Opened, TypeOK
  <1>2. CASE dir[n] = None
    BY <1>2 DEF Opened, FreeSlots
  <1>3. QED
    BY <1>1, <1>2

\* What a reader has read are the first chunks of the file it has open.
LEMMA ReadBytes ==
  ASSUME NEW s \in Bytes, NEW off \in 0..2
  PROVE  LET c == SubSeq(s, 1, IF Len(s) < off THEN Len(s) ELSE off)
         IN  /\ c \in Bytes /\ Len(c) <= Len(s)
             /\ \A n \in 1..Len(c) : c[n] = s[n]
  <1> DEFINE m == IF Len(s) < off THEN Len(s) ELSE off
             c == SubSeq(s, 1, m)
  <1>1. s \in Seq(Chunk) /\ Len(s) \in 0..2 /\ \A n \in 1..Len(s) : s[n] \in Chunk
    BY BytesAreSeq
  <1>2. m \in 0..2 /\ m <= Len(s)
    BY <1>1
  <1>3. c = [n \in 1..m |-> s[n]]
    BY <1>1, <1>2
  <1>4. c \in [1..m -> Chunk]
    <2>1. \A n \in 1..m : s[n] \in Chunk
      BY <1>1, <1>2
    <2>2. [n \in 1..m |-> s[n]] \in [1..m -> Chunk]
      BY <2>1, Zenon
    <2>3. QED
      BY <1>3, <2>2, Zenon
  <1>5. c \in Bytes /\ Len(c) = m
    BY <1>2, <1>4, SeqIsBytes
  <1>6. QED
    BY <1>2, <1>3, <1>5

-----------------------------------------------------------------------------
(* Typing *)

\* A worker that is in no call.
LEMMA IdleType ==
  /\ Idle \in CallState
  /\ \A rc \in {"IO", "OK", "NOTFOUND", "FORMAT", "INTEGRITY"} :
       [Idle EXCEPT !.rc = rc] \in CallState
  BY DEF Idle, CallState

LEMMA CallTyping ==
  ASSUME TypeOK, NEW w \in Workers
  PROVE  wk[w] \in CallState
  BY DEF TypeOK

\* The updates of open, read and write stay in the type.
LEMMA OpenUpdate ==
  ASSUME NEW r \in CallState, NEW p \in {"write", "read"}, NEW i \in Slots,
         NEW o \in 0..2
  PROVE  [r EXCEPT !.pc = p, !.ino = i, !.off = o] \in CallState
  BY DEF CallState

LEMMA WriteUpdate ==
  ASSUME NEW r \in CallState, NEW o \in 0..2, NEW p \in {"sync", "write"}
  PROVE  [r EXCEPT !.off = o, !.pc = p] \in CallState
  BY DEF CallState

\* A step of a call changes its own worker's state only.
LEMMA StepFrame ==
  ASSUME TypeOK, NEW w \in Workers, NEW r, Step(w, r)
  PROVE  wk'[w] = r /\ \A v \in Workers \ {w} : wk'[v] = wk[v]
  BY DEF Step, TypeOK

LEMMA StepType ==
  ASSUME TypeOK, NEW w \in Workers, NEW r \in CallState, Step(w, r)
  PROVE  wk' \in [Workers -> CallState]
  BY DEF Step, TypeOK

LEMMA ReturnType ==
  ASSUME TypeOK, NEW w \in Workers,
         NEW rc \in {"IO", "OK", "NOTFOUND", "FORMAT", "INTEGRITY"}, Return(w, rc)
  PROVE  wk' \in [Workers -> CallState]
  BY IdleType, StepType DEF Return

LEMMA AbandonType ==
  ASSUME TypeOK, NEW w \in Workers, wk[w].file \in Files, Abandon(w)
  PROVE  /\ dir' \in [Names -> Slots \cup {None}]
         /\ data' = data /\ synced' = synced
         /\ wk' \in [Workers -> CallState]
  <1>1. wk' \in [Workers -> CallState]
    BY ReturnType DEF Abandon
  <1>2. QED
    BY <1>1, NameTypes DEF Abandon, TypeOK

\* A worker that writes or reads has a file.
LEMMA BusyFile ==
  ASSUME TypeOK, CallShape, NEW w \in Workers, wk[w].pc \in Writing \cup Reading
  PROVE  wk[w].file \in Files
  BY DEF CallShape, Shaped, Writing, Reading, Files

LEMMA InitInv == Init => IInv
  <1> SUFFICES ASSUME Init PROVE IInv
    OBVIOUS
  <1>1. TypeOK
    BY StoreAssumption, IdleType, EmptyBytes DEF Init, TypeOK
  <1>2. CallShape /\ WriterOwns /\ BlobFirst /\ StoredNamed
    BY DEF Init, Idle, CallShape, Shaped, WriterOwns, Owns, BlobFirst, BlobThere,
       StoredNamed, Writing, Reading
  <1>3. BytesPut
    BY EmptyBytes DEF Init, BytesPut, Made
  <1>4. NamesApart /\ FinalWhole /\ DiskWhole
    BY DEF Init, NamesApart, FinalWhole, DiskWhole, Exists, Final, Names
  <1>5. QED
    BY <1>1, <1>2, <1>3, <1>4 DEF IInv, Calm, Unforged, Init

\* The bytes a reader has read, as it uses them.
LEMMA ReadResult ==
  ASSUME TypeOK, CallShape, NEW w \in Workers, wk[w].pc = "read"
  PROVE  LET c == BytesRead(w)
             s == data[wk[w].file][wk[w].ino]
         IN  /\ c \in Bytes /\ Len(c) <= Len(s)
             /\ \A n \in 1..Len(c) : c[n] = s[n]
  <1>1. wk[w].file \in Files /\ wk[w].ino \in Slots /\ wk[w].off \in 0..2
    BY BusyFile DEF CallShape, Shaped, Reading, TypeOK, CallState
  <1>2. data[wk[w].file][wk[w].ino] \in Bytes
    BY <1>1 DEF TypeOK
  <1>3. QED
    BY <1>1, <1>2, ReadBytes DEF BytesRead

\* A step of open(O_CREAT | O_TRUNC).
LEMMA OpenTmpType ==
  ASSUME TypeOK, CallShape, NEW w \in Workers, OpenTmp(w)
  PROVE  TypeOK'
  <1> DEFINE f == wk[w].file
  <1>1. f \in Files /\ Tmp(w, f) \in Names /\ Tmp(w, f)[1] = f
    BY BusyFile, NameTypes DEF OpenTmp, Writing, TypeOK, Tmp
  <1>2. CASE Return(w, "IO") /\ UNCHANGED <<dir, data, synced>>
    BY <1>2, ReturnType DEF OpenTmp, TypeOK
  <1>3. CASE \E i \in Opened(Tmp(w, f)) :
               /\ dir' = [dir EXCEPT ![Tmp(w, f)] = i]
               /\ data' = [data EXCEPT ![f][i] = <<>>]
               /\ synced' = synced \ {<<f, i>>}
               /\ Step(w, [wk[w] EXCEPT !.pc = "write", !.ino = i, !.off = 0])
    <2>1. PICK i \in Opened(Tmp(w, f)) :
               /\ dir' = [dir EXCEPT ![Tmp(w, f)] = i]
               /\ data' = [data EXCEPT ![f][i] = <<>>]
               /\ synced' = synced \ {<<f, i>>}
               /\ Step(w, [wk[w] EXCEPT !.pc = "write", !.ino = i, !.off = 0])
      BY <1>3
    <2>2. i \in Slots
      BY <1>1, OpenedInode
    <2>3. [wk[w] EXCEPT !.pc = "write", !.ino = i, !.off = 0] \in CallState
      <3>1. 0 \in 0..2 /\ "write" \in {"write", "read"}
        OBVIOUS
      <3>2. QED
        BY <2>2, <3>1, CallTyping, OpenUpdate, Zenon
    <2>4. wk' \in [Workers -> CallState]
      BY <2>1, <2>3, StepType
    <2>5. data' \in [Files -> [Slots -> Bytes]]
      BY <1>1, <2>1, <2>2, EmptyBytes DEF TypeOK
    <2>6. QED
      BY <1>1, <2>1, <2>2, <2>4, <2>5 DEF OpenTmp, TypeOK
  <1>4. QED
    BY <1>2, <1>3 DEF OpenTmp

LEMMA WriteType ==
  ASSUME TypeOK, CallShape, NEW w \in Workers, Write(w)
  PROVE  TypeOK'
  <1> DEFINE f == wk[w].file
             i == wk[w].ino
  <1>1. /\ f \in Files /\ i \in Slots /\ wk[w].off \in 0..1 /\ wk[w].val \in Payloads
        /\ data[f][i] \in Bytes
    <2>1. f \in Files
      BY BusyFile DEF Write, WriteUpTo, Writing
    <2>2. i \in Slots /\ wk[w].off < 2 /\ wk[w].val \in Payloads
      BY DEF Write, WriteUpTo, CallShape, Shaped, Writing
    <2>3. wk[w].off \in 0..2
      BY CallTyping DEF CallState
    <2>4. QED
      BY <2>1, <2>2, <2>3 DEF TypeOK
  <1>2. CASE Abandon(w)
    BY <1>1, <1>2, AbandonType DEF Write, WriteUpTo, TypeOK
  <1>3. CASE /\ data' = [data EXCEPT ![f][i] = WriteAt(@, wk[w].off, wk[w].val)]
             /\ synced' = synced \ {<<f, i>>}
             /\ Step(w, [wk[w] EXCEPT !.off = @ + 1,
                                      !.pc = IF wk[w].off = 1 THEN "sync" ELSE "write"])
             /\ UNCHANGED dir
    <2>1. WriteAt(data[f][i], wk[w].off, wk[w].val) \in Bytes
      BY <1>1, WriteAtResult DEF Chunk
    <2>2. data' \in [Files -> [Slots -> Bytes]]
      BY <1>1, <1>3, <2>1 DEF TypeOK
    <2>3. [wk[w] EXCEPT !.off = @ + 1,
                        !.pc = IF wk[w].off = 1 THEN "sync" ELSE "write"] \in CallState
      <3>1. /\ wk[w].off + 1 \in 0..2
            /\ (IF wk[w].off = 1 THEN "sync" ELSE "write") \in {"sync", "write"}
        BY <1>1
      <3>2. QED
        BY <3>1, CallTyping, WriteUpdate, Zenon
    <2>4. wk' \in [Workers -> CallState]
      BY <1>3, <2>3, StepType
    <2>5. QED
      BY <1>3, <2>2, <2>4 DEF Write, WriteUpTo, TypeOK
  <1>4. QED
    BY <1>2, <1>3 DEF Write, WriteUpTo

LEMMA RenameType ==
  ASSUME TypeOK, CallShape, NEW w \in Workers, Sync(w) \/ Rename(w)
  PROVE  TypeOK'
  <1> DEFINE f == wk[w].file
  <1>1. /\ f \in Files /\ Tmp(w, f) \in Names /\ Final(f) \in Names
        /\ wk[w].ino \in Slots /\ wk[w].key \in Keys
    <2>1. f \in Files
      BY BusyFile DEF Sync, Rename, Writing
    <2>2. wk[w].ino \in Slots /\ wk[w].key \in Keys
      BY DEF Sync, Rename, CallShape, Shaped, Writing
    <2>3. QED
      BY <2>1, <2>2, NameTypes DEF TypeOK
  <1>2. CASE Abandon(w) /\ UNCHANGED <<env, disk, calls, put, stored, forged>>
    BY <1>1, <1>2, AbandonType DEF TypeOK
  <1>3. CASE Sync(w) /\ ~(Abandon(w) /\ UNCHANGED <<env, disk, calls, put, stored, forged>>)
    <2>1. [wk[w] EXCEPT !.pc = "rename"] \in CallState
      BY DEF TypeOK, CallState
    <2>2. wk' \in [Workers -> CallState]
      BY <1>3, <2>1, StepType DEF Sync
    <2>3. QED
      BY <1>1, <1>3, <2>2 DEF Sync, TypeOK
  <1>4. CASE Rename(w) /\ ~(Abandon(w) /\ UNCHANGED <<env, disk, calls, put, stored, forged>>)
    <2>1. dir' \in [Names -> Slots \cup {None}]
      BY <1>1, <1>4 DEF Rename, TypeOK
    <2>2. CASE f \in Payloads
      <3>1. [wk[w] EXCEPT !.pc = "open", !.file = wk[w].key, !.ino = None] \in CallState
        BY <1>1, CallTyping DEF CallState, Files
      <3>2. wk' \in [Workers -> CallState]
        BY <1>4, <2>2, <3>1, StepType DEF Rename
      <3>3. QED
        BY <1>4, <2>1, <2>2, <3>2 DEF Rename, TypeOK
    <2>3. CASE f \notin Payloads
      <3>1. wk' \in [Workers -> CallState]
        BY <1>4, <2>3, ReturnType DEF Rename
      <3>2. stored' = stored \cup {f} /\ f \in Keys
        BY <1>1, <1>4, <2>3 DEF Rename, Files
      <3>3. QED
        BY <1>4, <2>1, <3>1, <3>2 DEF Rename, TypeOK
    <2>4. QED
      BY <2>2, <2>3
  <1>5. QED
    BY <1>2, <1>3, <1>4 DEF Sync, Rename

\* A final name that exists refers to an inode with a content.
LEMMA ContentType ==
  ASSUME TypeOK, NEW f \in Files, Exists(f)
  PROVE  dir[Final(f)] \in Slots /\ Content(f) \in Bytes
  <1>1. Final(f) \in Names
    BY DEF Final, Names
  <1>2. dir[Final(f)] \in Slots
    BY <1>1 DEF TypeOK, Exists
  <1>3. QED
    BY <1>2 DEF TypeOK, Content

LEMMA OpenReadType ==
  ASSUME TypeOK, CallShape, NEW w \in Workers, OpenRead(w)
  PROVE  TypeOK'
  <1> DEFINE f == wk[w].file
  <1>1. f \in Files
    BY BusyFile DEF OpenRead, Reading
  <1>2. wk' \in [Workers -> CallState]
    <2>1. CASE \/ ~Exists(f) /\ Return(w, "NOTFOUND")
               \/ Return(w, "IO")
      BY <2>1, ReturnType
    <2>2. CASE Exists(f) /\ Step(w, [wk[w] EXCEPT !.pc = "read", !.ino = dir[Final(f)],
                                                  !.off = Len(Content(f))])
      <3>1. dir[Final(f)] \in Slots /\ Len(Content(f)) \in 0..2
        BY <1>1, <2>2, ContentType, BytesAreSeq
      <3>2. "read" \in {"write", "read"}
        OBVIOUS
      <3>3. [wk[w] EXCEPT !.pc = "read", !.ino = dir[Final(f)],
                          !.off = Len(Content(f))] \in CallState
        BY <3>1, <3>2, CallTyping, OpenUpdate, Zenon
      <3>4. QED
        BY <2>2, <3>3, StepType, Zenon
    <2>3. QED
      BY <2>1, <2>2 DEF OpenRead
  <1>3. QED
    BY <1>2 DEF OpenRead, TypeOK

\* An address read from the index entry of k is one it may name.
LEMMA ResolvedPut ==
  ASSUME TypeOK, CallShape, BytesPut, NEW w \in Workers,
         wk[w].pc = "read", wk[w].file \in Keys,
         Len(BytesRead(w)) = 2, Hole # BytesRead(w)[1]
  PROVE  BytesRead(w)[1] \in Payloads /\ <<wk[w].file, BytesRead(w)[1]>> \in Named
  <1> DEFINE c == BytesRead(w)
             f == wk[w].file
             s == data[f][wk[w].ino]
  <1>1. f \in Files /\ wk[w].ino \in Slots
    BY DEF Files, CallShape, Shaped
  <1>2. c \in Bytes /\ Len(c) <= Len(s) /\ \A n \in 1..Len(c) : c[n] = s[n]
    BY ReadResult
  <1>3. s \in Bytes /\ Len(s) \in 0..2
    BY <1>1, BytesAreSeq DEF TypeOK
  <1>4. c[1] = s[1] /\ 1 \in 1..Len(s)
    BY <1>2, <1>3
  <1>5. c[1] \in PutIn(f)
    BY <1>1, <1>4 DEF BytesPut, Made
  <1>6. QED
    BY <1>5, StoreAssumption DEF PutIn

LEMMA ResolveType ==
  ASSUME TypeOK, CallShape, BytesPut, NEW w \in Workers, Resolve(w)
  PROVE  TypeOK'
  <1> DEFINE c == BytesRead(w)
  <1>1. wk' \in [Workers -> CallState]
    <2>1. CASE Return(w, "FORMAT") \/ Return(w, "NOTFOUND") \/ Return(w, "IO")
      BY <2>1, ReturnType
    <2>2. CASE /\ Len(c) = 2 /\ Hole \notin {c[1], c[2]} /\ c[1] = c[2]
               /\ Step(w, [wk[w] EXCEPT !.pc = "open_read", !.val = c[1], !.file = c[1],
                                        !.ino = None])
      <3>1. c[1] \in Payloads
        BY <2>2, ResolvedPut DEF Resolve
      <3>2. [wk[w] EXCEPT !.pc = "open_read", !.val = c[1], !.file = c[1], !.ino = None]
              \in CallState
        BY <3>1, CallTyping DEF CallState, Files
      <3>3. QED
        BY <2>2, <3>2, StepType, Zenon
    <2>3. QED
      BY <2>1, <2>2 DEF Resolve
  <1>2. QED
    BY <1>1 DEF Resolve, TypeOK

LEMMA DeliverUpdate ==
  ASSUME NEW r \in CallState, NEW o \in {"none", "put", "get", "get_blob"},
         NEW k \in Keys \cup {None}, NEW v \in Payloads \cup {None}
  PROVE  [r EXCEPT !.op = o, !.key = k, !.rc = "OK", !.val = v] \in CallState
  BY DEF CallState

LEMMA ReadBlobType ==
  ASSUME TypeOK, NEW w \in Workers, ReadBlob(w)
  PROVE  TypeOK'
  <1>1. wk' \in [Workers -> CallState]
    <2>1. CASE Return(w, "INTEGRITY") \/ Return(w, "IO")
      BY <2>1, ReturnType
    <2>2. CASE Deliver(w, BytesRead(w))
      <3>1. [Idle EXCEPT !.op = wk[w].op, !.key = wk[w].key, !.rc = "OK",
               !.val = IF BytesRead(w) = Whole(wk[w].val) THEN wk[w].val ELSE None]
              \in CallState
        <4>1. /\ wk[w].op \in {"none", "put", "get", "get_blob"}
              /\ wk[w].key \in Keys \cup {None} /\ wk[w].val \in Payloads \cup {None}
          BY CallTyping DEF CallState
        <4>2. (IF BytesRead(w) = Whole(wk[w].val) THEN wk[w].val ELSE None)
                \in Payloads \cup {None}
          BY <4>1
        <4>3. QED
          BY <4>1, <4>2, IdleType, DeliverUpdate, Zenon
      <3>2. QED
        BY <2>2, <3>1, StepType, Zenon DEF Deliver
    <2>3. QED
      BY <2>1, <2>2 DEF ReadBlob
  <1>2. QED
    BY <1>1 DEF ReadBlob, TypeOK

LEMMA CallUpdates ==
  ASSUME NEW r \in CallState
  PROVE  /\ \A k \in Keys, d \in Payloads :
              [r EXCEPT !.op = "put", !.pc = "check", !.key = k, !.val = d] \in CallState
         /\ \A k \in Keys :
              [r EXCEPT !.op = "get", !.pc = "open_read", !.key = k, !.file = k] \in CallState
         /\ \A d \in Payloads :
              [r EXCEPT !.op = "get_blob", !.pc = "open_read", !.val = d, !.file = d]
                \in CallState
  <1>1. ASSUME NEW k \in Keys, NEW d \in Payloads
        PROVE  [r EXCEPT !.op = "put", !.pc = "check", !.key = k, !.val = d] \in CallState
    BY DEF CallState
  <1>2. ASSUME NEW k \in Keys
        PROVE  [r EXCEPT !.op = "get", !.pc = "open_read", !.key = k, !.file = k] \in CallState
    BY DEF CallState, Files
  <1>3. ASSUME NEW d \in Payloads
        PROVE  [r EXCEPT !.op = "get_blob", !.pc = "open_read", !.val = d, !.file = d]
                 \in CallState
    BY DEF CallState, Files
  <1>4. QED
    BY <1>1, <1>2, <1>3

LEMMA CallCount ==
  ASSUME TypeOK, NEW w, NEW r, Call(w, r)
  PROVE  calls' \in 0..MaxCalls
  BY StoreAssumption DEF TypeOK, Call

\* The steps that begin a call, and the check for the blob.
LEMMA CallType ==
  ASSUME TypeOK, CallShape, NEW w \in Workers,
         \/ \E k \in Keys, d \in Payloads : PutBlob(w, k, d)
         \/ CheckBlob(w)
         \/ \E k \in Keys : GetTu(w, k)
         \/ \E d \in Payloads : GetBlob(w, d)
  PROVE  TypeOK'
  <1>1. CASE \E k \in Keys, d \in Payloads : PutBlob(w, k, d)
    <2>1. PICK k \in Keys, d \in Payloads : PutBlob(w, k, d)
      BY <1>1
    <2>2. [Idle EXCEPT !.op = "put", !.pc = "check", !.key = k, !.val = d] \in CallState
      BY IdleType, CallUpdates, Zenon
    <2>3. wk' \in [Workers -> CallState]
      BY <2>1, <2>2, StepType, Zenon DEF PutBlob, Call
    <2>4. QED
      <3>1. put' \subseteq Keys \X Payloads
        <4>1. put' = put \cup {<<k, d>>} /\ put \subseteq Keys \X Payloads
          BY <2>1 DEF PutBlob, TypeOK
        <4>2. QED
          BY <4>1
      <3>2. QED
        BY <2>1, <2>3, <3>1, CallCount DEF PutBlob, TypeOK
  <1>2. CASE CheckBlob(w)
    <2>1. wk[w].key \in Keys /\ wk[w].val \in Payloads
      BY <1>2 DEF CheckBlob, CallShape, Shaped
    <2>2. [wk[w] EXCEPT !.pc = "open",
             !.file = IF Exists(wk[w].val) THEN wk[w].key ELSE wk[w].val] \in CallState
      BY <2>1, CallTyping DEF CallState, Files
    <2>3. wk' \in [Workers -> CallState]
      BY <1>2, <2>2, StepType, Zenon DEF CheckBlob
    <2>4. QED
      BY <1>2, <2>3 DEF CheckBlob, TypeOK
  <1>3. CASE \E k \in Keys : GetTu(w, k)
    <2>1. PICK k \in Keys : GetTu(w, k)
      BY <1>3
    <2>2. [Idle EXCEPT !.op = "get", !.pc = "open_read", !.key = k, !.file = k] \in CallState
      BY IdleType, CallUpdates, Zenon
    <2>3. wk' \in [Workers -> CallState]
      BY <2>1, <2>2, StepType, Zenon DEF GetTu, Call
    <2>4. QED
      BY <2>1, <2>3, CallCount DEF GetTu, TypeOK
  <1>4. CASE \E d \in Payloads : GetBlob(w, d)
    <2>1. PICK d \in Payloads : GetBlob(w, d)
      BY <1>4
    <2>2. [Idle EXCEPT !.op = "get_blob", !.pc = "open_read", !.val = d, !.file = d]
            \in CallState
      BY IdleType, CallUpdates, Zenon
    <2>3. wk' \in [Workers -> CallState]
      BY <2>1, <2>2, StepType, Zenon DEF GetBlob, Call
    <2>4. QED
      BY <2>1, <2>3, CallCount DEF GetBlob, TypeOK
  <1>5. QED
    BY <1>1, <1>2, <1>3, <1>4

\* Kills, power losses, journal commits and altered bytes.
LEMMA FaultType ==
  ASSUME TypeOK,
         \/ \E p \in Pids : Kill(p)
         \/ \E f \in Files : Commit(f)
         \/ PowerLoss
         \/ \E f \in Files, c \in Chunk : Rot(f, c)
  PROVE  TypeOK'
  <1>1. CASE \E p \in Pids : Kill(p)
    BY <1>1, IdleType DEF Kill, TypeOK
  <1>2. CASE \E f \in Files : Commit(f)
    <2>1. PICK f \in Files : Commit(f)
      BY <1>2
    <2>2. Durable(f) \in Bytes \cup {None}
      BY ContentType, EmptyBytes DEF Durable
    <2>3. QED
      BY <2>1, <2>2 DEF Commit, TypeOK
  <1>3. CASE PowerLoss
    <2>1. dir' \in [Names -> Slots \cup {None}]
      BY <1>3, StoreAssumption DEF PowerLoss
    <2>2. data' \in [Files -> [Slots -> Bytes]]
      BY <1>3, EmptyBytes DEF PowerLoss, TypeOK
    <2>3. synced' \subseteq Files \X Slots
      BY <1>3, StoreAssumption DEF PowerLoss
    <2>4. wk' \in [Workers -> CallState]
      BY <1>3, IdleType DEF PowerLoss
    <2>5. QED
      BY <1>3, <2>1, <2>2, <2>3, <2>4 DEF PowerLoss, TypeOK
  <1>4. CASE \E f \in Files, c \in Chunk : Rot(f, c)
    <2>1. PICK f \in Files, c \in Chunk : Rot(f, c)
      BY <1>4
    <2>2. dir[Final(f)] \in Slots
      BY <2>1, ContentType DEF Rot
    <2>3. Whole(c) \in Bytes
      BY WholeBytes
    <2>4. forged' \subseteq Keys \X Payloads
      BY <2>1 DEF Rot, TypeOK, Files, Chunk
    <2>5. QED
      BY <2>1, <2>2, <2>3, <2>4 DEF Rot, TypeOK
  <1>5. QED
    BY <1>1, <1>2, <1>3, <1>4

\* Every step keeps the types.
LEMMA TypeStep ==
  ASSUME TypeOK, CallShape, BytesPut, [Next]_vars
  PROVE  TypeOK'
  <1>1. CASE UNCHANGED vars
    BY <1>1 DEF vars, TypeOK
  <1>2. CASE Next
    BY <1>2, CallType, OpenTmpType, WriteType, RenameType, OpenReadType, ResolveType,
       ReadBlobType, FaultType
    DEF Next
  <1>3. QED
    BY <1>1, <1>2

-----------------------------------------------------------------------------
(* What the calls hold *)

\* Nobody takes a put back, nor an address an entry has held.
LEMMA PutGrows ==
  ASSUME [Next]_vars
  PROVE  put \subseteq put' /\ Named \subseteq Named'
  BY DEF Named, Next, vars, PutBlob, CheckBlob, OpenTmp, Write, WriteUpTo, Sync, Rename, GetTu,
     GetBlob, OpenRead, Resolve, ReadBlob, Kill, Commit, PowerLoss, Rot

\* More puts leave a call as it is.
LEMMA ShapedGrows ==
  ASSUME NEW r, NEW P, NEW Q, NEW R, NEW S, P \subseteq R, Q \subseteq S, Shaped(r, P, Q)
  PROVE  Shaped(r, R, S)
  BY DEF Shaped

\* A call that has failed, or was killed, holds nothing.
LEMMA IdleShaped ==
  ASSUME NEW P, NEW Q
  PROVE  /\ Shaped(Idle, P, Q)
         /\ \A rc : Shaped([Idle EXCEPT !.rc = rc], P, Q)
  BY DEF Idle, Shaped, Writing, Reading

LEMMA StepShape ==
  ASSUME TypeOK, CallShape, put \subseteq put', Named \subseteq Named', NEW w \in Workers,
         NEW r, Step(w, r),
         Shaped(r, put', Named')
  PROVE  CallShape'
  BY StepFrame, ShapedGrows DEF CallShape

LEMMA ReturnShape ==
  ASSUME TypeOK, CallShape, put \subseteq put', Named \subseteq Named', NEW w \in Workers,
         NEW rc, Return(w, rc)
  PROVE  CallShape'
  BY StepShape, IdleShaped DEF Return

\* The steps of a put.
LEMMA PutShape ==
  ASSUME TypeOK, CallShape, put \subseteq put', Named \subseteq Named', NEW w \in Workers,
         \/ \E k \in Keys, d \in Payloads : PutBlob(w, k, d)
         \/ CheckBlob(w) \/ OpenTmp(w) \/ Write(w) \/ Sync(w) \/ Rename(w)
  PROVE  CallShape'
  <1> DEFINE r == wk[w]
  <1>0. Shaped(r, put, Named) /\ Shaped(r, put', Named') /\ r \in CallState
    BY ShapedGrows, CallTyping DEF CallShape
  <1>1. CASE \E k \in Keys, d \in Payloads : PutBlob(w, k, d)
    <2>1. PICK k \in Keys, d \in Payloads : PutBlob(w, k, d)
      BY <1>1
    <2>2. <<k, d>> \in put'
      BY <2>1 DEF PutBlob
    <2>3. Shaped([Idle EXCEPT !.op = "put", !.pc = "check", !.key = k, !.val = d], put', Named')
      BY <2>2 DEF Idle, Shaped, Writing, Reading
    <2>4. QED
      BY <2>1, <2>3, StepShape DEF PutBlob, Call
  <1>2. CASE CheckBlob(w)
    <2>1. Shaped([r EXCEPT !.pc = "open",
                   !.file = IF Exists(r.val) THEN r.key ELSE r.val], put', Named')
      BY <1>0, <1>2 DEF CheckBlob, CallState, Shaped, Writing, Reading
    <2>2. QED
      BY <1>2, <2>1, StepShape DEF CheckBlob
  <1>3. CASE OpenTmp(w)
    <2>1. r.file \in Files /\ Tmp(w, r.file) \in Names
      BY <1>3, BusyFile, NameTypes DEF OpenTmp, Writing, TypeOK
    <2>2. CASE Return(w, "IO")
      BY <2>2, ReturnShape
    <2>3. CASE \E i \in Opened(Tmp(w, r.file)) :
                 Step(w, [r EXCEPT !.pc = "write", !.ino = i, !.off = 0])
      <3>1. PICK i \in Opened(Tmp(w, r.file)) :
                 Step(w, [r EXCEPT !.pc = "write", !.ino = i, !.off = 0])
        BY <2>3
      <3>2. i \in Slots
        BY <2>1, OpenedInode
      <3>3. Shaped([r EXCEPT !.pc = "write", !.ino = i, !.off = 0], put', Named')
        <4>1. r.pc = "open"
          BY <1>3 DEF OpenTmp
        <4>2. QED
          BY <1>0, <3>2, <4>1 DEF CallState, Shaped, Writing, Reading
      <3>4. QED
        BY <3>1, <3>3, StepShape
    <2>4. QED
      BY <1>3, <2>2, <2>3 DEF OpenTmp
  <1>4. CASE Write(w)
    <2>1. CASE Return(w, "IO")
      BY <2>1, ReturnShape
    <2>2. CASE Step(w, [r EXCEPT !.off = @ + 1,
                          !.pc = IF r.off = 1 THEN "sync" ELSE "write"])
      <3>1. Shaped([r EXCEPT !.off = @ + 1,
                          !.pc = IF r.off = 1 THEN "sync" ELSE "write"], put', Named')
        BY <1>0, <1>4 DEF Write, WriteUpTo, CallState, Shaped, Writing, Reading
      <3>2. QED
        BY <2>2, <3>1, StepShape
    <2>3. QED
      BY <1>4, <2>1, <2>2 DEF Write, WriteUpTo, Abandon
  <1>5. CASE Sync(w)
    <2>1. CASE Return(w, "IO")
      BY <2>1, ReturnShape
    <2>2. CASE Step(w, [r EXCEPT !.pc = "rename"])
      <3>1. Shaped([r EXCEPT !.pc = "rename"], put', Named')
        BY <1>0, <1>5 DEF Sync, CallState, Shaped, Writing, Reading
      <3>2. QED
        BY <2>2, <3>1, StepShape
    <2>3. QED
      BY <1>5, <2>1, <2>2 DEF Sync, Abandon
  <1>6. CASE Rename(w)
    <2>1. CASE Return(w, "IO") \/ Return(w, "OK")
      BY <2>1, ReturnShape
    <2>2. CASE Step(w, [r EXCEPT !.pc = "open", !.file = r.key, !.ino = None])
      <3>1. Shaped([r EXCEPT !.pc = "open", !.file = r.key, !.ino = None], put', Named')
        BY <1>0, <1>6 DEF Rename, CallState, Shaped, Writing, Reading
      <3>2. QED
        BY <2>2, <3>1, StepShape
    <2>3. QED
      BY <1>6, <2>1, <2>2 DEF Rename, Abandon
  <1>7. QED
    BY <1>1, <1>2, <1>3, <1>4, <1>5, <1>6

\* The bytes of a blob are found only in a blob that was put.
LEMMA ReadPut ==
  ASSUME TypeOK, CallShape, BytesPut, NEW w \in Workers,
         wk[w].pc = "read", wk[w].file \in Payloads, wk[w].val = wk[w].file,
         BytesRead(w) = Whole(wk[w].val)
  PROVE  \E k \in Keys : <<k, wk[w].val>> \in put
  <1> DEFINE d == wk[w].val
             s == data[d][wk[w].ino]
  <1>1. d \in Files /\ wk[w].ino \in Slots /\ s \in Bytes
    BY DEF Files, CallShape, Shaped, TypeOK
  <1>2. Len(Whole(d)) = 2 /\ Whole(d)[1] = d
    BY WholeBytes DEF Chunk
  <1>3. Len(s) \in 0..2 /\ 2 <= Len(s) /\ s[1] = d
    <2>1. Len(s) \in 0..2
      BY <1>1, BytesAreSeq
    <2>2. /\ Len(BytesRead(w)) <= Len(s)
          /\ \A n \in 1..Len(BytesRead(w)) : BytesRead(w)[n] = s[n]
      BY ReadResult
    <2>3. QED
      BY <1>2, <2>1, <2>2
  <1>4. d \in PutIn(d)
    <2>1. s[1] \in PutIn(d) \cup {Hole}
      BY <1>1, <1>3 DEF BytesPut, Made
    <2>2. QED
      BY <1>3, <2>1, StoreAssumption
  <1>5. QED
    BY <1>4, StoreAssumption DEF PutIn

\* The steps of a get.
LEMMA GetShape ==
  ASSUME TypeOK, CallShape, BytesPut, put' = put, Named' = Named, NEW w \in Workers,
         \/ \E k \in Keys : GetTu(w, k)
         \/ \E d \in Payloads : GetBlob(w, d)
         \/ OpenRead(w) \/ Resolve(w) \/ ReadBlob(w)
  PROVE  CallShape'
  <1> DEFINE r == wk[w]
  <1>0. Shaped(r, put, Named) /\ Shaped(r, put', Named') /\ r \in CallState
    BY CallTyping DEF CallShape
  <1>1. CASE \E k \in Keys : GetTu(w, k)
    <2>1. PICK k \in Keys : GetTu(w, k)
      BY <1>1
    <2>2. Shaped([Idle EXCEPT !.op = "get", !.pc = "open_read", !.key = k, !.file = k], put', Named')
      BY DEF Idle, Shaped, Writing, Reading
    <2>3. QED
      BY <2>1, <2>2, StepShape DEF GetTu, Call
  <1>2. CASE \E d \in Payloads : GetBlob(w, d)
    <2>1. PICK d \in Payloads : GetBlob(w, d)
      BY <1>2
    <2>2. Shaped([Idle EXCEPT !.op = "get_blob", !.pc = "open_read", !.val = d, !.file = d],
                 put', Named')
      BY DEF Idle, Shaped, Writing, Reading
    <2>3. QED
      BY <2>1, <2>2, StepShape DEF GetBlob, Call
  <1>3. CASE OpenRead(w)
    <2>1. r.file \in Files /\ r.pc = "open_read"
      BY <1>3, BusyFile DEF OpenRead, Reading
    <2>2. CASE Return(w, "IO") \/ Return(w, "NOTFOUND")
      BY <2>2, ReturnShape
    <2>3. CASE Exists(r.file) /\ Step(w, [r EXCEPT !.pc = "read", !.ino = dir[Final(r.file)],
                                                    !.off = Len(Content(r.file))])
      <3>1. dir[Final(r.file)] \in Slots
        BY <2>1, <2>3, ContentType
      <3>2. Shaped([r EXCEPT !.pc = "read", !.ino = dir[Final(r.file)],
                             !.off = Len(Content(r.file))], put', Named')
        BY <1>0, <2>1, <3>1 DEF CallState, Shaped, Writing, Reading
      <3>3. QED
        BY <2>3, <3>2, StepShape
    <2>4. QED
      BY <1>3, <2>2, <2>3 DEF OpenRead
  <1>4. CASE Resolve(w)
    <2> DEFINE c == BytesRead(w)
    <2>1. r.pc = "read" /\ r.file \in Keys
      BY <1>4 DEF Resolve
    <2>2. CASE Return(w, "IO") \/ Return(w, "NOTFOUND") \/ Return(w, "FORMAT")
      BY <2>2, ReturnShape
    <2>3. CASE /\ Len(c) = 2 /\ Hole \notin {c[1], c[2]}
               /\ Step(w, [r EXCEPT !.pc = "open_read", !.val = c[1], !.file = c[1],
                                    !.ino = None])
      <3>1. c[1] \in Payloads /\ <<r.file, c[1]>> \in Named
        BY <2>1, <2>3, ResolvedPut
      <3>2. r.op = "get" /\ r.key = r.file
        BY <1>0, <2>1, StoreAssumption DEF Shaped, Reading
      <3>3. Shaped([r EXCEPT !.pc = "open_read", !.val = c[1], !.file = c[1],
                             !.ino = None], put', Named')
        BY <1>0, <2>1, <3>1, <3>2 DEF CallState, Shaped, Writing, Reading
      <3>4. QED
        BY <2>3, <3>3, StepShape
    <2>4. QED
      BY <1>4, <2>2, <2>3 DEF Resolve
  <1>5. CASE ReadBlob(w)
    <2>1. r.pc = "read" /\ r.file \in Payloads
      BY <1>5 DEF ReadBlob
    <2>2. CASE Return(w, "IO") \/ Return(w, "INTEGRITY")
      BY <2>2, ReturnShape
    <2>3. CASE BytesRead(w) = Whole(r.val) /\ Deliver(w, BytesRead(w))
      <3> DEFINE q == [Idle EXCEPT !.op = r.op, !.key = r.key, !.rc = "OK", !.val = r.val]
      <3>1. Step(w, q)
        BY <2>3 DEF Deliver
      <3>2. /\ r.op \in {"get", "get_blob"}
            /\ \E k \in Keys : <<k, r.val>> \in put
            /\ r.op = "get" => <<r.key, r.val>> \in Named
        BY <1>0, <2>1, <2>3, ReadPut, StoreAssumption DEF Shaped, Reading
      <3>3. Shaped(q, put', Named')
        BY <3>2 DEF Idle, Shaped, Writing, Reading
      <3>4. QED
        BY <3>1, <3>3, StepShape
    <2>4. QED
      BY <1>5, <2>2, <2>3 DEF ReadBlob
  <1>6. QED
    BY <1>1, <1>2, <1>3, <1>4, <1>5

LEMMA ShapeStep ==
  ASSUME TypeOK, CallShape, BytesPut, [Next]_vars
  PROVE  CallShape'
  <1>1. put \subseteq put' /\ Named \subseteq Named'
    BY PutGrows
  <1>2. CASE UNCHANGED wk
    BY <1>1, <1>2, ShapedGrows DEF CallShape
  <1>3. ASSUME NEW w \in Workers,
               \/ \E k \in Keys, d \in Payloads : PutBlob(w, k, d)
               \/ CheckBlob(w) \/ OpenTmp(w) \/ Write(w) \/ Sync(w) \/ Rename(w)
        PROVE  CallShape'
    BY <1>1, <1>3, PutShape
  <1>4. ASSUME NEW w \in Workers,
               \/ \E k \in Keys : GetTu(w, k)
               \/ \E d \in Payloads : GetBlob(w, d)
               \/ OpenRead(w) \/ Resolve(w) \/ ReadBlob(w)
        PROVE  CallShape'
    <2>1. put' = put /\ Named' = Named
      BY <1>4 DEF Named, GetTu, GetBlob, OpenRead, Resolve, ReadBlob
    <2>2. QED
      BY <1>4, <2>1, GetShape
  <1>5. CASE PowerLoss \/ \E p \in Pids : Kill(p)
    BY <1>1, <1>5, ShapedGrows, IdleShaped DEF CallShape, PowerLoss, Kill
  <1>6. CASE (\E f \in Files : Commit(f)) \/ (\E f \in Files, c \in Chunk : Rot(f, c))
    BY <1>2, <1>6 DEF Commit, Rot
  <1>7. QED
    BY <1>2, <1>3, <1>4, <1>5, <1>6 DEF Next, vars

-----------------------------------------------------------------------------
(* What the files hold *)

LEMMA PutInGrows ==
  ASSUME put \subseteq put' /\ Named \subseteq Named', NEW f
  PROVE  PutIn(f) \subseteq PutIn(f)'
  BY DEF PutIn, Named

LEMMA MadeGrows ==
  ASSUME NEW s, NEW D, NEW E, D \subseteq E, Made(s, D)
  PROVE  Made(s, E)
  BY DEF Made

LEMMA EmptyMade ==
  ASSUME NEW D
  PROVE  Made(<<>>, D)
  BY EmptyBytes DEF Made

\* What a worker writes is put under the file it writes.
LEMMA WriterPut ==
  ASSUME TypeOK, CallShape, NEW w \in Workers, wk[w].pc \in Writing
  PROVE  /\ wk[w].val \in PutIn(wk[w].file) /\ wk[w].val \in Payloads
         /\ wk[w].key \in Keys /\ wk[w].file \in {wk[w].key, wk[w].val}
  BY DEF CallShape, Shaped, PutIn, Named

\* Replacing one inode by bytes of payloads put there, now or before.
LEMMA BytesReplaced ==
  ASSUME TypeOK, BytesPut, put \subseteq put' /\ Named \subseteq Named', disk' = disk,
         NEW f \in Files, NEW i \in Slots, NEW s, Made(s, PutIn(f)'),
         data' = [data EXCEPT ![f][i] = s]
  PROVE  BytesPut'
  <1> SUFFICES ASSUME NEW g \in Files
               PROVE  /\ \A j \in Slots : Made(data'[g][j], PutIn(g)')
                      /\ disk'[g] # None => Made(disk'[g], PutIn(g)')
    BY DEF BytesPut
  <1>1. PutIn(g) \subseteq PutIn(g)'
    BY PutInGrows
  <1>2. disk'[g] # None => Made(disk'[g], PutIn(g)')
    BY <1>1, MadeGrows DEF BytesPut
  <1>3. ASSUME NEW j \in Slots PROVE Made(data'[g][j], PutIn(g)')
    <2>1. Made(data[g][j], PutIn(g)')
      BY <1>1, MadeGrows DEF BytesPut
    <2>2. QED
      BY <2>1 DEF TypeOK
  <1>4. QED
    BY <1>2, <1>3

LEMMA BytesUpdate ==
  ASSUME TypeOK, BytesPut, put \subseteq put' /\ Named \subseteq Named', disk' = disk,
         NEW f \in Files, NEW i \in Slots, NEW s, Made(s, PutIn(f)),
         data' = [data EXCEPT ![f][i] = s]
  PROVE  BytesPut'
  BY PutInGrows, MadeGrows, BytesReplaced

LEMMA BytesKept ==
  ASSUME BytesPut, put \subseteq put' /\ Named \subseteq Named', data' = data, disk' = disk
  PROVE  BytesPut'
  BY PutInGrows, MadeGrows DEF BytesPut

LEMMA WriteBytes ==
  ASSUME TypeOK, CallShape, BytesPut, NEW w \in Workers, Write(w)
  PROVE  BytesPut'
  <1> DEFINE f == wk[w].file
             i == wk[w].ino
  <1>0. wk[w].pc = "write" /\ disk' = disk /\ put' = put /\ forged' = forged
    BY DEF Write, WriteUpTo
  <1>1. f \in Files /\ i \in Slots /\ wk[w].off \in 0..1
    <2>1. f \in Files
      BY <1>0, BusyFile DEF Writing
    <2>2. i \in Slots /\ wk[w].off < 2
      BY <1>0 DEF CallShape, Shaped
    <2>3. wk[w].off \in 0..2
      BY CallTyping DEF CallState
    <2>4. QED
      BY <2>1, <2>2, <2>3
  <1>2. wk[w].val \in PutIn(f) /\ wk[w].val \in Payloads
    BY <1>0, WriterPut DEF Writing
  <1>3. CASE data' = data
    BY <1>0, <1>3, BytesKept DEF Named
  <1>4. CASE data' = [data EXCEPT ![f][i] = WriteAt(@, wk[w].off, wk[w].val)]
    <2> DEFINE s == data[f][i]
               t == WriteAt(s, wk[w].off, wk[w].val)
    <2>1. s \in Bytes /\ Made(s, PutIn(f)) /\ Len(s) \in 0..2
      BY <1>1, BytesAreSeq DEF TypeOK, BytesPut
    <2>2. \A n \in 1..Len(t) : t[n] = IF n = wk[w].off + 1 THEN wk[w].val
                                      ELSE IF n <= Len(s) THEN s[n] ELSE Hole
      <3>1. wk[w].val \in Chunk
        BY <1>2 DEF Chunk
      <3>2. QED
        BY <1>1, <2>1, <3>1, WriteAtResult, Zenon
    <2>3. \A n \in 1..Len(s) : s[n] \in PutIn(f) \cup {Hole}
      BY <2>1 DEF Made
    <2>4. t \in Bytes /\ Len(t) \in 0..2
      BY <1>1, <1>2, <2>1, WriteAtResult, BytesAreSeq DEF Chunk
    <2> HIDE DEF s, t
    <2>5. ASSUME NEW n \in 1..Len(t) PROVE t[n] \in PutIn(f) \cup {Hole}
      <3>1. CASE n = wk[w].off + 1
        BY <1>2, <2>2, <3>1
      <3>2. CASE n # wk[w].off + 1 /\ n <= Len(s)
        <4>1. n \in 1..Len(s)
          BY <2>1, <2>4, <3>2
        <4>2. t[n] = s[n]
          BY <2>2, <3>2
        <4>3. QED
          BY <2>3, <4>1, <4>2
      <3>3. CASE n # wk[w].off + 1 /\ ~(n <= Len(s))
        BY <2>2, <3>3
      <3>4. QED
        BY <3>1, <3>2, <3>3
    <2> USE DEF s, t
    <2>6. Made(t, PutIn(f))
      BY <2>5 DEF Made
    <2>7. data' = [data EXCEPT ![f][i] = t]
      BY <1>4
    <2>8. QED
      BY <1>0, <1>1, <2>6, <2>7, BytesUpdate DEF Named
  <1>5. QED
    BY <1>3, <1>4 DEF Write, WriteUpTo, Abandon

LEMMA BytesStep ==
  ASSUME TypeOK, CallShape, BytesPut, [Next]_vars
  PROVE  BytesPut'
  <1>0. put \subseteq put' /\ Named \subseteq Named'
    BY PutGrows
  <1>1. CASE UNCHANGED <<data, disk>>
    BY <1>0, <1>1, BytesKept
  <1>2. ASSUME NEW w \in Workers, OpenTmp(w) PROVE BytesPut'
    <2> DEFINE f == wk[w].file
    <2>1. f \in Files /\ Tmp(w, f) \in Names
      BY <1>2, BusyFile, NameTypes DEF OpenTmp, Writing, TypeOK
    <2>2. CASE data' = data
      BY <1>1, <1>2, <2>2 DEF OpenTmp
    <2>3. CASE \E i \in Opened(Tmp(w, f)) : data' = [data EXCEPT ![f][i] = <<>>]
      <3>1. PICK i \in Opened(Tmp(w, f)) : data' = [data EXCEPT ![f][i] = <<>>]
        BY <2>3
      <3>2. i \in Slots
        BY <2>1, OpenedInode
      <3>3. disk' = disk
        BY <1>2 DEF OpenTmp
      <3>4. QED
        BY <1>0, <2>1, <3>1, <3>2, <3>3, EmptyMade, BytesUpdate
    <2>4. QED
      BY <1>2, <2>2, <2>3 DEF OpenTmp
  <1>3. ASSUME NEW f \in Files, Commit(f) PROVE BytesPut'
    <2>1. Durable(f) # None => Made(Durable(f), PutIn(f))
      BY ContentType, EmptyMade DEF Durable, Content, BytesPut
    <2>2. data' = data /\ put' = put /\ forged' = forged /\ disk' = [disk EXCEPT ![f] = Durable(f)]
      BY <1>3 DEF Commit
    <2>3. \A g \in Files : PutIn(g)' = PutIn(g)
      BY <2>2 DEF PutIn, Named
    <2>4. QED
      BY <2>1, <2>2, <2>3 DEF BytesPut, TypeOK
  <1>4. CASE PowerLoss
    <2>1. /\ put' = put /\ forged' = forged /\ disk' = disk
          /\ \A f \in Files, i \in Slots :
               data'[f][i] = IF i = 0 /\ disk[f] # None THEN disk[f] ELSE <<>>
      BY <1>4 DEF PowerLoss
    <2>2. \A f \in Files : PutIn(f)' = PutIn(f)
      BY <2>1 DEF PutIn, Named
    <2>3. QED
      BY <2>1, <2>2, EmptyMade DEF BytesPut
  <1>5. ASSUME NEW f \in Files, NEW c \in Chunk, Rot(f, c) PROVE BytesPut'
    <2>1. dir[Final(f)] \in Slots
      BY <1>5, ContentType DEF Rot
    <2>2. Made(Whole(c), PutIn(f)')
      <3>1. Len(Whole(c)) = 2 /\ Whole(c)[1] = c /\ Whole(c)[2] = c
        BY WholeBytes
      <3>2. c \in PutIn(f)' \cup {Hole}
        BY <1>5 DEF Rot, PutIn, Named, Files, Chunk
      <3>3. QED
        BY <3>1, <3>2 DEF Made
    <2>3. data' = [data EXCEPT ![f][dir[Final(f)]] = Whole(c)] /\ disk' = disk
      BY <1>5 DEF Rot
    <2>4. QED
      BY <1>0, <2>1, <2>2, <2>3, BytesReplaced
  <1>6. CASE \/ \E w \in Workers :
                  \/ \E k \in Keys, d \in Payloads : PutBlob(w, k, d)
                  \/ CheckBlob(w) \/ Sync(w) \/ Rename(w)
                  \/ \E k \in Keys : GetTu(w, k)
                  \/ \E d \in Payloads : GetBlob(w, d)
                  \/ OpenRead(w) \/ Resolve(w) \/ ReadBlob(w)
             \/ \E p \in Pids : Kill(p)
             \/ UNCHANGED vars
    <2>1. UNCHANGED <<data, disk>>
      BY <1>6 DEF PutBlob, CheckBlob, Sync, Rename, Abandon, GetTu, GetBlob, OpenRead,
         Resolve, ReadBlob, Kill, vars
    <2>2. QED
      BY <1>1, <2>1
  <1>7. QED
    BY <1>2, <1>3, <1>4, <1>5, <1>6, WriteBytes DEF Next

-----------------------------------------------------------------------------
(* Names and inodes *)

\* Nobody changes the setting.
LEMMA EnvFixed ==
  ASSUME [Next]_vars
  PROVE  env' = env
  BY DEF Next, vars, PutBlob, CheckBlob, OpenTmp, Write, WriteUpTo, Sync, Rename, GetTu,
     GetBlob, OpenRead, Resolve, ReadBlob, Kill, Commit, PowerLoss, Rot

\* Unlinking a name keeps the others apart.
LEMMA ApartDrop ==
  ASSUME TypeOK, NamesApart, NEW n, dir' = [dir EXCEPT ![n] = None]
  PROVE  NamesApart'
  BY DEF TypeOK, NamesApart, Names

\* So does giving it the inode it has or one no name of the file has.
LEMMA ApartOpen ==
  ASSUME TypeOK, NamesApart, NEW n \in Names, NEW i \in Opened(n),
         dir' = [dir EXCEPT ![n] = i]
  PROVE  NamesApart'
  <1>1. i \in Slots /\ (dir[n] = i \/ \A m \in Names : m[1] = n[1] => dir[m] # i)
    BY OpenedInode
  <1>2. CASE dir[n] = i
    BY <1>2 DEF TypeOK, NamesApart, Names
  <1>3. CASE \A m \in Names : m[1] = n[1] => dir[m] # i
    <2> SUFFICES ASSUME NEW f \in Files, NEW x \in Pids \cup {"final"},
                        NEW y \in Pids \cup {"final"},
                        dir'[<<f, x>>] # None, dir'[<<f, x>>] = dir'[<<f, y>>]
                 PROVE  x = y
      BY DEF NamesApart
    <2>1. <<f, x>> \in Names /\ <<f, y>> \in Names
      BY DEF Names
    <2>2. CASE n # <<f, x>> /\ n # <<f, y>>
      BY <2>1, <2>2 DEF TypeOK, NamesApart
    <2>3. CASE n = <<f, x>> /\ n # <<f, y>>
      BY <1>3, <2>1, <2>3 DEF TypeOK
    <2>4. CASE n # <<f, x>> /\ n = <<f, y>>
      BY <1>3, <2>1, <2>4 DEF TypeOK
    <2>5. QED
      BY <2>2, <2>3, <2>4
  <1>4. QED
    BY <1>1, <1>2, <1>3

\* So does renaming.
LEMMA ApartRename ==
  ASSUME TypeOK, NamesApart, NEW f \in Files, NEW p \in Pids, p # "final",
         dir' = [dir EXCEPT ![<<f, "final">>] = dir[<<f, p>>], ![<<f, p>>] = None]
  PROVE  NamesApart'
  <1> SUFFICES ASSUME NEW g \in Files, NEW x \in Pids \cup {"final"},
                      NEW y \in Pids \cup {"final"},
                      dir'[<<g, x>>] # None, dir'[<<g, x>>] = dir'[<<g, y>>]
               PROVE  x = y
    BY DEF NamesApart
  <1>1. /\ <<g, x>> \in Names /\ <<g, y>> \in Names
        /\ <<f, "final">> \in Names /\ <<f, p>> \in Names
    BY DEF Names
  <1>2. CASE g # f
    BY <1>1, <1>2 DEF TypeOK, NamesApart
  <1>3. CASE g = f
    <2>1. x # p /\ y # p
      BY <1>1, <1>3 DEF TypeOK
    <2>2. /\ dir'[<<f, x>>] = IF x = "final" THEN dir[<<f, p>>] ELSE dir[<<f, x>>]
          /\ dir'[<<f, y>>] = IF y = "final" THEN dir[<<f, p>>] ELSE dir[<<f, y>>]
      BY <1>1, <1>3, <2>1 DEF TypeOK
    <2>3. QED
      BY <1>3, <2>1, <2>2 DEF NamesApart
  <1>4. QED
    BY <1>2, <1>3

LEMMA ApartStep ==
  ASSUME TypeOK, CallShape, NamesApart, [Next]_vars
  PROVE  NamesApart'
  <1>1. CASE UNCHANGED dir
    BY <1>1 DEF NamesApart
  <1>2. ASSUME NEW w \in Workers, OpenTmp(w) PROVE NamesApart'
    <2>1. Tmp(w, wk[w].file) \in Names
      BY <1>2, BusyFile, NameTypes DEF OpenTmp, Writing, TypeOK
    <2>2. CASE \E i \in Opened(Tmp(w, wk[w].file)) :
                 dir' = [dir EXCEPT ![Tmp(w, wk[w].file)] = i]
      BY <2>1, <2>2, ApartOpen
    <2>3. QED
      BY <1>1, <1>2, <2>2 DEF OpenTmp
  <1>3. ASSUME NEW w \in Workers, Write(w) \/ Sync(w) PROVE NamesApart'
    BY <1>1, <1>3, ApartDrop DEF Write, WriteUpTo, Sync, Abandon
  <1>4. ASSUME NEW w \in Workers, Rename(w) PROVE NamesApart'
    <2> DEFINE f == wk[w].file
    <2>1. f \in Files /\ env.pid[w] \in Pids /\ env.pid[w] # "final"
      BY <1>4, BusyFile, NameTypes DEF Rename, Writing, TypeOK
    <2>2. CASE dir' = [dir EXCEPT ![Final(f)] = dir[Tmp(w, f)], ![Tmp(w, f)] = None]
      BY <2>1, <2>2, ApartRename DEF Final, Tmp
    <2>3. QED
      BY <1>4, <2>2, ApartDrop DEF Rename, Abandon
  <1>5. CASE PowerLoss
    <2>1. ASSUME NEW f \in Files, NEW x \in Pids \cup {"final"}
          PROVE  dir'[<<f, x>>] # None => x = "final"
      <3>1. <<f, x>> \in Names
        BY DEF Names
      <3>2. QED
        BY <1>5, <3>1 DEF PowerLoss
    <2>2. QED
      BY <2>1 DEF NamesApart
  <1>6. CASE \/ \E w \in Workers :
                  \/ \E k \in Keys, d \in Payloads : PutBlob(w, k, d)
                  \/ CheckBlob(w)
                  \/ \E k \in Keys : GetTu(w, k)
                  \/ \E d \in Payloads : GetBlob(w, d)
                  \/ OpenRead(w) \/ Resolve(w) \/ ReadBlob(w)
             \/ \E p \in Pids : Kill(p)
             \/ \E f \in Files : Commit(f)
             \/ \E f \in Files, c \in Chunk : Rot(f, c)
             \/ UNCHANGED vars
    <2>1. UNCHANGED dir
      BY <1>6 DEF PutBlob, CheckBlob, GetTu, GetBlob, OpenRead, Resolve, ReadBlob, Kill,
         Commit, Rot, vars
    <2>2. QED
      BY <1>1, <2>1
  <1>7. QED
    BY <1>2, <1>3, <1>4, <1>5, <1>6 DEF Next

-----------------------------------------------------------------------------
(* Undisturbed writers *)

\* A step that leaves alone every name but the temporary name n, and the content
\* of every inode another name refers to.
LeavesOthers(n) ==
  /\ \A m \in Names \ {n} :
       /\ dir'[m] = dir[m]
       /\ dir[m] # None =>
            /\ data'[m[1]][dir[m]] = data[m[1]][dir[m]]
            /\ <<m[1], dir[m]>> \in synced => <<m[1], dir[m]>> \in synced'
  /\ env' = env /\ disk' = disk /\ put \subseteq put' /\ Named \subseteq Named'

\* Such a step is not seen through the final names.
LEMMA FinalsKept ==
  ASSUME NEW w \in Workers, NEW f \in Files, env \in Settings, LeavesOthers(Tmp(w, f))
  PROVE  \A g \in Files :
           /\ Exists(g)' <=> Exists(g)
           /\ dir'[Final(g)] = dir[Final(g)]
           /\ Exists(g) => /\ Content(g)' = Content(g)
                           /\ <<g, dir[Final(g)]>> \in synced
                                => <<g, dir[Final(g)]>> \in synced'
  <1> SUFFICES ASSUME NEW g \in Files
               PROVE  /\ Exists(g)' <=> Exists(g)
                      /\ dir'[Final(g)] = dir[Final(g)]
                      /\ Exists(g) => /\ Content(g)' = Content(g)
                                      /\ <<g, dir[Final(g)]>> \in synced
                                           => <<g, dir[Final(g)]>> \in synced'
    OBVIOUS
  <1>1. Final(g) \in Names \ {Tmp(w, f)} /\ Final(g)[1] = g
    <2>1. Final(g) \in Names /\ env.pid[w] # "final"
      BY NameTypes
    <2>2. QED
      BY <2>1 DEF Final, Tmp
  <1>2. QED
    BY <1>1 DEF LeavesOthers, Exists, Content, Final

LEMMA WholeKept ==
  ASSUME TypeOK, Undisturbed, FinalWhole, DiskWhole, NEW w \in Workers, NEW f \in Files,
         LeavesOthers(Tmp(w, f))
  PROVE  FinalWhole' /\ DiskWhole'
  <1>1. \A g : PutIn(g) \subseteq PutIn(g)'
    BY PutInGrows DEF LeavesOthers
  <1>2. FinalWhole'
    BY <1>1, FinalsKept DEF FinalWhole, TypeOK
  <1>3. DiskWhole'
    BY <1>1 DEF DiskWhole, LeavesOthers
  <1>4. QED
    BY <1>2, <1>3

LEMMA StoredKept ==
  ASSUME TypeOK, Undisturbed, StoredNamed, stored' = stored, NEW w \in Workers,
         NEW f \in Files, LeavesOthers(Tmp(w, f))
  PROVE  StoredNamed'
  <1>1. \A k \in stored : k \in Files
    BY DEF TypeOK, Files
  <1>2. \A d \in Payloads : d \in Files
    BY DEF Files
  <1>3. QED
    BY <1>1, <1>2, FinalsKept DEF StoredNamed, TypeOK

\* Another worker's temporary name is another name.
LEMMA OwnsKept ==
  ASSUME TypeOK, CallShape, Undisturbed, NEW w \in Workers, NEW f \in Files,
         LeavesOthers(Tmp(w, f)), NEW v \in Workers \ {w}, wk'[v] = wk[v], Owns(v)
  PROVE  Owns(v)'
  <1> DEFINE r == wk[v]
             n == Tmp(v, r.file)
  <1>1. CASE r.pc \notin {"write", "sync", "rename"}
    BY <1>1 DEF Owns
  <1>2. CASE r.pc \in {"write", "sync", "rename"}
    <2>1. r.file \in Files /\ r.ino \in Slots
      BY <1>2, BusyFile DEF CallShape, Shaped, Writing
    <2>2. n \in Names \ {Tmp(w, f)} /\ n[1] = r.file
      <3>1. n \in Names /\ env.pid[v] # env.pid[w]
        BY <2>1, NameTypes DEF TypeOK, Undisturbed
      <3>2. QED
        BY <3>1 DEF Tmp
    <2>3. dir[n] = r.ino /\ dir[n] # None
      BY <1>2, <2>1, StoreAssumption DEF Owns
    <2>4. /\ dir'[n] = r.ino
          /\ data'[r.file][r.ino] = data[r.file][r.ino]
          /\ <<r.file, r.ino>> \in synced => <<r.file, r.ino>> \in synced'
      BY <2>2, <2>3 DEF LeavesOthers
    <2>5. Tmp(v, r.file)' = n
      BY DEF LeavesOthers, Tmp
    <2>6. QED
      BY <2>4, <2>5 DEF Owns
  <1>3. QED
    BY <1>1, <1>2

LEMMA BlobThereKept ==
  ASSUME TypeOK, CallShape, NEW w \in Workers, NEW f \in Files,
         LeavesOthers(Tmp(w, f)), NEW v \in Workers, wk'[v] = wk[v], BlobThere(v)
  PROVE  BlobThere(v)'
  <1>1. CASE wk[v].pc \in Writing
    <2>1. wk[v].val \in Files
      BY <1>1, WriterPut DEF Files
    <2>2. QED
      BY <2>1, FinalsKept DEF BlobThere, Exists, TypeOK
  <1>2. CASE wk[v].pc \notin Writing
    BY <1>2 DEF BlobThere
  <1>3. QED
    BY <1>1, <1>2

\* A step of w that leaves the others alone is fine if it is fine for w.
LEMMA OthersStep ==
  ASSUME TypeOK, CallShape, Undisturbed, Calm, NEW w \in Workers, NEW f \in Files,
         LeavesOthers(Tmp(w, f)), stored' = stored,
         \A v \in Workers \ {w} : wk'[v] = wk[v], Owns(w)', BlobThere(w)'
  PROVE  Calm'
  <1>1. FinalWhole' /\ DiskWhole'
    BY WholeKept DEF Calm
  <1>2. StoredNamed'
    BY StoredKept DEF Calm
  <1>3. \A v \in Workers : Owns(v)'
    BY OwnsKept DEF Calm, WriterOwns
  <1>4. \A v \in Workers : BlobThere(v)'
    BY BlobThereKept DEF Calm, BlobFirst
  <1>5. QED
    BY <1>1, <1>2, <1>3, <1>4 DEF Calm, WriterOwns, BlobFirst

\* A step that touches no file, and after which no worker newly writes.
LEMMA QuietStep ==
  ASSUME TypeOK, Undisturbed, Calm, put \subseteq put' /\ Named \subseteq Named',
         UNCHANGED <<env, dir, data, synced, disk, stored>>,
         \A v \in Workers :
           \/ wk'[v] = wk[v]
           \/ wk'[v].pc \notin {"write", "sync", "rename"} /\ BlobThere(v)'
  PROVE  Calm'
  <1>1. \A g : PutIn(g) \subseteq PutIn(g)'
    BY PutInGrows
  <1>2. FinalWhole'
    BY <1>1 DEF Calm, FinalWhole, Exists, Content, Final
  <1>3. DiskWhole'
    BY <1>1 DEF Calm, DiskWhole
  <1>4. StoredNamed'
    BY DEF Calm, StoredNamed, Exists, Content, Final
  <1>5. ASSUME NEW v \in Workers PROVE Owns(v)'
    <2>1. CASE wk'[v] = wk[v]
      BY <2>1 DEF Calm, WriterOwns, Owns, Tmp
    <2>2. CASE wk'[v].pc \notin {"write", "sync", "rename"}
      BY <2>2 DEF Owns
    <2>3. QED
      BY <2>1, <2>2
  <1>6. ASSUME NEW v \in Workers PROVE BlobThere(v)'
    BY DEF Calm, BlobFirst, BlobThere, Exists, Final
  <1>7. QED
    BY <1>2, <1>3, <1>4, <1>5, <1>6 DEF Calm, WriterOwns, BlobFirst

LEMMA QuietReturn ==
  ASSUME TypeOK, Undisturbed, Calm, put \subseteq put' /\ Named \subseteq Named', NEW w \in Workers, NEW rc,
         UNCHANGED <<env, dir, data, synced, disk, stored>>, Return(w, rc)
  PROVE  Calm'
  <1>1. wk'[w].pc = "idle"
    BY StepFrame DEF Return, Idle
  <1>2. BlobThere(w)'
    BY <1>1 DEF BlobThere, Writing
  <1>3. QED
    BY <1>1, <1>2, StepFrame, QuietStep DEF Return

\* Calls, checks and reads.
LEMMA CalmQuiet ==
  ASSUME TypeOK, CallShape, Undisturbed, Calm, put \subseteq put' /\ Named \subseteq Named', NEW w \in Workers,
         \/ \E k \in Keys, d \in Payloads : PutBlob(w, k, d)
         \/ CheckBlob(w)
         \/ \E k \in Keys : GetTu(w, k)
         \/ \E d \in Payloads : GetBlob(w, d)
         \/ OpenRead(w) \/ Resolve(w) \/ ReadBlob(w)
  PROVE  Calm'
  <1> DEFINE r == wk[w]
  <1>0. UNCHANGED <<env, dir, data, synced, disk, stored>> /\ r \in CallState
    BY CallTyping
    DEF PutBlob, CheckBlob, GetTu, GetBlob, OpenRead, Resolve, ReadBlob
  <1>1. ASSUME NEW q, Step(w, q), q.pc \notin Writing
        PROVE  Calm'
    <2>1. wk'[w] = q /\ \A v \in Workers \ {w} : wk'[v] = wk[v]
      BY <1>1, StepFrame
    <2>2. BlobThere(w)' /\ q.pc \notin {"write", "sync", "rename"}
      BY <1>1, <2>1 DEF BlobThere, Writing
    <2>3. QED
      BY <1>0, <2>1, <2>2, QuietStep
  <1>2. CASE CheckBlob(w)
    <2> DEFINE q == [r EXCEPT !.pc = "open",
                              !.file = IF Exists(r.val) THEN r.key ELSE r.val]
    <2>1. wk'[w] = q /\ \A v \in Workers \ {w} : wk'[v] = wk[v]
      BY <1>2, StepFrame DEF CheckBlob
    <2>2. r.val \in Payloads
      BY <1>2 DEF CheckBlob, CallShape, Shaped
    <2>3. /\ q.pc = "open" /\ q.val = r.val
          /\ q.file = IF Exists(r.val) THEN r.key ELSE r.val
      BY <1>0 DEF CallState
    <2>4. BlobThere(w)'
      BY <1>0, <2>1, <2>2, <2>3, StoreAssumption DEF BlobThere, Exists, Final
    <2>5. QED
      BY <1>0, <2>1, <2>3, <2>4, QuietStep
  <1>3. CASE \E k \in Keys, d \in Payloads : PutBlob(w, k, d)
    <2>1. PICK k \in Keys, d \in Payloads : PutBlob(w, k, d)
      BY <1>3
    <2>2. [Idle EXCEPT !.op = "put", !.pc = "check", !.key = k, !.val = d].pc = "check"
      BY DEF Idle
    <2>3. QED
      BY <1>1, <2>1, <2>2 DEF PutBlob, Call, Writing
  <1>4. CASE \E k \in Keys : GetTu(w, k)
    <2>1. PICK k \in Keys : GetTu(w, k)
      BY <1>4
    <2>2. [Idle EXCEPT !.op = "get", !.pc = "open_read", !.key = k, !.file = k].pc
            = "open_read"
      BY DEF Idle
    <2>3. QED
      BY <1>1, <2>1, <2>2 DEF GetTu, Call, Writing
  <1>5. CASE \E d \in Payloads : GetBlob(w, d)
    <2>1. PICK d \in Payloads : GetBlob(w, d)
      BY <1>5
    <2>2. [Idle EXCEPT !.op = "get_blob", !.pc = "open_read", !.val = d, !.file = d].pc
            = "open_read"
      BY DEF Idle
    <2>3. QED
      BY <1>1, <2>1, <2>2 DEF GetBlob, Call, Writing
  <1>6. CASE OpenRead(w)
    <2>1. CASE Return(w, "NOTFOUND") \/ Return(w, "IO")
      BY <1>0, <2>1, QuietReturn
    <2>2. CASE Step(w, [r EXCEPT !.pc = "read", !.ino = dir[Final(r.file)],
                                 !.off = Len(Content(r.file))])
      <3>1. [r EXCEPT !.pc = "read", !.ino = dir[Final(r.file)],
                      !.off = Len(Content(r.file))].pc = "read"
        BY <1>0 DEF CallState
      <3>2. QED
        BY <1>1, <2>2, <3>1 DEF Writing
    <2>3. QED
      BY <1>6, <2>1, <2>2 DEF OpenRead
  <1>7. CASE Resolve(w)
    <2> DEFINE c == BytesRead(w)
    <2>1. CASE Return(w, "FORMAT") \/ Return(w, "NOTFOUND") \/ Return(w, "IO")
      BY <1>0, <2>1, QuietReturn
    <2>2. CASE Step(w, [r EXCEPT !.pc = "open_read", !.val = c[1], !.file = c[1],
                                 !.ino = None])
      <3>1. [r EXCEPT !.pc = "open_read", !.val = c[1], !.file = c[1], !.ino = None].pc
              = "open_read"
        BY <1>0 DEF CallState
      <3>2. QED
        BY <1>1, <2>2, <3>1 DEF Writing
    <2>3. QED
      BY <1>7, <2>1, <2>2 DEF Resolve
  <1>8. CASE ReadBlob(w)
    <2>1. CASE Return(w, "INTEGRITY") \/ Return(w, "IO")
      BY <1>0, <2>1, QuietReturn
    <2>2. CASE Deliver(w, BytesRead(w))
      <3> DEFINE q == [Idle EXCEPT !.op = r.op, !.key = r.key, !.rc = "OK",
                         !.val = IF BytesRead(w) = Whole(r.val) THEN r.val ELSE None]
      <3>1. Step(w, q) /\ q.pc = "idle"
        BY <2>2 DEF Deliver, Idle
      <3>2. QED
        BY <1>1, <3>1 DEF Writing
    <2>3. QED
      BY <1>8, <2>1, <2>2 DEF ReadBlob
  <1>9. QED
    BY <1>2, <1>3, <1>4, <1>5, <1>6, <1>7, <1>8

\* An inode that the name n of file f gets, or has, is no other name's.
LEMMA InodeApart ==
  ASSUME TypeOK, NamesApart, NEW n \in Names, NEW i \in Slots,
         dir[n] = i \/ i \in Opened(n), NEW m \in Names, m # n, m[1] = n[1]
  PROVE  dir[m] # i
  <1>1. CASE dir[n] = i
    <2>1. PICK f \in Files, x \in Pids \cup {"final"} : n = <<f, x>>
      BY DEF Names
    <2>2. PICK g \in Files, y \in Pids \cup {"final"} : m = <<g, y>>
      BY DEF Names
    <2>3. g = f /\ x # y
      BY <2>1, <2>2
    <2>4. QED
      BY <1>1, <2>1, <2>2, <2>3, StoreAssumption DEF NamesApart
  <1>2. CASE dir[n] # i
    BY <1>2, OpenedInode
  <1>3. QED
    BY <1>1, <1>2

\* Changing one inode of one's own leaves the others alone.
LEMMA OwnInode ==
  ASSUME TypeOK, NamesApart, NEW w \in Workers, NEW f \in Files, NEW i \in Slots,
         dir[Tmp(w, f)] = i \/ i \in Opened(Tmp(w, f)),
         \A m \in Names \ {Tmp(w, f)} : dir'[m] = dir[m],
         \A g \in Files, j \in Slots : <<g, j>> # <<f, i>> =>
           /\ data'[g][j] = data[g][j]
           /\ <<g, j>> \in synced => <<g, j>> \in synced',
         env' = env, disk' = disk, put \subseteq put' /\ Named \subseteq Named'
  PROVE  LeavesOthers(Tmp(w, f))
  <1> SUFFICES ASSUME NEW m \in Names \ {Tmp(w, f)}, dir[m] # None
               PROVE  /\ data'[m[1]][dir[m]] = data[m[1]][dir[m]]
                      /\ <<m[1], dir[m]>> \in synced => <<m[1], dir[m]>> \in synced'
    BY DEF LeavesOthers
  <1>1. Tmp(w, f) \in Names /\ Tmp(w, f)[1] = f
    BY NameTypes DEF TypeOK, Tmp
  <1>2. m[1] \in Files /\ dir[m] \in Slots
    BY DEF Names, TypeOK
  <1>3. <<m[1], dir[m]>> # <<f, i>>
    BY <1>1, InodeApart
  <1>4. QED
    BY <1>2, <1>3

\* Giving up unlinks a name of one's own.
LEMMA CalmAbandon ==
  ASSUME TypeOK, CallShape, NamesApart, Undisturbed, Calm, NEW w \in Workers,
         wk[w].file \in Files, Abandon(w), UNCHANGED <<env, disk, put, stored, forged>>
  PROVE  Calm'
  <1> DEFINE n == Tmp(w, wk[w].file)
  <1>1. LeavesOthers(n)
    BY DEF Abandon, LeavesOthers, TypeOK, Named
  <1>2. wk'[w].pc = "idle" /\ \A v \in Workers \ {w} : wk'[v] = wk[v]
    BY StepFrame DEF Abandon, Return, Idle
  <1>3. Owns(w)' /\ BlobThere(w)'
    BY <1>2 DEF Owns, BlobThere, Writing
  <1>4. QED
    BY <1>1, <1>2, <1>3, OthersStep

\* A writer that goes on with the same file and payload
\* still has its blob.
LEMMA BlobStays ==
  ASSUME TypeOK, CallShape, NEW w \in Workers, NEW f \in Files, LeavesOthers(Tmp(w, f)),
         BlobThere(w), wk[w].pc \in Writing,
         wk'[w].val = wk[w].val, wk'[w].file = wk[w].file
  PROVE  BlobThere(w)'
  <1>1. wk[w].val \in Files
    BY WriterPut DEF Files
  <1>2. QED
    BY <1>1, FinalsKept DEF BlobThere, TypeOK

LEMMA CalmOpen ==
  ASSUME TypeOK, CallShape, NamesApart, Undisturbed, Calm, NEW w \in Workers, OpenTmp(w)
  PROVE  Calm'
  <1> DEFINE r == wk[w]
             f == r.file
             n == Tmp(w, f)
  <1>1. r.pc = "open" /\ UNCHANGED <<env, disk, put, stored, forged>> /\ r \in CallState
    BY CallTyping DEF OpenTmp
  <1>2. f \in Files /\ n \in Names
    BY <1>1, BusyFile, NameTypes DEF Writing, TypeOK
  <1>3. CASE Return(w, "IO") /\ UNCHANGED <<dir, data, synced>>
    BY <1>1, <1>3, QuietReturn DEF Named
  <1>4. CASE \E i \in Opened(n) :
               /\ dir' = [dir EXCEPT ![n] = i]
               /\ data' = [data EXCEPT ![f][i] = <<>>]
               /\ synced' = synced \ {<<f, i>>}
               /\ Step(w, [r EXCEPT !.pc = "write", !.ino = i, !.off = 0])
    <2>1. PICK i \in Opened(n) :
               /\ dir' = [dir EXCEPT ![n] = i]
               /\ data' = [data EXCEPT ![f][i] = <<>>]
               /\ synced' = synced \ {<<f, i>>}
               /\ Step(w, [r EXCEPT !.pc = "write", !.ino = i, !.off = 0])
      BY <1>4
    <2>2. i \in Slots
      BY <1>2, OpenedInode
    <2>3. \A m \in Names \ {n} : dir'[m] = dir[m]
      BY <2>1 DEF TypeOK
    <2>4. \A g \in Files, j \in Slots : <<g, j>> # <<f, i>> =>
            /\ data'[g][j] = data[g][j]
            /\ <<g, j>> \in synced => <<g, j>> \in synced'
      BY <1>2, <2>1, <2>2 DEF TypeOK
    <2>5. LeavesOthers(n)
      BY <1>1, <1>2, <2>2, <2>3, <2>4, OwnInode DEF Named
    <2>6. /\ wk'[w].pc = "write" /\ wk'[w].ino = i /\ wk'[w].off = 0
          /\ wk'[w].file = f /\ wk'[w].val = r.val
          /\ \A v \in Workers \ {w} : wk'[v] = wk[v]
      <3> DEFINE q == [r EXCEPT !.pc = "write", !.ino = i, !.off = 0]
      <3>1. /\ q.pc = "write" /\ q.ino = i /\ q.off = 0
            /\ q.file = f /\ q.val = r.val
        BY <1>1 DEF CallState
      <3>2. wk'[w] = q /\ \A v \in Workers \ {w} : wk'[v] = wk[v]
        BY <2>1, StepFrame
      <3> HIDE DEF q
      <3>3. QED
        BY <3>1, <3>2
    <2>7. dir'[n] = i /\ data'[f][i] = <<>>
      BY <1>2, <2>1, <2>2 DEF TypeOK
    <2>8. Tmp(w, f)' = n
      BY <1>1, <2>6 DEF Tmp
    <2>9. Owns(w)'
      BY <2>6, <2>7, <2>8, <1>1, EmptyBytes DEF Owns, Tmp
    <2>10. BlobThere(w)'
      BY <1>1, <1>2, <2>5, <2>6, BlobStays DEF Calm, BlobFirst, Writing
    <2>11. QED
      BY <1>1, <1>2, <2>5, <2>6, <2>9, <2>10, OthersStep
  <1>5. QED
    BY <1>3, <1>4 DEF OpenTmp

\* The first chunk, then the second.
LEMMA WholeWritten ==
  ASSUME NEW s \in Bytes, NEW d \in Payloads, NEW off \in 0..1, Len(s) = off,
         \A n \in 1..off : s[n] = d
  PROVE  LET t == WriteAt(s, off, d)
         IN  /\ Len(t) = off + 1 /\ \A n \in 1..(off + 1) : t[n] = d
             /\ off = 1 => t = Whole(d)
  <1> DEFINE t == WriteAt(s, off, d)
  <1>1. d \in Chunk
    BY DEF Chunk
  <1>2. /\ t \in Bytes
        /\ Len(t) = IF Len(s) > off THEN Len(s) ELSE off + 1
        /\ \A n \in 1..Len(t) :
             t[n] = IF n = off + 1 THEN d ELSE IF n <= Len(s) THEN s[n] ELSE Hole
    <2>1. off \in 0..1 /\ s \in Bytes
      OBVIOUS
    <2>2. QED
      BY ONLY <1>1, <2>1, WriteAtResult, Zenon
  <1> HIDE DEF t
  <1>3. Len(t) = off + 1
    BY <1>2
  <1>4. \A n \in 1..(off + 1) : t[n] = d
    BY <1>2, <1>3
  <1>5. off = 1 => t = Whole(d)
    <2> HAVE off = 1
    <2>1. Len(t) = 2 /\ t[1] = d /\ t[2] = d
      BY <1>3, <1>4
    <2>2. QED
      BY <1>2, <2>1, WholeFrom
  <1>6. QED
    BY <1>3, <1>4, <1>5 DEF t

LEMMA CalmWrite ==
  ASSUME TypeOK, CallShape, NamesApart, Undisturbed, Calm, NEW w \in Workers, Write(w)
  PROVE  Calm'
  <1> DEFINE r == wk[w]
             f == r.file
             i == r.ino
             n == Tmp(w, f)
  <1>1. r.pc = "write" /\ UNCHANGED <<env, disk, put, stored, forged>> /\ r \in CallState
    BY CallTyping DEF Write, WriteUpTo
  <1>2. f \in Files /\ i \in Slots /\ r.off \in 0..1 /\ r.val \in Payloads
    <2>1. f \in Files
      BY <1>1, BusyFile DEF Writing
    <2>2. i \in Slots /\ r.off < 2 /\ r.val \in Payloads
      BY <1>1 DEF CallShape, Shaped, Writing
    <2>3. r.off \in 0..2
      BY <1>1 DEF CallState
    <2>4. QED
      BY <2>1, <2>2, <2>3
  <1>3. CASE Abandon(w)
    BY <1>1, <1>2, <1>3, CalmAbandon
  <1>4. CASE /\ data' = [data EXCEPT ![f][i] = WriteAt(@, r.off, r.val)]
             /\ synced' = synced \ {<<f, i>>}
             /\ Step(w, [r EXCEPT !.off = @ + 1,
                                  !.pc = IF r.off = 1 THEN "sync" ELSE "write"])
             /\ UNCHANGED dir
    <2> DEFINE s == data[f][i]
               t == WriteAt(s, r.off, r.val)
    <2>1. Owns(w)
      BY DEF Calm, WriterOwns
    <2>2. dir[n] = i /\ Len(s) = r.off /\ \A j \in 1..r.off : s[j] = r.val
      BY <1>1, <2>1 DEF Owns
    <2>3. s \in Bytes
      BY <1>2 DEF TypeOK
    <2>4. /\ Len(t) = r.off + 1 /\ \A j \in 1..(r.off + 1) : t[j] = r.val
          /\ r.off = 1 => t = Whole(r.val)
      BY <1>2, <2>2, <2>3, WholeWritten, Zenon
    <2>5. data' = [data EXCEPT ![f][i] = t]
      BY <1>4
    <2> HIDE DEF t
    <2>6. data'[f][i] = t
      BY <1>2, <2>5 DEF TypeOK
    <2>7. \A g \in Files, j \in Slots : <<g, j>> # <<f, i>> =>
            /\ data'[g][j] = data[g][j]
            /\ <<g, j>> \in synced => <<g, j>> \in synced'
      BY <1>2, <1>4, <2>5 DEF TypeOK
    <2>8. LeavesOthers(n)
      BY <1>1, <1>2, <1>4, <2>2, <2>7, OwnInode DEF Named
    <2>9. /\ wk'[w].pc = (IF r.off = 1 THEN "sync" ELSE "write")
          /\ wk'[w].off = r.off + 1 /\ wk'[w].ino = i
          /\ wk'[w].file = f /\ wk'[w].val = r.val
          /\ \A v \in Workers \ {w} : wk'[v] = wk[v]
      <3> DEFINE q == [r EXCEPT !.off = @ + 1, !.pc = IF r.off = 1 THEN "sync" ELSE "write"]
      <3>1. /\ q.pc = (IF r.off = 1 THEN "sync" ELSE "write")
            /\ q.off = r.off + 1 /\ q.ino = i /\ q.file = f /\ q.val = r.val
        BY <1>1 DEF CallState
      <3>2. wk'[w] = q /\ \A v \in Workers \ {w} : wk'[v] = wk[v]
        BY <1>4, StepFrame
      <3> HIDE DEF q
      <3>3. QED
        BY <3>1, <3>2
    <2>10. Owns(w)'
      <3>1. Tmp(w, wk[w].file)' = n
        BY <1>1, <2>9 DEF Tmp
      <3>2. dir'[n] = i
        BY <1>4, <2>2
      <3>3. CASE r.off = 1
        BY <2>4, <2>6, <2>9, <3>1, <3>2, <3>3 DEF Owns
      <3>4. CASE r.off # 1
        BY <2>4, <2>6, <2>9, <3>1, <3>2, <3>4 DEF Owns
      <3>5. QED
        BY <3>3, <3>4
    <2>11. BlobThere(w)'
      BY <1>1, <1>2, <2>8, <2>9, BlobStays DEF Calm, BlobFirst, Writing
    <2>12. QED
      BY <1>1, <1>2, <2>8, <2>9, <2>10, <2>11, OthersStep
  <1>5. QED
    BY <1>3, <1>4 DEF Write, WriteUpTo

LEMMA CalmSync ==
  ASSUME TypeOK, CallShape, NamesApart, Undisturbed, Calm, NEW w \in Workers, Sync(w)
  PROVE  Calm'
  <1> DEFINE r == wk[w]
             f == r.file
             n == Tmp(w, f)
  <1>1. r.pc = "sync" /\ UNCHANGED <<env, disk, put, stored, forged>> /\ r \in CallState
    BY CallTyping DEF Sync
  <1>2. f \in Files
    BY <1>1, BusyFile DEF Writing
  <1>3. CASE Abandon(w)
    BY <1>1, <1>2, <1>3, CalmAbandon
  <1>4. CASE /\ synced' = synced \cup {<<f, r.ino>>}
             /\ Step(w, [r EXCEPT !.pc = "rename"])
             /\ UNCHANGED <<dir, data>>
    <2>1. LeavesOthers(n)
      BY <1>1, <1>4 DEF LeavesOthers, Named
    <2>2. /\ wk'[w].pc = "rename" /\ wk'[w].ino = r.ino
          /\ wk'[w].file = f /\ wk'[w].val = r.val
          /\ \A v \in Workers \ {w} : wk'[v] = wk[v]
      BY <1>1, <1>4, StepFrame DEF CallState
    <2>3. Owns(w)'
      BY <1>1, <1>4, <2>2 DEF Calm, WriterOwns, Owns, Tmp
    <2>4. BlobThere(w)'
      BY <1>1, <1>2, <2>1, <2>2, BlobStays DEF Calm, BlobFirst, Writing
    <2>5. QED
      BY <1>1, <1>2, <2>1, <2>2, <2>3, <2>4, OthersStep
  <1>5. QED
    BY <1>3, <1>4 DEF Sync

LEMMA WholeInjective ==
  ASSUME NEW c, NEW d, Whole(c) = Whole(d)
  PROVE  c = d
  BY DEF Whole

\* rename(2) puts a whole, durable inode under the final name.
LEMMA CalmRename ==
  ASSUME TypeOK, CallShape, NamesApart, Undisturbed, Calm, NEW w \in Workers, Rename(w)
  PROVE  Calm'
  <1>0. PICK r : r = wk[w]
    OBVIOUS
  <1> DEFINE f == r.file
             n == Tmp(w, f)
  <1>1. r.pc = "rename" /\ UNCHANGED <<env, disk, put, forged>> /\ r \in CallState
    BY <1>0, CallTyping DEF Rename
  <1>2. /\ f \in Files /\ r.ino \in Slots /\ r.key \in Keys /\ r.val \in Payloads
        /\ f \in {r.key, r.val} /\ r.val \in PutIn(f)
    BY <1>0, <1>1, BusyFile, WriterPut DEF CallShape, Shaped, Writing
  <1>3. CASE Abandon(w) /\ UNCHANGED stored
    BY <1>0, <1>1, <1>2, <1>3, CalmAbandon
  <1>4. CASE ~(Abandon(w) /\ UNCHANGED stored)
    <2>1. /\ dir' = [dir EXCEPT ![Final(f)] = dir[n], ![n] = None]
          /\ data' = data /\ synced' = synced
          /\ f \in Payloads =>
               /\ Step(w, [r EXCEPT !.pc = "open", !.file = r.key, !.ino = None])
               /\ stored' = stored
          /\ f \notin Payloads => Return(w, "OK") /\ stored' = stored \cup {f}
      BY <1>0, <1>4 DEF Rename
    <2>2. Owns(w) /\ BlobThere(w)
      BY DEF Calm, WriterOwns, BlobFirst
    <2>3. dir[n] = r.ino /\ data[f][r.ino] = Whole(r.val) /\ <<f, r.ino>> \in synced
      BY <1>0, <1>1, <2>2 DEF Owns
    <2>4. n \in Names /\ Final(f) \in Names /\ n # Final(f)
      BY <1>2, NameTypes DEF TypeOK
    <2>5. /\ dir'[Final(f)] = r.ino
          /\ \A m \in Names \ {n, Final(f)} : dir'[m] = dir[m]
      BY <2>1, <2>3, <2>4 DEF TypeOK
    <2>6. ASSUME NEW g \in Files, g # f
          PROVE  dir'[Final(g)] = dir[Final(g)]
      <3>1. Final(g) \in Names \ {n, Final(f)}
        <4>1. Final(g) \in Names /\ env.pid[w] # "final"
          BY NameTypes DEF TypeOK
        <4>2. QED
          BY <2>6, <4>1 DEF Final, Tmp
      <3>2. QED
        BY <2>5, <3>1
    <2>7. Exists(f)' /\ Content(f)' = Whole(r.val)
      <3>1. Exists(f)'
        BY <1>2, <2>5, StoreAssumption DEF Exists, Final
      <3>2. QED
        BY <2>1, <2>3, <2>5, <3>1 DEF Content, Final
    <2>8. \A g \in Files \ {f} : (Exists(g)' <=> Exists(g)) /\ Content(g)' = Content(g)
      BY <2>1, <2>6 DEF Exists, Content, Final
    <2>9. \A g \in Files : Exists(g) => Exists(g)'
      BY <2>7, <2>8
    <2>10. \A g : PutIn(g)' = PutIn(g)
      BY <1>1 DEF PutIn, Named
    <2>11. FinalWhole'
      <3> SUFFICES ASSUME NEW g \in Files, Exists(g)'
                   PROVE  /\ <<g, dir'[Final(g)]>> \in synced'
                          /\ \E d \in PutIn(g)' : Content(g)' = Whole(d)
        BY DEF FinalWhole, Final
      <3>1. CASE g = f
        BY <1>2, <2>1, <2>3, <2>5, <2>7, <2>10, <3>1
      <3>2. CASE g # f
        BY <2>1, <2>6, <2>8, <2>10, <3>2 DEF Calm, FinalWhole
      <3>3. QED
        BY <3>1, <3>2
    <2>12. DiskWhole'
      BY <1>1, <2>10 DEF Calm, DiskWhole
    <2>13. /\ wk'[w].pc \in {"idle", "open"}
           /\ wk'[w].pc = "open" => wk'[w].val = f
           /\ \A v \in Workers \ {w} : wk'[v] = wk[v]
      <3>1. CASE f \in Payloads
        <4>1. r.val = f
          BY <1>2, <3>1, StoreAssumption
        <4> DEFINE q == [r EXCEPT !.pc = "open", !.file = r.key, !.ino = None]
        <4>2. q.pc = "open" /\ q.val = r.val
          BY <1>1 DEF CallState
        <4>3. wk'[w] = q /\ \A v \in Workers \ {w} : wk'[v] = wk[v]
          BY <2>1, <3>1, StepFrame
        <4> HIDE DEF q
        <4>4. QED
          BY <4>1, <4>2, <4>3
      <3>2. CASE f \notin Payloads
        BY <2>1, <3>2, StepFrame DEF Return, Idle
      <3>3. QED
        BY <3>1, <3>2
    <2>14. \A v \in Workers : Owns(v)'
      <3> SUFFICES ASSUME NEW v \in Workers PROVE Owns(v)'
        OBVIOUS
      <3>1. CASE v = w
        BY <2>13, <3>1 DEF Owns
      <3>2. CASE v # w /\ wk[v].pc \in {"write", "sync", "rename"}
        <4> DEFINE m == Tmp(v, wk[v].file)
        <4>1. wk[v].file \in Files
          BY <3>2, BusyFile DEF Writing
        <4>2. m \in Names \ {n, Final(f)}
          <5>1. m \in Names /\ env.pid[v] # env.pid[w] /\ env.pid[v] # "final"
            BY <3>2, <4>1, NameTypes DEF TypeOK, Undisturbed
          <5>2. QED
            BY <5>1 DEF Tmp, Final
        <4>3. dir'[m] = dir[m] /\ wk'[v] = wk[v]
          BY <2>5, <2>13, <3>2, <4>2
        <4>4. Tmp(v, wk[v].file)' = m
          BY <1>1, <4>3 DEF Tmp
        <4>5. Owns(v)
          BY DEF Calm, WriterOwns
        <4>6. QED
          BY <2>1, <4>3, <4>4, <4>5 DEF Owns
      <3>3. CASE v # w /\ wk[v].pc \notin {"write", "sync", "rename"}
        BY <2>13, <3>3 DEF Owns
      <3>4. QED
        BY <3>1, <3>2, <3>3
    <2>15. \A v \in Workers : BlobThere(v)'
      <3> SUFFICES ASSUME NEW v \in Workers PROVE BlobThere(v)'
        OBVIOUS
      <3>1. CASE v = w
        BY <1>2, <2>7, <2>13, <3>1 DEF BlobThere, Writing
      <3>2. CASE v # w /\ wk[v].pc \in Writing
        <4>1. wk[v].val \in Files /\ wk'[v] = wk[v] /\ BlobThere(v)
          BY <2>13, <3>2, WriterPut DEF Files, Calm, BlobFirst
        <4>2. QED
          BY <2>9, <4>1 DEF BlobThere, Exists, Final
      <3>3. CASE v # w /\ wk[v].pc \notin Writing
        BY <2>13, <3>3 DEF BlobThere
      <3>4. QED
        BY <3>1, <3>2, <3>3
    <2>16. StoredNamed'
      <3> SUFFICES ASSUME NEW k \in stored', NEW d \in Payloads
                   PROVE  Exists(k)' /\ (Content(k)' = Whole(d) => Exists(d)')
        BY <2>7, <2>1, <2>8 DEF StoredNamed, Calm, TypeOK, Files
      <3>1. d \in Files
        BY DEF Files
      <3>2. CASE k = f
        <4>1. f \in Keys
          BY <1>2, <2>1, <3>2, StoreAssumption DEF TypeOK
        <4>2. Exists(r.val) /\ r.val \in Files
          BY <1>0, <1>1, <1>2, <2>2, <4>1 DEF BlobThere, Writing, Files
        <4>3. QED
          BY <2>7, <2>9, <3>2, <4>2, WholeInjective
      <3>3. CASE k # f
        <4>1. k \in stored /\ k \in Files
          BY <2>1, <3>3 DEF TypeOK, Files
        <4>2. QED
          BY <2>8, <2>9, <3>1, <3>3, <4>1 DEF Calm, StoredNamed
      <3>4. QED
        BY <3>2, <3>3
    <2>17. QED
      BY <2>11, <2>12, <2>14, <2>15, <2>16 DEF Calm, WriterOwns, BlobFirst
  <1>5. QED
    BY <1>3, <1>4

\* A killed writer leaves its temporary names behind; the journal and a power loss
\* know only durable contents.
LEMMA CalmFault ==
  ASSUME TypeOK, Undisturbed, Calm,
         \/ \E p \in Pids : Kill(p)
         \/ \E f \in Files : Commit(f)
         \/ PowerLoss
         \/ \E f \in Files, c \in Chunk : Rot(f, c)
  PROVE  Calm'
  <1>1. CASE \E p \in Pids : Kill(p)
    <2>1. /\ UNCHANGED <<env, dir, data, synced, disk, put, stored, forged>>
          /\ \A v \in Workers : wk'[v] = wk[v] \/ wk'[v] = Idle
      BY <1>1 DEF Kill
    <2>2. ASSUME NEW v \in Workers, wk'[v] = Idle
          PROVE  wk'[v].pc \notin {"write", "sync", "rename"} /\ BlobThere(v)'
      BY <2>2 DEF Idle, BlobThere, Writing
    <2>3. QED
      BY <2>1, <2>2, QuietStep DEF Named
  <1>2. CASE \E f \in Files : Commit(f)
    <2>1. PICK f \in Files : Commit(f)
      BY <1>2
    <2>2. /\ UNCHANGED <<env, dir, data, synced, wk, put, stored, forged>>
          /\ disk' = [disk EXCEPT ![f] = Durable(f)]
      BY <2>1 DEF Commit
    <2>3. Durable(f) # None => \E d \in PutIn(f) : Durable(f) = Whole(d)
      BY DEF Durable, Calm, FinalWhole
    <2>4. \A g : PutIn(g)' = PutIn(g)
      BY <2>2 DEF PutIn, Named
    <2>5. DiskWhole'
      BY <2>2, <2>3, <2>4 DEF Calm, DiskWhole, TypeOK
    <2>6. FinalWhole'
      BY <2>2, <2>4 DEF Calm, FinalWhole, Exists, Content, Final
    <2>7. WriterOwns'
      BY <2>2 DEF Calm, WriterOwns, Undisturbed, Owns, Tmp
    <2>8. BlobFirst' /\ StoredNamed'
      BY <2>2
      DEF Calm, BlobFirst, BlobThere, StoredNamed, Undisturbed, Exists, Content, Final
    <2>9. QED
      BY <2>5, <2>6, <2>7, <2>8 DEF Calm
  <1>3. CASE PowerLoss
    <2>1. /\ env' = env /\ disk' = disk /\ put' = put /\ stored' = {} /\ forged' = forged
          /\ \A w \in Workers : wk'[w].pc = "idle"
      BY <1>3 DEF PowerLoss, Idle
    <2>2. WriterOwns' /\ BlobFirst' /\ StoredNamed'
      BY <2>1 DEF WriterOwns, Owns, BlobFirst, BlobThere, StoredNamed, Writing
    <2>3. \A g : PutIn(g)' = PutIn(g)
      BY <2>1 DEF PutIn, Named
    <2>4. DiskWhole'
      BY <2>1, <2>3 DEF Calm, DiskWhole
    <2>5. FinalWhole'
      <3> SUFFICES ASSUME NEW f \in Files, Exists(f)'
                   PROVE  /\ <<f, dir'[Final(f)]>> \in synced'
                          /\ \E d \in PutIn(f)' : Content(f)' = Whole(d)
        BY DEF FinalWhole, Final
      <3>1. Final(f) \in Names /\ Final(f)[1] = f /\ Final(f)[2] = "final"
        BY DEF Final, Names
      <3>2. disk[f] # None /\ dir'[Final(f)] = 0
        BY <1>3, <3>1 DEF PowerLoss, Exists, Final
      <3>3. <<f, 0>> \in synced' /\ data'[f][0] = disk[f]
        BY <1>3, <3>2, StoreAssumption DEF PowerLoss
      <3>4. Content(f)' = disk[f]
        BY <3>2, <3>3 DEF Content, Final
      <3>5. QED
        BY <2>3, <3>2, <3>3, <3>4 DEF Calm, DiskWhole
    <2>6. QED
      BY <2>2, <2>4, <2>5 DEF Calm
  <1>4. CASE \E f \in Files, c \in Chunk : Rot(f, c)
    BY <1>4 DEF Rot, Undisturbed
  <1>5. QED
    BY <1>1, <1>2, <1>3, <1>4

LEMMA CalmStep ==
  ASSUME TypeOK, CallShape, NamesApart, Calm, [Next]_vars
  PROVE  Calm'
  <1>1. env' = env /\ put \subseteq put' /\ Named \subseteq Named'
    BY EnvFixed, PutGrows
  <1>2. CASE ~Undisturbed
    <2>1. ~Undisturbed'
      BY <1>1, <1>2 DEF Undisturbed
    <2>2. QED
      BY <2>1 DEF Calm, WriterOwns, FinalWhole, DiskWhole, BlobFirst, StoredNamed
  <1>3. CASE Undisturbed /\ UNCHANGED vars
    <2>1. UNCHANGED <<env, dir, data, synced, disk, stored>> /\ wk' = wk
      BY <1>3 DEF vars
    <2>2. QED
      BY <1>1, <1>3, <2>1, QuietStep
  <1>4. CASE Undisturbed /\ Next
    BY <1>1, <1>4, CalmQuiet, CalmOpen, CalmWrite, CalmSync, CalmRename, CalmFault DEF Next
  <1>5. QED
    BY <1>2, <1>3, <1>4

\* Only a file system that alters bytes puts an address in an index entry that
\* nobody put there.
LEMMA UnforgedStep ==
  ASSUME Unforged, [Next]_vars
  PROVE  Unforged'
  <1>1. env' = env
    BY EnvFixed
  <1>2. ~env.rot => forged' = forged
    BY DEF Next, vars, PutBlob, CheckBlob, OpenTmp, Write, WriteUpTo, Sync, Rename, GetTu,
       GetBlob, OpenRead, Resolve, ReadBlob, Kill, Commit, PowerLoss, Rot
  <1>3. QED
    BY <1>1, <1>2 DEF Unforged

-----------------------------------------------------------------------------
(***************************************************************************)
(* The inductive invariant holds in every reachable state.                 *)
(***************************************************************************)
THEOREM Invariance == Spec => []IInv
  <1>1. IInv /\ [Next]_vars => IInv'
    <2> SUFFICES ASSUME IInv, [Next]_vars PROVE IInv'
      OBVIOUS
    <2>1. TypeOK /\ CallShape /\ BytesPut /\ NamesApart /\ Calm /\ Unforged
      BY DEF IInv
    <2>2. TypeOK' /\ CallShape' /\ BytesPut'
      BY <2>1, TypeStep, ShapeStep, BytesStep
    <2>3. NamesApart' /\ Calm' /\ Unforged'
      BY <2>1, ApartStep, CalmStep, UnforgedStep
    <2>4. QED
      BY <2>2, <2>3 DEF IInv
  <1>2. QED
    BY <1>1, InitInv, PTL DEF Spec

(***************************************************************************)
(* Every variable of the store keeps its type: a call never goes on with a *)
(* missing key, file or inode.                                             *)
(***************************************************************************)
THEOREM Typing == Spec => []TypeOK
  <1>1. IInv => TypeOK
    BY DEF IInv
  <1>2. QED
    BY <1>1, Invariance, PTL

(***************************************************************************)
(* write_atomic is atomic for writers in processes of their own: a blob    *)
(* under its final name has all its bytes, across kills and power losses.  *)
(***************************************************************************)
THEOREM WritesAtomic == Spec => []OwnBlobsWhole
  <1>1. IInv => OwnBlobsWhole
    <2> SUFFICES ASSUME IInv, Undisturbed, NEW d \in Payloads, Exists(d)
                 PROVE  Content(d) = Whole(d)
      BY DEF OwnBlobsWhole, BlobsWhole
    <2>1. PICK c \in PutIn(d) : Content(d) = Whole(c)
      BY DEF IInv, Calm, FinalWhole, Files
    <2>2. c = d
      BY <2>1, StoreAssumption DEF PutIn, Named
    <2>3. QED
      BY <2>1, <2>2
  <1>2. QED
    BY <1>1, Invariance, PTL

(***************************************************************************)
(* With writers in processes of their own and no altered bytes, an index   *)
(* entry that exists is the whole address of a payload put under its key,  *)
(* and names a whole blob or none, across kills and power losses; a put    *)
(* that returned ORYX_OK resolves until the power fails, because the index *)
(* entry is renamed into place after the blob it names.                    *)
(***************************************************************************)
THEOREM PutsResolve == Spec => []StoredKeysResolve
  <1>1. IInv => StoredKeysResolve
    <2> SUFFICES ASSUME IInv, Undisturbed, NEW k \in Keys
                 PROVE  /\ k \in stored => Exists(k)
                        /\ Exists(k) =>
                             \E d \in Payloads :
                               /\ <<k, d>> \in put
                               /\ Content(k) = Whole(d)
                               /\ Exists(d) => Content(d) = Whole(d)
                               /\ k \in stored => Exists(d)
      BY DEF StoredKeysResolve
    <2>1. k \in Files
      BY DEF Files
    <2>2. k \in stored => Exists(k)
      BY DEF IInv, Calm, StoredNamed
    <2>3. ASSUME Exists(k)
          PROVE  \E d \in Payloads :
                   /\ <<k, d>> \in put
                   /\ Content(k) = Whole(d)
                   /\ Exists(d) => Content(d) = Whole(d)
                   /\ k \in stored => Exists(d)
      <3>1. PICK d \in PutIn(k) : Content(k) = Whole(d)
        BY <2>1, <2>3 DEF IInv, Calm, FinalWhole
      <3>2. forged = {}
        BY DEF IInv, Unforged, Undisturbed
      <3>3. d \in Payloads /\ d \in Files /\ <<k, d>> \in put
        BY <3>2, StoreAssumption DEF PutIn, Named, Files
      <3>4. k \in stored => Exists(d)
        BY <3>1, <3>3 DEF IInv, Calm, StoredNamed
      <3>5. ASSUME Exists(d) PROVE Content(d) = Whole(d)
        <4>1. PICK c \in PutIn(d) : Content(d) = Whole(c)
          BY <3>3, <3>5 DEF IInv, Calm, FinalWhole
        <4>2. c = d
          BY <3>3, StoreAssumption DEF PutIn
        <4>3. QED
          BY <4>1, <4>2
      <3>6. QED
        BY <3>1, <3>3, <3>4, <3>5
    <2>4. QED
      BY <2>2, <2>3
  <1>2. QED
    BY <1>1, Invariance, PTL

(***************************************************************************)
(* get_tu and get_blob hand out only payloads that were put, and get_tu    *)
(* only what was put under the key asked for or what an altered index      *)
(* entry of that key named, in every setting: threads that share a pid,    *)
(* altered blobs and index entries, kills and power losses included.       *)
(***************************************************************************)
THEOREM NothingForeign == Spec => []GetReturnsPut
  <1>1. IInv => GetReturnsPut
    BY DEF IInv, CallShape, Shaped, Named, GetReturnsPut
  <1>2. QED
    BY <1>1, Invariance, PTL

=============================================================================

------------------------------ MODULE CacheStore ------------------------------
(***************************************************************************)
(* The on-disk store of liboryxcache (src/liboryxcache/oryxcache.c) on the *)
(* file system it runs on: blobs/<content address> and index/<logical key>,*)
(* each replaced by write_atomic (temporary file, fsync, rename).          *)
(*                                                                         *)
(* SHA-256 is collision free here, so a payload is its own content         *)
(* address.  A file is a sequence of at most two chunks, because write(2)  *)
(* may be short and another writer, reader or crash may come in between;   *)
(* Hole is a chunk nobody wrote or whose bytes have changed.  The file     *)
(* system is external: names refer to inodes, open(O_TRUNC) empties the    *)
(* inode a name already has, a descriptor keeps its inode across rename    *)
(* and unlink, and after a power loss what was not made durable is gone.   *)
(***************************************************************************)
EXTENDS Naturals, Sequences, FiniteSets

CONSTANTS
  Workers,    \* threads that use the store
  Settings,   \* pid[w]: process of worker w, two threads may share one;
              \* rot: can stored bytes be altered on disk?
              \* lose: can the machine lose power?
  Keys,       \* logical keys
  Payloads,   \* serialized units, one per content address
  Slots,      \* bound: inodes that one file's names and descriptors can refer to
  MaxCalls,   \* bound: calls the workers make in one behaviour
  None,       \* no inode, no file
  Hole        \* a chunk that is not part of any payload

Pids == UNION { { e.pid[w] : w \in Workers } : e \in Settings }

ASSUME StoreAssumption ==
  /\ Keys \cap Payloads = {} /\ None \notin Keys \cup Payloads
  /\ Slots \subseteq Nat /\ 0 \in Slots /\ None \notin Slots
  /\ Hole \notin Payloads /\ MaxCalls \in Nat
  /\ Pids \cap {"final"} = {}
  /\ \A e \in Settings : e.rot \in BOOLEAN /\ e.lose \in BOOLEAN

VARIABLES
  env,      \* the setting of this behaviour
  dir,      \* dir[<<f, x>>]: inode of the name f ("final") or f.<pid>.tmp
  data,     \* data[f][i]: content of inode i of file f
  synced,   \* inodes <<f, i>> whose content has reached the disk
  disk,     \* disk[f]: what a power loss leaves of file f
  wk,       \* wk[w]: the call worker w is in, or the result of its last one
  calls,    \* calls made so far
  put,      \* history: pairs <<key, payload>> some put_blob was called with
  stored,   \* history: keys put with ORYX_OK since the last power loss
  forged    \* history: pairs <<key, address>> that altered index entries have held

vars == <<env, dir, data, synced, disk, wk, calls, put, stored, forged>>

Files  == Keys \cup Payloads                \* index entries and blobs
Names  == Files \X (Pids \cup {"final"})
Chunk  == Payloads \cup {Hole}
Bytes  == UNION { [1..n -> Chunk] : n \in 0..2 }
Whole(d) == <<d, d>>                        \* all the bytes of d

Final(f)  == <<f, "final">>
Tmp(w, f) == <<f, env.pid[w]>>

CallState ==
  [op : {"none", "put", "get", "get_blob"},
   pc : {"idle", "check", "open", "write", "sync", "rename", "open_read", "read"},
   key : Keys \cup {None}, val : Payloads \cup {None},
   file : Files \cup {None}, ino : Slots \cup {None}, off : 0..2,
   rc : {"none", "OK", "IO", "NOTFOUND", "FORMAT", "INTEGRITY"}]

Idle == [op |-> "none", pc |-> "idle", key |-> None, val |-> None,
         file |-> None, ino |-> None, off |-> 0, rc |-> "none"]

TypeOK ==
  /\ env \in Settings
  /\ dir \in [Names -> Slots \cup {None}]
  /\ data \in [Files -> [Slots -> Bytes]]
  /\ synced \subseteq Files \X Slots
  /\ disk \in [Files -> Bytes \cup {None}]
  /\ wk \in [Workers -> CallState]
  /\ calls \in 0..MaxCalls
  /\ put \subseteq Keys \X Payloads
  /\ stored \subseteq Keys
  /\ forged \subseteq Keys \X Payloads

Init ==
  /\ env \in Settings
  /\ dir = [n \in Names |-> None]
  /\ data = [f \in Files |-> [i \in Slots |-> <<>>]]
  /\ synced = {}
  /\ disk = [f \in Files |-> None]
  /\ wk = [w \in Workers |-> Idle]
  /\ calls = 0 /\ put = {} /\ stored = {} /\ forged = {}

-----------------------------------------------------------------------------
(* The file system *)

FreeSlots(f) ==
  Slots \ ({ dir[n] : n \in { m \in Names : m[1] = f } }
             \cup { wk[w].ino : w \in { v \in Workers : wk[v].file = f } })

\* The inode open(O_CREAT) gives name n: the one it has, or else an unused one.
Opened(n) ==
  IF dir[n] # None THEN {dir[n]}
  ELSE { i \in FreeSlots(n[1]) : \A j \in FreeSlots(n[1]) : i <= j }

\* write(2) at an offset: a gap left by someone else's truncation reads as a hole.
WriteAt(s, off, c) ==
  [ n \in 1..(IF Len(s) > off THEN Len(s) ELSE off + 1) |->
      IF n = off + 1 THEN c ELSE IF n <= Len(s) THEN s[n] ELSE Hole ]

Content(f) == data[f][dir[Final(f)]]
Exists(f)  == dir[Final(f)] # None

Step(w, r)     == wk' = [wk EXCEPT ![w] = r]
Call(w, r)     == /\ wk[w].pc = "idle" /\ calls < MaxCalls
                  /\ calls' = calls + 1
                  /\ Step(w, r)
Return(w, rc)  == Step(w, [Idle EXCEPT !.rc = rc])

-----------------------------------------------------------------------------
(* oryx_cache_put_blob *)

PutBlob(w, k, d) ==
  /\ Call(w, [Idle EXCEPT !.op = "put", !.pc = "check", !.key = k, !.val = d])
  /\ put' = put \cup {<<k, d>>}
  /\ UNCHANGED <<env, dir, data, synced, disk, stored, forged>>

\* Mutant: takes every blob for present.
MutCheckBlob(w) ==
  /\ wk[w].pc = "check"
  /\ Step(w, [wk[w] EXCEPT !.pc = "open", !.file = wk[w].key])
  /\ UNCHANGED <<env, dir, data, synced, disk, calls, put, stored, forged>>

\* access(blob_path): the blob is written only if absent; then the index.
CheckBlob(w) ==
  /\ wk[w].pc = "check"
  /\ Step(w, [wk[w] EXCEPT !.pc = "open",
                           !.file = IF Exists(wk[w].val) THEN wk[w].key ELSE wk[w].val])
  /\ UNCHANGED <<env, dir, data, synced, disk, calls, put, stored, forged>>

(* write_atomic(wk[w].file) *)

OpenTmp(w) ==
  LET f   == wk[w].file
      tmp == Tmp(w, f)
  IN  /\ wk[w].pc = "open"
      /\ \/ \E i \in Opened(tmp) :
              /\ dir' = [dir EXCEPT ![tmp] = i]
              /\ data' = [data EXCEPT ![f][i] = <<>>]
              /\ synced' = synced \ {<<f, i>>}
              /\ Step(w, [wk[w] EXCEPT !.pc = "write", !.ino = i, !.off = 0])
         \/ /\ Return(w, "IO")
            /\ UNCHANGED <<dir, data, synced>>
      /\ UNCHANGED <<env, disk, calls, put, stored, forged>>

\* A failed write or fsync closes, unlinks the temporary name and gives up.
Abandon(w) ==
  /\ dir' = [dir EXCEPT ![Tmp(w, wk[w].file)] = None]
  /\ Return(w, "IO")
  /\ UNCHANGED <<data, synced>>

WriteUpTo(w, last) ==
  LET f == wk[w].file
      i == wk[w].ino
  IN  /\ wk[w].pc = "write"
      /\ \/ /\ data' = [data EXCEPT ![f][i] = WriteAt(@, wk[w].off, wk[w].val)]
            /\ synced' = synced \ {<<f, i>>}
            /\ Step(w, [wk[w] EXCEPT !.off = @ + 1,
                                     !.pc = IF wk[w].off = last THEN "sync" ELSE "write"])
            /\ UNCHANGED dir
         \/ Abandon(w)
      /\ UNCHANGED <<env, disk, calls, put, stored, forged>>

\* Mutant: the loop goes on while off <= len.
MutWrite(w) == WriteUpTo(w, 2)

Write(w) == WriteUpTo(w, 1)

\* Mutant: close without fsync.
MutSync(w) ==
  /\ wk[w].pc = "sync"
  /\ Step(w, [wk[w] EXCEPT !.pc = "rename"])
  /\ UNCHANGED <<env, dir, data, synced, disk, calls, put, stored, forged>>

Sync(w) ==
  /\ wk[w].pc = "sync"
  /\ \/ /\ synced' = synced \cup {<<wk[w].file, wk[w].ino>>}
        /\ Step(w, [wk[w] EXCEPT !.pc = "rename"])
        /\ UNCHANGED <<dir, data>>
     \/ Abandon(w)
  /\ UNCHANGED <<env, disk, calls, put, stored, forged>>

\* rename(tmp, final); after the blob comes the index, after the index ORYX_OK.
\* It fails at least when another thread of the process has renamed the name away.
Rename(w) ==
  LET f   == wk[w].file
      tmp == Tmp(w, f)
  IN  /\ wk[w].pc = "rename"
      /\ \/ /\ dir[tmp] # None
            /\ dir' = [dir EXCEPT ![Final(f)] = dir[tmp], ![tmp] = None]
            /\ IF f \in Payloads
               THEN /\ Step(w, [wk[w] EXCEPT !.pc = "open", !.file = wk[w].key, !.ino = None])
                    /\ UNCHANGED stored
               ELSE Return(w, "OK") /\ stored' = stored \cup {f}
            /\ UNCHANGED <<data, synced>>
         \/ Abandon(w) /\ UNCHANGED stored
      /\ UNCHANGED <<env, disk, calls, put, forged>>

-----------------------------------------------------------------------------
(* oryx_cache_get_tu, oryx_cache_get_blob, oryx_cache_verify *)

GetTu(w, k) ==
  /\ Call(w, [Idle EXCEPT !.op = "get", !.pc = "open_read", !.key = k, !.file = k])
  /\ UNCHANGED <<env, dir, data, synced, disk, put, stored, forged>>

GetBlob(w, d) ==
  /\ Call(w, [Idle EXCEPT !.op = "get_blob", !.pc = "open_read", !.val = d, !.file = d])
  /\ UNCHANGED <<env, dir, data, synced, disk, put, stored, forged>>

(* read_file(wk[w].file): the length is taken when the file is opened, the bytes
   are read later.  IO stands for ORYX_ERR_NOMEM too. *)

OpenRead(w) ==
  LET f == wk[w].file
  IN  /\ wk[w].pc = "open_read"
      /\ \/ /\ Exists(f)
            /\ Step(w, [wk[w] EXCEPT !.pc = "read", !.ino = dir[Final(f)],
                                      !.off = Len(Content(f))])
         \/ ~Exists(f) /\ Return(w, "NOTFOUND")
         \/ Return(w, "IO")
      /\ UNCHANGED <<env, dir, data, synced, disk, calls, put, stored, forged>>

BytesRead(w) ==
  LET s == data[wk[w].file][wk[w].ino]
  IN  SubSeq(s, 1, IF Len(s) < wk[w].off THEN Len(s) ELSE wk[w].off)

\* oryx_cache_resolve.  A short file or one with bytes that are not hex digits is
\* FORMAT; halves of two addresses pass is_hex64 but name no blob.
Resolve(w) ==
  LET c == BytesRead(w)
      legible == Len(c) = 2 /\ Hole \notin {c[1], c[2]}
  IN  /\ wk[w].pc = "read" /\ wk[w].file \in Keys
      /\ \/ ~legible /\ Return(w, "FORMAT")
         \/ legible /\ c[1] # c[2] /\ Return(w, "NOTFOUND")
         \/ /\ legible /\ c[1] = c[2]
            /\ Step(w, [wk[w] EXCEPT !.pc = "open_read", !.val = c[1], !.file = c[1], !.ino = None])
         \/ Return(w, "IO")
      /\ UNCHANGED <<env, dir, data, synced, disk, calls, put, stored, forged>>

\* What the caller of get_tu or get_blob is left with.
Deliver(w, s) ==
  Step(w, [Idle EXCEPT !.op = wk[w].op, !.key = wk[w].key, !.rc = "OK",
                       !.val = IF s = Whole(wk[w].val) THEN wk[w].val ELSE None])

\* Mutant: hands out what it read without comparing its hash with the address.
MutReadBlob(w) ==
  /\ wk[w].pc = "read" /\ wk[w].file \in Payloads
  /\ Deliver(w, BytesRead(w))
  /\ UNCHANGED <<env, dir, data, synced, disk, calls, put, stored, forged>>

\* The bytes read are re-hashed and compared with the address asked for.
ReadBlob(w) ==
  LET s == BytesRead(w)
  IN  /\ wk[w].pc = "read" /\ wk[w].file \in Payloads
      /\ \/ s = Whole(wk[w].val) /\ Deliver(w, s)
         \/ s # Whole(wk[w].val) /\ Return(w, "INTEGRITY")
         \/ Return(w, "IO")
      /\ UNCHANGED <<env, dir, data, synced, disk, calls, put, stored, forged>>

-----------------------------------------------------------------------------
(* Faults *)

\* A process dies; its temporary files stay behind.
Kill(p) ==
  /\ \E w \in Workers : env.pid[w] = p /\ wk[w].pc # "idle"
  /\ wk' = [w \in Workers |-> IF env.pid[w] = p THEN Idle ELSE wk[w]]
  /\ UNCHANGED <<env, dir, data, synced, disk, calls, put, stored, forged>>

\* What a power loss would leave of file f now: unsynced content is lost.
Durable(f) ==
  IF ~Exists(f) THEN None
  ELSE IF <<f, dir[Final(f)]>> \in synced THEN Content(f) ELSE <<>>

\* Nothing syncs the directories: the journal commits a name in its own time.
Commit(f) ==
  /\ env.lose
  /\ disk[f] # Durable(f)
  /\ disk' = [disk EXCEPT ![f] = Durable(f)]
  /\ UNCHANGED <<env, dir, data, synced, wk, calls, put, stored, forged>>

\* Temporary files are never read, so what is left of them does not matter.
PowerLoss ==
  /\ env.lose
  /\ dir' = [n \in Names |-> IF n[2] = "final" /\ disk[n[1]] # None THEN 0 ELSE None]
  /\ data' = [f \in Files |-> [i \in Slots |->
                IF i = 0 /\ disk[f] # None THEN disk[f] ELSE <<>>]]
  /\ synced' = { <<f, 0>> : f \in { g \in Files : disk[g] # None } }
  /\ wk' = [w \in Workers |-> Idle]
  /\ stored' = {}
  /\ UNCHANGED <<env, disk, calls, put, forged>>

\* The bytes of a final file change underneath the store.  An altered blob no
\* longer hashes to its address, whatever it holds; an index entry has no check of
\* its own, and may come out illegible or as the address of another blob.
Rot(f, c) ==
  /\ env.rot /\ Exists(f) /\ Content(f) # Whole(c)
  /\ f \in Payloads => c = Hole
  /\ data' = [data EXCEPT ![f][dir[Final(f)]] = Whole(c)]
  /\ forged' = IF c = Hole THEN forged ELSE forged \cup {<<f, c>>}
  /\ UNCHANGED <<env, dir, synced, disk, wk, calls, put, stored>>

Next ==
  \/ \E w \in Workers :
       \/ \E k \in Keys, d \in Payloads : PutBlob(w, k, d)
       \/ CheckBlob(w) \/ OpenTmp(w) \/ Write(w) \/ Sync(w) \/ Rename(w)
       \/ \E k \in Keys : GetTu(w, k)
       \/ \E d \in Payloads : GetBlob(w, d)
       \/ OpenRead(w) \/ Resolve(w) \/ ReadBlob(w)
  \/ \E p \in Pids : Kill(p)
  \/ \E f \in Files : Commit(f)
  \/ PowerLoss
  \/ \E f \in Files, c \in Chunk : Rot(f, c)

Spec == Init /\ [][Next]_vars

-----------------------------------------------------------------------------
\* No two workers use one temporary name, and nothing alters the stored bytes.
Undisturbed == ~env.rot /\ \A v, w \in Workers : v # w => env.pid[v] # env.pid[w]

(***************************************************************************)
(* A blob that exists under its final name has all the bytes of its        *)
(* payload, at every instant and whoever writes: put_blob "Writes the blob *)
(* atomically" (oryxcache.h).                                              *)
(***************************************************************************)
BlobsWhole == \A d \in Payloads : Exists(d) => Content(d) = Whole(d)

(***************************************************************************)
(* The same for writers in processes of their own, after any kill or power *)
(* loss: what write_atomic's temporary file, fsync and rename are for, and *)
(* what lets put_blob skip a blob that exists.                             *)
(***************************************************************************)
OwnBlobsWhole == Undisturbed => BlobsWhole

(***************************************************************************)
(* Whatever writers in other processes, killed ones and power losses do,   *)
(* an index entry that exists is the whole address of a payload put under  *)
(* its key, never a torn or a stale one, and the blob it names is whole if *)
(* it exists.  A key whose put returned ORYX_OK has its entry and the blob *)
(* too, until the power fails; after that either may be gone, because      *)
(* nothing syncs the directories.                                          *)
(***************************************************************************)
StoredKeysResolve ==
  Undisturbed =>
    \A k \in Keys :
      /\ k \in stored => Exists(k)
      /\ Exists(k) =>
           \E d \in Payloads :
             /\ <<k, d>> \in put
             /\ Content(k) = Whole(d)
             /\ Exists(d) => Content(d) = Whole(d)
             /\ k \in stored => Exists(d)

(***************************************************************************)
(* Neither get_tu nor get_blob ever hands out anything but a payload some  *)
(* put_blob was called with, even with torn files, altered bytes and       *)
(* writers sharing a pid; what get_tu hands out was put under that very    *)
(* key.  One case is excepted, in which the code breaks what oryxcache.h   *)
(* says ("a corrupted or tampered entry can never be executed. Fail-closed *)
(* always"): an index entry altered into the address of another blob is    *)
(* followed, because get_tu does not compare the key of the unit it parsed *)
(* with the key asked for.                                                 *)
(***************************************************************************)
GetReturnsPut ==
  \A w \in Workers :
    wk[w].op \in {"get", "get_blob"} /\ wk[w].rc = "OK" =>
      /\ \E k \in Keys : <<k, wk[w].val>> \in put
      /\ wk[w].op = "get" => <<wk[w].key, wk[w].val>> \in put \cup forged

=============================================================================

----------------------------- MODULE Quarantine -----------------------------
(***************************************************************************)
(* The quarantine store (internal/quarantine): an index of entries kept in *)
(* memory and in index.json, the stored copies (blobs) kept beside it, and *)
(* the user's files, which other programs change at any time.              *)
(*                                                                         *)
(* Every operation runs under Store.mu from its first check to its last    *)
(* write, so one operation is in progress at a time; what interleaves with *)
(* its steps is the other programs, the passing of time and a crash.  Each *)
(* operation is therefore cut where something becomes visible on disk.     *)
(***************************************************************************)
EXTENDS Naturals, Sequences, FiniteSets

CONSTANTS
    Workers,       \* goroutines that call the store
    Paths,         \* names of the user's files, side-by-side names included
    Contents,      \* what a file may hold
    Partial,       \* what a file holds while its restore is being copied
    NoFile,        \* no file of that name; also "no hash" in an entry
    NoEntry,       \* the index has no entry under that id
    NoBlob,        \* no stored copy of that name
    NoCall,        \* the worker is not calling the store
    Nobody,        \* Store.mu is not held
    NoJob,         \* ... and no operation has local variables
    Size,          \* the size of a content, in units of MaxBytes
    Siblings,      \* <name>.restored.<ext>, <name>.restored2.<ext>, ...
    RecentWindow,  \* the 60 seconds of recentByPath
    MaxAge,        \* Store.maxAge
    MaxBytes,      \* Store.maxBytes; 0 is "no limit"
    MaxEntries,    \* bound: ids the store hands out in a behaviour
    MaxTime,       \* bound on the clock
    MaxKeys,       \* bound on the encryption keys ever generated
    MaxFaults,     \* bound on failed saves of the index and on failed purges
    MaxCrashes     \* bound on crashes

Data  == Contents \cup {Partial}
Ids   == 1..MaxEntries
Plain == 0         \* the "key" of a copy an older version stored in the clear

ASSUME QuarantineAssumption ==
    /\ MaxEntries \in Nat \ {0}
    /\ RecentWindow \in Nat /\ MaxAge \in Nat /\ MaxBytes \in Nat
    /\ MaxTime \in Nat /\ MaxKeys \in Nat /\ MaxFaults \in Nat /\ MaxCrashes \in Nat
    /\ Size \in [Data -> Nat]
    /\ Siblings \in [Paths -> Seq(Paths)]

Entry == [path : Paths, hash : Data \cup {NoFile}, size : Nat, at : Nat]
Blob  == [data : Data, key : Nat]
Call  == [op : {"add"}, path : Paths] \cup [op : {"delete", "restore"}, id : Ids]
             \cup [op : {"purge"}]
PCs   == {"none", "open", "capture", "verify", "relock", "remove", "record",
          "limits", "saveLimits", "delBlob", "forget", "create", "copy"}
Job   == [id : Ids, path : Paths, size : Nat, at : Nat]

ASSUME NoneAssumption ==
    /\ NoFile \notin Data /\ NoEntry \notin Entry /\ NoBlob \notin Blob
    /\ NoCall \notin Call /\ NoJob \notin Job /\ Nobody \notin Workers

VARIABLES
    files,      \* the user's files
    index,      \* Store.index
    disk,       \* index.json
    blobs,      \* the .bin files of the store's directory
    key,        \* Store.key: the number of the key in use
    calls,      \* what each worker asks of the store
    holder,     \* the worker that holds Store.mu
    pc,         \* where the holder is
    job,        \* the holder's local variables
    nextId,     \* newID: ids are taken from the clock, so they only grow
    now,        \* the clock
    faults,     \* failed writes so far
    crashes,    \* crashes so far
    taken,      \* history: ids whose original the store has removed
    condemned   \* history: ids a Delete or the limits chose to drop

callVars  == <<calls, holder, pc, job>>
storeVars == <<index, disk, blobs, key>>
history   == <<taken, condemned>>
bounds    == <<now, faults, crashes>>
vars      == <<files, storeVars, callVars, nextId, bounds, history>>

TypeOK ==
    /\ files \in [Paths -> Data \cup {NoFile}]
    /\ index \in [Ids -> Entry \cup {NoEntry}]
    /\ disk \in [Ids -> Entry \cup {NoEntry}]
    /\ blobs \in [Ids -> Blob \cup {NoBlob}]
    /\ key \in Nat
    /\ calls \in [Workers -> Call \cup {NoCall}]
    /\ holder \in Workers \cup {Nobody}
    /\ pc \in PCs
    /\ job \in Job \cup {NoJob}
    /\ nextId \in Nat \ {0}
    /\ now \in Nat /\ faults \in Nat /\ crashes \in Nat
    /\ taken \subseteq Ids
    /\ condemned \subseteq Ids

Empty(none) == [id \in Ids |-> none]

(* Open found either an empty directory or one entry written by a version  *)
(* that did not encrypt.                                                   *)
Init ==
    /\ files = [p \in Paths |-> NoFile]
    /\ \/ /\ index = Empty(NoEntry) /\ blobs = Empty(NoBlob)
          /\ nextId = 1 /\ taken = {}
       \/ \E p \in Paths, c \in Contents :
             /\ index = [Empty(NoEntry) EXCEPT ![1] =
                           [path |-> p, hash |-> c, size |-> Size[c], at |-> 0]]
             /\ blobs = [Empty(NoBlob) EXCEPT ![1] = [data |-> c, key |-> Plain]]
             /\ nextId = 2 /\ taken = {1}
    /\ disk = index
    /\ key = 1
    /\ calls = [w \in Workers |-> NoCall]
    /\ holder = Nobody
    /\ pc = "none"
    /\ job = NoJob
    /\ now = RecentWindow
    /\ faults = 0 /\ crashes = 0
    /\ condemned = {}

-----------------------------------------------------------------------------
(* Operators of the store. *)

Listed(ix) == {id \in Ids : ix[id] # NoEntry}

(* recentByPath *)
Recent(p) ==
    \E id \in Listed(index) :
        index[id].path = p /\ now < index[id].at + RecentWindow

(* Mutant of Expired: an entry stays for one unit of time too long. *)
ExpiredLate == {id \in Listed(index) : index[id].at + MaxAge + 1 < now}

(* enforceLimitsLocked: what is too old, then everything that comes after  *)
(* the running total, taken from the oldest entry on, has passed maxBytes. *)
Expired == {id \in Listed(index) : index[id].at + MaxAge < now}

SizesOf(S) == [id \in Ids |-> IF id \in S THEN index[id].size ELSE 0]

RunningTotal(sizes) ==
    LET total[n \in 0..MaxEntries] ==
            IF n = 0 THEN 0 ELSE total[n - 1] + sizes[n]
    IN  total

TotalSize(S) == RunningTotal(SizesOf(S))[MaxEntries]

OverLimit ==
    LET Live  == Listed(index) \ Expired
        total == RunningTotal(SizesOf(Live))
    IN  IF MaxBytes = 0 THEN {} ELSE {id \in Live : total[id] > MaxBytes}

(* pickRestoreTarget, when the original name is free, holds other bytes or *)
(* cannot be hashed.                                                       *)
RestoreTarget(p, t) ==
    \/ files[p] = NoFile /\ t = p
    \/ /\ files[p] # NoFile
       /\ \E i \in DOMAIN Siblings[p] :
             /\ t = Siblings[p][i]
             /\ files[t] = NoFile
             /\ \A j \in 1..(i - 1) : files[Siblings[p][j]] # NoFile

(* decryptFile, or the plain copy when the header is missing. *)
Decryptable(id) == blobs[id].key \in {Plain, key}

(* persistLocked: index.json is replaced as a whole, or not at all. *)
Save(ix) ==
    \/ disk' = ix /\ UNCHANGED faults
    \/ UNCHANGED disk /\ faults < MaxFaults /\ faults' = faults + 1

Return ==
    /\ calls' = [calls EXCEPT ![holder] = NoCall]
    /\ holder' = Nobody
    /\ pc' = "none"
    /\ job' = NoJob

(* A call that answers without keeping the lock. *)
Answer(w) ==
    /\ calls' = [calls EXCEPT ![w] = NoCall]
    /\ UNCHANGED <<holder, pc, job>>

Goto(step) == pc' = step /\ UNCHANGED <<calls, holder, job>>

Lock(w, step, j) ==
    /\ holder' = w
    /\ pc' = step
    /\ job' = j
    /\ UNCHANGED calls

JobOn(id) == [id |-> id, path |-> index[id].path,
              size |-> index[id].size, at |-> index[id].at]

Asks(w, op) == holder = Nobody /\ calls[w] # NoCall /\ calls[w].op = op

(* The adds that have still to take an id: none is asked for that the      *)
(* bound on ids would leave waiting for ever.                              *)
PendingAdds == Cardinality({w \in Workers \ {holder} :
                                calls[w] # NoCall /\ calls[w].op = "add"})

-----------------------------------------------------------------------------
(* Callers: the engine and the user (add), the user (delete, restore), the *)
(* janitor (purge).                                                        *)
Ask(w) ==
    /\ calls[w] = NoCall
    /\ \/ /\ nextId + PendingAdds <= MaxEntries
          /\ \E p \in Paths : calls' = [calls EXCEPT ![w] = [op |-> "add", path |-> p]]
       \/ \E id \in {i \in Ids : i < nextId}, op \in {"delete", "restore"} :
             calls' = [calls EXCEPT ![w] = [op |-> op, id |-> id]]
       \/ calls' = [calls EXCEPT ![w] = [op |-> "purge"]]
    /\ UNCHANGED <<files, storeVars, holder, pc, job, nextId, bounds, history>>

(* Add: take the lock; a path quarantined within the window is answered    *)
(* with the entry it already has.                                          *)
AddRecent(w) ==
    /\ Asks(w, "add")
    /\ Recent(calls[w].path)
    /\ Answer(w)
    /\ UNCHANGED <<files, storeVars, nextId, bounds, history>>

AddEnter(w) ==
    /\ Asks(w, "add")
    /\ ~Recent(calls[w].path)
    /\ nextId <= MaxEntries
    /\ Lock(w, "open", [id |-> nextId, path |-> calls[w].path, size |-> 0, at |-> now])
    /\ nextId' = nextId + 1
    /\ UNCHANGED <<files, storeVars, bounds, history>>

(* The source is gone: an entry without a copy is recorded. *)
AddMissing ==
    /\ pc = "open"
    /\ files[job.path] = NoFile
    /\ index' = [index EXCEPT ![job.id] =
                   [path |-> job.path, hash |-> NoFile, size |-> 0, at |-> job.at]]
    /\ Save(index')
    /\ Return
    /\ UNCHANGED <<files, blobs, key, nextId, now, crashes, history>>

(* The source is opened and its size read. *)
AddOpen ==
    /\ pc = "open"
    /\ files[job.path] # NoFile
    /\ job' = [job EXCEPT !.size = Size[files[job.path]]]
    /\ pc' = "capture"
    /\ UNCHANGED <<files, storeVars, calls, holder, nextId, bounds, history>>

(* Mutant of AddAbort: the copy is also dropped when the original is gone. *)
AddAbortLate ==
    /\ pc \in {"open", "capture", "verify", "record"}
    /\ blobs' = [blobs EXCEPT ![job.id] = NoBlob]
    /\ Return
    /\ UNCHANGED <<files, index, disk, key, nextId, bounds, history>>

(* Opening, reading, writing or closing failed: no copy is left. *)
AddAbort ==
    /\ pc \in {"open", "capture", "verify"}
    /\ blobs' = [blobs EXCEPT ![job.id] = NoBlob]
    /\ Return
    /\ UNCHANGED <<files, index, disk, key, nextId, bounds, history>>

AddCapture ==
    /\ pc = "capture"
    /\ blobs' = [blobs EXCEPT ![job.id] = [data |-> files[job.path], key |-> key]]
    /\ Goto("verify")
    /\ UNCHANGED <<files, index, disk, key, nextId, bounds, history>>

(* The source grew or shrank while it was read: the copy is dropped and    *)
(* Add calls itself, with Store.mu held.                                   *)
AddRetry ==
    /\ pc = "verify"
    /\ Size[files[job.path]] # job.size
    /\ blobs' = [blobs EXCEPT ![job.id] = NoBlob]
    /\ Goto("relock")
    /\ UNCHANGED <<files, index, disk, key, nextId, bounds, history>>

AddVerified ==
    /\ pc = "verify"
    /\ Size[files[job.path]] = job.size
    /\ Goto("remove")
    /\ UNCHANGED <<files, storeVars, nextId, bounds, history>>

(* The original is removed, or renamed away when it cannot be removed; if  *)
(* that fails too it stays, marked "[delete pending]".                     *)
AddRemove ==
    /\ pc = "remove"
    /\ \/ /\ files' = [files EXCEPT ![job.path] = NoFile]
          /\ taken' = taken \cup {job.id}
       \/ files[job.path] # NoFile /\ UNCHANGED <<files, taken>>
    /\ Goto("record")
    /\ UNCHANGED <<storeVars, nextId, bounds, condemned>>

(* The entry is indexed and the index saved; a failed save is returned to  *)
(* the caller at once, with the limits not enforced.                       *)
AddRecord ==
    /\ pc = "record"
    /\ index' = [index EXCEPT ![job.id] =
                   [path |-> job.path, hash |-> blobs[job.id].data,
                    size |-> Size[blobs[job.id].data], at |-> job.at]]
    /\ Save(index')
    /\ \/ faults' = faults /\ Goto("limits")
       \/ faults' # faults /\ Return
    /\ UNCHANGED <<files, blobs, key, nextId, now, crashes, history>>

(* PurgeOld: take the lock and enforce the limits. *)
PurgeEnter(w) ==
    /\ Asks(w, "purge")
    /\ Lock(w, "limits", NoJob)
    /\ UNCHANGED <<files, storeVars, nextId, bounds, history>>

(* The dropped entries leave the index whether or not their copies could   *)
(* be removed.                                                             *)
EnforceLimits ==
    /\ pc = "limits"
    /\ LET dropped == Expired \cup OverLimit
       IN  \E stuck \in SUBSET dropped :
             /\ \/ stuck = {} /\ UNCHANGED faults
                \/ stuck # {} /\ faults < MaxFaults /\ faults' = faults + 1
             /\ blobs' = [id \in Ids |-> IF id \in dropped \ stuck THEN NoBlob
                                                                   ELSE blobs[id]]
             /\ index' = [id \in Ids |-> IF id \in dropped THEN NoEntry ELSE index[id]]
             /\ condemned' = condemned \cup dropped
    /\ Goto("saveLimits")
    /\ UNCHANGED <<files, disk, key, nextId, now, crashes, taken>>

SaveLimits ==
    /\ pc = "saveLimits"
    /\ Save(index)
    /\ Return
    /\ UNCHANGED <<files, index, blobs, key, nextId, now, crashes, history>>

(* Delete: the copy first, then the entry. *)
DeleteUnknown(w) ==
    /\ Asks(w, "delete")
    /\ index[calls[w].id] = NoEntry
    /\ Answer(w)
    /\ UNCHANGED <<files, storeVars, nextId, bounds, history>>

DeleteEnter(w) ==
    /\ Asks(w, "delete")
    /\ index[calls[w].id] # NoEntry
    /\ Lock(w, "delBlob", JobOn(calls[w].id))
    /\ UNCHANGED <<files, storeVars, nextId, bounds, history>>

DeleteBlob ==
    /\ pc = "delBlob"
    /\ \/ /\ blobs' = [blobs EXCEPT ![job.id] = NoBlob]
          /\ condemned' = condemned \cup {job.id}
          /\ Goto("forget")
       \/ Return /\ UNCHANGED <<blobs, condemned>>
    /\ UNCHANGED <<files, index, disk, key, nextId, bounds, taken>>

(* The last step of Delete and of Restore. *)
Forget ==
    /\ pc = "forget"
    /\ index' = [index EXCEPT ![job.id] = NoEntry]
    /\ Save(index')
    /\ Return
    /\ UNCHANGED <<files, blobs, key, nextId, now, crashes, history>>

(* Restore: an unknown id, a capture of size 0, a missing copy or no free  *)
(* name is an error.                                                       *)
RestoreRefused(w) ==
    /\ Asks(w, "restore")
    /\ LET id == calls[w].id
       IN  \/ index[id] = NoEntry
           \/ /\ index[id] # NoEntry
              /\ \/ index[id].size = 0
                 \/ blobs[id] = NoBlob
                 \/ ~ \E t \in Paths : RestoreTarget(index[id].path, t)
    /\ Answer(w)
    /\ UNCHANGED <<files, storeVars, nextId, bounds, history>>

Restorable(id) == index[id] # NoEntry /\ index[id].size > 0 /\ blobs[id] # NoBlob

(* Mutant of RestoreAlready: the index is not saved. *)
RestoreAlreadyUnsaved(w) ==
    /\ Asks(w, "restore")
    /\ LET id == calls[w].id
       IN  /\ Restorable(id)
           /\ files[index[id].path] # NoFile
           /\ files[index[id].path] = index[id].hash
           /\ index' = [index EXCEPT ![id] = NoEntry]
    /\ Answer(w)
    /\ UNCHANGED <<files, disk, blobs, key, nextId, bounds, history>>

(* errAlreadyRestored: the same bytes are at the original name. *)
RestoreAlready(w) ==
    /\ Asks(w, "restore")
    /\ LET id == calls[w].id
       IN  /\ Restorable(id)
           /\ files[index[id].path] # NoFile
           /\ files[index[id].path] = index[id].hash
           /\ index' = [index EXCEPT ![id] = NoEntry]
    /\ Save(index')
    /\ Answer(w)
    /\ UNCHANGED <<files, blobs, key, nextId, now, crashes, history>>

(* A target is picked; OnBeforeRestoreWrite then runs under the lock. *)
RestoreEnter(w) ==
    /\ Asks(w, "restore")
    /\ LET id == calls[w].id
       IN  /\ Restorable(id)
           /\ \E t \in Paths :
                /\ RestoreTarget(index[id].path, t)
                /\ Lock(w, "create", [JobOn(id) EXCEPT !.path = t])
    /\ UNCHANGED <<files, storeVars, nextId, bounds, history>>

(* O_CREATE|O_EXCL: a file that has appeared meanwhile is left alone. *)
RestoreCreate ==
    /\ pc = "create"
    /\ \/ /\ files[job.path] = NoFile
          /\ files' = [files EXCEPT ![job.path] = Partial]
          /\ Goto("copy")
       \/ Return /\ UNCHANGED files
    /\ UNCHANGED <<storeVars, nextId, bounds, history>>

(* Mutant of RestoreCopy: the copy is dropped before the index is saved. *)
RestoreCopyDropsBlob ==
    /\ pc = "copy"
    /\ Decryptable(job.id)
    /\ files' = [files EXCEPT ![job.path] = blobs[job.id].data]
    /\ blobs' = [blobs EXCEPT ![job.id] = NoBlob]
    /\ Goto("forget")
    /\ UNCHANGED <<index, disk, key, nextId, bounds, history>>

RestoreCopy ==
    /\ pc = "copy"
    /\ Decryptable(job.id)
    /\ files' = [files EXCEPT ![job.path] = blobs[job.id].data]
    /\ Goto("forget")
    /\ UNCHANGED <<storeVars, nextId, bounds, history>>

(* Mutant of RestoreDamaged: the error path does not unlock Store.mu. *)
RestoreDamagedLocked ==
    /\ pc = "copy"
    /\ files' = [files EXCEPT ![job.path] = NoFile]
    /\ calls' = [calls EXCEPT ![holder] = NoCall]
    /\ pc' = "none"
    /\ UNCHANGED <<storeVars, holder, job, nextId, bounds, history>>

(* A damaged copy, or a write that fails: the target is removed again. *)
RestoreDamaged ==
    /\ pc = "copy"
    /\ files' = [files EXCEPT ![job.path] = NoFile]
    /\ Return
    /\ UNCHANGED <<storeVars, nextId, bounds, history>>

-----------------------------------------------------------------------------
(* The environment. *)

(* Windows lets others write to a file the store is reading. *)
AppWrite(p, c) ==
    /\ files[p] # c
    /\ files' = [files EXCEPT ![p] = c]
    /\ UNCHANGED <<storeVars, callVars, nextId, bounds, history>>

(* It does not let them remove one the store has open. *)
AppRemove(p) ==
    /\ files[p] # NoFile
    /\ ~(pc \in {"capture", "verify", "copy"} /\ job.path = p)
    /\ files' = [files EXCEPT ![p] = NoFile]
    /\ UNCHANGED <<storeVars, callVars, nextId, bounds, history>>

Tick ==
    /\ now < MaxTime
    /\ now' = now + 1
    /\ UNCHANGED <<files, storeVars, callVars, nextId, faults, crashes, history>>

(* Mutant of CrashRestart: ids are numbered by the entries listed. *)
CrashRestartRenumbers ==
    /\ crashes < MaxCrashes
    /\ crashes' = crashes + 1
    /\ index' = disk
    /\ calls' = [w \in Workers |-> NoCall]
    /\ holder' = Nobody
    /\ pc' = "none"
    /\ job' = NoJob
    /\ nextId' = Cardinality(Listed(disk))
    /\ UNCHANGED <<files, disk, blobs, key, now, faults, history>>

(* The service dies and is started again: Open reads the index from disk;  *)
(* loadKey generates a new key when DPAPI cannot unwrap the stored one.    *)
CrashRestart ==
    /\ crashes < MaxCrashes
    /\ crashes' = crashes + 1
    /\ index' = disk
    /\ calls' = [w \in Workers |-> NoCall]
    /\ holder' = Nobody
    /\ pc' = "none"
    /\ job' = NoJob
    /\ \/ UNCHANGED key
       \/ key < MaxKeys /\ key' = key + 1
    /\ UNCHANGED <<files, disk, blobs, nextId, now, faults, history>>

-----------------------------------------------------------------------------
Enter(w) ==
    \/ AddRecent(w) \/ AddEnter(w)
    \/ PurgeEnter(w)
    \/ DeleteUnknown(w) \/ DeleteEnter(w)
    \/ RestoreRefused(w) \/ RestoreAlready(w) \/ RestoreEnter(w)

Step ==
    \/ AddMissing \/ AddOpen \/ AddAbort \/ AddCapture \/ AddRetry
    \/ AddVerified \/ AddRemove \/ AddRecord
    \/ EnforceLimits \/ SaveLimits
    \/ DeleteBlob \/ Forget
    \/ RestoreCreate \/ RestoreCopy \/ RestoreDamaged

Environment ==
    \/ \E p \in Paths, c \in Contents : AppWrite(p, c)
    \/ \E p \in Paths : AppRemove(p)
    \/ Tick
    \/ CrashRestart

Next ==
    \/ \E w \in Workers : Ask(w) \/ Enter(w)
    \/ Step
    \/ Environment

(* The holder of the lock runs; Go's mutex hands itself to a waiter that   *)
(* has starved for a millisecond, so a caller that waits gets it.          *)
Fairness ==
    /\ WF_vars(Step)
    /\ \A w \in Workers : SF_vars(Enter(w))

Spec == Init /\ [][Next]_vars

FairSpec == Spec /\ Fairness

-----------------------------------------------------------------------------
(* Properties. *)

(* No operation, failed save, purge or crash loses a file the store has    *)
(* removed: once the original is gone its stored copy stays in the vault   *)
(* until a Delete or a limit has chosen to drop it (Add, persistLocked,    *)
(* enforceLimitsLocked).                                                   *)
TakenIsKept == \A id \in taken : blobs[id] # NoBlob \/ id \in condemned

(* Whatever the index says in memory or would say after a restart, an      *)
(* entry that claims bytes is backed by a copy of exactly the bytes whose  *)
(* hash it records, unless it is being deleted (Add's capture order,       *)
(* Delete, load).                                                          *)
Backed(ix) ==
    \A id \in Ids \ condemned :
        ix[id] # NoEntry =>
            \/ ix[id].size = 0
            \/ blobs[id] # NoBlob /\ blobs[id].data = ix[id].hash

ListedIsBacked == Backed(index) /\ Backed(disk)

(* While no write of index.json has failed, the file says what memory says *)
(* whenever nobody holds the lock, so a restart between two calls forgets  *)
(* nothing and brings nothing back (persistLocked at the end of every      *)
(* operation).                                                             *)
DiskFollowsMemory == holder = Nobody /\ faults = 0 => disk = index

(* When the limits have been enforced, the listed entries fit in MaxBytes, *)
(* and the ones that stayed had not outlived MaxAge when they were looked  *)
(* at (enforceLimitsLocked).                                               *)
LimitsHold ==
    [][pc = "limits" /\ pc' = "saveLimits" =>
         /\ MaxBytes # 0 => TotalSize(Listed(index))' <= MaxBytes
         /\ \A id \in Listed(index)' : now <= index'[id].at + MaxAge]_vars

(* Every call of the store returns, whatever fails and whatever the other  *)
(* programs do, unless Add is in the retry that takes its own lock.        *)
CallsReturn ==
    \A w \in Workers : calls[w] # NoCall ~> calls[w] = NoCall \/ pc = "relock"

(* The store implements the vault it promises (module Vault): the copies   *)
(* are the .bin files whatever key they were written with, the catalogue   *)
(* is index.json, and the lock, the index in memory, the steps, failed     *)
(* writes and crashes are invisible (Add, Delete, Restore, enforceLimits-  *)
(* Locked, persistLocked, load).                                           *)
Copies == [id \in Ids |-> IF blobs[id] = NoBlob THEN NoFile ELSE blobs[id].data]

Catalogue == [id \in Ids |-> IF disk[id] = NoEntry THEN NoEntry
                             ELSE IF disk[id].size = 0 THEN NoFile
                             ELSE disk[id].hash]

V == INSTANCE Vault WITH
        Contents <- Data, Nothing <- NoFile, Unlisted <- NoEntry,
        copies <- Copies, catalogue <- Catalogue

ImplementsVault == V!Spec

(* Stated by the change log of v1.0.9: a capture of a file that is being   *)
(* written is dropped and retried, so Add returns all the same.            *)
AddReturns ==
    \A w \in Workers : calls[w] # NoCall ~> calls[w] = NoCall

(* Stated by TestAdd: when Add has stored a file, the copy is there.       *)
AddKeepsItsCopy ==
    [][pc = "limits" /\ pc' = "saveLimits" /\ calls[holder].op = "add" =>
         blobs'[job.id] # NoBlob]_vars
=============================================================================

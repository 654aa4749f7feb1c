-------------------------- MODULE QuarantineProofs --------------------------
(* Theorems about the quarantine store, for any number of callers, files,  *)
(* contents, entries, failed writes and crashes.                           *)
EXTENDS Quarantine, TLAPS, WellFoundedInduction

AddSteps == {"open", "capture", "verify", "relock", "remove", "record"}

(* The lock is held exactly while an operation is in progress, and the     *)
(* operations that work on an entry have local variables.                  *)
LockInv ==
    /\ pc = "none" <=> holder = Nobody
    /\ pc \notin {"none", "limits", "saveLimits"} => job \in Job

(* The source the store has open cannot be removed under it, so its size   *)
(* can be read again.                                                      *)
SourceInv == pc \in {"capture", "verify"} => files[job.path] # NoFile

(* From the capture to the record the copy exists; so it does while a      *)
(* restore reads it.                                                       *)
CopyInv ==
    pc \in {"verify", "remove", "record", "create", "copy"} => blobs[job.id] # NoBlob

(* The id of an Add in progress is fresh: no entry refers to it yet, and   *)
(* its original is still there until the removal.                          *)
FreshInv ==
    pc \in AddSteps =>
        /\ index[job.id] = NoEntry
        /\ disk[job.id] = NoEntry
        /\ job.id < nextId
        /\ pc # "record" => job.id \notin taken

(* Ids that have not been handed out have left no trace. *)
UnusedInv ==
    \A id \in Ids : id >= nextId =>
        index[id] = NoEntry /\ disk[id] = NoEntry /\ id \notin taken

(* Only between the choice of the limits and their save may memory be      *)
(* ahead of the file.                                                      *)
SavedInv == faults = 0 /\ pc # "saveLimits" => disk = index

IInv ==
    /\ TypeOK /\ LockInv /\ SourceInv /\ CopyInv /\ FreshInv /\ UnusedInv
    /\ SavedInv /\ TakenIsKept /\ ListedIsBacked

USE QuarantineAssumption, NoneAssumption
    DEF vars, storeVars, callVars, history, bounds, Ids, PCs, AddSteps

(* A new request of a caller touches nothing the invariant speaks of. *)
LEMMA AskKeeps ==
    ASSUME IInv, NEW w \in Workers, Ask(w) PROVE IInv'
<1>1. TypeOK'
  <2>1. calls' \in [Workers -> Call \cup {NoCall}]
    <3>1. ASSUME NEW p \in Paths PROVE [op |-> "add", path |-> p] \in Call
      BY DEF Call
    <3>2. ASSUME NEW id \in Ids, NEW op \in {"delete", "restore"}
          PROVE [op |-> op, id |-> id] \in Call
      BY DEF Call
    <3>3. [op |-> "purge"] \in Call
      BY DEF Call
    <3>4. calls \in [Workers -> Call \cup {NoCall}]
      BY DEF IInv, TypeOK
    <3>5. \E c \in Call : calls' = [calls EXCEPT ![w] = c]
      BY <3>1, <3>2, <3>3 DEF Ask
    <3>. QED
      BY <3>4, <3>5
  <2>. QED
    BY <2>1 DEF IInv, TypeOK, Ask
<1>2. LockInv' /\ SourceInv' /\ CopyInv' /\ FreshInv' /\ UnusedInv' /\
      SavedInv' /\ TakenIsKept' /\ ListedIsBacked'
  BY DEF IInv, LockInv, SourceInv, CopyInv, FreshInv, UnusedInv, SavedInv,
     TakenIsKept, ListedIsBacked, Backed, Ask, PendingAdds
<1>. QED
  BY <1>1, <1>2 DEF IInv

(* The answer of recentByPath touches nothing but the call. *)
LEMMA AddRecentKeeps ==
    ASSUME IInv, NEW w \in Workers, AddRecent(w) PROVE IInv'
<1>1. TypeOK'
  BY DEF IInv, TypeOK, AddRecent, Asks, Answer
<1>2. LockInv' /\ SourceInv' /\ CopyInv' /\ FreshInv' /\ UnusedInv' /\
      SavedInv' /\ TakenIsKept' /\ ListedIsBacked'
  BY DEF IInv, LockInv, SourceInv, CopyInv, FreshInv, UnusedInv, SavedInv,
     TakenIsKept, ListedIsBacked, Backed, AddRecent, Asks, Answer
<1>. QED
  BY <1>1, <1>2 DEF IInv

(* Add takes the lock with an id no entry and no copy refers to. *)
LEMMA AddEnterKeeps ==
    ASSUME IInv, NEW w \in Workers, AddEnter(w) PROVE IInv'
<1>1. job' \in Job /\ nextId' \in Nat \ {0}
  <2>1. calls[w].path \in Paths
    BY DEF IInv, TypeOK, AddEnter, Asks, Call
  <2>. QED
    BY <2>1 DEF IInv, TypeOK, AddEnter, Lock, Job
<1>2. TypeOK' /\ LockInv'
  BY <1>1 DEF IInv, TypeOK, LockInv, AddEnter, Lock
<1>3. FreshInv'
  BY DEF IInv, FreshInv, TypeOK, UnusedInv, AddEnter, Asks, Lock
<1>4. UnusedInv'
  BY DEF IInv, UnusedInv, TypeOK, AddEnter, Asks, Lock
<1>5. SourceInv' /\ CopyInv' /\ SavedInv' /\ TakenIsKept' /\ ListedIsBacked'
  BY DEF IInv, LockInv, SourceInv, CopyInv, SavedInv, TakenIsKept,
     ListedIsBacked, Backed, AddEnter, Asks, Lock
<1>. QED
  BY <1>2, <1>3, <1>4, <1>5 DEF IInv

(* PurgeOld takes the lock, with no local variables. *)
LEMMA PurgeEnterKeeps ==
    ASSUME IInv, NEW w \in Workers, PurgeEnter(w) PROVE IInv'
<1>1. TypeOK'
  BY DEF IInv, TypeOK, PurgeEnter, Asks, Lock
<1>2. LockInv'
  BY DEF IInv, LockInv, PurgeEnter, Asks, Lock
<1>3. SourceInv' /\ CopyInv' /\ FreshInv' /\ UnusedInv' /\ SavedInv' /\
      TakenIsKept' /\ ListedIsBacked'
  BY DEF IInv, LockInv, SourceInv, CopyInv, FreshInv, UnusedInv, SavedInv,
     TakenIsKept, ListedIsBacked, Backed, PurgeEnter, Asks, Lock
<1>. QED
  BY <1>1, <1>2, <1>3 DEF IInv

(* Delete of an unknown id touches nothing but the call. *)
LEMMA DeleteUnknownKeeps ==
    ASSUME IInv, NEW w \in Workers, DeleteUnknown(w) PROVE IInv'
<1>1. TypeOK'
  BY DEF IInv, TypeOK, DeleteUnknown, Asks, Answer
<1>2. LockInv' /\ SourceInv' /\ CopyInv' /\ FreshInv' /\ UnusedInv' /\
      SavedInv' /\ TakenIsKept' /\ ListedIsBacked'
  BY DEF IInv, LockInv, SourceInv, CopyInv, FreshInv, UnusedInv, SavedInv,
     TakenIsKept, ListedIsBacked, Backed, DeleteUnknown, Asks, Answer
<1>. QED
  BY <1>1, <1>2 DEF IInv

(* Delete takes the lock with the entry it has found. *)
LEMMA DeleteEnterKeeps ==
    ASSUME IInv, NEW w \in Workers, DeleteEnter(w) PROVE IInv'
<1>1. TypeOK'
  BY DEF IInv, TypeOK, DeleteEnter, Asks, Lock, JobOn, Entry, Call, Job
<1>2. LockInv'
  BY DEF IInv, LockInv, TypeOK, DeleteEnter, Asks, Lock, JobOn, Entry, Call,
     Job
<1>3. SourceInv' /\ CopyInv' /\ FreshInv' /\ UnusedInv' /\ SavedInv' /\
      TakenIsKept' /\ ListedIsBacked'
  BY DEF IInv, LockInv, SourceInv, CopyInv, FreshInv, UnusedInv, SavedInv,
     TakenIsKept, ListedIsBacked, Backed, DeleteEnter, Asks, Lock, JobOn
<1>. QED
  BY <1>1, <1>2, <1>3 DEF IInv

(* A restore that is refused touches nothing but the call. *)
LEMMA RestoreRefusedKeeps ==
    ASSUME IInv, NEW w \in Workers, RestoreRefused(w) PROVE IInv'
<1>1. TypeOK'
  BY DEF IInv, TypeOK, RestoreRefused, Asks, Answer
<1>2. LockInv' /\ SourceInv' /\ CopyInv' /\ FreshInv' /\ UnusedInv' /\
      SavedInv' /\ TakenIsKept' /\ ListedIsBacked'
  BY DEF IInv, LockInv, SourceInv, CopyInv, FreshInv, UnusedInv, SavedInv,
     TakenIsKept, ListedIsBacked, Backed, RestoreRefused, Asks, Answer
<1>. QED
  BY <1>1, <1>2 DEF IInv

(* A restore of what is back already drops the entry and saves the index;  *)
(* the copy stays.                                                         *)
LEMMA RestoreAlreadyKeeps ==
    ASSUME IInv, NEW w \in Workers, RestoreAlready(w) PROVE IInv'
<1>1. TypeOK'
  <2>1. index' \in [Ids -> Entry \cup {NoEntry}]
    BY DEF IInv, TypeOK, RestoreAlready, Restorable
  <2>2. disk' \in [Ids -> Entry \cup {NoEntry}]
    BY <2>1 DEF IInv, TypeOK, RestoreAlready, Save
  <2>3. faults \in Nat /\ (faults' = faults \/ faults' = faults + 1)
    BY DEF IInv, TypeOK, RestoreAlready, Save
  <2>4. faults' \in Nat
    BY <2>3
  <2>. QED
    BY <2>1, <2>2, <2>4 DEF IInv, TypeOK, RestoreAlready, Answer
<1>2. FreshInv'
  BY DEF IInv, FreshInv, LockInv, RestoreAlready, Asks, Answer, Save,
     Restorable
<1>3. UnusedInv'
  BY DEF IInv, UnusedInv, TypeOK, RestoreAlready, Asks, Answer, Save,
     Restorable
<1>4. SavedInv'
  BY DEF IInv, SavedInv, TypeOK, RestoreAlready, Asks, Answer, Save, Restorable
<1>5. ListedIsBacked'
  <2>1. blobs' = blobs /\ condemned' = condemned
    BY DEF RestoreAlready
  <2>2. Backed(index')
    BY DEF IInv, ListedIsBacked, Backed, RestoreAlready
  <2>3. Backed(disk')
    BY <2>2 DEF IInv, ListedIsBacked, RestoreAlready, Save
  <2>. QED
    BY <2>1, <2>2, <2>3 DEF ListedIsBacked, Backed
<1>6. LockInv' /\ SourceInv' /\ CopyInv' /\ TakenIsKept'
  BY DEF IInv, LockInv, SourceInv, CopyInv, TakenIsKept, RestoreAlready,
     Asks, Answer, Save, Restorable
<1>. QED
  BY <1>1, <1>2, <1>3, <1>4, <1>5, <1>6 DEF IInv

(* A restore takes the lock with an entry whose copy exists. *)
LEMMA RestoreEnterKeeps ==
    ASSUME IInv, NEW w \in Workers, RestoreEnter(w) PROVE IInv'
<1>1. TypeOK'
  BY DEF IInv, TypeOK, RestoreEnter, Asks, Lock, JobOn, Restorable, Entry,
     Call, Job
<1>2. LockInv'
  BY DEF IInv, LockInv, TypeOK, RestoreEnter, Asks, Lock, JobOn, Restorable,
     Entry, Call, Job
<1>3. CopyInv'
  BY DEF IInv, CopyInv, RestoreEnter, Asks, Lock, JobOn, Restorable
<1>4. SourceInv' /\ FreshInv' /\ UnusedInv' /\ SavedInv' /\ TakenIsKept' /\
      ListedIsBacked'
  BY DEF IInv, LockInv, SourceInv, FreshInv, UnusedInv, SavedInv,
     TakenIsKept, ListedIsBacked, Backed, RestoreEnter, Asks, Lock, JobOn,
     Restorable
<1>. QED
  BY <1>1, <1>2, <1>3, <1>4 DEF IInv

(* The entry of a source that is gone claims no bytes, so no copy has to   *)
(* back it.                                                                *)
LEMMA AddMissingKeeps ==
    ASSUME IInv, AddMissing PROVE IInv'
<1>1. TypeOK'
  <2>1. index' \in [Ids -> Entry \cup {NoEntry}]
    BY DEF IInv, TypeOK, LockInv, AddMissing, Job, Entry
  <2>2. disk' \in [Ids -> Entry \cup {NoEntry}]
    BY <2>1 DEF IInv, TypeOK, AddMissing, Save
  <2>3. faults \in Nat /\ (faults' = faults \/ faults' = faults + 1)
    BY DEF IInv, TypeOK, AddMissing, Save
  <2>4. faults' \in Nat
    BY <2>3
  <2>. QED
    BY <2>1, <2>2, <2>4 DEF IInv, TypeOK, AddMissing, Return
<1>2. UnusedInv'
  BY DEF IInv, UnusedInv, TypeOK, FreshInv, AddMissing, Save, Return
<1>3. SavedInv'
  BY DEF IInv, SavedInv, TypeOK, AddMissing, Save, Return
<1>4. ListedIsBacked'
  <2>1. blobs' = blobs /\ condemned' = condemned
    BY DEF AddMissing
  <2>2. Backed(index')
    BY DEF IInv, ListedIsBacked, Backed, AddMissing
  <2>3. Backed(disk')
    BY <2>2 DEF IInv, ListedIsBacked, AddMissing, Save
  <2>. QED
    BY <2>1, <2>2, <2>3 DEF ListedIsBacked, Backed
<1>5. LockInv' /\ SourceInv' /\ CopyInv' /\ FreshInv' /\ TakenIsKept'
  BY DEF IInv, LockInv, SourceInv, CopyInv, FreshInv, TakenIsKept,
     AddMissing, Save, Return
<1>. QED
  BY <1>1, <1>2, <1>3, <1>4, <1>5 DEF IInv

(* The source that is opened exists. *)
LEMMA AddOpenKeeps ==
    ASSUME IInv, AddOpen PROVE IInv'
<1>1. TypeOK'
  BY DEF IInv, TypeOK, LockInv, AddOpen, Job
<1>2. SourceInv'
  BY DEF IInv, SourceInv, AddOpen
<1>3. job' \in Job /\ job'.id = job.id
  BY DEF IInv, TypeOK, LockInv, AddOpen, Job
<1>4. LockInv' /\ CopyInv' /\ FreshInv' /\ UnusedInv' /\ SavedInv' /\
      TakenIsKept' /\ ListedIsBacked'
  BY <1>3
     DEF IInv, LockInv, CopyInv, FreshInv, UnusedInv, SavedInv,
         TakenIsKept, ListedIsBacked, Backed, AddOpen
<1>. QED
  BY <1>1, <1>2, <1>4 DEF IInv

(* An Add that fails drops its copy before the original has been taken,    *)
(* and no entry refers to it.                                              *)
LEMMA AddAbortKeeps ==
    ASSUME IInv, AddAbort PROVE IInv'
<1>1. TypeOK'
  BY DEF IInv, TypeOK, AddAbort, Return
<1>2. TakenIsKept'
  BY DEF IInv, TakenIsKept, FreshInv, AddAbort, Return
<1>3. ListedIsBacked'
  BY DEF IInv, ListedIsBacked, Backed, TypeOK, LockInv, FreshInv, AddAbort,
     Return
<1>4. LockInv' /\ SourceInv' /\ CopyInv' /\ FreshInv' /\ UnusedInv' /\
      SavedInv'
  BY DEF IInv, LockInv, SourceInv, CopyInv, FreshInv, UnusedInv, SavedInv,
     AddAbort, Return
<1>. QED
  BY <1>1, <1>2, <1>3, <1>4 DEF IInv

(* The capture writes the copy of the id in progress and of no other. *)
LEMMA AddCaptureKeeps ==
    ASSUME IInv, AddCapture PROVE IInv'
<1>1. TypeOK'
  <2>1. blobs' \in [Ids -> Blob \cup {NoBlob}]
    BY DEF IInv, TypeOK, LockInv, SourceInv, AddCapture, Job, Blob
  <2>. QED
    BY <2>1 DEF IInv, TypeOK, AddCapture, Goto
<1>2. CopyInv'
  <2>1. [data |-> files[job.path], key |-> key] \in Blob
    BY DEF IInv, TypeOK, LockInv, SourceInv, AddCapture, Job, Blob
  <2>. QED
    BY <2>1 DEF IInv, TypeOK, LockInv, CopyInv, AddCapture, Goto, Job
<1>3. TakenIsKept'
  BY DEF IInv, TakenIsKept, FreshInv, AddCapture, Goto
<1>4. ListedIsBacked'
  BY DEF IInv, ListedIsBacked, Backed, FreshInv, AddCapture, Goto
<1>5. LockInv' /\ SourceInv' /\ FreshInv' /\ UnusedInv' /\ SavedInv'
  BY DEF IInv, LockInv, SourceInv, FreshInv, UnusedInv, SavedInv,
     AddCapture, Goto
<1>. QED
  BY <1>1, <1>2, <1>3, <1>4, <1>5 DEF IInv

(* The retry drops the copy of the id in progress, which nothing refers to *)
(* yet.                                                                    *)
LEMMA AddRetryKeeps ==
    ASSUME IInv, AddRetry PROVE IInv'
<1>1. TypeOK'
  BY DEF IInv, TypeOK, AddRetry, Goto
<1>2. TakenIsKept'
  BY DEF IInv, TakenIsKept, FreshInv, AddRetry, Goto
<1>3. ListedIsBacked'
  BY DEF IInv, ListedIsBacked, Backed, FreshInv, AddRetry, Goto
<1>4. LockInv' /\ SourceInv' /\ CopyInv' /\ FreshInv' /\ UnusedInv' /\
      SavedInv'
  BY DEF IInv, LockInv, SourceInv, CopyInv, FreshInv, UnusedInv, SavedInv,
     AddRetry, Goto
<1>. QED
  BY <1>1, <1>2, <1>3, <1>4 DEF IInv

(* The second size agrees: the copy stays. *)
LEMMA AddVerifiedKeeps ==
    ASSUME IInv, AddVerified PROVE IInv'
<1>1. TypeOK'
  BY DEF IInv, TypeOK, AddVerified, Goto
<1>2. LockInv' /\ SourceInv' /\ CopyInv' /\ FreshInv' /\ UnusedInv' /\
      SavedInv' /\ TakenIsKept' /\ ListedIsBacked'
  BY DEF IInv, LockInv, SourceInv, CopyInv, FreshInv, UnusedInv, SavedInv,
     TakenIsKept, ListedIsBacked, Backed, AddVerified, Goto
<1>. QED
  BY <1>1, <1>2 DEF IInv

(* The original is removed only when its copy has been made. *)
LEMMA AddRemoveKeeps ==
    ASSUME IInv, AddRemove PROVE IInv'
<1>1. TypeOK'
  BY DEF IInv, TypeOK, LockInv, AddRemove, Goto, Job
<1>2. FreshInv'
  BY DEF IInv, FreshInv, AddRemove, Goto
<1>3. UnusedInv'
  BY DEF IInv, UnusedInv, TypeOK, FreshInv, AddRemove, Goto
<1>4. TakenIsKept'
  BY DEF IInv, TakenIsKept, CopyInv, AddRemove, Goto
<1>5. LockInv' /\ SourceInv' /\ CopyInv' /\ SavedInv' /\ ListedIsBacked'
  BY DEF IInv, LockInv, SourceInv, CopyInv, SavedInv, ListedIsBacked,
     Backed, AddRemove, Goto
<1>. QED
  BY <1>1, <1>2, <1>3, <1>4, <1>5 DEF IInv

(* The entry that is recorded has the hash of the copy made under its id,  *)
(* in memory and in index.json.                                            *)
LEMMA AddRecordKeeps ==
    ASSUME IInv, AddRecord PROVE IInv'
<1>1. TypeOK'
  <2>1. index' \in [Ids -> Entry \cup {NoEntry}]
    <3>1. blobs[job.id] \in Blob /\ job \in Job
      BY DEF IInv, TypeOK, LockInv, CopyInv, AddRecord, Job
    <3>2. [path |-> job.path, hash |-> blobs[job.id].data,
           size |-> Size[blobs[job.id].data], at |-> job.at] \in Entry
      BY <3>1 DEF Blob, Entry, Job
    <3>. QED
      BY <3>1, <3>2 DEF IInv, TypeOK, AddRecord
  <2>2. disk' \in [Ids -> Entry \cup {NoEntry}]
    BY <2>1 DEF IInv, TypeOK, AddRecord, Save
  <2>3. faults \in Nat /\ (faults' = faults \/ faults' = faults + 1)
    BY DEF IInv, TypeOK, AddRecord, Save
  <2>4. faults' \in Nat
    BY <2>3
  <2>. QED
    BY <2>1, <2>2, <2>4 DEF IInv, TypeOK, AddRecord, Goto, Return
<1>2. UnusedInv'
  <2>1. \A id \in Ids : id >= nextId => index'[id] = NoEntry
    BY DEF IInv, UnusedInv, FreshInv, TypeOK, LockInv, AddRecord
  <2>2. \A id \in Ids : id >= nextId => disk'[id] = NoEntry
    BY <2>1 DEF IInv, UnusedInv, AddRecord, Save
  <2>. QED
    BY <2>1, <2>2 DEF IInv, UnusedInv, AddRecord
<1>3. SavedInv'
  BY DEF IInv, SavedInv, TypeOK, AddRecord, Goto, Return, Save
<1>4. ListedIsBacked'
  <2>1. blobs' = blobs /\ condemned' = condemned
    BY DEF AddRecord
  <2>2. Backed(index')
    BY DEF IInv, ListedIsBacked, Backed, CopyInv, AddRecord
  <2>3. Backed(disk')
    BY <2>2 DEF IInv, ListedIsBacked, AddRecord, Save
  <2>. QED
    BY <2>1, <2>2, <2>3 DEF ListedIsBacked, Backed
<1>5. LockInv' /\ SourceInv' /\ CopyInv' /\ FreshInv' /\ TakenIsKept'
  BY DEF IInv, LockInv, SourceInv, CopyInv, FreshInv, TakenIsKept,
     AddRecord, Goto, Return, Save
<1>. QED
  BY <1>1, <1>2, <1>3, <1>4, <1>5 DEF IInv

(* The limits drop the copies of the entries they condemn, and no others. *)
LEMMA EnforceLimitsKeeps ==
    ASSUME IInv, EnforceLimits PROVE IInv'
<1>1. TypeOK'
  <2>1. Expired \cup OverLimit \subseteq Ids
    BY DEF Expired, OverLimit, Listed
  <2>2. /\ blobs' \in [Ids -> Blob \cup {NoBlob}]
        /\ index' \in [Ids -> Entry \cup {NoEntry}]
    BY DEF IInv, TypeOK, EnforceLimits
  <2>3. condemned' \subseteq Ids
    BY <2>1 DEF IInv, TypeOK, EnforceLimits
  <2>4. faults \in Nat /\ (faults' = faults \/ faults' = faults + 1)
    BY DEF IInv, TypeOK, EnforceLimits
  <2>5. faults' \in Nat
    BY <2>4
  <2>. QED
    BY <2>2, <2>3, <2>5 DEF IInv, TypeOK, EnforceLimits, Goto
<1>2. UnusedInv'
  BY DEF IInv, UnusedInv, EnforceLimits, Goto, Expired, OverLimit, Listed
<1>3. TakenIsKept'
  BY DEF IInv, TakenIsKept, TypeOK, EnforceLimits, Goto, Expired, OverLimit,
     Listed
<1>4. ListedIsBacked'
  BY DEF IInv, ListedIsBacked, Backed, EnforceLimits, Goto, Expired,
     OverLimit, Listed
<1>5. LockInv' /\ SourceInv' /\ CopyInv' /\ FreshInv' /\ SavedInv'
  BY DEF IInv, LockInv, SourceInv, CopyInv, FreshInv, SavedInv,
     EnforceLimits, Goto, Expired, OverLimit, Listed
<1>. QED
  BY <1>1, <1>2, <1>3, <1>4, <1>5 DEF IInv

(* The save after the limits brings index.json level with memory. *)
LEMMA SaveLimitsKeeps ==
    ASSUME IInv, SaveLimits PROVE IInv'
<1>1. TypeOK'
  BY DEF IInv, TypeOK, LockInv, SaveLimits, Save, Return
<1>2. UnusedInv'
  BY DEF IInv, UnusedInv, SaveLimits, Save, Return
<1>3. SavedInv'
  BY DEF IInv, SavedInv, TypeOK, SaveLimits, Save, Return
<1>4. ListedIsBacked'
  BY DEF IInv, ListedIsBacked, Backed, SaveLimits, Save, Return
<1>5. LockInv' /\ SourceInv' /\ CopyInv' /\ FreshInv' /\ TakenIsKept'
  BY DEF IInv, LockInv, SourceInv, CopyInv, FreshInv, TakenIsKept,
     SaveLimits, Save, Return
<1>. QED
  BY <1>1, <1>2, <1>3, <1>4, <1>5 DEF IInv

(* Delete drops the copy of the entry it condemns. *)
LEMMA DeleteBlobKeeps ==
    ASSUME IInv, DeleteBlob PROVE IInv'
<1>1. TypeOK'
  BY DEF IInv, TypeOK, LockInv, DeleteBlob, Goto, Return, Job
<1>2. TakenIsKept'
  BY DEF IInv, TakenIsKept, TypeOK, DeleteBlob, Goto, Return
<1>3. ListedIsBacked'
  BY DEF IInv, ListedIsBacked, Backed, TypeOK, DeleteBlob, Goto, Return
<1>4. LockInv' /\ SourceInv' /\ CopyInv' /\ FreshInv' /\ UnusedInv' /\
      SavedInv'
  BY DEF IInv, LockInv, SourceInv, CopyInv, FreshInv, UnusedInv, SavedInv,
     DeleteBlob, Goto, Return
<1>. QED
  BY <1>1, <1>2, <1>3, <1>4 DEF IInv

(* The entry is dropped from memory and from index.json; its copy is not   *)
(* touched.                                                                *)
LEMMA ForgetKeeps ==
    ASSUME IInv, Forget PROVE IInv'
<1>1. TypeOK'
  <2>1. index' \in [Ids -> Entry \cup {NoEntry}]
    BY DEF IInv, TypeOK, Forget
  <2>2. disk' \in [Ids -> Entry \cup {NoEntry}]
    BY <2>1 DEF IInv, TypeOK, Forget, Save
  <2>3. faults \in Nat /\ (faults' = faults \/ faults' = faults + 1)
    BY DEF IInv, TypeOK, Forget, Save
  <2>4. faults' \in Nat
    BY <2>3
  <2>. QED
    BY <2>1, <2>2, <2>4 DEF IInv, TypeOK, Forget, Return
<1>2. UnusedInv'
  BY DEF IInv, UnusedInv, TypeOK, Forget, Save, Return
<1>3. SavedInv'
  BY DEF IInv, SavedInv, TypeOK, Forget, Save, Return
<1>4. ListedIsBacked'
  BY DEF IInv, ListedIsBacked, Backed, TypeOK, Forget, Save, Return
<1>5. LockInv' /\ SourceInv' /\ CopyInv' /\ FreshInv' /\ TakenIsKept'
  BY DEF IInv, LockInv, SourceInv, CopyInv, FreshInv, TakenIsKept, Forget,
     Save, Return
<1>. QED
  BY <1>1, <1>2, <1>3, <1>4, <1>5 DEF IInv

(* The target of a restore is created; the vault is not touched. *)
LEMMA RestoreCreateKeeps ==
    ASSUME IInv, RestoreCreate PROVE IInv'
<1>1. TypeOK'
  BY DEF IInv, TypeOK, RestoreCreate, Goto, Return, Data
<1>2. CopyInv'
  BY DEF IInv, CopyInv, RestoreCreate, Goto, Return
<1>3. LockInv' /\ SourceInv' /\ FreshInv' /\ UnusedInv' /\ SavedInv' /\
      TakenIsKept' /\ ListedIsBacked'
  BY DEF IInv, LockInv, SourceInv, FreshInv, UnusedInv, SavedInv,
     TakenIsKept, ListedIsBacked, Backed, RestoreCreate, Goto, Return
<1>. QED
  BY <1>1, <1>2, <1>3 DEF IInv

(* The copy is written to the target; the vault is not touched. *)
LEMMA RestoreCopyKeeps ==
    ASSUME IInv, RestoreCopy PROVE IInv'
<1>1. TypeOK'
  <2>1. files' \in [Paths -> Data \cup {NoFile}]
    BY DEF IInv, TypeOK, LockInv, CopyInv, RestoreCopy, Job, Blob
  <2>. QED
    BY <2>1 DEF IInv, TypeOK, RestoreCopy, Goto
<1>2. LockInv' /\ SourceInv' /\ CopyInv' /\ FreshInv' /\ UnusedInv' /\
      SavedInv' /\ TakenIsKept' /\ ListedIsBacked'
  BY DEF IInv, LockInv, SourceInv, CopyInv, FreshInv, UnusedInv, SavedInv,
     TakenIsKept, ListedIsBacked, Backed, RestoreCopy, Goto
<1>. QED
  BY <1>1, <1>2 DEF IInv

(* The target of a failed restore is removed; the vault is not touched. *)
LEMMA RestoreDamagedKeeps ==
    ASSUME IInv, RestoreDamaged PROVE IInv'
<1>1. TypeOK'
  BY DEF IInv, TypeOK, RestoreDamaged, Return
<1>2. LockInv' /\ SourceInv' /\ CopyInv' /\ FreshInv' /\ UnusedInv' /\
      SavedInv' /\ TakenIsKept' /\ ListedIsBacked'
  BY DEF IInv, LockInv, SourceInv, CopyInv, FreshInv, UnusedInv, SavedInv,
     TakenIsKept, ListedIsBacked, Backed, RestoreDamaged, Return
<1>. QED
  BY <1>1, <1>2 DEF IInv

(* Another program writes to a file: the vault is not touched. *)
LEMMA AppWriteKeeps ==
    ASSUME IInv, NEW p \in Paths, NEW c \in Contents, AppWrite(p, c) PROVE IInv'
<1>1. TypeOK'
  BY DEF IInv, TypeOK, AppWrite, Data
<1>2. SourceInv'
  BY DEF IInv, SourceInv, AppWrite, Data
<1>3. LockInv' /\ CopyInv' /\ FreshInv' /\ UnusedInv' /\ SavedInv' /\
      TakenIsKept' /\ ListedIsBacked'
  BY DEF IInv, LockInv, CopyInv, FreshInv, UnusedInv, SavedInv, TakenIsKept,
     ListedIsBacked, Backed, AppWrite
<1>. QED
  BY <1>1, <1>2, <1>3 DEF IInv

(* Another program removes a file, but none the store has open. *)
LEMMA AppRemoveKeeps ==
    ASSUME IInv, NEW p \in Paths, AppRemove(p) PROVE IInv'
<1>1. TypeOK'
  BY DEF IInv, TypeOK, AppRemove
<1>2. SourceInv'
  BY DEF IInv, SourceInv, AppRemove
<1>3. LockInv' /\ CopyInv' /\ FreshInv' /\ UnusedInv' /\ SavedInv' /\
      TakenIsKept' /\ ListedIsBacked'
  BY DEF IInv, LockInv, CopyInv, FreshInv, UnusedInv, SavedInv, TakenIsKept,
     ListedIsBacked, Backed, AppRemove
<1>. QED
  BY <1>1, <1>2, <1>3 DEF IInv

(* The passing of time touches nothing the invariant speaks of. *)
LEMMA TickKeeps ==
    ASSUME IInv, Tick PROVE IInv'
<1>1. TypeOK' /\ LockInv' /\ SourceInv' /\ CopyInv' /\ FreshInv' /\ UnusedInv'
      /\ SavedInv' /\ TakenIsKept' /\ ListedIsBacked'
  BY DEF IInv, TypeOK, LockInv, SourceInv, CopyInv, FreshInv, UnusedInv,
     SavedInv, TakenIsKept, ListedIsBacked, Backed, Tick
<1>. QED
  BY <1>1 DEF IInv

(* After a crash memory is what index.json says, which was backed already. *)
LEMMA CrashRestartKeeps ==
    ASSUME IInv, CrashRestart PROVE IInv'
<1>1. TypeOK'
  BY DEF IInv, TypeOK, CrashRestart
<1>2. SavedInv'
  BY DEF IInv, SavedInv, CrashRestart
<1>3. ListedIsBacked'
  BY DEF IInv, ListedIsBacked, Backed, CrashRestart
<1>4. LockInv' /\ SourceInv' /\ CopyInv' /\ FreshInv' /\ UnusedInv' /\
      TakenIsKept'
  BY DEF IInv, LockInv, SourceInv, CopyInv, FreshInv, UnusedInv,
     TakenIsKept, CrashRestart
<1>. QED
  BY <1>1, <1>2, <1>3, <1>4 DEF IInv

(* The store opens in a state of the inductive invariant: an empty       *)
(* directory, or one entry with the plain copy an older version made.      *)
THEOREM InitInv == Init => IInv
<1>. SUFFICES ASSUME Init PROVE IInv
  OBVIOUS
<1>1. 1 \in Ids
  OBVIOUS
<1>2. Contents \subseteq Data
  BY DEF Data
<1>3. Empty(NoEntry) \in [Ids -> {NoEntry}] /\ Empty(NoBlob) \in [Ids -> {NoBlob}]
  BY DEF Empty
<1>4. CASE index = Empty(NoEntry) /\ blobs = Empty(NoBlob) /\ nextId = 1 /\ taken = {}
  <2>1. TypeOK
    BY <1>3, <1>4 DEF Init, TypeOK
  <2>. QED
    BY <2>1, <1>3, <1>4
       DEF Init, IInv, LockInv, SourceInv, CopyInv, FreshInv, UnusedInv,
           SavedInv, TakenIsKept, ListedIsBacked, Backed
<1>5. ASSUME NEW p \in Paths, NEW c \in Contents,
             index = [Empty(NoEntry) EXCEPT ![1] =
                        [path |-> p, hash |-> c, size |-> Size[c], at |-> 0]],
             blobs = [Empty(NoBlob) EXCEPT ![1] = [data |-> c, key |-> Plain]],
             nextId = 2, taken = {1}
      PROVE  IInv
  <2>1. [path |-> p, hash |-> c, size |-> Size[c], at |-> 0] \in Entry
    BY <1>2 DEF Entry
  <2>2. [data |-> c, key |-> Plain] \in Blob
    BY <1>2 DEF Blob, Plain
  <2>3. /\ index \in [Ids -> Entry \cup {NoEntry}]
        /\ blobs \in [Ids -> Blob \cup {NoBlob}]
    BY <1>1, <1>3, <1>5, <2>1, <2>2
  <2>4. TypeOK
    BY <1>1, <1>5, <2>3 DEF Init, TypeOK
  <2>5. TakenIsKept /\ ListedIsBacked
    BY <1>1, <1>3, <1>5, <2>1, <2>2
       DEF Init, TakenIsKept, ListedIsBacked, Backed
  <2>6. \A id \in Ids : id # 1 => index[id] = NoEntry
    BY <1>1, <1>3, <1>5
  <2>7. UnusedInv
    BY <1>5, <2>6 DEF Init, UnusedInv
  <2>. QED
    BY <2>4, <2>5, <2>7
       DEF Init, IInv, LockInv, SourceInv, CopyInv, FreshInv, SavedInv
<1>. QED
  BY <1>4, <1>5 DEF Init

(* A step that changes nothing keeps the invariant. *)
LEMMA StutterKeeps ==
    ASSUME IInv, UNCHANGED vars PROVE IInv'
<1>1. TypeOK' /\ LockInv' /\ SourceInv' /\ CopyInv' /\ FreshInv'
  BY DEF IInv, TypeOK, LockInv, SourceInv, CopyInv, FreshInv
<1>2. UnusedInv' /\ SavedInv' /\ TakenIsKept' /\ ListedIsBacked'
  BY DEF IInv, UnusedInv, SavedInv, TakenIsKept, ListedIsBacked, Backed
<1>. QED
  BY <1>1, <1>2 DEF IInv

(* Every step of the store, of the other programs, of the clock and a      *)
(* crash keeps the inductive invariant: one lemma for each action.         *)
THEOREM NextInv == IInv /\ [Next]_vars => IInv'
<1>. SUFFICES ASSUME IInv, [Next]_vars PROVE IInv'
  OBVIOUS
<1>1. ASSUME NEW w \in Workers, Ask(w) PROVE IInv'
  BY <1>1, AskKeeps
<1>2. ASSUME NEW w \in Workers, Enter(w) PROVE IInv'
  BY <1>2, AddRecentKeeps, AddEnterKeeps, PurgeEnterKeeps,
     DeleteUnknownKeeps, DeleteEnterKeeps, RestoreRefusedKeeps,
     RestoreAlreadyKeeps, RestoreEnterKeeps
     DEF Enter
<1>3. CASE Step
  BY <1>3, AddMissingKeeps, AddOpenKeeps, AddAbortKeeps, AddCaptureKeeps,
     AddRetryKeeps, AddVerifiedKeeps, AddRemoveKeeps, AddRecordKeeps,
     EnforceLimitsKeeps, SaveLimitsKeeps, DeleteBlobKeeps, ForgetKeeps,
     RestoreCreateKeeps, RestoreCopyKeeps, RestoreDamagedKeeps
     DEF Step
<1>4. CASE Environment
  BY <1>4, AppWriteKeeps, AppRemoveKeeps, TickKeeps, CrashRestartKeeps
     DEF Environment
<1>5. CASE UNCHANGED vars
  BY <1>5, StutterKeeps
<1>. QED
  BY <1>1, <1>2, <1>3, <1>4, <1>5 DEF Next

(* The inductive invariant holds in every state of every behaviour.        *)
THEOREM Invariance == Spec => []IInv
<1>. QED
  BY InitInv, NextInv, PTL DEF Spec

(* Every value a variable of the store takes is one the code can hold. *)
THEOREM TypeCorrect == Spec => []TypeOK
<1>1. IInv => TypeOK
  BY DEF IInv
<1>. QED
  BY Invariance, <1>1, PTL

(* Nothing the store has removed is lost: see TakenIsKept. *)
THEOREM TakenFilesAreKept == Spec => []TakenIsKept
<1>1. IInv => TakenIsKept
  BY DEF IInv
<1>. QED
  BY Invariance, <1>1, PTL

(* Every entry, in memory and in index.json, has the copy it claims: see   *)
(* ListedIsBacked.                                                         *)
THEOREM EntriesAreBacked == Spec => []ListedIsBacked
<1>1. IInv => ListedIsBacked
  BY DEF IInv
<1>. QED
  BY Invariance, <1>1, PTL

(* A restart between two calls changes nothing: see DiskFollowsMemory. *)
THEOREM RestartForgetsNothing == Spec => []DiskFollowsMemory
<1>1. IInv => DiskFollowsMemory
  BY DEF IInv, LockInv, SavedInv, DiskFollowsMemory
<1>. QED
  BY Invariance, <1>1, PTL

-----------------------------------------------------------------------------
(* The limits. *)

(* Induction over the entries: a set with 0 and the successor of each of   *)
(* its numbers has them all; else the least one missing would not be.      *)
LEMMA UpToMaxEntries ==
    ASSUME NEW S, 0 \in S, \A n \in 1..MaxEntries : n - 1 \in S => n \in S
    PROVE  0..MaxEntries \subseteq S
<1>. DEFINE missing == (0..MaxEntries) \ S
            less    == {p \in Nat \X Nat : p[1] < p[2]}
<1>. SUFFICES ASSUME missing # {} PROVE FALSE
  OBVIOUS
<1>1. PICK m \in missing : \A n \in missing : <<n, m>> \notin less
  <2>1. IsWellFoundedOn(less, Nat)
    BY NatLessThanWellFounded DEF OpToRel
  <2>2. missing \subseteq Nat
    OBVIOUS
  <2>. HIDE DEF less, missing
  <2>. QED
    BY WFMin, <2>1, <2>2
<1>2. m \in 1..MaxEntries
  OBVIOUS
<1>3. m - 1 \in missing /\ <<m - 1, m>> \in less
  BY <1>2
<1>. QED
  BY <1>1, <1>3

(* The running total is what its definition says. *)
LEMMA RunningTotalDef ==
    ASSUME NEW sizes \in [Ids -> Nat]
    PROVE  /\ RunningTotal(sizes) \in [0..MaxEntries -> Nat]
           /\ RunningTotal(sizes)[0] = 0
           /\ \A n \in Ids :
                 RunningTotal(sizes)[n] = RunningTotal(sizes)[n - 1] + sizes[n]
<1>. DEFINE total == RunningTotal(sizes)
            Sums(f, k) == f[0] = 0 /\ \A n \in 1..k : f[n] = f[n - 1] + sizes[n]
            S == {k \in 0..MaxEntries : \E f \in [0..MaxEntries -> Nat] : Sums(f, k)}
<1>1. 0 \in S
  <2>1. [n \in 0..MaxEntries |-> 0] \in [0..MaxEntries -> Nat]
    OBVIOUS
  <2>2. Sums([n \in 0..MaxEntries |-> 0], 0) /\ 0 \in 0..MaxEntries
    OBVIOUS
  <2>. HIDE DEF Sums
  <2>. QED
    BY <2>1, <2>2
<1>2. ASSUME NEW k \in Ids, k - 1 \in S PROVE k \in S
  <2>1. PICK f \in [0..MaxEntries -> Nat] : Sums(f, k - 1)
    BY <1>2
  <2>. DEFINE g == [f EXCEPT ![k] = f[k - 1] + sizes[k]]
  <2>2. g \in [0..MaxEntries -> Nat] /\ g[0] = 0
    <3>1. f[k - 1] + sizes[k] \in Nat /\ k # 0 /\ 0 \in 0..MaxEntries
      OBVIOUS
    <3>2. f[0] = 0
      BY <2>1
    <3>. QED
      BY <3>1, <3>2
  <2>3. ASSUME NEW n \in 1..k PROVE g[n] = g[n - 1] + sizes[n]
    <3>1. n - 1 # k /\ n - 1 \in 0..MaxEntries /\ n \in 0..MaxEntries
      OBVIOUS
    <3>2. g[n - 1] = f[n - 1]
      BY <3>1
    <3>3. CASE n = k
      BY <3>1, <3>2, <3>3
    <3>4. CASE n # k
      <4>1. n \in 1..(k - 1)
        BY <3>4
      <4>. QED
        BY <2>1, <3>1, <3>2, <3>4, <4>1
    <3>. QED
      BY <3>3, <3>4
  <2>4. Sums(g, k)
    BY <2>2, <2>3
  <2>. HIDE DEF g, Sums
  <2>. QED
    BY <2>2, <2>4
<1>3. PICK f \in [0..MaxEntries -> Nat] : Sums(f, MaxEntries)
  <2>1. 0..MaxEntries \subseteq S
    <3>. HIDE DEF S
    <3>. QED
      BY <1>1, <1>2, UpToMaxEntries
  <2>. HIDE DEF Sums
  <2>2. MaxEntries \in 0..MaxEntries
    OBVIOUS
  <2>. QED
    BY <2>1, <2>2
<1>4. total = [n \in 0..MaxEntries |-> IF n = 0 THEN 0 ELSE total[n - 1] + sizes[n]]
  <2>. DEFINE T == CHOOSE t : t = [n \in 0..MaxEntries |->
                                      IF n = 0 THEN 0 ELSE t[n - 1] + sizes[n]]
  <2>1. f = [n \in 0..MaxEntries |-> IF n = 0 THEN 0 ELSE f[n - 1] + sizes[n]]
    BY <1>3
  <2>2. T = [n \in 0..MaxEntries |-> IF n = 0 THEN 0 ELSE T[n - 1] + sizes[n]]
    BY <2>1
  <2>. QED
    BY <2>2 DEF RunningTotal
<1>5. total[0] = 0 /\ \A n \in Ids : total[n] = total[n - 1] + sizes[n]
  <2>. HIDE DEF total
  <2>. QED
    BY <1>4
<1>6. \A n \in 0..MaxEntries : total[n] \in Nat
  <2>. DEFINE N == {n \in 0..MaxEntries : total[n] \in Nat}
  <2>. HIDE DEF total
  <2>1. 0 \in N /\ \A n \in Ids : n - 1 \in N => n \in N
    BY <1>5
  <2>2. 0..MaxEntries \subseteq N
    <3>. HIDE DEF N
    <3>. QED
      BY <2>1, UpToMaxEntries
  <2>. QED
    BY <2>2
<1>. HIDE DEF total
<1>. QED
  BY <1>4, <1>5, <1>6 DEF total

(* When every size that takes the running total past a bound is struck     *)
(* out, what is left stays within the bound, and below the total so far.   *)
LEMMA WhatIsLeftFits ==
    ASSUME NEW bound \in Nat, NEW before \in [Ids -> Nat], NEW after \in [Ids -> Nat],
           \A n \in Ids : after[n] = IF RunningTotal(before)[n] > bound THEN 0
                                                                        ELSE before[n]
    PROVE  RunningTotal(after)[MaxEntries] <= bound
<1>. DEFINE b == RunningTotal(before)
            a == RunningTotal(after)
            Fits == {n \in 0..MaxEntries : a[n] <= bound /\ a[n] <= b[n]}
<1>1. /\ b \in [0..MaxEntries -> Nat] /\ b[0] = 0
      /\ \A n \in Ids : b[n] = b[n - 1] + before[n]
      /\ a \in [0..MaxEntries -> Nat] /\ a[0] = 0
      /\ \A n \in Ids : a[n] = a[n - 1] + after[n]
  BY RunningTotalDef
<1>2. \A n \in Ids : after[n] = IF b[n] > bound THEN 0 ELSE before[n]
  OBVIOUS
<1>. HIDE DEF a, b
<1>3. 0 \in Fits
  BY <1>1
<1>4. ASSUME NEW n \in Ids, n - 1 \in Fits PROVE n \in Fits
  <2>1. a[n - 1] \in Nat /\ b[n - 1] \in Nat /\ before[n] \in Nat
    BY <1>1
  <2>2. a[n - 1] <= bound /\ a[n - 1] <= b[n - 1]
    BY <1>4
  <2>3. /\ a[n] = a[n - 1] + after[n] /\ b[n] = b[n - 1] + before[n]
        /\ after[n] = IF b[n] > bound THEN 0 ELSE before[n]
    BY <1>1, <1>2
  <2>4. a[n] <= bound /\ a[n] <= b[n]
    BY <2>1, <2>2, <2>3
  <2>. QED
    BY <2>4
<1>5. 0..MaxEntries \subseteq Fits
  <2>. HIDE DEF Fits
  <2>. QED
    BY <1>3, <1>4, UpToMaxEntries
<1>. QED
  BY <1>5 DEF a

(* After the limits the entries fit, and none of them is past its age: see *)
(* LimitsHold.                                                             *)
THEOREM LimitsAreKept == Spec => LimitsHold
<1>1. IInv /\ [Next]_vars =>
        [pc = "limits" /\ pc' = "saveLimits" =>
           /\ MaxBytes # 0 => TotalSize(Listed(index))' <= MaxBytes
           /\ \A id \in Listed(index)' : now <= index'[id].at + MaxAge]_vars
  <2>. SUFFICES ASSUME IInv, [Next]_vars, pc = "limits", pc' = "saveLimits"
                PROVE  /\ MaxBytes # 0 => TotalSize(Listed(index))' <= MaxBytes
                       /\ \A id \in Listed(index)' : now <= index'[id].at + MaxAge
    OBVIOUS
  <2>1. EnforceLimits
    BY DEF Next, Ask, Enter, AddRecent, AddEnter, PurgeEnter, DeleteUnknown,
           DeleteEnter, RestoreRefused, RestoreAlready, RestoreEnter, Step,
           AddMissing, AddOpen, AddAbort, AddCapture, AddRetry, AddVerified,
           AddRemove, AddRecord, SaveLimits, DeleteBlob, Forget,
           RestoreCreate, RestoreCopy, RestoreDamaged, Environment, AppWrite,
           AppRemove, Tick, CrashRestart, Asks, Answer, Lock, Goto, Return
  <2>. DEFINE live  == Listed(index) \ Expired
              sizes == SizesOf(live)
  <2>2. index \in [Ids -> Entry \cup {NoEntry}] /\ now \in Nat
    BY DEF IInv, TypeOK
  <2>3. index' = [id \in Ids |-> IF id \in Expired \cup OverLimit THEN NoEntry
                                                                 ELSE index[id]]
    BY <2>1 DEF EnforceLimits
  <2>4. \A id \in Listed(index) : index[id].size \in Nat /\ index[id].at \in Nat
    BY <2>2 DEF Listed, Entry
  <2>5. Listed(index)' = live \ OverLimit
    BY <2>3 DEF Listed
  <2>6. \A id \in Listed(index)' : now <= index'[id].at + MaxAge
    BY <2>2, <2>3, <2>4, <2>5 DEF Expired, Listed
  <2>7. ASSUME MaxBytes # 0 PROVE TotalSize(Listed(index))' <= MaxBytes
    <3>. DEFINE left == SizesOf(Listed(index))'
    <3>1. sizes \in [Ids -> Nat]
      BY <2>4 DEF SizesOf, Listed
    <3>2. OverLimit = {id \in live : RunningTotal(sizes)[id] > MaxBytes}
      BY <2>7 DEF OverLimit
    <3>3. left = [id \in Ids |-> IF id \in live \ OverLimit THEN index[id].size ELSE 0]
      BY <2>3, <2>5 DEF SizesOf, Listed
    <3>4. left \in [Ids -> Nat]
      <4>1. \A id \in live : index[id].size \in Nat
        BY <2>4
      <4>. HIDE DEF left, live, sizes
      <4>. QED
        BY <3>3, <4>1
    <3>5. \A n \in Ids : left[n] = IF RunningTotal(sizes)[n] > MaxBytes THEN 0
                                                                        ELSE sizes[n]
      BY <3>2, <3>3 DEF SizesOf
    <3>6. TotalSize(Listed(index))' = RunningTotal(left)[MaxEntries]
      BY DEF TotalSize, RunningTotal
    <3>. HIDE DEF left, sizes
    <3>. QED
      BY <3>1, <3>4, <3>5, <3>6, WhatIsLeftFits
  <2>. QED
    BY <2>6, <2>7
<1>. QED
  BY Invariance, <1>1, PTL DEF Spec, LimitsHold
=============================================================================

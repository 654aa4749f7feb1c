------------------------ MODULE QuarantineRefinement ------------------------
(* The quarantine store implements the vault: every behaviour of the       *)
(* detailed specification, with its lock, its steps, its failed writes and *)
(* its crashes, is a behaviour of the abstract one.                        *)
EXTENDS QuarantineProofs

USE QuarantineAssumption, NoneAssumption
    DEF vars, storeVars, callVars, history, bounds, V!vars

(* A step that leaves the copies, index.json and the history alone is a    *)
(* stutter of the vault.                                                   *)
LEMMA QuietIsStutter ==
    ASSUME UNCHANGED <<blobs, disk, history>> PROVE UNCHANGED V!vars
<1>. QED
  BY DEF Copies, Catalogue

(* What backs index.json backs the catalogue.                              *)
LEMMA BackedIsSound == TypeOK /\ Backed(disk) => V!Sound(Catalogue)
<1>. SUFFICES ASSUME TypeOK, Backed(disk), NEW id \in Ids \ condemned
              PROVE  Catalogue[id] \in {NoEntry, NoFile, Copies[id]}
  BY DEF V!Sound
<1>. QED
  BY DEF TypeOK, Backed, Catalogue, Copies

(* A step that changes index.json alone publishes an index that is backed. *)
LEMMA SaveIsPublish ==
    ASSUME IInv', UNCHANGED <<blobs, history>>
    PROVE  V!Publish
<1>1. TypeOK' /\ Backed(disk)'
  BY DEF IInv, ListedIsBacked
<1>2. V!Sound(Catalogue)'
  BY <1>1, BackedIsSound, PTL
<1>. QED
  BY <1>2 DEF V!Publish, V!Sound, Copies

(* The capture writes the copy of an id nothing relies on. *)
LEMMA AddCaptureImplements ==
    ASSUME IInv, AddCapture PROVE V!Next
<1>1. job.id \in Ids /\ files[job.path] \in Data
  BY DEF IInv, TypeOK, LockInv, SourceInv, AddCapture, Job
<1>2. V!Loose(job.id)
  BY <1>1 DEF IInv, FreshInv, V!Loose, Catalogue, AddCapture, AddSteps
<1>3. Copies' = [Copies EXCEPT ![job.id] = files[job.path]]
  <2>1. [data |-> files[job.path], key |-> key] # NoBlob
    BY <1>1 DEF IInv, TypeOK, Blob
  <2>. QED
    BY <1>1, <2>1 DEF IInv, TypeOK, AddCapture, Copies
<1>4. V!Capture(job.id, files[job.path])
  BY <1>2, <1>3 DEF V!Capture, AddCapture, Catalogue
<1>. QED
  BY <1>1, <1>4 DEF V!Next

(* A copy that is dropped before the original was taken: Add fails, or     *)
(* starts over.                                                            *)
LEMMA DropCaptureImplements ==
    ASSUME IInv, AddAbort \/ AddRetry PROVE V!Next
<1>1. job.id \in Ids
  BY DEF IInv, TypeOK, LockInv, AddAbort, AddRetry, Job
<1>2. V!Loose(job.id)
  BY <1>1 DEF IInv, FreshInv, V!Loose, Catalogue, AddAbort, AddRetry,
     AddSteps
<1>3. Copies' = [Copies EXCEPT ![job.id] = NoFile]
  BY <1>1 DEF IInv, TypeOK, AddAbort, AddRetry, Copies
<1>4. V!Abandon(job.id)
  BY <1>2, <1>3 DEF V!Abandon, AddAbort, AddRetry, Catalogue
<1>. QED
  BY <1>1, <1>4 DEF V!Next

(* The original goes when its copy is in the vault. *)
LEMMA AddRemoveImplements ==
    ASSUME IInv, AddRemove PROVE [V!Next]_V!vars
<1>1. job.id \in Ids
  BY DEF IInv, TypeOK, LockInv, AddRemove, Job
<1>2. Copies[job.id] # NoFile
  BY <1>1 DEF IInv, TypeOK, CopyInv, AddRemove, Copies, Blob
<1>3. CASE taken' = taken \cup {job.id}
  <2>1. V!Take(job.id)
    BY <1>2, <1>3 DEF V!Take, AddRemove, Copies, Catalogue
  <2>. QED
    BY <1>1, <2>1 DEF V!Next
<1>4. CASE UNCHANGED taken
  BY <1>4, QuietIsStutter DEF AddRemove
<1>. QED
  BY <1>3, <1>4 DEF AddRemove

(* The limits condemn the entries they drop; a copy that could not be      *)
(* removed stays.                                                          *)
LEMMA EnforceLimitsImplements ==
    ASSUME IInv, EnforceLimits PROVE V!Next
<1>1. PICK dropped \in SUBSET Ids : \E stuck \in SUBSET dropped :
        /\ blobs' = [id \in Ids |-> IF id \in dropped \ stuck THEN NoBlob ELSE blobs[id]]
        /\ condemned' = condemned \cup dropped
  <2>1. Expired \cup OverLimit \in SUBSET Ids
    BY DEF Expired, OverLimit, Listed
  <2>. QED
    BY <2>1 DEF EnforceLimits
<1>2. PICK stuck \in SUBSET dropped :
        /\ blobs' = [id \in Ids |-> IF id \in dropped \ stuck THEN NoBlob ELSE blobs[id]]
        /\ condemned' = condemned \cup dropped
  BY <1>1
<1>3. Copies' = [id \in Ids |-> IF id \in dropped \ stuck THEN NoFile ELSE Copies[id]]
  BY <1>2 DEF Copies
<1>4. V!Drop(dropped, dropped \ stuck)
  BY <1>2, <1>3 DEF V!Drop, EnforceLimits, Catalogue
<1>. QED
  BY <1>4 DEF V!Next

(* Delete condemns the id and drops its copy, or fails and changes nothing. *)
LEMMA DeleteBlobImplements ==
    ASSUME IInv, DeleteBlob PROVE [V!Next]_V!vars
<1>1. job.id \in Ids
  BY DEF IInv, TypeOK, LockInv, DeleteBlob, Job
<1>2. CASE /\ blobs' = [blobs EXCEPT ![job.id] = NoBlob]
           /\ condemned' = condemned \cup {job.id}
  <2>1. Copies' = [id \in Ids |-> IF id \in {job.id} THEN NoFile ELSE Copies[id]]
    BY <1>1, <1>2 DEF IInv, TypeOK, Copies
  <2>2. V!Drop({job.id}, {job.id})
    BY <1>2, <2>1 DEF V!Drop, DeleteBlob, Catalogue
  <2>. QED
    BY <1>1, <2>2 DEF V!Next
<1>3. CASE UNCHANGED <<blobs, condemned>>
  BY <1>3, QuietIsStutter DEF DeleteBlob
<1>. QED
  BY <1>2, <1>3 DEF DeleteBlob

(* The store opens on a directory that is a vault. *)
THEOREM InitImplements == Init => V!Init
<1>. SUFFICES ASSUME Init PROVE V!Init
  OBVIOUS
<1>1. TypeOK /\ TakenIsKept /\ Backed(disk)
  BY InitInv DEF IInv, ListedIsBacked
<1>2. Copies \in [Ids -> Data \cup {NoFile}]
  BY <1>1 DEF TypeOK, Copies, Blob
<1>3. Catalogue \in [Ids -> Data \cup {NoFile, NoEntry}]
  BY <1>1 DEF TypeOK, Catalogue, Entry
<1>4. \A id \in taken : id \in Ids /\ Copies[id] # NoFile
  BY <1>1 DEF Init, TypeOK, TakenIsKept, Copies, Blob
<1>5. V!Sound(Catalogue)
  BY <1>1, BackedIsSound
<1>. QED
  BY <1>2, <1>3, <1>4, <1>5 DEF Init, V!Init

(* Every step of the store is one step of the vault or none. *)
THEOREM StepImplements == IInv /\ IInv' /\ [Next]_vars => [V!Next]_V!vars
<1>. SUFFICES ASSUME IInv, IInv', [Next]_vars PROVE [V!Next]_V!vars
  OBVIOUS
<1>1. CASE UNCHANGED <<blobs, disk, history>>
  BY <1>1, QuietIsStutter
<1>2. CASE UNCHANGED <<blobs, history>>
  BY <1>2, SaveIsPublish DEF V!Next
<1>3. CASE AddCapture \/ AddAbort \/ AddRetry \/ AddRemove \/ EnforceLimits \/ DeleteBlob
  BY <1>3, AddCaptureImplements, DropCaptureImplements, AddRemoveImplements,
     EnforceLimitsImplements, DeleteBlobImplements
<1>4. ASSUME NEW w \in Workers, Ask(w) \/ Enter(w) PROVE UNCHANGED <<blobs, history>>
  BY <1>4 DEF Ask, Enter, AddRecent, AddEnter, PurgeEnter, DeleteUnknown,
     DeleteEnter, RestoreRefused, RestoreAlready, RestoreEnter
<1>5. ASSUME Step, ~(AddCapture \/ AddAbort \/ AddRetry \/ AddRemove \/ EnforceLimits \/ DeleteBlob)
      PROVE  UNCHANGED <<blobs, history>>
  BY <1>5 DEF Step, AddMissing, AddOpen, AddVerified, AddRecord, SaveLimits,
     Forget, RestoreCreate, RestoreCopy, RestoreDamaged
<1>6. ASSUME Environment \/ UNCHANGED vars PROVE UNCHANGED <<blobs, history>>
  BY <1>6 DEF Environment, AppWrite, AppRemove, Tick, CrashRestart
<1>. QED
  BY <1>2, <1>3, <1>4, <1>5, <1>6 DEF Next

(* The store implements the vault: see ImplementsVault.                    *)
THEOREM StoreImplementsVault == Spec => ImplementsVault
<1>. QED
  BY InitImplements, StepImplements, Invariance, PTL
     DEF Spec, ImplementsVault, V!Spec
=============================================================================

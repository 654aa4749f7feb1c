-------------------------- MODULE SignaturesProofs --------------------------
(* Theorems about the signature database, for any number of connections,   *)
(* scans, signatures, failed writes and restarts.                          *)
EXTENDS Signatures, TLAPS

(* Handlers run while the service is up; a batch shrinks from what the     *)
(* update held to nothing, and what has left it is on file or lost; what a *)
(* reload has read is still there when it is installed.                    *)
HandlerInv ==
    \A c \in Clients :
        /\ pc[c] # "idle" => svc = "up"
        /\ pc[c] = "import" => asked[c] = batch[c]
        /\ pc[c] = "append" => asked[c] \subseteq file \cup lost \cup batch[c]
        /\ pc[c] = "install" => read[c] \subseteq file

(* A database that is missing or being seeded is empty; only a pack is      *)
(* copied, and there is a database from then on.                           *)
SeedInv ==
    /\ ~exists \/ svc = "seed" => file = {}
    /\ svc \in {"copy", "seed", "load", "up"} => exists
    /\ svc = "copy" => bundle # NoPack

(* While handlers have not overlapped one at most is at work, an import    *)
(* has put its batch into the list, and a reload has read all there is.    *)
AloneInv ==
    bundle = NoPack /\ ~overlapped =>
        \A c \in Clients :
            /\ \A d \in Clients : pc[c] # "idle" /\ pc[d] # "idle" => c = d
            /\ pc[c] = "append" => asked[c] \subseteq memory
            /\ pc[c] = "install" => acked \ lost \subseteq read[c]

(* A scan has taken its copy while the service was up, with all that had   *)
(* been acknowledged.                                                      *)
ScanInv ==
    \A w \in Scanners : scan[w] # NoScan =>
        /\ svc = "up"
        /\ bundle = NoPack /\ ~overlapped => scan[w].sure \ lost \subseteq scan[w].list

(* As long as no write has failed a pack is on file once it has been       *)
(* compared or copied, in what a reload has read, and in the list.         *)
PackInv ==
    bundle # NoPack /\ faults = 0 =>
        /\ svc # "seed"
        /\ svc \in {"open", "load", "up"} => exists /\ Parse(bundle) \subseteq file
        /\ \A c \in Clients : pc[c] = "install" => Parse(bundle) \subseteq read[c]
        /\ svc = "up" => Parse(bundle) \subseteq memory

IInv ==
    /\ TypeOK /\ HandlerInv /\ SeedInv /\ AloneInv /\ ScanInv
    /\ AckedIsOnFile /\ ListIsExplained /\ AckedIsKnown

USE SignaturesAssumption
    DEF vars, handlers, bounds, history, Fault

(* Every line that is taken for a signature is one. *)
LEMMA ParsedAreSigs == ASSUME NEW u \in SUBSET Line PROVE Parse(u) \subseteq Sig
<1>. SUFFICES ASSUME NEW l \in u PROVE ParseLine(l) \subseteq Sig
  BY DEF Parse
<1>1. l.kind \in Kinds \cup {"unknown"} /\ l.fields \in Seq(Words)
  BY DEF Line
<1>2. Len(l.fields) >= 4 => l.fields[1] \in Words
  BY <1>1
<1>. QED
  BY <1>1, <1>2 DEF ParseLine, Sig

(* The start goes on with the database there is. *)
LEMMA SyncEqualKeeps ==
    ASSUME IInv, SyncEqual PROVE IInv'
<1>1. TypeOK' /\ HandlerInv' /\ SeedInv' /\ AloneInv' /\ ScanInv' /\
      AckedIsOnFile' /\ ListIsExplained' /\ AckedIsKnown'
  BY DEF IInv, TypeOK, SyncEqual, HandlerInv, SeedInv, AloneInv, ScanInv,
     AckedIsOnFile, ListIsExplained, AckedIsKnown
<1>. QED
  BY <1>1 DEF IInv

(* A pack is copied over the database: nothing acknowledged is promised    *)
(* then.                                                                   *)
LEMMA SyncTruncateKeeps ==
    ASSUME IInv, SyncTruncate PROVE IInv'
<1>1. TypeOK' /\ HandlerInv' /\ SeedInv' /\ AloneInv' /\ ScanInv' /\
      AckedIsOnFile' /\ ListIsExplained' /\ AckedIsKnown'
  BY DEF IInv, TypeOK, SyncTruncate, HandlerInv, SeedInv, AloneInv, ScanInv,
     AckedIsOnFile, ListIsExplained, AckedIsKnown
<1>. QED
  BY <1>1 DEF IInv

(* The copy of the pack is written, or the database stays empty. *)
LEMMA SyncWriteKeeps ==
    ASSUME IInv, SyncWrite PROVE IInv'
<1>1. TypeOK'
  BY ParsedAreSigs
     DEF IInv, TypeOK, SeedInv, SyncWrite
<1>2. HandlerInv' /\ SeedInv' /\ AloneInv' /\ ScanInv' /\ ListIsExplained'
      /\ AckedIsKnown'
  BY DEF IInv, HandlerInv, SyncWrite, SeedInv, AloneInv, ScanInv,
     ListIsExplained, AckedIsKnown
<1>3. AckedIsOnFile'
  BY DEF IInv, AckedIsOnFile, SeedInv, SyncWrite
<1>. QED
  BY <1>1, <1>2, <1>3 DEF IInv

(* A missing database is created, empty. *)
LEMMA OpenMissingKeeps ==
    ASSUME IInv, OpenMissing PROVE IInv'
<1>1. TypeOK' /\ HandlerInv' /\ SeedInv' /\ AloneInv' /\ ScanInv' /\
      AckedIsOnFile' /\ ListIsExplained' /\ AckedIsKnown'
  BY DEF IInv, TypeOK, OpenMissing, HandlerInv, SeedInv, AloneInv, ScanInv,
     AckedIsOnFile, ListIsExplained, AckedIsKnown
<1>. QED
  BY <1>1 DEF IInv

(* A database that exists is not touched. *)
LEMMA OpenExistingKeeps ==
    ASSUME IInv, OpenExisting PROVE IInv'
<1>1. TypeOK' /\ HandlerInv' /\ SeedInv' /\ AloneInv' /\ ScanInv' /\
      AckedIsOnFile' /\ ListIsExplained' /\ AckedIsKnown'
  BY DEF IInv, TypeOK, OpenExisting, HandlerInv, SeedInv, AloneInv, ScanInv,
     AckedIsOnFile, ListIsExplained, AckedIsKnown
<1>. QED
  BY <1>1 DEF IInv

(* The seed is written to a database that was empty, and in which nothing  *)
(* was acknowledged.                                                       *)
LEMMA WriteSeedKeeps ==
    ASSUME IInv, WriteSeed PROVE IInv'
<1>1. TypeOK'
  BY ParsedAreSigs
     DEF IInv, TypeOK, WriteSeed
<1>2. HandlerInv' /\ SeedInv' /\ AloneInv' /\ ScanInv' /\ ListIsExplained'
      /\ AckedIsKnown'
  BY DEF IInv, HandlerInv, WriteSeed, SeedInv, AloneInv, ScanInv,
     ListIsExplained, AckedIsKnown
<1>3. AckedIsOnFile'
  BY DEF IInv, AckedIsOnFile, SeedInv, WriteSeed
<1>. QED
  BY <1>1, <1>2, <1>3 DEF IInv

(* The list is read from the file before any handler runs. *)
LEMMA LoadKeeps ==
    ASSUME IInv, Load PROVE IInv'
<1>1. TypeOK' /\ HandlerInv' /\ SeedInv' /\ ScanInv' /\ AckedIsOnFile' /\
      ListIsExplained'
  BY DEF IInv, TypeOK, Load, HandlerInv, SeedInv, ScanInv, AckedIsOnFile,
     ListIsExplained
<1>2. AloneInv'
  BY DEF IInv, AloneInv, HandlerInv, Load
<1>3. AckedIsKnown'
  BY DEF IInv, AckedIsKnown, AckedIsOnFile, Load
<1>. QED
  BY <1>1, <1>2, <1>3 DEF IInv

(* A stop empties the memory and leaves the file. *)
LEMMA StopKeeps ==
    ASSUME IInv, Stop PROVE IInv'
<1>1. HandlerInv' /\ SeedInv' /\ AloneInv' /\ ScanInv' /\ AckedIsOnFile' /\
      ListIsExplained' /\ AckedIsKnown'
  BY DEF IInv, HandlerInv, Stop, SeedInv, AloneInv, ScanInv, AckedIsOnFile,
     ListIsExplained, AckedIsKnown
<1>2. TypeOK'
  <2>1. /\ pc' \in [Clients -> {"idle", "import", "append", "reload", "install"}]
        /\ batch' \in [Clients -> SUBSET Sig]
        /\ asked' \in [Clients -> SUBSET Sig]
        /\ read' \in [Clients -> SUBSET Sig]
    BY DEF Stop
  <2>2. scan' \in [Scanners -> Scan \cup {NoScan}]
    BY DEF Stop
  <2>3. restarts' \in Nat
    BY DEF IInv, TypeOK, Stop
  <2>. QED
    BY <2>1, <2>2, <2>3 DEF IInv, TypeOK, Stop
<1>. QED
  BY <1>1, <1>2 DEF IInv

(* A handler begins an import; another may be at work. *)
LEMMA ImportBeginKeeps ==
    ASSUME IInv, NEW c \in Clients, ImportBegin(c) PROVE IInv'
<1>1. TypeOK'
  BY ParsedAreSigs
     DEF IInv, TypeOK, ImportBegin, Begin
<1>2. HandlerInv'
  BY DEF IInv, HandlerInv, TypeOK, ImportBegin, Begin
<1>3. SeedInv'
  BY DEF IInv, SeedInv, ImportBegin, Begin
<1>4. AloneInv'
  <2>1. ~overlapped' => ~overlapped /\ \A d \in Clients : pc[d] = "idle"
    <3>1. Begin(c, "import") /\ overlapped \in BOOLEAN
      BY DEF IInv, TypeOK, ImportBegin
    <3>. QED
      BY <3>1 DEF Begin
  <2>2. pc'[c] = "import" /\ \A d \in Clients \ {c} : pc'[d] = pc[d]
    BY DEF IInv, TypeOK, ImportBegin, Begin
  <2>. QED
    BY <2>1, <2>2 DEF AloneInv
<1>5. ScanInv'
  BY DEF IInv, ScanInv, ImportBegin, Begin
<1>6. AckedIsOnFile'
  BY DEF IInv, AckedIsOnFile, ImportBegin, Begin
<1>7. ListIsExplained'
  BY DEF IInv, ListIsExplained, ImportBegin, Begin
<1>8. AckedIsKnown'
  BY DEF IInv, AckedIsKnown, ImportBegin, Begin
<1>. QED
  BY <1>1, <1>2, <1>3, <1>4, <1>5, <1>6, <1>7, <1>8 DEF IInv

(* A handler has read the file. *)
LEMMA ReloadReadKeeps ==
    ASSUME IInv, NEW c \in Clients, ReloadRead(c) PROVE IInv'
<1>1. TypeOK' /\ SeedInv' /\ ScanInv' /\ AckedIsOnFile' /\ ListIsExplained'
      /\ AckedIsKnown'
  BY DEF IInv, TypeOK, ReloadRead, Begin, SeedInv, ScanInv, AckedIsOnFile,
     ListIsExplained, AckedIsKnown
<1>2. HandlerInv'
  BY DEF IInv, HandlerInv, TypeOK, ReloadRead, Begin
<1>3. AloneInv'
  <2>1. bundle = NoPack => acked \ lost \subseteq read'[c]
    BY DEF IInv, TypeOK, AckedIsOnFile, ReloadRead, Begin
  <2>2. /\ read' = [read EXCEPT ![c] = file]
        /\ pc' = [pc EXCEPT ![c] = "install"]
        /\ UNCHANGED <<bundle, acked, lost, memory, asked>>
        /\ ~overlapped' => ~overlapped /\ \A d \in Clients : pc[d] = "idle"
    BY DEF IInv, TypeOK, ReloadRead, Begin
  <2>. QED
    BY <2>1, <2>2 DEF IInv, AloneInv, TypeOK
<1>. QED
  BY <1>1, <1>2, <1>3 DEF IInv

(* An update without a signature changes nothing. *)
LEMMA ImportEmptyKeeps ==
    ASSUME IInv, NEW c \in Clients, ImportEmpty(c) PROVE IInv'
<1>1. TypeOK' /\ SeedInv' /\ AloneInv' /\ ScanInv' /\ AckedIsOnFile' /\
      ListIsExplained' /\ AckedIsKnown'
  BY DEF IInv, TypeOK, ImportEmpty, Finish, SeedInv, AloneInv, ScanInv,
     AckedIsOnFile, ListIsExplained, AckedIsKnown
<1>2. HandlerInv'
  BY DEF IInv, HandlerInv, TypeOK, ImportEmpty, Finish
<1>. QED
  BY <1>1, <1>2 DEF IInv

(* The batch enters the list. *)
LEMMA ImportMemoryKeeps ==
    ASSUME IInv, NEW c \in Clients, ImportMemory(c) PROVE IInv'
<1>1. TypeOK' /\ HandlerInv' /\ SeedInv' /\ ScanInv' /\ AckedIsOnFile' /\
      AckedIsKnown'
  BY DEF IInv, TypeOK, ImportMemory, HandlerInv, SeedInv, ScanInv,
     AckedIsOnFile, AckedIsKnown
<1>2. AloneInv'
  BY DEF IInv, AloneInv, HandlerInv, ImportMemory
<1>3. ListIsExplained'
  BY DEF IInv, ListIsExplained, TypeOK, ImportMemory
<1>. QED
  BY <1>1, <1>2, <1>3 DEF IInv

(* One line leaves the batch, for the file or lost. *)
LEMMA ImportAppendKeeps ==
    ASSUME IInv, NEW c \in Clients, ImportAppend(c) PROVE IInv'
<1>1. TypeOK' /\ HandlerInv' /\ AloneInv' /\ ScanInv' /\ AckedIsOnFile' /\
      ListIsExplained' /\ AckedIsKnown'
  BY DEF IInv, TypeOK, ImportAppend, HandlerInv, AloneInv, ScanInv,
     AckedIsOnFile, ListIsExplained, AckedIsKnown
<1>2. SeedInv'
  BY DEF IInv, SeedInv, HandlerInv, ImportAppend
<1>. QED
  BY <1>1, <1>2 DEF IInv

(* The file could not be opened: the batch is lost. *)
LEMMA ImportRefusedKeeps ==
    ASSUME IInv, NEW c \in Clients, ImportRefused(c) PROVE IInv'
<1>1. TypeOK' /\ HandlerInv' /\ SeedInv' /\ AloneInv' /\ ScanInv' /\
      AckedIsOnFile' /\ ListIsExplained' /\ AckedIsKnown'
  BY DEF IInv, TypeOK, ImportRefused, Finish, HandlerInv, SeedInv, AloneInv,
     ScanInv, AckedIsOnFile, ListIsExplained, AckedIsKnown
<1>. QED
  BY <1>1 DEF IInv

(* The batch is empty, so all that was asked for is on file or lost. *)
LEMMA ImportAckKeeps ==
    ASSUME IInv, NEW c \in Clients, ImportAck(c) PROVE IInv'
<1>1. TypeOK' /\ HandlerInv' /\ SeedInv' /\ AloneInv' /\ ScanInv' /\
      ListIsExplained'
  BY DEF IInv, TypeOK, ImportAck, Finish, HandlerInv, SeedInv, AloneInv,
     ScanInv, ListIsExplained
<1>2. AckedIsOnFile'
  BY DEF IInv, AckedIsOnFile, HandlerInv, ImportAck
<1>3. AckedIsKnown'
  BY DEF IInv, AckedIsKnown, AloneInv, ImportAck
<1>. QED
  BY <1>1, <1>2, <1>3 DEF IInv

(* What a reload read replaces the list. *)
LEMMA ReloadInstallKeeps ==
    ASSUME IInv, NEW c \in Clients, ReloadInstall(c) PROVE IInv'
<1>1. TypeOK' /\ HandlerInv' /\ SeedInv' /\ ScanInv' /\ AckedIsOnFile'
  BY DEF IInv, TypeOK, ReloadInstall, Finish, HandlerInv, SeedInv, ScanInv,
     AckedIsOnFile
<1>2. AloneInv'
  BY DEF IInv, AloneInv, TypeOK, ReloadInstall, Finish
<1>3. ListIsExplained'
  BY DEF IInv, ListIsExplained, HandlerInv, ReloadInstall
<1>4. AckedIsKnown'
  BY DEF IInv, AckedIsKnown, AloneInv, ReloadInstall
<1>. QED
  BY <1>1, <1>2, <1>3, <1>4 DEF IInv

(* A scan copies the list. *)
LEMMA ScanBeginKeeps ==
    ASSUME IInv, NEW w \in Scanners, ScanBegin(w) PROVE IInv'
<1>1. TypeOK' /\ HandlerInv' /\ SeedInv' /\ AloneInv' /\ AckedIsOnFile' /\
      ListIsExplained' /\ AckedIsKnown'
  BY DEF IInv, TypeOK, Scan, ScanBegin, HandlerInv, SeedInv, AloneInv,
     AckedIsOnFile, ListIsExplained, AckedIsKnown
<1>2. ScanInv'
  BY DEF IInv, ScanInv, AckedIsKnown, ScanBegin
<1>. QED
  BY <1>1, <1>2 DEF IInv

(* A scan is over. *)
LEMMA ScanEndKeeps ==
    ASSUME IInv, NEW w \in Scanners, ScanEnd(w) PROVE IInv'
<1>1. TypeOK' /\ HandlerInv' /\ SeedInv' /\ AloneInv' /\ ScanInv' /\
      AckedIsOnFile' /\ ListIsExplained' /\ AckedIsKnown'
  BY DEF IInv, TypeOK, ScanEnd, HandlerInv, SeedInv, AloneInv, ScanInv,
     AckedIsOnFile, ListIsExplained, AckedIsKnown
<1>. QED
  BY <1>1 DEF IInv

(* The program has been installed and the service has never run. *)
THEOREM InitInv == Init => IInv
<1>. SUFFICES ASSUME Init PROVE IInv
  OBVIOUS
<1>1. TypeOK
  BY DEF Init, TypeOK
<1>2. HandlerInv /\ SeedInv /\ AloneInv /\ ScanInv
  BY DEF Init, HandlerInv, SeedInv, AloneInv, ScanInv
<1>3. AckedIsOnFile /\ ListIsExplained /\ AckedIsKnown
  BY DEF Init, AckedIsOnFile, ListIsExplained, AckedIsKnown
<1>. QED
  BY <1>1, <1>2, <1>3 DEF IInv

(* A step that changes nothing keeps the invariant. *)
LEMMA StutterKeeps == ASSUME IInv, UNCHANGED vars PROVE IInv'
<1>1. TypeOK' /\ HandlerInv' /\ SeedInv' /\ AloneInv' /\ ScanInv'
  BY DEF IInv, TypeOK, HandlerInv, SeedInv, AloneInv, ScanInv
<1>2. AckedIsOnFile' /\ ListIsExplained' /\ AckedIsKnown'
  BY DEF IInv, AckedIsOnFile, ListIsExplained, AckedIsKnown
<1>. QED
  BY <1>1, <1>2 DEF IInv

(* Every step of the start, of a handler and of a scan keeps the inductive *)
(* invariant: one lemma for each action.                                   *)
THEOREM NextInv == IInv /\ [Next]_vars => IInv'
<1>. SUFFICES ASSUME IInv, [Next]_vars PROVE IInv'
  OBVIOUS
<1>1. CASE Start
  BY <1>1, SyncEqualKeeps, SyncTruncateKeeps, SyncWriteKeeps,
     OpenMissingKeeps, OpenExistingKeeps, WriteSeedKeeps, LoadKeeps
     DEF Start
<1>2. CASE Stop
  BY <1>2, StopKeeps
<1>3. ASSUME NEW c \in Clients, ImportBegin(c) \/ ReloadRead(c) \/ Handle(c)
      PROVE  IInv'
  BY <1>3, ImportBeginKeeps, ReloadReadKeeps, ImportEmptyKeeps,
     ImportMemoryKeeps, ImportAppendKeeps, ImportRefusedKeeps,
     ImportAckKeeps, ReloadInstallKeeps
     DEF Handle
<1>4. ASSUME NEW w \in Scanners, ScanBegin(w) \/ ScanEnd(w) PROVE IInv'
  BY <1>4, ScanBeginKeeps, ScanEndKeeps
<1>5. CASE UNCHANGED vars
  BY <1>5, StutterKeeps
<1>. QED
  BY <1>1, <1>2, <1>3, <1>4, <1>5 DEF Next

(* The inductive invariant holds in every state of every behaviour. *)
THEOREM Invariance == Spec => []IInv
<1>. QED
  BY InitInv, NextInv, PTL DEF Spec

(* A step of the start copies or compares the pack, or reads the file.     *)
LEMMA StartKeepsPack == ASSUME IInv, PackInv, Start PROVE PackInv'
<1>1. CASE SyncEqual
  BY <1>1 DEF IInv, HandlerInv, PackInv, SyncEqual
<1>2. CASE SyncTruncate
  BY <1>2 DEF IInv, HandlerInv, PackInv, SyncTruncate
<1>3. CASE SyncWrite
  BY <1>3 DEF IInv, TypeOK, HandlerInv, SeedInv, PackInv, SyncWrite
<1>4. CASE OpenMissing
  BY <1>4 DEF PackInv, OpenMissing
<1>5. CASE OpenExisting
  BY <1>5 DEF PackInv, OpenExisting
<1>6. CASE WriteSeed
  BY <1>6 DEF IInv, TypeOK, PackInv, WriteSeed
<1>7. CASE Load
  BY <1>7 DEF PackInv, Load
<1>. QED
  BY <1>1, <1>2, <1>3, <1>4, <1>5, <1>6, <1>7 DEF Start

(* A handler only adds to the file, and a reload reads all of it. *)
LEMMA HandlersKeepPack ==
    ASSUME IInv, PackInv, NEW c \in Clients,
           ImportBegin(c) \/ ReloadRead(c) \/ Handle(c)
    PROVE  PackInv'
<1>1. CASE ImportBegin(c)
  BY <1>1 DEF IInv, TypeOK, PackInv, ImportBegin, Begin
<1>2. CASE ReloadRead(c)
  BY <1>2 DEF IInv, TypeOK, PackInv, ReloadRead, Begin
<1>3. CASE ImportEmpty(c)
  BY <1>3 DEF IInv, TypeOK, PackInv, ImportEmpty, Finish
<1>4. CASE ImportMemory(c)
  BY <1>4 DEF IInv, TypeOK, PackInv, ImportMemory
<1>5. CASE ImportAppend(c)
  BY <1>5 DEF IInv, TypeOK, PackInv, ImportAppend
<1>6. CASE ImportRefused(c)
  BY <1>6 DEF IInv, TypeOK, PackInv, ImportRefused, Finish
<1>7. CASE ImportAck(c)
  BY <1>7 DEF IInv, TypeOK, PackInv, ImportAck, Finish
<1>8. CASE ReloadInstall(c)
  BY <1>8 DEF IInv, TypeOK, PackInv, ReloadInstall, Finish
<1>. QED
  BY <1>1, <1>2, <1>3, <1>4, <1>5, <1>6, <1>7, <1>8 DEF Handle

(* Every step keeps the pack. *)
LEMMA NextKeepsPack == IInv /\ PackInv /\ [Next]_vars => PackInv'
<1>. SUFFICES ASSUME IInv, PackInv, [Next]_vars PROVE PackInv'
  OBVIOUS
<1>1. CASE Stop
  BY <1>1 DEF PackInv, Stop
<1>2. ASSUME NEW w \in Scanners, ScanBegin(w) \/ ScanEnd(w) PROVE PackInv'
  BY <1>2 DEF PackInv, ScanBegin, ScanEnd
<1>3. CASE UNCHANGED vars
  BY <1>3 DEF PackInv
<1>. QED
  BY <1>1, <1>2, <1>3, StartKeepsPack, HandlersKeepPack DEF Next

(* Type correctness. *)
THEOREM TypeCorrect == Spec => []TypeOK
<1>1. IInv => TypeOK
  BY DEF IInv
<1>. QED
  BY Invariance, <1>1, PTL

(* Acknowledged imports stay in signatures.db: see AckedIsOnFile. *)
THEOREM ImportsStayOnFile == Spec => []AckedIsOnFile
<1>1. IInv => AckedIsOnFile
  BY DEF IInv
<1>. QED
  BY Invariance, <1>1, PTL

(* The list holds nothing that was never there: see ListIsExplained. *)
THEOREM ListComesFromFile == Spec => []ListIsExplained
<1>1. IInv => ListIsExplained
  BY DEF IInv
<1>. QED
  BY Invariance, <1>1, PTL

(* No reload forgets an import unless handlers overlap: see AckedIsKnown. *)
THEOREM ImportsStayKnown == Spec => []AckedIsKnown
<1>1. IInv => AckedIsKnown
  BY DEF IInv
<1>. QED
  BY Invariance, <1>1, PTL

(* A scan finds what the documents promise of the signatures acknowledged  *)
(* before it began, whatever file it is given: see ScanKnowsImports.       *)
THEOREM ScansKnowImports == Spec => []ScanKnowsImports
<1>1. IInv => ScanKnowsImports
  <2>. SUFFICES ASSUME IInv, bundle = NoPack, ~overlapped,
                       NEW w \in Scanners, scan[w] # NoScan,
                       NEW s \in scan[w].sure \ lost,
                       Documented(scan[w].file, s)
                PROVE  s \in Hits(scan[w].file, scan[w].list)
    BY DEF ScanKnowsImports
  <2>1. s \in scan[w].list
    BY DEF IInv, ScanInv
  <2>. QED
    BY <2>1 DEF Documented, Hits
<1>. QED
  BY Invariance, <1>1, PTL

(* The list has the pack's signatures from the first start on, through     *)
(* crashes in the copy: see PackIsLoaded.                                  *)
THEOREM PacksAreLoaded == Spec => []PackIsLoaded
<1>1. Init => PackInv
  BY DEF Init, PackInv
<1>2. PackInv => PackIsLoaded
  BY DEF PackInv, PackIsLoaded
<1>. QED
  BY <1>1, <1>2, Invariance, NextKeepsPack, PTL DEF Spec
=============================================================================

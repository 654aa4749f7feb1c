----------------------------- MODULE Signatures -----------------------------
(* The signature database (pkg/signatures): a list in memory, the file     *)
(* signatures.db, the start of the service that seeds the file and opens   *)
(* it (internal/service), the imports and reloads that clients ask for,    *)
(* and the scans that match a file against the list.                       *)
(*                                                                         *)
(* Only the list is guarded by DB.mu.  The file is read and appended to    *)
(* without it, so the handlers of two connections interleave at every      *)
(* step, and a scan works on the copy of the list it took.                 *)
EXTENDS Naturals, Sequences, FiniteSets

CONSTANTS
    Clients,      \* connections that import or reload
    Scanners,     \* goroutines in MatchFile
    Words,        \* hashes, substrings, DLL names, and the other fields
    Updates,      \* update files: sets of lines
    Bundles,      \* the packs an installer may put beside the program
    SeedLines,    \* the lines of writeSeed
    Targets,      \* files that are scanned
    NoScan,
    MaxRequests,  \* bound on imports and reloads
    MaxRestarts,  \* bound on restarts, crashes included
    MaxFaults     \* bound on failed writes

Kinds == {"HASH", "PE-STRING", "PE-IMPORT", "YARA-LITE"}
Sig   == [kind : Kinds, match : Words]
Line  == [kind : Kinds \cup {"unknown"}, fields : Seq(Words)]
File  == [hash : Words, large : BOOLEAN, textDoc : BOOLEAN,
          holds : SUBSET Words, imports : SUBSET Words]
Scan  == [file : Targets, list : SUBSET Sig, sure : SUBSET Sig]
NoPack == {}

ASSUME SignaturesAssumption ==
    /\ \A u \in Updates \cup Bundles : u \subseteq Line
    /\ SeedLines \subseteq Line
    /\ Targets \subseteq File
    /\ NoPack \notin Bundles
    /\ NoScan \notin Scan
    /\ MaxRequests \in Nat /\ MaxRestarts \in Nat /\ MaxFaults \in Nat

(* parseLine: the fields are match|name|severity|family for every kind.    *)
ParseLine(l) ==
    IF l.kind \in Kinds /\ Len(l.fields) >= 4
    THEN {[kind |-> l.kind, match |-> l.fields[1]]} ELSE {}

Parse(lines) == UNION {ParseLine(l) : l \in lines}

-----------------------------------------------------------------------------
(* Mutant of Hits: text documents are skipped for every kind. *)
HitsNoText(f, list) ==
    IF f.textDoc THEN {}
    ELSE {s \in list :
            \/ s.kind = "HASH" /\ s.match = f.hash
            \/ /\ ~f.large
               /\ \/ s.kind \in {"PE-STRING", "YARA-LITE"} /\ s.match \in f.holds
                  \/ s.kind = "PE-IMPORT" /\ s.match \in f.imports}

(* MatchFile, and matchHashesOnly for what is larger than 32 MB. *)
Hits(f, list) ==
    {s \in list :
        \/ s.kind = "HASH" /\ s.match = f.hash
        \/ /\ ~f.large
           /\ \/ /\ s.kind \in {"PE-STRING", "YARA-LITE"}
                 /\ ~f.textDoc
                 /\ s.match \in f.holds
              \/ s.kind = "PE-IMPORT" /\ s.match \in f.imports}

(* What README.md says a signature is for: a hash finds its file whatever  *)
(* its size and type, an import finds a program up to 32 MB.               *)
Documented(f, s) ==
    \/ s.kind = "HASH" /\ s.match = f.hash
    \/ s.kind = "PE-IMPORT" /\ ~f.large /\ s.match \in f.imports

-----------------------------------------------------------------------------
VARIABLES
    bundle,      \* the lines of the pack beside the program, or NoPack
    exists,      \* there is a signatures.db
    file,        \* the signatures in it
    memory,      \* DB.signatures
    svc,         \* where the start of the service is
    pc,          \* where each connection's handler is
    batch,       \* AppendFile's batch: what it has still to write
    asked,       \* AppendFile's batch: what it was given
    read,        \* reload's sigs: what it has read
    scan,        \* a scan's file, its copy of the list, and what it may rely on
    requests, restarts, faults,
    lost,        \* history: signatures whose write failed
    acked,       \* history: signatures an import was acknowledged for
    overlapped   \* history: handlers have overlapped since the start

handlers == <<pc, batch, asked, read>>
bounds   == <<requests, restarts, faults>>
history  == <<lost, acked, overlapped>>
vars     == <<bundle, exists, file, memory, svc, handlers, scan, bounds, history>>

TypeOK ==
    /\ bundle \in Bundles \cup {NoPack}
    /\ exists \in BOOLEAN /\ file \subseteq Sig
    /\ memory \subseteq Sig
    /\ svc \in {"down", "copy", "open", "seed", "load", "up"}
    /\ pc \in [Clients -> {"idle", "import", "append", "reload", "install"}]
    /\ batch \in [Clients -> SUBSET Sig]
    /\ asked \in [Clients -> SUBSET Sig]
    /\ read \in [Clients -> SUBSET Sig]
    /\ scan \in [Scanners -> Scan \cup {NoScan}]
    /\ requests \in Nat /\ restarts \in Nat /\ faults \in Nat
    /\ lost \subseteq Sig /\ acked \subseteq Sig /\ overlapped \in BOOLEAN

(* The program has been installed, with a pack or without; the service has *)
(* never run.                                                              *)
Init ==
    /\ bundle \in Bundles \cup {NoPack}
    /\ exists = FALSE /\ file = {}
    /\ memory = {}
    /\ svc = "down"
    /\ pc = [c \in Clients |-> "idle"]
    /\ batch = [c \in Clients |-> {}]
    /\ asked = [c \in Clients |-> {}]
    /\ read = [c \in Clients |-> {}]
    /\ scan = [w \in Scanners |-> NoScan]
    /\ requests = 0 /\ restarts = 0 /\ faults = 0
    /\ lost = {} /\ acked = {} /\ overlapped = FALSE

-----------------------------------------------------------------------------
(* The start of the service *)

Fault == faults < MaxFaults /\ faults' = faults + 1 /\ UNCHANGED <<requests, restarts>>

(* Mutant of SyncEqual: a database that exists is not compared. *)
SyncEqualIfExists ==
    /\ svc = "down"
    /\ bundle = NoPack \/ exists
    /\ svc' = "open"
    /\ UNCHANGED <<bundle, exists, file, memory, handlers, scan, bounds, history>>

(* seedSignaturesFromBundle: a database that differs from the pack is      *)
(* truncated, then written; the service goes on when that fails.           *)
SyncEqual ==
    /\ svc = "down"
    /\ bundle = NoPack \/ (exists /\ file = Parse(bundle))
    /\ svc' = "open"
    /\ UNCHANGED <<bundle, exists, file, memory, handlers, scan, bounds, history>>

SyncTruncate ==
    /\ svc = "down"
    /\ bundle # NoPack /\ ~(exists /\ file = Parse(bundle))
    /\ file' = {} /\ exists' = TRUE
    /\ svc' = "copy"
    /\ UNCHANGED <<bundle, memory, handlers, scan, bounds, history>>

SyncWrite ==
    /\ svc = "copy"
    /\ \/ file' = Parse(bundle) /\ UNCHANGED bounds
       \/ UNCHANGED file /\ Fault
    /\ svc' = "open"
    /\ UNCHANGED <<bundle, exists, memory, handlers, scan, history>>

(* Open: a missing database is seeded, a database that exists is read.     *)
OpenMissing ==
    /\ svc = "open"
    /\ ~exists
    /\ exists' = TRUE /\ UNCHANGED file
    /\ svc' = "seed"
    /\ UNCHANGED <<bundle, memory, handlers, scan, bounds, history>>

OpenExisting ==
    /\ svc = "open"
    /\ exists
    /\ svc' = "load"
    /\ UNCHANGED <<bundle, exists, file, memory, handlers, scan, bounds, history>>

(* writeSeed; the service does not start when it fails. *)
WriteSeed ==
    /\ svc = "seed"
    /\ \/ file' = Parse(SeedLines) /\ svc' = "load" /\ UNCHANGED bounds
       \/ UNCHANGED file /\ svc' = "down" /\ Fault
    /\ UNCHANGED <<bundle, exists, memory, handlers, scan, history>>

Load ==
    /\ svc = "load"
    /\ memory' = file
    /\ svc' = "up"
    /\ UNCHANGED <<bundle, exists, file, handlers, scan, bounds, history>>

(* A stop, a crash or a shutdown of the machine, at any step.              *)
Stop ==
    /\ svc # "down"
    /\ restarts < MaxRestarts
    /\ restarts' = restarts + 1
    /\ svc' = "down"
    /\ memory' = {}
    /\ pc' = [c \in Clients |-> "idle"]
    /\ batch' = [c \in Clients |-> {}]
    /\ asked' = [c \in Clients |-> {}]
    /\ read' = [c \in Clients |-> {}]
    /\ scan' = [w \in Scanners |-> NoScan]
    /\ overlapped' = FALSE
    /\ UNCHANGED <<bundle, exists, file, requests, faults, lost, acked>>

-----------------------------------------------------------------------------
(* Handlers *)

Begin(c, step) ==
    /\ svc = "up"
    /\ pc[c] = "idle"
    /\ requests < MaxRequests
    /\ requests' = requests + 1
    /\ pc' = [pc EXCEPT ![c] = step]
    /\ overlapped' = (overlapped \/ \E d \in Clients : pc[d] # "idle")
    /\ UNCHANGED <<bundle, exists, file, memory, svc, scan, restarts, faults, lost, acked>>

(* AppendFile reads the update first. *)
ImportBegin(c) ==
    /\ \E u \in Updates :
          /\ batch' = [batch EXCEPT ![c] = Parse(u)]
          /\ asked' = [asked EXCEPT ![c] = Parse(u)]
    /\ Begin(c, "import")
    /\ UNCHANGED read

Finish(c) ==
    /\ pc' = [pc EXCEPT ![c] = "idle"]
    /\ batch' = [batch EXCEPT ![c] = {}]
    /\ asked' = [asked EXCEPT ![c] = {}]
    /\ read' = [read EXCEPT ![c] = {}]

(* An update without one valid line is an error. *)
ImportEmpty(c) ==
    /\ pc[c] = "import"
    /\ batch[c] = {}
    /\ Finish(c)
    /\ UNCHANGED <<bundle, exists, file, memory, svc, scan, bounds, history>>

(* Mutant of ImportMemory: the list waits for the next reload. *)
ImportMemoryNot(c) ==
    /\ pc[c] = "import"
    /\ batch[c] # {}
    /\ pc' = [pc EXCEPT ![c] = "append"]
    /\ UNCHANGED <<bundle, exists, file, memory, svc, batch, asked, read, scan, bounds, history>>

(* The list in memory grows first, under DB.mu. *)
ImportMemory(c) ==
    /\ pc[c] = "import"
    /\ batch[c] # {}
    /\ memory' = memory \cup batch[c]
    /\ pc' = [pc EXCEPT ![c] = "append"]
    /\ UNCHANGED <<bundle, exists, file, svc, batch, asked, read, scan, bounds, history>>

(* Mutant of ImportAppend: the file is rewritten from the batch. *)
ImportAppendTruncates(c) ==
    /\ pc[c] = "append"
    /\ \E s \in batch[c] :
          /\ batch' = [batch EXCEPT ![c] = @ \ {s}]
          /\ \/ file' = asked[c] /\ UNCHANGED <<bounds, lost>>
             \/ UNCHANGED file /\ Fault /\ lost' = lost \cup {s}
    /\ UNCHANGED <<bundle, exists, memory, svc, pc, asked, read, scan, acked, overlapped>>

(* Mutant of ImportAppend: the loop ends at the first error. *)
ImportAppendStops(c) ==
    /\ pc[c] = "append"
    /\ \E s \in batch[c] :
          \/ /\ batch' = [batch EXCEPT ![c] = @ \ {s}]
             /\ file' = file \cup {s} /\ UNCHANGED <<bounds, lost>>
          \/ /\ batch' = [batch EXCEPT ![c] = {}]
             /\ UNCHANGED file /\ Fault /\ lost' = lost \cup {s}
    /\ UNCHANGED <<bundle, exists, memory, svc, pc, asked, read, scan, acked, overlapped>>

(* Then each line is appended to the file; a line that cannot be written   *)
(* is passed over in silence.                                              *)
ImportAppend(c) ==
    /\ pc[c] = "append"
    /\ \E s \in batch[c] :
          /\ batch' = [batch EXCEPT ![c] = @ \ {s}]
          /\ \/ file' = file \cup {s} /\ UNCHANGED <<bounds, lost>>
             \/ UNCHANGED file /\ Fault /\ lost' = lost \cup {s}
    /\ UNCHANGED <<bundle, exists, memory, svc, pc, asked, read, scan, acked, overlapped>>

(* The file cannot be opened: the import is refused, after the fact.       *)
ImportRefused(c) ==
    /\ pc[c] = "append"
    /\ batch[c] = asked[c]
    /\ Fault
    /\ lost' = lost \cup batch[c]
    /\ Finish(c)
    /\ UNCHANGED <<bundle, exists, file, memory, svc, scan, acked, overlapped>>

ImportAck(c) ==
    /\ pc[c] = "append"
    /\ batch[c] = {}
    /\ acked' = acked \cup asked[c]
    /\ Finish(c)
    /\ UNCHANGED <<bundle, exists, file, memory, svc, scan, bounds, lost, overlapped>>

(* reload reads the file, then replaces the list under DB.mu.              *)
ReloadRead(c) ==
    /\ read' = [read EXCEPT ![c] = file]
    /\ Begin(c, "install")
    /\ UNCHANGED <<batch, asked>>

ReloadInstall(c) ==
    /\ pc[c] = "install"
    /\ memory' = read[c]
    /\ Finish(c)
    /\ UNCHANGED <<bundle, exists, file, svc, scan, bounds, history>>

-----------------------------------------------------------------------------
(* MatchFile copies the list under DB.mu and matches it without the lock.  *)
ScanBegin(w) ==
    /\ svc = "up"
    /\ scan[w] = NoScan
    /\ \E f \in Targets :
          scan' = [scan EXCEPT ![w] = [file |-> f, list |-> memory, sure |-> acked]]
    /\ UNCHANGED <<bundle, exists, file, memory, svc, handlers, bounds, history>>

ScanEnd(w) ==
    /\ scan[w] # NoScan
    /\ scan' = [scan EXCEPT ![w] = NoScan]
    /\ UNCHANGED <<bundle, exists, file, memory, svc, handlers, bounds, history>>

Start == SyncEqual \/ SyncTruncate \/ SyncWrite \/ OpenMissing \/ OpenExisting
             \/ WriteSeed \/ Load

Handle(c) == ImportEmpty(c) \/ ImportMemory(c) \/ ImportAppend(c) \/ ImportRefused(c)
                 \/ ImportAck(c) \/ ReloadInstall(c)

Next ==
    \/ Start \/ Stop
    \/ \E c \in Clients : ImportBegin(c) \/ ReloadRead(c) \/ Handle(c)
    \/ \E w \in Scanners : ScanBegin(w) \/ ScanEnd(w)

Spec == Init /\ [][Next]_vars

-----------------------------------------------------------------------------
(* Properties *)

(* Without a pack beside the program, what an import was acknowledged for  *)
(* is in signatures.db from then on, whatever the other connections, a     *)
(* crash or a restart do, unless the write itself failed (AppendFile's     *)
(* O_APPEND, Open, which seeds only what is missing).                      *)
AckedIsOnFile == bundle = NoPack => acked \ lost \subseteq file

(* What the list holds comes from the file, from an import that is still   *)
(* being written, or from a write that failed: a reload or a restart       *)
(* brings back nothing that was never there (reload, AppendFile).          *)
ListIsExplained ==
    svc = "up" =>
        memory \subseteq file \cup lost
                      \cup UNION {batch[c] : c \in {d \in Clients : pc[d] = "append"}}

(* While no two handlers have overlapped, the list knows everything that   *)
(* was acknowledged: no reload can forget an import (handleClient serves a *)
(* connection's messages one after the other).                             *)
AckedIsKnown ==
    svc = "up" /\ bundle = NoPack /\ ~overlapped => acked \ lost \subseteq memory

(* A scan that begins after an import was acknowledged finds what the      *)
(* documents promise of the imported signatures, however the list changes  *)
(* while it runs (MatchFile's copy of the list).                           *)
ScanKnowsImports ==
    bundle = NoPack /\ ~overlapped =>
        \A w \in Scanners : scan[w] # NoScan =>
            \A s \in scan[w].sure \ lost :
                Documented(scan[w].file, s) => s \in Hits(scan[w].file, scan[w].list)

(* With a pack beside the program and no failed write the list always has  *)
(* the pack's signatures, although a crash may have cut an earlier start   *)
(* in the middle of its copy, and whatever imports and reloads overlap     *)
(* (seedSignaturesFromBundle, reload).                                     *)
PackIsLoaded ==
    svc = "up" /\ bundle # NoPack /\ faults = 0 => Parse(bundle) \subseteq memory

(* Stated by README.md: the service seeds the database into ProgramData on *)
(* first run, and users extend it by importing; so what they imported      *)
(* stays.                                                                  *)
ImportsSurvive == svc = "up" => acked \ lost \subseteq file
=============================================================================

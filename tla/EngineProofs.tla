---------------------------- MODULE EngineProofs ----------------------------
(* Theorems about verdicts and the user's decisions, for any number of     *)
(* monitors, scans, files, messages and failed writes.                     *)
EXTENDS Engine, TLAPS

(* The handlers of one client take turns. *)
SoleUser == \A u, v \in Users : u = v

Sound == SoleUser /\ faults = 0

(* A handler has a job while it is under way, and its steps are those of   *)
(* that job.                                                               *)
JobInv ==
    \A u \in Users :
        /\ pc[u] \in {"idle", "relock", "hook", "install", "locking", "write"}
        /\ (pc[u] \in {"idle", "relock"}) <=> (job[u] = None)
        /\ pc[u] \in {"hook", "write"} => job[u].op = "restore"
        /\ pc[u] = "locking" => seen[u] \in Lists

(* A verdict that is looked at has a path. *)
WorkInv ==
    \A r \in Reporters :
        pc[r] \notin {"idle", "walk", "apply"} => path[r] \in Paths

(* The engine's lists are the configuration's except while a handler is on *)
(* its way to install them.                                                *)
ListInv ==
    Sound => \A u \in Users :
        /\ pc[u] \notin {"install", "locking"} => engine = cfg
        /\ pc[u] = "locking" => seen[u] = cfg
        /\ pc[u] = "write" => job[u].target \in cfg.excl
        /\ pc[u] \in {"install", "locking"} /\ job[u].op = "restore" =>
              job[u].target \in cfg.excl
        /\ pc[u] \in {"install", "locking"} /\ job[u].op = "allow" =>
              job[u].target \in cfg.allowed

(* What the user vouches for is on a list, and the list that is about to   *)
(* be installed has it too.                                                *)
VouchInv ==
    Sound => \A p \in vouched :
        /\ p \in engine.excl \cup engine.allowed
        /\ p \in engine.excl => p \in cfg.excl
        /\ p \in engine.allowed => p \in cfg.allowed

(* A verdict that began to check such a path ends at the first list or     *)
(* meets the second.                                                       *)
WarnInv ==
    Sound => \A r \in warned :
        /\ path[r] \in vouched
        /\ pc[r] \in {"white", "whiteRead", "dedupe", "mark", "excl", "exclRead"}
        /\ pc[r] \notin {"white", "whiteRead"} => path[r] \in engine.excl

IInv == TypeOK /\ JobInv /\ WorkInv /\ ListInv /\ VouchInv /\ WarnInv

ReporterStep == {"idle", "walk", "apply", "white", "whiteRead", "dedupe", "mark",
                 "excl", "exclRead", "enforce", "add", "relock"}

(* The store has the shape that TypeOK asks for. *)
StoreOK ==
    /\ present \subseteq Paths
    /\ vault \subseteq Entry /\ fresh \subseteq 1..MaxEntries /\ made \in 0..MaxEntries

USE EngineAssumption
    DEF vars, store, config, scanner, bounds, history, Goto

(* A step of a reporter touches no handler, and no warned path. *)
LEMMA StepKeeps ==
    ASSUME IInv, NEW r \in Reporters, NEW step \in ReporterStep,
           pc' = [pc EXCEPT ![r] = step],
           step \in {"idle", "walk", "apply"} \/ path[r] \in Paths,
           Sound /\ r \in warned =>
               /\ step \in {"white", "whiteRead", "dedupe", "mark", "excl", "exclRead"}
               /\ step \notin {"white", "whiteRead"} => path[r] \in engine.excl,
           reading' \subseteq Reporters, recent' \subseteq Paths,
           found' \in [Scans -> SUBSET Paths], skips' \in [Scans -> SUBSET Paths],
           UNCHANGED <<store, config, path, job, bounds, history>>
    PROVE  IInv'
<1>1. TypeOK'
  BY DEF IInv, TypeOK, ReporterStep
<1>2. JobInv' /\ ListInv'
  BY DEF IInv, TypeOK, JobInv, ListInv, Sound
<1>3. VouchInv'
  BY DEF IInv, VouchInv, Sound
<1>4. WarnInv'
  BY DEF IInv, TypeOK, WarnInv, Sound
<1>5. WorkInv'
  BY DEF IInv, TypeOK, WorkInv
<1>. QED
  BY <1>1, <1>2, <1>3, <1>4, <1>5 DEF IInv

(* A verdict that has been dealt with is warned no more. *)
LEMMA DoneKeeps ==
    ASSUME IInv, NEW r \in Reporters, Done(r), StoreOK', reading' \subseteq Reporters,
           UNCHANGED <<holder, config, recent, scanner, job, bounds, vouched>>
    PROVE  IInv'
<1>1. PICK step \in {"idle", "apply"} : pc' = [pc EXCEPT ![r] = step]
  BY DEF Done
<1>2. path' = [path EXCEPT ![r] = None] /\ warned' = warned \ {r}
  BY DEF Done
<1>3. TypeOK'
  BY <1>1, <1>2 DEF IInv, TypeOK, StoreOK
<1>4. JobInv' /\ ListInv'
  BY <1>1 DEF IInv, TypeOK, JobInv, ListInv, Sound
<1>5. VouchInv'
  BY DEF IInv, VouchInv, Sound
<1>6. WarnInv'
  BY <1>1, <1>2 DEF IInv, TypeOK, WarnInv, Sound
<1>7. WorkInv'
  BY <1>1, <1>2 DEF IInv, TypeOK, WorkInv
<1>. QED
  BY <1>3, <1>4, <1>5, <1>6, <1>7 DEF IInv

(* A verdict about a path the user vouches for is warned from its start. *)
LEMMA VerdictKeeps ==
    ASSUME IInv, NEW r \in Reporters, NEW p \in Paths, Verdict(r, p),
           pc[r] \in {"idle", "apply"}, found' \in [Scans -> SUBSET Paths],
           UNCHANGED <<store, config, recent, reading, skips, job, bounds, vouched>>
    PROVE  IInv'
<1>1. /\ pc' = [pc EXCEPT ![r] = "white"]
      /\ path' = [path EXCEPT ![r] = p]
      /\ warned' \subseteq warned \cup {r}
      /\ p \notin vouched => warned' = warned
  BY DEF Verdict
<1>2. TypeOK'
  BY <1>1 DEF IInv, TypeOK
<1>3. JobInv' /\ ListInv'
  BY <1>1 DEF IInv, TypeOK, JobInv, ListInv, Sound
<1>4. VouchInv'
  BY DEF IInv, VouchInv, Sound
<1>5. WarnInv'
  BY <1>1 DEF IInv, TypeOK, WarnInv, Sound
<1>6. WorkInv'
  BY <1>1 DEF IInv, TypeOK, WorkInv
<1>. QED
  BY <1>2, <1>3, <1>4, <1>5, <1>6 DEF IInv

(* A monitor has found something. *)
LEMMA DetectKeeps == ASSUME IInv, NEW m \in Monitors, Detect(m) PROVE IInv'
<1>1. PICK p \in Paths : Verdict(m, p)
  BY DEF Detect, IInv, TypeOK
<1>2. found' \in [Scans -> SUBSET Paths]
  BY DEF Detect, IInv, TypeOK
<1>. QED
  BY <1>1, <1>2, VerdictKeeps DEF Detect, Reporters

(* A scan takes up the next of the verdicts it has found. *)
LEMMA ApplyNextKeeps == ASSUME IInv, NEW s \in Scans, ApplyNext(s) PROVE IInv'
<1>1. PICK p \in found[s] : Verdict(s, p) /\ found' = [found EXCEPT ![s] = @ \ {p}]
  BY DEF ApplyNext
<1>2. p \in Paths /\ found' \in [Scans -> SUBSET Paths]
  BY <1>1 DEF IInv, TypeOK
<1>. QED
  BY <1>1, <1>2, VerdictKeeps DEF ApplyNext, Reporters

(* A scan is warned of nothing while it walks and between two verdicts. *)
LEMMA WalkingKeeps ==
    ASSUME IInv, NEW s \in Scans, ScanStart(s) \/ ScanFile(s) \/ ScanApply(s) \/ ScanEnd(s)
    PROVE  IInv'
<1>1. PICK step \in {"idle", "walk", "apply"} : pc' = [pc EXCEPT ![s] = step]
  BY DEF ScanStart, ScanFile, ScanApply, ScanEnd, IInv, TypeOK, Reporters
<1>2. Sound => s \notin warned
  BY DEF ScanStart, ScanFile, ScanApply, ScanEnd, IInv, WarnInv
<1>3. found' \in [Scans -> SUBSET Paths] /\ skips' \in [Scans -> SUBSET Paths]
  BY DEF ScanStart, ScanFile, ScanApply, ScanEnd, IInv, TypeOK, Lists
<1>4. UNCHANGED <<store, config, path, job, bounds, history, recent, reading>>
  BY DEF ScanStart, ScanFile, ScanApply, ScanEnd
<1>5. s \in Reporters /\ reading' \subseteq Reporters /\ recent' \subseteq Paths
  BY <1>4 DEF IInv, TypeOK, Reporters
<1>. QED
  BY <1>1, <1>2, <1>3, <1>4, <1>5, StepKeeps DEF ReporterStep

(* A look at the lists begins. *)
LEMMA LookKeeps == ASSUME IInv, NEW r \in Reporters, Look(r) PROVE IInv'
<1>1. PICK step \in {"whiteRead", "exclRead"} :
          /\ pc' = [pc EXCEPT ![r] = step]
          /\ pc[r] = IF step = "whiteRead" THEN "white" ELSE "excl"
  BY DEF Look, Lock
<1>2. /\ reading' = reading \cup {r}
      /\ UNCHANGED <<store, config, recent, path, scanner, job, bounds, history>>
  BY DEF Look, Lock
<1>3. Sound /\ r \in warned /\ step = "exclRead" => path[r] \in engine.excl
  BY <1>1 DEF IInv, WarnInv
<1>4. /\ reading' \subseteq Reporters /\ recent' \subseteq Paths
      /\ found' \in [Scans -> SUBSET Paths] /\ skips' \in [Scans -> SUBSET Paths]
  BY <1>2 DEF IInv, TypeOK
<1>5. path[r] \in Paths
  BY <1>1 DEF IInv, WorkInv
<1>. QED
  BY <1>1, <1>2, <1>3, <1>4, <1>5, StepKeeps DEF ReporterStep

(* A path that is not whitelisted and vouched for is excluded. *)
LEMMA WhitelistedKeeps == ASSUME IInv, NEW r \in Reporters, Whitelisted(r) PROVE IInv'
<1>1. /\ reading' \subseteq Reporters /\ recent' \subseteq Paths /\ StoreOK'
      /\ found' \in [Scans -> SUBSET Paths] /\ skips' \in [Scans -> SUBSET Paths]
      /\ path[r] \in Paths
  BY DEF Whitelisted, StoreOK, IInv, TypeOK, WorkInv
<1>2. CASE path[r] \in engine.allowed
  BY <1>1, <1>2, DoneKeeps DEF Whitelisted
<1>3. CASE path[r] \notin engine.allowed
  <2>1. PICK step \in {"excl", "dedupe"} : pc' = [pc EXCEPT ![r] = step]
    BY <1>3 DEF Whitelisted
  <2>2. Sound /\ r \in warned => path[r] \in engine.excl
    BY <1>3 DEF IInv, VouchInv, WarnInv
  <2>3. UNCHANGED <<store, config, recent, path, scanner, job, bounds, history>>
    BY <1>3 DEF Whitelisted
  <2>. QED
    BY <1>1, <2>1, <2>2, <2>3, StepKeeps DEF ReporterStep
<1>. QED
  BY <1>2, <1>3

(* A report of the window's time ends, or goes on to be marked. *)
LEMMA SuppressedKeeps == ASSUME IInv, NEW r \in Reporters, Suppressed(r) PROVE IInv'
<1>1. /\ reading' \subseteq Reporters /\ recent' \subseteq Paths /\ StoreOK'
      /\ found' \in [Scans -> SUBSET Paths] /\ skips' \in [Scans -> SUBSET Paths]
      /\ path[r] \in Paths
  BY DEF Suppressed, StoreOK, IInv, TypeOK, WorkInv
<1>2. CASE path[r] \in recent
  BY <1>1, <1>2, DoneKeeps DEF Suppressed
<1>3. CASE path[r] \notin recent
  <2>1. /\ pc' = [pc EXCEPT ![r] = "mark"]
        /\ UNCHANGED <<store, config, recent, path, scanner, job, bounds, history>>
    BY <1>3 DEF Suppressed
  <2>2. Sound /\ r \in warned => path[r] \in engine.excl
    BY DEF Suppressed, IInv, WarnInv
  <2>. QED
    BY <1>1, <2>1, <2>2, StepKeeps DEF ReporterStep
<1>. QED
  BY <1>2, <1>3

(* Only the window changes. *)
LEMMA MarkKeeps == ASSUME IInv, NEW r \in Reporters, Mark(r) PROVE IInv'
<1>1. /\ reading' \subseteq Reporters
      /\ found' \in [Scans -> SUBSET Paths] /\ skips' \in [Scans -> SUBSET Paths]
      /\ pc' = [pc EXCEPT ![r] = "excl"] /\ path[r] \in Paths
      /\ UNCHANGED <<store, config, path, scanner, job, bounds, history>>
  BY DEF Mark, IInv, TypeOK, WorkInv
<1>2. recent' \subseteq Paths
  BY DEF Mark, IInv, TypeOK, WorkInv
<1>3. Sound /\ r \in warned => path[r] \in engine.excl
  BY DEF Mark, IInv, WarnInv
<1>. QED
  BY <1>1, <1>2, <1>3, StepKeeps DEF ReporterStep

(* A warned verdict meets the exclusion of its path. *)
LEMMA ExcludedKeeps == ASSUME IInv, NEW r \in Reporters, Excluded(r) PROVE IInv'
<1>1. /\ reading' \subseteq Reporters /\ recent' \subseteq Paths /\ StoreOK'
      /\ found' \in [Scans -> SUBSET Paths] /\ skips' \in [Scans -> SUBSET Paths]
      /\ path[r] \in Paths
  BY DEF Excluded, StoreOK, IInv, TypeOK, WorkInv
<1>2. CASE path[r] \in engine.excl
  BY <1>1, <1>2, DoneKeeps DEF Excluded
<1>3. CASE path[r] \notin engine.excl
  <2>1. /\ pc' = [pc EXCEPT ![r] = "enforce"]
        /\ UNCHANGED <<store, config, recent, path, scanner, job, bounds, history>>
    BY <1>3 DEF Excluded
  <2>2. ~(Sound /\ r \in warned)
    BY <1>3 DEF Excluded, IInv, WarnInv
  <2>. QED
    BY <1>1, <2>1, <2>2, StepKeeps DEF ReporterStep
<1>. QED
  BY <1>2, <1>3

(* No warned verdict comes this far. *)
LEMMA EnforceKeeps == ASSUME IInv, NEW r \in Reporters, Enforce(r) PROVE IInv'
<1>1. /\ reading' \subseteq Reporters /\ recent' \subseteq Paths
      /\ found' \in [Scans -> SUBSET Paths] /\ skips' \in [Scans -> SUBSET Paths]
      /\ UNCHANGED <<vault, fresh, made, holder, config, recent, reading, scanner, job,
                     bounds, vouched>>
  BY DEF Enforce, IInv, TypeOK
<1>2. CASE Done(r) /\ present' \subseteq present
  <2>1. StoreOK'
    BY <1>1, <1>2 DEF StoreOK, IInv, TypeOK
  <2>. QED
    BY <1>1, <1>2, <2>1, DoneKeeps
<1>3. CASE Goto(r, "add") /\ UNCHANGED <<present, path, warned>>
  <2>1. ~(Sound /\ r \in warned) /\ path[r] \in Paths
    BY DEF Enforce, IInv, WarnInv, WorkInv
  <2>. QED
    BY <1>1, <1>3, <2>1, StepKeeps DEF ReporterStep
<1>. QED
  BY <1>2, <1>3 DEF Enforce

(* The store makes an entry, or none. *)
LEMMA TakeKeeps ==
    ASSUME TypeOK, NEW p \in Paths, Take(p) PROVE StoreOK'
<1>1. CASE UNCHANGED <<vault, fresh, made>> /\ present' \subseteq present
  BY <1>1 DEF StoreOK, TypeOK
<1>2. CASE /\ made < MaxEntries /\ made' = made + 1
           /\ vault' = vault \cup {[id |-> made', path |-> p, bytes |-> p \in present]}
           /\ fresh' = fresh \cup {made'}
           /\ present' \subseteq present
  <2>1. made' \in 0..MaxEntries /\ made' \in 1..MaxEntries
    BY <1>2 DEF TypeOK
  <2>2. [id |-> made', path |-> p, bytes |-> p \in present] \in Entry
    BY <2>1 DEF Entry
  <2>. QED
    BY <1>2, <2>1, <2>2 DEF StoreOK, TypeOK
<1>. QED
  BY <1>1, <1>2 DEF Take

(* The store takes the file, or does not, or is lost; no warned verdict    *)
(* has come to it.                                                         *)
LEMMA AddKeeps == ASSUME IInv, NEW r \in Reporters, Add(r) PROVE IInv'
<1>1. path[r] \in Paths
  BY DEF Add, IInv, WorkInv
<1>2. CASE Take(path[r]) /\ Done(r) /\ UNCHANGED holder
  <2>1. StoreOK'
    BY <1>1, <1>2, TakeKeeps DEF IInv
  <2>. QED
    BY <1>2, <2>1, DoneKeeps DEF Add, IInv, TypeOK
<1>3. CASE Relock(r, path[r]) /\ UNCHANGED <<path, warned>>
  <2>1. /\ pc' = [pc EXCEPT ![r] = "relock"] /\ holder' = r
        /\ UNCHANGED <<present, vault, fresh, made, config, recent, reading, path,
                       scanner, job, bounds, history>>
    BY <1>3 DEF Relock, Add
  <2>2. TypeOK'
    BY <2>1 DEF IInv, TypeOK
  <2>3. JobInv' /\ ListInv' /\ VouchInv'
    BY <2>1 DEF IInv, TypeOK, JobInv, ListInv, VouchInv, Sound
  <2>4. WorkInv'
    BY <1>1, <2>1 DEF IInv, TypeOK, WorkInv
  <2>5. WarnInv'
    BY <2>1 DEF Add, IInv, TypeOK, WarnInv, Sound
  <2>. QED
    BY <2>2, <2>3, <2>4, <2>5 DEF IInv
<1>. QED
  BY <1>2, <1>3 DEF Add

(* What a handler does to its own place leaves the reporters where they    *)
(* are, and once a write has failed nothing more is promised.              *)
LEMMA HandlerKeeps ==
    ASSUME IInv, NEW u \in Users, NEW step \in {"idle", "relock", "hook", "install", "locking", "write"},
           pc' = [pc EXCEPT ![u] = step], TypeOK', JobInv',
           faults' \in {faults, faults + 1}, UNCHANGED path,
           faults' = faults => ListInv' /\ VouchInv' /\ WarnInv'
    PROVE  IInv'
<1>1. WorkInv'
  BY DEF IInv, TypeOK, WorkInv
<1>2. CASE faults' = faults + 1
  <2>1. faults' # 0
    BY <1>2 DEF IInv, TypeOK
  <2>. QED
    BY <1>1, <2>1 DEF IInv, ListInv, VouchInv, WarnInv, Sound
<1>. QED
  BY <1>1, <1>2 DEF IInv

(* The whitelist grows in the configuration first. *)
LEMMA AllowKeeps == ASSUME IInv, NEW u \in Users, Allow(u) PROVE IInv'
<1>1. PICK p \in Paths : /\ Update(u, [cfg EXCEPT !.allowed = @ \cup {p}], "install")
                         /\ job' = [job EXCEPT ![u] = IF pc'[u] = "idle" THEN None
                                                      ELSE [op |-> "allow", target |-> p]]
  BY DEF Allow
<1>2. /\ pc[u] = "idle" /\ job[u] = None /\ asks' \in Nat
      /\ cfg' = [cfg EXCEPT !.allowed = @ \cup {p}] /\ cfg' \in Lists
      /\ UNCHANGED <<store, engine, seen, recent, reading, path, scanner, history>>
  <2>1. cfg' = [cfg EXCEPT !.allowed = @ \cup {p}]
    BY <1>1 DEF Update
  <2>2. cfg' \in Lists
    BY <2>1 DEF IInv, TypeOK, Lists
  <2>. QED
    BY <2>1, <2>2 DEF Allow, Asks, IInv, TypeOK, JobInv
<1>3. [op |-> "allow", target |-> p] \in Job
  BY DEF Job
<1>4. CASE pc' = [pc EXCEPT ![u] = "install"] /\ faults' = faults
  <2>1. pc'[u] = "install"
    BY <1>4 DEF IInv, TypeOK
  <2>2. job' = [job EXCEPT ![u] = [op |-> "allow", target |-> p]]
    BY <1>1, <2>1
  <2>3. TypeOK'
    BY <1>2, <1>3, <1>4, <2>2 DEF IInv, TypeOK
  <2>4. JobInv'
    BY <1>2, <1>3, <1>4, <2>2 DEF IInv, TypeOK, JobInv
  <2>5. ListInv'
    BY <1>2, <1>4, <2>2 DEF IInv, TypeOK, Lists, ListInv, Sound, SoleUser
  <2>6. VouchInv' /\ WarnInv'
    BY <1>2, <1>4 DEF IInv, TypeOK, Lists, VouchInv, WarnInv, Sound
  <2>. QED
    BY <1>2, <1>4, <2>3, <2>4, <2>5, <2>6, HandlerKeeps
<1>5. CASE pc' = [pc EXCEPT ![u] = "idle"] /\ faults' = faults + 1
  <2>1. job' = [job EXCEPT ![u] = None]
    BY <1>1, <1>5 DEF IInv, TypeOK
  <2>2. TypeOK'
    BY <1>2, <1>5, <2>1 DEF IInv, TypeOK
  <2>3. JobInv'
    BY <1>2, <1>5, <2>1 DEF IInv, TypeOK, JobInv
  <2>4. faults' # faults
    BY <1>5 DEF IInv, TypeOK
  <2>. QED
    BY <1>2, <1>5, <2>2, <2>3, <2>4, HandlerKeeps
<1>. QED
  BY <1>1, <1>2, <1>4, <1>5 DEF Update

(* The user no longer vouches for the path that leaves a list. *)
LEMMA SettingsKeeps == ASSUME IInv, NEW u \in Users, Settings(u) PROVE IInv'
<1>0. PICK p \in cfg.excl \cup cfg.allowed :
          /\ \E new \in {[cfg EXCEPT !.excl = @ \ {p}], [cfg EXCEPT !.allowed = @ \ {p}]} :
                Update(u, new, "install")
          /\ job' = [job EXCEPT ![u] = IF pc'[u] = "idle" THEN None
                                       ELSE [op |-> "settings", target |-> p]]
          /\ vouched' = vouched \ {p}
          /\ warned' = {r \in warned : path[r] # p}
  BY DEF Settings
<1>1. PICK new \in {[cfg EXCEPT !.excl = @ \ {p}], [cfg EXCEPT !.allowed = @ \ {p}]} :
          Update(u, new, "install")
  BY <1>0
<1>2. /\ pc[u] = "idle" /\ job[u] = None /\ asks' \in Nat /\ p \in Paths
      /\ cfg' = new /\ new \in Lists
      /\ UNCHANGED <<store, engine, seen, recent, reading, path, scanner>>
  BY <1>0, <1>1 DEF Settings, Asks, Update, IInv, TypeOK, JobInv, Lists
<1>3. [op |-> "settings", target |-> p] \in Job
  BY <1>2 DEF Job
<1>4. CASE pc' = [pc EXCEPT ![u] = "install"] /\ faults' = faults
  <2>1. pc'[u] = "install"
    BY <1>4 DEF IInv, TypeOK
  <2>2. job' = [job EXCEPT ![u] = [op |-> "settings", target |-> p]]
    BY <1>0, <2>1
  <2>3. TypeOK'
    BY <1>0, <1>1, <1>2, <1>3, <1>4, <2>2 DEF IInv, TypeOK
  <2>4. JobInv'
    BY <1>2, <1>3, <1>4, <2>2 DEF IInv, TypeOK, JobInv
  <2>5. ListInv'
    BY <1>2, <1>4, <2>2 DEF IInv, TypeOK, ListInv, Sound, SoleUser
  <2>6. \A q \in Paths \ {p} : /\ q \in cfg.excl => q \in new.excl
                               /\ q \in cfg.allowed => q \in new.allowed
    BY <1>0, <1>1 DEF IInv, TypeOK, Lists
  <2>7. VouchInv'
    BY <1>0, <1>1, <1>2, <1>4, <2>6 DEF IInv, TypeOK, VouchInv, Sound
  <2>8. WarnInv'
    BY <1>0, <1>1, <1>2, <1>4 DEF IInv, TypeOK, WarnInv, Sound
  <2>. QED
    BY <1>2, <1>4, <2>3, <2>4, <2>5, <2>7, <2>8, HandlerKeeps
<1>5. CASE pc' = [pc EXCEPT ![u] = "idle"] /\ faults' = faults + 1
  <2>1. job' = [job EXCEPT ![u] = None]
    BY <1>0, <1>5 DEF IInv, TypeOK
  <2>2. TypeOK'
    BY <1>0, <1>1, <1>2, <1>5, <2>1 DEF IInv, TypeOK
  <2>3. JobInv'
    BY <1>2, <1>5, <2>1 DEF IInv, TypeOK, JobInv
  <2>4. faults' # faults
    BY <1>5 DEF IInv, TypeOK
  <2>. QED
    BY <1>2, <1>5, <2>2, <2>3, <2>4, HandlerKeeps
<1>. QED
  BY <1>0, <1>1, <1>2, <1>4, <1>5 DEF Update

(* Messages that change the store alone. *)
LEMMA StoreOnlyKeeps ==
    ASSUME IInv, StoreOK', asks' \in Nat,
           UNCHANGED <<holder, config, recent, reading, pc, path, scanner, job, faults, history>>
    PROVE  IInv'
<1>1. TypeOK'
  BY DEF IInv, TypeOK, StoreOK
<1>2. JobInv' /\ WorkInv' /\ ListInv' /\ VouchInv' /\ WarnInv'
  BY DEF IInv, JobInv, WorkInv, ListInv, VouchInv, WarnInv, Sound
<1>. QED
  BY <1>1, <1>2 DEF IInv

(* The user quarantines, deletes, or restores what is still in place. *)
LEMMA MessageKeeps ==
    ASSUME IInv, NEW u \in Users, Quarantine(u) \/ Delete(u) \/ RestoreAlready(u)
    PROVE  IInv'
<1>1. /\ asks' \in Nat /\ pc[u] = "idle"
      /\ UNCHANGED <<config, recent, reading, path, scanner, job, faults, history>>
  BY DEF Quarantine, Delete, RestoreAlready, Asks, IInv, TypeOK
<1>2. ASSUME NEW p \in present, Take(p), UNCHANGED <<holder, pc>> PROVE IInv'
  <2>1. StoreOK'
    BY <1>2, TakeKeeps DEF IInv, TypeOK
  <2>. QED
    BY <1>1, <1>2, <2>1, StoreOnlyKeeps
<1>3. ASSUME NEW p \in present, Relock(u, p) PROVE IInv'
  <2>1. /\ pc' = [pc EXCEPT ![u] = "relock"] /\ holder' = u
        /\ UNCHANGED <<present, vault, fresh, made>>
    BY <1>3 DEF Relock
  <2>2. TypeOK'
    BY <1>1, <2>1 DEF IInv, TypeOK
  <2>3. JobInv'
    BY <1>1, <2>1 DEF IInv, TypeOK, JobInv
  <2>4. ListInv' /\ VouchInv'
    BY <1>1, <2>1 DEF IInv, TypeOK, ListInv, VouchInv, Sound
  <2>5. WarnInv'
    BY <1>1, <2>1 DEF IInv, TypeOK, WarnInv, Sound
  <2>. QED
    BY <1>1, <2>1, <2>2, <2>3, <2>4, <2>5, HandlerKeeps DEF IInv, TypeOK
<1>4. CASE Delete(u) \/ RestoreAlready(u)
  <2>1. StoreOK'
    BY <1>4 DEF Delete, RestoreAlready, StoreOK, IInv, TypeOK
  <2>. QED
    BY <1>1, <1>4, <2>1, StoreOnlyKeeps DEF Delete, RestoreAlready
<1>. QED
  BY <1>2, <1>3, <1>4 DEF Quarantine

(* Other programs change files alone. *)
LEMMA OutsideKeeps ==
    ASSUME IInv, NEW p \in Paths, FileAppears(p) \/ FileGoes(p) PROVE IInv'
<1>1. StoreOK' /\ asks' \in Nat
  BY DEF FileAppears, FileGoes, StoreOK, IInv, TypeOK
<1>. QED
  BY <1>1, StoreOnlyKeeps DEF FileAppears, FileGoes

(* The window and the minute are no part of the invariant. *)
LEMMA WindowKeeps == ASSUME IInv, WindowPasses PROVE IInv'
<1>1. TypeOK'
  BY DEF WindowPasses, IInv, TypeOK
<1>2. JobInv' /\ WorkInv' /\ ListInv' /\ VouchInv' /\ WarnInv'
  BY DEF WindowPasses, IInv, JobInv, WorkInv, ListInv, VouchInv, WarnInv, Sound
<1>. QED
  BY <1>1, <1>2 DEF IInv

(* A restore begins: the lists stay as they are. *)
LEMMA RestoreEnterKeeps == ASSUME IInv, NEW u \in Users, RestoreEnter(u) PROVE IInv'
<1>1. PICK e \in vault, t \in Paths :
          job' = [job EXCEPT ![u] = [op |-> "restore", entry |-> e, target |-> t]]
  BY DEF RestoreEnter
<1>2. /\ pc[u] = "idle" /\ pc' = [pc EXCEPT ![u] = "hook"]
      /\ holder' = u /\ asks' \in Nat
      /\ UNCHANGED <<present, vault, fresh, made, config, recent, reading, path, scanner,
                     faults, history>>
  BY DEF RestoreEnter, Asks, IInv, TypeOK
<1>3. [op |-> "restore", entry |-> e, target |-> t] \in Job
  BY DEF Job, IInv, TypeOK
<1>4. TypeOK'
  BY <1>1, <1>2, <1>3 DEF IInv, TypeOK
<1>5. JobInv'
  BY <1>1, <1>2, <1>3 DEF IInv, TypeOK, JobInv
<1>6. ListInv'
  BY <1>1, <1>2 DEF IInv, TypeOK, ListInv, Sound, SoleUser
<1>7. VouchInv' /\ WarnInv'
  BY <1>2 DEF IInv, TypeOK, VouchInv, WarnInv, Sound
<1>. QED
  BY <1>2, <1>4, <1>5, <1>6, <1>7, HandlerKeeps

(* The configuration excludes the target before it is written. *)
LEMMA HookKeeps == ASSUME IInv, NEW u \in Users, Hook(u) PROVE IInv'
<1>. DEFINE paths == {job[u].entry.path, job[u].target}
            new == [cfg EXCEPT !.excl = @ \cup paths]
            step == IF cfg.excl \cup paths = cfg.excl THEN "write" ELSE "install"
<1>1. /\ pc[u] = "hook" /\ job[u] # None /\ job[u].op = "restore"
      /\ UNCHANGED <<store, engine, seen, recent, reading, path, scanner, job, asks, history>>
  BY DEF Hook, IInv, JobInv
<1>2. job[u] \in Job
  BY <1>1 DEF IInv, TypeOK
<1>3. paths \subseteq Paths
  BY <1>1, <1>2 DEF Job, Entry
<1>4. cfg' = new
  BY DEF Hook, Update
<1>5. /\ cfg'.excl = cfg.excl \cup paths /\ cfg'.allowed = cfg.allowed
      /\ cfg' \in Lists
  BY <1>3, <1>4 DEF IInv, TypeOK, Lists
<1>6. CASE pc' = [pc EXCEPT ![u] = step] /\ faults' = faults
  <2>1. step \in {"write", "install"}
    OBVIOUS
  <2>2. step = "write" => cfg' = cfg
    BY <1>4 DEF IInv, TypeOK, Lists
  <2>. HIDE DEF step, new
  <2>3. TypeOK'
    BY <1>1, <1>5, <1>6, <2>1 DEF IInv, TypeOK
  <2>4. JobInv'
    BY <1>1, <1>6, <2>1 DEF IInv, TypeOK, JobInv
  <2>5. ListInv'
    BY <1>1, <1>5, <1>6, <2>1, <2>2 DEF IInv, TypeOK, ListInv, Sound, SoleUser
  <2>6. VouchInv' /\ WarnInv'
    BY <1>1, <1>5, <1>6, <2>1 DEF IInv, TypeOK, VouchInv, WarnInv, Sound
  <2>. QED
    BY <1>1, <1>6, <2>1, <2>3, <2>4, <2>5, <2>6, HandlerKeeps
<1>7. CASE pc' = [pc EXCEPT ![u] = "write"] /\ faults' = faults + 1
  <2>1. TypeOK'
    BY <1>1, <1>5, <1>7 DEF IInv, TypeOK
  <2>2. JobInv'
    BY <1>1, <1>7 DEF IInv, TypeOK, JobInv
  <2>3. faults' # faults
    BY <1>7 DEF IInv, TypeOK
  <2>. QED
    BY <1>1, <1>7, <2>1, <2>2, <2>3, HandlerKeeps
<1>. QED
  BY <1>1, <1>6, <1>7 DEF Hook, Update

(* What ApplyConfig has read is what there is while handlers take turns. *)
LEMMA ReadConfigKeeps == ASSUME IInv, NEW u \in Users, ReadConfig(u) PROVE IInv'
<1>1. /\ pc[u] = "install" /\ pc' = [pc EXCEPT ![u] = "locking"]
      /\ seen' = [seen EXCEPT ![u] = cfg]
      /\ UNCHANGED <<store, cfg, engine, recent, reading, path, scanner, job, bounds,
                     history>>
  BY DEF ReadConfig
<1>2. TypeOK'
  BY <1>1 DEF IInv, TypeOK
<1>3. JobInv'
  BY <1>1 DEF IInv, TypeOK, JobInv
<1>4. ListInv'
  BY <1>1 DEF IInv, TypeOK, ListInv, Sound, SoleUser
<1>5. VouchInv' /\ WarnInv'
  BY <1>1 DEF IInv, TypeOK, VouchInv, WarnInv, Sound
<1>. QED
  BY <1>1, <1>2, <1>3, <1>4, <1>5, HandlerKeeps

(* The engine has the configuration's lists again. *)
LEMMA InstallKeeps == ASSUME IInv, NEW u \in Users, Install(u) PROVE IInv'
<1>1. /\ pc[u] = "locking" /\ engine' = seen[u] /\ job[u] # None
      /\ seen' = [seen EXCEPT ![u] = None]
      /\ vouched' = IF job[u].op = "allow" THEN vouched \cup {job[u].target} ELSE vouched
      /\ UNCHANGED <<store, cfg, recent, reading, path, scanner, bounds, warned>>
  BY DEF Install, IInv, JobInv
<1>2. seen[u] \in Lists /\ job[u] \in Job
  BY <1>1 DEF IInv, TypeOK, JobInv
<1>3. job[u].op = "allow" => job[u].target \in Paths
  BY <1>2 DEF Job
<1>4. PICK step \in {"idle", "write"} :
          /\ pc' = [pc EXCEPT ![u] = step]
          /\ step = "write" => job[u].op = "restore" /\ job' = job
          /\ step = "idle" => job' = [job EXCEPT ![u] = None]
  BY DEF Install
<1>5. TypeOK'
  BY <1>1, <1>2, <1>3, <1>4 DEF IInv, TypeOK
<1>6. JobInv'
  BY <1>1, <1>4 DEF IInv, TypeOK, JobInv
<1>7. Sound => /\ engine' = cfg /\ cfg' = cfg /\ Sound'
               /\ job[u].op = "restore" => job[u].target \in cfg.excl
               /\ job[u].op = "allow" => job[u].target \in cfg.allowed
  BY <1>1 DEF IInv, ListInv, Sound
<1>8. ListInv'
  BY <1>1, <1>4, <1>7 DEF IInv, TypeOK, ListInv, Sound, SoleUser
<1>9. VouchInv'
  BY <1>1, <1>7 DEF IInv, VouchInv, Sound
<1>10. WarnInv'
  BY <1>1, <1>4, <1>7 DEF IInv, TypeOK, VouchInv, WarnInv, Sound
<1>. QED
  BY <1>1, <1>4, <1>5, <1>6, <1>8, <1>9, <1>10, HandlerKeeps

(* What is written back was excluded before. *)
LEMMA RestoreWriteKeeps == ASSUME IInv, NEW u \in Users, RestoreWrite(u) PROVE IInv'
<1>1. /\ pc[u] = "write" /\ pc' = [pc EXCEPT ![u] = "idle"] /\ holder' = None
      /\ job' = [job EXCEPT ![u] = None] /\ job[u] # None /\ job[u].op = "restore"
      /\ UNCHANGED <<fresh, made, config, recent, reading, path, scanner, bounds, warned>>
      /\ vault' \subseteq vault
      /\ present' \subseteq present \cup {job[u].target}
      /\ vouched \subseteq vouched' /\ vouched' \subseteq vouched \cup {job[u].target}
  BY DEF RestoreWrite, IInv, JobInv
<1>2. job[u].target \in Paths
  BY <1>1 DEF IInv, TypeOK, Job
<1>3. TypeOK'
  BY <1>1, <1>2 DEF IInv, TypeOK
<1>4. JobInv'
  BY <1>1 DEF IInv, TypeOK, JobInv
<1>5. ListInv'
  BY <1>1 DEF IInv, TypeOK, ListInv, Sound, SoleUser
<1>6. Sound => engine = cfg /\ job[u].target \in cfg.excl
  BY <1>1 DEF IInv, ListInv
<1>7. VouchInv'
  BY <1>1, <1>6 DEF IInv, VouchInv, Sound
<1>8. WarnInv'
  BY <1>1 DEF IInv, TypeOK, WarnInv, Sound
<1>. QED
  BY <1>1, <1>3, <1>4, <1>5, <1>7, <1>8, HandlerKeeps

(* Nothing changes. *)
LEMMA StutterKeeps == ASSUME IInv, UNCHANGED vars PROVE IInv'
  BY DEF IInv, TypeOK, JobInv, WorkInv, ListInv, VouchInv, WarnInv, Sound

(* When the service starts the lists are empty and nobody is at work. *)
LEMMA InitInv == ASSUME Init PROVE IInv
<1>1. TypeOK
  BY DEF Init, TypeOK, Lists
<1>2. JobInv
  BY DEF Init, JobInv
<1>3. WorkInv /\ ListInv /\ VouchInv /\ WarnInv
  BY DEF Init, WorkInv, ListInv, VouchInv, WarnInv
<1>. QED
  BY <1>1, <1>2, <1>3 DEF IInv

(* Every step keeps the invariant. *)
LEMMA NextInv == ASSUME IInv, [Next]_vars PROVE IInv'
<1>1. ASSUME NEW m \in Monitors, Detect(m) PROVE IInv'
  BY <1>1, DetectKeeps
<1>2. ASSUME NEW s \in Scans, ScanStart(s) \/ ScanFile(s) \/ Scanning(s) PROVE IInv'
  BY <1>2, WalkingKeeps, ApplyNextKeeps DEF Scanning
<1>3. ASSUME NEW r \in Reporters, Reporting(r) \/ Add(r) PROVE IInv'
  BY <1>3, LookKeeps, WhitelistedKeeps, SuppressedKeeps, MarkKeeps,
     ExcludedKeeps, EnforceKeeps, AddKeeps
     DEF Reporting
<1>4. ASSUME NEW u \in Users, Asking(u) \/ Restoring(u) PROVE IInv'
  BY <1>4, AllowKeeps, SettingsKeeps, MessageKeeps, RestoreEnterKeeps,
     HookKeeps, ReadConfigKeeps, InstallKeeps, RestoreWriteKeeps
     DEF Asking, Restoring
<1>5. ASSUME NEW p \in Paths, FileAppears(p) \/ FileGoes(p) PROVE IInv'
  BY <1>5, OutsideKeeps
<1>6. CASE WindowPasses
  BY <1>6, WindowKeeps
<1>7. CASE UNCHANGED vars
  BY <1>7, StutterKeeps
<1>. QED
  BY <1>1, <1>2, <1>3, <1>4, <1>5, <1>6, <1>7 DEF Next

(* The inductive invariant holds in every state of every behaviour. *)
THEOREM Invariance == Spec => []IInv
<1>. QED
  BY InitInv, NextInv, PTL DEF Spec

(* Type correctness. *)
THEOREM TypeCorrect == Spec => []TypeOK
<1>1. IInv => TypeOK
  BY DEF IInv
<1>. QED
  BY Invariance, <1>1, PTL

(* With one handler at a time, no verdict whose checks began after the     *)
(* user had vouched for a file takes it: see LateVerdictSpares.            *)
THEOREM LateVerdictsSpare == ASSUME SoleUser PROVE Spec => LateVerdictSpares
<1>1. IInv => (faults = 0 => \A r \in warned : ~Takes(r))
  BY DEF IInv, WarnInv, Takes, Sound
<1>2. IInv /\ [Next]_vars => [faults = 0 => \A r \in warned : ~Takes(r)]_vars
  BY <1>1
<1>. QED
  BY Invariance, <1>2, PTL DEF Spec, LateVerdictSpares

-----------------------------------------------------------------------------
(* The lists as module Preferences promises them *)

(* What ApplyConfig has read is still the configuration when it comes to   *)
(* install it, failed writes or not.                                       *)
SeenInv == SoleUser => \A u \in Users : pc[u] = "locking" => seen[u] = cfg

Due == \E u \in Users : pc[u] \in {"install", "locking"}

(* Nobody but a handler changes the configuration or the lists. *)
LEMMA ElsewhereQuiet ==
    ASSUME IInv,
           \/ \E m \in Monitors : Detect(m)
           \/ \E s \in Scans : ScanStart(s) \/ ScanFile(s) \/ Scanning(s)
           \/ \E r \in Reporters : Reporting(r) \/ Add(r)
           \/ \E p \in Paths : FileAppears(p) \/ FileGoes(p)
           \/ WindowPasses \/ UNCHANGED vars
    PROVE  UNCHANGED <<config, faults>> /\ \A u \in Users : pc'[u] = pc[u]
<1>1. ASSUME NEW r \in Reporters, NEW step, pc' = [pc EXCEPT ![r] = step]
      PROVE  \A u \in Users : pc'[u] = pc[u]
  BY <1>1 DEF IInv, TypeOK
<1>2. ASSUME NEW m \in Monitors, Detect(m) PROVE UNCHANGED <<config, faults>>
                                                /\ \A u \in Users : pc'[u] = pc[u]
  BY <1>1, <1>2 DEF Detect, Verdict, Reporters
<1>3. ASSUME NEW s \in Scans, ScanStart(s) \/ ScanFile(s) \/ Scanning(s)
      PROVE  UNCHANGED <<config, faults>> /\ \A u \in Users : pc'[u] = pc[u]
  BY <1>1, <1>3 DEF ScanStart, ScanFile, Scanning, ScanApply, ApplyNext, ScanEnd, Verdict, Reporters
<1>4. ASSUME NEW r \in Reporters, Reporting(r) \/ Add(r)
      PROVE  UNCHANGED <<config, faults>> /\ \A u \in Users : pc'[u] = pc[u]
  <2>1. UNCHANGED <<config, faults>>
    BY <1>4 DEF Reporting, Look, Lock, Whitelisted, Suppressed, Mark, Excluded, Enforce, Add
  <2>2. \E step : pc' = [pc EXCEPT ![r] = step]
    BY <1>4 DEF Reporting, Look, Lock, Whitelisted, Suppressed, Mark, Excluded, Enforce, Add,
       Relock, Done
  <2>. QED
    BY <1>1, <2>1, <2>2
<1>. QED
  BY <1>2, <1>3, <1>4 DEF FileAppears, FileGoes, WindowPasses

(* What a handler's step is to the configuration: a message that does not  *)
(* touch it, a change of it, a step of ApplyConfig, or the end.            *)
LEMMA HandlerSteps ==
    ASSUME IInv, NEW u \in Users, Asking(u) \/ Restoring(u)
    PROVE  \/ /\ UNCHANGED <<config, faults>>
              /\ pc[u] \notin {"install", "locking"}
              /\ pc' = pc \/ \E step \in {"hook", "idle", "relock"} : pc' = [pc EXCEPT ![u] = step]
           \/ /\ pc[u] \in {"idle", "hook"} /\ UNCHANGED <<engine, seen>>
              /\ \E new \in Lists, next \in {"install", "write"} :
                    Update(u, new, next) /\ (next = "write" => new = cfg)
           \/ ReadConfig(u) \/ Install(u)
<1>1. ASSUME Quarantine(u) \/ Delete(u) \/ RestoreAlready(u) \/ RestoreEnter(u) \/ RestoreWrite(u)
      PROVE  /\ UNCHANGED <<config, faults>>
             /\ pc[u] \notin {"install", "locking"}
             /\ pc' = pc \/ \E step \in {"hook", "idle", "relock"} : pc' = [pc EXCEPT ![u] = step]
  BY <1>1 DEF Quarantine, Relock, Delete, RestoreAlready, RestoreEnter, RestoreWrite, Asks
<1>2. ASSUME Allow(u) \/ Settings(u)
      PROVE  /\ pc[u] = "idle" /\ UNCHANGED <<engine, seen>>
             /\ \E new \in Lists : Update(u, new, "install")
  <2>1. \A p \in Paths : /\ [cfg EXCEPT !.allowed = @ \cup {p}] \in Lists
                         /\ [cfg EXCEPT !.excl = @ \ {p}] \in Lists
                         /\ [cfg EXCEPT !.allowed = @ \ {p}] \in Lists
    BY DEF IInv, TypeOK, Lists
  <2>2. cfg.excl \cup cfg.allowed \subseteq Paths
    BY DEF IInv, TypeOK, Lists
  <2>. QED
    BY <1>2, <2>1, <2>2 DEF Allow, Settings, Asks
<1>3. ASSUME Hook(u)
      PROVE  /\ pc[u] = "hook" /\ UNCHANGED <<engine, seen>>
             /\ \E new \in Lists, next \in {"install", "write"} :
                   Update(u, new, next) /\ (next = "write" => new = cfg)
  <2>. DEFINE excl == cfg.excl \cup {job[u].entry.path, job[u].target}
              new == [cfg EXCEPT !.excl = excl]
              next == IF excl = cfg.excl THEN "write" ELSE "install"
  <2>1. job[u] \in Job /\ job[u].op = "restore"
    BY <1>3 DEF Hook, IInv, TypeOK, JobInv
  <2>2. excl \subseteq Paths
    BY <2>1 DEF Job, Entry, IInv, TypeOK, Lists
  <2>3. new \in Lists /\ (next = "write" => new = cfg) /\ next \in {"install", "write"}
    BY <2>2 DEF IInv, TypeOK, Lists
  <2>4. Update(u, new, next)
    BY <1>3 DEF Hook
  <2>. QED
    BY <1>3, <2>3, <2>4 DEF Hook
<1>. QED
  BY <1>1, <1>2, <1>3 DEF Asking, Restoring

LEMMA SeenKeeps == ASSUME SoleUser, IInv, SeenInv, [Next]_vars PROVE SeenInv'
<1>1. ASSUME NEW u \in Users, Asking(u) \/ Restoring(u) PROVE SeenInv'
  <2>1. \A v \in Users : v = u
    BY DEF SoleUser
  <2>2. CASE ReadConfig(u)
    BY <2>1, <2>2 DEF ReadConfig, SeenInv, IInv, TypeOK
  <2>3. CASE Install(u)
    BY <2>1, <2>3 DEF Install, SeenInv, IInv, TypeOK
  <2>4. CASE /\ UNCHANGED <<config, faults>>
             /\ pc[u] \notin {"install", "locking"}
             /\ pc' = pc \/ \E step \in {"hook", "idle", "relock"} : pc' = [pc EXCEPT ![u] = step]
    BY <2>1, <2>4 DEF SeenInv, IInv, TypeOK
  <2>5. ASSUME NEW new \in Lists, NEW next \in {"install", "write"}, Update(u, new, next)
        PROVE  SeenInv'
    BY <2>1, <2>5 DEF Update, SeenInv, IInv, TypeOK
  <2>. QED
    BY <1>1, <2>2, <2>3, <2>4, <2>5, HandlerSteps
<1>2. ASSUME UNCHANGED <<config, faults>>, \A u \in Users : pc'[u] = pc[u] PROVE SeenInv'
  BY <1>2 DEF SeenInv
<1>. QED
  BY <1>1, <1>2, ElsewhereQuiet DEF Next

(* A change of the configuration finds the last one installed. *)
LEMMA UpdateImplements ==
    ASSUME SoleUser, IInv, NEW u \in Users, pc[u] \in {"idle", "hook"},
           NEW new \in Lists, NEW next \in {"install", "write"},
           Update(u, new, next), next = "write" => new = cfg, UNCHANGED engine
    PROVE  P!Next
<1>1. \A v \in Users : v = u
  BY DEF SoleUser
<1>2. cfg' = new /\ (Due <=> FALSE)
  BY <1>1 DEF Update, Due
<1>3. CASE pc' = [pc EXCEPT ![u] = next] /\ faults' = faults
  <2>1. Due' \/ new = cfg
    BY <1>1, <1>3 DEF IInv, TypeOK, Due
  <2>. QED
    BY <1>2, <1>3, <2>1 DEF P!Next, P!Change, Same, Due
<1>4. CASE faults' = faults + 1
  BY <1>2, <1>4 DEF P!Next, P!Change, Due
<1>. QED
  BY <1>3, <1>4 DEF Update

LEMMA InstallImplements ==
    ASSUME SoleUser, IInv, SeenInv, NEW u \in Users, Install(u) PROVE P!Next
<1>1. \A v \in Users : v = u
  BY DEF SoleUser
<1>2. Due /\ ~Due'
  BY <1>1 DEF Install, IInv, TypeOK, Due
<1>3. /\ engine' = cfg /\ cfg \in Lists /\ UNCHANGED <<cfg, faults>>
  BY DEF Install, SeenInv, IInv, TypeOK
<1>. QED
  BY <1>2, <1>3 DEF P!Next, P!Adopt, Same, Due

LEMMA PromiseStep ==
    ASSUME SoleUser, IInv, SeenInv, [Next]_vars PROVE [P!Next]_P!vars
<1>1. ASSUME UNCHANGED <<cfg, engine, faults>>, Due' = Due PROVE UNCHANGED P!vars
  BY <1>1 DEF P!vars, Due
<1>2. ASSUME NEW u \in Users, Asking(u) \/ Restoring(u) PROVE [P!Next]_P!vars
  <2>1. \A v \in Users : v = u
    BY DEF SoleUser
  <2>2. CASE ReadConfig(u)
    BY <1>1, <2>1, <2>2 DEF ReadConfig, IInv, TypeOK, Due
  <2>3. CASE /\ UNCHANGED <<config, faults>>
             /\ pc[u] \notin {"install", "locking"}
             /\ pc' = pc \/ \E step \in {"hook", "idle", "relock"} : pc' = [pc EXCEPT ![u] = step]
    BY <1>1, <2>1, <2>3 DEF IInv, TypeOK, Due
  <2>. QED
    BY <1>2, <2>2, <2>3, HandlerSteps, UpdateImplements, InstallImplements
<1>3. ASSUME UNCHANGED <<config, faults>>, \A u \in Users : pc'[u] = pc[u]
      PROVE  UNCHANGED P!vars
  BY <1>1, <1>3 DEF Due
<1>. QED
  BY <1>2, <1>3, ElsewhereQuiet DEF Next

(* The engine decides by the user's lists as module Preferences promises:  *)
(* whatever is reported, restored and allowed, and whatever fails to be    *)
(* saved, what is installed is what the configuration says at that moment. *)
THEOREM ListsAreAsPromised ==
    ASSUME SoleUser PROVE Spec => ImplementsPreferences
<1>1. Init => P!Init /\ SeenInv
  BY DEF Init, P!Init, SeenInv, Lists, Same
<1>2. IInv /\ SeenInv /\ [Next]_vars => SeenInv' /\ [P!Next]_P!vars
  BY SeenKeeps, PromiseStep, SoleUser
<1>. QED
  BY <1>1, <1>2, Invariance, PTL DEF Spec, ImplementsPreferences, P!Spec

-----------------------------------------------------------------------------
(* The two locks *)

(* Who reads the lists is between Lock and its end, and Store.mu belongs   *)
(* to the handler whose restore is under way or to a Store.Add that has    *)
(* called itself.                                                          *)
Lockers(p) == pc[p] = "relock" \/ (p \in Users /\ job[p] # None /\ job[p].op = "restore")

LockInv ==
    /\ \A r \in reading : pc[r] \in {"whiteRead", "exclRead"}
    /\ \A p \in Reporters \cup Users : holder = p <=> Lockers(p)

(* A reporter takes Engine.mu before it looks and has released it after.   *)
LEMMA ReporterLocks ==
    ASSUME IInv, LockInv, NEW r \in Reporters, NEW step \in ReporterStep \ {"relock"},
           pc[r] # "relock", pc' = [pc EXCEPT ![r] = step], UNCHANGED <<holder, job>>,
           \/ reading' = reading /\ r \notin reading
           \/ reading' = reading \ {r}
           \/ reading' = reading \cup {r} /\ step \in {"whiteRead", "exclRead"}
    PROVE  LockInv'
  BY DEF IInv, TypeOK, LockInv, Lockers

(* A Store.Add that calls itself keeps the lock. *)
LEMMA RelockLocks ==
    ASSUME IInv, LockInv, NEW c \in Reporters \cup Users, pc[c] \in {"add", "idle"},
           holder = None, holder' = c, pc' = [pc EXCEPT ![c] = "relock"],
           UNCHANGED <<job, reading>>
    PROVE  LockInv'
<1>1. \A r \in reading : r # c
  BY DEF LockInv
<1>2. \A p \in Reporters \cup Users : ~Lockers(p)
  BY DEF IInv, TypeOK, LockInv
<1>. QED
  BY <1>1, <1>2 DEF IInv, TypeOK, LockInv, Lockers

LEMMA ReportLocks ==
    ASSUME IInv, LockInv, NEW r \in Reporters, Reporting(r) \/ Add(r) PROVE LockInv'
<1>1. CASE Look(r)
  <2>1. PICK to \in {"whiteRead", "exclRead"} :
           pc' = [pc EXCEPT ![r] = to] /\ reading' = reading \cup {r}
    BY <1>1 DEF Look, Lock
  <2>. QED
    BY <1>1, <2>1, ReporterLocks DEF Look, Lock, ReporterStep
<1>2. CASE Whitelisted(r) \/ Excluded(r)
  <2>1. PICK step \in ReporterStep \ {"relock"} : pc' = [pc EXCEPT ![r] = step]
    BY <1>2 DEF Whitelisted, Excluded, Done, ReporterStep
  <2>. QED
    BY <1>2, <2>1, ReporterLocks DEF Whitelisted, Excluded
<1>3. CASE Suppressed(r) \/ Mark(r) \/ Enforce(r)
  <2>1. PICK step \in ReporterStep \ {"relock"} : pc' = [pc EXCEPT ![r] = step]
    BY <1>3 DEF Suppressed, Mark, Enforce, Done, ReporterStep
  <2>2. r \notin reading
    BY <1>3 DEF Suppressed, Mark, Enforce, LockInv
  <2>. QED
    BY <1>3, <2>1, <2>2, ReporterLocks DEF Suppressed, Mark, Enforce
<1>4. CASE Add(r)
  <2>1. pc[r] = "add" /\ r \notin reading /\ UNCHANGED <<job, reading>> /\ holder = None
    BY <1>4 DEF Add, LockInv
  <2>2. CASE Take(path[r]) /\ Done(r) /\ UNCHANGED holder
    <3>1. PICK step \in ReporterStep \ {"relock"} : pc' = [pc EXCEPT ![r] = step]
      BY <2>2 DEF Done, ReporterStep
    <3>. QED
      BY <2>1, <2>2, <3>1, ReporterLocks
  <2>3. CASE Relock(r, path[r])
    BY <2>1, <2>3, RelockLocks DEF Relock
  <2>. QED
    BY <1>4, <2>2, <2>3 DEF Add
<1>. QED
  BY <1>1, <1>2, <1>3, <1>4 DEF Reporting

(* Before a verdict a reporter holds nothing. *)
LEMMA BetweenLocks ==
    ASSUME IInv, LockInv,
           \/ \E m \in Monitors : Detect(m)
           \/ \E s \in Scans : ScanStart(s) \/ ScanFile(s) \/ Scanning(s)
    PROVE  LockInv'
<1>1. ASSUME NEW m \in Monitors, Detect(m) PROVE LockInv'
  <2>1. m \in Reporters /\ m \notin reading /\ "white" \in ReporterStep \ {"relock"}
    BY <1>1 DEF Detect, LockInv, Reporters, ReporterStep
  <2>. QED
    BY <1>1, <2>1, ReporterLocks DEF Detect, Verdict
<1>2. ASSUME NEW s \in Scans, ScanFile(s) PROVE LockInv'
  BY <1>2 DEF ScanFile, LockInv, Lockers
<1>3. ASSUME NEW s \in Scans, ScanStart(s) \/ Scanning(s) PROVE LockInv'
  <2>1. s \in Reporters /\ s \notin reading /\ pc[s] # "relock"
    BY <1>3 DEF ScanStart, Scanning, ScanApply, ApplyNext, ScanEnd, LockInv, Reporters
  <2>2. PICK step \in ReporterStep \ {"relock"} : pc' = [pc EXCEPT ![s] = step]
    BY <1>3 DEF ScanStart, Scanning, ScanApply, ApplyNext, ScanEnd, Verdict, ReporterStep
  <2>. QED
    BY <1>3, <2>1, <2>2, ReporterLocks
       DEF ScanStart, Scanning, ScanApply, ApplyNext, ScanEnd, Verdict
<1>. QED
  BY <1>1, <1>2, <1>3

(* A handler's step moves no reader, and only a restore, or a Store.Add    *)
(* that calls itself, keeps Store.mu.                                      *)
LEMMA HandlerLocks ==
    ASSUME IInv, LockInv, NEW u \in Users, Asking(u) \/ Restoring(u) PROVE LockInv'
<1>0. u \notin Reporters
  OBVIOUS
<1>1. pc[u] # "relock"
  BY DEF Asking, Restoring, Allow, Settings, Quarantine, Delete, RestoreAlready,
     RestoreEnter, Hook, ReadConfig, Install, RestoreWrite, Asks
<1>2. CASE \E p \in present : Quarantine(u) /\ Relock(u, p)
  BY <1>2, RelockLocks DEF Quarantine, Relock, Asks
<1>3. ASSUME \A p \in Reporters \cup Users : p # u => pc'[p] = pc[p],
             \A v \in Users : v # u => job'[v] = job[v],
             pc'[u] # "relock", reading' = reading,
             LET restores == job[u] # None /\ job[u].op = "restore"
             IN  \/ holder' = holder /\ (restores' <=> restores)
                 \/ holder = None /\ holder' = u /\ restores'
                 \/ holder = u /\ holder' = None /\ ~restores'
      PROVE  LockInv'
  <2>1. \A r \in reading : pc'[r] = pc[r]
    BY <1>0, <1>3 DEF IInv, TypeOK
  <2>2. \A p \in Reporters \cup Users : p # u => (Lockers(p)' <=> Lockers(p))
    BY <1>3 DEF Lockers
  <2>3. Lockers(u)' <=> (job[u] # None /\ job[u].op = "restore")'
    BY <1>3 DEF Lockers
  <2>4. Lockers(u) <=> job[u] # None /\ job[u].op = "restore"
    BY <1>1 DEF Lockers
  <2>5. \A p \in Reporters \cup Users : p # None
    OBVIOUS
  <2>. QED
    BY <1>3, <2>1, <2>2, <2>3, <2>4, <2>5 DEF LockInv
<1>4. CASE (Quarantine(u) /\ UNCHANGED <<holder, pc>>) \/ Delete(u) \/ RestoreAlready(u)
  <2>1. UNCHANGED <<job, holder, pc, reading>>
    BY <1>4 DEF Quarantine, Delete, RestoreAlready
  <2>. QED
    BY <1>1, <1>3, <2>1
<1>5. CASE Hook(u) \/ ReadConfig(u)
  <2>1. UNCHANGED <<job, holder, reading>>
    BY <1>5 DEF Hook, ReadConfig
  <2>2. PICK step \in {"idle", "install", "locking", "write"} : pc' = [pc EXCEPT ![u] = step]
    BY <1>5 DEF Hook, ReadConfig, Update
  <2>3. pc'[u] # "relock" /\ \A p \in Reporters \cup Users : p # u => pc'[p] = pc[p]
    BY <2>2 DEF IInv, TypeOK
  <2>. QED
    BY <1>3, <2>1, <2>3
<1>6. CASE Allow(u) \/ Settings(u)
  <2>1. UNCHANGED <<holder, reading>> /\ job[u] = None
    BY <1>6 DEF Allow, Settings, Asks, IInv, JobInv
  <2>2. cfg.excl \cup cfg.allowed \subseteq Paths
    BY DEF IInv, TypeOK, Lists
  <2>3. PICK op \in {"allow", "settings"}, t \in Paths :
           job' = [job EXCEPT ![u] = IF pc'[u] = "idle" THEN None
                                     ELSE [op |-> op, target |-> t]]
    BY <1>6, <2>2 DEF Allow, Settings
  <2>4. /\ ~(job'[u] # None /\ job'[u].op = "restore")
        /\ \A v \in Users : v # u => job'[v] = job[v]
    BY <2>3 DEF IInv, TypeOK
  <2>5. PICK step \in {"idle", "install"} : pc' = [pc EXCEPT ![u] = step]
    BY <1>6, <2>1 DEF Allow, Settings, Update
  <2>6. pc'[u] # "relock" /\ \A p \in Reporters \cup Users : p # u => pc'[p] = pc[p]
    BY <2>5 DEF IInv, TypeOK
  <2>. QED
    BY <1>3, <2>1, <2>4, <2>6
<1>7. CASE RestoreEnter(u)
  <2>1. PICK j : j.op = "restore" /\ j \in Job /\ job' = [job EXCEPT ![u] = j]
    BY <1>7 DEF RestoreEnter, IInv, TypeOK, Job
  <2>2. /\ job'[u] # None /\ job'[u].op = "restore"
        /\ \A v \in Users : v # u => job'[v] = job[v]
    BY <2>1 DEF IInv, TypeOK
  <2>3. holder = None /\ holder' = u /\ reading' = reading
    BY <1>7 DEF RestoreEnter
  <2>4. pc'[u] # "relock" /\ \A p \in Reporters \cup Users : p # u => pc'[p] = pc[p]
    BY <1>7 DEF RestoreEnter, IInv, TypeOK
  <2>. QED
    BY <1>3, <2>2, <2>3, <2>4
<1>8. CASE Install(u)
  <2>1. UNCHANGED <<holder, reading>>
    BY <1>8 DEF Install
  <2>2. pc'[u] # "relock" /\ \A p \in Reporters \cup Users : p # u => pc'[p] = pc[p]
    BY <1>8 DEF Install, IInv, TypeOK
  <2>3. \/ job' = job
        \/ job[u].op # "restore" /\ job' = [job EXCEPT ![u] = None]
    BY <1>8 DEF Install
  <2>4. /\ \A v \in Users : v # u => job'[v] = job[v]
        /\ (job'[u] # None /\ job'[u].op = "restore")
               <=> (job[u] # None /\ job[u].op = "restore")
    BY <2>3 DEF IInv, TypeOK
  <2>. QED
    BY <1>3, <2>1, <2>2, <2>4
<1>9. CASE RestoreWrite(u)
  <2>1. holder = u
    BY <1>9 DEF RestoreWrite, LockInv, Lockers, IInv, JobInv
  <2>2. holder' = None /\ job' = [job EXCEPT ![u] = None] /\ reading' = reading
    BY <1>9 DEF RestoreWrite
  <2>3. pc'[u] # "relock" /\ \A p \in Reporters \cup Users : p # u => pc'[p] = pc[p]
    BY <1>9 DEF RestoreWrite, IInv, TypeOK
  <2>4. job'[u] = None /\ \A v \in Users : v # u => job'[v] = job[v]
    BY <2>2 DEF IInv, TypeOK
  <2>. QED
    BY <1>3, <2>1, <2>2, <2>3, <2>4
<1>. QED
  BY <1>2, <1>4, <1>5, <1>6, <1>7, <1>8, <1>9 DEF Asking, Restoring, Quarantine

LEMMA NextLocks == ASSUME IInv, LockInv, [Next]_vars PROVE LockInv'
<1>1. ASSUME \/ \E p \in Paths : FileAppears(p) \/ FileGoes(p)
             \/ WindowPasses \/ UNCHANGED vars
      PROVE  LockInv'
  BY <1>1 DEF FileAppears, FileGoes, WindowPasses, LockInv, Lockers
<1>. QED
  BY <1>1, ReportLocks, BetweenLocks, HandlerLocks DEF Next

(* A writer that waits is let in by a reader that works; a restore that    *)
(* does not wait for the writer works; only a verdict that waits for the   *)
(* store meets a Store.Add that has called itself.                         *)
LEMMA LocksAreReleased == ASSUME IInv, LockInv PROVE NoDeadlock
<1>. SUFFICES ASSUME NEW p \in Reporters \cup Users, Waits(p),
                     ~(pc[p] = "add" /\ Lost(holder))
              PROVE  \E q \in Reporters \cup Users :
                        Holds(q) /\ pc[q] # "idle" /\ ~Waits(q) /\ ~Lost(q)
  BY DEF NoDeadlock
<1>1. CASE reading # {}
  <2>1. PICK r \in reading : pc[r] \in {"whiteRead", "exclRead"}
    BY <1>1 DEF LockInv
  <2>2. r \in Reporters /\ Holds(r) /\ ~Waits(r) /\ ~Lost(r)
    BY <2>1 DEF Holds, Waits, Lost, IInv, TypeOK
  <2>. QED
    BY <2>1, <2>2
<1>2. CASE reading = {} /\ \E u \in Users : pc[u] = "locking"
  BY <1>2 DEF Holds, Waits, Lost
<1>3. CASE reading = {} /\ \A u \in Users : pc[u] # "locking"
  <2>1. pc[p] = "add" /\ holder # None /\ ~Lost(holder)
    BY <1>3 DEF Waits
  <2>2. holder \in Reporters \cup Users
    BY <2>1 DEF IInv, TypeOK
  <2>3. holder \in Users /\ job[holder] # None
    BY <2>1, <2>2 DEF LockInv, Lockers, Lost
  <2>4. pc[holder] \in {"hook", "install", "write"}
    BY <1>3, <2>3 DEF IInv, JobInv
  <2>. QED
    BY <2>2, <2>4 DEF Holds, Waits, Lost
<1>. QED
  BY <1>1, <1>2, <1>3

(* For any number of clients, monitors and scans: whoever waits for one of *)
(* the two locks, somebody who holds one can go on, unless it is Store.mu  *)
(* in the hands of a Store.Add that has called itself; that one keeps      *)
(* nobody from Engine.mu.                                                  *)
THEOREM LocksNeverDeadlock == Spec => []NoDeadlock
<1>1. Init => LockInv
  BY DEF Init, LockInv, Lockers
<1>2. IInv /\ LockInv /\ [Next]_vars => LockInv'
  BY NextLocks
<1>3. IInv /\ LockInv => NoDeadlock
  BY LocksAreReleased
<1>. QED
  BY <1>1, <1>2, <1>3, Invariance, PTL DEF Spec
=============================================================================

-------------------------------- MODULE Engine --------------------------------
(* How verdicts and the user's decisions meet in the detection engine      *)
(* (internal/detector, with the restore hook of internal/service).         *)
(*                                                                         *)
(* Monitors report verdicts one by one; a scan collects verdicts first and *)
(* applies them at its end.  Both check the engine's lists under Engine.mu *)
(* and then call the quarantine store, whose lock a restore holds while    *)
(* its hook changes the configuration and installs it under Engine.mu.     *)
(* The store is reduced here to the entries a restore may ask for; module  *)
(* Quarantine has the rest of it.                                          *)
EXTENDS Naturals, FiniteSets

CONSTANTS
    Monitors,    \* goroutines that call Report
    Scans,       \* goroutines of runScan
    Users,       \* goroutines that handle the messages of a client
    Paths,       \* names of files
    Side,        \* the side-by-side name of a path, or None
    None,
    Policies,    \* the policies a kind of threat may be given
    MaxEntries,  \* bound on the entries the store makes
    MaxAsks,     \* bound on the user's messages
    MaxFaults    \* bound on failed writes of config.json

Reporters == Monitors \cup Scans
Entry     == [id : 1..MaxEntries, path : Paths, bytes : BOOLEAN]
Lists     == [excl : SUBSET Paths, allowed : SUBSET Paths]
Job       == [op : {"restore"}, entry : Entry, target : Paths]
                 \cup [op : {"allow", "settings"}, target : Paths]

ASSUME EngineAssumption ==
    /\ Monitors \cap Scans = {} /\ Reporters \cap Users = {}
    /\ None \notin Paths \cup Job \cup Users \cup Reporters
    /\ Side \in [Paths -> Paths \cup {None}]
    /\ MaxEntries \in Nat /\ MaxAsks \in Nat /\ MaxFaults \in Nat

VARIABLES
    present,   \* the files that exist
    vault,     \* Store.index
    fresh,     \* entries made within the minute of recentByPath
    made,      \* entries made so far
    cfg,       \* the exclusions and the whitelist of config.Store
    engine,    \* Engine.exclPaths and Engine.wlNames
    recent,    \* Engine.recent: paths reported within dedupeWindow
    reading,   \* who holds Engine.mu for reading
    holder,    \* who holds Store.mu from one step to the next, or None
    pc,        \* where each goroutine is
    path,      \* the path of the verdict a reporter works on
    found,     \* res.Verdicts of a scan
    skips,     \* OnDemandScanner.Exclusions
    job,       \* what a handler is doing
    seen,      \* ApplyConfig's c, between its read and its lock
    asks, faults,
    vouched,   \* history: paths the user has allowed, or got back by a write
    warned     \* history: reporters that began to check a vouched path

config  == <<cfg, engine, seen>>
store   == <<present, vault, fresh, made, holder>>
scanner == <<found, skips>>
bounds  == <<asks, faults>>
history == <<vouched, warned>>
vars    == <<store, config, recent, reading, pc, path, scanner, job, bounds, history>>

TypeOK ==
    /\ present \subseteq Paths
    /\ vault \subseteq Entry /\ fresh \subseteq 1..MaxEntries /\ made \in 0..MaxEntries
    /\ cfg \in Lists /\ engine \in Lists
    /\ recent \subseteq Paths
    /\ reading \subseteq Reporters
    /\ holder \in Reporters \cup Users \cup {None}
    /\ pc \in [Reporters \cup Users ->
                 {"idle", "walk", "apply", "white", "whiteRead", "dedupe", "mark", "excl",
                  "exclRead", "enforce", "add", "relock", "hook", "install", "locking", "write"}]
    /\ path \in [Reporters -> Paths \cup {None}]
    /\ found \in [Scans -> SUBSET Paths]
    /\ skips \in [Scans -> SUBSET Paths]
    /\ job \in [Users -> Job \cup {None}]
    /\ seen \in [Users -> Lists \cup {None}]
    /\ asks \in Nat /\ faults \in Nat
    /\ vouched \subseteq Paths /\ warned \subseteq Reporters

(* Nothing is quarantined and nothing is excluded; files may be there. *)
Init ==
    /\ present \in SUBSET Paths
    /\ vault = {} /\ fresh = {} /\ made = 0 /\ holder = None
    /\ cfg = [excl |-> {}, allowed |-> {}] /\ engine = cfg
    /\ recent = {} /\ reading = {}
    /\ pc = [p \in Reporters \cup Users |-> "idle"]
    /\ path = [r \in Reporters |-> None]
    /\ found = [s \in Scans |-> {}]
    /\ skips = [s \in Scans |-> {}]
    /\ job = [u \in Users |-> None]
    /\ seen = [u \in Users |-> None]
    /\ asks = 0 /\ faults = 0
    /\ vouched = {} /\ warned = {}

Goto(p, step) == pc' = [pc EXCEPT ![p] = step]

-----------------------------------------------------------------------------
(* Verdicts *)

Verdict(r, p) ==
    /\ Goto(r, "white")
    /\ path' = [path EXCEPT ![r] = p]
    /\ warned' = IF p \in vouched THEN warned \cup {r} ELSE warned

(* Process: a detector has found something in a file; Report begins. *)
Detect(m) ==
    /\ pc[m] = "idle"
    /\ \E p \in present : Verdict(m, p)
    /\ UNCHANGED <<store, config, recent, reading, scanner, job, bounds, vouched>>

(* runScan copies the exclusions; the walk skips them. *)
ScanStart(s) ==
    /\ pc[s] = "idle"
    /\ skips' = [skips EXCEPT ![s] = cfg.excl]
    /\ Goto(s, "walk")
    /\ UNCHANGED <<store, config, recent, reading, path, found, job, bounds, history>>

ScanFile(s) ==
    /\ pc[s] = "walk"
    /\ \E p \in present \ skips[s] : found' = [found EXCEPT ![s] = @ \cup {p}]
    /\ UNCHANGED <<store, config, recent, reading, pc, path, skips, job, bounds,
                   history>>

(* The walk is done, or cancelled; what was found is applied all the same. *)
ScanApply(s) ==
    /\ pc[s] = "walk"
    /\ Goto(s, "apply")
    /\ UNCHANGED <<store, config, recent, reading, path, scanner, job, bounds, history>>

ApplyNext(s) ==
    /\ pc[s] = "apply"
    /\ \E p \in found[s] :
          /\ found' = [found EXCEPT ![s] = @ \ {p}]
          /\ Verdict(s, p)
    /\ UNCHANGED <<store, config, recent, reading, skips, job, bounds, vouched>>

ScanEnd(s) ==
    /\ pc[s] = "apply" /\ found[s] = {}
    /\ Goto(s, "idle")
    /\ UNCHANGED <<store, config, recent, reading, path, scanner, job, bounds, history>>

(* The verdict has been dealt with; the sinks are told. *)
Done(r) ==
    /\ Goto(r, IF r \in Scans THEN "apply" ELSE "idle")
    /\ path' = [path EXCEPT ![r] = None]
    /\ warned' = warned \ {r}

(* whitelisted and excluded look at the lists under Engine.mu; a writer    *)
(* that waits for it keeps new readers out.                                *)
Lock(r, from, to) ==
    /\ pc[r] = from
    /\ \A u \in Users : pc[u] # "locking"
    /\ reading' = reading \cup {r}
    /\ Goto(r, to)
    /\ UNCHANGED <<store, config, recent, path, scanner, job, bounds, history>>

Look(r) == Lock(r, "white", "whiteRead") \/ Lock(r, "excl", "exclRead")

Whitelisted(r) ==
    /\ pc[r] = "whiteRead"
    /\ reading' = reading \ {r}
    /\ \/ path[r] \in engine.allowed /\ Done(r)
       \/ /\ path[r] \notin engine.allowed
          /\ Goto(r, IF r \in Scans THEN "excl" ELSE "dedupe")
          /\ UNCHANGED <<path, warned>>
    /\ UNCHANGED <<store, config, recent, scanner, job, bounds, vouched>>

(* suppressed: the time of the last report is loaded, then stored. *)
Suppressed(r) ==
    /\ pc[r] = "dedupe"
    /\ \/ path[r] \in recent /\ Done(r)
       \/ path[r] \notin recent /\ Goto(r, "mark") /\ UNCHANGED <<path, warned>>
    /\ UNCHANGED <<store, config, recent, reading, scanner, job, bounds, vouched>>

Mark(r) ==
    /\ pc[r] = "mark"
    /\ recent' = recent \cup {path[r]}
    /\ Goto(r, "excl")
    /\ UNCHANGED <<store, config, reading, path, scanner, job, bounds, history>>

(* Mutant of Excluded: the early return for an empty list keeps the lock.  *)
ExcludedKeepsLock(r) ==
    /\ pc[r] = "exclRead"
    /\ reading' = IF engine.excl = {} THEN reading ELSE reading \ {r}
    /\ \/ path[r] \in engine.excl /\ Done(r)
       \/ path[r] \notin engine.excl /\ Goto(r, "enforce") /\ UNCHANGED <<path, warned>>
    /\ UNCHANGED <<store, config, recent, scanner, job, bounds, vouched>>

Excluded(r) ==
    /\ pc[r] = "exclRead"
    /\ reading' = reading \ {r}
    /\ \/ path[r] \in engine.excl /\ Done(r)
       \/ path[r] \notin engine.excl /\ Goto(r, "enforce") /\ UNCHANGED <<path, warned>>
    /\ UNCHANGED <<store, config, recent, scanner, job, bounds, vouched>>

DecideAction(critical, policy) ==
    CASE policy = "auto_delete"     -> "delete"
      [] policy = "auto_quarantine" -> "quarantine"
      [] policy = "log_only"        -> "log"
      [] OTHER                      -> IF critical THEN "quarantine" ELSE "alert"

(* A file in a protected location is left in place whatever the action,    *)
(* and so is one that cannot be deleted.                                   *)
Enforce(r) ==
    /\ pc[r] = "enforce"
    /\ \E critical, protected \in BOOLEAN, policy \in Policies :
          LET action == DecideAction(critical, policy)
          IN  \/ /\ action = "quarantine" /\ ~protected
                 /\ Goto(r, "add")
                 /\ UNCHANGED <<present, path, warned>>
              \/ /\ action = "delete" /\ ~protected
                 /\ present' = present \ {path[r]}
                 /\ Done(r)
              \/ Done(r) /\ UNCHANGED present
    /\ UNCHANGED <<vault, fresh, made, holder, config, recent, reading, scanner, job,
                   bounds, vouched>>

Quarantined(p) == \E e \in vault : e.path = p /\ e.id \in fresh

(* What a Store.Add that returns has done: a path quarantined within the   *)
(* minute is left alone; a file that has gone gets an entry without bytes; *)
(* a file that cannot be removed stays; an error leaves no entry.          *)
Take(p) ==
    \/ Quarantined(p) /\ UNCHANGED <<present, vault, fresh, made>>
    \/ /\ made < MaxEntries /\ ~Quarantined(p)
       /\ made' = made + 1
       /\ vault' = vault \cup {[id |-> made', path |-> p, bytes |-> p \in present]}
       /\ fresh' = fresh \cup {made'}
       /\ present' = present \ {p} \/ UNCHANGED present
    \/ UNCHANGED <<present, vault, fresh, made>>

(* And one that never returns: the file has changed its size while it was  *)
(* captured, Add calls itself, and waits for the lock it holds.            *)
Relock(c, p) ==
    /\ p \in present /\ ~Quarantined(p)
    /\ holder' = c
    /\ Goto(c, "relock")
    /\ UNCHANGED <<present, vault, fresh, made>>

(* Store.Add, under Store.mu. *)
Add(r) ==
    /\ pc[r] = "add" /\ holder = None
    /\ \/ Take(path[r]) /\ Done(r) /\ UNCHANGED holder
       \/ Relock(r, path[r]) /\ UNCHANGED <<path, warned>>
    /\ UNCHANGED <<config, recent, reading, scanner, job, bounds, vouched>>

-----------------------------------------------------------------------------
(* The user's messages, and the restore hook *)

Asks(u) ==
    /\ pc[u] = "idle"
    /\ asks < MaxAsks
    /\ asks' = asks + 1

Update(u, new, next) ==
    /\ cfg' = new
    /\ \/ Goto(u, next) /\ UNCHANGED faults
       \/ /\ faults < MaxFaults
          /\ faults' = faults + 1
          /\ Goto(u, IF job[u] = None THEN "idle" ELSE "write")

(* verdictAction "allow" *)
Allow(u) ==
    /\ Asks(u)
    /\ \E p \in Paths :
          /\ Update(u, [cfg EXCEPT !.allowed = @ \cup {p}], "install")
          /\ job' = [job EXCEPT ![u] = IF pc'[u] = "idle" THEN None
                                       ELSE [op |-> "allow", target |-> p]]
    /\ UNCHANGED <<store, engine, seen, recent, reading, path, scanner, history>>

(* settings_set, with a path taken off one of the lists: the user no       *)
(* longer vouches for it.                                                  *)
Settings(u) ==
    /\ Asks(u)
    /\ \E p \in cfg.excl \cup cfg.allowed :
          /\ \E new \in {[cfg EXCEPT !.excl = @ \ {p}], [cfg EXCEPT !.allowed = @ \ {p}]} :
                Update(u, new, "install")
          /\ job' = [job EXCEPT ![u] = IF pc'[u] = "idle" THEN None
                                       ELSE [op |-> "settings", target |-> p]]
          /\ vouched' = vouched \ {p}
          /\ warned' = {r \in warned : path[r] # p}
    /\ UNCHANGED <<store, engine, seen, recent, reading, path, scanner>>

(* verdictAction "quarantine" *)
Quarantine(u) ==
    /\ Asks(u) /\ holder = None
    /\ \E p \in present : (Take(p) /\ UNCHANGED <<holder, pc>>) \/ Relock(u, p)
    /\ UNCHANGED <<config, recent, reading, path, scanner, job, faults, vouched, warned>>

(* Store.Delete, or a limit of the store. *)
Delete(u) ==
    /\ Asks(u) /\ holder = None
    /\ \E e \in vault : vault' = vault \ {e}
    /\ UNCHANGED <<present, fresh, made, holder, config, recent, reading, pc, path,
                   scanner, job, faults, history>>

(* Store.Restore, when the same bytes are already there: the hook is not   *)
(* called.                                                                 *)
RestoreAlready(u) ==
    /\ Asks(u) /\ holder = None
    /\ \E e \in vault :
          /\ e.bytes /\ e.path \in present
          /\ vault' = vault \ {e}
    /\ UNCHANGED <<present, fresh, made, holder, config, recent, reading, pc, path,
                   scanner, job, faults, vouched, warned>>

(* ... or else: a name is picked, with Store.mu held until the end. *)
RestoreEnter(u) ==
    /\ Asks(u) /\ holder = None
    /\ \E e \in vault, t \in Paths :
          /\ e.bytes /\ t \notin present
          /\ t = (IF e.path \in present THEN Side[e.path] ELSE e.path)
          /\ job' = [job EXCEPT ![u] = [op |-> "restore", entry |-> e, target |-> t]]
    /\ holder' = u
    /\ Goto(u, "hook")
    /\ UNCHANGED <<present, vault, fresh, made, config, recent, reading, path, scanner,
                   faults, history>>

(* Mutant of Hook: the configuration is changed and not applied. *)
HookUnapplied(u) ==
    /\ pc[u] = "hook"
    /\ LET excl == cfg.excl \cup {job[u].entry.path, job[u].target}
       IN  Update(u, [cfg EXCEPT !.excl = excl], "write")
    /\ UNCHANGED <<store, engine, seen, recent, reading, path, scanner, job, asks, history>>

(* OnBeforeRestoreWrite: excludePaths adds the original and the target; an *)
(* error is logged and the restore goes on.                                *)
Hook(u) ==
    /\ pc[u] = "hook"
    /\ LET excl == cfg.excl \cup {job[u].entry.path, job[u].target}
       IN  Update(u, [cfg EXCEPT !.excl = excl],
                  IF excl = cfg.excl THEN "write" ELSE "install")
    /\ UNCHANGED <<store, engine, seen, recent, reading, path, scanner, job, asks, history>>

(* ApplyConfig reads the configuration, then asks for Engine.mu ... *)
ReadConfig(u) ==
    /\ pc[u] = "install"
    /\ seen' = [seen EXCEPT ![u] = cfg]
    /\ Goto(u, "locking")
    /\ UNCHANGED <<store, cfg, engine, recent, reading, path, scanner, job, bounds, history>>

(* Mutant of Install: the lists are filled without being emptied first. *)
InstallAdds(u) ==
    /\ pc[u] = "locking" /\ reading = {}
    /\ engine' = [excl |-> engine.excl \cup seen[u].excl,
                  allowed |-> engine.allowed \cup seen[u].allowed]
    /\ seen' = [seen EXCEPT ![u] = None]
    /\ vouched' = IF job[u].op = "allow" THEN vouched \cup {job[u].target} ELSE vouched
    /\ \/ job[u].op = "restore" /\ Goto(u, "write") /\ UNCHANGED job
       \/ job[u].op # "restore" /\ Goto(u, "idle") /\ job' = [job EXCEPT ![u] = None]
    /\ UNCHANGED <<store, cfg, recent, reading, path, scanner, bounds, warned>>

(* ... and waits until nobody reads the lists. *)
Install(u) ==
    /\ pc[u] = "locking" /\ reading = {}
    /\ engine' = seen[u]
    /\ seen' = [seen EXCEPT ![u] = None]
    /\ vouched' = IF job[u].op = "allow" THEN vouched \cup {job[u].target} ELSE vouched
    /\ \/ job[u].op = "restore" /\ Goto(u, "write") /\ UNCHANGED job
       \/ job[u].op # "restore" /\ Goto(u, "idle") /\ job' = [job EXCEPT ![u] = None]
    /\ UNCHANGED <<store, cfg, recent, reading, path, scanner, bounds, warned>>

(* Mutant of RestoreWrite: an error returns with Store.mu held. *)
RestoreWriteKeepsLock(u) ==
    /\ pc[u] = "write"
    /\ \/ /\ job[u].target \notin present
          /\ present' = present \cup {job[u].target}
          /\ vault' = vault \ {job[u].entry}
          /\ vouched' = vouched \cup {job[u].target}
          /\ holder' = None
       \/ UNCHANGED <<present, vault, vouched, holder>>
    /\ Goto(u, "idle")
    /\ job' = [job EXCEPT ![u] = None]
    /\ UNCHANGED <<fresh, made, config, recent, reading, path, scanner, bounds, warned>>

(* The file is written and the entry forgotten, or an error is returned. *)
RestoreWrite(u) ==
    /\ pc[u] = "write"
    /\ \/ /\ job[u].target \notin present
          /\ present' = present \cup {job[u].target}
          /\ vault' = vault \ {job[u].entry}
          /\ vouched' = vouched \cup {job[u].target}
       \/ UNCHANGED <<present, vault, vouched>>
    /\ holder' = None
    /\ Goto(u, "idle")
    /\ job' = [job EXCEPT ![u] = None]
    /\ UNCHANGED <<fresh, made, config, recent, reading, path, scanner, bounds, warned>>

-----------------------------------------------------------------------------
(* Other programs, and time *)

FileAppears(p) ==
    /\ present' = present \cup {p}
    /\ UNCHANGED <<vault, fresh, made, holder, config, recent, reading, pc, path,
                   scanner, job, bounds, vouched, warned>>

FileGoes(p) ==
    /\ present' = present \ {p}
    /\ UNCHANGED <<vault, fresh, made, holder, config, recent, reading, pc, path,
                   scanner, job, bounds, vouched, warned>>

WindowPasses ==
    /\ \/ \E p \in recent : recent' = recent \ {p} /\ UNCHANGED fresh
       \/ \E id \in fresh : fresh' = fresh \ {id} /\ UNCHANGED recent
    /\ UNCHANGED <<present, vault, made, holder, config, reading, pc, path, scanner,
                   job, bounds, history>>

-----------------------------------------------------------------------------
Reporting(r) ==
    \/ Look(r) \/ Whitelisted(r) \/ Suppressed(r) \/ Mark(r)
    \/ Excluded(r) \/ Enforce(r)

Scanning(s) == ScanApply(s) \/ ApplyNext(s) \/ ScanEnd(s)

Restoring(u) == Hook(u) \/ ReadConfig(u) \/ Install(u) \/ RestoreWrite(u)

Asking(u) ==
    \/ Allow(u) \/ Settings(u) \/ Quarantine(u) \/ Delete(u)
    \/ RestoreAlready(u) \/ RestoreEnter(u)

Next ==
    \/ \E m \in Monitors : Detect(m)
    \/ \E s \in Scans : ScanStart(s) \/ ScanFile(s) \/ Scanning(s)
    \/ \E r \in Reporters : Reporting(r) \/ Add(r)
    \/ \E u \in Users : Asking(u) \/ Restoring(u)
    \/ \E p \in Paths : FileAppears(p) \/ FileGoes(p)
    \/ WindowPasses

(* Goroutines that can run do run; Store.mu is handed over to those who    *)
(* wait for it.                                                            *)
Fairness ==
    /\ \A r \in Reporters : WF_vars(Reporting(r)) /\ SF_vars(Add(r))
    /\ \A s \in Scans : WF_vars(Scanning(s))
    /\ \A u \in Users : WF_vars(Restoring(u))

Spec == Init /\ [][Next]_vars

FairSpec == Spec /\ Fairness

-----------------------------------------------------------------------------
(* Properties. *)

(* A reporter removes the file of its verdict. *)
Takes(r) ==
    /\ pc[r] \in {"enforce", "add"} /\ pc'[r] # pc[r]
    /\ path[r] \in present \ present'

(* A verdict whose checks begin after the user has allowed a file, or got  *)
(* it back by a restore that wrote it, leaves that file alone, whoever     *)
(* detected it and however old the scan's list is (Report, ApplyScanResult,*)
(* excludePaths before the write).                                         *)
LateVerdictSpares == [][faults = 0 => \A r \in warned : ~Takes(r)]_vars

(* The engine's lists are the user's: they move to the exclusions and the  *)
(* whitelist as they are, never to what they were, as module Preferences   *)
(* asks (ApplyConfig, from every handler and from the restore hook).       *)
Same == [c \in Lists |-> c]

P == INSTANCE Preferences WITH
        Choices <- Lists, Loaded <- Same, Decisive <- Same,
        wanted <- cfg, kept <- cfg, decided <- engine, failed <- faults,
        due <- \E u \in Users : pc[u] \in {"install", "locking"}

ImplementsPreferences == P!Spec

Waits(p) ==
    \/ pc[p] = "add" /\ holder # None
    \/ pc[p] \in {"white", "excl"} /\ \E u \in Users : pc[u] = "locking"
    \/ pc[p] = "locking" /\ reading # {}

Holds(p) == p = holder \/ p \in reading \/ pc[p] = "locking"

(* Where the retry of Store.Add leaves its caller. *)
Lost(c) == pc[c] = "relock"

(* Nobody waits for ever but for a Store.Add that has called itself:       *)
(* whoever waits for Store.mu or Engine.mu, there is somebody who holds    *)
(* one of them, or is next to, is at work and waits for nothing.  Such an  *)
(* Add keeps Store.mu, and Engine.mu goes on all the same (Report,         *)
(* ApplyConfig, and Restore with its hook).                                *)
NoDeadlock ==
    (\E p \in Reporters \cup Users : Waits(p) /\ ~(pc[p] = "add" /\ Lost(holder))) =>
        \E q \in Reporters \cup Users :
            Holds(q) /\ pc[q] # "idle" /\ ~Waits(q) /\ ~Lost(q)

(* Every verdict is dealt with, unless the store is lost to a Store.Add    *)
(* that has called itself, this verdict's or another's: a restore that     *)
(* holds the store's lock while it waits for the engine's never meets a    *)
(* verdict that holds the engine's and waits for the store's.              *)
VerdictsEnd ==
    \A r \in Reporters :
        path[r] # None ~> \/ path[r] = None
                          \/ Lost(r)
                          \/ pc[r] = "add" /\ \E c \in Reporters \cup Users : Lost(c)

(* Every restore that has taken the store's lock gives it back. *)
RestoresEnd == \A u \in Users : pc[u] = "hook" ~> holder # u
=============================================================================

-------------------------------- MODULE Monitors -------------------------------
(* The monitors that poll the machine (internal/monitor), the detectors    *)
(* they feed, and the termination of offenders (internal/detector).        *)
(*                                                                         *)
(* A pass lists the processes first and looks at them one by one           *)
(* afterwards, while processes come and go and their ids are used again.   *)
(* Time is counted in ticks: of a time stamp only its age is kept, up to   *)
(* the age from which the code no longer tells it from a missing one.      *)
(* What a program is, and where, is a record; there is one store of        *)
(* credentials, one module, one thread and one remote endpoint.            *)
EXTENDS Naturals, Sequences, FiniteSets

CONSTANTS
    Pids,            \* ids of processes above 4
    Programs,        \* the programs that run
    None,
    ProcMons, MemMons, NetMons,  \* the goroutines of these monitors
    Watchers, Kind,  \* Handle-, Module- and InjectMonitors: what each looks for
    Settings,        \* the sets of goroutines a configuration may start
    Policies,        \* the policies a kind of threat may be given
    StoreSeverity,   \* what the table of stores says of this one
    ReportInterval, SuspectRescan, MemRescan, BeaconWindow, Threshold,
    MaxLives,        \* bound on the processes that use an id
    MaxPass,         \* bound on the ticks a pass takes
    MaxHits,         \* bound on the length of a beaconing history
    MaxFaults        \* bound on system calls that fail

Monitors == ProcMons \cup MemMons \cup NetMons \cup Watchers
Kinds    == {"handles", "modules", "threads"}

(* vetted: the user's whitelist names it; signed: its signature shows the  *)
(* owner's publisher; shell: it is called cmd, powershell or rundll32.     *)
Program == [name : {"owner", "system", "other"}, signed : BOOLEAN, vetted : BOOLEAN,
            shell : BOOLEAN, place : {"drop", "protected", "elsewhere"}]

(* What a pass knows of a process: its program, which of the processes     *)
(* that have had the id it is, and whether its path could be read.         *)
Listed == [prog : Programs, life : 1..MaxLives, path : BOOLEAN]

ASSUME MonitorsAssumption ==
    /\ Programs \subseteq Program /\ None \notin Program \cup Pids \cup Listed
    /\ ProcMons \cap (MemMons \cup NetMons \cup Watchers) = {}
    /\ MemMons \cap (NetMons \cup Watchers) = {} /\ NetMons \cap Watchers = {}
    /\ Kind \in [Watchers -> Kinds] /\ Settings \subseteq SUBSET Monitors
    /\ StoreSeverity \in {"high", "critical"}
    /\ {ReportInterval, SuspectRescan, MemRescan, BeaconWindow, Threshold} \subseteq Nat \ {0}
    /\ SuspectRescan <= MemRescan
    /\ MaxLives \in Nat \ {0} /\ {MaxPass, MaxHits, MaxFaults} \subseteq Nat

VARIABLES
    proc,      \* the program that runs under an id, or None
    life,      \* how many processes have had the id
    signs,     \* for each kind, the ids whose process shows what it looks for
    conn,      \* ids whose process has a connection
    on,        \* the monitors that run
    pc,        \* where a monitor is
    listed,    \* what listProcesses has returned to it
    work,      \* the ids it has still to look at
    at,        \* the id it looks at, or None
    todo,      \* the verdicts of its event that are not reported yet
    since,     \* how long ago its pass read the clock
    known, first,  \* ProcMonitor.Start
    reported,  \* age of the entry of an id in reported, moduleSeen, injectSeen
    suspects,  \* age of the entry of an id in suspects, or None
    scanned,   \* age of the entry of an id in memScaned
    drained,   \* the suspects a pass over the memory was given
    hits,      \* BeaconingDetector.history: ages, the oldest first
    faults,
    announced, \* history: the processes that were announced, or there at first
    told,      \* history: age of the last event about an id
    alerted    \* history: ids with an alert since which no hit has expired

machine == <<proc, life, signs, conn, on>>
passes  == <<pc, listed, work, at, todo, since>>
seen    == <<known, first>>
memory  == <<suspects, scanned, drained>>
history == <<announced, told, alerted>>
vars    == <<machine, passes, seen, reported, memory, hits, faults, history>>

Verdict == [threat : {"token_theft", "dll_injection", "process_injection",
                      "network_beaconing"},
            severity : {"high", "critical"}]

Stale(kind) ==  \* the age that ends a silence in any pass
    ReportInterval + (IF kind = "handles" THEN 0 ELSE MaxPass)
Oldest  == MemRescan + MaxPass

TypeOK ==
    /\ proc \in [Pids -> Programs \cup {None}] /\ life \in [Pids -> 0..MaxLives]
    /\ signs \in [Kinds -> SUBSET Pids] /\ conn \subseteq Pids
    /\ on \in Settings
    /\ pc \in [Monitors -> {"idle", "list", "listed", "work", "report"}]
    /\ listed \in [Monitors -> [Pids -> Listed \cup {None}]]
    /\ work \in [Monitors -> SUBSET Pids]
    /\ at \in [Monitors -> Pids \cup {None}]
    /\ todo \in [Monitors -> SUBSET Verdict]
    /\ since \in [Monitors -> 0..MaxPass]
    /\ known \in [ProcMons -> SUBSET Pids] /\ first \in [ProcMons -> BOOLEAN]
    /\ reported \in [Kinds -> [Pids -> Nat]] /\ told \in [Kinds -> [Pids -> Nat]]
    /\ \A k \in Kinds, p \in Pids : reported[k][p] <= Stale(k) /\ told[k][p] <= Stale(k)
    /\ suspects \in [Pids -> 0..(MemRescan + 1) \cup {None}]
    /\ scanned \in [Pids -> 0..Oldest]
    /\ drained \in [MemMons -> SUBSET Pids]
    /\ hits \in [Pids -> Seq(0..BeaconWindow)] /\ \A p \in Pids : Len(hits[p]) <= MaxHits
    /\ faults \in 0..MaxFaults
    /\ announced \subseteq Pids \X (1..MaxLives) /\ alerted \subseteq Pids

Init ==
    /\ proc \in [Pids -> Programs \cup {None}]
    /\ life = [p \in Pids |-> IF proc[p] = None THEN 0 ELSE 1]
    /\ signs = [k \in Kinds |-> {}] /\ conn = {}
    /\ on \in Settings
    /\ pc = [g \in Monitors |-> "idle"]
    /\ listed = [g \in Monitors |-> [p \in Pids |-> None]]
    /\ work = [g \in Monitors |-> {}]
    /\ at = [g \in Monitors |-> None]
    /\ todo = [g \in Monitors |-> {}]
    /\ since = [g \in Monitors |-> 0]
    /\ known = [g \in ProcMons |-> {}] /\ first = [g \in ProcMons |-> TRUE]
    /\ reported = [k \in Kinds |-> [p \in Pids |-> Stale(k)]] /\ told = reported
    /\ suspects = [p \in Pids |-> None]
    /\ scanned = [p \in Pids |-> Oldest]
    /\ drained = [m \in MemMons |-> {}]
    /\ hits = [p \in Pids |-> <<>>]
    /\ faults = 0
    /\ announced = {} /\ alerted = {}

Fails == faults < MaxFaults /\ faults' = faults + 1
Works == UNCHANGED faults

-----------------------------------------------------------------------------
(* The detectors.  Events of these monitors carry no file, so Signatures   *)
(* and StaticFiles have nothing to say, and no command line, so the rules  *)
(* about command lines have nothing to match.                              *)

High(threat)     == {[threat |-> threat, severity |-> "high"]}
Critical(threat) == {[threat |-> threat, severity |-> "critical"]}

(* tokens.UntrustedLocation: of a path that is not known, none. *)
Untrusted(l) == l.path /\ l.prog.place = "drop"

IsTrustedApp(l) == l.prog.name = "system" \/ (l.prog.name = "owner" /\ ~Untrusted(l))

TokenTheft(innocent, l) ==
    IF innocent THEN {}
    ELSE IF l.prog.name # "other" \/ Untrusted(l) THEN Critical("token_theft")
    ELSE {[threat |-> "token_theft", severity |-> StoreSeverity]}

(* Mutant of Tokens: the signature is not looked at. *)
TokensUnverified(l) == TokenTheft(l.prog.name = "other" /\ l.prog.vetted, l)

(* Tokens.Evaluate: a program with the owner's name must prove it by its   *)
(* signature, another one be named by the user.                            *)
Tokens(l) ==
    TokenTheft(IF l.prog.name # "other" THEN l.path /\ l.prog.signed ELSE l.prog.vetted, l)

(* BehaviorDetector.Evaluate. *)
Behavior(kind, l) ==
    (IF kind = "threads" /\ l.path THEN High("process_injection") ELSE {})
        \cup (IF l.prog.shell THEN High("dll_injection") ELSE {})

(* detectorEnabled: the configuration may leave detectors out. *)
Enabled(verdicts) == {verdicts, {v \in verdicts : v.threat = "token_theft"},
                      {v \in verdicts : v.threat # "token_theft"}, {}}

DecideAction(v, policy) ==
    CASE policy = "auto_delete"     -> "delete"
      [] policy = "auto_quarantine" -> "quarantine"
      [] policy = "log_only"        -> "log"
      [] OTHER -> IF v.severity = "critical" THEN "quarantine" ELSE "alert"

(* enforce: NotifyOnly makes every policy about token theft log_only. *)
ShouldTerminate(v, l, policy, notify, block) ==
    /\ DecideAction(v, policy) \in {"quarantine", "delete"}
    /\ v.threat = "token_theft" => block /\ ~notify
    /\ l.prog.name # "system"
    /\ ~(l.path /\ l.prog.place = "protected")

-----------------------------------------------------------------------------
(* What every monitor does *)

Goto(g, step) == pc' = [pc EXCEPT ![g] = step]

(* listProcesses; a path is missing when its query fails. *)
List(g) ==
    \E missing \in SUBSET {p \in Pids : proc[p] # None} :
        /\ IF missing = {} THEN Works ELSE Fails
        /\ listed' = [listed EXCEPT ![g] =
                        [p \in Pids |-> IF proc[p] = None THEN None
                                        ELSE [prog |-> proc[p], life |-> life[p],
                                              path |-> p \notin missing]]]

(* What is known of the process of an event; of a connection whose process *)
(* is not listed, the id only.                                             *)
Nameless == [name |-> "other", signed |-> FALSE, vetted |-> FALSE, shell |-> FALSE,
             place |-> "elsewhere"]

Known(g, p) == IF listed[g][p] # None THEN listed[g][p]
               ELSE [prog |-> Nameless, life |-> 0, path |-> FALSE]

Running(g) == {p \in Pids : listed[g][p] # None}

Give(g, pids) == work' = [work EXCEPT ![g] = pids]

(* The pass is over, and so is what it had read. *)
End(g) ==
    /\ Goto(g, "idle")
    /\ Give(g, {})
    /\ listed' = [listed EXCEPT ![g] = [p \in Pids |-> None]]
    /\ since' = [since EXCEPT ![g] = 0]

(* Engine.Handle of an event about p, with what the detectors find in it. *)
Handle(g, p, verdicts) ==
    /\ Goto(g, "report")
    /\ at' = [at EXCEPT ![g] = p]
    /\ \E vs \in Enabled(verdicts) : todo' = [todo EXCEPT ![g] = vs]

(* Report: the verdict is left (whitelisted, suppressed or excluded, or a  *)
(* policy that does nothing), or the process that now has the id is        *)
(* terminated.  What becomes of the file is in module Engine.              *)
Report(g) ==
    /\ pc[g] = "report"
    /\ \E v \in todo[g] :
          /\ todo' = [todo EXCEPT ![g] = @ \ {v}]
          /\ \/ UNCHANGED <<proc, signs, conn>>
             \/ LET p == at[g]
                    l == Known(g, p)
                IN  /\ ~l.prog.vetted
                    /\ \E policy \in Policies, notify, block \in BOOLEAN :
                          ShouldTerminate(v, l, policy, notify, block)
                    /\ proc' = [proc EXCEPT ![p] = None]
                    /\ signs' = [k \in Kinds |-> signs[k] \ {p}]
                    /\ conn' = conn \ {p}
    /\ UNCHANGED <<life, on, pc, listed, work, at, since, seen, reported, memory, hits,
                   faults, history>>

(* Handle returns; the handle monitor flags the process for the memory     *)
(* monitor (flagSuspect).                                                  *)
Handled(g) ==
    /\ pc[g] = "report" /\ todo[g] = {}
    /\ Goto(g, "work")
    /\ at' = [at EXCEPT ![g] = None]
    /\ \/ /\ g \in Watchers /\ Kind[g] = "handles"
          /\ suspects' = [suspects EXCEPT ![at[g]] = 0]
       \/ /\ ~(g \in Watchers /\ Kind[g] = "handles")
          /\ UNCHANGED suspects
    /\ UNCHANGED <<machine, listed, work, todo, since, seen, reported, scanned, drained,
                   hits, faults, history>>

-----------------------------------------------------------------------------
(* ProcMonitor *)

(* Mutant of Poll: after an error the monitor starts afresh. *)
PollForgets(g) ==
    /\ g \in on /\ pc[g] = "idle"
    /\ \/ /\ List(g)
          /\ Goto(g, "work")
          /\ Give(g, IF first[g] THEN {} ELSE {p \in Pids : proc[p] # None} \ known[g])
          /\ UNCHANGED seen
       \/ /\ Fails
          /\ known' = [known EXCEPT ![g] = {}]
          /\ UNCHANGED <<pc, listed, work, first>>
    /\ UNCHANGED <<machine, at, todo, since, reported, memory, hits, history>>

(* A tick: the newcomers are those the poll before did not list. *)
Poll(g) ==
    /\ g \in on /\ pc[g] = "idle"
    /\ \/ /\ List(g)
          /\ Goto(g, "work")
          /\ Give(g, IF first[g] THEN {} ELSE {p \in Pids : proc[p] # None} \ known[g])
       \/ Fails /\ UNCHANGED <<pc, listed, work>>
    /\ UNCHANGED <<machine, at, todo, since, seen, reported, memory, hits, history>>

Announce(g) ==
    /\ g \in ProcMons /\ pc[g] = "work"
    /\ \E p \in work[g] :
          /\ Give(g, work[g] \ {p})
          /\ Handle(g, p, Behavior("start", listed[g][p]))
          /\ announced' = announced \cup {<<p, listed[g][p].life>>}
    /\ UNCHANGED <<machine, listed, since, seen, reported, memory, hits, faults, told,
                   alerted>>

(* Those that have gone are announced, and the list becomes the known one. *)
Polled(g) ==
    /\ g \in ProcMons /\ pc[g] = "work" /\ work[g] = {}
    /\ known' = [known EXCEPT ![g] = Running(g)]
    /\ first' = [first EXCEPT ![g] = FALSE]
    /\ announced' = announced \cup
                      {<<p, listed[g][p].life>> : p \in IF first[g] THEN Running(g) ELSE {}}
    /\ End(g)
    /\ UNCHANGED <<machine, at, todo, reported, memory, hits, faults, told, alerted>>

-----------------------------------------------------------------------------
(* HandleMonitor, ModuleMonitor, InjectMonitor *)

(* scanHandles, scanModules, scanThreadInjection: the list, and the clock  *)
(* of the last two.                                                        *)
Begin(w) ==
    /\ w \in on /\ pc[w] = "idle"
    /\ \/ List(w) /\ Goto(w, "listed")
       \/ Fails /\ UNCHANGED <<pc, listed>>
    /\ UNCHANGED <<machine, work, at, todo, since, seen, reported, memory, hits, history>>

(* ListHandles, and the processes that are worth a look. *)
Choose(w) ==
    /\ w \in Watchers /\ pc[w] = "listed"
    /\ \/ /\ Works
          /\ Goto(w, "work")
          /\ Give(w, IF Kind[w] = "handles"
                     THEN {p \in Running(w) \cap signs["handles"] : ~IsTrustedApp(listed[w][p])}
                     ELSE {p \in Running(w) : listed[w][p].prog.name # "system"})
          /\ UNCHANGED <<listed, since>>
       \/ Kind[w] = "handles" /\ Fails /\ End(w)
    /\ UNCHANGED <<machine, at, todo, seen, reported, memory, hits, history>>

(* How long ago the clock was read that the entries are compared with. *)
Clock(w) == IF Kind[w] = "handles" THEN 0 ELSE since[w]

(* alreadyReported, and the same check of moduleSeen and injectSeen. *)
Silent(w, p) == reported[Kind[w]][p] < ReportInterval + Clock(w)

Shows(w, p) == p \in work[w] /\ p \in signs[Kind[w]]

Sight(w) ==
    /\ w \in Watchers /\ pc[w] = "work"
    /\ \E p \in work[w] :
          LET k == Kind[w]
          IN  /\ Shows(w, p) /\ ~Silent(w, p)
              /\ Give(w, work[w] \ {p})
              /\ reported' = [reported EXCEPT ![k][p] = Clock(w)]
              /\ told' = [told EXCEPT ![k][p] = 0]
              /\ Handle(w, p, Behavior(k, listed[w][p]) \cup
                                (IF k = "handles" THEN Tokens(listed[w][p]) ELSE {}))
    /\ UNCHANGED <<machine, listed, since, seen, memory, hits, faults, announced, alerted>>

(* Mutant of Overlook: the entry is renewed by every sighting. *)
OverlookRenews(w) ==
    /\ w \in Watchers /\ pc[w] = "work"
    /\ \E p \in work[w] :
          /\ Shows(w, p) => Silent(w, p)
          /\ Give(w, work[w] \ {p})
          /\ reported' = IF Shows(w, p) THEN [reported EXCEPT ![Kind[w]][p] = Clock(w)]
                         ELSE reported
    /\ UNCHANGED <<machine, pc, listed, at, todo, since, seen, memory, hits, faults,
                   history>>

(* There is nothing to see any more, or it was reported not long ago. *)
Overlook(w) ==
    /\ w \in Watchers /\ pc[w] = "work"
    /\ \E p \in work[w] :
          /\ Shows(w, p) => Silent(w, p)
          /\ Give(w, work[w] \ {p})
    /\ UNCHANGED <<machine, pc, listed, at, todo, since, seen, reported, memory, hits,
                   faults, history>>

(* All are done; or the process cannot be opened, or the budget of the     *)
(* pass over the handles is spent, and the rest is left.                   *)
Watched(w) ==
    /\ w \in Watchers /\ pc[w] = "work"
    /\ work[w] = {} \/ Kind[w] = "handles"
    /\ End(w)
    /\ UNCHANGED <<machine, at, todo, seen, reported, memory, hits, faults, history>>

-----------------------------------------------------------------------------
(* MemMonitor *)

(* drainSuspects, on the fast tick if there are any, or on the sweep. *)
Drain(m) ==
    /\ m \in on /\ pc[m] = "idle"
    /\ drained' = [drained EXCEPT ![m] =
                     {p \in Pids : suspects[p] # None /\ suspects[p] <= MemRescan}]
    /\ suspects' = [p \in Pids |-> None]
    /\ Goto(m, "list")
    /\ UNCHANGED <<machine, listed, work, at, todo, since, seen, reported, scanned, hits,
                   faults, history>>

(* scanMemoryForTokens lists the processes and reads the clock. *)
Sweep(m) ==
    /\ m \in MemMons /\ pc[m] = "list"
    /\ \/ /\ List(m)
          /\ Goto(m, "work")
          /\ Give(m, {p \in Pids : proc[p] # None})
          /\ since' = [since EXCEPT ![m] = 0]
       \/ Fails /\ End(m)
    /\ UNCHANGED <<machine, at, todo, seen, reported, memory, hits, history>>

Wanted(m, p) ==
    /\ listed[m][p].prog.name # "system"
    /\ p \in drained[m] \/ Untrusted(listed[m][p])

(* Mutant of Recent: a suspect waits as long as any other process. *)
RecentForAll(m, p) == scanned[p] < MemRescan + since[m]

Recent(m, p) ==
    scanned[p] < (IF p \in drained[m] THEN SuspectRescan ELSE MemRescan) + since[m]

(* scanOneProcess: tokens found in the memory are an event that no         *)
(* detector evaluates, but for the rule about shells.                      *)
Examine(m) ==
    /\ m \in MemMons /\ pc[m] = "work"
    /\ \E p \in work[m] :
          /\ Wanted(m, p) /\ ~Recent(m, p)
          /\ Give(m, work[m] \ {p})
          /\ scanned' = [scanned EXCEPT ![p] = since[m]]
          /\ \/ Handle(m, p, Behavior("memory", listed[m][p]))
             \/ UNCHANGED <<pc, at, todo>>
    /\ UNCHANGED <<machine, listed, since, seen, reported, suspects, drained, hits, faults,
                   history>>

PassOver(m) ==
    /\ m \in MemMons /\ pc[m] = "work"
    /\ \E p \in work[m] :
          /\ Wanted(m, p) => Recent(m, p)
          /\ Give(m, work[m] \ {p})
    /\ UNCHANGED <<machine, pc, listed, at, todo, since, seen, reported, memory, hits,
                   faults, history>>

Swept(m) ==
    /\ m \in MemMons /\ pc[m] = "work" /\ work[m] = {}
    /\ End(m)
    /\ drained' = [drained EXCEPT ![m] = {}]
    /\ UNCHANGED <<machine, at, todo, seen, reported, suspects, scanned, hits, faults,
                   history>>

-----------------------------------------------------------------------------
(* NetMonitor and BeaconingDetector *)

(* scanConnections: all connections there are, old ones too; without the   *)
(* list of processes they are reported all the same.                       *)
Connections(n) ==
    /\ n \in on /\ pc[n] = "idle"
    /\ \/ List(n) /\ Goto(n, "work") /\ Give(n, conn)
       \/ Fails /\ UNCHANGED listed /\ Goto(n, "work") /\ Give(n, conn)
       \/ Fails /\ UNCHANGED <<pc, listed, work>>
    /\ UNCHANGED <<machine, at, todo, since, seen, reported, memory, hits, history>>

(* BeaconingDetector.Evaluate keeps the hits of the window, which are the  *)
(* last ones.  The purge of endpoints with none takes nothing that counts. *)
Kept(p) ==
    LET expired == {i \in DOMAIN hits[p] : hits[p][i] >= BeaconWindow}
    IN  SubSeq(hits[p], Cardinality(expired) + 1, Len(hits[p]))

(* Mutant of Beacon: every hit above the threshold raises an alert. *)
BeaconEveryTime(p) ==
    IF Len(Kept(p)) + 1 >= Threshold THEN High("network_beaconing") ELSE {}

Beacon(p) == IF Len(Kept(p)) + 1 = Threshold THEN High("network_beaconing") ELSE {}

Connected(n) ==
    /\ n \in NetMons /\ pc[n] = "work"
    /\ \E p \in work[n] :
          /\ Give(n, work[n] \ {p})
          /\ \/ /\ Len(Kept(p)) < MaxHits
                /\ hits' = [hits EXCEPT ![p] = Append(Kept(p), 0)]
                /\ Handle(n, p, Beacon(p) \cup Behavior("connect", Known(n, p)))
                /\ alerted' = (IF Kept(p) # hits[p] THEN alerted \ {p} ELSE alerted)
                                 \cup (IF Beacon(p) # {} THEN {p} ELSE {})
             \/ /\ Handle(n, p, Behavior("connect", Known(n, p)))
                /\ UNCHANGED <<hits, alerted>>
    /\ UNCHANGED <<machine, listed, since, seen, reported, memory, faults, announced, told>>

NetScanned(n) ==
    /\ n \in NetMons /\ pc[n] = "work" /\ work[n] = {}
    /\ End(n)
    /\ UNCHANGED <<machine, at, todo, seen, reported, memory, hits, faults, history>>

-----------------------------------------------------------------------------
(* Other programs, and time *)

Start(p) ==
    /\ proc[p] = None /\ life[p] < MaxLives
    /\ \E prog \in Programs : proc' = [proc EXCEPT ![p] = prog]
    /\ life' = [life EXCEPT ![p] = @ + 1]
    /\ UNCHANGED <<signs, conn, on, passes, seen, reported, memory, hits, faults, history>>

Exit(p) ==
    /\ proc[p] # None
    /\ proc' = [proc EXCEPT ![p] = None]
    /\ signs' = [k \in Kinds |-> signs[k] \ {p}]
    /\ conn' = conn \ {p}
    /\ UNCHANGED <<life, on, passes, seen, reported, memory, hits, faults, history>>

(* A process opens or closes the store, loads or unloads a module, starts  *)
(* or ends a thread; a connection comes and goes.                          *)
Act(p) ==
    /\ proc[p] # None
    /\ \/ \E k \in {Kind[w] : w \in Watchers \cap on} :
             /\ signs' = [signs EXCEPT ![k] = IF p \in @ THEN @ \ {p} ELSE @ \cup {p}]
             /\ UNCHANGED conn
       \/ /\ on \cap NetMons # {}
          /\ conn' = (IF p \in conn THEN conn \ {p} ELSE conn \cup {p})
          /\ UNCHANGED signs
    /\ UNCHANGED <<proc, life, on, passes, seen, reported, memory, hits, faults, history>>

Older(age, limit) == IF age < limit THEN age + 1 ELSE age

(* A pass lasts MaxPass ticks at most, and the memory monitor's fast tick  *)
(* comes within one.                                                       *)
Tick ==
    /\ \A g \in Monitors : pc[g] # "idle" => since[g] < MaxPass
    /\ \A m \in MemMons \cap on : pc[m] = "idle" => \A p \in Pids : suspects[p] \in {None, 0}
    /\ since' = [g \in Monitors |-> IF pc[g] = "idle" THEN 0 ELSE since[g] + 1]
    /\ reported' = [k \in Kinds |-> [p \in Pids |-> Older(reported[k][p], Stale(k))]]
    /\ told' = [k \in Kinds |-> [p \in Pids |-> Older(told[k][p], Stale(k))]]
    /\ suspects' = [p \in Pids |-> IF suspects[p] = None THEN None
                                   ELSE Older(suspects[p], MemRescan + 1)]
    /\ scanned' = [p \in Pids |-> Older(scanned[p], Oldest)]
    /\ hits' = [p \in Pids |-> [i \in DOMAIN hits[p] |-> Older(hits[p][i], BeaconWindow)]]
    /\ UNCHANGED <<machine, pc, listed, work, at, todo, seen, drained, faults, announced,
                   alerted>>

-----------------------------------------------------------------------------
Polling(g)     == Poll(g) \/ Announce(g) \/ Polled(g)
Watching(w)    == Choose(w) \/ Sight(w) \/ Overlook(w) \/ Watched(w)
Examining(m)   == Sweep(m) \/ Examine(m) \/ PassOver(m) \/ Swept(m)
Connecting(n)  == Connections(n) \/ Connected(n) \/ NetScanned(n)
Reporting(g)   == Report(g) \/ Handled(g)

Next ==
    \/ \E g \in ProcMons : Polling(g)
    \/ \E w \in Watchers : Begin(w) \/ Watching(w)
    \/ \E m \in MemMons : Drain(m) \/ Examining(m)
    \/ \E n \in NetMons : Connecting(n)
    \/ \E g \in Monitors : Reporting(g)
    \/ \E p \in Pids : Start(p) \/ Exit(p) \/ Act(p)
    \/ Tick

(* The memory monitor's goroutine runs. *)
Fairness ==
    \A m \in MemMons : WF_vars(Drain(m) \/ Examining(m) \/ Reporting(m))

Spec == Init /\ [][Next]_vars

FairSpec == Spec /\ Fairness

-----------------------------------------------------------------------------
(* Properties. *)

(* Who is terminated for token theft is not the owner, not a program the   *)
(* user has named and not a system process, unless its id has changed      *)
(* hands since the pass listed the processes (IsTrustedApp, Tokens.Evaluate,*)
(* shouldTerminate, terminateProcess).                                     *)
OffendersOnly ==
    [][\A g \in Monitors : \A v \in todo[g] \ todo'[g] :
          LET p == at[g]
          IN  (v.threat = "token_theft" /\ proc'[p] # proc[p] /\ listed[g][p].life = life[p])
                  => /\ proc[p].name = "other" => ~proc[p].vetted
                     /\ proc[p].name = "owner" => ~(proc[p].signed /\ listed[g][p].path)
                     /\ proc[p].name # "system"]_vars

(* What a process shows is reported again and again, but not twice in an   *)
(* interval, whichever passes see it: a sighting is passed over just when  *)
(* an event about the id is younger than the interval (alreadyReported,    *)
(* moduleSeen, injectSeen; their passes read the clock when they begin).   *)
Slack(w) == IF Kind[w] = "handles" THEN 0 ELSE MaxPass

ToldOncePerInterval ==
    [][\A w \in Watchers : \A p \in work[w] \ work'[w] :
          pc[w] = "work" /\ Shows(w, p) =>
             \/ pc'[w] = "idle"
             \/ /\ pc'[w] = "work"
                /\ told[Kind[w]][p] < ReportInterval + Slack(w)
             \/ /\ pc'[w] = "report"
                /\ told[Kind[w]][p] + Slack(w) >= ReportInterval]_vars

(* No process is announced twice, nor one that was there at the first      *)
(* poll, whatever polls fail (ProcMonitor.Start).                          *)
AnnouncedOnce ==
    [][\A g \in ProcMons : \A p \in Pids :
          at[g] = None /\ at'[g] = p => <<p, listed[g][p].life>> \notin announced]_vars

(* A process that was flagged has its memory read, or had it read just     *)
(* before, unless it ends or a system call fails (flagSuspect,             *)
(* drainSuspects, scanMemoryForTokens).                                    *)
SuspectsAreExamined ==
    \A p \in Pids :
        suspects[p] # None /\ on \cap MemMons # {}
            ~> \/ scanned[p] < SuspectRescan + MaxPass
               \/ proc[p] = None \/ faults > 0

(* After an alert about a connection there is no other before a hit has    *)
(* left the window (BeaconingDetector.Evaluate).                           *)
AlertsAreSpaced ==
    [][\A n \in NetMons, p \in Pids :
          at[n] = None /\ at'[n] = p /\ High("network_beaconing") \subseteq todo'[n]
              => p \notin alerted \/ Kept(p) # hits[p]]_vars
=============================================================================

--------------------------- MODULE ServiceControl ---------------------------
(* How the service is reconfigured while it runs (internal/service, with   *)
(* config.Store and the part of the engine that caches the configuration). *)
(*                                                                         *)
(* Every connection has a goroutine that handles one message after the     *)
(* other; run() starts the monitors on a goroutine of its own after it has *)
(* begun to listen.  config.Store is locked, and so is the engine's copy,  *)
(* but nothing orders one handler's read of the one and its write of the   *)
(* other, and monCtx and monStop are not locked at all.                    *)
EXTENDS Naturals, FiniteSets

CONSTANTS
    Conns,         \* connections to the service
    Main,          \* the goroutine of run()
    Monitors,      \* the monitors, by their flags in the settings
    Janitor,       \* StartLogJanitor, started with the monitors
    Names,         \* process names the user may allow
    DefaultNames,  \* the whitelist of Default()
    Domains,       \* domains the user may list
    DefaultDomains, \* the list of domains of Default()
    Paths,         \* paths a restore may exclude
    None,          \* nil
    EarlyClient,   \* a message may come before run() has started the monitors
    MaxCalls,      \* bound on the messages that change something
    MaxFaults,     \* bound on failed writes of config.json
    MaxRestarts    \* bound on restarts of the service

Procs  == Conns \cup {Main}
Ctxs   == 1..(MaxCalls + MaxRestarts + 1)
Config == [enabled : BOOLEAN, guard : BOOLEAN, encrypt : BOOLEAN, flags : SUBSET Monitors,
           white : SUBSET Names, domains : SUBSET Domains, excl : SUBSET Paths]
Goroutine == [mon : Monitors \cup {Janitor}, gen : Ctxs, ctx : Ctxs \cup {None}]

ASSUME ServiceAssumption ==
    /\ Main \notin Conns /\ Janitor \notin Monitors /\ None \notin Ctxs
    /\ None \notin Config
    /\ DefaultNames \subseteq Names /\ DefaultDomains \subseteq Domains
    /\ EarlyClient \in BOOLEAN
    /\ MaxCalls \in Nat /\ MaxFaults \in Nat /\ MaxRestarts \in Nat

VARIABLES
    cfg,         \* Store.cfg
    disk,        \* config.json
    engine,      \* the engine's whitelist, exclusions and realTime flag
    monCtx,      \* program.monCtx: the context of that number, or nil
    monStop,     \* program.monStop: what cancels the context of that number
    made,        \* contexts made since the service started
    cancelled,   \* contexts that have been cancelled
    goroutines,  \* monitors that run; ctx is None until they have read monCtx
    switched,    \* history: the flags when protection was last switched on
    pc,          \* where each handler, and run(), is
    snap,        \* the configuration it has read
    mine,        \* the context it has made
    then,        \* where a handler goes after ApplyConfig
    copy,        \* the settings a client holds (frontend/index.html)
    life,        \* "up", "panicked" or "stopped"
    calls, faults, restarts,
    restored     \* history: paths a restore excluded, and nobody has since removed

config  == <<cfg, disk>>
mons    == <<monCtx, monStop, made, cancelled, goroutines, switched>>
control == <<pc, snap, mine, then>>
bounds  == <<calls, faults, restarts>>
vars    == <<config, engine, mons, control, copy, life, bounds, restored>>

PCs == {"boot", "idle", "read", "lists", "flag", "decide", "check", "start",
        "setStop", "stopMon", "clearCtx", "clearStop"}

TypeOK ==
    /\ cfg \in Config /\ disk \in Config
    /\ engine \in [enabled : BOOLEAN, white : SUBSET Names, excl : SUBSET Paths]
    /\ monCtx \in Ctxs \cup {None} /\ monStop \in Ctxs \cup {None}
    /\ made \in Nat
    /\ cancelled \subseteq Ctxs
    /\ goroutines \subseteq Goroutine
    /\ switched \subseteq Monitors
    /\ pc \in [Procs -> PCs]
    /\ snap \in [Procs -> Config \cup {None}]
    /\ mine \in [Procs -> Ctxs \cup {None}]
    /\ then \in [Procs -> {"idle", "decide"}]
    /\ copy \in [Conns -> Config]
    /\ life \in {"up", "panicked", "stopped"}
    /\ calls \in Nat /\ faults \in Nat /\ restarts \in Nat
    /\ restored \subseteq Paths

Known(c) == [enabled |-> c.enabled, white |-> c.white, excl |-> c.excl]

Default == [enabled |-> TRUE, guard |-> TRUE, encrypt |-> TRUE, flags |-> Monitors,
            white |-> DefaultNames, domains |-> DefaultDomains, excl |-> {}]

Here(main) == [p \in Procs |-> IF p = Main THEN main ELSE "idle"]
Nothing    == [p \in Procs |-> None]

(* The service as Run leaves it: New has applied the configuration, run()  *)
(* listens and has not started the monitors yet.                           *)
Init ==
    /\ cfg = Default /\ disk = cfg
    /\ engine = Known(cfg)
    /\ monCtx = None /\ monStop = None
    /\ made = 0 /\ cancelled = {} /\ goroutines = {} /\ switched = {}
    /\ pc = Here("boot") /\ snap = Nothing /\ mine = Nothing
    /\ then = Here("idle")
    /\ copy = [c \in Conns |-> cfg]
    /\ life = "up"
    /\ calls = 0 /\ faults = 0 /\ restarts = 0
    /\ restored = {}

-----------------------------------------------------------------------------
(* config.Store *)

(* Set and Update: the new configuration is in memory before it is saved;  *)
(* an error of Resolve leaves the old one there.                           *)
Saved(c) == cfg' = c /\ disk' = c /\ UNCHANGED faults

SaveFails(c) ==
    /\ faults < MaxFaults
    /\ faults' = faults + 1
    /\ cfg' \in {cfg, c}
    /\ UNCHANGED disk

(* A list that has been emptied is the default one again. *)
Filled(list, default) == IF list = {} THEN default ELSE list

(* Mutant of Merged: protection is combined with its default the way token *)
(* guard is.                                                               *)
MergedByOr(c) ==
    [c EXCEPT !.enabled = @ \/ Default.enabled,
              !.guard   = @ \/ Default.guard,
              !.encrypt = Default.encrypt,
              !.white   = Filled(@, Default.white),
              !.domains = Filled(@, Default.domains)]

(* mergeDefaults: token guard is combined with its default, encryption is  *)
(* not read, and empty lists are filled.                                   *)
Merged(c) ==
    [c EXCEPT !.guard   = @ \/ Default.guard,
              !.encrypt = Default.encrypt,
              !.white   = Filled(@, Default.white),
              !.domains = Filled(@, Default.domains)]

-----------------------------------------------------------------------------
(* handleClient *)

Receives(c) ==
    /\ life = "up"
    /\ pc[c] = "idle"
    /\ EarlyClient \/ pc[Main] = "idle"

Changes(c) ==
    /\ Receives(c)
    /\ calls < MaxCalls
    /\ calls' = calls + 1
    /\ UNCHANGED <<engine, mons, snap, mine, life, restarts>>

Goto(p, step) == pc' = [pc EXCEPT ![p] = step]

Apply(c, next) ==
    /\ Goto(c, "read")
    /\ then' = [then EXCEPT ![c] = next]

Reply == UNCHANGED <<pc, then>>

(* MsgSettingsGet: the client keeps what it is given. *)
SettingsGet(c) ==
    /\ Receives(c)
    /\ copy' = [copy EXCEPT ![c] = cfg]
    /\ UNCHANGED <<config, engine, mons, control, life, bounds, restored>>

(* What the settings page sends: its whole copy, in which the user has     *)
(* thrown a switch or changed a list.                                      *)
Edited(c) ==
    LET old == copy[c]
    IN  {[old EXCEPT !.enabled = ~@], [old EXCEPT !.guard = ~@], [old EXCEPT !.encrypt = ~@]}
            \cup {[old EXCEPT !.flags = f]   : f \in SUBSET Monitors}
            \cup {[old EXCEPT !.white = w]   : w \in SUBSET Names}
            \cup {[old EXCEPT !.domains = d] : d \in SUBSET Domains}
            \cup {[old EXCEPT !.excl = x]    : x \in SUBSET Paths}

(* MsgSettingsSet: the handler acknowledges whether or not it has worked,  *)
(* and reconciles only when the file could be written.                     *)
SettingsSet(c) ==
    /\ Changes(c)
    /\ \E new \in Edited(c) :
          /\ copy' = [copy EXCEPT ![c] = new]
          /\ restored' = restored \ (copy[c].excl \ new.excl)
          /\ \/ Saved(new) /\ Apply(c, "decide")
             \/ SaveFails(new) /\ Reply

(* MsgToggleRealTime: reconciles in any case. *)
ToggleRealTime(c) ==
    /\ Changes(c)
    /\ \E on \in BOOLEAN :
          LET new == [cfg EXCEPT !.enabled = on]
          IN  Saved(new) \/ SaveFails(new)
    /\ Apply(c, "decide")
    /\ UNCHANGED <<copy, restored>>

(* verdictAction "allow" *)
Allow(c) ==
    /\ Changes(c)
    /\ \E n \in Names :
          LET new == [cfg EXCEPT !.white = @ \cup {n}]
          IN  \/ Saved(new) /\ Apply(c, "idle")
              \/ SaveFails(new) /\ Reply
    /\ UNCHANGED <<copy, restored>>

(* OnBeforeRestoreWrite: excludePaths, before a restore writes its target. *)
Exclude(c) ==
    /\ Changes(c)
    /\ \E p \in Paths :
          LET new == [cfg EXCEPT !.excl = @ \cup {p}]
          IN  \/ /\ Saved(new)
                 /\ restored' = restored \cup {p}
                 /\ \/ p \notin cfg.excl /\ Apply(c, "idle")
                    \/ p \in cfg.excl /\ Reply
              \/ SaveFails(new) /\ Reply /\ UNCHANGED restored
    /\ UNCHANGED copy

-----------------------------------------------------------------------------
(* Engine.ApplyConfig: the configuration is read, then installed: the      *)
(* lists under the engine's lock, and the flag.                            *)
At(p, step) == life = "up" /\ pc[p] = step

ApplyRead(p) ==
    /\ At(p, "read")
    /\ snap' = [snap EXCEPT ![p] = cfg]
    /\ Goto(p, "lists")
    /\ UNCHANGED <<config, engine, mons, mine, then, copy, life, bounds, restored>>

ApplyLists(p) ==
    /\ At(p, "lists")
    /\ engine' = [engine EXCEPT !.white = snap[p].white, !.excl = snap[p].excl]
    /\ Goto(p, "flag")
    /\ UNCHANGED <<config, mons, snap, mine, then, copy, life, bounds, restored>>

ApplyFlag(p) ==
    /\ At(p, "flag")
    /\ engine' = [engine EXCEPT !.enabled = snap[p].enabled]
    /\ Goto(p, then[p])
    /\ UNCHANGED <<config, mons, snap, mine, then, copy, life, bounds, restored>>

(* The rest of reconcileMonitors. *)
Decide(p) ==
    /\ At(p, "decide")
    /\ snap' = [snap EXCEPT ![p] = cfg]
    /\ Goto(p, "check")
    /\ UNCHANGED <<config, engine, mons, mine, then, copy, life, bounds, restored>>

Check(p) ==
    /\ At(p, "check")
    /\ \/ snap[p].enabled /\ monCtx = None /\ Goto(p, "start")
       \/ ~snap[p].enabled /\ monCtx # None /\ Goto(p, "stopMon")
       \/ snap[p].enabled = (monCtx # None) /\ Goto(p, "idle")
    /\ UNCHANGED <<config, engine, mons, snap, mine, then, copy, life, bounds, restored>>

(* The end of run() *)
Boot ==
    /\ At(Main, "boot")
    /\ \/ cfg.enabled /\ Goto(Main, "start")
       \/ ~cfg.enabled /\ Goto(Main, "idle")
    /\ UNCHANGED <<config, engine, mons, snap, mine, then, copy, life, bounds, restored>>

(* startMonitors: a context is made and stored, then its cancel function,  *)
(* then one goroutine is started for each flag that is set.                *)
Start(p) ==
    /\ At(p, "start")
    /\ made' = made + 1
    /\ monCtx' = made'
    /\ mine' = [mine EXCEPT ![p] = made']
    /\ snap' = [snap EXCEPT ![p] = cfg]
    /\ switched' = cfg.flags
    /\ Goto(p, "setStop")
    /\ UNCHANGED <<config, engine, monStop, cancelled, goroutines, then, copy,
                   life, bounds, restored>>

Panic == life' = "panicked"

(* Mutant of SetStop: a monitor that has not ended yet is not started. *)
SetStopOnce(p) ==
    /\ At(p, "setStop")
    /\ monStop' = mine[p]
    /\ goroutines' = goroutines
         \cup {[mon |-> m, gen |-> mine[p], ctx |-> None] :
                  m \in snap[p].flags \ {g.mon : g \in goroutines}}
         \cup {[mon |-> Janitor, gen |-> mine[p], ctx |-> c] : c \in {monCtx} \ {None}}
    /\ Goto(p, "idle")
    /\ \/ monCtx = None /\ Panic
       \/ monCtx # None /\ UNCHANGED life
    /\ UNCHANGED <<config, engine, monCtx, made, cancelled, switched, snap, mine, then,
                   copy, bounds, restored>>

(* The janitor is given monCtx as it is now; a monitor's goroutine reads   *)
(* it when it gets to run.                                                 *)
SetStop(p) ==
    /\ At(p, "setStop")
    /\ monStop' = mine[p]
    /\ goroutines' = goroutines
         \cup {[mon |-> m, gen |-> mine[p], ctx |-> None] : m \in snap[p].flags}
         \cup {[mon |-> Janitor, gen |-> mine[p], ctx |-> c] : c \in {monCtx} \ {None}}
    /\ Goto(p, "idle")
    /\ \/ monCtx = None /\ Panic
       \/ monCtx # None /\ UNCHANGED life
    /\ UNCHANGED <<config, engine, monCtx, made, cancelled, switched, snap, mine, then,
                   copy, bounds, restored>>

Begin(g) ==
    /\ life = "up"
    /\ g \in goroutines /\ g.ctx = None
    /\ \/ /\ monCtx = None
          /\ Panic
          /\ UNCHANGED goroutines
       \/ /\ monCtx # None
          /\ goroutines' = (goroutines \ {g}) \cup {[g EXCEPT !.ctx = monCtx]}
          /\ UNCHANGED life
    /\ UNCHANGED <<config, engine, monCtx, monStop, made, cancelled, switched, control, copy,
                   bounds, restored>>

(* A monitor whose context has been cancelled returns. *)
End(g) ==
    /\ life = "up"
    /\ g \in goroutines /\ g.ctx \in cancelled
    /\ goroutines' = goroutines \ {g}
    /\ UNCHANGED <<config, engine, monCtx, monStop, made, cancelled, switched, control, copy,
                   life, bounds, restored>>

(* Mutant of StopMonitors: the fields are cleared, nothing is cancelled. *)
StopMonitorsForgets(p) ==
    /\ At(p, "stopMon")
    /\ Goto(p, "clearCtx")
    /\ UNCHANGED <<config, engine, mons, snap, mine, then, copy, life, bounds, restored>>

(* The end of reconcileMonitors; calling a nil function is a panic. *)
StopMonitors(p) ==
    /\ At(p, "stopMon")
    /\ \/ /\ monStop # None
          /\ cancelled' = cancelled \cup {monStop}
          /\ Goto(p, "clearCtx")
          /\ UNCHANGED life
       \/ monStop = None /\ Panic /\ UNCHANGED <<cancelled, pc>>
    /\ UNCHANGED <<config, engine, monCtx, monStop, made, goroutines, switched, snap, mine,
                   then, copy, bounds, restored>>

ClearCtx(p) ==
    /\ At(p, "clearCtx")
    /\ monCtx' = None
    /\ Goto(p, "clearStop")
    /\ UNCHANGED <<config, engine, monStop, made, cancelled, goroutines, switched, snap,
                   mine, then, copy, life, bounds, restored>>

ClearStop(p) ==
    /\ At(p, "clearStop")
    /\ monStop' = None
    /\ Goto(p, "idle")
    /\ UNCHANGED <<config, engine, monCtx, made, cancelled, goroutines, switched, snap,
                   mine, then, copy, life, bounds, restored>>

-----------------------------------------------------------------------------
(* The process ends: Stop, or the machine goes down. *)
Stop ==
    /\ life = "up"
    /\ restarts < MaxRestarts
    /\ life' = "stopped"
    /\ UNCHANGED <<config, engine, mons, control, copy, bounds, restored>>

(* OpenStore reads config.json back over the defaults. *)
Restart ==
    /\ life # "up"
    /\ restarts < MaxRestarts
    /\ restarts' = restarts + 1
    /\ cfg' = Merged(disk)
    /\ engine' = Known(cfg')
    /\ monCtx' = None /\ monStop' = None
    /\ made' = 0 /\ cancelled' = {} /\ goroutines' = {} /\ switched' = {}
    /\ pc' = Here("boot") /\ snap' = Nothing /\ mine' = Nothing
    /\ then' = Here("idle")
    /\ life' = "up"
    /\ UNCHANGED <<disk, copy, calls, faults, restored>>

Reconcile(p) ==
    \/ ApplyRead(p) \/ ApplyLists(p) \/ ApplyFlag(p)
    \/ Decide(p) \/ Check(p)
    \/ Start(p) \/ SetStop(p)
    \/ StopMonitors(p) \/ ClearCtx(p) \/ ClearStop(p)

Handle(c) ==
    \/ SettingsGet(c) \/ SettingsSet(c) \/ ToggleRealTime(c)
    \/ Allow(c) \/ Exclude(c)

Next ==
    \/ \E c \in Conns : Handle(c)
    \/ \E p \in Procs : Reconcile(p)
    \/ Boot
    \/ \E g \in Goroutine : Begin(g) \/ End(g)
    \/ Stop \/ Restart

(* Goroutines that can run do run. *)
Fairness ==
    /\ WF_vars(Boot)
    /\ \A p \in Procs : WF_vars(Reconcile(p))
    /\ \A g \in Goroutine : WF_vars(Begin(g)) /\ WF_vars(End(g))

Spec == Init /\ [][Next]_vars

FairSpec == Spec /\ Fairness

-----------------------------------------------------------------------------
(* Properties. *)

Quiet == life = "up" /\ \A p \in Procs : pc[p] = "idle"

(* Every goroutine that was started has read its context, and every one    *)
(* that was cancelled has returned.                                        *)
Settled == Quiet /\ \A g \in goroutines : g.ctx \notin cancelled \cup {None}

(* When no message is being handled, what the engine decides by is what    *)
(* the configuration says: no message ends without the ApplyConfig its     *)
(* change needs (handleClient, reconcileMonitors, excludePaths).           *)
EngineFollowsConfig == Quiet /\ faults = 0 => engine = Known(cfg)

(* Protection that the user has switched off is off: no monitor is left    *)
(* running when everything has settled.                                    *)
OffMeansOff == Settled /\ faults = 0 /\ ~cfg.enabled => goroutines = {}

(* Protection that the user has switched on is on: under a context that    *)
(* can still be cancelled there runs the log janitor and every monitor     *)
(* whose flag was set when it was switched on, however often it was        *)
(* switched before and whenever each of them read its context              *)
(* (reconcileMonitors, startMonitors).  A flag that is changed later waits *)
(* until protection is switched off and on.                                *)
OnMeansOn ==
    Settled /\ faults = 0 /\ cfg.enabled =>
        /\ monCtx # None /\ monCtx \notin cancelled /\ monStop = monCtx
        /\ \A m \in switched \cup {Janitor} :
              \E g \in goroutines : g.mon = m /\ g.ctx = monCtx

(* The service implements what it promises of the user's settings (module  *)
(* Preferences), through failed saves and restarts: nothing but a message  *)
(* changes them, the engine is never given settings that are out of date,  *)
(* and a restart brings back what was saved, but for emptied lists, which  *)
(* are filled, and for token guard and encryption, which are on again      *)
(* (handleClient, ApplyConfig, mergeDefaults, New).  Between the lists and *)
(* the flag of an ApplyConfig the flag counts as installed; the switches   *)
(* the engine reads from the configuration each time are no part of this.  *)
Decided ==
    IF \E p \in Procs : pc[p] = "flag"
    THEN LET p == CHOOSE p \in Procs : pc[p] = "flag"
         IN  [engine EXCEPT !.enabled = snap[p].enabled]
    ELSE engine

P == INSTANCE Preferences WITH
        Choices  <- Config,
        Loaded   <- [c \in Config |->
                        [c EXCEPT !.guard = TRUE, !.encrypt = TRUE,
                                  !.white = IF @ # {} THEN @ ELSE DefaultNames,
                                  !.domains = IF @ # {} THEN @ ELSE DefaultDomains]],
        Decisive <- [c \in Config |-> Known(c)],
        wanted <- cfg, kept <- disk, decided <- Decided, failed <- faults,
        due <- \E p \in Procs : pc[p] \in {"read", "lists"}

ImplementsPreferences == P!Spec

(* Once protection stays off, the monitors eventually end: none is left    *)
(* under a context nobody can cancel.                                      *)
MonitorsEnd ==
    <>[](Quiet /\ faults = 0 /\ ~cfg.enabled) => <>[](goroutines = {})

(* Stated by the change log: the exclusion of a restored file is kept in   *)
(* config.json, so it holds until somebody removes it.                     *)
RestoredStaysExcluded == Quiet /\ faults = 0 => restored \subseteq disk.excl
=============================================================================

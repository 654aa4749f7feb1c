------------------------ MODULE ServiceControlProofs ------------------------
(* Theorems about the reconfiguration of the service by one client, for    *)
(* any number of monitors, names, paths, messages, failed writes and       *)
(* restarts.                                                               *)
EXTENDS ServiceControl, TLAPS


(* There is one connection, and it is used when run() has started the      *)
(* monitors; it may be lost and made again with the service's restart.     *)
SoleClient == ~EarlyClient /\ \A c, d \in Conns : c = d

(* So at most one of the handlers and run() is on its way. *)
SoloInv ==
    /\ pc[Main] \in {"idle", "boot", "start", "setStop"}
    /\ \A c \in Conns : pc[c] # "boot"
    /\ \A p, q \in Procs : pc[p] # "idle" /\ pc[q] # "idle" => p = q

(* One context is made for each message at most, and one by run(). *)
CountInv ==
    /\ calls <= MaxCalls /\ made <= calls + 1
    /\ pc[Main] \in {"boot", "start"} => made = 0
    /\ \A c \in Conns :
          pc[c] \in {"read", "lists", "flag", "decide", "check", "start"} => made <= calls
    /\ \A i \in cancelled : i <= made
    /\ monCtx # None => monCtx <= made

(* What somebody who is on his way has read and made. *)
WayInv ==
    \A p \in Procs :
        /\ pc[p] \in {"lists", "flag", "check", "setStop"} => snap[p] \in Config
        /\ pc[p] \in {"boot", "start", "clearStop"} => monCtx = None
        /\ pc[p] = "setStop" => monCtx = mine[p] /\ monCtx # None /\ monCtx \notin cancelled
                                  /\ snap[p].flags = switched
        /\ pc[p] = "stopMon" => monCtx # None
        /\ pc[p] = "clearCtx" => monCtx \in cancelled

(* monCtx and monStop are in step but while somebody is between the two,   *)
(* the context can be cancelled, and every monitor that was switched on    *)
(* has it or will.                                                         *)
StepInv ==
    (\A p \in Procs : pc[p] \notin {"setStop", "clearCtx", "clearStop"}) =>
        /\ monStop = monCtx
        /\ monCtx # None =>
              /\ monCtx \notin cancelled
              /\ \A m \in switched \cup {Janitor} :
                    \E g \in goroutines : g.mon = m /\ g.ctx \in {monCtx, None}

(* Every monitor waits for a context that is cancelled or can be. *)
GoroutineInv == \A g \in goroutines : g.ctx \in cancelled \cup {monCtx, None}

(* As long as every save has worked, the engine has the configuration, or  *)
(* somebody is on his way to install it; what he has read is always what   *)
(* it still is ...                                                         *)
EngineInv ==
    /\ faults = 0 /\ (\A p \in Procs : pc[p] \notin {"read", "lists", "flag"}) =>
          engine = Known(cfg)
    /\ \A p \in Procs :
          /\ pc[p] \in {"lists", "flag"} => snap[p] = cfg
          /\ pc[p] = "flag" => engine.white = cfg.white /\ engine.excl = cfg.excl

(* ... and protection is on if it is to be, or somebody is on his way to   *)
(* switch it.                                                              *)
EnabledInv ==
    faults = 0 =>
        /\ (\A p \in Procs : \/ pc[p] = "idle"
                             \/ pc[p] \in {"read", "lists", "flag"} /\ then[p] = "idle")
               => (cfg.enabled <=> monCtx # None)
        /\ \A p \in Procs :
              /\ pc[p] = "check" => snap[p] = cfg
              /\ pc[p] \in {"start", "setStop"} => cfg.enabled
              /\ pc[p] \in {"stopMon", "clearCtx", "clearStop"} => ~cfg.enabled

IInv ==
    /\ TypeOK /\ SoloInv /\ CountInv /\ WayInv /\ StepInv /\ GoroutineInv
    /\ EngineInv /\ EnabledInv

USE ServiceAssumption
    DEF config, mons, control, bounds, vars

LEMMA CtxsAreNumbers ==
    /\ \A i \in Ctxs : i \in Nat /\ i # None
    /\ \A i \in Nat : 1 <= i /\ i <= MaxCalls + 1 => i \in Ctxs
BY DEF Ctxs

(* Whoever is on his way is alone, and so is whoever sets out. *)
LEMMA Alone ==
    ASSUME SoleClient, IInv, NEW p \in Procs, pc[p] # "idle" \/ (p \in Conns /\ Receives(p))
    PROVE  \A q \in Procs \ {p} : pc[q] = "idle"
BY DEF SoleClient, IInv, SoloInv, Receives, Procs

(* Whoever is on his way goes on to another step, or ends. *)
LEMMA GoSolo ==
    ASSUME SoleClient, IInv, NEW p \in Procs, pc[p] # "idle" \/ (p \in Conns /\ Receives(p)),
           NEW step \in PCs, pc' = [pc EXCEPT ![p] = step],
           IF p = Main THEN step \in {"idle", "start", "setStop"} ELSE step # "boot"
    PROVE  /\ pc' \in [Procs -> PCs] /\ pc'[p] = step
           /\ \A q \in Procs \ {p} : pc'[q] = "idle" /\ pc[q] = "idle"
           /\ SoloInv'
<1>1. /\ pc' \in [Procs -> PCs] /\ pc'[p] = step
      /\ \A q \in Procs \ {p} : pc'[q] = pc[q]
  BY DEF IInv, TypeOK
<1>2. \A q \in Procs \ {p} : pc'[q] = "idle" /\ pc[q] = "idle"
  BY <1>1, Alone
<1>3. SoloInv'
  BY <1>1, <1>2 DEF IInv, SoloInv, Procs
<1>. QED
  BY <1>1, <1>2, <1>3

(* Nothing of this changes while the monitors come and go. *)
LEMMA ControlKeeps ==
    ASSUME IInv, UNCHANGED <<config, engine, monCtx, monStop, made, cancelled, switched, control, bounds>>
    PROVE  SoloInv' /\ CountInv' /\ WayInv' /\ EngineInv' /\ EnabledInv'
<1>1. SoloInv' /\ CountInv'
  BY DEF IInv, SoloInv, CountInv
<1>2. WayInv'
  BY DEF IInv, WayInv
<1>3. EngineInv' /\ EnabledInv'
  BY DEF IInv, EngineInv, EnabledInv, Known
<1>. QED
  BY <1>1, <1>2, <1>3

-----------------------------------------------------------------------------
(* Messages *)

LEMMA SettingsGetKeeps ==
    ASSUME IInv, NEW c \in Conns, SettingsGet(c) PROVE IInv'
<1>1. TypeOK'
  BY DEF SettingsGet, IInv, TypeOK
<1>2. SoloInv' /\ CountInv' /\ WayInv' /\ EngineInv' /\ EnabledInv'
  BY ControlKeeps DEF SettingsGet
<1>3. StepInv' /\ GoroutineInv'
  BY DEF SettingsGet, IInv, StepInv, GoroutineInv
<1>. QED
  BY <1>1, <1>2, <1>3 DEF IInv

(* A message that changes the configuration and goes on with step: it sets *)
(* out to apply the change, or leaves what matters as it was, or its save  *)
(* has failed.                                                             *)
Message(c, step) ==
    /\ Changes(c)
    /\ cfg' \in Config
    /\ \/ disk' = cfg' /\ faults' = faults
       \/ disk' = disk /\ faults' = faults + 1
    /\ copy' \in [Conns -> Config] /\ restored' \subseteq Paths
    /\ pc' = [pc EXCEPT ![c] = step]
    /\ then' \in [Procs -> {"idle", "decide"}]
    /\ faults' = faults /\ step = "idle" => cfg' = cfg
    /\ faults' = faults /\ step = "read" /\ then'[c] = "idle" =>
          cfg'.enabled = cfg.enabled

Replies == {"read", "idle"}

LEMMA MessageKeeps ==
    ASSUME SoleClient, IInv, NEW c \in Conns, NEW step \in Replies, Message(c, step)
    PROVE  IInv'
<1>. USE DEF Replies, Message
<1>1. /\ c \in Procs /\ c # Main /\ step \in PCs
      /\ UNCHANGED <<engine, monCtx, monStop, made, cancelled, goroutines, switched, snap,
                     mine, life, restarts>>
      /\ calls < MaxCalls /\ calls' = calls + 1 /\ Receives(c) /\ pc[c] = "idle"
  BY DEF Changes, Procs, PCs, Receives
<1>2. /\ pc' \in [Procs -> PCs] /\ pc'[c] = step
      /\ \A q \in Procs \ {c} : pc'[q] = "idle" /\ pc[q] = "idle"
      /\ SoloInv'
  BY <1>1, GoSolo
<1>3. TypeOK'
  <2>1. calls' \in Nat /\ faults' \in Nat
    BY <1>1 DEF IInv, TypeOK
  <2>. QED
    BY <1>1, <1>2, <2>1 DEF IInv, TypeOK
<1>4. CountInv'
  <2>1. calls \in Nat /\ made \in Nat /\ Main \in Procs
    BY DEF IInv, TypeOK, Procs
  <2>. QED
    BY <1>1, <1>2, <2>1 DEF IInv, CountInv, Procs
<1>5. WayInv'
  BY <1>1, <1>2 DEF WayInv
<1>6. StepInv' /\ GoroutineInv'
  BY <1>1, <1>2 DEF IInv, StepInv, GoroutineInv
<1>7. ASSUME faults' = faults + 1 PROVE EngineInv' /\ EnabledInv'
  <2>1. faults' # 0
    BY <1>7 DEF IInv, TypeOK
  <2>. QED
    BY <1>1, <1>2, <2>1 DEF EngineInv, EnabledInv
<1>8. ASSUME faults' = faults PROVE EngineInv' /\ EnabledInv'
  <2>1. \A q \in Procs : pc[q] = "idle"
    BY <1>1, <1>2
  <2>2. faults = 0 => engine = Known(cfg) /\ (cfg.enabled <=> monCtx # None)
    BY <2>1 DEF IInv, EngineInv, EnabledInv
  <2>3. EngineInv'
    BY <1>1, <1>2, <1>8, <2>2 DEF EngineInv
  <2>4. EnabledInv'
    BY <1>1, <1>2, <1>8, <2>2 DEF EnabledInv
  <2>. QED
    BY <2>3, <2>4
<1>. QED
  BY <1>2, <1>3, <1>4, <1>5, <1>6, <1>7, <1>8 DEF IInv

(* Either way of Set and Update. *)
LEMMA Saves ==
    ASSUME IInv, NEW new, Saved(new) \/ SaveFails(new)
    PROVE  /\ \/ cfg' = new /\ disk' = new /\ faults' = faults
              \/ cfg' \in {cfg, new} /\ disk' = disk /\ faults' = faults + 1
           /\ cfg' \in {cfg, new}
           /\ SaveFails(new) => faults' # faults
BY DEF Saved, SaveFails, IInv, TypeOK

LEMMA EditedIsConfig ==
    ASSUME TypeOK, NEW c \in Conns PROVE Edited(c) \subseteq Config
<1>1. copy[c] \in Config
  BY DEF TypeOK
<1>2. SUFFICES ASSUME NEW new \in Edited(c) PROVE new \in Config
  OBVIOUS
<1>3. CASE new \in {[copy[c] EXCEPT !.enabled = ~@], [copy[c] EXCEPT !.guard = ~@],
                   [copy[c] EXCEPT !.encrypt = ~@]}
  BY <1>1, <1>3 DEF Config
<1>4. ASSUME NEW f \in SUBSET Monitors, new = [copy[c] EXCEPT !.flags = f]
      PROVE  new \in Config
  BY <1>1, <1>4 DEF Config
<1>5. ASSUME NEW w \in SUBSET Names, new = [copy[c] EXCEPT !.white = w]
      PROVE  new \in Config
  BY <1>1, <1>5 DEF Config
<1>6. ASSUME NEW d \in SUBSET Domains, new = [copy[c] EXCEPT !.domains = d]
      PROVE  new \in Config
  BY <1>1, <1>6 DEF Config
<1>7. ASSUME NEW x \in SUBSET Paths, new = [copy[c] EXCEPT !.excl = x]
      PROVE  new \in Config
  BY <1>1, <1>7 DEF Config
<1>. QED
  BY <1>3, <1>4, <1>5, <1>6, <1>7 DEF Edited

LEMMA SettingsSetIsMessage ==
    ASSUME IInv, NEW c \in Conns, SettingsSet(c)
    PROVE  \E step \in Replies : Message(c, step)
<1>1. PICK new \in Edited(c) :
          /\ copy' = [copy EXCEPT ![c] = new]
          /\ restored' = restored \ (copy[c].excl \ new.excl)
          /\ \/ Saved(new) /\ Apply(c, "decide")
             \/ SaveFails(new) /\ Reply
  BY DEF SettingsSet
<1>2. new \in Config /\ copy' \in [Conns -> Config] /\ restored' \subseteq Paths /\ c \in Procs
  BY <1>1, EditedIsConfig DEF IInv, TypeOK, Procs
<1>3. Changes(c)
  BY DEF SettingsSet
<1>4. CASE Saved(new) /\ Apply(c, "decide")
  <2>1. /\ pc' = [pc EXCEPT ![c] = "read"]
        /\ then' \in [Procs -> {"idle", "decide"}] /\ then'[c] = "decide"
    BY <1>2, <1>4 DEF Apply, Goto, IInv, TypeOK
  <2>2. Message(c, "read")
    BY <1>2, <1>3, <1>4, <2>1 DEF Message, Saved
  <2>. QED
    BY <1>2, <2>2 DEF Replies
<1>5. CASE SaveFails(new) /\ Reply
  <2>1. pc' = [pc EXCEPT ![c] = "idle"] /\ then' \in [Procs -> {"idle", "decide"}]
    BY <1>2, <1>3, <1>5 DEF Reply, Changes, Receives, IInv, TypeOK
  <2>2. faults' # faults
    BY <1>5 DEF SaveFails, IInv, TypeOK
  <2>3. Message(c, "idle")
    BY <1>2, <1>3, <1>5, <2>1, <2>2, Saves DEF Message, IInv, TypeOK
  <2>. QED
    BY <2>3 DEF Replies
<1>. QED
  BY <1>1, <1>4, <1>5

LEMMA ToggleIsMessage ==
    ASSUME IInv, NEW c \in Conns, ToggleRealTime(c)
    PROVE  \E step \in Replies : Message(c, step)
<1>1. PICK on \in BOOLEAN : \/ Saved([cfg EXCEPT !.enabled = on])
                            \/ SaveFails([cfg EXCEPT !.enabled = on])
  BY DEF ToggleRealTime
<1>2. [cfg EXCEPT !.enabled = on] \in Config
  BY DEF IInv, TypeOK, Config
<1>3. Changes(c) /\ copy' \in [Conns -> Config] /\ restored' \subseteq Paths
  BY DEF ToggleRealTime, IInv, TypeOK
<1>4. /\ pc' = [pc EXCEPT ![c] = "read"]
      /\ then' \in [Procs -> {"idle", "decide"}] /\ then'[c] = "decide"
  BY DEF ToggleRealTime, Apply, Goto, IInv, TypeOK, Procs
<1>5. Message(c, "read")
  BY <1>1, <1>2, <1>3, <1>4, Saves DEF Message, IInv, TypeOK
<1>. QED
  BY <1>5 DEF Replies

LEMMA AllowIsMessage ==
    ASSUME IInv, NEW c \in Conns, Allow(c)
    PROVE  \E step \in Replies : Message(c, step)
<1>1. PICK n \in Names :
          \/ Saved([cfg EXCEPT !.white = @ \cup {n}]) /\ Apply(c, "idle")
          \/ SaveFails([cfg EXCEPT !.white = @ \cup {n}]) /\ Reply
  BY DEF Allow
<1>. DEFINE new == [cfg EXCEPT !.white = @ \cup {n}]
<1>2. new \in Config /\ new.enabled = cfg.enabled /\ c \in Procs
  BY DEF IInv, TypeOK, Config, Procs
<1>3. Changes(c) /\ copy' \in [Conns -> Config] /\ restored' \subseteq Paths
  BY DEF Allow, IInv, TypeOK
<1>. HIDE DEF new
<1>4. CASE Saved(new) /\ Apply(c, "idle")
  <2>1. /\ pc' = [pc EXCEPT ![c] = "read"]
        /\ then' \in [Procs -> {"idle", "decide"}]
    BY <1>2, <1>4 DEF Apply, Goto, IInv, TypeOK
  <2>2. Message(c, "read")
    BY <1>2, <1>3, <1>4, <2>1 DEF Message, Saved
  <2>. QED
    BY <1>2, <2>2 DEF Replies
<1>5. CASE SaveFails(new) /\ Reply
  <2>1. pc' = [pc EXCEPT ![c] = "idle"] /\ then' \in [Procs -> {"idle", "decide"}]
    BY <1>2, <1>3, <1>5 DEF Reply, Changes, Receives, IInv, TypeOK
  <2>2. faults' # faults
    BY <1>5 DEF SaveFails, IInv, TypeOK
  <2>3. Message(c, "idle")
    BY <1>2, <1>3, <1>5, <2>1, <2>2, Saves DEF Message, IInv, TypeOK
  <2>. QED
    BY <2>3 DEF Replies
<1>. QED
  BY <1>1, <1>4, <1>5 DEF new

LEMMA ExcludeIsMessage ==
    ASSUME IInv, NEW c \in Conns, Exclude(c)
    PROVE  \E step \in Replies : Message(c, step)
<1>1. PICK p \in Paths :
          \/ /\ Saved([cfg EXCEPT !.excl = @ \cup {p}])
             /\ restored' = restored \cup {p}
             /\ \/ p \notin cfg.excl /\ Apply(c, "idle")
                \/ p \in cfg.excl /\ Reply
          \/ SaveFails([cfg EXCEPT !.excl = @ \cup {p}]) /\ Reply /\ UNCHANGED restored
  BY DEF Exclude
<1>. DEFINE new == [cfg EXCEPT !.excl = @ \cup {p}]
<1>2. new \in Config /\ new.enabled = cfg.enabled /\ c \in Procs
  BY DEF IInv, TypeOK, Config, Procs
<1>3. p \in cfg.excl => new = cfg
  BY DEF IInv, TypeOK, Config
<1>4. Changes(c) /\ copy' \in [Conns -> Config] /\ restored' \subseteq Paths
  BY <1>1 DEF Exclude, IInv, TypeOK
<1>. HIDE DEF new
<1>5. CASE Saved(new) /\ Apply(c, "idle")
  <2>1. /\ pc' = [pc EXCEPT ![c] = "read"]
        /\ then' \in [Procs -> {"idle", "decide"}]
    BY <1>2, <1>5 DEF Apply, Goto, IInv, TypeOK
  <2>2. Message(c, "read")
    BY <1>2, <1>4, <1>5, <2>1 DEF Message, Saved
  <2>. QED
    BY <1>2, <2>2 DEF Replies
<1>6. CASE Reply /\ ((Saved(new) /\ p \in cfg.excl) \/ SaveFails(new))
  <2>1. pc' = [pc EXCEPT ![c] = "idle"] /\ then' \in [Procs -> {"idle", "decide"}]
    BY <1>2, <1>4, <1>6 DEF Reply, Changes, Receives, IInv, TypeOK
  <2>2. faults' = faults => new = cfg
    BY <1>3, <1>6 DEF SaveFails, IInv, TypeOK
  <2>3. Message(c, "idle")
    BY <1>2, <1>4, <1>6, <2>1, <2>2, Saves DEF Message, IInv, TypeOK
  <2>. QED
    BY <2>3 DEF Replies
<1>. QED
  BY <1>1, <1>5, <1>6 DEF new

(* Whatever the client sends changes nothing, or is such a message. *)
LEMMA HandleIsMessage ==
    ASSUME IInv, NEW c \in Conns, Handle(c)
    PROVE  SettingsGet(c) \/ \E step \in Replies : Message(c, step)
BY SettingsSetIsMessage, ToggleIsMessage, AllowIsMessage, ExcludeIsMessage DEF Handle

-----------------------------------------------------------------------------
(* The way through ApplyConfig and reconcileMonitors *)

(* A step on the way that makes no context and starts nothing. *)
LEMMA OnTheWay ==
    ASSUME SoleClient, IInv, NEW p \in Procs, pc[p] # "idle",
           NEW step \in PCs, pc' = [pc EXCEPT ![p] = step],
           IF p = Main THEN step \in {"idle", "start", "setStop"} ELSE step # "boot",
           UNCHANGED <<config, made, mine, then, copy, life, bounds, restored, goroutines>>
    PROVE  /\ pc' \in [Procs -> PCs] /\ pc'[p] = step
           /\ \A q \in Procs \ {p} : pc'[q] = "idle" /\ pc[q] = "idle"
           /\ SoloInv'
BY GoSolo

(* As for OnTheWay, when the monitors are left alone as well. *)
LEMMA MonsKeep ==
    ASSUME SoleClient, IInv, NEW p \in Procs, pc[p] # "idle",
           NEW step \in PCs, pc' = [pc EXCEPT ![p] = step],
           IF p = Main THEN step \in {"idle", "start"} ELSE step # "boot",
           pc[p] \notin {"setStop", "clearCtx", "clearStop"},
           step \notin {"setStop", "clearCtx", "clearStop"},
           p # Main /\ step \in {"read", "lists", "flag", "decide", "check", "start"} =>
               pc[p] \in {"read", "lists", "flag", "decide", "check"},
           p = Main /\ step = "start" => pc[p] = "boot",
           step \in {"lists", "flag", "check"} => snap'[p] \in Config,
           step = "start" => monCtx = None,
           step = "stopMon" => monCtx # None,
           snap' \in [Procs -> Config \cup {None}],
           engine' \in [enabled : BOOLEAN, white : SUBSET Names, excl : SUBSET Paths],
           UNCHANGED <<config, mons, mine, then, copy, life, bounds, restored>>
    PROVE  TypeOK' /\ SoloInv' /\ CountInv' /\ WayInv' /\ StepInv' /\ GoroutineInv'
<1>1. /\ pc' \in [Procs -> PCs] /\ pc'[p] = step
      /\ \A q \in Procs \ {p} : pc'[q] = "idle" /\ pc[q] = "idle"
      /\ SoloInv'
  BY OnTheWay
<1>2. TypeOK'
  BY <1>1 DEF IInv, TypeOK
<1>3. CountInv'
  BY <1>1 DEF IInv, CountInv, Procs
<1>4. WayInv'
  <2>1. \A q \in Procs \ {p} : pc'[q] = "idle"
    BY <1>1
  <2>2. /\ pc'[p] \in {"lists", "flag", "check", "setStop"} => snap'[p] \in Config
        /\ pc'[p] \in {"boot", "start", "clearStop"} => monCtx' = None
        /\ pc'[p] # "setStop"
        /\ pc'[p] = "stopMon" => monCtx' # None
        /\ pc'[p] = "clearCtx" => monCtx' \in cancelled'
    BY <1>1 DEF IInv, SoloInv
  <2>. QED
    BY <2>1, <2>2 DEF WayInv
<1>5. StepInv' /\ GoroutineInv'
  BY <1>1 DEF IInv, StepInv, GoroutineInv
<1>. QED
  BY <1>1, <1>2, <1>3, <1>4, <1>5

LEMMA ApplyReadKeeps ==
    ASSUME SoleClient, IInv, NEW p \in Procs, ApplyRead(p) PROVE IInv'
<1>1. /\ pc[p] = "read" /\ p # Main /\ pc' = [pc EXCEPT ![p] = "lists"]
      /\ snap' = [snap EXCEPT ![p] = cfg]
      /\ UNCHANGED <<config, engine, mons, mine, then, copy, life, bounds, restored>>
  BY DEF ApplyRead, At, Goto, IInv, SoloInv
<1>2. /\ snap' \in [Procs -> Config \cup {None}] /\ snap'[p] = cfg /\ cfg \in Config
      /\ engine' \in [enabled : BOOLEAN, white : SUBSET Names, excl : SUBSET Paths]
  BY <1>1 DEF IInv, TypeOK
<1>3. /\ pc'[p] = "lists"
      /\ \A q \in Procs \ {p} : pc'[q] = "idle" /\ pc[q] = "idle"
  BY <1>1, OnTheWay DEF PCs
<1>4. TypeOK' /\ SoloInv' /\ CountInv' /\ WayInv' /\ StepInv' /\ GoroutineInv'
  BY <1>1, <1>2, MonsKeep DEF PCs
<1>5. EngineInv'
  BY <1>1, <1>2, <1>3 DEF EngineInv
<1>6. EnabledInv'
  BY <1>1, <1>3 DEF IInv, EnabledInv
<1>. QED
  BY <1>4, <1>5, <1>6 DEF IInv

LEMMA ApplyListsKeeps ==
    ASSUME SoleClient, IInv, NEW p \in Procs, ApplyLists(p) PROVE IInv'
<1>1. /\ pc[p] = "lists" /\ p # Main /\ pc' = [pc EXCEPT ![p] = "flag"]
      /\ engine' = [engine EXCEPT !.white = snap[p].white, !.excl = snap[p].excl]
      /\ UNCHANGED <<config, mons, snap, mine, then, copy, life, bounds, restored>>
  BY DEF ApplyLists, At, Goto, IInv, SoloInv
<1>2. /\ snap' \in [Procs -> Config \cup {None}] /\ snap[p] \in Config
      /\ engine' \in [enabled : BOOLEAN, white : SUBSET Names, excl : SUBSET Paths]
      /\ engine'.white = snap[p].white /\ engine'.excl = snap[p].excl
  <2>1. snap[p] \in Config
    BY <1>1 DEF IInv, WayInv
  <2>. QED
    BY <1>1, <2>1 DEF IInv, TypeOK, Config
<1>3. /\ pc'[p] = "flag"
      /\ \A q \in Procs \ {p} : pc'[q] = "idle" /\ pc[q] = "idle"
  BY <1>1, OnTheWay DEF PCs
<1>4. TypeOK' /\ SoloInv' /\ CountInv' /\ WayInv' /\ StepInv' /\ GoroutineInv'
  BY <1>1, <1>2, MonsKeep DEF PCs
<1>5. EngineInv'
  BY <1>1, <1>2, <1>3 DEF IInv, EngineInv
<1>6. EnabledInv'
  BY <1>1, <1>3 DEF IInv, EnabledInv
<1>. QED
  BY <1>4, <1>5, <1>6 DEF IInv

LEMMA ApplyFlagKeeps ==
    ASSUME SoleClient, IInv, NEW p \in Procs, ApplyFlag(p) PROVE IInv'
<1>1. /\ pc[p] = "flag" /\ p # Main /\ pc' = [pc EXCEPT ![p] = then[p]]
      /\ engine' = [engine EXCEPT !.enabled = snap[p].enabled]
      /\ then[p] \in {"idle", "decide"}
      /\ UNCHANGED <<config, mons, snap, mine, then, copy, life, bounds, restored>>
  BY DEF ApplyFlag, At, Goto, IInv, SoloInv, TypeOK
<1>2. /\ snap' \in [Procs -> Config \cup {None}] /\ snap[p] \in Config
      /\ engine' \in [enabled : BOOLEAN, white : SUBSET Names, excl : SUBSET Paths]
      /\ engine'.white = engine.white /\ engine'.excl = engine.excl
      /\ engine'.enabled = snap[p].enabled
  <2>1. snap[p] \in Config
    BY <1>1 DEF IInv, WayInv
  <2>. QED
    BY <1>1, <2>1 DEF IInv, TypeOK, Config
<1>3. /\ pc'[p] = then[p]
      /\ \A q \in Procs \ {p} : pc'[q] = "idle" /\ pc[q] = "idle"
  BY <1>1, OnTheWay DEF PCs
<1>4. TypeOK' /\ SoloInv' /\ CountInv' /\ WayInv' /\ StepInv' /\ GoroutineInv'
  BY <1>1, <1>2, MonsKeep DEF PCs
<1>5. EngineInv'
  <2>1. faults = 0 => engine' = Known(cfg)
    BY <1>1, <1>2 DEF IInv, EngineInv, Known
  <2>. QED
    BY <1>1, <1>3, <2>1 DEF EngineInv
<1>6. EnabledInv'
  BY <1>1, <1>3 DEF IInv, EnabledInv
<1>. QED
  BY <1>4, <1>5, <1>6 DEF IInv

LEMMA DecideKeeps ==
    ASSUME SoleClient, IInv, NEW p \in Procs, Decide(p) PROVE IInv'
<1>1. /\ pc[p] = "decide" /\ p # Main /\ pc' = [pc EXCEPT ![p] = "check"]
      /\ snap' = [snap EXCEPT ![p] = cfg]
      /\ UNCHANGED <<config, engine, mons, mine, then, copy, life, bounds, restored>>
  BY DEF Decide, At, Goto, IInv, SoloInv
<1>2. /\ snap' \in [Procs -> Config \cup {None}] /\ snap'[p] = cfg /\ cfg \in Config
      /\ engine' \in [enabled : BOOLEAN, white : SUBSET Names, excl : SUBSET Paths]
  BY <1>1 DEF IInv, TypeOK
<1>3. /\ pc'[p] = "check"
      /\ \A q \in Procs \ {p} : pc'[q] = "idle" /\ pc[q] = "idle"
  BY <1>1, OnTheWay DEF PCs
<1>4. TypeOK' /\ SoloInv' /\ CountInv' /\ WayInv' /\ StepInv' /\ GoroutineInv'
  BY <1>1, <1>2, MonsKeep DEF PCs
<1>5. EngineInv'
  BY <1>1, <1>2, <1>3 DEF IInv, EngineInv
<1>6. EnabledInv'
  BY <1>1, <1>2, <1>3 DEF EnabledInv
<1>. QED
  BY <1>4, <1>5, <1>6 DEF IInv

(* What the configuration asks for is what runs, or is set out for. *)
LEMMA CheckKeeps ==
    ASSUME SoleClient, IInv, NEW p \in Procs, Check(p) PROVE IInv'
<1>1. /\ pc[p] = "check" /\ p # Main
      /\ UNCHANGED <<config, engine, mons, snap, mine, then, copy, life, bounds, restored>>
  BY DEF Check, At, IInv, SoloInv
<1>2. PICK step \in {"start", "stopMon", "idle"} :
          /\ pc' = [pc EXCEPT ![p] = step]
          /\ step = "start" => snap[p].enabled /\ monCtx = None
          /\ step = "stopMon" => ~snap[p].enabled /\ monCtx # None
          /\ step = "idle" => (snap[p].enabled <=> monCtx # None)
  <2>1. snap[p].enabled \in BOOLEAN
    BY <1>1 DEF IInv, WayInv, Config
  <2>. QED
    BY <2>1 DEF Check, Goto
<1>3. /\ snap' \in [Procs -> Config \cup {None}]
      /\ engine' \in [enabled : BOOLEAN, white : SUBSET Names, excl : SUBSET Paths]
  BY <1>1 DEF IInv, TypeOK
<1>4. /\ pc'[p] = step
      /\ \A q \in Procs \ {p} : pc'[q] = "idle" /\ pc[q] = "idle"
  BY <1>1, <1>2, OnTheWay DEF PCs
<1>5. TypeOK' /\ SoloInv' /\ CountInv' /\ WayInv' /\ StepInv' /\ GoroutineInv'
  BY <1>1, <1>2, <1>3, MonsKeep DEF PCs
<1>6. EngineInv'
  BY <1>1, <1>4 DEF IInv, EngineInv
<1>7. EnabledInv'
  <2>1. faults = 0 => snap[p] = cfg
    BY <1>1 DEF IInv, EnabledInv
  <2>. QED
    BY <1>1, <1>2, <1>4, <2>1 DEF EnabledInv
<1>. QED
  BY <1>5, <1>6, <1>7 DEF IInv

LEMMA BootKeeps == ASSUME SoleClient, IInv, Boot PROVE IInv'
<1>1. /\ Main \in Procs /\ pc[Main] = "boot"
      /\ UNCHANGED <<config, engine, mons, snap, mine, then, copy, life, bounds, restored>>
  BY DEF Boot, At, Procs
<1>2. PICK step \in {"start", "idle"} :
          /\ pc' = [pc EXCEPT ![Main] = step]
          /\ cfg.enabled <=> step = "start"
  BY DEF Boot, Goto
<1>3. /\ snap' \in [Procs -> Config \cup {None}] /\ monCtx = None
      /\ engine' \in [enabled : BOOLEAN, white : SUBSET Names, excl : SUBSET Paths]
  BY <1>1 DEF IInv, TypeOK, WayInv
<1>4. /\ pc'[Main] = step
      /\ \A q \in Procs \ {Main} : pc'[q] = "idle" /\ pc[q] = "idle"
  BY <1>1, <1>2, OnTheWay DEF PCs
<1>5. TypeOK' /\ SoloInv' /\ CountInv' /\ WayInv' /\ StepInv' /\ GoroutineInv'
  BY <1>1, <1>2, <1>3, MonsKeep DEF PCs
<1>6. EngineInv'
  BY <1>1, <1>4 DEF IInv, EngineInv
<1>7. EnabledInv'
  BY <1>1, <1>2, <1>3, <1>4 DEF EnabledInv
<1>. QED
  BY <1>5, <1>6, <1>7 DEF IInv

-----------------------------------------------------------------------------
(* The monitors *)

(* A context is made that nobody has had before. *)
LEMMA StartKeeps ==
    ASSUME SoleClient, IInv, NEW p \in Procs, Start(p) PROVE IInv'
<1>1. /\ pc[p] = "start" /\ made' = made + 1 /\ monCtx' = made + 1
      /\ mine' = [mine EXCEPT ![p] = made + 1] /\ snap' = [snap EXCEPT ![p] = cfg]
      /\ pc' = [pc EXCEPT ![p] = "setStop"] /\ switched' = cfg.flags
      /\ UNCHANGED <<config, engine, monStop, cancelled, goroutines, then, copy, life, bounds,
                     restored>>
  BY DEF Start, At, Goto
<1>2. /\ pc' \in [Procs -> PCs] /\ pc'[p] = "setStop"
      /\ \A q \in Procs \ {p} : pc'[q] = "idle" /\ pc[q] = "idle"
      /\ SoloInv'
  BY <1>1, GoSolo DEF PCs
<1>3. /\ made \in Nat /\ calls \in Nat /\ calls <= MaxCalls
      /\ made <= calls
    \/ made = 0
  BY <1>1 DEF IInv, TypeOK, CountInv, Procs
<1>4. made \in Nat /\ calls \in Nat /\ calls <= MaxCalls /\ made + 1 <= calls + 1
  BY <1>3 DEF IInv, TypeOK, CountInv
<1>5. made + 1 \in Ctxs /\ made + 1 # None /\ made + 1 \notin cancelled
  <2>1. made + 1 \in Nat /\ 1 <= made + 1 /\ made + 1 <= MaxCalls + 1
    BY <1>4
  <2>2. \A i \in cancelled : i \in Nat /\ i <= made
    BY CtxsAreNumbers DEF IInv, TypeOK, CountInv
  <2>. QED
    BY <1>4, <2>1, <2>2, CtxsAreNumbers
<1>6. TypeOK'
  <2>1. cfg.flags \subseteq Monitors
    BY DEF IInv, TypeOK, Config
  <2>. QED
    BY <1>1, <1>2, <1>4, <1>5, <2>1 DEF IInv, TypeOK
<1>7. CountInv'
  <2>1. \A i \in cancelled : i \in Nat /\ i <= made
    BY CtxsAreNumbers DEF IInv, TypeOK, CountInv
  <2>2. pc'[Main] \notin {"boot", "start"}
        /\ \A c \in Conns :
              pc'[c] \notin {"read", "lists", "flag", "decide", "check", "start"}
    BY <1>2 DEF Procs
  <2>. QED
    BY <1>1, <1>4, <2>1, <2>2 DEF IInv, CountInv
<1>8. snap'[p] = cfg /\ mine'[p] = made + 1 /\ cfg \in Config /\ monCtx = None
  BY <1>1 DEF IInv, TypeOK, WayInv
<1>9. WayInv'
  BY <1>1, <1>2, <1>5, <1>8 DEF WayInv
<1>10. StepInv'
  BY <1>2 DEF StepInv
<1>11. GoroutineInv'
  BY <1>1, <1>8 DEF IInv, GoroutineInv
<1>12. EngineInv'
  BY <1>1, <1>2 DEF IInv, EngineInv
<1>13. EnabledInv'
  BY <1>1, <1>2 DEF IInv, EnabledInv
<1>. QED
  BY <1>2, <1>6, <1>7, <1>9, <1>10, <1>11, <1>12, <1>13 DEF IInv

(* The cancel function is that of the context, and the janitor has it. *)
LEMMA SetStopKeeps ==
    ASSUME SoleClient, IInv, NEW p \in Procs, SetStop(p) PROVE IInv'
<1>1. /\ pc[p] = "setStop" /\ monStop' = mine[p]
      /\ goroutines' = goroutines
           \cup {[mon |-> m, gen |-> mine[p], ctx |-> None] : m \in snap[p].flags}
           \cup {[mon |-> Janitor, gen |-> mine[p], ctx |-> c] : c \in {monCtx} \ {None}}
      /\ pc' = [pc EXCEPT ![p] = "idle"]
      /\ UNCHANGED <<config, engine, monCtx, made, cancelled, switched, snap, mine, then,
                     copy, bounds, restored>>
  BY DEF SetStop, At, Goto
<1>2. /\ monCtx = mine[p] /\ monCtx # None /\ monCtx \notin cancelled /\ snap[p] \in Config
      /\ monCtx \in Ctxs /\ snap[p].flags = switched
  BY <1>1 DEF IInv, WayInv, TypeOK
<1>3. UNCHANGED life
  BY <1>2 DEF SetStop
<1>4. /\ pc' \in [Procs -> PCs] /\ pc'[p] = "idle"
      /\ \A q \in Procs \ {p} : pc'[q] = "idle" /\ pc[q] = "idle"
      /\ SoloInv'
  BY <1>1, GoSolo DEF PCs
<1>5. goroutines' \subseteq Goroutine
  <2>1. snap[p].flags \subseteq Monitors
    BY <1>2 DEF Config
  <2>2. \A m \in snap[p].flags : [mon |-> m, gen |-> mine[p], ctx |-> None] \in Goroutine
    BY <1>2, <2>1 DEF Goroutine
  <2>3. [mon |-> Janitor, gen |-> mine[p], ctx |-> monCtx] \in Goroutine
    BY <1>2 DEF Goroutine
  <2>. QED
    BY <1>1, <2>2, <2>3 DEF IInv, TypeOK
<1>6. TypeOK'
  BY <1>1, <1>2, <1>3, <1>4, <1>5 DEF IInv, TypeOK
<1>7. CountInv'
  BY <1>1, <1>4 DEF IInv, CountInv, Procs
<1>8. WayInv'
  BY <1>4 DEF WayInv
<1>9. StepInv'
  <2>1. /\ [mon |-> Janitor, gen |-> mine[p], ctx |-> monCtx] \in goroutines'
        /\ \A m \in switched : [mon |-> m, gen |-> mine[p], ctx |-> None] \in goroutines'
    BY <1>1, <1>2
  <2>2. \A m \in switched \cup {Janitor} :
           \E g \in goroutines' : g.mon = m /\ g.ctx \in {monCtx, None}
    BY <2>1
  <2>. QED
    BY <1>1, <1>2, <2>2 DEF StepInv
<1>10. GoroutineInv'
  BY <1>1 DEF IInv, GoroutineInv
<1>11. EngineInv'
  BY <1>1, <1>4 DEF IInv, EngineInv
<1>12. EnabledInv'
  BY <1>1, <1>2, <1>4 DEF IInv, EnabledInv
<1>. QED
  BY <1>4, <1>6, <1>7, <1>8, <1>9, <1>10, <1>11, <1>12 DEF IInv

(* A monitor begins and ends beside the handlers; one whose context is not *)
(* cancelled stays.                                                        *)
LEMMA BeginKeeps == ASSUME IInv, NEW g \in Goroutine, Begin(g) PROVE IInv'
<1>1. /\ UNCHANGED <<config, engine, monCtx, monStop, made, cancelled, switched, control,
                     copy, bounds, restored>>
      /\ g \in goroutines /\ g.ctx = None
  BY DEF Begin
<1>2. \/ UNCHANGED goroutines
      \/ /\ monCtx # None
         /\ goroutines' = (goroutines \ {g}) \cup {[g EXCEPT !.ctx = monCtx]}
  BY DEF Begin
<1>3. /\ [g EXCEPT !.ctx = monCtx] \in Goroutine
      /\ [g EXCEPT !.ctx = monCtx].ctx = monCtx /\ [g EXCEPT !.ctx = monCtx].mon = g.mon
  BY DEF IInv, TypeOK, Goroutine
<1>4. TypeOK'
  <2>1. goroutines' \subseteq Goroutine
    BY <1>2, <1>3 DEF IInv, TypeOK
  <2>2. life' \in {"up", "panicked", "stopped"}
    BY DEF Begin, Panic, IInv, TypeOK
  <2>. QED
    BY <1>1, <2>1, <2>2 DEF IInv, TypeOK
<1>5. SoloInv' /\ CountInv' /\ WayInv' /\ EngineInv' /\ EnabledInv'
  BY <1>1, ControlKeeps
<1>6. GoroutineInv'
  BY <1>1, <1>2, <1>3 DEF IInv, GoroutineInv
<1>7. monCtx # None => \A h \in goroutines : h.ctx \in {monCtx, None} =>
         \E k \in goroutines' : k.mon = h.mon /\ k.ctx \in {monCtx, None}
  BY <1>1, <1>2, <1>3
<1>8. StepInv'
  BY <1>1, <1>7 DEF IInv, StepInv
<1>. QED
  BY <1>4, <1>5, <1>6, <1>8 DEF IInv

LEMMA EndKeeps == ASSUME IInv, NEW g \in Goroutine, End(g) PROVE IInv'
<1>1. /\ UNCHANGED <<config, engine, monCtx, monStop, made, cancelled, switched, control,
                     copy, life, bounds, restored>>
      /\ g.ctx \in cancelled /\ goroutines' = goroutines \ {g}
  BY DEF End
<1>2. TypeOK' /\ GoroutineInv'
  BY <1>1 DEF IInv, TypeOK, GoroutineInv
<1>3. SoloInv' /\ CountInv' /\ WayInv' /\ EngineInv' /\ EnabledInv'
  BY <1>1, ControlKeeps
<1>4. StepInv'
  <2>1. \A i \in cancelled : i # None
    BY DEF IInv, TypeOK
  <2>. QED
    BY <1>1, <2>1 DEF IInv, StepInv
<1>. QED
  BY <1>2, <1>3, <1>4 DEF IInv

(* The context is cancelled: the two fields were in step. *)
LEMMA StopMonitorsKeeps ==
    ASSUME SoleClient, IInv, NEW p \in Procs, StopMonitors(p) PROVE IInv'
<1>1. /\ pc[p] = "stopMon" /\ p # Main
      /\ UNCHANGED <<config, engine, monCtx, monStop, made, goroutines, switched, snap, mine,
                     then, copy, bounds, restored>>
  BY DEF StopMonitors, At, IInv, SoloInv
<1>2. monCtx # None /\ monStop = monCtx /\ monCtx \in Ctxs
  <2>1. \A q \in Procs : pc[q] \notin {"setStop", "clearCtx", "clearStop"}
    BY <1>1, Alone
  <2>. QED
    BY <1>1, <2>1 DEF IInv, StepInv, WayInv, TypeOK
<1>3. /\ cancelled' = cancelled \cup {monCtx} /\ UNCHANGED life
      /\ pc' = [pc EXCEPT ![p] = "clearCtx"]
  BY <1>2 DEF StopMonitors, Goto
<1>4. /\ pc' \in [Procs -> PCs] /\ pc'[p] = "clearCtx"
      /\ \A q \in Procs \ {p} : pc'[q] = "idle" /\ pc[q] = "idle"
      /\ SoloInv'
  BY <1>1, <1>3, GoSolo DEF PCs
<1>5. TypeOK'
  BY <1>1, <1>2, <1>3, <1>4 DEF IInv, TypeOK
<1>6. CountInv'
  BY <1>1, <1>2, <1>3, <1>4 DEF IInv, CountInv, Procs
<1>7. WayInv' /\ StepInv'
  BY <1>1, <1>3, <1>4 DEF WayInv, StepInv
<1>8. GoroutineInv'
  BY <1>1, <1>3 DEF IInv, GoroutineInv
<1>9. EngineInv' /\ EnabledInv'
  BY <1>1, <1>4 DEF IInv, EngineInv, EnabledInv
<1>. QED
  BY <1>4, <1>5, <1>6, <1>7, <1>8, <1>9 DEF IInv

LEMMA ClearCtxKeeps ==
    ASSUME SoleClient, IInv, NEW p \in Procs, ClearCtx(p) PROVE IInv'
<1>1. /\ pc[p] = "clearCtx" /\ p # Main /\ monCtx' = None
      /\ pc' = [pc EXCEPT ![p] = "clearStop"]
      /\ UNCHANGED <<config, engine, monStop, made, cancelled, goroutines, switched, snap, mine,
                     then, copy, life, bounds, restored>>
  BY DEF ClearCtx, At, Goto, IInv, SoloInv
<1>2. /\ pc' \in [Procs -> PCs] /\ pc'[p] = "clearStop"
      /\ \A q \in Procs \ {p} : pc'[q] = "idle" /\ pc[q] = "idle"
      /\ SoloInv'
  BY <1>1, GoSolo DEF PCs
<1>3. TypeOK'
  BY <1>1, <1>2 DEF IInv, TypeOK
<1>4. CountInv'
  BY <1>1, <1>2 DEF IInv, CountInv, Procs
<1>5. WayInv' /\ StepInv'
  BY <1>1, <1>2 DEF WayInv, StepInv
<1>6. GoroutineInv'
  BY <1>1 DEF IInv, WayInv, GoroutineInv
<1>7. EngineInv' /\ EnabledInv'
  BY <1>1, <1>2 DEF IInv, EngineInv, EnabledInv
<1>. QED
  BY <1>2, <1>3, <1>4, <1>5, <1>6, <1>7 DEF IInv

LEMMA ClearStopKeeps ==
    ASSUME SoleClient, IInv, NEW p \in Procs, ClearStop(p) PROVE IInv'
<1>1. /\ pc[p] = "clearStop" /\ p # Main /\ monStop' = None
      /\ pc' = [pc EXCEPT ![p] = "idle"]
      /\ UNCHANGED <<config, engine, monCtx, made, cancelled, goroutines, switched, snap, mine,
                     then, copy, life, bounds, restored>>
  BY DEF ClearStop, At, Goto, IInv, SoloInv
<1>2. /\ pc' \in [Procs -> PCs] /\ pc'[p] = "idle" /\ monCtx = None
      /\ \A q \in Procs \ {p} : pc'[q] = "idle" /\ pc[q] = "idle"
      /\ SoloInv'
  BY <1>1, GoSolo DEF PCs, IInv, WayInv
<1>3. TypeOK'
  BY <1>1, <1>2 DEF IInv, TypeOK
<1>4. CountInv'
  BY <1>1, <1>2 DEF IInv, CountInv, Procs
<1>5. WayInv' /\ StepInv'
  BY <1>1, <1>2 DEF WayInv, StepInv
<1>6. GoroutineInv'
  BY <1>1 DEF IInv, GoroutineInv
<1>7. EngineInv' /\ EnabledInv'
  BY <1>1, <1>2 DEF IInv, EngineInv, EnabledInv
<1>. QED
  BY <1>2, <1>3, <1>4, <1>5, <1>6, <1>7 DEF IInv

-----------------------------------------------------------------------------
(* The end of the process, and the next one *)

LEMMA StopKeeps == ASSUME IInv, Stop PROVE IInv'
<1>1. TypeOK'
  BY DEF Stop, IInv, TypeOK
<1>2. SoloInv' /\ CountInv' /\ WayInv' /\ EngineInv' /\ EnabledInv'
  BY ControlKeeps DEF Stop
<1>3. StepInv' /\ GoroutineInv'
  BY DEF Stop, IInv, StepInv, GoroutineInv
<1>. QED
  BY <1>1, <1>2, <1>3 DEF IInv

(* What the service is like when run() has not started the monitors yet. *)
LEMMA FreshKeeps ==
    ASSUME NEW c \in Config, NEW n \in Nat, n <= MaxCalls,
           cfg' = c, engine' = Known(c), monCtx' = None, monStop' = None,
           made' = 0, cancelled' = {}, goroutines' = {}, switched' = {}, calls' = n,
           pc' = Here("boot"), snap' = Nothing, mine' = Nothing, then' = Here("idle"),
           disk' \in Config, copy' \in [Conns -> Config],
           life' \in {"up", "panicked", "stopped"}, faults' \in Nat, restarts' \in Nat,
           restored' \subseteq Paths
    PROVE  IInv'
<1>1. pc'[Main] = "boot" /\ \A q \in Procs : q # Main => pc'[q] = "idle"
  BY DEF Here, Procs
<1>2. TypeOK'
  <2>1. pc' \in [Procs -> PCs] /\ then' \in [Procs -> {"idle", "decide"}]
    BY DEF Here, PCs
  <2>2. snap' \in [Procs -> Config \cup {None}] /\ mine' \in [Procs -> Ctxs \cup {None}]
    BY DEF Nothing
  <2>3. engine' \in [enabled : BOOLEAN, white : SUBSET Names, excl : SUBSET Paths]
    BY DEF Known, Config
  <2>. QED
    BY <2>1, <2>2, <2>3 DEF TypeOK
<1>3. SoloInv' /\ CountInv' /\ WayInv' /\ StepInv' /\ GoroutineInv'
  BY <1>1 DEF SoloInv, CountInv, WayInv, StepInv, GoroutineInv, Procs
<1>4. EngineInv' /\ EnabledInv'
  BY <1>1 DEF EngineInv, EnabledInv, Procs
<1>. QED
  BY <1>2, <1>3, <1>4 DEF IInv

LEMMA RestartKeeps == ASSUME IInv, Restart PROVE IInv'
<1>1. Merged(disk) \in Config
  BY DEF IInv, TypeOK, Merged, Filled, Default, Config
<1>2. calls \in Nat /\ calls <= MaxCalls /\ restarts \in Nat
  BY DEF IInv, TypeOK, CountInv
<1>. QED
  BY <1>1, <1>2, FreshKeeps DEF Restart, IInv, TypeOK

-----------------------------------------------------------------------------
(* Theorems *)

LEMMA NextInv == ASSUME SoleClient, IInv, [Next]_vars PROVE IInv'
<1>1. ASSUME NEW c \in Conns, Handle(c) PROVE IInv'
  BY <1>1, SettingsGetKeeps, HandleIsMessage, MessageKeeps
<1>2. ASSUME NEW p \in Procs, Reconcile(p) PROVE IInv'
  BY <1>2, ApplyReadKeeps, ApplyListsKeeps, ApplyFlagKeeps, DecideKeeps, CheckKeeps, StartKeeps,
     SetStopKeeps, StopMonitorsKeeps, ClearCtxKeeps, ClearStopKeeps
  DEF Reconcile
<1>3. ASSUME NEW g \in Goroutine, Begin(g) \/ End(g) PROVE IInv'
  BY <1>3, BeginKeeps, EndKeeps
<1>4. CASE UNCHANGED vars
  <2>1. TypeOK'
    BY <1>4 DEF IInv, TypeOK
  <2>2. SoloInv' /\ CountInv' /\ WayInv' /\ EngineInv' /\ EnabledInv'
    BY <1>4, ControlKeeps
  <2>3. StepInv' /\ GoroutineInv'
    BY <1>4 DEF IInv, StepInv, GoroutineInv
  <2>. QED
    BY <2>1, <2>2, <2>3 DEF IInv
<1>. QED
  BY <1>1, <1>2, <1>3, <1>4, BootKeeps, StopKeeps, RestartKeeps DEF Next

LEMMA InitInv == ASSUME Init PROVE IInv
<1>1. cfg \in Config /\ copy \in [Conns -> Config]
  BY DEF Init, Default, Config
<1>2. pc[Main] = "boot" /\ \A q \in Procs : q # Main => pc[q] = "idle"
  BY DEF Init, Here, Procs
<1>3. TypeOK
  <2>1. pc \in [Procs -> PCs] /\ then \in [Procs -> {"idle", "decide"}]
    BY DEF Init, Here, PCs
  <2>2. snap \in [Procs -> Config \cup {None}] /\ mine \in [Procs -> Ctxs \cup {None}]
    BY DEF Init, Nothing
  <2>3. engine \in [enabled : BOOLEAN, white : SUBSET Names, excl : SUBSET Paths]
    BY <1>1 DEF Init, Known, Config
  <2>. QED
    BY <1>1, <2>1, <2>2, <2>3 DEF Init, TypeOK
<1>4. SoloInv /\ CountInv /\ WayInv /\ StepInv /\ GoroutineInv
  BY <1>2 DEF Init, SoloInv, CountInv, WayInv, StepInv, GoroutineInv, Procs
<1>5. EngineInv /\ EnabledInv
  BY <1>2 DEF Init, EngineInv, EnabledInv, Procs
<1>. QED
  BY <1>3, <1>4, <1>5 DEF IInv

(* The invariant holds as long as one client speaks with the service. *)
THEOREM Invariance ==
    ASSUME SoleClient PROVE Spec => []IInv
<1>1. Init => IInv
  BY InitInv
<1>2. IInv /\ [Next]_vars => IInv'
  BY NextInv, SoleClient
<1>. QED
  BY <1>1, <1>2, PTL DEF Spec

(* Every variable keeps its type: no more contexts are made than messages  *)
(* ask for.                                                                *)
THEOREM TypeCorrect ==
    ASSUME SoleClient PROVE Spec => []TypeOK
<1>1. IInv => TypeOK
  BY DEF IInv
<1>. QED
  BY <1>1, Invariance, SoleClient, PTL

(* No message ends without the ApplyConfig its change needs: whatever is   *)
(* set, toggled, allowed or excluded, in any order.                        *)
THEOREM EngineIsToldOfChanges ==
    ASSUME SoleClient PROVE Spec => []EngineFollowsConfig
<1>1. IInv => EngineFollowsConfig
  BY DEF IInv, EngineInv, EngineFollowsConfig, Quiet
<1>. QED
  BY <1>1, Invariance, SoleClient, PTL

(* Protection that is off leaves no monitor running when all has settled,  *)
(* however many there are and whenever each of them reads its context.     *)
THEOREM OffStopsAll ==
    ASSUME SoleClient PROVE Spec => []OffMeansOff
<1>1. IInv => OffMeansOff
  <2>1. SUFFICES ASSUME IInv, Settled, faults = 0, ~cfg.enabled PROVE goroutines = {}
    BY DEF OffMeansOff
  <2>2. monCtx = None
    BY <2>1 DEF IInv, EnabledInv, Settled, Quiet
  <2>. QED
    BY <2>1, <2>2 DEF IInv, GoroutineInv, Settled
<1>. QED
  BY <1>1, Invariance, SoleClient, PTL

(* Protection that is on has a context that can be cancelled, and every    *)
(* monitor whose flag was set when it was switched on runs under it: see   *)
(* OnMeansOn.                                                              *)
THEOREM OnIsOn ==
    ASSUME SoleClient PROVE Spec => []OnMeansOn
<1>1. IInv => OnMeansOn
  <2>1. SUFFICES ASSUME IInv, Settled, faults = 0, cfg.enabled
                 PROVE  /\ monCtx # None /\ monCtx \notin cancelled /\ monStop = monCtx
                        /\ \A m \in switched \cup {Janitor} :
                              \E g \in goroutines : g.mon = m /\ g.ctx = monCtx
    BY DEF OnMeansOn
  <2>2. monCtx # None
    BY <2>1 DEF IInv, EnabledInv, Settled, Quiet
  <2>3. /\ monCtx \notin cancelled /\ monStop = monCtx
        /\ \A m \in switched \cup {Janitor} :
              \E g \in goroutines : g.mon = m /\ g.ctx \in {monCtx, None}
    BY <2>1, <2>2 DEF IInv, StepInv, Settled, Quiet
  <2>4. \A g \in goroutines : g.ctx # None
    BY <2>1 DEF Settled
  <2>. QED
    BY <2>2, <2>3, <2>4
<1>. QED
  BY <1>1, Invariance, SoleClient, PTL

-----------------------------------------------------------------------------
(* The settings as they are promised *)

Under == {"read", "lists", "flag"}

(* The installation somebody is in the middle of is the one there is. *)
DecidedRead ==
    /\ (\A q \in Procs : pc[q] # "flag") => Decided = engine
    /\ \A p \in Procs :
          pc[p] = "flag" /\ (\A q \in Procs \ {p} : pc[q] # "flag") =>
              Decided = [engine EXCEPT !.enabled = snap[p].enabled]

LEMMA ReadsDecided == DecidedRead /\ DecidedRead'
<1>1. DecidedRead
  BY DEF DecidedRead, Decided
<1>. QED
  BY <1>1, PTL

(* Without a step of ApplyConfig nothing becomes of the engine. *)
LEMMA QuietIsStutter ==
    ASSUME IInv, IInv', UNCHANGED <<config, engine, faults>>,
           \A p \in Procs : \/ pc'[p] = pc[p] /\ snap'[p] = snap[p]
                            \/ pc[p] \notin Under /\ pc'[p] \notin Under
    PROVE  UNCHANGED P!vars
<1>1. \A p \in Procs : (pc'[p] = "flag") <=> (pc[p] = "flag")
  BY DEF Under
<1>2. Decided' = Decided
  <2>1. CASE \A p \in Procs : pc[p] # "flag"
    BY <1>1, <2>1, ReadsDecided DEF DecidedRead
  <2>2. ASSUME NEW p \in Procs, pc[p] = "flag" PROVE Decided' = Decided
    <3>1. /\ \A q \in Procs \ {p} : pc[q] # "flag" /\ pc'[q] # "flag"
          /\ pc'[p] = "flag" /\ snap'[p] = snap[p]
      BY <1>1, <2>2 DEF IInv, SoloInv, Under
    <3>. QED
      BY <2>2, <3>1, ReadsDecided DEF DecidedRead
  <2>. QED
    BY <2>1, <2>2
<1>3. (\E p \in Procs : pc'[p] \in {"read", "lists"}) <=> (\E p \in Procs : pc[p] \in {"read", "lists"})
  BY DEF Under
<1>. QED
  BY <1>2, <1>3 DEF P!vars

(* A message finds the engine told of the one before. *)
LEMMA MessageImplements ==
    ASSUME SoleClient, IInv, NEW c \in Conns, NEW step \in Replies, Message(c, step)
    PROVE  P!Next
<1>1. /\ c \in Procs /\ c # Main /\ step \in PCs
      /\ UNCHANGED <<engine, snap>> /\ Receives(c) /\ pc[c] = "idle"
  BY DEF Changes, Message, Replies, Procs, PCs, Receives
<1>2. /\ pc' \in [Procs -> PCs] /\ pc'[c] = step
      /\ \A q \in Procs \ {c} : pc'[q] = "idle" /\ pc[q] = "idle"
  BY <1>1, GoSolo DEF Message, Replies
<1>3. Decided = engine /\ Decided' = engine
  BY <1>1, <1>2, ReadsDecided DEF DecidedRead, Replies
<1>4. /\ ~ \E p \in Procs : pc[p] \in {"read", "lists"}
      /\ (\E p \in Procs : pc'[p] \in {"read", "lists"}) <=> step = "read"
  BY <1>1, <1>2 DEF Replies
<1>5. faults' = faults => step = "read" \/ cfg' = cfg
  BY DEF Message, Replies
<1>6. PICK got \in Config : cfg' = got
  BY DEF Message
<1>7. P!Change(got)
  BY <1>3, <1>4, <1>5, <1>6 DEF P!Change, Message
<1>. QED
  BY <1>6, <1>7 DEF P!Next

(* The engine is given what the settings are now. *)
LEMMA ApplyListsImplements ==
    ASSUME SoleClient, IInv, NEW p \in Procs, ApplyLists(p) PROVE P!Next
<1>1. /\ pc[p] = "lists" /\ p # Main /\ pc' = [pc EXCEPT ![p] = "flag"]
      /\ engine' = [engine EXCEPT !.white = cfg.white, !.excl = cfg.excl]
      /\ snap[p] = cfg /\ cfg \in Config
      /\ UNCHANGED <<config, snap, faults>>
  BY DEF ApplyLists, At, Goto, IInv, SoloInv, TypeOK, EngineInv
<1>2. /\ pc'[p] = "flag"
      /\ \A q \in Procs \ {p} : pc'[q] = "idle" /\ pc[q] = "idle"
  BY <1>1, GoSolo DEF PCs
<1>3. Decided' = Known(cfg)
  <2>1. Decided' = [engine' EXCEPT !.enabled = cfg.enabled]
    BY <1>1, <1>2, ReadsDecided DEF DecidedRead
  <2>. QED
    BY <1>1, <2>1 DEF IInv, TypeOK, Known
<1>4. P!Adopt
  BY <1>1, <1>2, <1>3 DEF P!Adopt
<1>. QED
  BY <1>4 DEF P!Next

(* The flag was promised with the lists. *)
LEMMA ApplyFlagImplements ==
    ASSUME SoleClient, IInv, NEW p \in Procs, ApplyFlag(p) PROVE UNCHANGED P!vars
<1>1. /\ pc[p] = "flag" /\ p # Main /\ pc' = [pc EXCEPT ![p] = then[p]]
      /\ engine' = [engine EXCEPT !.enabled = snap[p].enabled]
      /\ then[p] \in {"idle", "decide"}
      /\ UNCHANGED <<config, snap, faults>>
  BY DEF ApplyFlag, At, Goto, IInv, SoloInv, TypeOK
<1>2. /\ pc'[p] = then[p]
      /\ \A q \in Procs \ {p} : pc'[q] = "idle" /\ pc[q] = "idle"
  BY <1>1, GoSolo DEF PCs
<1>3. Decided' = Decided
  BY <1>1, <1>2, ReadsDecided DEF DecidedRead
<1>4. /\ ~ \E q \in Procs : pc[q] \in {"read", "lists"}
      /\ ~ \E q \in Procs : pc'[q] \in {"read", "lists"}
  BY <1>1, <1>2
<1>. QED
  BY <1>1, <1>3, <1>4 DEF P!vars

(* What has been read is not installed yet. *)
LEMMA ApplyReadImplements ==
    ASSUME SoleClient, IInv, NEW p \in Procs, ApplyRead(p) PROVE UNCHANGED P!vars
<1>1. /\ pc[p] = "read" /\ p # Main /\ pc' = [pc EXCEPT ![p] = "lists"]
      /\ UNCHANGED <<config, engine, faults>>
  BY DEF ApplyRead, At, Goto, IInv, SoloInv
<1>2. /\ pc'[p] = "lists"
      /\ \A q \in Procs \ {p} : pc'[q] = "idle" /\ pc[q] = "idle"
  BY <1>1, GoSolo DEF PCs
<1>3. Decided' = engine /\ Decided = engine
  BY <1>1, <1>2, ReadsDecided DEF DecidedRead
<1>4. /\ \E q \in Procs : pc[q] \in {"read", "lists"}
      /\ \E q \in Procs : pc'[q] \in {"read", "lists"}
  BY <1>1, <1>2
<1>. QED
  BY <1>1, <1>3, <1>4 DEF P!vars

(* The monitors are none of the engine's. *)
LEMMA ReconcileImplements ==
    ASSUME SoleClient, IInv, IInv', NEW p \in Procs, Reconcile(p) PROVE [P!Next]_P!vars
<1>1. CASE ApplyRead(p) \/ ApplyLists(p) \/ ApplyFlag(p)
  BY <1>1, ApplyReadImplements, ApplyListsImplements, ApplyFlagImplements
<1>2. CASE \/ Decide(p) \/ Check(p) \/ Start(p) \/ SetStop(p)
           \/ StopMonitors(p) \/ ClearCtx(p) \/ ClearStop(p)
  <2>1. UNCHANGED <<config, engine, faults>>
    BY <1>2 DEF Decide, Check, Start, SetStop, StopMonitors, ClearCtx, ClearStop
  <2>2. /\ pc[p] \notin Under /\ pc'[p] \notin Under
        /\ \A q \in Procs \ {p} : pc'[q] = pc[q] /\ snap'[q] = snap[q]
    BY <1>2 DEF Decide, Check, Start, SetStop, StopMonitors, ClearCtx, ClearStop, At, Goto, Under,
       IInv, TypeOK
  <2>. QED
    BY <2>1, <2>2, QuietIsStutter
<1>. QED
  BY <1>1, <1>2 DEF Reconcile

LEMMA RestartImplements ==
    ASSUME IInv, Restart PROVE P!Next
<1>1. /\ cfg' = Merged(disk) /\ disk \in Config /\ Merged(disk) \in Config
      /\ engine' = Known(cfg') /\ pc' = Here("boot")
      /\ UNCHANGED <<disk, faults>>
  BY DEF Restart, IInv, TypeOK, Merged, Filled, Default, Config
<1>2. Merged(disk) = [disk EXCEPT !.guard = TRUE, !.encrypt = TRUE,
                                  !.white = IF @ # {} THEN @ ELSE DefaultNames,
                                  !.domains = IF @ # {} THEN @ ELSE DefaultDomains]
  BY <1>1 DEF Merged, Filled, Default, Config
<1>3. \A p \in Procs : pc'[p] \notin Under
  BY <1>1 DEF Here, Under
<1>4. Decided' = Known(cfg')
  BY <1>1, <1>3, ReadsDecided DEF DecidedRead, Under
<1>5. P!Restart
  BY <1>1, <1>2, <1>3, <1>4 DEF P!Restart, Under
<1>. QED
  BY <1>5 DEF P!Next

LEMMA StepImplements ==
    ASSUME SoleClient, IInv, IInv', [Next]_vars PROVE [P!Next]_P!vars
<1>1. ASSUME NEW c \in Conns, Handle(c) PROVE [P!Next]_P!vars
  <2>1. CASE SettingsGet(c)
    BY <2>1, QuietIsStutter DEF SettingsGet
  <2>. QED
    BY <1>1, <2>1, HandleIsMessage, MessageImplements
<1>2. CASE Boot
  <2>1. /\ UNCHANGED <<config, engine, faults>>
        /\ pc[Main] \notin Under /\ pc'[Main] \notin Under
        /\ \A q \in Procs \ {Main} : pc'[q] = pc[q] /\ snap'[q] = snap[q]
    BY <1>2 DEF Boot, At, Goto, Under, IInv, TypeOK, Procs
  <2>. QED
    BY <2>1, QuietIsStutter
<1>3. CASE Stop \/ UNCHANGED vars \/ \E g \in Goroutine : Begin(g) \/ End(g)
  BY <1>3, QuietIsStutter DEF Stop, Begin, End
<1>. QED
  BY <1>1, <1>2, <1>3, ReconcileImplements, RestartImplements DEF Next

LEMMA InitImplements == Init => P!Init
<1>. SUFFICES ASSUME Init PROVE P!Init
  OBVIOUS
<1>1. cfg \in Config /\ engine = Known(cfg)
  BY DEF Init, Default, Config
<1>2. \A p \in Procs : pc[p] \notin Under
  BY DEF Init, Here, Under
<1>3. Decided = engine
  BY <1>2, ReadsDecided DEF DecidedRead, Under
<1>. QED
  BY <1>1, <1>2, <1>3 DEF Init, P!Init, Under

(* What the service promises of the settings it keeps, whatever is sent    *)
(* and whatever fails: the engine is never given a configuration that has  *)
(* been changed since, and misses a change only if that was not saved.     *)
THEOREM SettingsAreAsPromised ==
    ASSUME SoleClient PROVE Spec => ImplementsPreferences
<1>1. Init => P!Init
  BY InitImplements
<1>2. IInv /\ IInv' /\ [Next]_vars => [P!Next]_P!vars
  BY StepImplements, SoleClient
<1>3. Spec => []IInv
  BY Invariance, SoleClient
<1>. QED
  BY <1>1, <1>2, <1>3, PTL DEF Spec, ImplementsPreferences, P!Spec

=============================================================================

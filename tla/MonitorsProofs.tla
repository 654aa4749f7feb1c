----------------------------- MODULE MonitorsProofs -----------------------------
(* Theorems about the monitors, for any number of them, any processes and  *)
(* programs, any intervals and any number of failures.                     *)
EXTENDS Monitors, SequenceTheorems, FiniteSetTheorems, TLAPS


(* A verdict about token theft has this of the program it is about: it is  *)
(* not the owner with its signature, nor one that the user has named.      *)
Guilty(l) ==
    /\ l.prog.name # "other" => ~(l.path /\ l.prog.signed)
    /\ l.prog.name = "other" => ~l.prog.vetted

(* A running process is the first or a later one of its id. *)
LifeInv == \A p \in Pids : proc[p] # None => life[p] >= 1

(* Where a pass of g is, and what it has at hand there. *)
Pass(g) ==
    /\ g \in ProcMons => pc[g] \in {"idle", "work", "report"}
    /\ pc[g] # "report" => at[g] = None /\ todo[g] = {}
    /\ pc[g] = "report" => at[g] \in Pids
    /\ pc[g] \notin {"work", "report"} => work[g] = {}
    /\ g \notin NetMons => work[g] \subseteq Running(g)
    /\ \A v \in todo[g] : v.threat = "token_theft" =>
          listed[g][at[g]] # None /\ Guilty(listed[g][at[g]])

PassInv == \A g \in Monitors : Pass(g)

(* What a pass has listed is no later process than the one that has the id *)
(* now, and if it is the same and still runs, its program is the listed.   *)
Fits(g) ==
    \A p \in Pids : listed[g][p] # None =>
        /\ listed[g][p].life <= life[p]
        /\ listed[g][p].life = life[p] => proc[p] \in {listed[g][p].prog, None}

ListedInv == \A g \in Monitors : Fits(g)

(* The entry about an id is as old as the last event, or older by no more  *)
(* than the time a pass took.                                              *)
KindSlack(k) == IF k = "handles" THEN 0 ELSE MaxPass

ToldInv ==
    \A k \in Kinds, p \in Pids :
        told[k][p] <= reported[k][p] /\ reported[k][p] <= told[k][p] + KindSlack(k)

(* Since an alert, the history is as long as the threshold at least. *)
AlertInv == \A p \in alerted : Len(hits[p]) >= Threshold

(* The processes announced have been. *)
AnnouncedInv ==
    \A p \in Pids : \A l \in 1..MaxLives : <<p, l>> \in announced => l <= life[p]

(* What was announced and runs is known, or listed by the pass that makes  *)
(* its list the known one; what is still to be announced has not been.     *)
News(g) ==
    \A p \in Pids :
        /\ proc[p] # None /\ <<p, life[p]>> \in announced =>
              IF pc[g] = "idle" THEN p \in known[g] ELSE p \in Running(g)
        /\ p \in work[g] => <<p, listed[g][p].life>> \notin announced

SoleProcMon == \A g, h \in ProcMons : g = h

NewsInv == SoleProcMon => \A g \in ProcMons : News(g)

IInv ==
    /\ TypeOK /\ LifeInv /\ PassInv /\ ListedInv /\ ToldInv /\ AlertInv
    /\ AnnouncedInv /\ NewsInv

(* TypeOK in the groups that a step changes together. *)
MachineOK ==
    /\ proc \in [Pids -> Programs \cup {None}] /\ life \in [Pids -> 0..MaxLives]
    /\ signs \in [Kinds -> SUBSET Pids] /\ conn \subseteq Pids
    /\ on \in Settings

PassesOK ==
    /\ pc \in [Monitors -> {"idle", "list", "listed", "work", "report"}]
    /\ listed \in [Monitors -> [Pids -> Listed \cup {None}]]
    /\ work \in [Monitors -> SUBSET Pids]
    /\ at \in [Monitors -> Pids \cup {None}]
    /\ todo \in [Monitors -> SUBSET Verdict]
    /\ since \in [Monitors -> 0..MaxPass]

SeenOK ==
    /\ known \in [ProcMons -> SUBSET Pids] /\ first \in [ProcMons -> BOOLEAN]
    /\ announced \subseteq Pids \X (1..MaxLives)

AgesOK ==
    /\ reported \in [Kinds -> [Pids -> Nat]] /\ told \in [Kinds -> [Pids -> Nat]]
    /\ \A k \in Kinds, p \in Pids : reported[k][p] <= Stale(k) /\ told[k][p] <= Stale(k)

MemoryOK ==
    /\ suspects \in [Pids -> 0..(MemRescan + 1) \cup {None}]
    /\ scanned \in [Pids -> 0..Oldest]
    /\ drained \in [MemMons -> SUBSET Pids]

HitsOK ==
    /\ hits \in [Pids -> Seq(0..BeaconWindow)] /\ \A p \in Pids : Len(hits[p]) <= MaxHits
    /\ alerted \subseteq Pids

LEMMA TypeParts ==
    TypeOK <=> /\ MachineOK /\ PassesOK /\ SeenOK /\ AgesOK /\ MemoryOK /\ HitsOK
               /\ faults \in 0..MaxFaults
BY DEF TypeOK, MachineOK, PassesOK, SeenOK, AgesOK, MemoryOK, HitsOK

(* Nothing changes in the passes of the other monitors. *)
Only(g) ==
    \A h \in Monitors \ {g} :
        UNCHANGED <<pc[h], listed[h], work[h], at[h], todo[h]>>

(* What the steps of a monitor have to show of its own pass. *)
Passes(g) == PassesOK' /\ Pass(g)' /\ Fits(g)' /\ Only(g)

-----------------------------------------------------------------------------
(* Facts about the constants. *)

LEMMA Numbers ==
    /\ ReportInterval \in Nat /\ SuspectRescan \in Nat /\ MemRescan \in Nat
    /\ BeaconWindow \in Nat /\ Threshold \in Nat
    /\ ReportInterval > 0 /\ SuspectRescan > 0 /\ BeaconWindow > 0
    /\ MaxLives \in Nat /\ MaxLives >= 1 /\ MaxPass \in Nat /\ MaxHits \in Nat
    /\ MaxFaults \in Nat
BY MonitorsAssumption

(* A goroutine is of one monitor only. *)
LEMMA Apart ==
    /\ ProcMons \cap (MemMons \cup NetMons \cup Watchers) = {}
    /\ MemMons \cap (NetMons \cup Watchers) = {} /\ NetMons \cap Watchers = {}
BY MonitorsAssumption

(* What can be listed is never None. *)
LEMMA ListedIsSome ==
    \A l \in Listed :
        /\ l # None /\ l.prog \in Programs /\ l.prog \in Program
        /\ l.life \in 1..MaxLives /\ l.path \in BOOLEAN
BY MonitorsAssumption DEF Listed

LEMMA NoPidIsNone == None \notin Pids
BY MonitorsAssumption

(* The verdicts of the detectors are verdicts, and those about token theft *)
(* are about a process that deserves it.                                   *)
LEMMA VerdictsOK ==
    ASSUME NEW kind, NEW l
    PROVE  /\ Behavior(kind, l) \subseteq Verdict
           /\ \A v \in Behavior(kind, l) : v.threat \in {"dll_injection", "process_injection"}
BY DEF Behavior, High, Verdict

LEMMA TokensOK ==
    ASSUME NEW l \in Listed
    PROVE  Tokens(l) \subseteq Verdict /\ (Tokens(l) # {} => Guilty(l))
<1>1. /\ l.prog.name \in {"owner", "system", "other"} /\ l.path \in BOOLEAN
      /\ l.prog.signed \in BOOLEAN /\ l.prog.vetted \in BOOLEAN
  BY ListedIsSome DEF Program
<1>2. Critical("token_theft") \subseteq Verdict
  BY DEF Critical, Verdict
<1>3. {[threat |-> "token_theft", severity |-> StoreSeverity]} \subseteq Verdict
  BY MonitorsAssumption DEF Verdict
<1>. QED
  BY <1>1, <1>2, <1>3 DEF Tokens, TokenTheft, Guilty

LEMMA BeaconOK ==
    ASSUME NEW p
    PROVE  /\ Beacon(p) \subseteq Verdict
           /\ \A v \in Beacon(p) : v.threat = "network_beaconing"
BY DEF Beacon, High, Verdict

-----------------------------------------------------------------------------
(* What the steps that all monitors share do to their passes. *)

(* A list of the processes as they are. *)
LEMMA ListRow ==
    ASSUME MachineOK, LifeInv, PassesOK, NEW g \in Monitors, List(g), UNCHANGED <<proc, life>>
    PROVE  /\ listed' \in [Monitors -> [Pids -> Listed \cup {None}]]
           /\ \A h \in Monitors \ {g} : listed'[h] = listed[h]
           /\ \A p \in Pids : listed'[g][p] # None <=> proc[p] # None
           /\ \A p \in Pids : listed'[g][p] # None =>
                  listed'[g][p].prog = proc[p] /\ listed'[g][p].life = life[p]
<1>1. PICK missing \in SUBSET {p \in Pids : proc[p] # None} :
          listed' = [listed EXCEPT ![g] =
                        [p \in Pids |-> IF proc[p] = None THEN None
                                        ELSE [prog |-> proc[p], life |-> life[p],
                                              path |-> p \notin missing]]]
  BY DEF List
<1>2. \A p \in Pids : proc[p] # None =>
          [prog |-> proc[p], life |-> life[p], path |-> p \notin missing] \in Listed
  BY Numbers DEF MachineOK, LifeInv, Listed
<1>3. [p \in Pids |-> IF proc[p] = None THEN None
                      ELSE [prog |-> proc[p], life |-> life[p], path |-> p \notin missing]]
        \in [Pids -> Listed \cup {None}]
  BY <1>2
<1>4. listed' \in [Monitors -> [Pids -> Listed \cup {None}]]
  BY <1>1, <1>3 DEF PassesOK
<1>5. \A h \in Monitors \ {g} : listed'[h] = listed[h]
  BY <1>1 DEF PassesOK
<1>6. \A p \in Pids : listed'[g][p] =
          IF proc[p] = None THEN None
          ELSE [prog |-> proc[p], life |-> life[p], path |-> p \notin missing]
  BY <1>1 DEF PassesOK
<1>7. \A p \in Pids : listed'[g][p] # None <=> proc[p] # None
  BY <1>2, <1>6, ListedIsSome
<1>8. ASSUME NEW p \in Pids, listed'[g][p] # None
      PROVE  listed'[g][p].prog = proc[p] /\ listed'[g][p].life = life[p]
  <2>1. proc[p] # None
    BY <1>7, <1>8
  <2>2. listed'[g][p] = [prog |-> proc[p], life |-> life[p], path |-> p \notin missing]
    BY <1>6, <2>1
  <2>. QED
    BY <2>2
<1>. QED
  BY <1>4, <1>5, <1>7, <1>8

(* A pass begins with such a list, and with work on it. *)
LEMMA ListPasses ==
    ASSUME IInv, NEW g \in Monitors, List(g), pc[g] \in {"idle", "list"},
           NEW step \in {"listed", "work"}, pc' = [pc EXCEPT ![g] = step],
           NEW W \in SUBSET Pids, work' = [work EXCEPT ![g] = W],
           step = "listed" => W = {} /\ g \notin ProcMons,
           g \notin NetMons => W \subseteq {p \in Pids : proc[p] # None},
           since' \in [Monitors -> 0..MaxPass], UNCHANGED <<proc, life, at, todo>>
    PROVE  Passes(g)
<1>. DEFINE Row == listed'[g]
<1>1. /\ listed' \in [Monitors -> [Pids -> Listed \cup {None}]]
      /\ \A h \in Monitors \ {g} : listed'[h] = listed[h]
      /\ \A p \in Pids : listed'[g][p] # None <=> proc[p] # None
      /\ \A p \in Pids : listed'[g][p] # None =>
             listed'[g][p].prog = proc[p] /\ listed'[g][p].life = life[p]
  BY ListRow, TypeParts DEF IInv
<1>2. PassesOK
  BY TypeParts DEF IInv
<1>3. PassesOK'
  BY <1>1, <1>2 DEF PassesOK
<1>4. Pass(g)'
  BY <1>1, <1>2 DEF PassesOK, Pass, Running, IInv, PassInv
<1>5. Fits(g)'
  BY <1>1, TypeParts DEF Fits, IInv, MachineOK
<1>6. Only(g)
  BY <1>1, <1>2 DEF Only, PassesOK
<1>. QED
  BY <1>3, <1>4, <1>5, <1>6 DEF Passes

(* A pass ends. *)
LEMMA EndPasses ==
    ASSUME IInv, NEW g \in Monitors, End(g), pc[g] # "report",
           UNCHANGED <<proc, life, at, todo>>
    PROVE  Passes(g)
<1>1. PassesOK
  BY TypeParts DEF IInv
<1>2. listed' \in [Monitors -> [Pids -> Listed \cup {None}]]
  BY <1>1 DEF End, PassesOK
<1>3. PassesOK'
  BY <1>1, <1>2, Numbers DEF End, Goto, Give, PassesOK
<1>4. \A p \in Pids : listed'[g][p] = None
  BY <1>1 DEF End, PassesOK
<1>5. Pass(g)'
  BY <1>1, <1>4 DEF End, Goto, Give, PassesOK, Pass, IInv, PassInv
<1>6. Fits(g)'
  BY <1>4 DEF Fits
<1>7. Only(g)
  BY <1>1 DEF End, Goto, Give, PassesOK, Only
<1>. QED
  BY <1>3, <1>5, <1>6, <1>7 DEF Passes

(* A pass changes what it has still to look at, and goes on. *)
LEMMA WorkPasses ==
    ASSUME IInv, NEW g \in Monitors, pc[g] # "report",
           NEW step \in {"list", "work"}, pc' = [pc EXCEPT ![g] = step],
           NEW W \in SUBSET Pids, work' = [work EXCEPT ![g] = W],
           step = "list" => W = {} /\ g \notin ProcMons,
           g \notin NetMons => W \subseteq Running(g),
           UNCHANGED <<proc, life, listed, at, todo, since>>
    PROVE  Passes(g)
<1>1. PassesOK
  BY TypeParts DEF IInv
<1>2. PassesOK'
  BY <1>1 DEF PassesOK
<1>3. Pass(g)'
  BY <1>1 DEF PassesOK, Pass, IInv, PassInv, Running
<1>4. Fits(g)'
  BY DEF Fits, IInv, ListedInv
<1>5. Only(g)
  BY <1>1 DEF PassesOK, Only
<1>. QED
  BY <1>2, <1>3, <1>4, <1>5 DEF Passes

(* An event about the next one is handled. *)
LEMMA HandlePasses ==
    ASSUME IInv, NEW g \in Monitors, pc[g] = "work", NEW p \in work[g],
           NEW verdicts \in SUBSET Verdict, Handle(g, p, verdicts),
           \A v \in verdicts : v.threat = "token_theft" =>
               listed[g][p] # None /\ Guilty(listed[g][p]),
           work' = [work EXCEPT ![g] = work[g] \ {p}],
           UNCHANGED <<proc, life, listed, since>>
    PROVE  Passes(g)
<1>1. PassesOK
  BY TypeParts DEF IInv
<1>2. PICK vs \in SUBSET verdicts : todo' = [todo EXCEPT ![g] = vs]
  BY DEF Handle, Enabled
<1>3. pc' = [pc EXCEPT ![g] = "report"] /\ at' = [at EXCEPT ![g] = p] /\ p \in Pids
  BY <1>1 DEF Handle, Goto, PassesOK
<1>4. PassesOK'
  BY <1>1, <1>2, <1>3 DEF PassesOK
<1>5. Pass(g)'
  BY <1>1, <1>2, <1>3 DEF PassesOK, Pass, IInv, PassInv, Running
<1>6. Fits(g)'
  BY DEF Fits, IInv, ListedInv
<1>7. Only(g)
  BY <1>1, <1>2, <1>3 DEF PassesOK, Only
<1>. QED
  BY <1>4, <1>5, <1>6, <1>7 DEF Passes

(* What one pass keeps, all keep. *)
LEMMA AllPasses ==
    ASSUME IInv, NEW g \in Monitors, Passes(g), UNCHANGED <<proc, life>>
    PROVE  PassInv' /\ ListedInv'
<1>1. \A h \in Monitors \ {g} : Pass(h)'
  BY DEF Passes, Only, Pass, Running, IInv, PassInv
<1>2. \A h \in Monitors \ {g} : Fits(h)'
  BY DEF Passes, Only, Fits, IInv, ListedInv
<1>. QED
  BY <1>1, <1>2 DEF Passes, PassInv, ListedInv

-----------------------------------------------------------------------------
(* Each step keeps the invariant. *)

(* A step of another monitor than a ProcMonitor announces nothing. *)
LEMMA AsideKeeps ==
    ASSUME IInv, NEW g \in Monitors \ ProcMons, Passes(g),
           MemoryOK', faults' \in 0..MaxFaults, AgesOK' /\ ToldInv', HitsOK' /\ AlertInv',
           UNCHANGED <<proc, life, signs, conn, on, known, first, announced>>
    PROVE  IInv'
<1>1. PassesOK'
  BY DEF Passes
<1>2. MachineOK' /\ SeenOK'
  BY TypeParts DEF IInv, MachineOK, SeenOK
<1>3. TypeOK'
  BY <1>1, <1>2, TypeParts DEF TypeOK, MachineOK, PassesOK, SeenOK, AgesOK, MemoryOK, HitsOK
<1>4. PassInv' /\ ListedInv'
  BY AllPasses
<1>5. LifeInv' /\ AnnouncedInv'
  BY DEF IInv, LifeInv, AnnouncedInv
<1>6. NewsInv'
  <2>1. \A h \in ProcMons : UNCHANGED <<pc[h], listed[h], work[h]>>
    BY DEF Passes, Only, Monitors
  <2>. QED
    BY <2>1 DEF IInv, NewsInv, News, Running
<1>. QED
  BY <1>3, <1>4, <1>5, <1>6 DEF IInv

(* What a step leaves alone. *)
LEMMA Unmoved ==
    ASSUME IInv
    PROVE  /\ UNCHANGED memory => MemoryOK'
           /\ UNCHANGED <<reported, told>> => AgesOK' /\ ToldInv'
           /\ UNCHANGED <<hits, alerted>> => HitsOK' /\ AlertInv'
           /\ Fails \/ Works => faults' \in 0..MaxFaults
<1>1. UNCHANGED memory => MemoryOK'
  BY TypeParts DEF IInv, MemoryOK, memory
<1>2. UNCHANGED <<reported, told>> => AgesOK' /\ ToldInv'
  BY TypeParts DEF IInv, AgesOK, ToldInv
<1>3. UNCHANGED <<hits, alerted>> => HitsOK' /\ AlertInv'
  BY TypeParts DEF IInv, HitsOK, AlertInv
<1>4. Fails \/ Works => faults' \in 0..MaxFaults
  BY TypeParts, Numbers DEF IInv, Fails, Works
<1>. QED
  BY <1>1, <1>2, <1>3, <1>4

LEMMA ListCounts == ASSUME IInv, NEW g \in Monitors, List(g) PROVE Fails \/ Works
BY DEF List

(* A call that fails leaves the pass where it was. *)
LEMMA FailedKeeps ==
    ASSUME IInv, Fails,
           UNCHANGED <<machine, passes, seen, reported, memory, hits, history>>
    PROVE  IInv'
<1>1. faults' \in 0..MaxFaults
  BY Unmoved
<1>2. UNCHANGED <<proc, life, signs, conn, on, pc, listed, work, at, todo, since, known, first,
                  reported, suspects, scanned, drained, hits, announced, told, alerted>>
  BY DEF machine, passes, seen, memory, history
<1>3. TypeOK'
  BY <1>1, <1>2 DEF IInv, TypeOK
<1>4. LifeInv' /\ ToldInv' /\ AlertInv' /\ AnnouncedInv'
  BY <1>2 DEF IInv, LifeInv, ToldInv, AlertInv, AnnouncedInv
<1>5. PassInv' /\ ListedInv'
  BY <1>2 DEF IInv, PassInv, Pass, Running, ListedInv, Fits
<1>6. NewsInv'
  BY <1>2 DEF IInv, NewsInv, News, Running
<1>. QED
  BY <1>3, <1>4, <1>5, <1>6 DEF IInv

(* Watchers *)

LEMMA BeginKeeps == ASSUME IInv, NEW w \in Watchers, Begin(w) PROVE IInv'
<1>1. CASE List(w) /\ Goto(w, "listed")
  <2>1. w \in Monitors \ ProcMons
    BY Apart DEF Monitors
  <2>2. work' = [work EXCEPT ![w] = {}] /\ pc[w] = "idle"
    BY <2>1, TypeParts DEF Begin, IInv, PassInv, Pass, PassesOK
  <2>3. Passes(w)
    BY <1>1, <2>1, <2>2, TypeParts, ListPasses DEF Begin, Goto, machine, IInv, PassesOK
  <2>. QED
    BY <1>1, <2>1, <2>3, Unmoved, ListCounts, AsideKeeps
    DEF Begin, machine, seen, memory, history
<1>2. CASE Fails /\ UNCHANGED <<pc, listed>>
  BY <1>2, FailedKeeps DEF Begin, passes
<1>. QED
  BY <1>1, <1>2 DEF Begin

LEMMA ChooseKeeps == ASSUME IInv, NEW w \in Watchers, Choose(w) PROVE IInv'
<1>1. w \in Monitors \ ProcMons
  BY Apart DEF Monitors
<1>2. /\ UNCHANGED <<proc, life, signs, conn, on, known, first, announced, reported, told, memory,
                     hits, alerted, at, todo>>
      /\ Fails \/ Works
  BY DEF Choose, machine, seen, history
<1>3. Passes(w)
  <2>1. CASE End(w)
    BY <1>1, <1>2, <2>1, EndPasses DEF Choose
  <2>2. CASE ~End(w)
    <3>. DEFINE W == IF Kind[w] = "handles"
                     THEN {p \in Running(w) \cap signs["handles"] : ~IsTrustedApp(listed[w][p])}
                     ELSE {p \in Running(w) : listed[w][p].prog.name # "system"}
    <3>1. /\ pc' = [pc EXCEPT ![w] = "work"]
          /\ work' = [work EXCEPT ![w] = W]
          /\ UNCHANGED <<listed, since>>
      BY <2>2 DEF Choose, Goto, Give
    <3>2. W \in SUBSET Running(w)
      OBVIOUS
    <3>3. W \in SUBSET Pids
      BY <3>2 DEF Running
    <3>. HIDE DEF W
    <3>. QED
      BY <1>1, <1>2, <3>1, <3>2, <3>3, WorkPasses DEF Choose
  <2>. QED
    BY <2>1, <2>2
<1>. QED
  BY <1>1, <1>2, <1>3, Unmoved, AsideKeeps

(* A sighting that is not silenced dates the entry and is told at once. *)
LEMMA SightKeeps == ASSUME IInv, NEW w \in Watchers, Sight(w) PROVE IInv'
<1>1. w \in Monitors \ ProcMons /\ w \notin NetMons
  BY Apart DEF Monitors
<1>2. PICK p \in work[w] :
          /\ work' = [work EXCEPT ![w] = work[w] \ {p}]
          /\ reported' = [reported EXCEPT ![Kind[w]][p] = Clock(w)]
          /\ told' = [told EXCEPT ![Kind[w]][p] = 0]
          /\ Handle(w, p, Behavior(Kind[w], listed[w][p]) \cup
                            (IF Kind[w] = "handles" THEN Tokens(listed[w][p]) ELSE {}))
  BY DEF Sight, Give
<1>3. /\ UNCHANGED <<proc, life, signs, conn, on, known, first, announced, memory,
                     hits, alerted, listed, since, faults>>
      /\ pc[w] = "work"
  BY DEF Sight, machine, seen
<1>4. p \in Pids /\ listed[w][p] \in Listed /\ listed[w][p] # None
  BY <1>1, TypeParts DEF IInv, PassInv, Pass, PassesOK, Running
<1>5. Passes(w)
  <2>. DEFINE vs == Behavior(Kind[w], listed[w][p]) \cup
                      (IF Kind[w] = "handles" THEN Tokens(listed[w][p]) ELSE {})
  <2>1. vs \in SUBSET Verdict
    BY <1>4, VerdictsOK, TokensOK
  <2>2. \A v \in vs : v.threat = "token_theft" => Guilty(listed[w][p])
    BY <1>4, VerdictsOK, TokensOK
  <2>3. Handle(w, p, vs)
    BY <1>2
  <2>. HIDE DEF vs
  <2>. QED
    BY <1>1, <1>2, <1>3, <1>4, <2>1, <2>2, <2>3, HandlePasses
<1>6. AgesOK' /\ ToldInv'
  <2>1. Kind[w] \in Kinds
    BY MonitorsAssumption
  <2>2. since[w] \in Nat /\ since[w] <= MaxPass
    BY <1>1, TypeParts, Numbers DEF IInv, PassesOK
  <2>3. Clock(w) \in Nat /\ Clock(w) <= KindSlack(Kind[w])
    BY <2>2, Numbers DEF Clock, KindSlack
  <2>4. Clock(w) <= Stale(Kind[w]) /\ 0 <= Stale(Kind[w])
    BY <2>3, Numbers DEF KindSlack, Stale
  <2>5. AgesOK'
    BY <1>2, <1>4, <2>1, <2>3, <2>4, TypeParts DEF IInv, AgesOK
  <2>6. \A k \in Kinds, q \in Pids : k # Kind[w] \/ q # p =>
            reported'[k][q] = reported[k][q] /\ told'[k][q] = told[k][q]
    BY <1>2, TypeParts DEF IInv, AgesOK
  <2>7. reported'[Kind[w]][p] = Clock(w) /\ told'[Kind[w]][p] = 0
    BY <1>2, <1>4, <2>1, TypeParts DEF IInv, AgesOK
  <2>8. KindSlack(Kind[w]) \in Nat
    BY Numbers DEF KindSlack
  <2>9. ToldInv'
    BY <2>3, <2>6, <2>7, <2>8 DEF IInv, ToldInv
  <2>. QED
    BY <2>5, <2>9
<1>. QED
  BY <1>1, <1>3, <1>5, <1>6, Unmoved, AsideKeeps DEF Works

LEMMA OverlookKeeps == ASSUME IInv, NEW w \in Watchers, Overlook(w) PROVE IInv'
<1>1. w \in Monitors \ ProcMons /\ w \notin NetMons
  BY Apart DEF Monitors
<1>2. PICK p \in work[w] : work' = [work EXCEPT ![w] = work[w] \ {p}]
  BY DEF Overlook, Give
<1>3. /\ UNCHANGED <<proc, life, signs, conn, on, known, first, announced, reported, told, memory,
                     hits, alerted, pc, listed, at, todo, since, faults>>
      /\ pc[w] = "work"
  BY DEF Overlook, machine, seen, history
<1>4. /\ pc' = [pc EXCEPT ![w] = "work"]
      /\ work[w] \ {p} \in SUBSET Pids /\ work[w] \ {p} \subseteq Running(w)
  BY <1>1, <1>3, TypeParts DEF IInv, PassInv, Pass, PassesOK
<1>5. Passes(w)
  BY <1>1, <1>2, <1>3, <1>4, WorkPasses
<1>. QED
  BY <1>1, <1>3, <1>5, Unmoved, AsideKeeps DEF Works

LEMMA WatchedKeeps == ASSUME IInv, NEW w \in Watchers, Watched(w) PROVE IInv'
<1>1. w \in Monitors \ ProcMons
  BY Apart DEF Monitors
<1>2. UNCHANGED <<proc, life, signs, conn, on, known, first, announced, reported, told, memory,
                  hits, alerted, at, todo, faults>>
  BY DEF Watched, machine, seen, history
<1>3. Passes(w)
  BY <1>1, <1>2, EndPasses DEF Watched
<1>. QED
  BY <1>1, <1>2, <1>3, Unmoved, AsideKeeps DEF Works

(* The memory monitor *)

LEMMA DrainKeeps == ASSUME IInv, NEW m \in MemMons, Drain(m) PROVE IInv'
<1>1. m \in Monitors \ ProcMons /\ m \notin NetMons
  BY Apart DEF Monitors
<1>2. /\ UNCHANGED <<proc, life, signs, conn, on, known, first, announced, reported, told,
                     hits, alerted, listed, work, at, todo, since, faults>>
      /\ pc' = [pc EXCEPT ![m] = "list"] /\ pc[m] = "idle"
  BY DEF Drain, machine, seen, history, Goto
<1>3. work' = [work EXCEPT ![m] = {}]
  BY <1>1, <1>2, TypeParts DEF IInv, PassInv, Pass, PassesOK
<1>4. Passes(m)
  BY <1>1, <1>2, <1>3, WorkPasses
<1>5. MemoryOK'
  BY TypeParts, Numbers DEF Drain, IInv, MemoryOK
<1>. QED
  BY <1>1, <1>2, <1>4, <1>5, Unmoved, AsideKeeps DEF Works

LEMMA SweepKeeps == ASSUME IInv, NEW m \in MemMons, Sweep(m) PROVE IInv'
<1>1. m \in Monitors \ ProcMons /\ m \notin NetMons
  BY Apart DEF Monitors
<1>2. /\ UNCHANGED <<proc, life, signs, conn, on, known, first, announced, reported, told, memory,
                     hits, alerted, at, todo>>
      /\ pc[m] = "list"
  BY DEF Sweep, machine, seen, history
<1>3. Fails \/ Works
  BY <1>1, ListCounts DEF Sweep
<1>4. Passes(m)
  <2>1. CASE End(m)
    BY <1>1, <1>2, <2>1, EndPasses
  <2>2. CASE ~End(m)
    <3>. DEFINE W == {p \in Pids : proc[p] # None}
    <3>1. /\ List(m) /\ pc' = [pc EXCEPT ![m] = "work"]
          /\ work' = [work EXCEPT ![m] = W]
          /\ since' = [since EXCEPT ![m] = 0]
      BY <2>2 DEF Sweep, Goto, Give
    <3>2. since' \in [Monitors -> 0..MaxPass]
      BY <1>1, <3>1, TypeParts, Numbers DEF IInv, PassesOK
    <3>3. W \in SUBSET Pids /\ W \subseteq {p \in Pids : proc[p] # None}
      OBVIOUS
    <3>. HIDE DEF W
    <3>. QED
      BY <1>1, <1>2, <3>1, <3>2, <3>3, ListPasses
  <2>. QED
    BY <2>1, <2>2
<1>. QED
  BY <1>1, <1>2, <1>3, <1>4, Unmoved, AsideKeeps

LEMMA ExamineKeeps == ASSUME IInv, NEW m \in MemMons, Examine(m) PROVE IInv'
<1>1. m \in Monitors \ ProcMons /\ m \notin NetMons
  BY Apart DEF Monitors
<1>2. PICK p \in work[m] :
          /\ work' = [work EXCEPT ![m] = work[m] \ {p}]
          /\ scanned' = [scanned EXCEPT ![p] = since[m]]
          /\ Handle(m, p, Behavior("memory", listed[m][p])) \/ UNCHANGED <<pc, at, todo>>
  BY DEF Examine, Give
<1>3. /\ UNCHANGED <<proc, life, signs, conn, on, known, first, announced, reported, told,
                     hits, alerted, suspects, drained, listed, since, faults>>
      /\ pc[m] = "work"
  BY DEF Examine, machine, seen, history
<1>4. Passes(m)
  <2>1. CASE Handle(m, p, Behavior("memory", listed[m][p]))
    <3>1. Behavior("memory", listed[m][p]) \in SUBSET Verdict
      BY VerdictsOK
    <3>2. \A v \in Behavior("memory", listed[m][p]) : v.threat # "token_theft"
      BY VerdictsOK
    <3>. QED
      BY <1>1, <1>2, <1>3, <2>1, <3>1, <3>2, HandlePasses
  <2>2. CASE UNCHANGED <<pc, at, todo>>
    <3>1. /\ pc' = [pc EXCEPT ![m] = "work"]
          /\ work[m] \ {p} \in SUBSET Pids /\ work[m] \ {p} \subseteq Running(m)
      BY <1>1, <1>3, <2>2, TypeParts DEF IInv, PassInv, Pass, PassesOK
    <3>. QED
      BY <1>1, <1>2, <1>3, <2>2, <3>1, WorkPasses
  <2>. QED
    BY <1>2, <2>1, <2>2
<1>5. MemoryOK'
  <2>1. p \in Pids /\ since[m] \in 0..Oldest
    BY <1>1, TypeParts, Numbers DEF IInv, PassesOK, Oldest
  <2>. QED
    BY <1>2, <1>3, <2>1, TypeParts DEF IInv, MemoryOK
<1>. QED
  BY <1>1, <1>3, <1>4, <1>5, Unmoved, AsideKeeps DEF Works

LEMMA PassOverKeeps == ASSUME IInv, NEW m \in MemMons, PassOver(m) PROVE IInv'
<1>1. m \in Monitors \ ProcMons /\ m \notin NetMons
  BY Apart DEF Monitors
<1>2. PICK p \in work[m] : work' = [work EXCEPT ![m] = work[m] \ {p}]
  BY DEF PassOver, Give
<1>3. /\ UNCHANGED <<proc, life, signs, conn, on, known, first, announced, reported, told, memory,
                     hits, alerted, pc, listed, at, todo, since, faults>>
      /\ pc[m] = "work"
  BY DEF PassOver, machine, seen, history
<1>4. /\ pc' = [pc EXCEPT ![m] = "work"]
      /\ work[m] \ {p} \in SUBSET Pids /\ work[m] \ {p} \subseteq Running(m)
  BY <1>1, <1>3, TypeParts DEF IInv, PassInv, Pass, PassesOK
<1>5. Passes(m)
  BY <1>1, <1>2, <1>3, <1>4, WorkPasses
<1>. QED
  BY <1>1, <1>3, <1>5, Unmoved, AsideKeeps DEF Works

LEMMA SweptKeeps == ASSUME IInv, NEW m \in MemMons, Swept(m) PROVE IInv'
<1>1. m \in Monitors \ ProcMons
  BY Apart DEF Monitors
<1>2. UNCHANGED <<proc, life, signs, conn, on, known, first, announced, reported, told,
                  hits, alerted, at, todo, faults>>
  BY DEF Swept, machine, seen, history
<1>3. Passes(m)
  BY <1>1, <1>2, EndPasses DEF Swept
<1>4. MemoryOK'
  BY TypeParts DEF Swept, IInv, MemoryOK
<1>. QED
  BY <1>1, <1>2, <1>3, <1>4, Unmoved, AsideKeeps DEF Works

(* The network monitor and the beaconing window *)

(* The hits that are kept are some of those there were, in their order. *)
LEMMA KeptOK ==
    ASSUME IInv, NEW p \in Pids
    PROVE  /\ Kept(p) \in Seq(0..BeaconWindow) /\ Len(Kept(p)) \in Nat
           /\ Len(Kept(p)) <= Len(hits[p])
<1>. DEFINE s == hits[p]
            expired == {i \in DOMAIN s : s[i] >= BeaconWindow}
<1>1. s \in Seq(0..BeaconWindow) /\ Len(s) \in Nat /\ DOMAIN s = 1..Len(s)
  BY TypeParts DEF IInv, HitsOK
<1>2. IsFiniteSet(1..Len(s)) /\ Cardinality(1..Len(s)) = Len(s)
  BY <1>1, FS_Interval
<1>3. expired \subseteq 1..Len(s)
  BY <1>1
<1>. HIDE DEF expired
<1>4. IsFiniteSet(expired) /\ Cardinality(expired) <= Len(s)
  BY <1>2, <1>3, FS_Subset
<1>5. Cardinality(expired) \in Nat
  BY <1>4, FS_CardinalityType
<1>. DEFINE c == Cardinality(expired)
<1>6. Kept(p) = SubSeq(s, c + 1, Len(s))
  BY DEF Kept, expired
<1>. HIDE DEF s, c
<1>7. c \in Nat /\ c <= Len(s)
  BY <1>4, <1>5 DEF c
<1>. DEFINE B == 0..BeaconWindow
<1>. HIDE DEF B
<1>8. s \in Seq(B)
  BY <1>1 DEF B
<1>9. \A i \in (c + 1)..Len(s) : s[i] \in B
  BY <1>1, <1>7, <1>8, ElementOfSeq
<1>10. c + 1 \in Int /\ Len(s) \in Int
  BY <1>1, <1>7
<1>11. SubSeq(s, c + 1, Len(s)) \in Seq(B)
  BY <1>9, <1>10, SubSeqProperties
<1>12. Len(SubSeq(s, c + 1, Len(s))) = IF c + 1 <= Len(s) THEN Len(s) - (c + 1) + 1 ELSE 0
  BY <1>9, <1>10, SubSeqProperties
<1>. QED
  BY <1>1, <1>6, <1>7, <1>11, <1>12 DEF s, B

LEMMA ConnectionsKeeps == ASSUME IInv, NEW n \in NetMons, Connections(n) PROVE IInv'
<1>1. n \in Monitors \ ProcMons
  BY Apart DEF Monitors
<1>2. /\ UNCHANGED <<proc, life, signs, conn, on, known, first, announced, reported, told, memory,
                     hits, alerted, at, todo, since>>
      /\ pc[n] = "idle"
  BY DEF Connections, machine, seen, history
<1>3. conn \in SUBSET Pids
  BY TypeParts DEF IInv, MachineOK
<1>4. CASE List(n) /\ Goto(n, "work") /\ Give(n, conn)
  <2>1. since' \in [Monitors -> 0..MaxPass]
    BY <1>2, TypeParts DEF IInv, PassesOK
  <2>2. Passes(n)
    BY <1>1, <1>2, <1>3, <1>4, <2>1, ListPasses DEF Goto, Give
  <2>. QED
    BY <1>1, <1>2, <1>4, <2>2, ListCounts, Unmoved, AsideKeeps
<1>5. CASE Fails /\ UNCHANGED listed /\ Goto(n, "work") /\ Give(n, conn)
  <2>1. Passes(n)
    BY <1>1, <1>2, <1>3, <1>5, WorkPasses DEF Goto, Give
  <2>. QED
    BY <1>1, <1>2, <1>5, <2>1, Unmoved, AsideKeeps
<1>6. CASE Fails /\ UNCHANGED <<pc, listed, work>>
  BY <1>6, FailedKeeps DEF Connections, passes
<1>. QED
  BY <1>4, <1>5, <1>6 DEF Connections

(* An alert is raised when the threshold is reached, and counts until a    *)
(* hit leaves the window.                                                  *)
LEMMA ConnectedKeeps == ASSUME IInv, NEW n \in NetMons, Connected(n) PROVE IInv'
<1>1. n \in Monitors \ ProcMons
  BY Apart DEF Monitors
<1>2. /\ UNCHANGED <<proc, life, signs, conn, on, known, first, announced, reported, told, memory,
                     listed, since, faults>>
      /\ pc[n] = "work"
  BY DEF Connected, machine, seen
<1>3. PICK p \in work[n] :
          /\ work' = [work EXCEPT ![n] = work[n] \ {p}]
          /\ \/ /\ Len(Kept(p)) < MaxHits
                /\ hits' = [hits EXCEPT ![p] = Append(Kept(p), 0)]
                /\ Handle(n, p, Beacon(p) \cup Behavior("connect", Known(n, p)))
                /\ alerted' = (IF Kept(p) # hits[p] THEN alerted \ {p} ELSE alerted)
                                 \cup (IF Beacon(p) # {} THEN {p} ELSE {})
             \/ /\ Handle(n, p, Behavior("connect", Known(n, p)))
                /\ UNCHANGED <<hits, alerted>>
  BY DEF Connected, Give
<1>4. p \in Pids
  BY <1>1, TypeParts DEF IInv, PassesOK
<1>5. PICK vs : vs \subseteq Beacon(p) \cup Behavior("connect", Known(n, p)) /\ Handle(n, p, vs)
  BY <1>3
<1>6. vs \in SUBSET Verdict /\ \A v \in vs : v.threat # "token_theft"
  BY <1>5, VerdictsOK, BeaconOK
<1>7. Passes(n)
  BY <1>1, <1>2, <1>3, <1>5, <1>6, HandlePasses
<1>8. HitsOK' /\ AlertInv'
  <2>1. CASE UNCHANGED <<hits, alerted>>
    BY <2>1, Unmoved
  <2>2. CASE /\ Len(Kept(p)) < MaxHits
             /\ hits' = [hits EXCEPT ![p] = Append(Kept(p), 0)]
             /\ alerted' = (IF Kept(p) # hits[p] THEN alerted \ {p} ELSE alerted)
                              \cup (IF Beacon(p) # {} THEN {p} ELSE {})
    <3>1. Kept(p) \in Seq(0..BeaconWindow) /\ Len(Kept(p)) \in Nat
      BY <1>4, KeptOK
    <3>2. 0 \in 0..BeaconWindow
      BY Numbers
    <3>3. /\ Append(Kept(p), 0) \in Seq(0..BeaconWindow)
          /\ Len(Append(Kept(p), 0)) = Len(Kept(p)) + 1
      BY <3>1, <3>2, AppendProperties
    <3>4. HitsOK'
      BY <1>4, <2>2, <3>1, <3>3, TypeParts, Numbers DEF IInv, HitsOK
    <3>5. \A q \in Pids \ {p} : hits'[q] = hits[q] /\ (q \in alerted' <=> q \in alerted)
      BY <2>2, TypeParts DEF IInv, HitsOK
    <3>6. hits'[p] = Append(Kept(p), 0)
      BY <1>4, <2>2, TypeParts DEF IInv, HitsOK
    <3>7. Beacon(p) # {} => Len(Kept(p)) + 1 = Threshold
      BY DEF Beacon
    <3>8. p \in alerted' => Len(hits'[p]) >= Threshold
      <4>1. CASE Beacon(p) # {}
        BY <3>1, <3>3, <3>6, <3>7, <4>1, Numbers
      <4>2. CASE Beacon(p) = {}
        <5>1. p \in alerted' => Kept(p) = hits[p] /\ p \in alerted
          BY <2>2, <4>2
        <5>2. p \in alerted' => Len(Kept(p)) >= Threshold
          BY <5>1 DEF IInv, AlertInv
        <5>. QED
          BY <3>1, <3>3, <3>6, <5>2, Numbers
      <4>. QED
        BY <4>1, <4>2
    <3>9. \A q \in Pids : q \in alerted' => Len(hits'[q]) >= Threshold
      BY <3>5, <3>8 DEF IInv, AlertInv
    <3>. QED
      BY <3>4, <3>9 DEF AlertInv, HitsOK
  <2>. QED
    BY <1>3, <2>1, <2>2
<1>. QED
  BY <1>1, <1>2, <1>7, <1>8, Unmoved, AsideKeeps DEF Works

LEMMA NetScannedKeeps == ASSUME IInv, NEW n \in NetMons, NetScanned(n) PROVE IInv'
<1>1. n \in Monitors \ ProcMons
  BY Apart DEF Monitors
<1>2. UNCHANGED <<proc, life, signs, conn, on, known, first, announced, reported, told, memory,
                  hits, alerted, at, todo, faults>>
  BY DEF NetScanned, machine, seen, history
<1>3. Passes(n)
  BY <1>1, <1>2, EndPasses DEF NetScanned
<1>. QED
  BY <1>1, <1>2, <1>3, Unmoved, AsideKeeps DEF Works

(* The process monitor *)

(* What its pass does to the rest. *)
LEMMA PollingKeeps ==
    ASSUME IInv, NEW g \in ProcMons, Passes(g), SeenOK', faults' \in 0..MaxFaults,
           AnnouncedInv', SoleProcMon => News(g)',
           UNCHANGED <<proc, life, signs, conn, on, memory, reported, told, hits, alerted>>
    PROVE  IInv'
<1>1. g \in Monitors
  BY DEF Monitors
<1>2. PassesOK' /\ PassInv' /\ ListedInv'
  BY <1>1, AllPasses DEF Passes
<1>3. MachineOK' /\ LifeInv'
  BY TypeParts DEF IInv, MachineOK, LifeInv
<1>4. MemoryOK' /\ AgesOK' /\ ToldInv' /\ HitsOK' /\ AlertInv'
  BY Unmoved
<1>5. TypeOK'
  BY <1>2, <1>3, <1>4, TypeParts
  DEF TypeOK, MachineOK, PassesOK, SeenOK, AgesOK, MemoryOK, HitsOK
<1>6. NewsInv'
  BY DEF NewsInv, SoleProcMon
<1>. QED
  BY <1>2, <1>3, <1>4, <1>5, <1>6 DEF IInv

LEMMA PollKeeps == ASSUME IInv, NEW g \in ProcMons, Poll(g) PROVE IInv'
<1>1. CASE Fails /\ UNCHANGED <<pc, listed, work>>
  BY <1>1, FailedKeeps DEF Poll, passes
<1>. DEFINE W == IF first[g] THEN {} ELSE {p \in Pids : proc[p] # None} \ known[g]
<1>2. CASE List(g) /\ Goto(g, "work") /\ Give(g, W)
  <2>1. g \in Monitors
    BY DEF Monitors
  <2>2. /\ UNCHANGED <<proc, life, signs, conn, on, known, first, announced, memory, reported,
                       told, hits, alerted, at, todo, since>>
        /\ pc[g] = "idle" /\ pc' = [pc EXCEPT ![g] = "work"]
        /\ work' = [work EXCEPT ![g] = W]
    BY <1>2 DEF Poll, machine, seen, history, Goto, Give
  <2>3. since' \in [Monitors -> 0..MaxPass]
    BY <2>2, TypeParts DEF IInv, PassesOK
  <2>4. W \in SUBSET Pids /\ W \subseteq {p \in Pids : proc[p] # None} /\ W \cap known[g] = {}
    OBVIOUS
  <2>. HIDE DEF W
  <2>5. Passes(g)
    BY <1>2, <2>1, <2>2, <2>3, <2>4, ListPasses
  <2>6. /\ \A p \in Pids : listed'[g][p] # None <=> proc[p] # None
        /\ \A p \in Pids : listed'[g][p] # None => listed'[g][p].life = life[p]
    BY <1>2, <2>1, <2>2, TypeParts, ListRow DEF IInv
  <2>7. pc'[g] = "work" /\ work'[g] = W
    BY <2>1, <2>2, TypeParts DEF IInv, PassesOK
  <2>8. SoleProcMon => News(g)'
    <3>1. SUFFICES ASSUME SoleProcMon, NEW p \in Pids
                   PROVE  /\ proc[p] # None => p \in Running(g)'
                          /\ p \in W => <<p, listed'[g][p].life>> \notin announced
      BY <2>2, <2>7 DEF News
    <3>2. proc[p] # None => p \in Running(g)'
      BY <2>6 DEF Running
    <3>3. p \in W => <<p, listed'[g][p].life>> \notin announced
      BY <2>2, <2>4, <2>6, <3>1 DEF IInv, NewsInv, News
    <3>. QED
      BY <3>2, <3>3
  <2>9. SeenOK' /\ AnnouncedInv'
    BY <2>2, TypeParts DEF IInv, SeenOK, AnnouncedInv
  <2>10. faults' \in 0..MaxFaults
    BY <1>2, <2>1, ListCounts, Unmoved
  <2>. QED
    BY <2>2, <2>5, <2>8, <2>9, <2>10, PollingKeeps
<1>. QED
  BY <1>1, <1>2 DEF Poll

LEMMA AnnounceKeeps == ASSUME IInv, NEW g \in ProcMons, Announce(g) PROVE IInv'
<1>1. g \in Monitors /\ g \notin NetMons
  BY Apart DEF Monitors
<1>2. /\ UNCHANGED <<proc, life, signs, conn, on, known, first, memory, reported,
                     told, hits, alerted, listed, since, faults>>
      /\ pc[g] = "work"
  BY DEF Announce, machine, seen
<1>3. PICK p \in work[g] :
          /\ work' = [work EXCEPT ![g] = work[g] \ {p}]
          /\ Handle(g, p, Behavior("start", listed[g][p]))
          /\ announced' = announced \cup {<<p, listed[g][p].life>>}
  BY DEF Announce, Give
<1>4. p \in Pids /\ listed[g][p] # None /\ listed[g][p].life \in 1..MaxLives
  BY <1>1, TypeParts, ListedIsSome DEF IInv, PassInv, Pass, PassesOK, Running
<1>5. Passes(g)
  <2>1. Behavior("start", listed[g][p]) \in SUBSET Verdict
    BY VerdictsOK
  <2>2. \A v \in Behavior("start", listed[g][p]) : v.threat # "token_theft"
    BY VerdictsOK
  <2>. QED
    BY <1>1, <1>2, <1>3, <2>1, <2>2, HandlePasses
<1>6. SeenOK'
  BY <1>2, <1>3, <1>4, TypeParts DEF IInv, SeenOK
<1>7. AnnouncedInv'
  BY <1>1, <1>2, <1>3, <1>4 DEF IInv, AnnouncedInv, ListedInv, Fits
<1>8. SoleProcMon => News(g)'
  <2>1. pc'[g] = "report" /\ work'[g] = work[g] \ {p}
    BY <1>1, <1>3, TypeParts DEF Handle, Goto, IInv, PassesOK
  <2>2. SUFFICES ASSUME SoleProcMon, NEW q \in Pids
                 PROVE  /\ proc[q] # None /\ <<q, life[q]>> \in announced' => q \in Running(g)
                        /\ q \in work[g] \ {p} => <<q, listed[g][q].life>> \notin announced'
    BY <1>2, <2>1 DEF News, Running
  <2>3. News(g)
    BY <2>2 DEF IInv, NewsInv
  <2>4. p \in Running(g)
    BY <1>4 DEF Running
  <2>. QED
    BY <1>2, <1>3, <2>3, <2>4 DEF News
<1>. QED
  BY <1>2, <1>5, <1>6, <1>7, <1>8, Unmoved, PollingKeeps DEF Works

(* The list becomes the known one. *)
LEMMA PolledKeeps == ASSUME IInv, NEW g \in ProcMons, Polled(g) PROVE IInv'
<1>1. g \in Monitors
  BY DEF Monitors
<1>2. /\ UNCHANGED <<proc, life, signs, conn, on, memory, reported, told, hits, alerted, at, todo,
                     faults>>
      /\ pc[g] = "work" /\ End(g)
      /\ known' = [known EXCEPT ![g] = Running(g)]
      /\ first' = [first EXCEPT ![g] = FALSE]
      /\ announced' = announced \cup
             {<<p, listed[g][p].life>> : p \in IF first[g] THEN Running(g) ELSE {}}
  BY DEF Polled, machine
<1>3. Passes(g)
  BY <1>1, <1>2, EndPasses
<1>4. Running(g) \subseteq Pids
  BY DEF Running
<1>5. \A p \in Running(g) : listed[g][p].life \in 1..MaxLives /\ listed[g][p].life <= life[p]
  BY <1>1, TypeParts, ListedIsSome DEF IInv, PassesOK, Running, ListedInv, Fits
<1>6. SeenOK'
  BY <1>2, <1>4, <1>5, TypeParts DEF IInv, SeenOK
<1>7. AnnouncedInv'
  BY <1>2, <1>4, <1>5 DEF IInv, AnnouncedInv
<1>8. SoleProcMon => News(g)'
  <2>1. pc'[g] = "idle" /\ work'[g] = {} /\ known'[g] = Running(g)
    BY <1>1, <1>2, TypeParts DEF End, Goto, Give, IInv, PassesOK, SeenOK
  <2>2. SUFFICES ASSUME SoleProcMon, NEW p \in Pids, proc[p] # None,
                        <<p, life[p]>> \in announced'
                 PROVE  p \in Running(g)
    BY <1>2, <2>1 DEF News
  <2>3. News(g)
    BY <2>2 DEF IInv, NewsInv
  <2>. QED
    BY <1>2, <2>2, <2>3 DEF News
<1>. QED
  BY <1>2, <1>3, <1>6, <1>7, <1>8, Unmoved, PollingKeeps DEF Works

(* Reports *)

(* A process ends, and with it what there was to see of it. *)
LEMMA ProcessEnds ==
    ASSUME IInv, NEW p \in Pids, proc' = [proc EXCEPT ![p] = None],
           signs' = [k \in Kinds |-> signs[k] \ {p}], conn' = conn \ {p},
           UNCHANGED <<life, on, announced, known, first, pc, listed, work>>
    PROVE  MachineOK' /\ LifeInv' /\ AnnouncedInv' /\ NewsInv' /\ ListedInv'
<1>1. MachineOK'
  BY TypeParts DEF IInv, MachineOK
<1>2. \A q \in Pids : proc'[q] = IF q = p THEN None ELSE proc[q]
  BY TypeParts DEF IInv, MachineOK
<1>3. LifeInv' /\ AnnouncedInv'
  BY <1>2 DEF IInv, LifeInv, AnnouncedInv
<1>4. NewsInv'
  BY <1>2 DEF IInv, NewsInv, News, Running
<1>5. ListedInv'
  BY <1>2 DEF IInv, ListedInv, Fits
<1>. QED
  BY <1>1, <1>3, <1>4, <1>5

(* One verdict less, and perhaps one process less. *)
LEMMA ReportKeeps == ASSUME IInv, NEW g \in Monitors, Report(g) PROVE IInv'
<1>1. PICK v \in todo[g] : todo' = [todo EXCEPT ![g] = todo[g] \ {v}]
  BY TypeParts DEF Report, IInv, PassesOK
<1>2. /\ UNCHANGED <<life, on, pc, listed, work, at, since, known, first, memory, reported, told,
                     hits, alerted, announced, faults>>
      /\ pc[g] = "report"
  BY DEF Report, seen, history
<1>3. PassesOK'
  BY <1>1, <1>2, TypeParts DEF IInv, PassesOK
<1>4. PassInv'
  <2>1. \A h \in Monitors : todo'[h] \subseteq todo[h]
    BY <1>1, TypeParts DEF IInv, PassesOK
  <2>. QED
    BY <1>2, <2>1 DEF IInv, PassInv, Pass, Running
<1>5. MachineOK' /\ LifeInv' /\ AnnouncedInv' /\ NewsInv' /\ ListedInv'
  <2>1. CASE UNCHANGED <<proc, signs, conn>>
    BY <1>2, <2>1, TypeParts
    DEF IInv, MachineOK, LifeInv, AnnouncedInv, NewsInv, News, Running, ListedInv, Fits
  <2>2. CASE /\ proc' = [proc EXCEPT ![at[g]] = None]
             /\ signs' = [k \in Kinds |-> signs[k] \ {at[g]}]
             /\ conn' = conn \ {at[g]}
    <3>1. at[g] \in Pids
      BY <1>2 DEF IInv, PassInv, Pass
    <3>. QED
      BY <1>2, <2>2, <3>1, ProcessEnds
  <2>. QED
    BY <2>1, <2>2 DEF Report
<1>6. SeenOK' /\ MemoryOK' /\ AgesOK' /\ ToldInv' /\ HitsOK' /\ AlertInv' /\ faults' \in 0..MaxFaults
  BY <1>2, TypeParts, Unmoved DEF IInv, SeenOK
<1>7. TypeOK'
  BY <1>3, <1>5, <1>6, TypeParts
  DEF TypeOK, MachineOK, PassesOK, SeenOK, AgesOK, MemoryOK, HitsOK
<1>. QED
  BY <1>4, <1>5, <1>6, <1>7 DEF IInv

LEMMA HandledKeeps == ASSUME IInv, NEW g \in Monitors, Handled(g) PROVE IInv'
<1>1. /\ UNCHANGED <<proc, life, signs, conn, on, listed, work, todo, since, known, first, reported,
                     told, scanned, drained, hits, alerted, announced, faults>>
      /\ pc[g] = "report" /\ todo[g] = {}
      /\ pc' = [pc EXCEPT ![g] = "work"] /\ at' = [at EXCEPT ![g] = None]
      /\ suspects' = [suspects EXCEPT ![at[g]] = 0] \/ UNCHANGED suspects
  BY DEF Handled, machine, seen, history, Goto
<1>2. at[g] \in Pids
  BY <1>1 DEF IInv, PassInv, Pass
<1>3. PassesOK'
  BY <1>1, TypeParts DEF IInv, PassesOK
<1>4. Pass(g)'
  BY <1>1, TypeParts DEF IInv, PassesOK, PassInv, Pass, Running
<1>5. Fits(g)' /\ Only(g)
  BY <1>1, TypeParts DEF IInv, PassesOK, ListedInv, Fits, Only
<1>6. Passes(g)
  BY <1>3, <1>4, <1>5 DEF Passes
<1>7. MemoryOK'
  <2>1. 0 \in 0..(MemRescan + 1)
    BY Numbers
  <2>. QED
    BY <1>1, <1>2, <2>1, TypeParts DEF IInv, MemoryOK
<1>8. MachineOK' /\ SeenOK' /\ AgesOK' /\ ToldInv' /\ HitsOK' /\ AlertInv'
  BY <1>1, TypeParts, Unmoved DEF IInv, MachineOK, SeenOK
<1>9. TypeOK'
  BY <1>1, <1>3, <1>7, <1>8, TypeParts
  DEF IInv, TypeOK, MachineOK, PassesOK, SeenOK, AgesOK, MemoryOK, HitsOK
<1>10. PassInv' /\ ListedInv'
  BY <1>1, <1>6, AllPasses
<1>11. LifeInv' /\ AnnouncedInv'
  BY <1>1 DEF IInv, LifeInv, AnnouncedInv
<1>12. NewsInv'
  <2>1. \A h \in Monitors : pc'[h] = "idle" <=> pc[h] = "idle"
    BY <1>1, TypeParts DEF IInv, PassesOK
  <2>2. \A h \in ProcMons : pc'[h] = "idle" <=> pc[h] = "idle"
    BY <2>1 DEF Monitors
  <2>. QED
    BY <1>1, <2>2 DEF IInv, NewsInv, News, Running
<1>. QED
  BY <1>8, <1>9, <1>10, <1>11, <1>12 DEF IInv

(* Other programs and time *)

(* What a step of another program keeps of the passes. *)
LEMMA OutsideKeeps ==
    ASSUME IInv, MachineOK', LifeInv', ListedInv', AnnouncedInv', NewsInv',
           UNCHANGED <<passes, seen, reported, memory, hits, faults, history>>
    PROVE  IInv'
<1>1. UNCHANGED <<pc, listed, work, at, todo, since, known, first, reported, told, hits, alerted,
                  announced>>
  BY DEF passes, seen, history
<1>2. PassesOK' /\ SeenOK' /\ MemoryOK' /\ AgesOK' /\ ToldInv' /\ HitsOK' /\ AlertInv'
  BY <1>1, TypeParts, Unmoved DEF IInv, PassesOK, SeenOK
<1>3. PassInv'
  BY <1>1 DEF IInv, PassInv, Pass, Running
<1>4. TypeOK'
  BY <1>2, TypeParts DEF IInv, TypeOK, MachineOK, PassesOK, SeenOK, AgesOK, MemoryOK, HitsOK
<1>. QED
  BY <1>2, <1>3, <1>4 DEF IInv

(* A process that starts is one that nobody has listed or announced. *)
LEMMA StartKeeps == ASSUME IInv, NEW p \in Pids, Start(p) PROVE IInv'
<1>1. PICK prog \in Programs : proc' = [proc EXCEPT ![p] = prog]
  BY DEF Start
<1>2. /\ UNCHANGED <<signs, conn, on, pc, listed, work, known, announced>>
      /\ life[p] < MaxLives /\ life' = [life EXCEPT ![p] = @ + 1]
  BY DEF Start, passes, seen, history
<1>3. /\ \A q \in Pids : life[q] \in Nat
      /\ \A q \in Pids : life'[q] = IF q = p THEN life[p] + 1 ELSE life[q]
      /\ \A q \in Pids : proc'[q] = IF q = p THEN prog ELSE proc[q]
  BY <1>1, <1>2, TypeParts, Numbers DEF IInv, MachineOK
<1>4. MachineOK'
  BY <1>1, <1>2, TypeParts, Numbers DEF IInv, MachineOK
<1>5. LifeInv'
  BY <1>3 DEF IInv, LifeInv
<1>6. AnnouncedInv'
  BY <1>2, <1>3, Numbers DEF IInv, AnnouncedInv
<1>7. life'[p] \in 1..MaxLives /\ <<p, life'[p]>> \notin announced
  BY <1>2, <1>3, Numbers DEF IInv, AnnouncedInv
<1>8. NewsInv'
  <2>1. SUFFICES ASSUME SoleProcMon, NEW g \in ProcMons, NEW q \in Pids
                 PROVE  /\ proc'[q] # None /\ <<q, life'[q]>> \in announced =>
                              IF pc[g] = "idle" THEN q \in known[g] ELSE q \in Running(g)
                        /\ q \in work[g] => <<q, listed[g][q].life>> \notin announced
    BY <1>2 DEF NewsInv, News, Running
  <2>2. News(g)
    BY <2>1 DEF IInv, NewsInv
  <2>3. CASE q = p
    BY <1>7, <2>2, <2>3 DEF News
  <2>4. CASE q # p
    BY <1>3, <2>2, <2>4 DEF News
  <2>. QED
    BY <2>3, <2>4
<1>9. ListedInv'
  <2>1. \A g \in Monitors, q \in Pids : listed[g][q] # None => listed[g][q].life \in Nat
    BY TypeParts, ListedIsSome, Numbers DEF IInv, PassesOK
  <2>. QED
    BY <1>2, <1>3, <2>1 DEF IInv, ListedInv, Fits
<1>. QED
  BY <1>4, <1>5, <1>6, <1>8, <1>9, OutsideKeeps DEF Start

LEMMA ExitKeeps == ASSUME IInv, NEW p \in Pids, Exit(p) PROVE IInv'
<1>1. MachineOK' /\ LifeInv' /\ AnnouncedInv' /\ NewsInv' /\ ListedInv'
  BY ProcessEnds DEF Exit, passes, seen, history
<1>. QED
  BY <1>1, OutsideKeeps DEF Exit

LEMMA ActKeeps == ASSUME IInv, NEW p \in Pids, Act(p) PROVE IInv'
<1>1. UNCHANGED <<proc, life, on, pc, listed, work, known, announced>>
  BY DEF Act, passes, seen, history
<1>2. signs' \in [Kinds -> SUBSET Pids] /\ conn' \subseteq Pids
  BY TypeParts, MonitorsAssumption DEF Act, IInv, MachineOK
<1>3. MachineOK'
  BY <1>1, <1>2, TypeParts DEF IInv, MachineOK
<1>4. LifeInv' /\ AnnouncedInv' /\ NewsInv' /\ ListedInv'
  BY <1>1 DEF IInv, LifeInv, AnnouncedInv, NewsInv, News, Running, ListedInv, Fits
<1>. QED
  BY <1>3, <1>4, OutsideKeeps DEF Act

LEMMA OlderOK ==
    ASSUME NEW limit \in Nat, NEW age \in Nat, age <= limit
    PROVE  Older(age, limit) \in 0..limit /\ Older(age, limit) >= age
                /\ Older(age, limit) = IF age < limit THEN age + 1 ELSE limit
BY DEF Older

(* Everything grows older, and nothing else happens. *)
LEMMA TickKeeps == ASSUME IInv, Tick PROVE IInv'
<1>1. UNCHANGED <<proc, life, signs, conn, on, pc, listed, work, at, todo, known, first, drained,
                  faults, announced, alerted>>
  BY DEF Tick, machine, seen
<1>2. MachineOK' /\ SeenOK'
  BY <1>1, TypeParts DEF IInv, MachineOK, SeenOK
<1>3. PassesOK'
  <2>1. since' \in [Monitors -> 0..MaxPass]
    BY TypeParts, Numbers DEF Tick, IInv, PassesOK
  <2>. QED
    BY <1>1, <2>1, TypeParts DEF IInv, PassesOK
<1>4. MemoryOK'
  <2>1. Oldest \in Nat /\ MemRescan + 1 \in Nat
    BY Numbers DEF Oldest
  <2>2. scanned' \in [Pids -> 0..Oldest]
    BY <2>1, TypeParts, OlderOK DEF Tick, IInv, MemoryOK
  <2>3. ASSUME NEW p \in Pids
        PROVE  (IF suspects[p] = None THEN None ELSE Older(suspects[p], MemRescan + 1))
                  \in 0..(MemRescan + 1) \cup {None}
    <3>1. CASE suspects[p] = None
      BY <3>1
    <3>2. CASE suspects[p] # None
      <4>1. suspects[p] \in Nat /\ suspects[p] <= MemRescan + 1
        BY <2>1, <3>2, TypeParts DEF IInv, MemoryOK
      <4>. QED
        BY <2>1, <3>2, <4>1, OlderOK
    <3>. QED
      BY <3>1, <3>2
  <2>4. suspects' = [p \in Pids |-> IF suspects[p] = None THEN None
                                    ELSE Older(suspects[p], MemRescan + 1)]
    BY DEF Tick
  <2>5. suspects' \in [Pids -> 0..(MemRescan + 1) \cup {None}]
    BY <2>3, <2>4
  <2>. QED
    BY <1>1, <2>2, <2>5, TypeParts DEF IInv, MemoryOK
<1>5. AgesOK' /\ ToldInv'
  <2>1. \A k \in Kinds : Stale(k) \in Nat /\ KindSlack(k) \in Nat
    BY Numbers DEF Stale, KindSlack
  <2>2. /\ reported' = [k \in Kinds |-> [p \in Pids |-> Older(reported[k][p], Stale(k))]]
        /\ told' = [k \in Kinds |-> [p \in Pids |-> Older(told[k][p], Stale(k))]]
    BY DEF Tick
  <2>3. ASSUME NEW k \in Kinds, NEW p \in Pids
        PROVE  /\ reported'[k][p] \in Nat /\ reported'[k][p] <= Stale(k)
               /\ told'[k][p] \in Nat /\ told'[k][p] <= Stale(k)
               /\ told'[k][p] <= reported'[k][p]
               /\ reported'[k][p] <= told'[k][p] + KindSlack(k)
    <3>1. /\ reported[k][p] \in Nat /\ reported[k][p] <= Stale(k)
          /\ told[k][p] \in Nat /\ told[k][p] <= Stale(k)
          /\ told[k][p] <= reported[k][p]
          /\ reported[k][p] <= told[k][p] + KindSlack(k)
      BY TypeParts DEF IInv, AgesOK, ToldInv
    <3>2. /\ reported'[k][p] = Older(reported[k][p], Stale(k))
          /\ told'[k][p] = Older(told[k][p], Stale(k))
      BY <2>2
    <3>. QED
      BY <2>1, <3>1, <3>2 DEF Older
  <2>4. reported' \in [Kinds -> [Pids -> Nat]] /\ told' \in [Kinds -> [Pids -> Nat]]
    <3>1. \A k \in Kinds, p \in Pids :
             Older(reported[k][p], Stale(k)) \in Nat /\ Older(told[k][p], Stale(k)) \in Nat
      BY <2>2, <2>3
    <3>. QED
      BY <2>2, <3>1
  <2>. QED
    BY <2>3, <2>4 DEF AgesOK, ToldInv
<1>6. HitsOK' /\ AlertInv'
  <2>. DEFINE B == 0..BeaconWindow
              aged(p) == [i \in DOMAIN hits[p] |-> Older(hits[p][i], BeaconWindow)]
  <2>1. ASSUME NEW p \in Pids
        PROVE  aged(p) \in Seq(B) /\ Len(aged(p)) = Len(hits[p])
    <3>1. /\ hits[p] \in Seq(B) /\ Len(hits[p]) \in Nat
          /\ DOMAIN hits[p] = 1..Len(hits[p])
          /\ \A i \in 1..Len(hits[p]) : hits[p][i] \in B
      <4>1. hits[p] \in Seq(B)
        BY TypeParts DEF IInv, HitsOK
      <4>. HIDE DEF B
      <4>. QED
        BY <4>1, LenProperties, ElementOfSeq
    <3>2. \A i \in 1..Len(hits[p]) : Older(hits[p][i], BeaconWindow) \in B
      <4>1. BeaconWindow \in Nat /\ \A age \in B : age \in Nat /\ age <= BeaconWindow
        BY Numbers
      <4>2. \A age \in B : Older(age, BeaconWindow) \in B
        BY <4>1, OlderOK
      <4>. HIDE DEF B
      <4>. QED
        BY <3>1, <4>2
    <3>3. aged(p) = [i \in 1..Len(hits[p]) |-> Older(hits[p][i], BeaconWindow)]
      BY <3>1
    <3>. HIDE DEF B, aged
    <3>4. aged(p) \in [1..Len(hits[p]) -> B]
      BY <3>2, <3>3
    <3>. QED
      BY <3>1, <3>4, IsASeq, LenProperties
  <2>2. hits' = [p \in Pids |-> aged(p)]
    BY DEF Tick
  <2>. HIDE DEF aged
  <2>3. hits' \in [Pids -> Seq(B)] /\ \A p \in Pids : Len(hits'[p]) = Len(hits[p])
    BY <2>1, <2>2
  <2>. QED
    BY <1>1, <2>3, TypeParts DEF IInv, HitsOK, AlertInv
<1>7. TypeOK'
  BY <1>1, <1>2, <1>3, <1>4, <1>5, <1>6, TypeParts
  DEF IInv, TypeOK, MachineOK, PassesOK, SeenOK, AgesOK, MemoryOK, HitsOK
<1>8. PassInv' /\ ListedInv'
  BY <1>1 DEF IInv, PassInv, Pass, Running, ListedInv, Fits
<1>9. LifeInv' /\ AnnouncedInv' /\ NewsInv'
  BY <1>1 DEF IInv, LifeInv, AnnouncedInv, NewsInv, News, Running
<1>. QED
  BY <1>5, <1>6, <1>7, <1>8, <1>9 DEF IInv

-----------------------------------------------------------------------------
(* Theorems *)

LEMMA InitInv == ASSUME Init PROVE IInv
<1>1. MachineOK /\ LifeInv
  BY Numbers DEF Init, MachineOK, LifeInv
<1>2. PassesOK
  BY Numbers DEF Init, PassesOK
<1>3. AgesOK /\ ToldInv
  <2>1. \A k \in Kinds : Stale(k) \in Nat /\ KindSlack(k) \in Nat
    BY Numbers DEF Stale, KindSlack
  <2>. QED
    BY <2>1 DEF Init, AgesOK, ToldInv
<1>4. SeenOK /\ MemoryOK /\ faults \in 0..MaxFaults
  BY Numbers DEF Init, SeenOK, MemoryOK, Oldest
<1>5. HitsOK /\ AlertInv
  BY Numbers, EmptySeq DEF Init, HitsOK, AlertInv
<1>6. TypeOK
  BY <1>1, <1>2, <1>3, <1>4, <1>5, TypeParts
<1>7. PassInv
  <2>1. ASSUME NEW g \in Monitors PROVE Pass(g)
    BY DEF Init, Pass
  <2>. QED
    BY <2>1 DEF PassInv
<1>8. ListedInv /\ AnnouncedInv
  BY DEF Init, ListedInv, Fits, AnnouncedInv
<1>9. NewsInv
  <2>1. \A g \in ProcMons : work[g] = {} /\ announced = {}
    BY DEF Init, Monitors
  <2>. QED
    BY <2>1 DEF NewsInv, News
<1>. QED
  BY <1>1, <1>3, <1>5, <1>6, <1>7, <1>8, <1>9 DEF IInv

LEMMA StutterKeeps == ASSUME IInv, UNCHANGED vars PROVE IInv'
<1>1. UNCHANGED <<proc, life, signs, conn, on, pc, listed, work, at, todo, since, known, first,
                  reported, suspects, scanned, drained, hits, faults, announced, told, alerted>>
  BY DEF vars, machine, passes, seen, memory, history
<1>2. TypeOK' /\ LifeInv' /\ ToldInv' /\ AlertInv' /\ AnnouncedInv'
  BY <1>1 DEF IInv, TypeOK, LifeInv, ToldInv, AlertInv, AnnouncedInv
<1>3. PassInv' /\ ListedInv' /\ NewsInv'
  BY <1>1 DEF IInv, PassInv, Pass, Running, ListedInv, Fits, NewsInv, News
<1>. QED
  BY <1>2, <1>3 DEF IInv

LEMMA NextInv == ASSUME IInv, [Next]_vars PROVE IInv'
<1>1. ASSUME NEW g \in ProcMons, Polling(g) PROVE IInv'
  BY <1>1, PollKeeps, AnnounceKeeps, PolledKeeps DEF Polling
<1>2. ASSUME NEW w \in Watchers, Begin(w) \/ Watching(w) PROVE IInv'
  BY <1>2, BeginKeeps, ChooseKeeps, SightKeeps, OverlookKeeps, WatchedKeeps DEF Watching
<1>3. ASSUME NEW m \in MemMons, Drain(m) \/ Examining(m) PROVE IInv'
  BY <1>3, DrainKeeps, SweepKeeps, ExamineKeeps, PassOverKeeps, SweptKeeps DEF Examining
<1>4. ASSUME NEW n \in NetMons, Connecting(n) PROVE IInv'
  BY <1>4, ConnectionsKeeps, ConnectedKeeps, NetScannedKeeps DEF Connecting
<1>5. ASSUME NEW g \in Monitors, Reporting(g) PROVE IInv'
  BY <1>5, ReportKeeps, HandledKeeps DEF Reporting
<1>6. ASSUME NEW p \in Pids, Start(p) \/ Exit(p) \/ Act(p) PROVE IInv'
  BY <1>6, StartKeeps, ExitKeeps, ActKeeps
<1>. QED
  BY <1>1, <1>2, <1>3, <1>4, <1>5, <1>6, TickKeeps, StutterKeeps DEF Next

(* The invariant holds in every state the monitors can be in. *)
THEOREM Invariance == Spec => []IInv
BY InitInv, NextInv, PTL DEF Spec

(* Every variable keeps its type: the ages stay within the age from which  *)
(* the code no longer tells them from a missing entry, and the histories   *)
(* of the beaconing detector within their bound.                           *)
THEOREM TypeCorrect == Spec => []TypeOK
<1>1. IInv => TypeOK
  BY DEF IInv
<1>. QED
  BY <1>1, Invariance, PTL

(* Only the report of a verdict takes it from those of an event. *)
LEMMA TakenByReport ==
    ASSUME IInv, [Next]_vars, NEW g \in Monitors, NEW v \in todo[g], v \notin todo'[g]
    PROVE  /\ proc[at[g]] = None => proc'[at[g]] = None
           /\ proc'[at[g]] # proc[at[g]] =>
                 /\ ~Known(g, at[g]).prog.vetted
                 /\ Known(g, at[g]).prog.name # "system"
<1>1. pc[g] = "report"
  BY DEF IInv, PassInv, Pass
<1>2. ASSUME NEW h \in Monitors, Report(h)
      PROVE  /\ proc[at[g]] = None => proc'[at[g]] = None
             /\ proc'[at[g]] # proc[at[g]] =>
                    /\ ~Known(g, at[g]).prog.vetted
                    /\ Known(g, at[g]).prog.name # "system"
  <2>1. g = h
    BY <1>2, TypeParts DEF Report, IInv, PassesOK
  <2>2. at[g] \in Pids
    BY <1>1 DEF IInv, PassInv, Pass
  <2>3. CASE UNCHANGED proc
    BY <2>3
  <2>4. CASE ~UNCHANGED proc
    <3>1. /\ ~Known(g, at[g]).prog.vetted
          /\ Known(g, at[g]).prog.name # "system"
          /\ proc' = [proc EXCEPT ![at[g]] = None]
      BY <1>2, <2>1, <2>4 DEF Report, ShouldTerminate
    <3>. QED
      BY <2>2, <3>1, TypeParts DEF IInv, MachineOK
  <2>. QED
    BY <2>3, <2>4
<1>3. UNCHANGED vars => UNCHANGED todo
  BY DEF vars, passes
<1>4. ASSUME NEW h \in Monitors, Handled(h) PROVE UNCHANGED todo
  BY <1>4 DEF Handled
<1>5. ASSUME NEW h \in ProcMons, Polling(h) PROVE todo'[g] = todo[g]
  <2>1. CASE Announce(h)
    BY <1>1, <2>1, TypeParts DEF Announce, Handle, IInv, PassesOK
  <2>. QED
    BY <1>5, <2>1 DEF Polling, Poll, Polled
<1>6. ASSUME NEW w \in Watchers, Begin(w) \/ Watching(w) PROVE todo'[g] = todo[g]
  <2>1. CASE Sight(w)
    BY <1>1, <2>1, TypeParts DEF Sight, Handle, IInv, PassesOK
  <2>. QED
    BY <1>6, <2>1 DEF Watching, Begin, Choose, Overlook, Watched
<1>7. ASSUME NEW m \in MemMons, Drain(m) \/ Examining(m) PROVE todo'[g] = todo[g]
  <2>1. CASE Examine(m)
    BY <1>1, <2>1, TypeParts DEF Examine, Handle, IInv, PassesOK
  <2>. QED
    BY <1>7, <2>1 DEF Examining, Drain, Sweep, PassOver, Swept
<1>8. ASSUME NEW n \in NetMons, Connecting(n) PROVE todo'[g] = todo[g]
  <2>1. CASE Connected(n)
    BY <1>1, <2>1, TypeParts DEF Connected, Handle, IInv, PassesOK
  <2>. QED
    BY <1>8, <2>1 DEF Connecting, Connections, NetScanned
<1>9. ASSUME NEW p \in Pids, Start(p) \/ Exit(p) \/ Act(p) PROVE UNCHANGED todo
  BY <1>9 DEF Start, Exit, Act, passes
<1>10. Tick => UNCHANGED todo
  BY DEF Tick
<1>. QED
  BY <1>1, <1>2, <1>3, <1>4, <1>5, <1>6, <1>7, <1>8, <1>9, <1>10 DEF Next, Reporting

(* Whoever is terminated for token theft, and has not come by the id since *)
(* the pass listed the processes, is an offender: whatever monitors run    *)
(* and whatever ends and starts beside them.                               *)
THEOREM OffendersAreTerminated == Spec => OffendersOnly
<1>1. ASSUME IInv, [Next]_vars, NEW g \in Monitors, NEW v \in todo[g] \ todo'[g],
             v.threat = "token_theft", proc'[at[g]] # proc[at[g]],
             listed[g][at[g]].life = life[at[g]]
      PROVE  /\ proc[at[g]].name = "other" => ~proc[at[g]].vetted
             /\ proc[at[g]].name = "owner" => ~(proc[at[g]].signed /\ listed[g][at[g]].path)
             /\ proc[at[g]].name # "system"
  <2>1. at[g] \in Pids /\ listed[g][at[g]] # None /\ Guilty(listed[g][at[g]])
    BY <1>1, TakenByReport DEF IInv, PassInv, Pass
  <2>2. Known(g, at[g]) = listed[g][at[g]]
    BY <2>1 DEF Known
  <2>3. ~listed[g][at[g]].prog.vetted /\ listed[g][at[g]].prog.name # "system"
    BY <1>1, <2>2, TakenByReport
  <2>4. proc[at[g]] \in {listed[g][at[g]].prog, None}
    BY <1>1, <2>1 DEF IInv, ListedInv, Fits
  <2>5. proc[at[g]] # None
    BY <1>1, TakenByReport
  <2>. QED
    BY <2>1, <2>3, <2>4, <2>5 DEF Guilty
<1>2. IInv /\ [Next]_vars =>
        [\A g \in Monitors : \A v \in todo[g] \ todo'[g] :
            LET p == at[g]
            IN  (v.threat = "token_theft" /\ proc'[p] # proc[p] /\ listed[g][p].life = life[p])
                    => /\ proc[p].name = "other" => ~proc[p].vetted
                       /\ proc[p].name = "owner" => ~(proc[p].signed /\ listed[g][p].path)
                       /\ proc[p].name # "system"]_vars
  BY <1>1
<1>. QED
  BY <1>2, Invariance, PTL DEF Spec, OffendersOnly

(* A watcher's work is taken up by its own steps. *)
LEMMA WorkIsOwn ==
    ASSUME IInv, [Next]_vars, NEW w \in Watchers, pc[w] = "work", NEW p \in work[w],
           p \notin work'[w]
    PROVE  Sight(w) \/ Overlook(w) \/ Watched(w)
<1>1. w \notin ProcMons /\ w \notin MemMons /\ w \notin NetMons /\ w \in Monitors
  BY Apart DEF Monitors
<1>2. UNCHANGED vars => UNCHANGED work
  BY DEF vars, passes
<1>3. ASSUME NEW g \in ProcMons, Polling(g) PROVE work'[w] = work[w]
  BY <1>1, <1>3, TypeParts DEF Polling, Poll, Announce, Polled, End, Give, IInv, PassesOK
<1>4. ASSUME NEW v \in Watchers, Begin(v) \/ Watching(v), v # w PROVE work'[w] = work[w]
  BY <1>1, <1>4, TypeParts
  DEF Watching, Begin, Choose, Sight, Overlook, Watched, End, Give, IInv, PassesOK
<1>5. ASSUME NEW m \in MemMons, Drain(m) \/ Examining(m) PROVE work'[w] = work[w]
  BY <1>1, <1>5, TypeParts
  DEF Examining, Drain, Sweep, Examine, PassOver, Swept, End, Give, IInv, PassesOK
<1>6. ASSUME NEW n \in NetMons, Connecting(n) PROVE work'[w] = work[w]
  BY <1>1, <1>6, TypeParts
  DEF Connecting, Connections, Connected, NetScanned, End, Give, IInv, PassesOK
<1>7. ASSUME NEW g \in Monitors, Reporting(g) PROVE UNCHANGED work
  BY <1>7 DEF Reporting, Report, Handled
<1>8. ASSUME NEW q \in Pids, Start(q) \/ Exit(q) \/ Act(q) PROVE UNCHANGED work
  BY <1>8 DEF Start, Exit, Act, passes
<1>9. Tick => UNCHANGED work
  BY DEF Tick
<1>10. Begin(w) \/ Watching(w)
  BY <1>2, <1>3, <1>4, <1>5, <1>6, <1>7, <1>8, <1>9 DEF Next
<1>11. ~Begin(w) /\ ~Choose(w)
  BY DEF Begin, Choose
<1>. QED
  BY <1>10, <1>11 DEF Watching

(* A sighting is told or passed over by the age of the last event about    *)
(* the id, up to the time the pass has taken, for any number of watchers   *)
(* that share the entries.                                                 *)
THEOREM SightingsAreSpaced == Spec => ToldOncePerInterval
<1>1. ASSUME IInv, [Next]_vars, NEW w \in Watchers, NEW p \in work[w] \ work'[w],
             pc[w] = "work", Shows(w, p)
      PROVE  \/ pc'[w] = "idle"
             \/ /\ pc'[w] = "work"
                /\ told[Kind[w]][p] < ReportInterval + Slack(w)
             \/ /\ pc'[w] = "report"
                /\ told[Kind[w]][p] + Slack(w) >= ReportInterval
  <2>1. /\ w \in Monitors /\ p \in Pids /\ Kind[w] \in Kinds
        /\ pc \in [Monitors -> {"idle", "list", "listed", "work", "report"}]
        /\ work \in [Monitors -> SUBSET Pids]
    BY <1>1, TypeParts, MonitorsAssumption DEF Monitors, IInv, PassesOK
  <2>2. /\ told[Kind[w]][p] \in Nat /\ reported[Kind[w]][p] \in Nat
        /\ told[Kind[w]][p] <= reported[Kind[w]][p]
        /\ reported[Kind[w]][p] <= told[Kind[w]][p] + Slack(w)
    BY <1>1, <2>1, TypeParts DEF IInv, AgesOK, ToldInv, Slack, KindSlack
  <2>3. Clock(w) \in Nat /\ Clock(w) <= Slack(w) /\ Slack(w) \in Nat
    <3>1. since[w] \in Nat /\ since[w] <= MaxPass
      BY <1>1, <2>1, TypeParts, Numbers DEF IInv, PassesOK
    <3>. QED
      BY <3>1, Numbers DEF Clock, Slack
  <2>4. CASE Sight(w)
    <3>1. pc'[w] = "report"
      BY <2>1, <2>4 DEF Sight, Handle, Goto
    <3>2. ~Silent(w, p)
      BY <1>1, <2>1, <2>4 DEF Sight, Give
    <3>. QED
      BY <2>2, <2>3, <3>1, <3>2, Numbers DEF Silent
  <2>5. CASE Overlook(w)
    <3>1. pc'[w] = "work"
      BY <1>1, <2>5 DEF Overlook
    <3>2. Silent(w, p)
      BY <1>1, <2>1, <2>5 DEF Overlook, Give
    <3>. QED
      BY <2>2, <2>3, <3>1, <3>2, Numbers DEF Silent
  <2>6. CASE Watched(w)
    BY <2>1, <2>6 DEF Watched, End, Goto
  <2>. QED
    BY <1>1, <2>4, <2>5, <2>6, WorkIsOwn
<1>2. IInv /\ [Next]_vars =>
        [\A w \in Watchers : \A p \in work[w] \ work'[w] :
            pc[w] = "work" /\ Shows(w, p) =>
               \/ pc'[w] = "idle"
               \/ /\ pc'[w] = "work"
                  /\ told[Kind[w]][p] < ReportInterval + Slack(w)
               \/ /\ pc'[w] = "report"
                  /\ told[Kind[w]][p] + Slack(w) >= ReportInterval]_vars
  BY <1>1
<1>. QED
  BY <1>2, Invariance, PTL DEF Spec, ToldOncePerInterval

(* The event that a monitor starts to handle is one of its own. *)
LEMMA EventIsOwn ==
    ASSUME IInv, [Next]_vars, NEW g \in Monitors, at[g] = None, at'[g] # None
    PROVE  \/ g \in ProcMons /\ Announce(g)
           \/ g \in Watchers /\ Sight(g)
           \/ g \in MemMons /\ Examine(g)
           \/ g \in NetMons /\ Connected(g)
<1>1. at \in [Monitors -> Pids \cup {None}]
  BY TypeParts DEF IInv, PassesOK
<1>2. UNCHANGED vars => UNCHANGED at
  BY DEF vars, passes
<1>3. ASSUME NEW h \in ProcMons, Polling(h) PROVE (h = g /\ Announce(h)) \/ at'[g] = at[g]
  BY <1>1, <1>3 DEF Polling, Poll, Announce, Polled, Handle
<1>4. ASSUME NEW w \in Watchers, Begin(w) \/ Watching(w)
      PROVE  (w = g /\ Sight(w)) \/ at'[g] = at[g]
  BY <1>1, <1>4 DEF Watching, Begin, Choose, Sight, Overlook, Watched, Handle
<1>5. ASSUME NEW m \in MemMons, Drain(m) \/ Examining(m)
      PROVE  (m = g /\ Examine(m)) \/ at'[g] = at[g]
  BY <1>1, <1>5 DEF Examining, Drain, Sweep, Examine, PassOver, Swept, Handle
<1>6. ASSUME NEW n \in NetMons, Connecting(n) PROVE (n = g /\ Connected(n)) \/ at'[g] = at[g]
  BY <1>1, <1>6 DEF Connecting, Connections, Connected, NetScanned, Handle
<1>7. ASSUME NEW h \in Monitors, Reporting(h) PROVE at'[g] \in {at[g], None}
  BY <1>1, <1>7 DEF Reporting, Report, Handled
<1>8. ASSUME NEW q \in Pids, Start(q) \/ Exit(q) \/ Act(q) PROVE UNCHANGED at
  BY <1>8 DEF Start, Exit, Act, passes
<1>9. Tick => UNCHANGED at
  BY DEF Tick
<1>. QED
  BY <1>2, <1>3, <1>4, <1>5, <1>6, <1>7, <1>8, <1>9 DEF Next

(* With one process monitor, which is what a configuration starts, no      *)
(* process is announced twice, however its polls fail and its id is used.  *)
THEOREM ProcessesAreAnnouncedOnce ==
    ASSUME SoleProcMon
    PROVE  Spec => AnnouncedOnce
<1>1. ASSUME IInv, [Next]_vars, NEW g \in ProcMons, NEW p \in Pids, at[g] = None, at'[g] = p
      PROVE  <<p, listed[g][p].life>> \notin announced
  <2>1. g \in Monitors /\ g \notin Watchers /\ g \notin MemMons /\ g \notin NetMons
    BY Apart DEF Monitors
  <2>2. Announce(g)
    BY <1>1, <2>1, NoPidIsNone, EventIsOwn
  <2>3. p \in work[g]
    BY <1>1, <2>1, <2>2, TypeParts DEF Announce, Handle, IInv, PassesOK
  <2>. QED
    BY <1>1, <2>3, SoleProcMon DEF IInv, NewsInv, News
<1>2. IInv /\ [Next]_vars =>
        [\A g \in ProcMons : \A p \in Pids :
            at[g] = None /\ at'[g] = p => <<p, listed[g][p].life>> \notin announced]_vars
  BY <1>1
<1>. QED
  BY <1>2, Invariance, PTL DEF Spec, AnnouncedOnce

(* Between two alerts about one connection a hit has left the window, for  *)
(* any window and threshold.                                               *)
THEOREM AlertsComeSpaced == Spec => AlertsAreSpaced
<1>1. ASSUME IInv, [Next]_vars, NEW n \in NetMons, NEW p \in Pids, at[n] = None, at'[n] = p,
             High("network_beaconing") \subseteq todo'[n]
      PROVE  p \notin alerted \/ Kept(p) # hits[p]
  <2>1. n \in Monitors /\ n \notin Watchers /\ n \notin MemMons /\ n \notin ProcMons
    BY Apart DEF Monitors
  <2>2. Connected(n)
    BY <1>1, <2>1, NoPidIsNone, EventIsOwn
  <2>3. PICK q \in work[n] :
            \/ Handle(n, q, Beacon(q) \cup Behavior("connect", Known(n, q)))
            \/ Handle(n, q, Behavior("connect", Known(n, q)))
    BY <2>2 DEF Connected
  <2>4. q = p
    BY <1>1, <2>1, <2>3, TypeParts DEF Handle, IInv, PassesOK
  <2>5. PICK vs \in SUBSET (Beacon(p) \cup Behavior("connect", Known(n, p))) :
            todo' = [todo EXCEPT ![n] = vs]
    BY <2>3, <2>4 DEF Handle, Enabled
  <2>6. Beacon(p) # {}
    <3>1. todo'[n] = vs
      BY <1>1, <2>1, <2>5, TypeParts DEF IInv, PassesOK
    <3>. QED
      BY <1>1, <2>5, <3>1, VerdictsOK DEF High
  <2>7. Len(Kept(p)) + 1 = Threshold
    BY <2>6 DEF Beacon
  <2>8. Len(Kept(p)) \in Nat
    BY <1>1, KeptOK
  <2>. QED
    BY <1>1, <2>7, <2>8, Numbers DEF IInv, AlertInv
<1>2. IInv /\ [Next]_vars =>
        [\A n \in NetMons, p \in Pids :
            at[n] = None /\ at'[n] = p /\ High("network_beaconing") \subseteq todo'[n]
                => p \notin alerted \/ Kept(p) # hits[p]]_vars
  BY <1>1
<1>. QED
  BY <1>2, Invariance, PTL DEF Spec, AlertsAreSpaced

=============================================================================

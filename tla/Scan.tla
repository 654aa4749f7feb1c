-------------------------------- MODULE Scan --------------------------------
(* On-demand scans (internal/detector/ondemand.go), as the service runs    *)
(* them (runScan, cancelScan) and the page asks for them.                  *)
(*                                                                         *)
(* A folder scan counts the files, walks the roots and scans each file as  *)
(* it comes; a smart scan collects the files first and scans the newest    *)
(* first until its time is over.  Every scan has a ticker that reports     *)
(* progress beside it, a context that a cancel or the time limit ends, and *)
(* an entry in program.scans under an id that the page learns from the     *)
(* progress reports alone.  What cannot be read on the way is left out in  *)
(* silence.  What is done with the files found is in module Engine, what a *)
(* file is matched with in module Signatures.                              *)
EXTENDS Naturals, FiniteSets, SequencesExt

CONSTANTS
    Scans,       \* goroutines of runScan
    Nodes,       \* files and directories
    Dirs,        \* the directories
    Parent,      \* the directory of a node, or None
    Above,       \* the nodes whose paths a node's path begins with, its own too
    Order,       \* the order in which filepath.WalkDir comes to the nodes
    Scannable,   \* files whose name and size scannableExt and the limits accept
    SkipNames,   \* directories that skipDir names
    Mod,         \* time of a file's last change
    Requests,    \* what a client may ask for: a kind of scan and its roots
    None,
    Volatile,    \* nodes that may be excluded, or come and go, during a scan
    MaxFiles,    \* smartFileLimit
    MaxChanges,  \* bound on the changes of files and exclusions, and on failed reads
    MaxInbox     \* messages the pipe holds

Kinds == {"folder", "smart"}
Files == Nodes \ Dirs

ASSUME ScanAssumption ==
    /\ Dirs \subseteq Nodes /\ Scannable \subseteq Files /\ SkipNames \subseteq Dirs
    /\ Volatile \subseteq Nodes
    /\ None \notin Nodes \cup Scans
    /\ Parent \in [Nodes -> Dirs \cup {None}]
    /\ Above \in [Nodes -> SUBSET Nodes] /\ Order \in [Nodes -> Nat]
    /\ Mod \in [Files -> Nat]
    /\ Requests \subseteq [kind : Kinds, roots : Seq(Nodes)]
    /\ MaxFiles \in Nat \ {0} /\ MaxChanges \in Nat /\ MaxInbox \in Nat \ {0}

(* The directories form a tree, and paths say where in it a node is. *)
ASSUME TreeAssumption ==
    \A n \in Nodes :
        /\ Above[n] = {n} \cup (IF Parent[n] = None THEN {} ELSE Above[Parent[n]])
        /\ \A x \in Above[n] : Above[x] \subseteq Above[n]
        /\ \A x \in Above[n] \ {n} : \E k \in Nodes : Parent[k] = x /\ k \in Above[n]

VARIABLES
    present,     \* the files and directories there are
    excl,        \* config.Exclusions
    phase,       \* where each scan is
    request,     \* what it was asked for
    skips,       \* its copy of the exclusions
    roots,       \* the roots it has still to walk
    todo,        \* nodes its walk of the present root has still to visit
    cands,       \* collectRecent: the files a smart scan has collected
    scanned,     \* files ScanFile was called for
    missed,      \* history: the nodes it could not read
    ctx,         \* its context
    canceled,    \* res.Canceled
    ticker,      \* its progress goroutine
    scans,       \* program.scans
    inbox,       \* what the pipe carries to the page
    lost,        \* scans whose client has gone: nothing they send arrives
    known,       \* scans whose id the page has been told
    changes,
    stable,      \* history: nodes that have been there since a scan was asked for
    barred,      \* history: the exclusions when it was asked for
    cut,         \* history: smart scans that stopped to collect, or to scan, early
    aimed,       \* history: scans the page has asked to cancel
    told         \* history: scans whose result the page has shown

disk    == <<present, excl, changes>>
walk    == <<roots, todo, cands, scanned, missed>>
progress == <<ticker, inbox, lost>>
gui     == <<known, aimed, told>>
asked   == <<request, barred>>
vars    == <<disk, phase, asked, skips, walk, ctx, canceled, scans, progress, gui,
             stable, cut>>

Message == [type : {"progress", "result"}, scan : Scans]

TypeOK ==
    /\ present \subseteq Nodes /\ excl \subseteq Nodes /\ changes \in 0..MaxChanges
    /\ phase \in [Scans -> {"new", "asked", "count", "collect", "walk", "newest", "close",
                            "report", "apply", "stuck", "send", "end", "done"}]
    /\ request \in [Scans -> Requests \cup {None}]
    /\ skips \in [Scans -> SUBSET Nodes] /\ barred \in [Scans -> SUBSET Nodes]
    /\ roots \in [Scans -> Seq(Nodes)]
    /\ todo \in [Scans -> SUBSET Nodes] /\ cands \in [Scans -> Seq(Files)]
    /\ scanned \in [Scans -> SUBSET Scannable] /\ missed \in [Scans -> SUBSET Nodes]
    /\ ctx \in [Scans -> {"live", "canceled", "expired"}]
    /\ canceled \in [Scans -> BOOLEAN]
    /\ ticker \in [Scans -> {"off", "wait", "send"}]
    /\ scans \subseteq Scans /\ lost \subseteq Scans
    /\ inbox \in Seq(Message) /\ Len(inbox) <= MaxInbox
    /\ known \subseteq Scans /\ aimed \subseteq Scans /\ told \subseteq Scans
    /\ stable \in [Scans -> SUBSET Nodes] /\ cut \subseteq Scans

(* A file that may come and go need not be there at first. *)
Init ==
    /\ present \in {Nodes} \cup {Nodes \ {n} : n \in Volatile \cap Files}
    /\ excl = {} /\ changes = 0
    /\ phase = [s \in Scans |-> "new"] /\ request = [s \in Scans |-> None]
    /\ skips = [s \in Scans |-> {}] /\ barred = skips /\ stable = skips
    /\ roots = [s \in Scans |-> <<>>] /\ todo = skips /\ cands = roots /\ scanned = skips
    /\ missed = skips
    /\ ctx = [s \in Scans |-> "live"] /\ canceled = [s \in Scans |-> FALSE]
    /\ ticker = [s \in Scans |-> "off"]
    /\ scans = {} /\ lost = {} /\ inbox = <<>>
    /\ known = {} /\ cut = {} /\ aimed = {} /\ told = {}

Goto(s, step) == phase' = [phase EXCEPT ![s] = step]
Done(s) == ctx[s] # "live"

-----------------------------------------------------------------------------
(* The page *)

(* startScan; the service starts a goroutine. *)
Ask(s) ==
    /\ phase[s] = "new"
    /\ \E r \in Requests : request' = [request EXCEPT ![s] = r]
    /\ Goto(s, "asked")
    /\ barred' = [barred EXCEPT ![s] = excl]
    /\ stable' = [stable EXCEPT ![s] = present]
    /\ UNCHANGED <<disk, skips, walk, ctx, canceled, scans, progress, gui, cut>>

(* handleEvent: the first report tells the page the id of a scan. *)
Receive ==
    /\ inbox # <<>>
    /\ inbox' = Tail(inbox)
    /\ LET m == Head(inbox)
       IN  \/ m.type = "progress" /\ known' = known \cup {m.scan} /\ UNCHANGED told
           \/ m.type = "result" /\ told' = told \cup {m.scan} /\ UNCHANGED known
    /\ UNCHANGED <<disk, phase, asked, skips, walk, ctx, canceled, scans, ticker, lost,
                   aimed, stable, cut>>

(* The button, and cancelScan: an id whose scan has ended is not found.    *)
(* Which of the ids it knows the page sends is left open.                  *)
Cancel(s) ==
    /\ s \in known \ aimed
    /\ aimed' = aimed \cup {s}
    /\ ctx' = [ctx EXCEPT ![s] = IF s \in scans /\ @ = "live" THEN "canceled" ELSE @]
    /\ UNCHANGED <<disk, phase, asked, skips, walk, canceled, scans, progress, known, told,
                   stable, cut>>

-----------------------------------------------------------------------------
(* runScan *)

(* The id is entered and the exclusions are copied. *)
Begin(s) ==
    /\ phase[s] = "asked"
    /\ scans' = scans \cup {s}
    /\ skips' = [skips EXCEPT ![s] = excl]
    /\ roots' = [roots EXCEPT ![s] = request[s].roots]
    /\ Goto(s, IF request[s].kind = "smart" THEN "collect" ELSE "count")
    /\ UNCHANGED <<disk, asked, todo, cands, scanned, missed, ctx, canceled, progress, gui,
                   stable, cut>>

(* Half an hour has passed. *)
Expire(s) ==
    /\ s \in scans /\ ctx[s] = "live"
    /\ ctx' = [ctx EXCEPT ![s] = "expired"]
    /\ UNCHANGED <<disk, phase, asked, skips, walk, canceled, scans, progress, gui, stable,
                   cut>>

Within(n, x) == x \in Above[n]

(* Mutant of Excluded: an entry covers the node of its name only. *)
ExcludedExactly(s, n) == n \in skips[s]

(* excludedPath *)
Excluded(s, n) == \E x \in skips[s] : Within(n, x)

(* The node the walk comes to next. *)
First(s, n) == n \in todo[s] /\ \A k \in todo[s] : Order[n] <= Order[k]

Entries(n) == {k \in present : Parent[k] = n}

(* What a visit may fail to read: the node itself, whose listing or Info,  *)
(* or Lstat when it is a root, fails, or entries of a listing that breaks  *)
(* off.  The error is dropped and the walk goes on.                        *)
Misses(n) ==
    {{}} \cup (IF changes < MaxChanges THEN {{n}} \cup SUBSET Entries(n) ELSE {})

(* Mutant of Rest: an excluded file ends the visit of its directory, which *)
(* is what filepath.SkipDir means when a file's visit returns it.          *)
RestSkipDir(s, n, miss) ==
    (IF n \in Files /\ Excluded(s, n) THEN {k \in todo[s] : Parent[k] # Parent[n]}
     ELSE todo[s] \ {n})
        \cup (IF n \in (Dirs \cap present) \ miss /\ ~Excluded(s, n) /\ n \notin SkipNames
              THEN Entries(n) \ miss ELSE {})

(* filepath.WalkDir after the visit of a node: the entries of a directory  *)
(* are read when it is entered.                                            *)
Rest(s, n, miss) ==
    (todo[s] \ {n})
        \cup (IF n \in (Dirs \cap present) \ miss /\ ~Excluded(s, n) /\ n \notin SkipNames
              THEN Entries(n) \ miss ELSE {})

(* The visit of a file gives it to the function walkCandidates was given. *)
Candidate(s, n, miss) == n \in (Scannable \cap present) \ miss /\ ~Excluded(s, n)

Miss(s, miss) ==
    /\ missed' = [missed EXCEPT ![s] = @ \cup miss]
    /\ changes' = IF miss = {} THEN changes ELSE changes + 1

(* countCandidates; the number is for the display alone.  The ticker is    *)
(* started afterwards.                                                     *)
Count(s) ==
    /\ phase[s] = "count"
    /\ Goto(s, "walk")
    /\ ticker' = [ticker EXCEPT ![s] = "wait"]
    /\ UNCHANGED <<disk, asked, skips, walk, ctx, canceled, scans, inbox, lost, gui, stable,
                   cut>>

(* The next root; collectRecent stops at its limit. *)
NextRoot(s) ==
    /\ \/ phase[s] = "walk"
       \/ phase[s] = "collect" /\ Len(cands[s]) < MaxFiles
    /\ ~Done(s) /\ todo[s] = {} /\ roots[s] # <<>>
    /\ todo' = [todo EXCEPT ![s] = {Head(roots[s])}]
    /\ roots' = [roots EXCEPT ![s] = Tail(@)]
    /\ UNCHANGED <<disk, phase, asked, skips, cands, scanned, missed, ctx, canceled, scans,
                   progress, gui, stable, cut>>

(* Scan: a file is scanned as the walk comes to it. *)
Walk(s) ==
    /\ phase[s] = "walk" /\ ~Done(s)
    /\ \E n \in todo[s] : \E miss \in Misses(n) :
          /\ First(s, n)
          /\ todo' = [todo EXCEPT ![s] = Rest(s, n, miss)]
          /\ scanned' = [scanned EXCEPT ![s] = @ \cup {k \in {n} : Candidate(s, k, miss)}]
          /\ Miss(s, miss)
    /\ UNCHANGED <<present, excl, phase, asked, skips, roots, cands, ctx, canceled, scans,
                   progress, gui, stable, cut>>

Walked(s) == todo[s] = {} /\ roots[s] = <<>>

WalkEnds(s) ==
    /\ phase[s] = "walk" /\ (Done(s) \/ Walked(s))
    /\ Goto(s, "close")
    /\ UNCHANGED <<disk, asked, skips, walk, ctx, canceled, scans, progress, gui, stable,
                   cut>>

(* collectRecent: at the limit the rest of the directory is left out, and  *)
(* the walk goes on beside it.                                             *)
Collect(s) ==
    /\ phase[s] = "collect" /\ ~Done(s)
    /\ \E n \in todo[s] : \E miss \in Misses(n) :
          LET taken == Candidate(s, n, miss)
              full  == taken /\ Len(cands[s]) + 1 >= MaxFiles
              rest  == {k \in Rest(s, n, miss) : full => Parent[k] # Parent[n]}
          IN  /\ First(s, n)
              /\ cands' = IF taken THEN [cands EXCEPT ![s] = Append(@, n)] ELSE cands
              /\ todo' = [todo EXCEPT ![s] = rest]
              /\ cut' = IF rest # Rest(s, n, miss) THEN cut \cup {s} ELSE cut
              /\ Miss(s, miss)
    /\ UNCHANGED <<present, excl, phase, asked, skips, roots, scanned, ctx, canceled, scans,
                   progress, gui, stable>>

(* The walk is over, or ended by the context, the limit or countBudget. *)
CollectEnds(s) ==
    /\ phase[s] = "collect"
    /\ cut' = IF Walked(s) THEN cut ELSE cut \cup {s}
    /\ Goto(s, "newest")
    /\ ticker' = [ticker EXCEPT ![s] = "wait"]
    /\ UNCHANGED <<disk, asked, skips, walk, ctx, canceled, scans, inbox, lost, gui, stable>>

(* Mutant of Newer: the oldest first. *)
NewerOldest(m, n) == Mod[m] < Mod[n]

(* The order of the sort. *)
Newer(m, n) == Mod[m] > Mod[n]

(* ScanSmart: the newest candidate that is left.  A file that has gone is  *)
(* counted, and nothing is found in it.                                    *)
Newest(s) ==
    /\ phase[s] = "newest" /\ ~Done(s)
    /\ \E i \in 1..Len(cands[s]) :
          /\ \A j \in 1..Len(cands[s]) : ~Newer(cands[s][j], cands[s][i])
          /\ scanned' = [scanned EXCEPT ![s] = @ \cup {cands[s][i]}]
          /\ cands' = [cands EXCEPT ![s] = RemoveAt(@, i)]
    /\ UNCHANGED <<disk, phase, asked, skips, roots, todo, missed, ctx, canceled, scans,
                   progress, gui, stable, cut>>

(* Nothing is left, the context has ended, or the 90 seconds are over. *)
NewestEnds(s) ==
    /\ phase[s] = "newest"
    /\ Goto(s, "close")
    /\ UNCHANGED <<disk, asked, skips, walk, ctx, canceled, scans, progress, gui, stable,
                   cut>>

(* tickDone is closed, which does not wait for the ticker. *)
Close(s) ==
    /\ phase[s] = "close"
    /\ canceled' = [canceled EXCEPT ![s] = Done(s)]
    /\ Goto(s, "report")
    /\ UNCHANGED <<disk, asked, skips, walk, ctx, scans, progress, gui, stable, cut>>

(* Server.Send: the message is lost when the client has gone. *)
Send(s, type) ==
    /\ s \in lost \/ Len(inbox) < MaxInbox
    /\ inbox' = IF s \in lost THEN inbox ELSE Append(inbox, [type |-> type, scan |-> s])

(* The last report of the scan itself. *)
Report(s) ==
    /\ phase[s] = "report"
    /\ Send(s, "progress")
    /\ Goto(s, "apply")
    /\ UNCHANGED <<disk, asked, skips, walk, ctx, canceled, scans, ticker, lost, gui, stable,
                   cut>>

(* ApplyScanResult, for a cancelled scan too.  It calls Store.Add for what *)
(* was found, which never returns when a file changes while it is captured *)
(* (module Quarantine), and neither does a call that waits for that one.   *)
Apply(s) ==
    /\ phase[s] = "apply"
    /\ \/ Goto(s, "send")
       \/ scanned[s] # {} /\ Goto(s, "stuck")
    /\ UNCHANGED <<disk, asked, skips, walk, ctx, canceled, scans, progress, gui, stable,
                   cut>>

(* Mutant of SendResult: a cancelled scan sends nothing. *)
SendResultUnlessCanceled(s) ==
    /\ phase[s] = "send"
    /\ IF canceled[s] THEN UNCHANGED inbox ELSE Send(s, "result")
    /\ Goto(s, "end")
    /\ UNCHANGED <<disk, asked, skips, walk, ctx, canceled, scans, ticker, lost, gui, stable,
                   cut>>

SendResult(s) ==
    /\ phase[s] = "send"
    /\ Send(s, "result")
    /\ Goto(s, "end")
    /\ UNCHANGED <<disk, asked, skips, walk, ctx, canceled, scans, ticker, lost, gui, stable,
                   cut>>

(* Mutant of End: the entry stays. *)
EndKeepsEntry(s) ==
    /\ phase[s] = "end"
    /\ Goto(s, "done")
    /\ UNCHANGED <<disk, asked, skips, walk, ctx, canceled, scans, progress, gui, stable,
                   cut>>

(* The deferred calls: the context ends and the entry is deleted. *)
End(s) ==
    /\ phase[s] = "end"
    /\ scans' = scans \ {s}
    /\ ctx' = [ctx EXCEPT ![s] = IF @ = "live" THEN "canceled" ELSE @]
    /\ Goto(s, "done")
    /\ UNCHANGED <<disk, asked, skips, walk, canceled, progress, gui, stable, cut>>

-----------------------------------------------------------------------------
(* The ticker *)

Closed(s) == Done(s) \/ phase[s] \in {"report", "apply", "stuck", "send", "end", "done"}

(* A tick and the end may both be there, and select takes either. *)
Tick(s) ==
    /\ ticker[s] = "wait"
    /\ ticker' = [ticker EXCEPT ![s] = "send"]
    /\ UNCHANGED <<disk, phase, asked, skips, walk, ctx, canceled, scans, inbox, lost, gui,
                   stable, cut>>

TickEnds(s) ==
    /\ ticker[s] = "wait" /\ Closed(s)
    /\ ticker' = [ticker EXCEPT ![s] = "off"]
    /\ UNCHANGED <<disk, phase, asked, skips, walk, ctx, canceled, scans, inbox, lost, gui,
                   stable, cut>>

TickSend(s) ==
    /\ ticker[s] = "send"
    /\ Send(s, "progress")
    /\ ticker' = [ticker EXCEPT ![s] = "wait"]
    /\ UNCHANGED <<disk, phase, asked, skips, walk, ctx, canceled, scans, lost, gui, stable,
                   cut>>

-----------------------------------------------------------------------------
(* Around the scans *)

(* The client goes, or a write to it reaches its deadline. *)
Disconnect ==
    /\ \E s \in Scans : phase[s] \notin {"new", "done"} /\ s \notin lost
    /\ lost' = {s \in Scans : phase[s] # "new"}
    /\ inbox' = <<>>
    /\ UNCHANGED <<disk, phase, asked, skips, walk, ctx, canceled, scans, ticker, gui,
                   stable, cut>>

Change == changes < MaxChanges /\ changes' = changes + 1

Exclude(n) ==
    /\ Change
    /\ excl' = excl \cup {n}
    /\ UNCHANGED <<present, phase, asked, skips, walk, ctx, canceled, scans, progress, gui,
                   stable, cut>>

FileGoes(n) ==
    /\ Change
    /\ n \in present
    /\ present' = {k \in present : ~Within(k, n)}
    /\ stable' = [s \in Scans |-> stable[s] \cap present']
    /\ UNCHANGED <<excl, phase, asked, skips, walk, ctx, canceled, scans, progress, gui, cut>>

FileAppears(n) ==
    /\ Change
    /\ n \notin present /\ (Parent[n] = None \/ Parent[n] \in present)
    /\ present' = present \cup {n}
    /\ UNCHANGED <<excl, phase, asked, skips, walk, ctx, canceled, scans, progress, gui,
                   stable, cut>>

-----------------------------------------------------------------------------
Running(s) ==
    \/ Begin(s) \/ Count(s) \/ NextRoot(s) \/ Walk(s) \/ WalkEnds(s) \/ Collect(s)
    \/ CollectEnds(s) \/ Newest(s) \/ NewestEnds(s) \/ Close(s) \/ Report(s) \/ Apply(s)
    \/ SendResult(s) \/ End(s)

Ticking(s) == TickEnds(s) \/ TickSend(s)

Next ==
    \/ \E s \in Scans : Ask(s) \/ Cancel(s) \/ Expire(s)
    \/ \E s \in Scans : Running(s) \/ Tick(s) \/ Ticking(s)
    \/ Receive \/ Disconnect
    \/ \E n \in Volatile : Exclude(n) \/ FileGoes(n) \/ FileAppears(n)

(* Goroutines that can run do run, those that wait for room in the pipe    *)
(* get it in turn, and the page handles what arrives.                      *)
Fairness ==
    /\ \A s \in Scans : SF_vars(Running(s))
    /\ WF_vars(Receive)

Spec == Init /\ [][Next]_vars

FairSpec == Spec /\ Fairness

-----------------------------------------------------------------------------
(* Properties. *)

(* A file a walk from one of the scan's roots comes to, however the        *)
(* directories were read: every directory down to it is entered.           *)
Reached(s, n) ==
    \E i \in 1..Len(request[s].roots) :
        LET r == request[s].roots[i]
        IN  /\ Within(n, r)
            /\ \A d \in Dirs : Within(n, d) /\ Within(d, r) => d \notin SkipNames

(* What a scan owes its user: the files of its request that were there all *)
(* the time, that no exclusion it knows of covers, and that it could read  *)
(* down to.                                                                *)
Owed(s) ==
    {n \in stable[s] \cap Scannable :
        Reached(s, n) /\ ~ \E x \in skips[s] \cup missed[s] : Within(n, x)}

Over == {"report", "apply", "stuck", "send", "end", "done"}

(* A result that does not say "canceled" has scanned every file it owes,   *)
(* whatever else came and went meanwhile and however its roots overlap: an *)
(* entry that cannot be read takes nothing with it but what is below it    *)
(* (Scan, walkCandidates).                                                 *)
CompleteIsWhole ==
    \A s \in Scans :
        phase[s] \in Over /\ ~canceled[s] /\ request[s].kind = "folder" =>
            Owed(s) \subseteq scanned[s]

(* A smart scan that had the time to collect leaves out only files that    *)
(* are no newer than all it has scanned, or that it could not read down to *)
(* (ScanSmart: newest first, 90 seconds).                                  *)
SmartTakesNewest ==
    \A s \in Scans :
        phase[s] \in {"close"} \cup Over /\ s \notin cut
            /\ request[s].kind = "smart" /\ ~Done(s) =>
                \A m \in Owed(s) \ scanned[s], n \in scanned[s] : Mod[m] <= Mod[n]

(* What the user had excluded when he asked for the scan is not scanned,   *)
(* even when the scan starts below the excluded directory (excludedPath,   *)
(* runScan).                                                               *)
ExcludedIsLeft ==
    \A s \in Scans, x \in Nodes :
        x \in barred[s] => \A n \in scanned[s] : ~Within(n, x)

(* A scan is cut short only because its time was over or the page asked to *)
(* cancel that scan, whatever other scans are at work (cancelScan).        *)
CancelHitsItsOwn ==
    \A s \in Scans : canceled[s] => ctx[s] = "expired" \/ s \in aimed

(* Every scan ends and its entry is deleted, whether or not its client is  *)
(* still there and reads, unless the store never returns from a call for   *)
(* what it has found (runScan, Send, ApplyScanResult).                     *)
ScansEnd == \A s \in Scans : s \in scans ~> s \notin scans \/ phase[s] = "stuck"

(* Every scan that is asked for, cancelled or not, has its result shown,   *)
(* unless the connection ended or the store did not return (runScan).      *)
ResultsArrive ==
    \A s \in Scans : phase[s] = "asked" ~> s \in told \cup lost \/ phase[s] = "stuck"
=============================================================================

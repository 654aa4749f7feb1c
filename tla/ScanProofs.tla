----------------------------- MODULE ScanProofs -----------------------------
(* Theorems about scans, for any number of them, any tree of files, any    *)
(* number of changes and any length of the pipe.                           *)
EXTENDS Scan, SequenceTheorems, TLAPS

(* A file and a directory it is in, or itself, with nothing between them   *)
(* that is skipped.                                                        *)
Open(n, k) ==
    /\ Within(n, k)
    /\ \A d \in Dirs : Within(n, d) /\ Within(d, k) => d \notin SkipNames

(* A file the walk of a scan has still to come to. *)
Pending(s, n) == \E k \in todo[s] \cup Range(roots[s]) : Open(n, k)

(* What is there is there with its directories. *)
PresentInv ==
    /\ \A n \in present : Above[n] \subseteq present
    /\ \A s \in Scans : stable[s] \subseteq present
    /\ \A s \in Scans : \A n \in stable[s] : Above[n] \subseteq stable[s]

(* A scan that has not begun has done nothing. *)
Early(s) ==
    /\ phase[s] \in {"new", "asked"} =>
          /\ skips[s] = {} /\ todo[s] = {} /\ scanned[s] = {}
          /\ roots[s] = <<>> /\ cands[s] = <<>>
          /\ ~canceled[s] /\ s \notin cut
    /\ phase[s] = "new" => request[s] = None
    /\ phase[s] # "new" => request[s] \in Requests
    /\ phase[s] \in {"count", "walk"} => request[s].kind = "folder"
    /\ phase[s] \in {"collect", "newest"} => request[s].kind = "smart"

(* The exclusions of a scan are those of its request at least, and it      *)
(* neither scans nor collects what they cover.                             *)
Left(s) ==
    /\ phase[s] = "new" => barred[s] = {}
    /\ phase[s] = "asked" => barred[s] \subseteq excl
    /\ phase[s] \notin {"new", "asked"} => barred[s] \subseteq skips[s]
    /\ \A n \in scanned[s] \cup Range(cands[s]) : n \in Scannable /\ ~Excluded(s, n)

(* Only a cancel, the time limit and the end of a scan end its context. *)
Ended(s) ==
    /\ ctx[s] = "canceled" /\ phase[s] # "done" => s \in aimed
    /\ canceled[s] => ctx[s] = "expired" \/ s \in aimed

(* What a folder scan owes is scanned or still to come. *)
Folder(s) ==
    phase[s] # "new" /\ request[s].kind = "folder" =>
        /\ phase[s] \in {"count", "walk"} =>
              \A n \in Owed(s) : n \in scanned[s] \/ Pending(s, n)
        /\ phase[s] = "close" => Done(s) \/ Owed(s) \subseteq scanned[s]
        /\ phase[s] \in Over =>
              canceled[s] \/ Owed(s) \subseteq scanned[s]

(* What a smart scan owes is collected, or still to come, and then scanned *)
(* from the newest on.                                                     *)
Smart(s) ==
    phase[s] # "new" /\ request[s].kind = "smart" /\ s \notin cut =>
        /\ phase[s] = "collect" =>
              /\ scanned[s] = {}
              /\ \A n \in Owed(s) : n \in Range(cands[s]) \/ Pending(s, n)
        /\ phase[s] = "newest" =>
              /\ Owed(s) \subseteq scanned[s] \cup Range(cands[s])
              /\ \A m \in Range(cands[s]), n \in scanned[s] : Mod[m] <= Mod[n]
        /\ phase[s] \in {"close"} \cup Over =>
              \A m \in Owed(s) \ scanned[s], n \in scanned[s] : Mod[m] <= Mod[n]

ScanInv(s) == Early(s) /\ Left(s) /\ Ended(s) /\ Folder(s) /\ Smart(s)

IInv == TypeOK /\ PresentInv /\ \A s \in Scans : ScanInv(s)

-----------------------------------------------------------------------------
(* Lemmas about trees and sequences. *)

(* Paths order the nodes as the tree does. *)
LEMMA Tree ==
    /\ \A n \in Nodes : Within(n, n)
    /\ \A n, k, x \in Nodes : Within(n, k) /\ Within(k, x) => Within(n, x)
    /\ \A n, k \in Nodes : Parent[n] = k => Within(n, k)
    /\ \A n, k \in Nodes :
          Within(n, k) /\ n # k =>
              k \in Dirs /\ \E c \in Nodes : Parent[c] = k /\ Within(n, c)
<1>1. \A n \in Nodes : n \in Above[n]
  BY ScanAssumption, TreeAssumption
<1>2. \A n, k, x \in Nodes : k \in Above[n] /\ x \in Above[k] => x \in Above[n]
  BY ScanAssumption, TreeAssumption
<1>3. \A n, k \in Nodes : Parent[n] = k => k \in Above[n]
  BY <1>1, ScanAssumption, TreeAssumption
<1>4. \A n, k \in Nodes :
          k \in Above[n] /\ n # k => \E c \in Nodes : Parent[c] = k /\ c \in Above[n]
  BY ScanAssumption, TreeAssumption
<1>. QED
  BY <1>1, <1>2, <1>3, <1>4, ScanAssumption DEF Within

(* What removing an element leaves in a sequence. *)
LEMMA RemoveAtRange ==
    ASSUME NEW S, NEW q \in Seq(S), NEW i \in 1..Len(q)
    PROVE  /\ RemoveAt(q, i) \in Seq(S)
           /\ Range(RemoveAt(q, i)) \subseteq Range(q)
           /\ Range(q) \subseteq Range(RemoveAt(q, i)) \cup {q[i]}
<1>. DEFINE a == SubSeq(q, 1, i - 1)
            b == SubSeq(q, i + 1, Len(q))
            r == a \o b
<1>1. a \in Seq(S) /\ Len(a) = i - 1 /\ \A j \in 1..(i - 1) : a[j] = q[j]
  BY SubSeqProperties, ElementOfSeq, LenProperties
<1>2. b \in Seq(S) /\ Len(b) = Len(q) - i /\ \A j \in 1..(Len(q) - i) : b[j] = q[i + j]
  BY SubSeqProperties, ElementOfSeq, LenProperties
<1>. HIDE DEF a, b
<1>3. /\ r \in Seq(S) /\ Len(r) = Len(a) + Len(b)
      /\ \A j \in 1..(Len(a) + Len(b)) : r[j] = IF j <= Len(a) THEN a[j] ELSE b[j - Len(a)]
  BY <1>1, <1>2, ConcatProperties
<1>0. Len(q) \in Nat
  OBVIOUS
<1>. HIDE DEF r
<1>4. Len(r) = Len(q) - 1 /\ \A j \in 1..Len(r) : r[j] = IF j < i THEN q[j] ELSE q[j + 1]
  <2>1. Len(r) = Len(q) - 1 /\ i \in Nat
    BY <1>0, <1>1, <1>2, <1>3
  <2>2. ASSUME NEW j \in 1..Len(r), j < i PROVE r[j] = q[j]
    BY <1>0, <1>1, <1>3, <2>1, <2>2
  <2>3. ASSUME NEW j \in 1..Len(r), ~(j < i) PROVE r[j] = q[j + 1]
    <3>1. j - (i - 1) \in 1..(Len(q) - i) /\ i + (j - (i - 1)) = j + 1
      BY <1>0, <2>1, <2>3
    <3>2. r[j] = b[j - (i - 1)]
      BY <1>0, <1>1, <1>2, <1>3, <2>1, <2>3
    <3>. QED
      BY <1>2, <3>1, <3>2
  <2>. QED
    BY <2>1, <2>2, <2>3
<1>5. /\ Range(r) = {r[j] : j \in 1..Len(r)}
      /\ Range(q) = {q[j] : j \in 1..Len(q)}
  BY <1>3, RangeEquality
<1>6. Range(r) \subseteq Range(q)
  BY <1>3, <1>4, <1>5
<1>7. ASSUME NEW j \in 1..Len(q), q[j] # q[i] PROVE q[j] \in Range(r)
  <2>1. CASE j < i
    BY <1>3, <1>4, <1>5, <2>1
  <2>2. CASE j > i
    <3>1. j - 1 \in 1..Len(r) /\ r[j - 1] = q[j]
      <4>1. j - 1 \in 1..Len(r) /\ ~(j - 1 < i) /\ (j - 1) + 1 = j
        BY <1>0, <1>4, <2>2
      <4>. QED
        BY <1>4, <4>1
    <3>. QED
      BY <1>5, <3>1
  <2>. QED
    BY <1>7, <2>1, <2>2
<1>8. r = RemoveAt(q, i)
  BY DEF a, b, r, RemoveAt
<1>. QED
  BY <1>3, <1>5, <1>6, <1>7, <1>8

(* What appending an element adds to it. *)
LEMMA AppendRange ==
    ASSUME NEW S, NEW q \in Seq(S), NEW e \in S
    PROVE  Append(q, e) \in Seq(S) /\ Range(Append(q, e)) = Range(q) \cup {e}
<1>. DEFINE r == Append(q, e)
<1>1. /\ r \in Seq(S) /\ Len(r) = Len(q) + 1
      /\ \A j \in 1..Len(q) : r[j] = q[j]
      /\ r[Len(q) + 1] = e
  OBVIOUS
<1>. HIDE DEF r
<1>2. /\ Range(r) = {r[j] : j \in 1..Len(r)}
      /\ Range(q) = {q[j] : j \in 1..Len(q)}
  BY <1>1, RangeEquality
<1>. QED
  BY <1>1, <1>2 DEF r

(* What the first element and the rest make. *)
LEMMA TailRange ==
    ASSUME NEW S, NEW q \in Seq(S), q # <<>>
    PROVE  /\ Head(q) \in S /\ Tail(q) \in Seq(S)
           /\ Range(q) = {Head(q)} \cup Range(Tail(q))
<1>. DEFINE r == Tail(q)
<1>1. /\ r \in Seq(S) /\ Len(r) = Len(q) - 1 /\ Len(q) \in Nat \ {0}
      /\ \A j \in 1..Len(r) : r[j] = q[j + 1]
      /\ Head(q) = q[1] /\ Head(q) \in S
  OBVIOUS
<1>. HIDE DEF r
<1>2. /\ Range(r) = {r[j] : j \in 1..Len(r)}
      /\ Range(q) = {q[j] : j \in 1..Len(q)}
  BY <1>1, RangeEquality
<1>3. ASSUME NEW j \in 1..Len(q), j # 1 PROVE q[j] \in Range(r)
  <2>1. j - 1 \in 1..Len(r) /\ r[j - 1] = q[j]
    BY <1>1, <1>3
  <2>. QED
    BY <1>2, <2>1
<1>4. {q[1]} \cup Range(r) \subseteq Range(q)
  BY <1>1, <1>2
<1>. QED
  BY <1>1, <1>2, <1>3, <1>4 DEF r

LEMMA EmptyRange == Range(<<>>) = {}
  BY DEF Range

(* The elements of a sequence. *)
LEMMA RangeIn ==
    ASSUME NEW S, NEW q \in Seq(S)
    PROVE  /\ Range(q) = {q[j] : j \in 1..Len(q)}
           /\ Range(q) \subseteq S
           /\ \A i \in 1..Len(q) : q[i] \in Range(q)
<1>1. Range(q) = {q[j] : j \in 1..Len(q)}
  BY RangeEquality
<1>. QED
  BY <1>1

-----------------------------------------------------------------------------
(* Lemmas about the walk. *)

USE ScanAssumption
    DEF disk, walk, progress, gui, asked, vars, Goto, Files, Kinds, Done, Over

(* A scan never owes more than before, once it has begun. *)
LEMMA OwedShrinks ==
    ASSUME NEW s \in Scans, stable'[s] \subseteq stable[s],
           request'[s] = request[s], skips'[s] = skips[s], missed[s] \subseteq missed'[s]
    PROVE  Owed(s)' \subseteq Owed(s)
  BY DEF Owed, Reached

(* The visit of a directory puts its way to an owed file among the nodes   *)
(* to come, unless it could not read on the way, and the visit of the file *)
(* itself takes it.                                                        *)
LEMMA Descend ==
    ASSUME TypeOK, PresentInv, NEW s \in Scans, NEW k \in todo[s], NEW miss,
           NEW n \in Owed(s), Open(n, k), \A x \in miss : ~Within(n, x)
    PROVE  (n = k /\ Candidate(s, k, miss)) \/ \E c \in Rest(s, k, miss) : Open(n, c)
<1>1. /\ n \in stable[s] /\ n \in Scannable /\ ~Excluded(s, n)
      /\ n \in Nodes /\ k \in Nodes /\ n \notin Dirs /\ skips[s] \subseteq Nodes
  BY DEF Owed, Excluded, TypeOK
<1>0. k \notin miss /\ Within(n, n)
  BY <1>1, Tree DEF Open
<1>2. Above[n] \subseteq stable[s] /\ stable[s] \subseteq present
  BY <1>1 DEF PresentInv
<1>3. CASE n = k
  BY <1>0, <1>1, <1>2, <1>3 DEF Candidate
<1>4. CASE n # k
  <2>1. k \in Dirs /\ \E c \in Nodes : Parent[c] = k /\ Within(n, c)
    BY <1>1, <1>4, Tree DEF Open
  <2>2. PICK c \in Nodes : Parent[c] = k /\ Within(n, c)
    BY <2>1
  <2>3. k \in present /\ c \in present \ miss
    BY <1>2, <2>2 DEF Open, Within
  <2>4. ~Excluded(s, k)
    BY <1>1, Tree DEF Open, Excluded
  <2>5. k \notin SkipNames
    BY <1>1, <2>1, Tree DEF Open
  <2>6. c \in Rest(s, k, miss)
    BY <1>0, <2>1, <2>2, <2>3, <2>4, <2>5 DEF Rest, Entries
  <2>7. Within(c, k)
    BY <1>1, <2>2, Tree
  <2>8. ASSUME NEW d \in Dirs, Within(n, d), Within(d, c) PROVE d \notin SkipNames
    BY <1>1, <2>2, <2>7, <2>8, Tree DEF Open
  <2>. QED
    BY <2>2, <2>6, <2>8 DEF Open
<1>. QED
  BY <1>3, <1>4

-----------------------------------------------------------------------------
(* A step of one scan leaves the others as they are. *)

Others(s) ==
    /\ UNCHANGED <<present, excl, stable, barred, request>> /\ aimed \subseteq aimed'
    /\ \A t \in Scans \ {s} :
          /\ phase'[t] = phase[t] /\ skips'[t] = skips[t] /\ roots'[t] = roots[t]
          /\ todo'[t] = todo[t] /\ cands'[t] = cands[t] /\ scanned'[t] = scanned[t]
          /\ missed'[t] = missed[t]
          /\ ctx'[t] = ctx[t] /\ canceled'[t] = canceled[t]
          /\ t \in cut' <=> t \in cut

LEMMA OthersKeep ==
    ASSUME IInv, NEW s \in Scans, Others(s), TypeOK', ScanInv(s)'
    PROVE  IInv'
<1>1. PresentInv'
  BY DEF IInv, PresentInv, Others
<1>2. ASSUME NEW t \in Scans, t # s PROVE ScanInv(t)'
  <2>1. ScanInv(t)
    BY DEF IInv
  <2>2. Owed(t)' = Owed(t)
    BY <1>2 DEF Others, Owed, Reached
  <2>3. \A n : Pending(t, n)' <=> Pending(t, n)
    BY <1>2 DEF Others, Pending, Open
  <2>4. Early(t)' /\ Ended(t)'
    BY <1>2, <2>1 DEF ScanInv, Early, Ended, Others
  <2>5. Left(t)'
    BY <1>2, <2>1 DEF ScanInv, Left, Excluded, Others
  <2>6. Folder(t)'
    BY <1>2, <2>1, <2>2, <2>3 DEF ScanInv, Folder, Others
  <2>7. Smart(t)'
    BY <1>2, <2>1, <2>2, <2>3 DEF ScanInv, Smart, Others
  <2>. QED
    BY <2>4, <2>5, <2>6, <2>7 DEF ScanInv
<1>. QED
  BY <1>1, <1>2 DEF IInv

(* Steps that change nothing a scan decides by. *)
LEMMA AsideKeeps ==
    ASSUME IInv, TypeOK',
           UNCHANGED <<present, excl, phase, asked, skips, walk, ctx, canceled, stable,
                       cut, aimed>>
    PROVE  IInv'
<1>1. PresentInv'
  BY DEF IInv, PresentInv
<1>2. ASSUME NEW s \in Scans PROVE ScanInv(s)'
  <2>1. ScanInv(s)
    BY DEF IInv
  <2>2. Owed(s)' = Owed(s) /\ \A n : Pending(s, n)' <=> Pending(s, n)
    BY DEF Owed, Reached, Pending, Open
  <2>. QED
    BY <2>1, <2>2 DEF ScanInv, Early, Left, Ended, Folder, Smart, Excluded
<1>. QED
  BY <1>1, <1>2 DEF IInv

-----------------------------------------------------------------------------
(* One lemma for each action. *)

(* The user asks for a scan. *)
LEMMA AskKeeps == ASSUME IInv, NEW s \in Scans, Ask(s) PROVE IInv'
<1>1. PICK r \in Requests : request' = [request EXCEPT ![s] = r]
  BY DEF Ask
<1>2. /\ phase[s] = "new" /\ phase' = [phase EXCEPT ![s] = "asked"]
      /\ barred' = [barred EXCEPT ![s] = excl] /\ stable' = [stable EXCEPT ![s] = present]
      /\ UNCHANGED <<disk, skips, walk, ctx, canceled, scans, progress, gui, cut>>
  BY DEF Ask
<1>3. TypeOK'
  BY <1>1, <1>2 DEF IInv, TypeOK
<1>4. PresentInv'
  BY <1>2 DEF IInv, TypeOK, PresentInv
<1>5. ScanInv(s)'
  <2>1. ScanInv(s)
    BY DEF IInv
  <2>2. Early(s)' /\ Ended(s)'
    BY <1>1, <1>2, <2>1 DEF IInv, TypeOK, ScanInv, Early, Ended
  <2>3. Left(s)'
    BY <1>1, <1>2, <2>1 DEF IInv, TypeOK, ScanInv, Left, Excluded
  <2>4. Folder(s)' /\ Smart(s)'
    BY <1>2 DEF IInv, TypeOK, Folder, Smart
  <2>. QED
    BY <2>2, <2>3, <2>4 DEF ScanInv
<1>6. ASSUME NEW t \in Scans, t # s PROVE ScanInv(t)'
  <2>1. ScanInv(t)
    BY DEF IInv
  <2>2. /\ phase'[t] = phase[t] /\ request'[t] = request[t]
        /\ barred'[t] = barred[t] /\ stable'[t] = stable[t]
    BY <1>1, <1>2, <1>6 DEF IInv, TypeOK
  <2>3. Owed(t)' = Owed(t)
    BY <1>2, <2>2 DEF Owed, Reached
  <2>4. \A n : Pending(t, n)' <=> Pending(t, n)
    BY <1>2 DEF Pending, Open
  <2>. QED
    BY <1>2, <2>1, <2>2, <2>3, <2>4 DEF ScanInv, Early, Left, Ended, Folder, Smart, Excluded
<1>. QED
  BY <1>3, <1>4, <1>5, <1>6 DEF IInv

(* The page shows what has arrived. *)
LEMMA ReceiveKeeps == ASSUME IInv, Receive PROVE IInv'
<1>1. /\ inbox # <<>> /\ inbox' = Tail(inbox)
      /\ known' \subseteq known \cup {Head(inbox).scan}
      /\ told' \subseteq told \cup {Head(inbox).scan}
      /\ UNCHANGED <<disk, phase, asked, skips, walk, ctx, canceled, scans, ticker, lost,
                     aimed, stable, cut>>
  BY DEF Receive
<1>2. inbox \in Seq(Message) /\ Len(inbox) <= MaxInbox
  BY DEF IInv, TypeOK
<1>3. Head(inbox) \in Message /\ Tail(inbox) \in Seq(Message) /\ Len(Tail(inbox)) <= MaxInbox
  BY <1>1, <1>2
<1>4. TypeOK'
  BY <1>1, <1>3 DEF IInv, TypeOK, Message
<1>. QED
  BY <1>1, <1>4, AsideKeeps

(* Only the scan that is cancelled loses its context. *)
LEMMA CancelKeeps == ASSUME IInv, NEW s \in Scans, Cancel(s) PROVE IInv'
<1>1. /\ aimed' = aimed \cup {s}
      /\ ctx' = [ctx EXCEPT ![s] = IF s \in scans /\ @ = "live" THEN "canceled" ELSE @]
      /\ UNCHANGED <<disk, phase, asked, skips, walk, canceled, scans, progress, known, told,
                     stable, cut>>
  BY DEF Cancel
<1>2. TypeOK'
  BY <1>1 DEF IInv, TypeOK
<1>3. Others(s)
  BY <1>1 DEF IInv, TypeOK, Others
<1>4. ScanInv(s)'
  <2>1. ScanInv(s)
    BY DEF IInv
  <2>2. Owed(s)' = Owed(s) /\ \A n : Pending(s, n)' <=> Pending(s, n)
    BY <1>1 DEF Owed, Reached, Pending, Open
  <2>3. ctx'[s] # ctx[s] => ctx[s] = "live"
    BY <1>1 DEF IInv, TypeOK
  <2>. QED
    BY <1>1, <2>1, <2>2, <2>3
       DEF IInv, TypeOK, ScanInv, Early, Left, Ended, Folder, Smart, Excluded
<1>. QED
  BY <1>2, <1>3, <1>4, OthersKeep

(* A scan begins with the exclusions of the moment and all its roots. *)
LEMMA BeginKeeps == ASSUME IInv, NEW s \in Scans, Begin(s) PROVE IInv'
<1>1. /\ phase[s] = "asked" /\ scans' = scans \cup {s}
      /\ skips' = [skips EXCEPT ![s] = excl]
      /\ roots' = [roots EXCEPT ![s] = request[s].roots]
      /\ phase' = [phase EXCEPT ![s] = IF request[s].kind = "smart" THEN "collect" ELSE "count"]
      /\ UNCHANGED <<disk, asked, todo, cands, scanned, missed, ctx, canceled, progress, gui,
                     stable, cut>>
  BY DEF Begin
<1>2. ScanInv(s)
  BY DEF IInv
<1>3. /\ request[s] \in Requests /\ request[s].roots \in Seq(Nodes) /\ request[s].kind \in Kinds
      /\ todo[s] = {} /\ scanned[s] = {} /\ cands[s] = <<>> /\ ~canceled[s] /\ s \notin cut
      /\ barred[s] \subseteq excl
  BY <1>1, <1>2 DEF ScanInv, Early, Left
<1>4. TypeOK'
  BY <1>1, <1>3 DEF IInv, TypeOK
<1>5. Others(s)
  BY <1>1 DEF IInv, TypeOK, Others
<1>6. /\ phase'[s] = IF request[s].kind = "smart" THEN "collect" ELSE "count"
      /\ skips'[s] = excl /\ roots'[s] = request[s].roots
  BY <1>1 DEF IInv, TypeOK
<1>7. Early(s)' /\ Left(s)' /\ Ended(s)'
  BY <1>1, <1>2, <1>3, <1>6, EmptyRange DEF ScanInv, Early, Left, Ended
<1>8. ASSUME NEW n \in Owed(s)' PROVE Pending(s, n)'
  <2>1. PICK i \in 1..Len(request[s].roots) : Open(n, request[s].roots[i])
    BY <1>1 DEF Owed, Reached, Open
  <2>2. request[s].roots[i] \in Range(roots'[s])
    BY <1>3, <1>6, RangeEquality
  <2>. QED
    BY <2>1, <2>2 DEF Pending, Open
<1>9. Folder(s)' /\ Smart(s)'
  BY <1>1, <1>3, <1>6, <1>8 DEF Folder, Smart
<1>. QED
  BY <1>4, <1>5, <1>7, <1>9, OthersKeep DEF ScanInv

(* Half an hour has passed. *)
LEMMA ExpireKeeps == ASSUME IInv, NEW s \in Scans, Expire(s) PROVE IInv'
<1>1. /\ ctx[s] = "live" /\ ctx' = [ctx EXCEPT ![s] = "expired"]
      /\ UNCHANGED <<disk, phase, asked, skips, walk, canceled, scans, progress, gui, stable,
                     cut>>
  BY DEF Expire
<1>2. TypeOK'
  BY <1>1 DEF IInv, TypeOK
<1>3. Others(s) /\ ctx'[s] = "expired"
  BY <1>1 DEF IInv, TypeOK, Others
<1>4. ScanInv(s)'
  <2>1. ScanInv(s)
    BY DEF IInv
  <2>2. Owed(s)' = Owed(s) /\ \A n : Pending(s, n)' <=> Pending(s, n)
    BY <1>1 DEF Owed, Reached, Pending, Open
  <2>. QED
    BY <1>1, <1>3, <2>1, <2>2 DEF ScanInv, Early, Left, Ended, Folder, Smart, Excluded
<1>. QED
  BY <1>2, <1>3, <1>4, OthersKeep

(* The next root is still to come when it is begun. *)
LEMMA NextRootKeeps == ASSUME IInv, NEW s \in Scans, NextRoot(s) PROVE IInv'
<1>1. /\ phase[s] \in {"walk", "collect"} /\ todo[s] = {} /\ roots[s] # <<>>
      /\ todo' = [todo EXCEPT ![s] = {Head(roots[s])}]
      /\ roots' = [roots EXCEPT ![s] = Tail(roots[s])]
      /\ UNCHANGED <<disk, phase, asked, skips, cands, scanned, missed, ctx, canceled, scans,
                     progress, gui, stable, cut>>
  BY DEF NextRoot
<1>2. roots[s] \in Seq(Nodes)
  BY DEF IInv, TypeOK
<1>3. /\ Head(roots[s]) \in Nodes /\ Tail(roots[s]) \in Seq(Nodes)
      /\ Range(roots[s]) = {Head(roots[s])} \cup Range(Tail(roots[s]))
  BY <1>1, <1>2, TailRange
<1>4. TypeOK'
  BY <1>1, <1>3 DEF IInv, TypeOK
<1>5. Others(s) /\ todo'[s] = {Head(roots[s])} /\ roots'[s] = Tail(roots[s])
  BY <1>1 DEF IInv, TypeOK, Others
<1>6. ScanInv(s)'
  <2>1. ScanInv(s)
    BY DEF IInv
  <2>2. Owed(s)' = Owed(s) /\ \A n : Pending(s, n)' <=> Pending(s, n)
    BY <1>1, <1>3, <1>5 DEF Owed, Reached, Pending, Open
  <2>. QED
    BY <1>1, <2>1, <2>2 DEF ScanInv, Early, Left, Ended, Folder, Smart, Excluded
<1>. QED
  BY <1>4, <1>5, <1>6, OthersKeep

(* The visit of a node takes nothing from what is owed and to come but     *)
(* what it scans or collects, and what it could not read.                  *)
LEMMA Visit ==
    ASSUME IInv, NEW s \in Scans, NEW k \in todo[s], NEW miss, todo'[s] = Rest(s, k, miss),
           UNCHANGED <<request, roots, skips, stable>>, missed'[s] = missed[s] \cup miss,
           NEW n \in Owed(s)', ~(n = k /\ Candidate(s, k, miss)), Pending(s, n)
    PROVE  Pending(s, n)'
<1>0. n \in Owed(s) /\ \A x \in miss : ~Within(n, x)
  BY DEF Owed, Reached
<1>1. PICK m \in todo[s] \cup Range(roots[s]) : Open(n, m)
  BY DEF Pending
<1>2. CASE m = k
  <2>1. PICK c \in Rest(s, k, miss) : Open(n, c)
    BY <1>0, <1>1, <1>2, Descend DEF IInv
  <2>. QED
    BY <2>1 DEF Pending, Open
<1>3. CASE m # k
  <2>1. m \in todo'[s] \cup Range(roots[s])
    BY <1>1, <1>3 DEF Rest
  <2>. QED
    BY <1>1, <2>1 DEF Pending, Open
<1>. QED
  BY <1>2, <1>3

LEMMA VisitType ==
    ASSUME TypeOK, NEW s \in Scans, NEW n \in todo[s], NEW miss \in Misses(n)
    PROVE  /\ miss \subseteq Nodes /\ Rest(s, n, miss) \subseteq Nodes
           /\ Candidate(s, n, miss) => n \in Scannable /\ ~Excluded(s, n)
           /\ miss # {} => changes < MaxChanges
  BY DEF Misses, Entries, Rest, Candidate, TypeOK

(* A failed read is one of the changes. *)
LEMMA MissType ==
    ASSUME TypeOK, NEW s \in Scans, NEW n \in todo[s], NEW miss \in Misses(n),
           Miss(s, miss)
    PROVE  /\ missed' \in [Scans -> SUBSET Nodes] /\ changes' \in 0..MaxChanges
           /\ missed'[s] = missed[s] \cup miss
           /\ \A t \in Scans \ {s} : missed'[t] = missed[t]
<1>1. miss \subseteq Nodes /\ (miss # {} => changes < MaxChanges)
  BY VisitType
<1>2. missed' = [missed EXCEPT ![s] = missed[s] \cup miss]
  BY DEF Miss
<1>3. changes' = IF miss = {} THEN changes ELSE changes + 1
  BY DEF Miss
<1>. QED
  BY <1>1, <1>2, <1>3 DEF TypeOK

(* What a folder scan visits is scanned or opened. *)
LEMMA WalkKeeps == ASSUME IInv, NEW s \in Scans, Walk(s) PROVE IInv'
<1>1. PICK k \in todo[s] : \E miss \in Misses(k) :
          /\ todo' = [todo EXCEPT ![s] = Rest(s, k, miss)]
          /\ scanned' = [scanned EXCEPT ![s] =
                             scanned[s] \cup {j \in {k} : Candidate(s, j, miss)}]
          /\ Miss(s, miss)
  BY DEF Walk
<1>2. /\ phase[s] = "walk"
      /\ UNCHANGED <<present, excl, phase, asked, skips, roots, cands, ctx, canceled, scans,
                     progress, gui, stable, cut>>
  BY DEF Walk
<1>3. PICK miss \in Misses(k) :
          /\ todo' = [todo EXCEPT ![s] = Rest(s, k, miss)]
          /\ scanned' = [scanned EXCEPT ![s] =
                             scanned[s] \cup {j \in {k} : Candidate(s, j, miss)}]
          /\ Miss(s, miss)
  BY <1>1
<1>. DEFINE taken == {j \in {k} : Candidate(s, j, miss)}
<1>4. /\ Rest(s, k, miss) \subseteq Nodes
      /\ taken \subseteq Scannable /\ \A j \in taken : j = k /\ ~Excluded(s, k)
      /\ missed' \in [Scans -> SUBSET Nodes] /\ changes' \in 0..MaxChanges
      /\ missed'[s] = missed[s] \cup miss
      /\ \A t \in Scans \ {s} : missed'[t] = missed[t]
  BY <1>3, VisitType, MissType DEF IInv
<1>5. Candidate(s, k, miss) => k \in taken
  OBVIOUS
<1>6. scanned' = [scanned EXCEPT ![s] = scanned[s] \cup taken]
  BY <1>3
<1>. HIDE DEF taken
<1>7. TypeOK'
  <2>1. todo' \in [Scans -> SUBSET Nodes] /\ scanned' \in [Scans -> SUBSET Scannable]
    BY <1>3, <1>4, <1>6 DEF IInv, TypeOK
  <2>. QED
    BY <1>2, <1>4, <2>1 DEF IInv, TypeOK
<1>8. Others(s)
  BY <1>2, <1>3, <1>4, <1>6 DEF IInv, TypeOK, Others
<1>9. todo'[s] = Rest(s, k, miss) /\ scanned'[s] = scanned[s] \cup taken
  BY <1>3, <1>6 DEF IInv, TypeOK
<1>10. ScanInv(s) /\ request[s].kind = "folder"
  BY <1>2 DEF IInv, ScanInv, Early
<1>11. Early(s)' /\ Ended(s)'
  BY <1>2, <1>10 DEF ScanInv, Early, Ended
<1>12. Left(s)'
  BY <1>2, <1>4, <1>9, <1>10 DEF ScanInv, Left, Excluded
<1>13. Owed(s)' \subseteq Owed(s)
  BY <1>2, <1>4, OwedShrinks
<1>14. ASSUME NEW n \in Owed(s)', n \notin scanned'[s] PROVE Pending(s, n)'
  <2>1. Pending(s, n)
    BY <1>2, <1>9, <1>10, <1>13, <1>14 DEF ScanInv, Early, Folder
  <2>2. ~(n = k /\ Candidate(s, k, miss))
    BY <1>5, <1>9, <1>14
  <2>. QED
    BY <1>2, <1>4, <1>9, <2>1, <2>2, Visit
<1>15. Folder(s)' /\ Smart(s)'
  BY <1>2, <1>10, <1>14 DEF Folder, Smart
<1>. QED
  BY <1>7, <1>8, <1>11, <1>12, <1>15, OthersKeep DEF ScanInv

(* What a smart scan visits is collected or opened, unless it is cut. *)
LEMMA CollectKeeps == ASSUME IInv, NEW s \in Scans, Collect(s) PROVE IInv'
<1>. DEFINE Kept(k, miss) == {m \in Rest(s, k, miss) :
                                Candidate(s, k, miss) /\ Len(cands[s]) + 1 >= MaxFiles =>
                                    Parent[m] # Parent[k]}
            Does(k, miss) ==
                /\ cands' = IF Candidate(s, k, miss)
                             THEN [cands EXCEPT ![s] = Append(@, k)] ELSE cands
                /\ todo' = [todo EXCEPT ![s] = Kept(k, miss)]
                /\ cut' = IF Kept(k, miss) # Rest(s, k, miss) THEN cut \cup {s} ELSE cut
                /\ Miss(s, miss)
<1>1. PICK k \in todo[s] : \E miss \in Misses(k) : Does(k, miss)
  BY DEF Collect
<1>2. PICK miss \in Misses(k) : Does(k, miss)
  BY <1>1
<1>. DEFINE rest == Kept(k, miss)
            taken == Candidate(s, k, miss)
<1>3. /\ cands' = IF taken THEN [cands EXCEPT ![s] = Append(@, k)] ELSE cands
      /\ todo' = [todo EXCEPT ![s] = rest]
      /\ cut' = IF rest # Rest(s, k, miss) THEN cut \cup {s} ELSE cut
      /\ Miss(s, miss)
  BY <1>2
<1>0. rest \subseteq Rest(s, k, miss)
  OBVIOUS
<1>. HIDE DEF Kept, Does
<1>4. /\ phase[s] = "collect"
      /\ UNCHANGED <<present, excl, phase, asked, skips, roots, scanned, ctx, canceled, scans,
                     progress, gui, stable>>
  BY DEF Collect
<1>5. /\ Rest(s, k, miss) \subseteq Nodes
      /\ taken => k \in Scannable /\ ~Excluded(s, k)
      /\ missed' \in [Scans -> SUBSET Nodes] /\ changes' \in 0..MaxChanges
      /\ missed'[s] = missed[s] \cup miss
      /\ \A t \in Scans \ {s} : missed'[t] = missed[t]
  BY <1>3, VisitType, MissType DEF IInv
<1>. HIDE DEF taken
<1>6. /\ cands[s] \in Seq(Files)
      /\ taken => Append(cands[s], k) \in Seq(Files)
                   /\ Range(Append(cands[s], k)) = Range(cands[s]) \cup {k}
  <2>1. cands[s] \in Seq(Files) /\ (taken => k \in Files)
    BY <1>5 DEF IInv, TypeOK
  <2>2. ASSUME taken
        PROVE  /\ Append(cands[s], k) \in Seq(Files)
               /\ Range(Append(cands[s], k)) = Range(cands[s]) \cup {k}
    <3>. HIDE DEF Files
    <3>. QED
      BY ONLY <2>1, <2>2, AppendRange
  <2>. QED
    BY <2>1, <2>2
<1>7. TypeOK'
  BY <1>0, <1>3, <1>4, <1>5, <1>6 DEF IInv, TypeOK
<1>8. Others(s)
  BY <1>3, <1>4, <1>5 DEF IInv, TypeOK, Others
<1>9. /\ todo'[s] = rest
      /\ Range(cands'[s]) = IF taken THEN Range(cands[s]) \cup {k} ELSE Range(cands[s])
  BY <1>3, <1>6 DEF IInv, TypeOK
<1>10. ScanInv(s) /\ request[s].kind = "smart"
  BY <1>4 DEF IInv, ScanInv, Early
<1>11. Early(s)' /\ Ended(s)'
  BY <1>4, <1>10 DEF ScanInv, Early, Ended
<1>12. Left(s)'
  BY <1>4, <1>5, <1>9, <1>10 DEF ScanInv, Left, Excluded
<1>13. Owed(s)' \subseteq Owed(s)
  BY <1>4, <1>5, OwedShrinks
<1>14. ASSUME s \notin cut', NEW n \in Owed(s)', n \notin Range(cands'[s])
       PROVE  Pending(s, n)'
  <2>1. rest = Rest(s, k, miss) /\ s \notin cut
    BY <1>3, <1>14
  <2>2. Pending(s, n)
    BY <1>4, <1>9, <1>10, <1>13, <1>14, <2>1 DEF ScanInv, Early, Smart
  <2>3. ~(n = k /\ Candidate(s, k, miss))
    BY <1>9, <1>14 DEF taken
  <2>. QED
    BY <1>4, <1>5, <1>9, <2>1, <2>2, <2>3, Visit
<1>15. s \notin cut' => s \notin cut
  BY <1>3
<1>16. Folder(s)' /\ Smart(s)'
  BY <1>4, <1>10, <1>14, <1>15 DEF ScanInv, Folder, Smart
<1>. QED
  BY <1>7, <1>8, <1>11, <1>12, <1>16, OthersKeep DEF ScanInv

(* Steps of a scan that visit nothing: where they lead, and what they have *)
(* to see to.                                                              *)
LEMMA PhaseKeeps ==
    ASSUME IInv, NEW s \in Scans, NEW step,
           phase' = [phase EXCEPT ![s] = step], phase[s] \notin {"new", "asked"},
           UNCHANGED <<disk, asked, skips, walk, aimed, stable>>,
           \A t \in Scans \ {s} :
               /\ ctx'[t] = ctx[t] /\ canceled'[t] = canceled[t]
               /\ t \in cut' <=> t \in cut,
           TypeOK',
           step \in {"walk", "newest", "close"} \cup Over,
           step = "walk" => phase[s] = "count",
           step = "newest" => phase[s] = "collect" /\ (s \notin cut' => Walked(s)),
           step = "close" =>
               phase[s] = "newest" \/ (phase[s] = "walk" /\ (Done(s) \/ Walked(s))),
           step = "report" => phase[s] = "close" /\ (canceled'[s] <=> Done(s)),
           step \in Over \ {"report"} => phase[s] \in Over \ {"done"},
           step # "report" => canceled'[s] = canceled[s],
           step # "done" => ctx'[s] = ctx[s],
           ctx[s] = "expired" => ctx'[s] = "expired",
           s \notin cut' => s \notin cut
    PROVE  IInv'
<1>1. phase'[s] = step
  BY DEF IInv, TypeOK
<1>2. Others(s)
  BY DEF IInv, TypeOK, Others
<1>3. ScanInv(s)
  BY DEF IInv
<1>4. Owed(s)' = Owed(s) /\ \A n : Pending(s, n)' <=> Pending(s, n)
  BY DEF Owed, Reached, Pending, Open
<1>5. request[s].kind \in Kinds
  BY <1>3 DEF ScanInv, Early
<1>6. Early(s)'
  BY <1>1, <1>3 DEF ScanInv, Early
<1>7. Left(s)'
  BY <1>1, <1>3 DEF ScanInv, Left, Excluded
<1>8. ctx[s] \in {"live", "canceled", "expired"} /\ canceled'[s] \in BOOLEAN
  BY DEF IInv, TypeOK
<1>9. Ended(s)'
  BY <1>1, <1>3, <1>8 DEF ScanInv, Ended
<1>10. Walked(s) => \A n : ~Pending(s, n)
  BY EmptyRange DEF Walked, Pending
<1>11. Folder(s)'
  <2>1. CASE request[s].kind = "folder"
    <3>1. Folder(s) /\ phase[s] \notin {"collect", "newest"}
      BY <1>3, <2>1 DEF ScanInv, Early
    <3>. QED
      BY <1>1, <1>4, <1>8, <1>10, <2>1, <3>1 DEF Folder
  <2>. QED
    BY <2>1 DEF Folder
<1>12. Smart(s)'
  <2>1. CASE request[s].kind = "smart" /\ s \notin cut'
    <3>1. Smart(s) /\ s \notin cut /\ phase[s] \notin {"count", "walk"}
      BY <1>3, <2>1 DEF ScanInv, Early
    <3>2. CASE step = "newest"
      <4>1. Owed(s) \subseteq Range(cands[s]) /\ scanned[s] = {}
        BY <1>10, <2>1, <3>1, <3>2 DEF Smart
      <4>. QED
        BY <1>1, <1>4, <3>2, <4>1 DEF Smart
    <3>3. CASE step = "close"
      <4>1. /\ Owed(s) \subseteq scanned[s] \cup Range(cands[s])
            /\ \A m \in Range(cands[s]), n \in scanned[s] : Mod[m] <= Mod[n]
        BY <2>1, <3>1, <3>3 DEF Smart
      <4>. QED
        BY <1>1, <1>4, <3>3, <4>1 DEF Smart
    <3>4. CASE step \in Over
      BY <1>1, <1>4, <2>1, <3>1, <3>4 DEF Smart
    <3>. QED
      BY <3>1, <3>2, <3>3, <3>4
  <2>. QED
    BY <2>1 DEF Smart
<1>. QED
  BY <1>2, <1>3, <1>6, <1>7, <1>9, <1>11, <1>12, OthersKeep DEF ScanInv

LEMMA CountKeeps == ASSUME IInv, NEW s \in Scans, Count(s) PROVE IInv'
<1>1. TypeOK'
  BY DEF IInv, TypeOK, Count
<1>. QED
  BY <1>1, PhaseKeeps DEF Count

LEMMA WalkEndsKeeps == ASSUME IInv, NEW s \in Scans, WalkEnds(s) PROVE IInv'
<1>1. TypeOK'
  BY DEF IInv, TypeOK, WalkEnds
<1>. QED
  BY <1>1, PhaseKeeps DEF WalkEnds

LEMMA CollectEndsKeeps == ASSUME IInv, NEW s \in Scans, CollectEnds(s) PROVE IInv'
<1>1. TypeOK'
  BY DEF IInv, TypeOK, CollectEnds
<1>. QED
  BY <1>1, PhaseKeeps DEF CollectEnds

LEMMA NewestEndsKeeps == ASSUME IInv, NEW s \in Scans, NewestEnds(s) PROVE IInv'
<1>1. TypeOK'
  BY DEF IInv, TypeOK, NewestEnds
<1>. QED
  BY <1>1, PhaseKeeps DEF NewestEnds

(* Whether the context has ended is noted here. *)
LEMMA CloseKeeps == ASSUME IInv, NEW s \in Scans, Close(s) PROVE IInv'
<1>1. TypeOK'
  BY DEF IInv, TypeOK, Close
<1>2. /\ phase[s] = "close" /\ phase' = [phase EXCEPT ![s] = "report"]
      /\ canceled' = [canceled EXCEPT ![s] = Done(s)]
      /\ UNCHANGED <<disk, asked, skips, walk, ctx, aimed, stable, cut>>
  BY DEF Close
<1>3. canceled'[s] = Done(s) /\ \A t \in Scans \ {s} : canceled'[t] = canceled[t]
  BY <1>2 DEF IInv, TypeOK
<1>. QED
  BY <1>1, <1>2, <1>3, PhaseKeeps

(* What is sent is a message, and it has room. *)
LEMMA SendType ==
    ASSUME TypeOK, NEW s \in Scans, NEW type \in {"progress", "result"}, Send(s, type)
    PROVE  inbox' \in Seq(Message) /\ Len(inbox') <= MaxInbox
<1>1. inbox \in Seq(Message) /\ Len(inbox) \in Nat /\ Len(inbox) <= MaxInbox
  BY DEF TypeOK
<1>2. [type |-> type, scan |-> s] \in Message
  BY DEF Message
<1>. QED
  BY <1>1, <1>2 DEF Send

LEMMA ReportKeeps == ASSUME IInv, NEW s \in Scans, Report(s) PROVE IInv'
<1>1. TypeOK'
  BY SendType DEF IInv, TypeOK, Report
<1>. QED
  BY <1>1, PhaseKeeps DEF Report

LEMMA ApplyKeeps == ASSUME IInv, NEW s \in Scans, Apply(s) PROVE IInv'
<1>1. TypeOK'
  BY DEF IInv, TypeOK, Apply
<1>. QED
  BY <1>1, PhaseKeeps DEF Apply

LEMMA SendResultKeeps == ASSUME IInv, NEW s \in Scans, SendResult(s) PROVE IInv'
<1>1. TypeOK'
  BY SendType DEF IInv, TypeOK, SendResult
<1>. QED
  BY <1>1, PhaseKeeps DEF SendResult

(* The context ends when nothing reads it any more. *)
LEMMA EndKeeps == ASSUME IInv, NEW s \in Scans, End(s) PROVE IInv'
<1>1. TypeOK'
  BY DEF IInv, TypeOK, End
<1>2. /\ \A t \in Scans \ {s} : ctx'[t] = ctx[t]
      /\ ctx[s] = "expired" => ctx'[s] = "expired"
  BY DEF IInv, TypeOK, End
<1>. QED
  BY <1>1, <1>2, PhaseKeeps DEF End

(* The newest candidate is no older than those that are left. *)
LEMMA NewestKeeps == ASSUME IInv, NEW s \in Scans, Newest(s) PROVE IInv'
<1>1. PICK i \in 1..Len(cands[s]) :
          /\ \A j \in 1..Len(cands[s]) : ~(Mod[cands[s][j]] > Mod[cands[s][i]])
          /\ scanned' = [scanned EXCEPT ![s] = @ \cup {cands[s][i]}]
          /\ cands' = [cands EXCEPT ![s] = RemoveAt(cands[s], i)]
  BY DEF Newest, Newer
<1>2. /\ phase[s] = "newest"
      /\ UNCHANGED <<disk, phase, asked, skips, roots, todo, missed, ctx, canceled, scans,
                     progress, gui, stable, cut>>
  BY DEF Newest
<1>. DEFINE q == cands[s]
            r == RemoveAt(q, i)
<1>3. q \in Seq(Files)
  BY DEF IInv, TypeOK
<1>4. r \in Seq(Files) /\ Range(r) \subseteq Range(q) /\ Range(q) \subseteq Range(r) \cup {q[i]}
  BY <1>3, RemoveAtRange
<1>5. /\ Range(q) = {q[j] : j \in 1..Len(q)} /\ q[i] \in Range(q)
      /\ Range(q) \subseteq Files
  BY <1>3, RangeIn
<1>6. \A m \in Range(q) : Mod[m] <= Mod[q[i]]
  BY <1>1, <1>5
<1>7. ScanInv(s) /\ request[s].kind = "smart"
  BY <1>2 DEF IInv, ScanInv, Early
<1>8. q[i] \in Scannable /\ ~Excluded(s, q[i])
  BY <1>5, <1>7 DEF ScanInv, Left
<1>. HIDE DEF r
<1>9. cands' = [cands EXCEPT ![s] = r]
  BY <1>1 DEF r
<1>10. TypeOK'
  <2>1. scanned' \in [Scans -> SUBSET Scannable] /\ cands' \in [Scans -> Seq(Files)]
    BY <1>1, <1>4, <1>8, <1>9 DEF IInv, TypeOK
  <2>. QED
    BY <1>2, <2>1 DEF IInv, TypeOK
<1>11. Others(s)
  BY <1>1, <1>2 DEF IInv, TypeOK, Others
<1>12. cands'[s] = r /\ scanned'[s] = scanned[s] \cup {q[i]}
  BY <1>1, <1>9 DEF IInv, TypeOK
<1>13. Early(s)' /\ Ended(s)' /\ Folder(s)'
  BY <1>2, <1>7 DEF ScanInv, Early, Ended, Folder
<1>14. Left(s)'
  BY <1>2, <1>4, <1>7, <1>8, <1>12 DEF ScanInv, Left, Excluded
<1>15. Owed(s)' = Owed(s)
  BY <1>2 DEF Owed, Reached
<1>16. Smart(s)'
  <2>1. CASE s \notin cut
    <3>1. /\ Owed(s) \subseteq scanned[s] \cup Range(q)
          /\ \A m \in Range(q), n \in scanned[s] : Mod[m] <= Mod[n]
      BY <1>2, <1>7, <2>1 DEF ScanInv, Smart
    <3>2. /\ Owed(s) \subseteq scanned'[s] \cup Range(r)
          /\ \A m \in Range(r), n \in scanned'[s] : Mod[m] <= Mod[n]
      BY <1>4, <1>6, <1>12, <3>1
    <3>. QED
      BY <1>2, <1>12, <1>15, <3>2 DEF Smart
  <2>. QED
    BY <1>2, <2>1 DEF Smart
<1>. QED
  BY <1>10, <1>11, <1>13, <1>14, <1>16, OthersKeep DEF ScanInv

(* The ticker and the connection change nothing a scan decides by. *)
LEMMA TickerKeeps ==
    ASSUME IInv, NEW s \in Scans, Tick(s) \/ TickEnds(s) \/ TickSend(s)
    PROVE  IInv'
<1>1. CASE Tick(s) \/ TickEnds(s)
  <2>1. TypeOK'
    BY <1>1 DEF IInv, TypeOK, Tick, TickEnds
  <2>. QED
    BY <1>1, <2>1, AsideKeeps DEF Tick, TickEnds
<1>2. CASE TickSend(s)
  <2>1. TypeOK'
    BY <1>2, SendType DEF IInv, TypeOK, TickSend
  <2>. QED
    BY <1>2, <2>1, AsideKeeps DEF TickSend
<1>. QED
  BY <1>1, <1>2

LEMMA DisconnectKeeps == ASSUME IInv, Disconnect PROVE IInv'
<1>1. /\ lost' \subseteq Scans /\ inbox' = <<>>
      /\ UNCHANGED <<disk, phase, asked, skips, walk, ctx, canceled, scans, ticker, gui,
                     stable, cut>>
  BY DEF Disconnect
<1>2. TypeOK'
  BY <1>1 DEF IInv, TypeOK
<1>. QED
  BY <1>1, <1>2, AsideKeeps

(* A new exclusion changes no scan's copy. *)
LEMMA ExcludeKeeps == ASSUME IInv, NEW x \in Volatile, Exclude(x) PROVE IInv'
<1>1. /\ changes < MaxChanges /\ changes' = changes + 1 /\ excl' = excl \cup {x}
      /\ UNCHANGED <<present, phase, asked, skips, walk, ctx, canceled, scans, progress, gui,
                     stable, cut>>
  BY DEF Exclude, Change
<1>2. TypeOK'
  BY <1>1 DEF IInv, TypeOK
<1>3. PresentInv'
  BY <1>1 DEF IInv, PresentInv
<1>4. ASSUME NEW s \in Scans PROVE ScanInv(s)'
  <2>1. ScanInv(s)
    BY DEF IInv
  <2>2. Owed(s)' = Owed(s) /\ \A n : Pending(s, n)' <=> Pending(s, n)
    BY <1>1 DEF Owed, Reached, Pending, Open
  <2>. QED
    BY <1>1, <2>1, <2>2 DEF ScanInv, Early, Left, Ended, Folder, Smart, Excluded
<1>. QED
  BY <1>2, <1>3, <1>4 DEF IInv

(* What goes takes what is below it along, and is owed no more. *)
LEMMA FileGoesKeeps == ASSUME IInv, NEW x \in Volatile, FileGoes(x) PROVE IInv'
<1>1. /\ changes < MaxChanges /\ changes' = changes + 1
      /\ present' = {k \in present : ~Within(k, x)}
      /\ stable' = [s \in Scans |-> stable[s] \cap present']
      /\ UNCHANGED <<excl, phase, asked, skips, walk, ctx, canceled, scans, progress, gui,
                     cut>>
  BY DEF FileGoes, Change
<1>2. present \subseteq Nodes /\ x \in Nodes /\ \A s \in Scans : stable[s] \subseteq Nodes
  BY DEF IInv, TypeOK
<1>3. TypeOK'
  BY <1>1, <1>2 DEF IInv, TypeOK
<1>4. ASSUME NEW n \in present', NEW k \in Above[n] PROVE k \in present'
  <2>1. n \in present /\ ~Within(n, x) /\ k \in present /\ Within(n, k)
    BY <1>1, <1>4 DEF IInv, PresentInv, Within
  <2>2. ~Within(k, x)
    BY <1>2, <2>1, Tree
  <2>. QED
    BY <1>1, <2>1, <2>2
<1>5. PresentInv'
  BY <1>1, <1>4 DEF IInv, PresentInv
<1>6. ASSUME NEW s \in Scans PROVE ScanInv(s)'
  <2>1. ScanInv(s)
    BY DEF IInv
  <2>2. Owed(s)' \subseteq Owed(s)
    BY <1>1 DEF Owed, Reached
  <2>3. \A n : Pending(s, n)' <=> Pending(s, n)
    BY <1>1 DEF Pending, Open
  <2>4. Early(s)' /\ Left(s)' /\ Ended(s)'
    BY <1>1, <2>1 DEF ScanInv, Early, Left, Ended, Excluded
  <2>5. Folder(s)'
    BY <1>1, <2>1, <2>2, <2>3 DEF ScanInv, Folder
  <2>6. Smart(s)'
    BY <1>1, <2>1, <2>2, <2>3 DEF ScanInv, Smart
  <2>. QED
    BY <2>4, <2>5, <2>6 DEF ScanInv
<1>. QED
  BY <1>3, <1>5, <1>6 DEF IInv

(* What appears was not there all the time. *)
LEMMA FileAppearsKeeps == ASSUME IInv, NEW x \in Volatile, FileAppears(x) PROVE IInv'
<1>1. /\ changes < MaxChanges /\ changes' = changes + 1
      /\ Parent[x] = None \/ Parent[x] \in present
      /\ present' = present \cup {x}
      /\ UNCHANGED <<excl, phase, asked, skips, walk, ctx, canceled, scans, progress, gui,
                     stable, cut>>
  BY DEF FileAppears, Change
<1>2. TypeOK'
  BY <1>1 DEF IInv, TypeOK
<1>3. Above[x] \subseteq present'
  <2>1. x \in Nodes /\ Above[x] = {x} \cup (IF Parent[x] = None THEN {} ELSE Above[Parent[x]])
    BY TreeAssumption
  <2>2. Parent[x] \in present => Above[Parent[x]] \subseteq present
    BY DEF IInv, PresentInv
  <2>. QED
    BY <1>1, <2>1, <2>2
<1>4. PresentInv'
  BY <1>1, <1>3 DEF IInv, PresentInv
<1>5. ASSUME NEW s \in Scans PROVE ScanInv(s)'
  <2>1. ScanInv(s)
    BY DEF IInv
  <2>2. Owed(s)' = Owed(s) /\ \A n : Pending(s, n)' <=> Pending(s, n)
    BY <1>1 DEF Owed, Reached, Pending, Open
  <2>. QED
    BY <1>1, <2>1, <2>2 DEF ScanInv, Early, Left, Ended, Folder, Smart, Excluded
<1>. QED
  BY <1>2, <1>4, <1>5 DEF IInv

-----------------------------------------------------------------------------
(* Nothing changes. *)
LEMMA StutterKeeps == ASSUME IInv, UNCHANGED vars PROVE IInv'
<1>1. TypeOK'
  BY DEF IInv, TypeOK
<1>. QED
  BY <1>1, AsideKeeps

(* The invariant holds at first: nothing is below the file that may be     *)
(* missing.                                                                *)
LEMMA InitInv == ASSUME Init PROVE IInv
<1>1. TypeOK
  BY DEF Init, TypeOK
<1>2. \A n \in present : Above[n] \subseteq present
  <2>1. CASE present = Nodes
    BY <2>1
  <2>2. ASSUME NEW x \in Volatile \cap Files, present = Nodes \ {x}
        PROVE  \A n \in present : Above[n] \subseteq present
    <3>1. \A n \in Nodes : n # x => ~Within(n, x)
      BY Tree
    <3>. QED
      BY <2>2, <3>1 DEF Within
  <2>. QED
    BY <2>1, <2>2 DEF Init
<1>3. PresentInv
  BY <1>2 DEF Init, PresentInv
<1>4. ASSUME NEW s \in Scans PROVE ScanInv(s)
  BY EmptyRange DEF Init, ScanInv, Early, Left, Ended, Folder, Smart
<1>. QED
  BY <1>1, <1>3, <1>4 DEF IInv

(* Every step keeps the invariant. *)
LEMMA NextInv == ASSUME IInv, [Next]_vars PROVE IInv'
<1>1. ASSUME NEW s \in Scans, Ask(s) \/ Cancel(s) \/ Expire(s) PROVE IInv'
  BY <1>1, AskKeeps, CancelKeeps, ExpireKeeps
<1>2. ASSUME NEW s \in Scans, Running(s) PROVE IInv'
  BY <1>2, BeginKeeps, CountKeeps, NextRootKeeps, WalkKeeps, WalkEndsKeeps, CollectKeeps,
     CollectEndsKeeps, NewestKeeps, NewestEndsKeeps, CloseKeeps, ReportKeeps,
     ApplyKeeps, SendResultKeeps, EndKeeps
     DEF Running
<1>3. ASSUME NEW s \in Scans, Tick(s) \/ Ticking(s) PROVE IInv'
  BY <1>3, TickerKeeps DEF Ticking
<1>4. CASE Receive \/ Disconnect
  BY <1>4, ReceiveKeeps, DisconnectKeeps
<1>5. ASSUME NEW n \in Volatile, Exclude(n) \/ FileGoes(n) \/ FileAppears(n) PROVE IInv'
  BY <1>5, ExcludeKeeps, FileGoesKeeps, FileAppearsKeeps
<1>6. CASE UNCHANGED vars
  BY <1>6, StutterKeeps
<1>. QED
  BY <1>1, <1>2, <1>3, <1>4, <1>5, <1>6 DEF Next

(* The inductive invariant holds in every state of every behaviour. *)
THEOREM Invariance == Spec => []IInv
<1>. QED
  BY InitInv, NextInv, PTL DEF Spec

(* Type correctness. *)
THEOREM TypeCorrect == Spec => []TypeOK
<1>1. IInv => TypeOK
  BY DEF IInv
<1>. QED
  BY Invariance, <1>1, PTL

(* The result of a folder scan that does not say "canceled" is whole,      *)
(* whatever comes, goes and is excluded while it walks, but for what it    *)
(* could not read: CompleteIsWhole.                                        *)
THEOREM CompleteScansAreWhole == Spec => []CompleteIsWhole
<1>1. IInv => CompleteIsWhole
  BY DEF IInv, ScanInv, Folder, CompleteIsWhole
<1>. QED
  BY Invariance, <1>1, PTL

(* A smart scan that could collect leaves out the oldest files only, and   *)
(* what it could not read: SmartTakesNewest.                               *)
THEOREM SmartScansTakeNewest == Spec => []SmartTakesNewest
<1>1. IInv => SmartTakesNewest
  BY DEF IInv, ScanInv, Smart, SmartTakesNewest
<1>. QED
  BY Invariance, <1>1, PTL

(* No scan touches what was excluded when it was asked for:                *)
(* ExcludedIsLeft.                                                         *)
THEOREM ExclusionsAreKept == Spec => []ExcludedIsLeft
<1>1. IInv => ExcludedIsLeft
  BY DEF IInv, ScanInv, Early, Left, Excluded, ExcludedIsLeft
<1>. QED
  BY Invariance, <1>1, PTL

(* A result says "canceled" only of a scan the user cancelled or whose     *)
(* time was over, of any number of scans at once: CancelHitsItsOwn.        *)
THEOREM CancelsHitTheirOwn == Spec => []CancelHitsItsOwn
<1>1. IInv => CancelHitsItsOwn
  BY DEF IInv, ScanInv, Ended, CancelHitsItsOwn
<1>. QED
  BY Invariance, <1>1, PTL
=============================================================================

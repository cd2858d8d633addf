-------------------------- MODULE QueueDupesProofs --------------------------
(***************************************************************************)
(* Proofs about the duplicate passes of QueueDupes: type correctness, the  *)
(* inductive invariant Inv, and that a pass never drops the last copy      *)
(* (KeeperStays) where the keepers are known to stay: with the import      *)
(* gate, or with a queue that is current and requests that do not fail.    *)
(*                                                                         *)
(* The first part is about the operators of one pass, the ranking of the   *)
(* candidates above all; the second is about the steps.                    *)
(***************************************************************************)
EXTENDS QueueDupes, FiniteSetTheorems, NaturalsInduction, WellFoundedInduction, TLAPS

Views == [Releases -> NoRecord..Full]

-----------------------------------------------------------------------------
\* The ranking.

(* The number of episodes of a release.                                    *)
LEMMA Weighs ==
  \A r \in Releases : Cardinality(Covers[r]) \in Nat
  BY DupesAssumption, FS_Subset, FS_CardinalityType

(* What Deluge or the queue says of a release's progress is a number.      *)
LEMMA ProgressType ==
  ASSUME TypeOK, NEW view \in Views, NEW r \in Releases
  PROVE  Progress(view, r) \in Int
  BY DEF TypeOK, Views, Progress, NoRecord, Zero, Full

(* No release is better than itself.                                       *)
LEMMA BetterIrreflexive ==
  ASSUME TypeOK, NEW view \in Views, NEW place \in Places, NEW a \in Releases
  PROVE  ~ Better(view, place, a, a)
  <1>1. /\ Cardinality(Covers[a]) \in Nat /\ Score[a] \in Nat
        /\ Progress(view, a) \in Int /\ place[a] \in Nat
    <2>1. Cardinality(Releases) \in Nat
      BY DupesAssumption, FS_CardinalityType
    <2> QED
      BY <2>1, Weighs, ProgressType, DupesAssumption DEF Places
  <1> QED
    BY <1>1 DEF Better

(* Of two releases one is better.                                          *)
LEMMA BetterTotal ==
  ASSUME TypeOK, NEW view \in Views, NEW place \in Places,
         NEW a \in Releases, NEW b \in Releases, a # b
  PROVE  Better(view, place, a, b) \/ Better(view, place, b, a)
  <1>1. \A r \in {a, b} :
        /\ Cardinality(Covers[r]) \in Nat /\ Score[r] \in Nat
        /\ Progress(view, r) \in Int /\ place[r] \in Nat
    <2>1. Cardinality(Releases) \in Nat
      BY DupesAssumption, FS_CardinalityType
    <2> QED
      BY <2>1, Weighs, ProgressType, DupesAssumption DEF Places
  <1>2. place[a] # place[b]
    BY DEF Places
  <1> QED
    BY <1>1, <1>2 DEF Better

(* Better is transitive.                                                   *)
LEMMA BetterTransitive ==
  ASSUME TypeOK, NEW view \in Views, NEW place \in Places,
         NEW a \in Releases, NEW b \in Releases, NEW c \in Releases,
         Better(view, place, a, b), Better(view, place, b, c)
  PROVE  Better(view, place, a, c)
  <1>1. \A r \in {a, b, c} :
        /\ Cardinality(Covers[r]) \in Nat /\ Score[r] \in Nat
        /\ Progress(view, r) \in Int /\ place[r] \in Nat
    <2>1. Cardinality(Releases) \in Nat
      BY DupesAssumption, FS_CardinalityType
    <2> QED
      BY <2>1, Weighs, ProgressType, DupesAssumption DEF Places
  <1> QED
    BY <1>1 DEF Better

(* A set of naturals has a least one.                                      *)
LEMMA LeastNat ==
  ASSUME NEW S \in SUBSET Nat, S # {}
  PROVE  \E n \in S : \A m \in S : ~ (m < n)
  <1>1. \E n \in S : \A m \in S : ~ (<<m, n>> \in OpToRel(<, Nat))
    BY NatLessThanWellFounded, WFMin, Zenon
  <1> QED
    BY <1>1, Zenon DEF OpToRel

(* Among some releases one is better than all others: the number of        *)
(* releases better than a given one falls along Better.                    *)
LEMMA BestExists ==
  ASSUME TypeOK, NEW view \in Views, NEW place \in Places,
         NEW T \in SUBSET Releases, T # {}
  PROVE  \E k \in T : \A l \in T \ {k} : Better(view, place, k, l)
  <1> DEFINE Above(r) == {m \in T : Better(view, place, m, r)}
             Rank(r) == Cardinality(Above(r))
             Ranks == {Rank(r) : r \in T}
  <1>1. \A r \in T : IsFiniteSet(Above(r)) /\ Rank(r) \in Nat
    <2>1. IsFiniteSet(T)
      BY FS_Subset, DupesAssumption
    <2>2. \A r \in T : Above(r) \in SUBSET T
      OBVIOUS
    <2>3. \A r \in T : IsFiniteSet(Above(r))
      BY <2>1, <2>2, FS_Subset
    <2> QED
      BY <2>3, FS_CardinalityType
  <1>2. PICK least \in Ranks : \A n \in Ranks : ~ (n < least)
    <2>1. Ranks \subseteq Nat /\ Ranks # {}
      BY <1>1
    <2> QED
      BY <2>1, LeastNat
  <1>3. PICK k \in T : Rank(k) = least
    OBVIOUS
  <1>4. ASSUME NEW l \in T \ {k}, ~ Better(view, place, k, l)
        PROVE  FALSE
    <2>1. Better(view, place, l, k)
      BY <1>4, BetterTotal
    <2>2. Above(l) \subseteq Above(k)
      BY <2>1, BetterTransitive
    <2>3. l \in Above(k) /\ l \notin Above(l)
      BY <2>1, BetterIrreflexive
    <2>4. Rank(l) <= Rank(k) /\ Rank(l) # Rank(k)
      BY <1>1, <2>2, <2>3, FS_Subset
    <2>5. Rank(l) < Rank(k)
      BY <1>1, <2>4
    <2> QED
      BY <1>1, <1>2, <1>3, <2>5
  <1> QED
    BY <1>4

(* The keeper of a loser is one of the keepers, another release, and       *)
(* covers it.                                                              *)
LEMMA KeeperCovers ==
  ASSUME TypeOK, NEW view \in Views, NEW place \in Places,
         NEW cands \in SUBSET Releases,
         NEW r \in cands \ Keepers(cands, view, place)
  PROVE  LET k == KeeperOf(r, Keepers(cands, view, place), view, place)
         IN  /\ k \in Keepers(cands, view, place)
             /\ Covers[r] \subseteq Covers[k]
             /\ k # r
  <1> DEFINE keepers == Keepers(cands, view, place)
             covering == {k \in keepers : Covers[r] \subseteq Covers[k]}
             Best(k) == \A l \in covering \ {k} : Better(view, place, k, l)
  <1>1. covering # {}
    <2> DEFINE above == {k \in cands : Covers[r] \subseteq Covers[k]}
    <2>1. above \in SUBSET Releases /\ above # {}
      OBVIOUS
    <2>2. PICK k \in above : \A l \in above \ {k} : Better(view, place, k, l)
      BY <2>1, BestExists
    <2>3. ASSUME NEW l \in cands, Covers[k] \subseteq Covers[l], Better(view, place, l, k)
          PROVE  FALSE
      <3>1. l \in above
        BY <2>3
      <3>2. l # k
        BY <2>3, BetterIrreflexive
      <3>3. Better(view, place, k, k)
        BY <2>2, <2>3, <3>1, <3>2, BetterTransitive
      <3> QED
        BY <3>3, BetterIrreflexive
    <2>4. k \in keepers
      BY <2>3 DEF Keepers
    <2> QED
      BY <2>4
  <1>2. covering \in SUBSET Releases
    BY DEF Keepers
  <1>3. \E k \in covering : Best(k)
    BY <1>1, <1>2, BestExists
  <1>4. KeeperOf(r, keepers, view, place) = CHOOSE k \in covering : Best(k)
    BY Zenon DEF KeeperOf
  <1>5. KeeperOf(r, keepers, view, place) \in covering
    <2> HIDE DEF covering, Best
    <2> QED
      BY <1>3, <1>4
  <1> QED
    BY <1>5

(* The losers of a pass: candidates all, each with a keeper that covers it *)
(* and is itself no loser.                                                 *)
LEMMA LosersAreCovered ==
  ASSUME TypeOK, NEW view \in Views, NEW place \in Places,
         NEW lane \in SUBSET Releases,
         NEW j \in JobsOf(view, lane, place)
  PROVE  /\ j \in Jobs
         /\ j.item \in Candidates(view, lane) /\ j.keeper \in Candidates(view, lane)
         /\ j.keeper # j.item
         /\ Covers[j.item] \subseteq Covers[j.keeper]
         /\ j.how = How(view, j.item)
         /\ \A i \in JobsOf(view, lane, place) : i.item # j.keeper
  <1> DEFINE cands == Candidates(view, lane)
             keepers == Keepers(cands, view, place)
  <1>1. cands \in SUBSET Releases
    BY DEF Candidates, Queued
  <1>2. PICK r \in cands \ keepers :
          j = [item |-> r, keeper |-> KeeperOf(r, keepers, view, place), how |-> How(view, r)]
    BY Zenon DEF JobsOf
  <1>3. /\ KeeperOf(r, keepers, view, place) \in keepers
        /\ Covers[r] \subseteq Covers[KeeperOf(r, keepers, view, place)]
        /\ KeeperOf(r, keepers, view, place) # r
    BY <1>1, KeeperCovers
  <1>4. keepers \subseteq cands
    BY DEF Keepers
  <1>5. How(view, r) \in {"lane", "record", "client"}
    BY DEF How
  <1>6. \A i \in JobsOf(view, lane, place) : i.item \in cands \ keepers
    BY DEF JobsOf
  <1>7. j.item = r /\ j.keeper \in keepers
    BY <1>2, <1>3
  <1>8. j \in Jobs
    BY <1>1, <1>2, <1>3, <1>4, <1>5 DEF Jobs
  <1> HIDE DEF keepers, cands
  <1> QED
    BY <1>2, <1>3, <1>4, <1>6, <1>7, <1>8 DEF cands

-----------------------------------------------------------------------------
\* Type correctness.

TorType == [label : {"absent", "base", "upgrade", "superseded"}, progress : Zero..Full]

PassType == [pc : {"idle", "queue", "deluge", "drop", "end"}, view : Views,
             jobs : SUBSET Jobs]

\* The throttled torrents a pass may know.
Throttled(p) ==
  {r \in Releases : InLane(r) /\ r \notin Queued(pass[p].view) /\ tor[r].progress < Full}

(* The queue, as of now or as last refreshed, is a view.                   *)
LEMMA QueueType ==
  ASSUME TypeOK
  PROVE  Queue \in Views /\ Listing \in Views /\ NoView \in Views
  BY DEF TypeOK, Queue, Listing, Views, NoView, NoRecord, Zero, Full

(* The types hold at the start.                                            *)
LEMMA InitType == Init => TypeOK
  <1> SUFFICES ASSUME Init PROVE TypeOK
    OBVIOUS
  <1>1. NoView \in Views
    BY DEF NoView, Views, NoRecord, Full
  <1>2. tor \in [Releases -> TorType]
    BY DEF Init, TorType, Zero, Full
  <1>3. pass \in [Passes -> PassType]
    BY <1>1 DEF Init, PassType, Idle
  <1> QED
    BY <1>1, <1>2, <1>3 DEF Init, TypeOK, TorType, PassType, Views

(* What reading Deluge makes of a pass.                                    *)
LEMMA ReadDelugeJobs ==
  ASSUME TypeOK, NEW p \in Passes, ReadDeluge(p)
  PROVE  \E lane \in SUBSET Throttled(p), place \in Places :
           /\ pass' = [pass EXCEPT ![p] = [pc |-> "drop", view |-> NoView,
                          jobs |-> JobsOf(pass[p].view, lane, place)]]
           /\ JobsOf(pass[p].view, lane, place) \in SUBSET Jobs
  <1>1. PICK lane \in SUBSET Throttled(p), place \in Places :
          pass' = [pass EXCEPT ![p] = [pc |-> "drop", view |-> NoView,
                     jobs |-> JobsOf(pass[p].view, lane, place)]]
    BY DEF ReadDeluge, Throttled
  <1>2. lane \in SUBSET Releases /\ pass[p].view \in Views
    BY DEF Throttled, TypeOK, Views
  <1>3. JobsOf(pass[p].view, lane, place) \in SUBSET Jobs
    BY <1>2, LosersAreCovered
  <1> QED
    BY <1>1, <1>3

(* The steps of the passes keep the types.                                 *)
LEMMA PassStepType ==
  ASSUME TypeOK, NEW p \in Passes, Start(p) \/ PassStep(p)
  PROVE  TypeOK'
  <1> USE DEF TorType, PassType
  <1>1. pass \in [Passes -> PassType] /\ tor \in [Releases -> TorType]
    BY DEF TypeOK, Views
  <1>2. CASE Start(p) \/ ReadQueueFails(p) \/ ReadDelugeFails(p)
    <2>1. pass' \in [Passes -> PassType]
      BY <1>1, <1>2 DEF Start, ReadQueueFails, ReadDelugeFails, Goto
    <2> QED
      BY <1>2, <2>1 DEF Start, ReadQueueFails, ReadDelugeFails, TypeOK, Views
  <1>3. CASE ReadQueue(p)
    <2>1. pass' \in [Passes -> PassType]
      BY <1>1, <1>3, QueueType DEF ReadQueue
    <2> QED
      BY <1>3, <2>1 DEF ReadQueue, TypeOK, Views
  <1>4. CASE ReadDeluge(p)
    <2>1. pass' \in [Passes -> PassType]
      BY <1>1, <1>4, QueueType, ReadDelugeJobs
    <2> QED
      BY <1>4, <2>1 DEF ReadDeluge, TypeOK, Views
  <1>5. CASE End(p)
    <2>1. pass' \in [Passes -> PassType]
      BY <1>1, <1>5, QueueType DEF End, Idle
    <2> QED
      BY <1>5, <2>1 DEF End, TypeOK, Views
  <1>6. CASE Drop(p)
    <2>1. PICK j \in pass[p].jobs :
            DropLane(p, j) \/ DropRecord(p, j) \/ DropClient(p, j) \/ Skip(p, j)
      BY <1>6 DEF Drop
    <2>2. j \in Jobs /\ j.item \in Releases
      BY <1>1 DEF Jobs
    <2>3. [j EXCEPT !.how = "lane"] \in Jobs
      BY <2>2 DEF Jobs
    <2>4. pass' \in [Passes -> PassType]
      BY <1>1, <2>1, <2>3 DEF DropLane, DropRecord, DropClient, Skip, Done
    <2>5. tor' \in [Releases -> TorType]
      BY <1>1, <2>1, <2>2 DEF DropLane, DropRecord, DropClient, Skip, Superseded
    <2>6. records' \in Views
      BY <2>1, <2>2 DEF DropLane, DropRecord, DropClient, Skip, Unrecorded, TypeOK, Views,
         NoRecord, Full
    <2>7. dropped' \subseteq Releases /\ UNCHANGED <<imported, lock>>
      BY <2>1, <2>2 DEF DropLane, DropRecord, DropClient, Skip, TypeOK
    <2> QED
      BY <2>4, <2>5, <2>6, <2>7 DEF TypeOK, Views
  <1> QED
    BY <1>2, <1>3, <1>4, <1>5, <1>6 DEF PassStep

(* Grabs, downloads, imports and refreshes keep the types.                 *)
LEMMA EnvType ==
  ASSUME TypeOK, Env
  PROVE  TypeOK'
  <1>1. ASSUME NEW r \in Releases,
               Grab(r) \/ Throttle(r) \/ Download(r) \/ Flip(r) \/ Reap(r)
        PROVE  TypeOK'
    <2>1. tor' \in [Releases -> TorType]
      BY <1>1 DEF Grab, Throttle, Download, Flip, Reap, SetTor, TypeOK, TorType, Zero, Full
    <2> QED
      BY <1>1, <2>1 DEF Grab, Throttle, Download, Flip, Reap, SetTor, TypeOK, TorType
  <1>2. ASSUME NEW r \in Releases, Import(r)
        PROVE  TypeOK'
    BY <1>2 DEF Import, TypeOK
  <1>3. CASE Refresh
    BY <1>3, QueueType DEF Refresh, TypeOK, Views
  <1> QED
    BY <1>1, <1>2, <1>3 DEF Env

(* Every step keeps the types.                                             *)
LEMMA StepType ==
  ASSUME TypeOK, [Next]_vars
  PROVE  TypeOK'
  <1>1. CASE UNCHANGED vars
    BY <1>1 DEF vars, TypeOK
  <1> QED
    BY <1>1, PassStepType, EnvType DEF Next

-----------------------------------------------------------------------------
\* The invariant.

(* What a step of a pass's drops does, whichever job it takes.             *)
LEMMA DropStep ==
  ASSUME TypeOK, NEW p \in Passes, Drop(p)
  PROVE  \E j \in pass[p].jobs :
           /\ pass[p].pc = "drop" /\ j \in Jobs
           /\ DropLane(p, j) \/ DropRecord(p, j) \/ DropClient(p, j) \/ Skip(p, j)
           /\ \E jobs \in SUBSET Jobs :
                /\ pass' = [pass EXCEPT ![p].jobs = jobs]
                /\ \A i \in jobs : \E k \in pass[p].jobs :
                     i.item = k.item /\ i.keeper = k.keeper /\ (i.how = k.how \/ i.how = "lane")
  <1>1. PICK j \in pass[p].jobs :
          DropLane(p, j) \/ DropRecord(p, j) \/ DropClient(p, j) \/ Skip(p, j)
    BY DEF Drop
  <1>2. pass[p].pc = "drop"
    BY <1>1 DEF DropLane, DropRecord, DropClient, Skip
  <1>3. pass[p].jobs \in SUBSET Jobs
    BY DEF TypeOK
  <1>4. CASE DropRecord(p, j)
    <2> DEFINE moved == [j EXCEPT !.how = "lane"]
               jobs == (pass[p].jobs \ {j}) \cup {moved}
    <2>1. moved \in Jobs /\ moved.item = j.item /\ moved.keeper = j.keeper /\ moved.how = "lane"
      BY <1>1, <1>3 DEF Jobs
    <2>2. pass' = [pass EXCEPT ![p].jobs = jobs]
      BY <1>4 DEF DropRecord
    <2>3. jobs \in SUBSET Jobs
      BY <1>3, <2>1
    <2>4. \A i \in jobs : \E k \in pass[p].jobs :
            i.item = k.item /\ i.keeper = k.keeper /\ (i.how = k.how \/ i.how = "lane")
      BY <1>1, <2>1
    <2> HIDE DEF jobs
    <2> QED
      BY <1>1, <1>2, <1>3, <2>2, <2>3, <2>4
  <1>5. CASE DropLane(p, j) \/ DropClient(p, j) \/ Skip(p, j)
    <2>1. pass' = [pass EXCEPT ![p].jobs = pass[p].jobs \ {j}]
      BY <1>5 DEF DropLane, DropClient, Skip, Done, TypeOK
    <2>2. pass[p].jobs \ {j} \in SUBSET Jobs
      BY <1>3
    <2> QED
      BY <1>1, <1>2, <1>3, <2>1, <2>2
  <1> QED
    BY <1>1, <1>4, <1>5

(* The steps that only move a pass on, the read of the queue among them.   *)
LEMMA GoingOn ==
  ASSUME TypeOK, NEW q \in Passes,
         Start(q) \/ ReadQueue(q) \/ ReadQueueFails(q) \/ ReadDelugeFails(q)
  PROVE  \A p \in Passes :
           /\ pass'[p].jobs = pass[p].jobs
           /\ p # q => pass'[p] = pass[p]
           /\ p = q /\ ReadQueue(q) => pass'[p].view = Queue /\ pass'[p].pc = "deluge"
           /\ p = q /\ ~ ReadQueue(q) => pass'[p].pc \in {"queue", "end"}
  <1>1. CASE ReadQueue(q)
    <2>1. /\ pass'[q].jobs = pass[q].jobs /\ pass'[q].view = Queue /\ pass'[q].pc = "deluge"
          /\ \A p \in Passes : p # q => pass'[p] = pass[p]
      BY <1>1, Zenon DEF ReadQueue, TypeOK
    <2> QED
      BY <1>1, <2>1
  <1>2. CASE Start(q) \/ ReadQueueFails(q) \/ ReadDelugeFails(q)
    BY <1>2 DEF Start, ReadQueueFails, ReadDelugeFails, ReadQueue, Goto, TypeOK
  <1> QED
    BY <1>1, <1>2

(* A release that was grabbed is never again one the *arr may grab.        *)
LEMMA FreshIsLost ==
  ASSUME TypeOK, [Next]_vars, NEW r \in Releases, Fresh(r)'
  PROVE  Fresh(r)
  <1> USE DEF Fresh
  <1>1. CASE UNCHANGED vars
    BY <1>1 DEF vars
  <1>2. ASSUME NEW p \in Passes, Start(p) \/ ReadQueue(p) \/ ReadQueueFails(p) \/ ReadDeluge(p)
                                 \/ ReadDelugeFails(p) \/ End(p)
        PROVE  Fresh(r)
    BY <1>2 DEF Start, ReadQueue, ReadQueueFails, ReadDeluge, ReadDelugeFails, End
  <1>3. ASSUME NEW p \in Passes, Drop(p)
        PROVE  Fresh(r)
    <2>1. PICK j \in pass[p].jobs :
            DropLane(p, j) \/ DropRecord(p, j) \/ DropClient(p, j) \/ Skip(p, j)
      BY <1>3 DEF Drop
    <2>2. j.item \in Releases
      BY <2>1 DEF TypeOK, Jobs
    <2> QED
      BY <2>1, <2>2 DEF DropLane, DropRecord, DropClient, Skip, Superseded, Present, TypeOK
  <1>4. CASE Env
    BY <1>4 DEF Env, Grab, Throttle, Download, Flip, Reap, SetTor, Import, Refresh, Present,
       InLane, TypeOK, Zero, Full
  <1> QED
    BY <1>1, <1>2, <1>3, <1>4 DEF Next, PassStep

(* One that is gone from Deluge stays gone.                                *)
LEMMA GoneIsGone ==
  ASSUME TypeOK, [Next]_vars, NEW r \in Releases, ~ Present(r), ~ Fresh(r)
  PROVE  ~ Present(r)'
  <1> USE DEF Fresh, Present
  <1>1. CASE UNCHANGED vars
    BY <1>1 DEF vars
  <1>2. ASSUME NEW p \in Passes, Start(p) \/ ReadQueue(p) \/ ReadQueueFails(p) \/ ReadDeluge(p)
                                 \/ ReadDelugeFails(p) \/ End(p)
        PROVE  ~ Present(r)'
    BY <1>2 DEF Start, ReadQueue, ReadQueueFails, ReadDeluge, ReadDelugeFails, End
  <1>3. ASSUME NEW p \in Passes, Drop(p)
        PROVE  ~ Present(r)'
    <2>1. PICK j \in pass[p].jobs :
            DropLane(p, j) \/ DropRecord(p, j) \/ DropClient(p, j) \/ Skip(p, j)
      BY <1>3 DEF Drop
    <2>2. j.item \in Releases
      BY <2>1 DEF TypeOK, Jobs
    <2> QED
      BY <2>1, <2>2 DEF DropLane, DropRecord, DropClient, Skip, Superseded, TypeOK
  <1>4. CASE Env
    BY <1>4 DEF Env, Grab, Throttle, Download, Flip, Reap, SetTor, Import, Refresh,
       InLane, TypeOK, Zero, Full
  <1> QED
    BY <1>1, <1>2, <1>3, <1>4 DEF Next, PassStep

(* What the queue lists was grabbed.                                       *)
LEMMA ListedIsKnown ==
  ASSUME TypeOK, NEW r \in Releases, Listing[r] # NoRecord
  PROVE  Live(r) /\ ~ Fresh(r)
  BY DEF Listing, Listed, Live, Fresh

(* What was never grabbed is in no record and no view.                     *)
LEMMA StepRecords ==
  ASSUME TypeOK, RecordsKnown, [Next]_vars
  PROVE  RecordsKnown'
  <1> SUFFICES ASSUME NEW r \in Releases,
                      \/ records'[r] # NoRecord
                      \/ \E p \in Passes : pass'[p].pc = "deluge" /\ pass'[p].view[r] # NoRecord
               PROVE  ~ Fresh(r)'
    BY DEF RecordsKnown
  <1>1. CASE Fresh(r)
    <2>1. /\ records[r] = NoRecord
          /\ \A p \in Passes : pass[p].pc = "deluge" => pass[p].view[r] = NoRecord
      BY <1>1 DEF RecordsKnown
    <2>2. Listing[r] = NoRecord /\ Queue[r] = NoRecord
      BY <1>1, <2>1, ListedIsKnown DEF Queue
    <2>3. records'[r] = NoRecord
      <3>1. ASSUME NEW p \in Passes, Drop(p)
            PROVE  records'[r] = NoRecord
        <4>1. PICK j \in pass[p].jobs :
                DropLane(p, j) \/ DropRecord(p, j) \/ DropClient(p, j) \/ Skip(p, j)
          BY <3>1 DEF Drop
        <4> QED
          BY <2>1, <4>1 DEF DropLane, DropRecord, DropClient, Skip, Unrecorded, TypeOK
      <3>2. CASE Env
        BY <2>1, <2>2, <3>2 DEF Env, Grab, Throttle, Download, Flip, Reap, SetTor, Import, Refresh
      <3>3. ASSUME NEW p \in Passes, Start(p) \/ ReadQueue(p) \/ ReadQueueFails(p) \/ ReadDeluge(p)
                                     \/ ReadDelugeFails(p) \/ End(p)
            PROVE  records'[r] = NoRecord
        BY <2>1, <3>3 DEF Start, ReadQueue, ReadQueueFails, ReadDeluge, ReadDelugeFails, End
      <3> QED
        BY <2>1, <3>1, <3>2, <3>3 DEF Next, PassStep, vars
    <2>4. ASSUME NEW p \in Passes, pass'[p].pc = "deluge"
          PROVE  pass'[p].view[r] = NoRecord
      <3>1. CASE UNCHANGED pass
        BY <2>1, <2>4, <3>1
      <3>2. ASSUME NEW q \in Passes, Start(q) \/ ReadQueue(q) \/ ReadQueueFails(q)
                                     \/ ReadDelugeFails(q) \/ End(q)
            PROVE  pass'[p].view[r] = NoRecord
        BY <2>1, <2>2, <2>4, <3>2 DEF Start, ReadQueue, ReadQueueFails, ReadDelugeFails, End,
           Goto, Idle, TypeOK
      <3>3. ASSUME NEW q \in Passes, ReadDeluge(q)
            PROVE  pass'[p].view[r] = NoRecord
        BY <2>1, <2>4, <3>3, ReadDelugeJobs DEF TypeOK
      <3>4. ASSUME NEW q \in Passes, Drop(q)
            PROVE  pass'[p].view[r] = NoRecord
        BY <2>1, <2>4, <3>4, DropStep DEF TypeOK
      <3>5. Env => UNCHANGED pass
        BY DEF Env, Grab, Throttle, Download, Flip, Reap, SetTor, Import, Refresh
      <3> QED
        BY <3>1, <3>2, <3>3, <3>4, <3>5 DEF Next, PassStep, vars
    <2> QED
      BY <2>3, <2>4
  <1> QED
    BY <1>1, FreshIsLost

(* One pass at a time.                                                     *)
LEMMA StepLock ==
  ASSUME TypeOK, LockHeld, [Next]_vars
  PROVE  LockHeld'
  <1> SUFFICES ASSUME NEW p \in Passes
               PROVE  /\ pass'[p].pc # "idle" => lock' = p
                      /\ pass'[p].jobs # {} => pass'[p].pc = "drop"
    BY DEF LockHeld
  <1>1. CASE UNCHANGED vars \/ Env
    <2>1. UNCHANGED <<lock, pass>>
      BY <1>1 DEF Env, Grab, Throttle, Download, Flip, Reap, SetTor, Import, Refresh, vars
    <2> QED
      BY <2>1 DEF LockHeld
  <1>2. ASSUME NEW q \in Passes, Start(q)
        PROVE  /\ pass'[p].pc # "idle" => lock' = p
               /\ pass'[p].jobs # {} => pass'[p].pc = "drop"
    BY <1>2, DupesAssumption DEF Start, Goto, LockHeld, TypeOK
  <1>3. ASSUME NEW q \in Passes, ReadQueue(q) \/ ReadQueueFails(q) \/ ReadDelugeFails(q)
        PROVE  /\ pass'[p].pc # "idle" => lock' = p
               /\ pass'[p].jobs # {} => pass'[p].pc = "drop"
    BY <1>3, GoingOn DEF ReadQueue, ReadQueueFails, ReadDelugeFails, LockHeld
  <1>4. ASSUME NEW q \in Passes, ReadDeluge(q)
        PROVE  /\ pass'[p].pc # "idle" => lock' = p
               /\ pass'[p].jobs # {} => pass'[p].pc = "drop"
    <2>1. lock' = lock /\ pass[q].pc = "deluge"
      BY <1>4 DEF ReadDeluge
    <2> QED
      BY <1>4, <2>1, ReadDelugeJobs DEF LockHeld, TypeOK
  <1>5. ASSUME NEW q \in Passes, Drop(q)
        PROVE  /\ pass'[p].pc # "idle" => lock' = p
               /\ pass'[p].jobs # {} => pass'[p].pc = "drop"
    <2>1. lock' = lock
      BY <1>5 DEF Drop, DropLane, DropRecord, DropClient, Skip
    <2> QED
      BY <1>5, <2>1, DropStep DEF LockHeld, TypeOK
  <1>6. ASSUME NEW q \in Passes, End(q)
        PROVE  /\ pass'[p].pc # "idle" => lock' = p
               /\ pass'[p].jobs # {} => pass'[p].pc = "drop"
    <2>1. lock = q
      BY <1>6 DEF End, LockHeld
    <2>2. CASE p = q
      BY <1>6, <2>2 DEF End, Idle, TypeOK
    <2>3. CASE p # q
      <3>1. pass[p].pc = "idle" /\ pass[p].jobs = {}
        BY <2>1, <2>3 DEF LockHeld
      <3> QED
        BY <1>6, <2>3, <3>1 DEF End, TypeOK
    <2> QED
      BY <2>2, <2>3
  <1> QED
    BY <1>1, <1>2, <1>3, <1>4, <1>5, <1>6 DEF Next, PassStep

(* Where the losers of a pass come from: from what it read of Deluge, or   *)
(* from before.                                                            *)
LEMMA JobsComeFrom ==
  ASSUME TypeOK, [Next]_vars, NEW p \in Passes, NEW j \in pass'[p].jobs
  PROVE  \/ /\ ReadDeluge(p) /\ pass'[p].pc = "drop"
            /\ \E lane \in SUBSET Throttled(p), place \in Places :
                 pass'[p].jobs = JobsOf(pass[p].view, lane, place)
         \/ /\ ~ ReadDeluge(p)
            /\ \A i \in pass'[p].jobs : \E k \in pass[p].jobs :
                 i.item = k.item /\ i.keeper = k.keeper /\ (i.how = k.how \/ i.how = "lane")
  <1> DEFINE Kept == \A i \in pass'[p].jobs : \E k \in pass[p].jobs :
               i.item = k.item /\ i.keeper = k.keeper /\ (i.how = k.how \/ i.how = "lane")
  <1>1. CASE ReadDeluge(p)
    BY <1>1, ReadDelugeJobs DEF TypeOK
  <1>2. ASSUME ~ ReadDeluge(p)
        PROVE  Kept
    <2>1. CASE pass'[p].jobs = pass[p].jobs
      BY <2>1
    <2>2. CASE Drop(p)
      <3>1. PICK jobs \in SUBSET Jobs :
              /\ pass' = [pass EXCEPT ![p].jobs = jobs]
              /\ \A i \in jobs : \E k \in pass[p].jobs :
                   i.item = k.item /\ i.keeper = k.keeper /\ (i.how = k.how \/ i.how = "lane")
        BY <2>2, DropStep
      <3>2. pass'[p].jobs = jobs
        BY <3>1 DEF TypeOK
      <3> QED
        BY <3>1, <3>2
    <2>3. CASE End(p)
      <3>1. pass'[p].jobs = {}
        BY <2>3 DEF End, Idle, TypeOK
      <3> QED
        BY <3>1
    <2>4. ASSUME NEW q \in Passes,
                 Start(q) \/ ReadQueue(q) \/ ReadQueueFails(q) \/ ReadDelugeFails(q)
          PROVE  pass'[p].jobs = pass[p].jobs
      BY <2>4, GoingOn
    <2>5. ASSUME NEW q \in Passes, q # p, ReadDeluge(q) \/ End(q) \/ Drop(q)
          PROVE  pass'[p].jobs = pass[p].jobs
      <3>1. CASE ReadDeluge(q)
        BY <2>5, <3>1, ReadDelugeJobs DEF TypeOK
      <3>2. CASE End(q)
        BY <2>5, <3>2 DEF End, TypeOK
      <3>3. CASE Drop(q)
        BY <2>5, <3>3, DropStep DEF TypeOK
      <3> QED
        BY <2>5, <3>1, <3>2, <3>3
    <2>6. Env => UNCHANGED pass
      BY DEF Env, Grab, Throttle, Download, Flip, Reap, SetTor, Import, Refresh
    <2> QED
      BY <1>2, <2>1, <2>2, <2>3, <2>4, <2>5, <2>6 DEF Next, PassStep, vars
  <1> QED
    BY <1>1, <1>2

(* The losers a pass finds when it reads Deluge are sound.                 *)
LEMMA FoundAreSound ==
  ASSUME TypeOK, RecordsKnown, NEW p \in Passes, pass[p].pc = "deluge",
         NEW lane \in SUBSET Throttled(p), NEW place \in Places,
         NEW j \in JobsOf(pass[p].view, lane, place)
  PROVE  /\ j.keeper # j.item /\ Covers[j.item] \subseteq Covers[j.keeper]
         /\ j.how = "client" => ~ Present(j.item) /\ ~ Fresh(j.item)
  <1>1. lane \in SUBSET Releases /\ pass[p].view \in Views
    BY DEF Throttled, TypeOK, Views
  <1>2. /\ j \in Jobs /\ j.keeper # j.item
        /\ Covers[j.item] \subseteq Covers[j.keeper]
        /\ j.how = How(pass[p].view, j.item)
    BY <1>1, LosersAreCovered
  <1>3. ASSUME j.how = "client"
        PROVE  ~ Present(j.item) /\ ~ Fresh(j.item)
    <2>1. j.item \in Queued(pass[p].view) /\ ~ Present(j.item)
      BY <1>2, <1>3 DEF How
    <2> QED
      BY <2>1 DEF Queued, RecordsKnown
  <1> QED
    BY <1>2, <1>3

(* The losers stay sound.                                                  *)
LEMMA StepJobs ==
  ASSUME TypeOK, RecordsKnown, JobsSound, [Next]_vars
  PROVE  JobsSound'
  <1> SUFFICES ASSUME NEW p \in Passes, NEW j \in pass'[p].jobs
               PROVE  /\ j.keeper # j.item /\ Covers[j.item] \subseteq Covers[j.keeper]
                      /\ j.how = "client" => ~ Present(j.item)' /\ ~ Fresh(j.item)'
    BY DEF JobsSound
  <1>1. j.item \in Releases
    BY StepType DEF TypeOK, Jobs
  <1>2. /\ j.keeper # j.item /\ Covers[j.item] \subseteq Covers[j.keeper]
        /\ j.how = "client" => ~ Present(j.item) /\ ~ Fresh(j.item)
    <2>1. CASE ReadDeluge(p)
      <3>1. PICK lane \in SUBSET Throttled(p), place \in Places :
              pass'[p].jobs = JobsOf(pass[p].view, lane, place)
        BY <2>1, JobsComeFrom
      <3>2. pass[p].pc = "deluge"
        BY <2>1 DEF ReadDeluge
      <3> QED
        BY <3>1, <3>2, FoundAreSound
    <2>2. CASE ~ ReadDeluge(p)
      <3>1. PICK k \in pass[p].jobs :
              j.item = k.item /\ j.keeper = k.keeper /\ (j.how = k.how \/ j.how = "lane")
        BY <2>2, JobsComeFrom
      <3> QED
        BY <3>1 DEF JobsSound
    <2> QED
      BY <2>1, <2>2
  <1> QED
    BY <1>1, <1>2, FreshIsLost, GoneIsGone

(* Only a pass that drops it makes a live release one that is not.         *)
LEMMA OnlyDropsKill ==
  ASSUME TypeOK, JobsSound, [Next]_vars, NEW r \in Releases, Live(r), ~ Live(r)'
  PROVE  \E p \in Passes : \E j \in pass[p].jobs :
           /\ pass[p].pc = "drop" /\ j.item = r
           /\ DropLane(p, j) \/ DropRecord(p, j)
  <1>1. ~ UNCHANGED <<tor, dropped>>
    BY DEF Live
  <1>2. ASSUME NEW p \in Passes, Drop(p)
        PROVE  \E j \in pass[p].jobs :
                 /\ pass[p].pc = "drop" /\ j.item = r
                 /\ DropLane(p, j) \/ DropRecord(p, j)
    <2>1. PICK j \in pass[p].jobs :
            /\ pass[p].pc = "drop" /\ j \in Jobs
            /\ DropLane(p, j) \/ DropRecord(p, j) \/ DropClient(p, j) \/ Skip(p, j)
      BY <1>2, DropStep
    <2>2. j.item = r
      <3>1. ASSUME j.item # r
            PROVE  tor'[r] = tor[r] /\ (r \in dropped' => r \in dropped)
        BY <2>1, <3>1 DEF DropLane, DropRecord, DropClient, Skip, Superseded, TypeOK, Jobs
      <3> QED
        BY <3>1 DEF Live
    <2>3. ~ Skip(p, j)
      BY <1>1 DEF Skip
    <2>4. ~ DropClient(p, j)
      <3>1. Present(r)
        BY DEF Live, Present
      <3> QED
        BY <2>2, <3>1 DEF DropClient, JobsSound
    <2> QED
      BY <2>1, <2>2, <2>3, <2>4
  <1>3. ~ Env
    BY DEF Env, Grab, Throttle, Download, Flip, Reap, SetTor, Import, Refresh, Live, Present,
       InLane, TypeOK
  <1>4. ASSUME NEW p \in Passes
        PROVE  ~ (Start(p) \/ ReadQueue(p) \/ ReadQueueFails(p) \/ ReadDeluge(p)
                   \/ ReadDelugeFails(p) \/ End(p))
    BY <1>1 DEF Start, ReadQueue, ReadQueueFails, ReadDeluge, ReadDelugeFails, End
  <1> QED
    BY <1>1, <1>2, <1>3, <1>4 DEF Next, PassStep, vars

(* In the settled world every candidate of a pass is live.                 *)
LEMMA CandidatesLive ==
  ASSUME TypeOK, LockHeld, Settled, ~ KeeperGate, ~ QueueLag, ~ RequestsFail,
         NEW p \in Passes, pass[p].pc = "deluge", NEW lane \in SUBSET Throttled(p),
         NEW r \in Candidates(pass[p].view, lane)
  PROVE  Live(r)
  <1>1. r \in Releases
    BY DEF Candidates, Queued, Throttled
  <1>2. CASE r \in Queued(pass[p].view)
    BY <1>2 DEF Queued, Settled
  <1>3. CASE r \in lane
    <2>1. tor[r].label = "upgrade"
      BY <1>3 DEF Throttled, InLane
    <2>2. ASSUME r \in dropped
          PROVE  FALSE
      <3>1. PICK q \in Passes : pass[q].jobs # {}
        BY <2>1, <2>2 DEF Settled
      <3>2. lock = q /\ lock = p /\ pass[q].pc = "drop"
        BY <3>1 DEF LockHeld
      <3> QED
        BY <3>2
    <2> QED
      BY <2>1, <2>2 DEF Live
  <1> QED
    BY <1>2, <1>3 DEF Candidates

(* The world stays settled.                                                *)
LEMMA StepSettled ==
  ASSUME TypeOK, JobsSound, LockHeld, Settled, [Next]_vars
  PROVE  Settled'
  <1> SUFFICES ASSUME ~ KeeperGate, ~ QueueLag, ~ RequestsFail
               PROVE
          /\ \A p \in Passes, r \in Releases :
                pass'[p].pc = "deluge" /\ pass'[p].view[r] # NoRecord => Live(r)'
          /\ \A p \in Passes : \A j \in pass'[p].jobs :
                Live(j.keeper)' /\ \A i \in pass'[p].jobs : i.item # j.keeper
          /\ \A r \in dropped' :
                tor'[r].label \in {"base", "upgrade"} =>
                  \E p \in Passes : \E j \in pass'[p].jobs : j.item = r /\ j.how = "lane"
    BY DEF Settled
  <1>1. TypeOK' /\ LockHeld'
    BY StepType, StepLock
  <1>2. ASSUME NEW p \in Passes, NEW r \in Releases,
               pass'[p].pc = "deluge", pass'[p].view[r] # NoRecord
        PROVE  Live(r)'
    <2>1. CASE ReadQueue(p)
      <3>1. pass'[p].view = Listing
        BY <2>1, GoingOn DEF Queue
      <3>2. Live(r)
        BY <1>2, <3>1, ListedIsKnown
      <3> QED
        BY <2>1, <3>2 DEF ReadQueue, Live
    <2>2. CASE ~ ReadQueue(p)
      <3>1. pass[p].pc = "deluge" /\ pass[p].view = pass'[p].view
        <4>1. CASE UNCHANGED pass
          BY <1>2, <4>1
        <4>2. ASSUME NEW q \in Passes,
                     Start(q) \/ ReadQueue(q) \/ ReadQueueFails(q) \/ ReadDelugeFails(q)
              PROVE  pass[p].pc = "deluge" /\ pass[p].view = pass'[p].view
          BY <1>2, <2>2, <4>2, GoingOn
        <4>3. ASSUME NEW q \in Passes, ReadDeluge(q)
              PROVE  pass[p].pc = "deluge" /\ pass[p].view = pass'[p].view
          BY <1>2, <4>3, ReadDelugeJobs DEF TypeOK
        <4>4. ASSUME NEW q \in Passes, Drop(q)
              PROVE  pass[p].pc = "deluge" /\ pass[p].view = pass'[p].view
          BY <1>2, <4>4, DropStep DEF TypeOK
        <4>5. ASSUME NEW q \in Passes, End(q)
              PROVE  pass[p].pc = "deluge" /\ pass[p].view = pass'[p].view
          BY <1>2, <4>5 DEF End, Idle, TypeOK
        <4>6. Env => UNCHANGED pass
          BY DEF Env, Grab, Throttle, Download, Flip, Reap, SetTor, Import, Refresh
        <4> QED
          BY <4>1, <4>2, <4>3, <4>4, <4>5, <4>6 DEF Next, PassStep, vars
      <3>2. Live(r)
        BY <1>2, <3>1 DEF Settled
      <3>3. ASSUME NEW q \in Passes, pass[q].pc = "drop"
            PROVE  FALSE
        BY <3>1, <3>3 DEF LockHeld
      <3> QED
        BY <3>2, <3>3, OnlyDropsKill
    <2> QED
      BY <2>1, <2>2
  <1>3. ASSUME NEW p \in Passes, NEW j \in pass'[p].jobs
        PROVE  Live(j.keeper)' /\ \A i \in pass'[p].jobs : i.item # j.keeper
    <2>1. j.keeper \in Releases
      BY <1>1, <1>3 DEF TypeOK, Jobs
    <2>2. CASE ReadDeluge(p)
      <3>1. PICK lane \in SUBSET Throttled(p), place \in Places :
              pass'[p].jobs = JobsOf(pass[p].view, lane, place)
        BY <1>3, <2>2, JobsComeFrom
      <3>2. lane \in SUBSET Releases /\ pass[p].view \in Views /\ pass[p].pc = "deluge"
        BY <2>2 DEF Throttled, TypeOK, Views, ReadDeluge
      <3>3. /\ j.keeper \in Candidates(pass[p].view, lane)
            /\ \A i \in pass'[p].jobs : i.item # j.keeper
        BY <1>3, <3>1, <3>2, LosersAreCovered
      <3>4. Live(j.keeper)
        BY <3>2, <3>3, CandidatesLive
      <3> QED
        BY <2>2, <3>3, <3>4 DEF ReadDeluge, Live
    <2>3. CASE ~ ReadDeluge(p)
      <3>1. \A i \in pass'[p].jobs : \E k \in pass[p].jobs :
              i.item = k.item /\ i.keeper = k.keeper
        BY <1>3, <2>3, JobsComeFrom
      <3>2. PICK k \in pass[p].jobs : j.keeper = k.keeper
        BY <1>3, <3>1
      <3>3. Live(j.keeper) /\ \A i \in pass[p].jobs : i.item # j.keeper
        BY <3>2 DEF Settled
      <3>4. \A i \in pass'[p].jobs : i.item # j.keeper
        BY <3>1, <3>3
      <3>5. ASSUME NEW q \in Passes, NEW i \in pass[q].jobs, i.item = j.keeper
            PROVE  FALSE
        <4>1. lock = q /\ lock = p
          BY <3>2, <3>5 DEF LockHeld
        <4> QED
          BY <3>3, <3>5, <4>1
      <3> QED
        BY <2>1, <3>3, <3>4, <3>5, OnlyDropsKill
    <2> QED
      BY <2>2, <2>3
  <1>4. ASSUME NEW r \in dropped', tor'[r].label \in {"base", "upgrade"}
        PROVE  \E p \in Passes : \E j \in pass'[p].jobs : j.item = r /\ j.how = "lane"
    <2>1. r \in Releases
      BY <1>1, <1>4 DEF TypeOK
    <2>2. CASE Env
      BY <1>4, <2>1, <2>2 DEF Env, Grab, Throttle, Download, Flip, Reap, SetTor, Import, Refresh,
         Present, InLane, TypeOK, Settled
    <2>3. CASE \E q \in Passes : Drop(q)
      <3> PICK q \in Passes : Drop(q)
        BY <2>3
      <3>1. PICK j \in pass[q].jobs :
              /\ pass[q].pc = "drop" /\ j \in Jobs
              /\ DropLane(q, j) \/ DropRecord(q, j) \/ DropClient(q, j) \/ Skip(q, j)
        BY DropStep
      <3>2. CASE r = j.item
        <4>1. CASE DropLane(q, j)
          BY <1>4, <2>1, <3>2, <4>1 DEF DropLane, Superseded, Present, TypeOK
        <4>2. CASE DropClient(q, j)
          BY <1>4, <2>1, <3>2, <4>2 DEF DropClient, TypeOK
        <4>3. CASE DropRecord(q, j)
          <5>1. pass'[q].jobs = (pass[q].jobs \ {j}) \cup {[j EXCEPT !.how = "lane"]}
            BY <4>3 DEF DropRecord, TypeOK
          <5>2. [j EXCEPT !.how = "lane"].item = r /\ [j EXCEPT !.how = "lane"].how = "lane"
            BY <3>1, <3>2 DEF Jobs
          <5> QED
            BY <5>1, <5>2
        <4>4. ~ Skip(q, j)
          BY DEF Skip, Confirmed
        <4> QED
          BY <3>1, <4>1, <4>2, <4>3, <4>4
      <3>3. CASE r # j.item
        <4>1. r \in dropped /\ tor'[r] = tor[r]
          BY <1>4, <2>1, <3>1, <3>3 DEF DropLane, DropRecord, DropClient, Skip, Superseded, TypeOK
        <4> PICK p \in Passes : \E k \in pass[p].jobs : k.item = r /\ k.how = "lane"
          BY <1>4, <4>1 DEF Settled
        <4>2. PICK k \in pass[p].jobs : k.item = r /\ k.how = "lane"
          OBVIOUS
        <4>3. k \in pass'[p].jobs
          BY <3>1, <3>3, <4>2 DEF DropLane, DropRecord, DropClient, Skip, Done, TypeOK
        <4> QED
          BY <4>2, <4>3
      <3> QED
        BY <3>2, <3>3
    <2>4. ASSUME UNCHANGED <<tor, dropped>>, \A p \in Passes : pass[p].jobs \subseteq pass'[p].jobs
          PROVE  \E p \in Passes : \E j \in pass'[p].jobs : j.item = r /\ j.how = "lane"
      <3>1. PICK p \in Passes : \E j \in pass[p].jobs : j.item = r /\ j.how = "lane"
        BY <1>4, <2>4 DEF Settled
      <3> QED
        BY <2>4, <3>1
    <2>5. ASSUME NEW q \in Passes,
                 Start(q) \/ ReadQueue(q) \/ ReadQueueFails(q) \/ ReadDelugeFails(q)
          PROVE  UNCHANGED <<tor, dropped>> /\ \A p \in Passes : pass[p].jobs \subseteq pass'[p].jobs
      <3>1. UNCHANGED <<tor, dropped>>
        BY <2>5 DEF Start, ReadQueue, ReadQueueFails, ReadDelugeFails
      <3> QED
        BY <2>5, <3>1, GoingOn
    <2>6. ASSUME NEW q \in Passes, ReadDeluge(q) \/ End(q)
          PROVE  UNCHANGED <<tor, dropped>> /\ \A p \in Passes : pass[p].jobs \subseteq pass'[p].jobs
      <3>1. UNCHANGED <<tor, dropped>>
        BY <2>6 DEF ReadDeluge, End
      <3>2. pass[q].jobs = {}
        BY <2>6 DEF ReadDeluge, End, LockHeld
      <3>3. \A p \in Passes : p # q => pass'[p] = pass[p]
        <4>1. CASE ReadDeluge(q)
          BY <4>1, ReadDelugeJobs DEF TypeOK
        <4>2. CASE End(q)
          BY <4>2 DEF End, TypeOK
        <4> QED
          BY <2>6, <4>1, <4>2
      <3> QED
        BY <3>1, <3>2, <3>3
    <2>7. CASE UNCHANGED vars
      BY <2>4, <2>7 DEF vars
    <2> QED
      BY <2>2, <2>3, <2>4, <2>5, <2>6, <2>7 DEF Next, PassStep
  <1> QED
    BY <1>2, <1>3, <1>4

-----------------------------------------------------------------------------
\* The theorems.

(* Everything holds at the start: nothing was grabbed, and no pass runs.   *)
LEMMA InitInv == Init => Inv
  <1> SUFFICES ASSUME Init PROVE Inv
    OBVIOUS
  <1>1. TypeOK
    BY InitType
  <1>2. RecordsKnown
    BY DEF Init, RecordsKnown, NoView, Idle
  <1>3. JobsSound /\ LockHeld /\ Settled
    BY DEF Init, JobsSound, LockHeld, Settled, Idle
  <1> QED
    BY <1>1, <1>2, <1>3 DEF Inv

(* The duplicate passes keep their types and their invariant: nothing      *)
(* fresh is listed, every loser is covered, one pass runs at a time, and   *)
(* Sonarr's pass works in a settled world where there is one.              *)
THEOREM DupesInvariant == Spec => []Inv
  <1>1. Inv /\ [Next]_vars => Inv'
    BY StepType, StepRecords, StepJobs, StepLock, StepSettled DEF Inv
  <1> QED
    BY <1>1, InitInv, PTL DEF Spec

(* The variables of the passes keep their types: what KeeperOf chooses     *)
(* exists, and every pass holds a queue it read and releases to drop.      *)
THEOREM DupesTypeCorrect == Spec => []TypeOK
  <1>1. Inv => TypeOK
    BY DEF Inv
  <1> QED
    BY <1>1, DupesInvariant, PTL

(* Where keepers are known to stay: Radarr's pass asks for their import,   *)
(* Sonarr's needs a queue that is current and requests that do not fail.   *)
KeepersStay == KeeperGate \/ (~ QueueLag /\ ~ RequestsFail)

(* Whatever the passes drop, another release that delivers everything the  *)
(* dropped one would is still on its way, or is imported: for any set of   *)
(* releases, of episodes they cover, of scores, and of threads.            *)
THEOREM LastCopyStays == ASSUME KeepersStay PROVE Spec => KeeperStays
  <1> DEFINE Covered(r) == \E k \in Releases \ {r} :
               /\ Covers[r] \subseteq Covers[k]
               /\ Live(k)' \/ k \in imported'
             Step == \A r \in Releases : Live(r) /\ ~ Live(r)' => Covered(r)
  <1>1. Inv /\ [Next]_vars => Step
    <2> SUFFICES ASSUME Inv, [Next]_vars, NEW r \in Releases, Live(r), ~ Live(r)'
                 PROVE  Covered(r)
      OBVIOUS
    <2> USE DEF Inv
    <2>1. PICK p \in Passes : \E j \in pass[p].jobs :
            /\ pass[p].pc = "drop" /\ j.item = r
            /\ DropLane(p, j) \/ DropRecord(p, j)
      BY OnlyDropsKill
    <2>2. PICK j \in pass[p].jobs :
            /\ pass[p].pc = "drop" /\ j.item = r
            /\ DropLane(p, j) \/ DropRecord(p, j)
      BY <2>1
    <2>3. /\ j.keeper \in Releases \ {r}
          /\ Covers[r] \subseteq Covers[j.keeper]
      BY <2>2 DEF TypeOK, Jobs, JobsSound
    <2>4. CASE KeeperGate
      <3>1. j.keeper \in imported'
        BY <2>2, <2>4 DEF DropLane, DropRecord, Confirmed
      <3> QED
        BY <2>3, <3>1
    <2>5. CASE ~ KeeperGate
      <3>1. Live(j.keeper)
        BY <2>2, <2>5 DEF KeepersStay, Settled
      <3>2. ASSUME NEW q \in Passes, NEW i \in pass[q].jobs,
                   DropLane(q, i) \/ DropRecord(q, i), i.item = j.keeper
            PROVE  FALSE
        <4>1. lock = q /\ lock = p
          BY <2>2, <3>2 DEF LockHeld
        <4> QED
          BY <2>5, <3>2, <4>1 DEF KeepersStay, Settled
      <3>3. Live(j.keeper)'
        BY <2>3, <3>1, <3>2, OnlyDropsKill
      <3> QED
        BY <2>3, <3>3
    <2> QED
      BY <2>4, <2>5
  <1>2. []Inv /\ [][Next]_vars => [][Step]_vars
    BY <1>1, PTL
  <1> QED
    BY <1>2, DupesInvariant, PTL DEF Spec, KeeperStays
=============================================================================

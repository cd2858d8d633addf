------------------------- MODULE UpgradeBatchesProofs -------------------------
(***************************************************************************)
(* Proofs about UpgradeBatches, for catalogues, batches, quotas and        *)
(* windows of any size.                                                    *)
(***************************************************************************)
EXTENDS UpgradeBatches, FiniteSetTheorems, TLAPS

-----------------------------------------------------------------------------
\* The slice and the next cursor stay within the catalogue.

\* A remainder is below its divisor.
LEMMA ModRange ==
  ASSUME NEW a \in Nat, NEW n \in Nat \ {0}
  PROVE  a % n \in 0 .. n - 1
  OBVIOUS

\* Wherever the cursor was.
LEMMA AdvanceStays ==
  ASSUME NEW c \in Nat, NEW total \in Nat \ {0}
  PROVE  /\ AdvanceCursor(c, total).slice \subseteq 0 .. total - 1
         /\ AdvanceCursor(c, total).next \in 0 .. total - 1
  <1> DEFINE clamped == IF c < total THEN c ELSE total - 1
             width == IF BATCH < total THEN BATCH ELSE total
  <1>1. clamped \in Nat /\ width \in Nat
    BY UpgradeAssumption
  <1>2. AdvanceCursor(c, total) = [slice |-> {(clamped + k) % total : k \in 0 .. width - 1},
                                   next |-> (clamped + width) % total]
    BY DEF AdvanceCursor
  <1> HIDE DEF clamped, width
  <1>3. \A k \in 0 .. width - 1 : (clamped + k) \in Nat
    BY <1>1
  <1>4. \A k \in 0 .. width - 1 : (clamped + k) % total \in 0 .. total - 1
    BY <1>3, ModRange
  <1>5. (clamped + width) % total \in 0 .. total - 1
    BY <1>1, ModRange
  <1> QED
    BY <1>2, <1>4, <1>5

\* The catalogues are finite, and so is whatever is grabbed or relabelled.
LEMMA ItemsFinite == IsFiniteSet(Items) /\ \A s \in Services : Of(s) \subseteq Items
  <1>1. ASSUME NEW s \in Services
        PROVE  IsFiniteSet({s} \X (0 .. Size[s] - 1))
    <2>1. 0 \in Int /\ Size[s] - 1 \in Int
      BY UpgradeAssumption
    <2>2. IsFiniteSet(0 .. Size[s] - 1)
      BY <2>1, FS_Interval
    <2>3. IsFiniteSet({s})
      BY FS_Singleton
    <2> QED
      BY <2>2, <2>3, FS_Product
  <1>2. Items = ({"radarr"} \X (0 .. Size["radarr"] - 1)) \union ({"sonarr"} \X (0 .. Size["sonarr"] - 1))
    BY DEF Items, Services
  <1>3. IsFiniteSet(Items)
    BY <1>1, <1>2, FS_Union DEF Services
  <1> QED
    BY <1>3 DEF Of

\* Some items are finitely many.
LEMMA CountType ==
  ASSUME NEW found, found \subseteq Items
  PROVE  Cardinality(found) \in Nat
  BY ItemsFinite, FS_Subset, FS_CardinalityType

\* What a missing file loads as is a state.
LEMMA EmptyType == Empty \in State
  BY UpgradeAssumption DEF Empty, State, Cursors, Services

\* Nobody is at work, and nothing is charged.
LEMMA InitInv == Init => Inv
  <1> SUFFICES ASSUME Init PROVE Inv
    OBVIOUS
  <1>1. TypeOK
    BY EmptyType, UpgradeAssumption DEF Init, TypeOK, Actors, Services
  <1>2. HeldInLane /\ QuotaInHand
    BY DEF Init, HeldInLane, QuotaInHand, Actors, Empty
  <1> QED
    BY <1>1, <1>2 DEF Inv

\* A charge on a window that goes on, or begins.
LEMMA QuotaType ==
  ASSUME NEW s \in State, NEW n \in Nat
  PROVE  /\ [Quota(s) EXCEPT !.used = @ + n] \in State
         /\ [Quota(s) EXCEPT !.used = @ + n].used = (IF s.age >= WINDOW THEN 0 ELSE s.used) + n
  BY UpgradeAssumption DEF Quota, State

\* Moving the cursor leaves the quota alone.
LEMMA MovedType ==
  ASSUME TypeOK, NEW p \in Actors
  PROVE  Moved(p) \in State /\ Moved(p).used = st[p].used
  <1>1. st[p] \in State /\ svc[p] \in Services
    BY DEF TypeOK
  <1> DEFINE c == [st[p].cursor EXCEPT ![svc[p]] = AdvanceCursor(@, Size[svc[p]]).next]
  <1>2. st[p].cursor \in Cursors
    BY <1>1 DEF State
  <1>3. AdvanceCursor(st[p].cursor[svc[p]], Size[svc[p]]).next \in 0 .. Size[svc[p]] - 1
    BY <1>1, <1>2, AdvanceStays, UpgradeAssumption DEF Cursors
  <1>4. c \in Cursors
    BY <1>1, <1>2, <1>3, UpgradeAssumption DEF Cursors
  <1>5. Moved(p) = [st[p] EXCEPT !.cursor = c]
    BY DEF Moved
  <1> HIDE DEF c
  <1> QED
    BY <1>1, <1>4, <1>5 DEF State

-----------------------------------------------------------------------------
\* Type correctness.

\* What is saved has its type, and so has where the actor goes on.
LEMMA SaveType ==
  ASSUME TypeOK, NEW p \in Actors, NEW s \in State,
         NEW where \in {"relabel", "turn", "verify", "rest"}, Save(p, s, where)
  PROVE  /\ st' \in [Actors -> State]
         /\ then' \in [Actors -> {"relabel", "turn", "verify", "rest"}]
         /\ pc' \in [Actors -> {"rest", "purge", "drop", "remove", "load", "lane", "search",
                                "truncate", "write", "relabel", "turn", "verify"}]
  BY DEF TypeOK, Save, Goto

\* A grab keeps the types.
LEMMA GrabType ==
  ASSUME TypeOK, NEW found, found \subseteq Items, Grab(found)
  PROVE  /\ label' \in [Items -> Lane \union {"none", "base"}]
         /\ data' \in [Items -> {"queued", "slow", "done"}]
         /\ held' \in [Actors -> SUBSET Items]
         /\ grabs' \in 0 .. Grabs
  <1>1. PICK n \in Nat : n = Cardinality(found)
    BY CountType
  <1>2. grabs' \in 0 .. Grabs
    BY <1>1, UpgradeAssumption DEF Grab, TypeOK
  <1> QED
    BY <1>2 DEF Grab, TypeOK

\* A relabelling keeps the type of the labels.
LEMMA ThrottleType ==
  ASSUME TypeOK, NEW moved, Throttle(moved)
  PROVE  label' \in [Items -> Lane \union {"none", "base"}]
  BY DEF TypeOK, Throttle, OwnLane, Lane

\* To charge the quota is to save a state.
LEMMA RecordType ==
  ASSUME TypeOK, NEW p \in Actors, NEW n \in Nat, Record(p, n)
  PROVE  /\ confirmed' \in Nat
         /\ Save(p, [Quota(file) EXCEPT !.used = @ + n], IF p = "poll" THEN "turn" ELSE "verify")
  BY DEF TypeOK, Record

\* Every step keeps the types.
LEMMA StepType ==
  ASSUME TypeOK, [Next]_vars
  PROVE  TypeOK'
  <1> USE DEF client, actors
  <1>1. CASE UNCHANGED vars
    BY <1>1 DEF vars, TypeOK
  <1>2. CASE Poll
    BY <1>2 DEF Poll, TypeOK, Goto, State, Services, Actors
  <1>3. CASE Turn
    <2>1. [file EXCEPT !.next = CHOOSE s \in Services : s # svc["poll"]] \in State
      BY DEF TypeOK, State, Services
    <2> QED
      BY <1>3, <2>1, SaveType DEF Turn, TypeOK, Actors
  <1>4. CASE RunMonthly
    BY <1>4, UpgradeAssumption DEF RunMonthly, TypeOK, Goto, Actors
  <1>5. CASE NextJob
    BY <1>5 DEF NextJob, TypeOK, Goto, Actors
  <1>6. CASE VerifyLabels
    BY <1>6 DEF VerifyLabels, TypeOK, Goto, Actors, Services, Lane
  <1>7. ASSUME NEW p \in Actors, PurgeList(p)
        PROVE  TypeOK'
    BY <1>7 DEF PurgeList, Stalled, Of, TypeOK, Goto
  <1>8. ASSUME NEW p \in Actors, PurgeJudge(p) \/ PurgeRemove(p) \/ PurgeFails(p)
        PROVE  TypeOK'
    <2>1. CASE PurgeJudge(p)
      BY <2>1 DEF PurgeJudge, TypeOK, Goto
    <2>2. CASE PurgeRemove(p)
      BY <2>2 DEF PurgeRemove, Leaves, TypeOK, Goto
    <2>3. CASE PurgeFails(p)
      BY <2>3 DEF PurgeFails, TypeOK, Goto
    <2> QED
      BY <1>8, <2>1, <2>2, <2>3
  <1>9. ASSUME NEW p \in Actors, LoadState(p)
        PROVE  TypeOK'
    <2>1. {svc[p]} \X AdvanceCursor(file.cursor[svc[p]], Size[svc[p]]).slice \in SUBSET Items
      BY AdvanceStays, UpgradeAssumption DEF TypeOK, State, Cursors, Items
    <2> QED
      BY <1>9, <2>1 DEF LoadState, TypeOK, Goto
  <1>10. ASSUME NEW p \in Actors, ReadLane(p) \/ ReadLaneFails(p)
         PROVE  TypeOK'
    BY <1>10 DEF ReadLane, ReadLaneFails, TypeOK, Goto
  <1>11. ASSUME NEW p \in Actors, SearchMovies(p)
         PROVE  TypeOK'
    <2>1. PICK found \in SUBSET Grabbed(p) : Grab(found)
      BY <1>11 DEF SearchMovies
    <2>2. found \subseteq Items
      BY <2>1 DEF Grabbed, TypeOK
    <2> QED
      BY <1>11, <2>1, <2>2, MovedType, SaveType, GrabType DEF SearchMovies, TypeOK
  <1>12. ASSUME NEW p \in Actors, SearchSeries(p)
         PROVE  TypeOK'
    <2>1. CASE todo[p] = {}
      BY <1>12, <2>1, MovedType, SaveType, GrabType DEF SearchSeries, TypeOK
    <2>2. CASE todo[p] # {}
      <3>1. PICK i \in todo[p] :
              /\ todo' = [todo EXCEPT ![p] = @ \ {i}]
              /\ \E found \in SUBSET ({i} \intersect Grabbed(p)) : Grab(found)
        BY <1>12, <2>2 DEF SearchSeries
      <3>2. PICK found \in SUBSET ({i} \intersect Grabbed(p)) : Grab(found)
        BY <3>1
      <3>3. found \subseteq Items
        BY <3>2 DEF Grabbed, TypeOK
      <3> QED
        BY <1>12, <2>2, <3>1, <3>2, <3>3, GrabType DEF SearchSeries, TypeOK
    <2> QED
      BY <2>1, <2>2
  <1>13. ASSUME NEW p \in Actors, Truncate(p) \/ Write(p)
         PROVE  TypeOK'
    <2>1. CASE Truncate(p)
      BY <1>13, <2>1, EmptyType DEF Truncate, TypeOK, Goto
    <2>2. CASE Write(p)
      <3>1. file' \in State /\ st' \in [Actors -> State]
        BY <2>2, EmptyType DEF Write, TypeOK
      <3>2. svc' \in [Actors -> Services]
        BY <2>2 DEF Write, TypeOK, Services
      <3>3. pc' \in [Actors -> {"rest", "purge", "drop", "remove", "load", "lane", "search",
                               "truncate", "write", "relabel", "turn", "verify"}]
        BY <2>2 DEF Write, TypeOK, Goto
      <3> QED
        BY <2>2, <3>1, <3>2, <3>3 DEF Write, TypeOK
    <2> QED
      BY <1>13, <2>1, <2>2
  <1>14. ASSUME NEW p \in Actors, RelabelMovies(p) \/ RelabelEpisodes(p)
         PROVE  TypeOK'
    <2>1. PICK moved, n : n \in Nat /\ Throttle(moved) /\ Record(p, n)
      <3>1. \A s \in Services : \A moved \in SUBSET Upgrades(s) : Cardinality(moved) \in Nat
        BY CountType, ItemsFinite DEF Upgrades
      <3> QED
        BY <1>14, <3>1 DEF RelabelMovies, RelabelEpisodes, Services
    <2>2. [Quota(file) EXCEPT !.used = @ + n] \in State
      BY <2>1, QuotaType DEF TypeOK
    <2> QED
      BY <1>14, <2>1, <2>2, ThrottleType, RecordType, SaveType
         DEF RelabelMovies, RelabelEpisodes, TypeOK
  <1>15. ASSUME NEW i \in Items, Webhook(i) \/ Deluge(i)
         PROVE  TypeOK'
    <2>1. CASE Webhook(i)
      BY <2>1, ThrottleType DEF Webhook, TypeOK
    <2>2. CASE Deluge(i)
      BY <2>2 DEF Deluge, Leaves, TypeOK
    <2> QED
      BY <1>15, <2>1, <2>2
  <1>16. CASE Day
    <2>1. ASSUME NEW s \in State
          PROVE  [s EXCEPT !.age = IF @ < WINDOW THEN @ + 1 ELSE @] \in State
      BY UpgradeAssumption DEF State
    <2> QED
      BY <1>16, <2>1 DEF Day, TypeOK
  <1>17. CASE Restart
    BY <1>17, EmptyType, UpgradeAssumption DEF Restart, TypeOK, Actors, Services
  <1> QED
    BY <1>1, <1>2, <1>3, <1>4, <1>5, <1>6, <1>7, <1>8, <1>9, <1>10, <1>11, <1>12, <1>13, <1>14,
       <1>15, <1>16, <1>17 DEF Next, ActorStep

-----------------------------------------------------------------------------
\* A pass holds what was in the lane when it loaded its state.

\* A pass on its way keeps its place, and what it still holds stays in the lane.
Keeps(q) ==
  pc'[q] \in {"lane", "search"} =>
    /\ pc[q] = pc'[q] /\ svc'[q] = svc[q] /\ todo'[q] \subseteq todo[q]
    /\ held'[q] \subseteq held[q]
    /\ \A i \in held'[q] : label[i] \in Lane => label'[i] \in Lane

\* Those keep HeldInLane.
LEMMA LaneKept ==
  ASSUME TypeOK, HeldInLane, \A q \in Actors : Keeps(q)
  PROVE  HeldInLane'
  BY DEF TypeOK, HeldInLane, Of, Keeps

\* Of the actors only the one that steps goes anywhere.
LEMMA Stays ==
  ASSUME TypeOK, NEW p \in Actors, ActorStep(p), NEW q \in Actors, q # p
  PROVE  pc'[q] = pc[q] /\ svc'[q] = svc[q] /\ todo'[q] = todo[q]
  BY DEF TypeOK, ActorStep, PurgeList, PurgeJudge, PurgeRemove, PurgeFails, LoadState,
     ReadLane, ReadLaneFails,
     SearchMovies, SearchSeries, Truncate, Write, RelabelMovies, RelabelEpisodes, Record, Save, Goto

\* A relabelling takes nothing out of the lanes.
LEMMA ThrottleKeeps ==
  ASSUME TypeOK, NEW moved, Throttle(moved), NEW i \in Items, label[i] \in Lane
  PROVE  label'[i] \in Lane
  BY DEF TypeOK, Throttle, OwnLane, Lane

\* A torrent that leaves, and one that is grabbed, is held no longer.
LEMMA LeavesKeeps ==
  ASSUME TypeOK, NEW i \in Items, Leaves(i), NEW q \in Actors
  PROVE  /\ held'[q] \subseteq held[q]
         /\ \A k \in held'[q] : label[k] \in Lane => label'[k] \in Lane
  BY DEF TypeOK, Leaves

\* What is grabbed was in no lane.
LEMMA GrabKeeps ==
  ASSUME TypeOK, NEW found, Grab(found), NEW q \in Actors
  PROVE  /\ held'[q] \subseteq held[q]
         /\ \A k \in held'[q] : label[k] \in Lane => label'[k] \in Lane
  <1>1. held'[q] \subseteq held[q] \ found
    BY DEF TypeOK, Grab
  <1> QED
    BY <1>1 DEF TypeOK, Grab

\* The steps of the actors keep HeldInLane.
LEMMA ActorHeld ==
  ASSUME TypeOK, HeldInLane, NEW p \in Actors, ActorStep(p)
  PROVE  HeldInLane'
  <1> DEFINE Still(q) == /\ held'[q] \subseteq held[q]
                         /\ \A i \in held'[q] : label[i] \in Lane => label'[i] \in Lane
  <1>1. \A q \in Actors : q # p => Still(q)
    <2> SUFFICES ASSUME NEW q \in Actors, q # p PROVE Still(q)
      OBVIOUS
    <2>1. CASE UNCHANGED <<held, label>>
      BY <2>1
    <2>2. CASE PurgeRemove(p)
      BY <2>2, LeavesKeeps DEF PurgeRemove, TypeOK
    <2>3. CASE LoadState(p) \/ ReadLaneFails(p)
      BY <2>3 DEF LoadState, ReadLaneFails, client, TypeOK
    <2>4. CASE SearchMovies(p) \/ SearchSeries(p)
      <3>1. PICK found : Grab(found)
        BY <2>4 DEF SearchMovies, SearchSeries
      <3> QED
        BY <3>1, GrabKeeps
    <2>5. CASE RelabelMovies(p) \/ RelabelEpisodes(p)
      <3>1. held' = held /\ \E moved : Throttle(moved)
        BY <2>5 DEF RelabelMovies, RelabelEpisodes
      <3> QED
        BY <3>1, ThrottleKeeps DEF TypeOK
    <2> QED
      BY <2>1, <2>2, <2>3, <2>4, <2>5
         DEF ActorStep, PurgeList, PurgeJudge, PurgeFails, ReadLane, Truncate, Write, client
  <1> HIDE DEF Still
  <1>2. \A q \in Actors : q # p => Keeps(q)
    BY <1>1, Stays DEF Keeps, Still
  <1>3. CASE LoadState(p)
    <2>1. /\ pc'[p] = "lane" /\ todo'[p] \subseteq Of(svc[p]) /\ svc' = svc /\ label' = label
          /\ \A i \in held'[p] : label[i] \in Lane
      <3>1. {svc[p]} \X AdvanceCursor(file.cursor[svc[p]], Size[svc[p]]).slice \subseteq Of(svc[p])
        BY AdvanceStays, UpgradeAssumption DEF TypeOK, State, Cursors, Items, Of
      <3> QED
        BY <1>3, <3>1 DEF LoadState, Goto, TypeOK, client
    <2> QED
      BY <1>2, <2>1 DEF HeldInLane, Keeps, TypeOK
  <1>4. CASE ReadLane(p)
    <2>1. /\ pc'[p] = "search" /\ todo'[p] = todo[p] \ InLane(svc[p]) /\ pc[p] = "lane"
          /\ svc' = svc /\ label' = label /\ held' = held
      BY <1>4 DEF ReadLane, Goto, TypeOK, client
    <2>2. todo'[p] \intersect held'[p] = {}
      BY <2>1 DEF HeldInLane, InLane, Of
    <2>3. \A i \in held'[p] : label'[i] \in Lane
      BY <2>1 DEF HeldInLane
    <2> QED
      BY <1>2, <2>1, <2>2, <2>3 DEF HeldInLane, Keeps, TypeOK
  <1>5. CASE SearchMovies(p) \/ SearchSeries(p)
    <2>1. PICK found : Grab(found)
      BY <1>5 DEF SearchMovies, SearchSeries
    <2>2. svc' = svc /\ todo'[p] \subseteq todo[p] /\ pc'[p] \in {"search", "truncate"} /\ pc[p] = "search"
      BY <1>5 DEF SearchMovies, SearchSeries, Save, Goto, TypeOK
    <2>3. Keeps(p)
      BY <2>1, <2>2, GrabKeeps DEF Keeps
    <2> QED
      BY <1>2, <2>3, LaneKept
  <1>6. CASE ~ (LoadState(p) \/ ReadLane(p) \/ SearchMovies(p) \/ SearchSeries(p))
    <2>1. pc'[p] \notin {"lane", "search"}
      BY <1>6 DEF ActorStep, PurgeList, PurgeJudge, PurgeRemove, PurgeFails, ReadLaneFails,
         Truncate, Write, RelabelMovies,
         RelabelEpisodes, Record, Save, Goto, TypeOK
    <2> QED
      BY <1>2, <2>1, LaneKept DEF Keeps
  <1> QED
    BY <1>3, <1>4, <1>5, <1>6

\* Every step keeps HeldInLane.
LEMMA StepHeld ==
  ASSUME TypeOK, HeldInLane, [Next]_vars
  PROVE  HeldInLane'
  <1>1. CASE UNCHANGED vars
    BY <1>1 DEF vars, actors, client, HeldInLane, Of
  <1>2. CASE \E p \in Actors : ActorStep(p)
    BY <1>2, ActorHeld
  <1>3. SUFFICES ASSUME NEW q \in Actors, ~ UNCHANGED vars, ~ \E p \in Actors : ActorStep(p)
                 PROVE  Keeps(q)
    BY <1>1, <1>2, LaneKept
  <1>4. CASE Poll \/ Turn \/ RunMonthly \/ NextJob
    <2>1. /\ UNCHANGED <<label, held, todo>>
          /\ \E p \in Actors : \E where \in {"purge", "truncate"} :
               /\ pc' = [pc EXCEPT ![p] = where]
               /\ svc' = [svc EXCEPT ![p] = svc'[p]]
      BY <1>4 DEF Poll, Turn, RunMonthly, NextJob, Save, Goto, Actors, client, TypeOK
    <2> QED
      BY <2>1 DEF Keeps, TypeOK
  <1>5. CASE VerifyLabels
    <2>1. /\ UNCHANGED <<held, todo>> /\ pc' = [pc EXCEPT !["manual"] = "rest"]
          /\ svc' = [svc EXCEPT !["manual"] = "radarr"]
      BY <1>5 DEF VerifyLabels, Goto
    <2>2. \A i \in Items : label[i] \in Lane => label'[i] \in Lane
      BY <1>5 DEF VerifyLabels, Lane, TypeOK
    <2> QED
      BY <2>1, <2>2 DEF Keeps, TypeOK
  <1>6. ASSUME NEW i \in Items, Webhook(i)
        PROVE  Keeps(q)
    BY <1>6, ThrottleKeeps DEF Webhook, actors, Keeps, TypeOK
  <1>7. ASSUME NEW i \in Items, Deluge(i)
        PROVE  Keeps(q)
    <2>1. UNCHANGED <<pc, svc, todo>> /\ (UNCHANGED <<label, held>> \/ Leaves(i))
      BY <1>7 DEF Deluge
    <2>2. CASE UNCHANGED <<label, held>>
      BY <2>1, <2>2 DEF Keeps, TypeOK
    <2>3. CASE Leaves(i)
      BY <2>1, <2>3, LeavesKeeps DEF Keeps
    <2> QED
      BY <2>1, <2>2, <2>3
  <1>8. CASE Day
    BY <1>8 DEF Day, client, Keeps
  <1>9. CASE Restart
    BY <1>9 DEF Restart, Keeps
  <1> QED
    BY <1>3, <1>4, <1>5, <1>6, <1>7, <1>8, <1>9 DEF Next

-----------------------------------------------------------------------------
\* The quota of the window, as long as only the scheduler runs.

\* Where the quota is in the scheduler's hands, and where it is in the file.
Charged ==
  /\ pc["manual"] = "rest"
  /\ pc["poll"] \in {"lane", "search", "truncate", "write"} => st["poll"].used = confirmed
  /\ pc["poll"] \notin {"truncate", "write"} => file.used = confirmed

\* Every step keeps the quota in hand.
LEMMA StepQuota ==
  ASSUME TypeOK, QuotaInHand, [Next]_vars
  PROVE  QuotaInHand'
  <1> SUFFICES ASSUME manuals' = 0, crashes' = 0
               PROVE  Charged'
    BY DEF QuotaInHand, Charged
  <1>1. manuals = 0 /\ crashes = 0 /\ ~ RunMonthly /\ ~ Restart
    <2>1. ~ RunMonthly
      BY DEF RunMonthly, TypeOK
    <2>2. ~ Restart
      BY DEF Restart, TypeOK
    <2>3. UNCHANGED <<manuals, crashes>>
      BY <2>1, <2>2 DEF Next, vars, ActorStep, Poll, Turn, NextJob, VerifyLabels, PurgeList,
         PurgeJudge, PurgeRemove, PurgeFails, LoadState, ReadLane, ReadLaneFails, SearchMovies, SearchSeries, Truncate,
         Write, RelabelMovies, RelabelEpisodes, Webhook, Deluge, Day
    <2> QED
      BY <2>1, <2>2, <2>3
  <1>2. Charged
    BY <1>1 DEF QuotaInHand, Charged
  <1>3. CASE UNCHANGED vars
    BY <1>2, <1>3 DEF vars, actors, client, Charged
  <1>4. CASE Poll \/ Turn
    BY <1>2, <1>4 DEF Poll, Turn, Save, Goto, Charged, TypeOK, State, Actors
  <1>5. ~ NextJob /\ ~ VerifyLabels
    BY <1>2 DEF NextJob, VerifyLabels, Charged
  <1>6. ASSUME NEW i \in Items, Webhook(i) \/ Deluge(i)
        PROVE  Charged'
    BY <1>2, <1>6 DEF Webhook, Deluge, actors, Charged
  <1>7. CASE Day
    BY <1>2, <1>7 DEF Day, Charged, TypeOK, State, Actors
  <1>8. ASSUME NEW p \in Actors, ActorStep(p)
        PROVE  Charged'
    <2>1. p = "poll"
      BY <1>2, <1>8 DEF Charged, Actors, ActorStep, PurgeList, PurgeJudge, PurgeRemove,
         PurgeFails, LoadState, ReadLane,
         ReadLaneFails, SearchMovies, SearchSeries, Truncate, Write, RelabelMovies, RelabelEpisodes
    <2>2. CASE PurgeList(p) \/ PurgeJudge(p) \/ PurgeRemove(p) \/ PurgeFails(p)
              \/ ReadLane(p) \/ ReadLaneFails(p)
      <3>1. UNCHANGED <<file, st, confirmed>> /\ pc'["manual"] = pc["manual"]
        <4>1. UNCHANGED <<file, st, confirmed>>
          BY <2>2 DEF PurgeList, PurgeJudge, PurgeRemove, PurgeFails, ReadLane, ReadLaneFails
        <4>2. pc'["manual"] = pc["manual"]
          BY <2>1, <2>2 DEF PurgeList, PurgeJudge, PurgeRemove, PurgeFails, ReadLane,
             ReadLaneFails, Goto, TypeOK, Actors
        <4> QED
          BY <4>1, <4>2
      <3>2. /\ pc["poll"] \in {"purge", "drop", "remove", "lane"}
            /\ pc'["poll"] \in {"drop", "remove", "load", "search", "relabel"}
            /\ pc'["poll"] = "search" => pc["poll"] = "lane"
        BY <2>1, <2>2 DEF PurgeList, PurgeJudge, PurgeRemove, PurgeFails, ReadLane,
           ReadLaneFails, Goto, TypeOK, Actors
      <3> QED
        BY <1>2, <3>1, <3>2 DEF Charged
    <2>3. CASE LoadState(p)
      BY <1>2, <2>1, <2>3 DEF LoadState, Goto, client, Charged, TypeOK
    <2>4. CASE SearchMovies(p) \/ SearchSeries(p)
      <3>1. UNCHANGED <<file, confirmed>> /\ pc["poll"] = "search"
        BY <2>1, <2>4 DEF SearchMovies, SearchSeries
      <3>2. \/ UNCHANGED <<st, pc>>
            \/ Save("poll", Moved("poll"), "relabel")
        BY <2>1, <2>4 DEF SearchMovies, SearchSeries
      <3>3. CASE UNCHANGED <<st, pc>>
        BY <1>2, <3>1, <3>3 DEF Charged
      <3>4. CASE Save("poll", Moved("poll"), "relabel")
        <4>1. /\ st'["poll"] = Moved("poll") /\ pc'["poll"] = "truncate"
              /\ pc'["manual"] = pc["manual"]
          BY <3>4 DEF Save, Goto, TypeOK, Actors
        <4>2. Moved("poll").used = st["poll"].used
          BY MovedType DEF Actors
        <4> QED
          BY <1>2, <3>1, <4>1, <4>2 DEF Charged
      <3> QED
        BY <3>2, <3>3, <3>4
    <2>5. CASE Truncate(p) \/ Write(p)
      <3>1. CASE Truncate(p)
        <4>1. /\ pc["poll"] = "truncate" /\ pc'["poll"] = "write" /\ pc'["manual"] = pc["manual"]
              /\ UNCHANGED <<st, confirmed>>
          BY <2>1, <3>1 DEF Truncate, Goto, TypeOK, Actors
        <4> QED
          BY <1>2, <4>1 DEF Charged
      <3>2. CASE Write(p)
        <4>1. /\ pc["poll"] = "write" /\ pc'["manual"] = pc["manual"]
              /\ pc'["poll"] \in {"relabel", "turn", "verify", "rest"}
              /\ file' = st["poll"] /\ confirmed' = confirmed
          BY <2>1, <3>2 DEF Write, Goto, TypeOK, Actors
        <4> QED
          BY <1>2, <4>1 DEF Charged
      <3> QED
        BY <2>5, <3>1, <3>2
    <2>6. CASE RelabelMovies(p) \/ RelabelEpisodes(p)
      <3>1. PICK n \in Nat : Record(p, n)
        <4>1. \A s \in Services : \A moved \in SUBSET Upgrades(s) : Cardinality(moved) \in Nat
          BY CountType, ItemsFinite DEF Upgrades
        <4> QED
          BY <2>6, <4>1 DEF RelabelMovies, RelabelEpisodes, Services
      <3>2. [Quota(file) EXCEPT !.used = @ + n].used = confirmed'
        BY <1>2, <2>1, <2>6, <3>1, QuotaType
           DEF Record, Charged, TypeOK, State, RelabelMovies, RelabelEpisodes
      <3> QED
        BY <1>2, <2>1, <3>1, <3>2 DEF Record, Save, Goto, Charged, TypeOK
    <2> QED
      BY <1>8, <2>2, <2>3, <2>4, <2>5, <2>6 DEF ActorStep
  <1> QED
    BY <1>1, <1>3, <1>4, <1>5, <1>6, <1>7, <1>8 DEF Next

\* Types, lanes and the quota hold in every state.
THEOREM BatchesInvariant == Spec => []Inv
  <1>1. Inv /\ [Next]_vars => Inv'
    BY StepType, StepHeld, StepQuota DEF Inv
  <1> QED
    BY <1>1, InitInv, PTL DEF Spec

\* The state file and every pass keep their types: a cursor stays within its
\* catalogue, whoever loads, half-writes and saves the file in whatever order.
THEOREM BatchesTypeCorrect == Spec => []TypeOK
  <1>1. Inv => TypeOK
    BY DEF Inv
  <1> QED
    BY <1>1, BatchesInvariant, PTL

\* As long as only the scheduler runs, and no restart cuts a save, the weekly
\* quota counts every upgrade that a relabel returned.
THEOREM QuotaIsCharged == Spec => []Ledger
  <1>1. Inv => Ledger
    BY DEF Inv, QuotaInHand, Ledger
  <1> QED
    BY <1>1, BatchesInvariant, PTL

\* A search never asks for an item whose upgrade is in the lane since before
\* the pass began, whoever relabels, removes and searches beside it.
THEOREM NothingSnatchedTwice == Spec => NoResnatch
  <1> DEFINE Step == \A p \in Actors, i \in Items :
               ~ (pc[p] = "search" /\ i \in todo[p] \ todo'[p] /\ i \in held[p])
  <1>1. Inv /\ [Next]_vars => [Step]_vars
    BY DEF Inv, HeldInLane
  <1>2. []Inv /\ [][Next]_vars => [][Step]_vars
    BY <1>1, PTL
  <1> QED
    BY <1>2, BatchesInvariant, PTL DEF Spec, NoResnatch
=============================================================================

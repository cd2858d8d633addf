--------------------------- MODULE SupersedeProofs ---------------------------
(***************************************************************************)
(* Proofs about Supersede, for any torrents, threads, passes and seed      *)
(* floor.                                                                  *)
(***************************************************************************)
EXTENDS Supersede, FiniteSetTheorems, TLAPS

SupType == [pc : {"idle", "inflight", "label", "path", "uncap", "resume", "data", "move"},
            torrent : Torrents, inflight : {"none", "active", "paused"},
            doubts : SUBSET {"inflight", "data"}]

RemType == [pc : {"idle", "loop", "act"}, plan : Plans, todo : SUBSET Torrents,
            torrent : Torrents, verdict : {"keep", "erase"}]

-----------------------------------------------------------------------------
(* Type correctness.                                                       *)

(* The shared snapshot is empty or one plan.                               *)
LEMMA CacheType ==
  ASSUME NEW c, c = {} \/ \E plan \in Plans : c = {plan}
  PROVE  c \in SUBSET Plans /\ Cardinality(c) <= 1
  <1>1. CASE c = {}
    BY <1>1, FS_EmptySet
  <1>2. CASE \E plan \in Plans : c = {plan}
    <2>1. PICK plan \in Plans : c = {plan}
      BY <1>2
    <2>2. Cardinality({plan}) = 1
      BY FS_Singleton
    <2> QED
      BY <2>1, <2>2
  <1> QED
    BY <1>1, <1>2

(* What a pass reads off a snapshot is a plan.                             *)
LEMMA PlanTypes == CleanupPlan \in Plans /\ PurgePlan \in Plans
  BY DEF CleanupPlan, PurgePlan, Plans

(* The types hold at the start.                                            *)
LEMMA InitType == Init => TypeOK
  <1> SUFFICES ASSUME Init PROVE TypeOK
    OBVIOUS
  <1>1. tor \in [Torrents -> Torrent]
    <2>1. 0 \in 0..MaxSeed
      BY SupersedeAssumption
    <2>2. NewTorrent \in Torrent /\ LibrarySeed \in Torrent
      BY <2>1 DEF NewTorrent, LibrarySeed, Torrent
    <2> QED
      BY <2>2 DEF Init
  <1>2. sup \in [Superseders -> SupType]
    BY DEF Init, SupIdle, SupType
  <1>3. rem \in [Removers -> RemType]
    BY DEF Init, RemIdle, RemType, Plans
  <1> QED
    BY <1>1, <1>2, <1>3, CacheType DEF Init, TypeOK, SupType, RemType

(* Where a thread goes next is a place.                                    *)
LEMMA GotoType ==
  ASSUME TypeOK, NEW s \in Superseders, NEW next,
         next \in {"idle", "inflight", "label", "path", "uncap", "resume", "data", "move"},
         SupGoto(s, next)
  PROVE  sup' \in [Superseders -> SupType]
  BY DEF TypeOK, SupGoto, SupType, SupIdle

(* The requests of a thread leave the progress of its torrent as it is.    *)
LEMMA RequestTypes ==
  ASSUME TypeOK, NEW s \in Superseders,
         SupLabel(s) \/ SupUncap(s) \/ SupResume(s) \/ SupMove(s)
  PROVE  \E t \in Torrent : /\ tor' = [tor EXCEPT ![sup[s].torrent] = t]
                            /\ t.progress = tor[sup[s].torrent].progress
  <1> DEFINE h == sup[s].torrent
             Makes(t) == tor' = [tor EXCEPT ![h] = t] /\ t \in Torrent /\ t.progress = tor[h].progress
  <1>1. tor[h] \in Torrent /\ h \in Torrents /\ tor \in [Torrents -> Torrent]
    BY DEF TypeOK
  <1>2. tor = [tor EXCEPT ![h] = tor[h]]
    BY <1>1
  <1>3. /\ [tor[h] EXCEPT !.label = "superseded"] \in Torrent
        /\ [tor[h] EXCEPT !.capped = FALSE] \in Torrent
        /\ [tor[h] EXCEPT !.save_path = "seeding"] \in Torrent
        /\ \A state \in {"Seeding", "Downloading"} : [tor[h] EXCEPT !.state = state] \in Torrent
    BY <1>1 DEF Torrent
  <1>4. /\ [tor[h] EXCEPT !.label = "superseded"].progress = tor[h].progress
        /\ [tor[h] EXCEPT !.capped = FALSE].progress = tor[h].progress
        /\ [tor[h] EXCEPT !.save_path = "seeding"].progress = tor[h].progress
        /\ \A state : [tor[h] EXCEPT !.state = state].progress = tor[h].progress
    BY <1>1 DEF Torrent
  <1>5. \/ tor' = tor
        \/ tor' = [tor EXCEPT ![h] = [tor[h] EXCEPT !.label = "superseded"]]
        \/ tor' = [tor EXCEPT ![h] = [tor[h] EXCEPT !.capped = FALSE]]
        \/ tor' = [tor EXCEPT ![h] = [tor[h] EXCEPT !.save_path = "seeding"]]
        \/ \E state \in {"Seeding", "Downloading"} :
              tor' = [tor EXCEPT ![h] = [tor[h] EXCEPT !.state = state]]
    BY <1>1 DEF SupLabel, SupUncap, SupResume, SupMove
  <1>6. CASE tor' = tor
    BY <1>1, <1>2, <1>6
  <1>7. CASE tor' = [tor EXCEPT ![h] = [tor[h] EXCEPT !.label = "superseded"]]
    <2>1. Makes([tor[h] EXCEPT !.label = "superseded"])
      BY <1>3, <1>4, <1>7
    <2> QED
      BY <2>1
  <1>8. CASE tor' = [tor EXCEPT ![h] = [tor[h] EXCEPT !.capped = FALSE]]
    <2>1. Makes([tor[h] EXCEPT !.capped = FALSE])
      BY <1>3, <1>4, <1>8
    <2> QED
      BY <2>1
  <1>9. CASE tor' = [tor EXCEPT ![h] = [tor[h] EXCEPT !.save_path = "seeding"]]
    <2>1. Makes([tor[h] EXCEPT !.save_path = "seeding"])
      BY <1>3, <1>4, <1>9
    <2> QED
      BY <2>1
  <1>10. ASSUME NEW state \in {"Seeding", "Downloading"},
                tor' = [tor EXCEPT ![h] = [tor[h] EXCEPT !.state = state]]
         PROVE  \E t : Makes(t)
    <2>1. Makes([tor[h] EXCEPT !.state = state])
      BY <1>3, <1>4, <1>10
    <2> QED
      BY <2>1
  <1> QED
    BY <1>5, <1>6, <1>7, <1>8, <1>9, <1>10

(* The steps of a superseding thread.                                      *)
LEMMA SupTypes ==
  ASSUME TypeOK, NEW s \in Superseders, SupStep(s)
  PROVE  TypeOK'
  <1>1. ASSUME NEW h \in Torrents, SupStart(s, h)
        PROVE  TypeOK'
    BY <1>1 DEF TypeOK, SupStart, SupIdle
  <1>2. CASE SupInflight(s)
    <2>1. PICK seen \in {"none", "active", "paused"}, d \in SUBSET {"inflight", "data"} :
            sup' = [sup EXCEPT ![s].pc = "label", ![s].inflight = seen, ![s].doubts = d]
      <3>1. sup \in [Superseders -> SupType]
        BY DEF TypeOK, SupType
      <3>2. sup[s] = [sup[s] EXCEPT !.doubts = sup[s].doubts] /\ sup[s].doubts \in SUBSET {"inflight", "data"}
        BY <3>1 DEF SupType
      <3>3. CASE sup' = [sup EXCEPT ![s].pc = "label", ![s].inflight = Inflight(sup[s].torrent)]
        <4>1. sup' = [sup EXCEPT ![s].pc = "label", ![s].inflight = Inflight(sup[s].torrent),
                                ![s].doubts = sup[s].doubts]
          BY <3>1, <3>3 DEF SupType
        <4>2. Inflight(sup[s].torrent) \in {"none", "active", "paused"}
          BY DEF Inflight
        <4> QED
          BY <3>2, <4>1, <4>2
      <3> QED
        BY <1>2, <3>3 DEF SupInflight
    <2> QED
      BY <1>2, <2>1 DEF TypeOK, SupInflight
  <1>3. CASE SupPath(s)
    <2>1. PICK path : SupGoto(s, IF path = "library" THEN "idle"
                                 ELSE IF sup[s].inflight # "none" THEN "uncap" ELSE "data")
      BY <1>3 DEF SupPath
    <2>2. sup' \in [Superseders -> SupType]
      BY <2>1, GotoType
    <2> QED
      BY <1>3, <2>2 DEF TypeOK, SupPath, SupType
  <1>4. CASE SupData(s)
    <2>1. ASSUME SupGoto(s, IF HasData(sup[s].torrent) THEN "move" ELSE "idle")
          PROVE  sup' \in [Superseders -> SupType]
      BY <2>1, GotoType
    <2>2. sup' \in [Superseders -> SupType]
      BY <1>4, <2>1 DEF SupData, TypeOK, SupType
    <2> QED
      BY <1>4, <2>2 DEF TypeOK, SupData, SupType
  <1>5. CASE SupLabel(s) \/ SupUncap(s) \/ SupResume(s) \/ SupMove(s)
    <2>1. tor' \in [Torrents -> Torrent]
      BY <1>5, RequestTypes DEF TypeOK
    <2>2. sup' \in [Superseders -> SupType]
      BY <1>5, GotoType DEF SupLabel, SupUncap, SupResume, SupMove
    <2> QED
      BY <1>5, <2>1, <2>2, CacheType DEF TypeOK, SupLabel, SupUncap, SupResume, SupMove, SupType
  <1> QED
    BY <1>1, <1>2, <1>3, <1>4, <1>5 DEF SupStep

(* The steps of a removing pass.                                           *)
LEMMA PassTypes ==
  ASSUME TypeOK, CleanupStart \/ PurgeStart
  PROVE  TypeOK'
  <1>1. ASSUME NEW r \in Removers, NEW plan \in Plans, StartPass(r, plan)
        PROVE  rem' \in [Removers -> RemType]
    <2>1. Targets(plan) \in SUBSET Torrents
      BY DEF Targets
    <2> DEFINE todo == Targets(plan)
    <2> HIDE DEF todo
    <2>2. rem' = [rem EXCEPT ![r].pc = "loop", ![r].plan = plan, ![r].todo = todo]
      BY <1>1 DEF StartPass, todo
    <2>3. rem \in [Removers -> RemType] /\ todo \in SUBSET Torrents
      BY <2>1 DEF TypeOK, RemType, todo
    <2> QED
      BY <2>2, <2>3 DEF RemType
  <1>2. CASE CleanupStart
    <2>1. PICK plan \in Plans : StartPass("cleanup", plan) /\ cache' = {plan}
      BY <1>2, PlanTypes DEF CleanupStart, TypeOK
    <2> QED
      BY <1>1, <1>2, <2>1, CacheType DEF CleanupStart, TypeOK, RemType
  <1>3. CASE PurgeStart
    BY <1>1, <1>3, PlanTypes, CacheType DEF PurgeStart, TypeOK, RemType
  <1> QED
    BY <1>2, <1>3

(* The removal passes keep the types.                                      *)
LEMMA RemTypes ==
  ASSUME TypeOK, NEW r \in Removers, RemStep(r)
  PROVE  TypeOK'
  <1>1. ASSUME NEW h \in Torrents, RemSkip(r, h)
        PROVE  TypeOK'
    BY <1>1 DEF TypeOK, RemSkip, RemIsNext
  <1>2. ASSUME NEW h \in Torrents, RemDecide(r, h)
        PROVE  TypeOK'
    BY <1>2 DEF TypeOK, RemDecide, RemIsNext
  <1>3. CASE RemAct(r)
    <2>1. present' \subseteq Torrents /\ rem' \in [Removers -> RemType]
      BY <1>3 DEF TypeOK, RemAct, RemType
    <2> QED
      BY <1>3, <2>1, CacheType DEF TypeOK, RemAct, RemType
  <1>4. CASE RemFail(r)
    <2>1. PICK pc \in {"idle", "loop"}, todo \in SUBSET Torrents :
            rem' = [rem EXCEPT ![r].pc = pc, ![r].todo = todo]
      <3>1. rem \in [Removers -> RemType]
        BY DEF TypeOK, RemType
      <3>2. rem[r].todo \in SUBSET Torrents
        BY <3>1 DEF RemType
      <3>3. CASE r = "cleanup"
        BY <1>4, <3>3 DEF RemFail
      <3>4. CASE r # "cleanup"
        BY <1>4, <3>2, <3>4 DEF RemFail
      <3> QED
        BY <3>3, <3>4
    <2>2. rem \in [Removers -> RemType]
      BY DEF TypeOK, RemType
    <2>3. rem' \in [Removers -> RemType]
      BY <2>1, <2>2 DEF RemType
    <2> QED
      BY <1>4, <2>3, CacheType DEF TypeOK, RemFail, RemType
  <1>5. CASE RemEnd(r)
    <2>1. RemIdle(rem[r].torrent) \in RemType
      BY DEF TypeOK, RemIdle, RemType, Plans
    <2>2. rem' \in [Removers -> RemType]
      BY <1>5, <2>1 DEF TypeOK, RemEnd, RemType
    <2> QED
      BY <1>5, <2>2, CacheType DEF TypeOK, RemEnd, RemType
  <1> QED
    BY <1>1, <1>2, <1>3, <1>4, <1>5 DEF RemStep

(* The labels and the torrents change while the service runs.              *)
LEMMA SetTorType ==
  ASSUME TypeOK, NEW h \in Torrents, NEW t \in Torrent, tor' = [tor EXCEPT ![h] = t],
         UNCHANGED <<present, cache, sup, rem>>
  PROVE  TypeOK'
  BY DEF TypeOK

(* What a step outside the threads and passes makes of one torrent: its    *)
(* data only grows, and a cap comes with the label of the lane.            *)
Onward(h, t) ==
  /\ h \in present /\ t \in Torrent
  /\ Complete(h) => t.progress = "full"
  /\ tor[h].progress # "zero" => t.progress # "zero"
  /\ t.progress = "full" => Complete(h) \/ t.state # "Downloading"
  /\ Complete(h) /\ tor[h].state # "Downloading" => t.state # "Downloading"
  /\ t.save_path = tor[h].save_path
  /\ t.label = "superseded" => tor[h].label = "superseded" /\ t.capped = tor[h].capped

(* Deluge and the webhooks change one torrent, and only onward.            *)
LEMMA WorldGoesOn ==
  ASSUME TypeOK, NEW h \in Torrents, LabelStep(h) \/ DelugeStep(h)
  PROVE  /\ UNCHANGED <<present, cache, sup, rem>>
         /\ \E t : Onward(h, t) /\ tor' = [tor EXCEPT ![h] = t]
  <1> DEFINE Goes == \E t : Onward(h, t) /\ tor' = [tor EXCEPT ![h] = t]
  <1>0. tor[h] \in Torrent /\ UNCHANGED <<present, cache, sup, rem>> /\ h \in present
    BY DEF TypeOK, LabelStep, DelugeStep, Grab, Revive, Revert, ImportFlip, Relabel,
       Start, Halt, Download, Upload, Seed, SetTor
  <1>1. ASSUME NEW label \in {"base"}, tor' = [tor EXCEPT ![h].label = label]
        PROVE  Goes
    <2> DEFINE t == [tor[h] EXCEPT !.label = label]
    <2>1. Onward(h, t)
      BY <1>0 DEF Onward, Torrent, Complete
    <2>2. tor' = [tor EXCEPT ![h] = t]
      BY <1>1
    <2> QED
      BY <2>1, <2>2
  <1>2. CASE Revive(h) \/ Revert(h) \/ ImportFlip(h)
    BY <1>1, <1>2 DEF Revive, Revert, ImportFlip, Relabel
  <1>3. CASE Grab(h)
    <2> DEFINE t == tor'[h]
    <2>1. /\ t \in Torrent /\ t.label = "upgrade"
          /\ t.progress = tor[h].progress /\ t.state = tor[h].state
          /\ t.save_path = tor[h].save_path
      BY <1>0, <1>3 DEF Grab, Torrent, TypeOK
    <2>2. tor' = [tor EXCEPT ![h] = t]
      BY <1>3 DEF Grab, TypeOK
    <2>3. Onward(h, t)
      BY <1>0, <2>1 DEF Onward, Complete
    <2> QED
      BY <1>0, <2>2, <2>3
  <1>4. ASSUME NEW t, SetTor(h, t), Onward(h, t)
        PROVE  Goes
    BY <1>4 DEF SetTor
  <1>5. CASE Start(h)
    BY <1>0, <1>4, <1>5 DEF Start, Onward, Torrent, Complete
  <1>6. CASE Halt(h)
    BY <1>0, <1>4, <1>6 DEF Halt, Onward, Torrent, Complete
  <1>7. CASE Download(h)
    BY <1>0, <1>4, <1>7 DEF Download, Onward, Torrent, Complete
  <1>8. CASE Upload(h)
    BY <1>0, <1>4, <1>8 DEF Upload, Onward, Torrent, Complete
  <1>9. CASE Seed(h)
    BY <1>0, <1>4, <1>9, SupersedeAssumption DEF Seed, Onward, Torrent, Complete
  <1> QED
    BY <1>0, <1>2, <1>3, <1>5, <1>6, <1>7, <1>8, <1>9 DEF LabelStep, DelugeStep

(* Data that goes makes readings doubtful.                                 *)
LEMMA VanishType ==
  ASSUME TypeOK, NEW h \in Torrents, Vanish(h)
  PROVE  TypeOK'
  <1>1. tor' \in [Torrents -> Torrent]
    <2>1. tor[h] \in Torrent
      BY DEF TypeOK
    <2>3. [tor[h] EXCEPT !.progress = "zero", !.state = "Paused"] \in Torrent
      BY <2>1 DEF Torrent
    <2>2. tor' = [tor EXCEPT ![h] = [tor[h] EXCEPT !.progress = "zero", !.state = "Paused"]]
      BY DEF TypeOK, Vanish
    <2> QED
      BY <2>2, <2>3 DEF TypeOK
  <1>2. sup' \in [Superseders -> SupType]
    <2>1. \A s \in Superseders : Outdated(s, h) \in SUBSET {"inflight", "data"}
      BY DEF Outdated
    <2>2. \A s \in Superseders : [sup[s] EXCEPT !.doubts = @ \union Outdated(s, h)] \in SupType
      BY <2>1 DEF TypeOK, SupType
    <2> QED
      BY <2>2 DEF Vanish
  <1> QED
    BY <1>1, <1>2 DEF TypeOK, Vanish, SupType

(* Every step keeps the types.                                             *)
LEMMA StepType == TypeOK /\ [Next]_vars => TypeOK'
  <1> SUFFICES ASSUME TypeOK, [Next]_vars PROVE TypeOK'
    OBVIOUS
  <1>1. CASE UNCHANGED vars
    BY <1>1 DEF vars, TypeOK
  <1>2. ASSUME NEW h \in Torrents, LabelStep(h) \/ DelugeStep(h)
        PROVE  TypeOK'
    <2>1. PICK t : Onward(h, t) /\ tor' = [tor EXCEPT ![h] = t]
      BY <1>2, WorldGoesOn
    <2> QED
      BY <1>2, <2>1, WorldGoesOn, SetTorType DEF Onward
  <1>3. CASE Poll \/ Expire
    BY <1>3, CacheType, PlanTypes DEF Poll, Expire, TypeOK
  <1> QED
    BY <1>1, <1>2, <1>3, SupTypes, PassTypes, RemTypes, VanishType DEF Next

(* The torrents, the snapshot and the locals of every thread and pass keep *)
(* their types, whatever fails.                                            *)
THEOREM SupersedeTypeCorrect == Spec => []TypeOK
  BY InitType, StepType, PTL DEF Spec

-----------------------------------------------------------------------------
(* The moves, whatever fails.                                              *)

(* No thread has read anything yet.                                        *)
LEMMA InitStand == Init => ReadingsStand
  BY DEF Init, ReadingsStand, SupIdle

(* Torrents that go on, or leave, under threads that stay where they are.  *)
LEMMA WorldStand ==
  ASSUME TypeOK, ReadingsStand, UNCHANGED sup, present' \subseteq present,
         \/ UNCHANGED tor
         \/ \E h \in Torrents : \E t : Onward(h, t) /\ tor' = [tor EXCEPT ![h] = t]
  PROVE  ReadingsStand'
  <1>1. \A g \in Torrents : Complete(g) => Complete(g)'
    BY DEF TypeOK, Onward, Complete
  <1>2. \A g \in Torrents : HasData(g) => HasData(g)'
    BY DEF TypeOK, Onward, HasData
  <1> QED
    BY <1>1, <1>2 DEF TypeOK, ReadingsStand

(* What goes under a thread is in doubt from then on.                      *)
LEMMA VanishStand ==
  ASSUME TypeOK, ReadingsStand, NEW h \in Torrents, Vanish(h)
  PROVE  ReadingsStand'
  <1>1. \A s \in Superseders :
          /\ sup'[s].pc = sup[s].pc /\ sup'[s].torrent = sup[s].torrent
          /\ sup'[s].inflight = sup[s].inflight
          /\ sup'[s].doubts = sup[s].doubts \union Outdated(s, h)
    BY DEF TypeOK, Vanish
  <1>2. \A g \in Torrents \ {h} : (Complete(g)' <=> Complete(g)) /\ (HasData(g)' <=> HasData(g))
    BY DEF TypeOK, Vanish, Complete, HasData
  <1>3. \A s \in Superseders : sup[s].torrent = h /\ sup[s].inflight = "none" =>
          /\ sup[s].pc \in {"label", "path", "data", "move"} => "inflight" \in Outdated(s, h)
          /\ sup[s].pc = "move" => "data" \in Outdated(s, h)
    BY DEF Outdated
  <1>4. present' = present /\ \A s \in Superseders : sup[s].torrent \in Torrents
    BY DEF TypeOK, Vanish
  <1> QED
    BY <1>1, <1>2, <1>3, <1>4 DEF ReadingsStand

(* A thread's own steps: what it reads stands, and none of its requests    *)
(* takes data away.                                                        *)
LEMMA SupStand ==
  ASSUME TypeOK, ReadingsStand, NEW s \in Superseders, SupStep(s)
  PROVE  ReadingsStand'
  <1>1. /\ present' = present
        /\ \A r \in Superseders \ {s} : sup'[r] = sup[r]
        /\ \A g \in Torrents : tor'[g].progress = tor[g].progress
    <2>1. present' = present /\ \A r \in Superseders \ {s} : sup'[r] = sup[r]
      BY DEF TypeOK, SupStep, SupStart, SupInflight, SupLabel, SupPath, SupUncap, SupResume,
         SupData, SupMove, SupGoto
    <2>2. CASE UNCHANGED tor
      BY <2>1, <2>2
    <2>3. CASE SupLabel(s) \/ SupUncap(s) \/ SupResume(s) \/ SupMove(s)
      BY <2>1, <2>3, RequestTypes DEF TypeOK
    <2> QED
      BY <2>1, <2>2, <2>3 DEF SupStep, SupStart, SupInflight, SupPath, SupData
  <1>2. \A g \in Torrents : (Complete(g)' <=> Complete(g)) /\ (HasData(g)' <=> HasData(g))
    BY <1>1 DEF Complete, HasData
  <1>3. sup' \in [Superseders -> SupType] /\ sup \in [Superseders -> SupType]
    <2>1. TypeOK'
      BY SupTypes
    <2> QED
      BY <2>1 DEF TypeOK, SupType
  <1> DEFINE was == sup[s]
             now == sup'[s]
             Reads == /\ now.pc \in {"data", "move"} => now.inflight = "none"
                      /\ (/\ now.pc \in {"label", "path", "data", "move"}
                          /\ now.torrent \in present
                          /\ now.inflight = "none" /\ "inflight" \notin now.doubts)
                            => Complete(now.torrent)
                      /\ now.pc = "move" /\ "data" \notin now.doubts => HasData(now.torrent)
  <1>4. Reads
    <2>1. CASE \E h \in Torrents : SupStart(s, h)
      BY <1>3, <2>1 DEF SupStart, SupIdle
    <2>2. CASE SupInflight(s)
      <3>1. was \in SupType
        BY <1>3
      <3>2. now = [was EXCEPT !.pc = "label", !.inflight = Inflight(was.torrent)]
            \/ now = [was EXCEPT !.pc = "label", !.inflight = "none", !.doubts = {"inflight"}]
        BY <1>3, <2>2 DEF SupInflight
      <3>3. Inflight(was.torrent) = "none" => was.torrent \notin present \/ Complete(was.torrent)
        BY DEF Inflight
      <3> QED
        BY <3>1, <3>2, <3>3 DEF SupType
    <2>3. CASE SupLabel(s)
      BY <1>3, <2>3 DEF SupLabel, SupGoto, ReadingsStand, SupType
    <2>4. CASE SupPath(s)
      <3>1. PICK next \in {"idle", "uncap", "data"} :
              SupGoto(s, next) /\ (next = "data" => was.inflight = "none")
        BY <2>4 DEF SupPath
      <3> QED
        BY <1>3, <2>4, <3>1 DEF SupPath, SupGoto, ReadingsStand, SupType, SupIdle
    <2>5. CASE SupUncap(s) \/ SupResume(s) \/ SupMove(s)
      <3>1. now.pc \in {"resume", "idle"}
        BY <1>3, <2>5 DEF SupUncap, SupResume, SupMove, SupGoto, SupType, SupIdle
      <3> QED
        BY <3>1
    <2>6. CASE SupData(s)
      <3>1. was \in SupType /\ was.pc = "data"
        BY <1>3, <2>6 DEF SupData
      <3>2. CASE SupGoto(s, IF HasData(was.torrent) THEN "move" ELSE "idle")
        <4>1. CASE HasData(was.torrent)
          <5>1. now = [was EXCEPT !.pc = "move"]
            BY <1>3, <3>2, <4>1 DEF SupGoto
          <5> QED
            BY <3>1, <4>1, <5>1 DEF ReadingsStand, SupType
        <4>2. CASE ~HasData(was.torrent)
          <5>1. now.pc = "idle"
            BY <1>3, <3>2, <4>2 DEF SupGoto, SupIdle
          <5> QED
            BY <5>1
        <4> QED
          BY <4>1, <4>2
      <3>3. CASE sup' = [sup EXCEPT ![s].pc = "move", ![s].doubts = @ \union {"data"}]
        <4>1. now = [was EXCEPT !.pc = "move", !.doubts = was.doubts \union {"data"}]
          BY <1>3, <3>3
        <4> QED
          BY <3>1, <4>1 DEF ReadingsStand, SupType
      <3> QED
        BY <2>6, <3>2, <3>3 DEF SupData
    <2> QED
      BY <2>1, <2>2, <2>3, <2>4, <2>5, <2>6 DEF SupStep
  <1> HIDE DEF was, now
  <1>5. now.torrent \in Torrents /\ \A r \in Superseders : sup[r].torrent \in Torrents
    BY <1>3 DEF SupType, now
  <1> QED
    BY <1>1, <1>2, <1>4, <1>5 DEF ReadingsStand, now

(* Every step keeps the readings.                                          *)
LEMMA StepStand == TypeOK /\ ReadingsStand /\ [Next]_vars => ReadingsStand'
  <1> SUFFICES ASSUME TypeOK, ReadingsStand, [Next]_vars PROVE ReadingsStand'
    OBVIOUS
  <1>1. CASE UNCHANGED vars
    BY <1>1, WorldStand DEF vars
  <1>2. ASSUME NEW h \in Torrents, LabelStep(h) \/ DelugeStep(h)
        PROVE  ReadingsStand'
    BY <1>2, WorldGoesOn, WorldStand
  <1>3. ASSUME NEW r \in Removers, RemStep(r)
        PROVE  ReadingsStand'
    BY <1>3, WorldStand DEF RemStep, RemSkip, RemDecide, RemAct, RemFail, RemEnd
  <1>4. CASE CleanupStart \/ PurgeStart \/ Poll \/ Expire
    BY <1>4, WorldStand DEF CleanupStart, PurgeStart, Poll, Expire
  <1> QED
    BY <1>1, <1>2, <1>3, <1>4, SupStand, VanishStand DEF Next

(* A reading that nothing has put in doubt still holds when it is used,    *)
(* whatever fails, vanishes and happens beside the call.                   *)
THEOREM ReadingsAreSound == Spec => []ReadingsStand
  BY InitStand, StepStand, SupersedeTypeCorrect, PTL DEF Spec

(* Neither partial data nor a torrent without any is moved to SEEDING_DIR, *)
(* save on a reading that got no answer or that the loss of the data has   *)
(* outdated: also where requests fail and imports do not hardlink.         *)
THEOREM MovesAsRead == Spec => MovedAsRead
  <1> DEFINE Step == \A s \in Superseders : LET h == sup[s].torrent IN
               sup[s].pc = "move" /\ sup'[s].pc # "move" /\ h \in present =>
                 /\ tor[h].progress = "zero" => "data" \in sup[s].doubts
                 /\ tor[h].progress = "some" => "inflight" \in sup[s].doubts
  <1>1. ReadingsStand /\ [Next]_vars => [Step]_vars
    BY DEF ReadingsStand, Complete, HasData
  <1>2. []ReadingsStand /\ [][Next]_vars => [][Step]_vars
    BY <1>1, PTL
  <1> QED
    BY <1>2, ReadingsAreSound, PTL DEF Spec, MovedAsRead

-----------------------------------------------------------------------------
(* The caps, as requests succeed and imports hardlink.                     *)

Reliable == ~RequestsFail /\ Hardlinks

(* No torrent is superseded yet.                                           *)
LEMMA InitInv == Init => Inv
  <1> SUFFICES ASSUME Init PROVE Inv
    OBVIOUS
  <1>1. \A h \in Torrents : tor[h] = NewTorrent \/ tor[h] = LibrarySeed
    BY DEF Init
  <1>2. FinishedRests /\ CapsCleared
    BY <1>1 DEF Init, FinishedRests, CapsCleared, Complete, NewTorrent, LibrarySeed
  <1>3. NoDoubts
    BY DEF Init, NoDoubts, SupIdle
  <1> QED
    BY <1>2, <1>3, InitType, InitStand DEF Inv

(* Torrents that go on, or leave, under threads that stay where they are.  *)
LEMMA WorldInv ==
  ASSUME Reliable, Inv, TypeOK', UNCHANGED sup, present' \subseteq present,
         \/ UNCHANGED tor
         \/ \E h \in Torrents : \E t : Onward(h, t) /\ tor' = [tor EXCEPT ![h] = t]
  PROVE  Inv'
  <1>0. ReadingsStand' /\ NoDoubts'
    BY WorldStand DEF Inv, NoDoubts
  <1>1. CASE UNCHANGED tor
    BY <1>0, <1>1 DEF Inv, FinishedRests, CapsCleared, Complete
  <1>2. CASE \E h \in Torrents : \E t : Onward(h, t) /\ tor' = [tor EXCEPT ![h] = t]
    <2>0. PICK h \in Torrents : \E t : Onward(h, t) /\ tor' = [tor EXCEPT ![h] = t]
      BY <1>2
    <2>1. PICK t : Onward(h, t) /\ tor' = [tor EXCEPT ![h] = t]
      BY <2>0
    <2>2. tor'[h] = t /\ \A g \in Torrents \ {h} : tor'[g] = tor[g]
      BY <2>1 DEF Inv, TypeOK
    <2>3. \A g \in Torrents : Complete(g) => Complete(g)'
      BY <2>1, <2>2 DEF Reliable, Onward, Complete
    <2>4. FinishedRests'
      BY <2>1, <2>2 DEF Reliable, Inv, FinishedRests, Onward, Complete
    <2>6. CapsCleared'
      BY <2>1, <2>2, <2>3 DEF Inv, TypeOK, CapsCleared, Onward
    <2> QED
      BY <1>0, <2>4, <2>6 DEF Inv
  <1> QED
    BY <1>1, <1>2

(* A thread's step that changes no torrent.                                *)
LEMMA ReadingInv ==
  ASSUME Reliable, Inv, TypeOK', NEW s \in Superseders,
         (\E h \in Torrents : SupStart(s, h)) \/ SupInflight(s) \/ SupPath(s) \/ SupData(s)
  PROVE  Inv'
  <1>0. /\ UNCHANGED <<present, tor>>
        /\ \A r \in Superseders \ {s} : sup'[r] = sup[r]
    BY DEF Inv, TypeOK, SupStart, SupInflight, SupPath, SupData, SupGoto
  <1>1. FinishedRests' /\ ReadingsStand'
    BY <1>0, SupStand DEF Inv, FinishedRests, Complete, SupStep
  <1>2. NoDoubts'
    <2>1. sup'[s].doubts = {}
      <3>1. sup \in [Superseders -> SupType] /\ sup[s].doubts = {}
        BY DEF Inv, TypeOK, NoDoubts, SupType
      <3>2. ASSUME NEW next, SupGoto(s, next)
            PROVE  sup'[s].doubts = {}
        BY <3>1, <3>2 DEF SupGoto, SupIdle, SupType
      <3>3. CASE \E h \in Torrents : SupStart(s, h)
        BY <3>1, <3>3 DEF SupStart, SupIdle
      <3>4. CASE SupInflight(s)
        BY <3>1, <3>4 DEF Reliable, SupInflight, SupType
      <3> QED
        BY <3>2, <3>3, <3>4 DEF Reliable, SupPath, SupData
    <2> QED
      BY <1>0, <2>1 DEF Inv, NoDoubts
  <1>3. CapsCleared'
    <2> SUFFICES ASSUME NEW h \in present, tor[h].label = "superseded", tor[h].capped, ~Complete(h)
                 PROVE  \E r \in Superseders :
                          /\ sup'[r].torrent = h /\ sup'[r].pc \in {"path", "uncap"}
                          /\ sup'[r].inflight # "none"
      BY <1>0 DEF CapsCleared, Complete
    <2>1. PICK r \in Superseders :
            /\ sup[r].torrent = h /\ sup[r].pc \in {"path", "uncap"} /\ sup[r].inflight # "none"
      BY DEF Inv, CapsCleared
    <2>2. CASE r # s
      BY <1>0, <2>1, <2>2
    <2>3. CASE r = s
      <3>1. SupPath(s)
        BY <2>1, <2>3 DEF SupStart, SupInflight, SupData
      <3>2. tor[h].save_path # "library"
        BY DEF Inv, TypeOK, FinishedRests
      <3> QED
        BY <2>1, <2>3, <3>1, <3>2 DEF Reliable, Inv, TypeOK, SupPath, SupGoto, Answers, StatusInfo
    <2> QED
      BY <2>2, <2>3
  <1> QED
    BY <1>1, <1>2, <1>3 DEF Inv

(* A thread's step that changes its torrent.                               *)
LEMMA RequestInv ==
  ASSUME Reliable, Inv, TypeOK', NEW s \in Superseders,
         SupLabel(s) \/ SupUncap(s) \/ SupResume(s) \/ SupMove(s)
  PROVE  Inv'
  <1> DEFINE h == sup[s].torrent
  <1> USE DEF Reliable
  <1> DEFINE old == tor[h]
             new == tor'[h]
  <1>1. /\ present' = present /\ h \in Torrents
        /\ \A r \in Superseders \ {s} : sup'[r] = sup[r]
        /\ SupLabel(s) => /\ sup'[s].torrent = h /\ sup'[s].pc = "path"
                          /\ sup'[s].inflight = sup[s].inflight
        /\ sup'[s].doubts = {}
    BY DEF Inv, TypeOK, NoDoubts, SupLabel, SupUncap, SupResume, SupMove, SupGoto, SupIdle
  <1>2. (\A g \in Torrents \ {h} : tor'[g] = tor[g]) /\ (h \notin present => tor' = tor)
    BY <1>1 DEF Inv, TypeOK, SupLabel, SupUncap, SupResume, SupMove
  <1>3. SupLabel(s) => /\ new.state = old.state /\ new.progress = old.progress
                       /\ new.save_path = old.save_path
    BY <1>1 DEF Inv, TypeOK, SupLabel, Torrent
  <1>4. SupUncap(s) => /\ new.state = old.state /\ new.progress = old.progress
                       /\ new.save_path = old.save_path
                       /\ h \in present => ~ new.capped
    BY <1>1 DEF Inv, TypeOK, SupUncap, Torrent
  <1>5. SupResume(s) => /\ Complete(h) /\ old.state # "Downloading" => new.state # "Downloading"
                        /\ new.progress = old.progress /\ new.save_path = old.save_path
                        /\ new.label = old.label /\ new.capped = old.capped
    BY <1>1 DEF Inv, TypeOK, SupResume, Torrent, Complete
  <1>6. SupMove(s) => /\ new.state = old.state /\ new.progress = old.progress
                      /\ new.save_path \in {old.save_path, "seeding"}
                      /\ new.label = old.label /\ new.capped = old.capped
    BY <1>1 DEF Inv, TypeOK, SupMove, Torrent
  <1> HIDE DEF old, new
  <1>7. /\ new.progress = old.progress
        /\ Complete(h) /\ old.state # "Downloading" => new.state # "Downloading"
        /\ new.save_path = old.save_path \/ (SupMove(s) /\ new.save_path = "seeding")
    BY <1>3, <1>4, <1>5, <1>6
  <1>8. \A g \in Torrents : Complete(g)' <=> Complete(g)
    BY <1>7, <1>2 DEF Complete, old, new
  <1>9. FinishedRests'
    BY <1>7, <1>8, <1>2 DEF Inv, FinishedRests, old, new
  <1>10. ReadingsStand' /\ NoDoubts'
    BY <1>1, SupStand DEF Inv, NoDoubts, SupStep
  <1>12. CapsCleared'
    <2> SUFFICES ASSUME NEW g \in present,
                        tor'[g].label = "superseded", tor'[g].capped, ~Complete(g)
                 PROVE  \E r \in Superseders :
                          /\ sup'[r].torrent = g /\ sup'[r].pc \in {"path", "uncap"}
                          /\ sup'[r].inflight # "none"
      BY <1>1, <1>8 DEF CapsCleared, Inv, TypeOK
    <2>1. CASE SupLabel(s) /\ g = h
      BY <1>1, <2>1 DEF Inv, TypeOK, ReadingsStand, NoDoubts, SupLabel
    <2>2. CASE ~ (SupLabel(s) /\ g = h)
      <3>1. ~ (SupUncap(s) /\ g = h)
        BY <1>4 DEF new
      <3>2. tor[g].label = "superseded" /\ tor[g].capped
        BY <1>2, <1>5, <1>6, <2>2, <3>1 DEF Inv, TypeOK, old, new
      <3>3. PICK r \in Superseders :
              /\ sup[r].torrent = g /\ sup[r].pc \in {"path", "uncap"} /\ sup[r].inflight # "none"
        BY <3>2 DEF Inv, CapsCleared
      <3>4. r # s
        BY <2>2, <3>1, <3>3 DEF SupLabel, SupUncap, SupResume, SupMove
      <3> QED
        BY <1>1, <3>3, <3>4
    <2> QED
      BY <2>1, <2>2
  <1> QED
    BY <1>9, <1>10, <1>12 DEF Inv

(* With requests that are answered every step keeps the invariant.         *)
LEMMA StepInv == Reliable /\ Inv /\ [Next]_vars => Inv'
  <1> SUFFICES ASSUME Reliable, Inv, [Next]_vars PROVE Inv'
    OBVIOUS
  <1>1. TypeOK'
    BY StepType DEF Inv
  <1>2. CASE UNCHANGED vars
    BY <1>1, <1>2, WorldInv DEF vars
  <1>3. ASSUME NEW h \in Torrents, LabelStep(h) \/ DelugeStep(h)
        PROVE  Inv'
    BY <1>1, <1>3, WorldGoesOn, WorldInv DEF Inv
  <1>4. ASSUME NEW r \in Removers, RemStep(r)
        PROVE  Inv'
    BY <1>1, <1>4, WorldInv DEF RemStep, RemSkip, RemDecide, RemAct, RemFail, RemEnd
  <1>5. CASE CleanupStart \/ PurgeStart \/ Poll \/ Expire
    BY <1>1, <1>5, WorldInv DEF CleanupStart, PurgeStart, Poll, Expire
  <1>6. ASSUME NEW s \in Superseders, SupStep(s)
        PROVE  Inv'
    BY <1>1, <1>6, ReadingInv, RequestInv DEF SupStep
  <1>7. \A h \in Torrents : ~Vanish(h)
    BY DEF Reliable, Vanish
  <1> QED
    BY <1>2, <1>3, <1>4, <1>5, <1>6, <1>7 DEF Next

(* The invariant, where requests are answered and links can be made.       *)
LEMMA InvHolds ==
  ASSUME Reliable
  PROVE  Spec => []Inv
  <1>1. Inv /\ [Next]_vars => Inv'
    BY StepInv
  <1> QED
    BY <1>1, InitInv, PTL DEF Spec

(* However the threads that supersede a torrent, the grabs that put it     *)
(* back in the lane, and Deluge are interleaved: once no thread is at it,  *)
(* a superseded torrent that downloads has no cap.                         *)
THEOREM CapsAreCleared ==
  ASSUME Reliable
  PROVE  Spec => []SupersededUncapped
  <1>1. Inv => SupersededUncapped
    BY DEF Inv, TypeOK, FinishedRests, CapsCleared, SupersededUncapped, Superseding
  <1> QED
    BY <1>1, InvHolds, PTL
=============================================================================

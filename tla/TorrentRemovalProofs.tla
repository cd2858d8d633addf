------------------------ MODULE TorrentRemovalProofs ------------------------
(***************************************************************************)
(* Proofs about TorrentRemoval, for any set of torrents and of workers and *)
(* any seed floor.                                                         *)
(***************************************************************************)
EXTENDS TorrentRemoval, TLAPS

-----------------------------------------------------------------------------
(* The records the code passes around keep their shape.                    *)

(* NoInfo, the empty dict, is an Info, and a torrent Deluge has just added *)
(* has a Status.                                                           *)
LEMMA RecordTypes == NoInfo \in Info /\ NewTorrent \in Status
  BY FloorAssumption, SeedAssumption DEF NoInfo, Info, NewTorrent, Status, UnknownTime

(* A status is an info all of whose fields are known.                      *)
LEMMA StatusIsInfo ==
  ASSUME NEW s \in Status
  PROVE  s \in Info
  BY DEF Status, Info

(* Deluge's answer to a status request, empty for an unknown hash.         *)
LEMMA ReplyType ==
  ASSUME TypeOK, NEW h \in Torrents
  PROVE  Reply(h) \in Info
  BY RecordTypes, StatusIsInfo DEF Reply, TypeOK

(* Merging a reply under the caller's fields yields an info.               *)
LEMMA MergeType ==
  ASSUME NEW f \in Info, NEW o \in Info
  PROVE  Merge(f, o) \in Info
  BY DEF Merge, Info

(* A probe replaces the path an info holds.                                *)
LEMMA ProbeType ==
  ASSUME NEW i \in Info, NEW p \in {"library", "outside", "unknown"}
  PROVE  [i EXCEPT !.save_path = p] \in Info
  BY DEF Info

(* A call goes on at a request, or decides.                                *)
LEMMA NextRequestType ==
  ASSUME NEW j
  PROVE  NextRequest(j) \in {"fetch", "probe", "decide"}
  BY DEF NextRequest

-----------------------------------------------------------------------------
(* Type correctness of the removal path.                                   *)

(* The types hold at the start.                                            *)
LEMMA InitType == Init => TypeOK
  <1> SUFFICES ASSUME Init PROVE TypeOK
    OBVIOUS
  <1>1. \A p \in {"library", "outside"} :
          [NewTorrent EXCEPT !.save_path = p] \in Status
    BY RecordTypes DEF Status, NewTorrent
  <1>2. deluge \in [Torrents -> Status]
    BY <1>1 DEF Init
  <1> DEFINE start(h) == [torrent |-> h, remove_data |-> FALSE,
                          given |-> FALSE, info |-> NoInfo]
  <1>3. \A h \in Torrents : start(h) \in Jobs
    BY RecordTypes DEF Jobs
  <1>4. job \in [Workers -> {start(h) : h \in Torrents}]
    BY DEF Init
  <1>5. job \in [Workers -> Jobs]
    <2> HIDE DEF start
    <2> QED
      BY <1>3, <1>4
  <1> QED
    BY <1>2, <1>5 DEF Init, TypeOK

(* Every step keeps the types.                                             *)
LEMMA StepType == TypeOK /\ [Next]_vars => TypeOK'
  <1> SUFFICES ASSUME TypeOK, [Next]_vars PROVE TypeOK'
    OBVIOUS
  <1> USE DEF TypeOK
  <1>1. ASSUME NEW w \in Workers, NEW h \in Torrents, NEW rd \in BOOLEAN,
               NEW given \in BOOLEAN, NEW info \in Info,
               Begin(w, h, rd, given, info)
        PROVE  TypeOK'
    <2> DEFINE j == [torrent |-> h, remove_data |-> rd, given |-> given,
                     info |-> info]
    <2>1. j \in Jobs
      BY DEF Jobs
    <2>2. job' \in [Workers -> Jobs]
      BY <1>1, <2>1 DEF Begin
    <2>3. pc' \in [Workers ->
                    {"idle", "prefetch", "fetch", "probe", "decide"}]
      BY <1>1, NextRequestType DEF Begin
    <2>4. owed' \in [Workers -> BOOLEAN]
      BY <1>1 DEF Begin, Owes
    <2> QED
      BY <1>1, <2>2, <2>3, <2>4 DEF Begin, env
  <1>2. ASSUME NEW w \in Workers, NEW h \in Torrents, NEW rd \in BOOLEAN,
               Call(w, h, rd)
        PROVE  TypeOK'
    BY <1>1, <1>2, RecordTypes DEF Call
  <1>3. ASSUME NEW w \in Workers, NEW h \in Torrents, CallPurgeQueued(w, h)
        PROVE  TypeOK'
    <2>1. PICK st \in {deluge[h].seeding_time, UnknownTime} :
            Begin(w, h, TRUE, TRUE, [NoInfo EXCEPT !.seeding_time = st])
      BY <1>3 DEF CallPurgeQueued
    <2>2. [NoInfo EXCEPT !.seeding_time = st] \in Info
      BY RecordTypes DEF Info, Status, NoInfo
    <2> QED
      BY <1>1, <2>1, <2>2
  <1>4. ASSUME NEW w \in Workers, Prefetch(w)
        PROVE  TypeOK'
    <2> DEFINE K(f) == [job[w] EXCEPT !.given = TRUE,
                                      !.info = Merge(f, job[w].info)]
    <2>1. PICK f \in {Reply(job[w].torrent), NoInfo} :
            /\ job' = [job EXCEPT ![w] = K(f)]
            /\ pc' = [pc EXCEPT ![w] = NextRequest(K(f))]
      BY <1>4 DEF Prefetch
    <2>2. job[w] \in Jobs /\ f \in Info
      BY RecordTypes, ReplyType DEF Jobs
    <2>3. Merge(f, job[w].info) \in Info
      BY <2>2, MergeType DEF Jobs
    <2>4. K(f) \in Jobs
      BY <2>2, <2>3 DEF Jobs
    <2> HIDE DEF K
    <2> QED
      BY <1>4, <2>1, <2>4, NextRequestType DEF Prefetch, env
  <1>5. ASSUME NEW w \in Workers, Fetch(w)
        PROVE  TypeOK'
    <2>1. PICK f \in {Reply(job[w].torrent), NoInfo} :
            job' = [job EXCEPT ![w].info = f]
      BY <1>5 DEF Fetch
    <2>2. f \in Info
      BY RecordTypes, ReplyType DEF Jobs
    <2>3. job' \in [Workers -> Jobs]
      BY <2>1, <2>2 DEF Jobs
    <2> QED
      BY <1>5, <2>3 DEF Fetch, env
  <1>6. ASSUME NEW w \in Workers, Probe(w)
        PROVE  TypeOK'
    <2>1. PICK p \in {Reply(job[w].torrent).save_path, "unknown"} :
            job' = [job EXCEPT ![w].info.save_path = p]
      BY <1>6 DEF Probe
    <2>2. p \in {"library", "outside", "unknown"}
      BY ReplyType DEF Info, Jobs
    <2>3. job[w].info \in Info
      BY DEF Jobs
    <2>4. [job[w].info EXCEPT !.save_path = p] \in Info
      BY <2>2, <2>3, ProbeType
    <2>5. job' \in [Workers -> Jobs]
      BY <2>1, <2>4 DEF Jobs
    <2> QED
      BY <1>6, <2>5 DEF Probe, env
  <1>7. ASSUME NEW w \in Workers,
               Remove(w) \/ RemoveUnanswered(w) \/ Defer(w) \/ Abort(w)
        PROVE  TypeOK'
    <2>1. job[w].torrent \in Torrents
      BY DEF Jobs
    <2> QED
      BY <1>7, <2>1 DEF Remove, RemoveUnanswered, Defer, Abort, Drop, env
  <1>8. ASSUME NEW h \in Torrents, DelugeStep(h)
        PROVE  TypeOK'
    <2>1. deluge[h] \in Status
      OBVIOUS
    <2>2. deluge' \in [Torrents -> Status]
      BY <1>8, <2>1, FloorAssumption, SeedAssumption
      DEF DelugeStep, Transfer, LoseData, MoveStorage, Status
    <2> QED
      BY <1>8, <2>2 DEF DelugeStep
  <1>9. ASSUME NEW h \in Torrents, Readd(h)
        PROVE  TypeOK'
    BY <1>9, RecordTypes DEF Readd
  <1>10. CASE UNCHANGED vars
    BY <1>10 DEF vars
  <1> QED
    BY <1>2, <1>3, <1>4, <1>5, <1>6, <1>7, <1>8, <1>9, <1>10
    DEF Next, WorkerStep

(* Every reachable state is well typed: statuses, infos, calls.            *)
THEOREM TypeCorrect == Spec => []TypeOK
  BY InitType, StepType, PTL DEF Spec

-----------------------------------------------------------------------------
(* The inductive invariant.  TypeOK and LibraryFilesSurvive alone are not  *)
(* inductive: what a call read several requests ago must still be worth    *)
(* something when it acts, which is CallsStayValid.                        *)

(* CallsStayValid of one worker.                                           *)
Valid(w) ==
    LET h == job[w].torrent
        i == job[w].info
    IN  pc[w] # "idle" /\ h \in present =>
          /\ i.save_path = "outside" => deluge[h].save_path = "outside"
          /\ owed[w] =>
               /\ Owes(h)
               /\ i.seeding_time <= deluge[h].seeding_time
               /\ i.seeding_time = 0 => deluge[h].total_uploaded = "some"
               /\ i.total_uploaded = "none" => i.seeding_time > 0

(* CallsStayValid, call by call.                                           *)
LEMMA ValidAll == CallsStayValid <=> \A w \in Workers : Valid(w)
  BY DEF CallsStayValid, Valid

(* What a status reply read now gives a call stays valid, as does what it  *)
(* merges into valid fields.                                               *)
LEMMA ReadValid ==
  ASSUME TypeOK, NEW w \in Workers, Valid(w), pc[w] # "idle",
         job[w].torrent \in present,
         NEW f \in {Reply(job[w].torrent), NoInfo}
  PROVE  LET h == job[w].torrent
             i == Merge(f, job[w].info)
         IN  /\ i.save_path = "outside" => deluge[h].save_path = "outside"
             /\ owed[w] =>
                  /\ i.seeding_time <= deluge[h].seeding_time
                  /\ i.seeding_time = 0 => deluge[h].total_uploaded = "some"
                  /\ i.total_uploaded = "none" => i.seeding_time > 0
  <1>1. /\ job[w].info \in Info
        /\ deluge[job[w].torrent] \in Status
        /\ job[w].torrent \in Torrents
    BY DEF TypeOK, Jobs
  <1>2. f = deluge[job[w].torrent] \/ f = NoInfo
    BY DEF Reply
  <1> DEFINE own == job[w].info
             i == Merge(f, own)
             d == deluge[job[w].torrent]
  <1>3. i.save_path = "outside" => d.save_path = "outside"
    BY <1>1, <1>2 DEF Valid, Merge, NoInfo, Info, Status
  <1>4. i.seeding_time \in {own.seeding_time, d.seeding_time, UnknownTime}
    BY <1>1, <1>2 DEF Merge, NoInfo, Info, Status
  <1>5. i.total_uploaded \in {own.total_uploaded, d.total_uploaded, "unknown"}
    BY <1>1, <1>2 DEF Merge, NoInfo, Info, Status
  <1>6. /\ d.seeding_time \in Nat
        /\ d.total_uploaded \in {"none", "some"}
    BY <1>1, FloorAssumption, SeedAssumption DEF Status
  <1>7. ASSUME owed[w]
        PROVE  /\ i.seeding_time <= d.seeding_time
               /\ i.seeding_time = 0 => d.total_uploaded = "some"
               /\ i.total_uploaded = "none" => i.seeding_time > 0
    <2>1. /\ d.seeding_time > 0 \/ d.total_uploaded = "some"
          /\ own.seeding_time <= d.seeding_time
          /\ own.seeding_time = 0 => d.total_uploaded = "some"
          /\ own.total_uploaded = "none" => own.seeding_time > 0
      BY <1>7 DEF Valid, Owes
    <2>2. i.seeding_time <= d.seeding_time
      BY <1>4, <1>6, <2>1 DEF UnknownTime
    <2>3. i.seeding_time = 0 => d.total_uploaded = "some"
      BY <1>4, <1>6, <2>1 DEF UnknownTime
    <2>4. i.total_uploaded = "none" => i.seeding_time > 0
      <3>1. CASE own.total_uploaded = "none"
        BY <1>1, <2>1, <3>1 DEF Merge, Info, UnknownTime
      <3>2. CASE own.total_uploaded # "none" /\ i.total_uploaded = "none"
        <4>1. f = deluge[job[w].torrent] /\ d.total_uploaded = "none"
          BY <1>1, <1>2, <3>2 DEF Merge, NoInfo
        <4>2. i.seeding_time \in {own.seeding_time, d.seeding_time}
              /\ i.seeding_time # UnknownTime
          BY <1>6, <4>1 DEF Merge, UnknownTime
        <4>3. d.seeding_time > 0 /\ own.seeding_time # 0
          BY <1>6, <2>1, <4>1
        <4>4. own.seeding_time \in Nat \cup {UnknownTime}
          BY <1>1, FloorAssumption, SeedAssumption DEF Info
        <4> QED
          BY <1>6, <4>2, <4>3, <4>4 DEF UnknownTime
      <3> QED
        BY <3>1, <3>2
    <2> QED
      BY <2>2, <2>3, <2>4
  <1> QED
    BY <1>3, <1>7

(* A step of another worker that leaves Deluge's statuses alone and adds   *)
(* no torrent disturbs no call.                                            *)
LEMMA OtherValid ==
  ASSUME TypeOK, NEW w \in Workers, Valid(w),
         UNCHANGED deluge, present' \subseteq present,
         job'[w] = job[w], pc'[w] = pc[w], owed'[w] = owed[w]
  PROVE  Valid(w)'
  BY DEF Valid, Owes

(* At the start no call is in flight, and no file is erased.               *)
LEMMA InitValid == Init => LibraryFilesSurvive /\ CallsStayValid
  BY DEF Init, LibraryFilesSurvive, CallsStayValid

(* Every step keeps valid what the calls have read.                        *)
LEMMA StepValid == Inv /\ [Next]_vars => CallsStayValid'
  <1> SUFFICES ASSUME Inv, [Next]_vars, NEW v \in Workers PROVE Valid(v)'
    BY DEF CallsStayValid, Valid
  <1>0. TypeOK /\ TypeOK' /\ \A w \in Workers : Valid(w)
    BY StepType, ValidAll DEF Inv
  <1>1. ASSUME NEW w \in Workers, NEW h \in Torrents, NEW rd \in BOOLEAN,
               NEW given \in BOOLEAN, NEW st,
               \/ st = UnknownTime
               \/ /\ st = deluge[h].seeding_time
                  /\ \/ deluge[h].total_uploaded = "none" /\ st = 0
                     \/ st >= SeedFloor,
               Begin(w, h, rd, given, [NoInfo EXCEPT !.seeding_time = st])
        PROVE  Valid(v)'
    <2>1. CASE v = w
      <3>1. deluge[h] \in Status
        BY <1>0 DEF TypeOK
      <3>2. /\ job'[v] = [torrent |-> h, remove_data |-> rd,
                          given |-> given,
                          info |-> [NoInfo EXCEPT !.seeding_time = st]]
            /\ owed'[v] => Owes(h)
            /\ UNCHANGED deluge
        BY <1>0, <1>1, <2>1 DEF Begin, TypeOK, env
      <3>3. /\ job'[v].torrent = h
            /\ job'[v].info.save_path = "unknown"
            /\ job'[v].info.seeding_time = st
            /\ job'[v].info.total_uploaded = "unknown"
        BY <3>2 DEF NoInfo
      <3>4. /\ deluge[h].seeding_time \in Nat
            /\ deluge[h].total_uploaded \in {"none", "some"}
        BY <3>1, FloorAssumption, SeedAssumption DEF Status
      <3> QED
        BY <1>1, <3>2, <3>3, <3>4, FloorAssumption, SeedAssumption
        DEF Valid, Owes, UnknownTime
    <2>2. CASE v # w
      BY <1>0, <1>1, <2>2, OtherValid DEF Begin, TypeOK, env
    <2> QED
      BY <2>1, <2>2
  <1>2. ASSUME NEW w \in Workers, NEW h \in Torrents, NEW rd \in BOOLEAN,
               Call(w, h, rd)
        PROVE  Valid(v)'
    <2>1. NoInfo = [NoInfo EXCEPT !.seeding_time = UnknownTime]
      BY DEF NoInfo
    <2>2. Begin(w, h, rd, FALSE, [NoInfo EXCEPT !.seeding_time = UnknownTime])
      BY <1>2, <2>1 DEF Call
    <2> QED
      BY <1>1, <2>2
  <1>3. ASSUME NEW w \in Workers, NEW h \in Torrents, CallPurgeQueued(w, h)
        PROVE  Valid(v)'
    <2>1. PICK st \in {deluge[h].seeding_time, UnknownTime} :
            /\ \/ st \in {0, UnknownTime} /\ deluge[h].total_uploaded = "none"
               \/ st >= SeedFloor
            /\ Begin(w, h, TRUE, TRUE, [NoInfo EXCEPT !.seeding_time = st])
      BY <1>3 DEF CallPurgeQueued
    <2> QED
      BY <1>1, <2>1
  <1>4. ASSUME NEW w \in Workers, Prefetch(w)
        PROVE  Valid(v)'
    <2>1. CASE v = w
      <3>1. PICK f \in {Reply(job[w].torrent), NoInfo} :
              job' = [job EXCEPT ![w] =
                        [job[w] EXCEPT !.given = TRUE,
                                       !.info = Merge(f, job[w].info)]]
        BY <1>4 DEF Prefetch
      <3>2. /\ job'[v].torrent = job[v].torrent
            /\ job'[v].info = Merge(f, job[v].info)
        BY <1>0, <2>1, <3>1 DEF TypeOK, Jobs
      <3>3. UNCHANGED <<present, deluge, owed>> /\ pc[v] # "idle"
        BY <1>4, <2>1 DEF Prefetch, env
      <3>4. job[v].torrent \in present => Owes(job[v].torrent) \/ ~owed[v]
        BY <1>0, <3>3 DEF Valid
      <3> QED
        BY <1>0, <2>1, <3>2, <3>3, <3>4, ReadValid DEF Valid, Owes
    <2>2. CASE v # w
      BY <1>0, <1>4, <2>2, OtherValid DEF Prefetch, TypeOK, env
    <2> QED
      BY <2>1, <2>2
  <1>5. ASSUME NEW w \in Workers, Fetch(w)
        PROVE  Valid(v)'
    <2>1. CASE v = w
      <3>1. PICK f \in {Reply(job[w].torrent), NoInfo} :
              job' = [job EXCEPT ![w].info = f]
        BY <1>5 DEF Fetch
      <3>2. job'[v].torrent = job[v].torrent /\ job'[v].info = f
        BY <1>0, <2>1, <3>1 DEF TypeOK, Jobs
      <3>3. UNCHANGED <<present, deluge, owed>> /\ pc[v] # "idle"
        BY <1>5, <2>1 DEF Fetch, env
      <3>4. job[v].torrent \in present => deluge[job[v].torrent] \in Status
        BY <1>0 DEF TypeOK
      <3> QED
        BY <1>0, <2>1, <3>1, <3>2, <3>3, <3>4
        DEF Valid, Owes, Reply, NoInfo, Status, UnknownTime
    <2>2. CASE v # w
      BY <1>0, <1>5, <2>2, OtherValid DEF Fetch, TypeOK, env
    <2> QED
      BY <2>1, <2>2
  <1>6. ASSUME NEW w \in Workers, Probe(w)
        PROVE  Valid(v)'
    <2>1. CASE v = w
      <3>1. PICK p \in {Reply(job[w].torrent).save_path, "unknown"} :
              job' = [job EXCEPT ![w].info.save_path = p]
        BY <1>6 DEF Probe
      <3>2. /\ job'[v].torrent = job[v].torrent
            /\ job'[v].info.save_path = p
            /\ job'[v].info.seeding_time = job[v].info.seeding_time
            /\ job'[v].info.total_uploaded = job[v].info.total_uploaded
        BY <1>0, <2>1, <3>1 DEF TypeOK, Jobs, Info
      <3>3. UNCHANGED <<present, deluge, owed>> /\ pc[v] # "idle"
        BY <1>6, <2>1 DEF Probe, env
      <3> QED
        BY <1>0, <2>1, <3>1, <3>2, <3>3 DEF Valid, Owes, Reply
    <2>2. CASE v # w
      BY <1>0, <1>6, <2>2, OtherValid DEF Probe, TypeOK, env
    <2> QED
      BY <2>1, <2>2
  <1>7. ASSUME NEW w \in Workers,
               Remove(w) \/ RemoveUnanswered(w) \/ Defer(w) \/ Abort(w)
        PROVE  Valid(v)'
    <2>1. CASE v = w
      BY <1>0, <1>7, <2>1
      DEF Remove, RemoveUnanswered, Defer, Abort, TypeOK, Valid
    <2>2. CASE v # w
      BY <1>0, <1>7, <2>2, OtherValid
      DEF Remove, RemoveUnanswered, Defer, Abort, Drop, TypeOK, env
    <2> QED
      BY <2>1, <2>2
  <1>8. ASSUME NEW h \in Torrents, DelugeStep(h)
        PROVE  Valid(v)'
    <2>1. deluge[h] \in Status /\ job[v].info \in Info
      BY <1>0 DEF TypeOK, Jobs
    <2>2. /\ UNCHANGED <<present, pc, job, owed>>
          /\ deluge'[h].seeding_time >= deluge[h].seeding_time
          /\ deluge[h].total_uploaded = "some"
                => deluge'[h].total_uploaded = "some"
          /\ deluge[h].save_path = "outside"
                => deluge'[h].save_path = "outside"
          /\ deluge'[h].seeding_time \in Nat
          /\ \A g \in Torrents \ {h} : deluge'[g] = deluge[g]
      BY <1>0, <1>8, <2>1, FloorAssumption, SeedAssumption
      DEF DelugeStep, Transfer, LoseData, MoveStorage, TypeOK, Status
    <2>3. job[v].torrent \in Torrents /\ Valid(v)
      BY <1>0 DEF TypeOK, Jobs
    <2>4. CASE job[v].torrent # h
      BY <2>2, <2>3, <2>4 DEF Valid, Owes
    <2>5. CASE job[v].torrent = h
      BY <2>1, <2>2, <2>3, <2>5, FloorAssumption, SeedAssumption
      DEF Valid, Owes, Status, Info, UnknownTime
    <2> QED
      BY <2>4, <2>5
  <1>9. ASSUME NEW h \in Torrents, Readd(h)
        PROVE  Valid(v)'
    BY <1>0, <1>9 DEF Readd, Valid, Owes, TypeOK
  <1>10. CASE UNCHANGED vars
    BY <1>0, <1>10 DEF vars, Valid, Owes
  <1> QED
    BY <1>2, <1>3, <1>4, <1>5, <1>6, <1>7, <1>8, <1>9, <1>10
    DEF Next, WorkerStep

(* The files erased by a step lie outside the library at that moment.      *)
LEMMA StepLibrary == Inv /\ [Next]_vars => LibraryFilesSurvive'
  <1> SUFFICES ASSUME Inv, [Next]_vars PROVE LibraryFilesSurvive'
    OBVIOUS
  <1>0. /\ TypeOK
        /\ \A h \in Torrents :
              data[h] = "erased" => deluge[h].save_path = "outside"
        /\ \A w \in Workers : Valid(w)
    BY ValidAll DEF Inv, LibraryFilesSurvive
  <1>1. CASE UNCHANGED <<deluge, data>>
    BY <1>0, <1>1 DEF LibraryFilesSurvive
  <1>2. ASSUME NEW w \in Workers, Remove(w) \/ RemoveUnanswered(w)
        PROVE  LibraryFilesSurvive'
    <2>1. /\ Drop(w) /\ UNCHANGED deluge /\ pc[w] # "idle"
          /\ job[w].torrent \in Torrents
      BY <1>0, <1>2 DEF Remove, RemoveUnanswered, TypeOK, Jobs
    <2>2. job[w].torrent \in present /\ EraseAllowed(job[w])
            => deluge[job[w].torrent].save_path = "outside"
      BY <1>0, <2>1 DEF Valid, EraseAllowed
    <2> QED
      BY <1>0, <2>1, <2>2 DEF Drop, LibraryFilesSurvive, TypeOK
  <1>3. ASSUME NEW h \in Torrents, DelugeStep(h)
        PROVE  LibraryFilesSurvive'
    <2>1. deluge[h] \in Status
      BY <1>0 DEF TypeOK
    <2>2. /\ UNCHANGED data
          /\ deluge[h].save_path = "outside"
               => deluge'[h].save_path = "outside"
          /\ \A g \in Torrents \ {h} : deluge'[g] = deluge[g]
      BY <1>0, <1>3, <2>1
      DEF DelugeStep, Transfer, LoseData, MoveStorage, TypeOK, Status
    <2> QED
      BY <1>0, <2>2 DEF LibraryFilesSurvive
  <1>4. ASSUME NEW h \in Torrents, Readd(h)
        PROVE  LibraryFilesSurvive'
    <2>1. /\ \A g \in Torrents \ {h} :
                data'[g] = data[g] /\ deluge'[g] = deluge[g]
          /\ data'[h] = "kept"
      BY <1>0, <1>4 DEF Readd, TypeOK
    <2> QED
      BY <1>0, <2>1 DEF LibraryFilesSurvive
  <1> QED
    BY <1>1, <1>2, <1>3, <1>4
    DEF Next, WorkerStep, vars, env, Call, CallPurgeQueued, Begin, Prefetch,
        Fetch, Probe, Defer, Abort

(* Inv is an inductive invariant of the removal path.                      *)
THEOREM Invariance == Spec => []Inv
  <1>1. Init => Inv
    BY InitType, InitValid DEF Inv
  <1>2. Inv /\ [Next]_vars => Inv'
    BY StepType, StepValid, StepLibrary DEF Inv
  <1> QED
    BY <1>1, <1>2, PTL DEF Spec

(* What a call has read some requests ago it may still rely on when it     *)
(* sends the removal: a path outside the library, a duty to seed.          *)
THEOREM ReadingsStayValid == Spec => []CallsStayValid
  <1>1. Inv => CallsStayValid
    BY DEF Inv
  <1> QED
    BY <1>1, Invariance, PTL

(* No library loss: remove_torrent erases no file of the Plex library.     *)
THEOREM LibrarySafe == Spec => []LibraryFilesSurvive
  <1>1. Inv => LibraryFilesSurvive
    BY DEF Inv
  <1> QED
    BY <1>1, Invariance, PTL

-----------------------------------------------------------------------------
(* A call that passes the floor removes a torrent that has paid, or one    *)
(* that owed nothing when the call began.                                  *)
LEMMA FloorSound ==
  ASSUME Inv, NEW w \in Workers, pc[w] = "decide",
         job[w].torrent \in present, ~FloorBlocks(job[w].info), owed[w]
  PROVE  deluge[job[w].torrent].seeding_time >= SeedFloor
  <1>1. /\ job[w].info \in Info
        /\ deluge[job[w].torrent] \in Status
    BY DEF Inv, TypeOK, Jobs
  <1>2. Valid(w)
    BY ValidAll DEF Inv
  <1>3. /\ job[w].info.seeding_time <= deluge[job[w].torrent].seeding_time
        /\ job[w].info.total_uploaded = "none"
             => job[w].info.seeding_time > 0
    BY <1>2 DEF Valid
  <1>4. ~NeverSeeded(job[w].info)
    BY <1>3 DEF NeverSeeded
  <1>5. /\ job[w].info.seeding_time \in Nat
        /\ job[w].info.seeding_time >= SeedFloor
    BY <1>1, <1>4, FloorAssumption, SeedAssumption DEF FloorBlocks, Info, UnknownTime
  <1> QED
    BY <1>1, <1>3, <1>5, FloorAssumption, SeedAssumption DEF Status

(* No hit-and-run: a torrent that owed seeding when its removal was asked  *)
(* for leaves Deluge only after SEED_DAYS of seeding.                      *)
THEOREM NoHitAndRun == Spec => ObligationKept
  <1> DEFINE Kept ==
        \A w \in Workers :
          (/\ job[w].torrent \in present \ present'
           /\ pc[w] = "decide" /\ pc'[w] = "idle"
           /\ owed[w])
             => deluge[job[w].torrent].seeding_time >= SeedFloor
  <1>1. Inv /\ [Next]_vars => [Kept]_vars
    <2> SUFFICES ASSUME Inv, Next,
                        NEW w \in Workers,
                        job[w].torrent \in present \ present',
                        pc[w] = "decide", pc'[w] = "idle", owed[w]
                 PROVE  deluge[job[w].torrent].seeding_time >= SeedFloor
      OBVIOUS
    <2>0. TypeOK
      BY DEF Inv
    <2>1. PICK u \in Workers : Remove(u) \/ RemoveUnanswered(u)
      BY DEF Next, WorkerStep, env, Call, CallPurgeQueued, Begin, Prefetch,
             Fetch, Probe, Defer, Abort, DelugeStep, Readd
    <2>2. u = w
      BY <2>0, <2>1 DEF Remove, RemoveUnanswered, TypeOK
    <2>3. ~FloorBlocks(job[w].info)
      BY <2>1, <2>2 DEF Remove, RemoveUnanswered
    <2> QED
      BY <2>3, FloorSound
  <1>2. Spec => [][Kept]_vars
    BY <1>1, Invariance, PTL DEF Spec
  <1> QED
    BY <1>2 DEF ObligationKept

-----------------------------------------------------------------------------
(* The refinement of SeedPromise.                                          *)

(* What is pending without an obligation, as a set of torrents.            *)
Asked == {job[w].torrent : w \in InFlightUnowed}

(* Standing takes one of four values.                                      *)
LEMMA StandingType ==
  ASSUME NEW h
  PROVE  Standing(h) \in {"free", "owing", "paid", "gone"}
  BY DEF Standing

(* A step that leaves Deluge alone and adds no pending torrent is a        *)
(* withdrawal.                                                             *)
LEMMA QuietStep ==
  ASSUME UNCHANGED <<present, deluge, data>>, Asked' \subseteq Asked
  PROVE  Promise!Withdraw
  BY DEF Promise!Withdraw, Asked, Standing, Owes

(* A call that is under way adds no pending torrent.                       *)
LEMMA ProgressKeepsAsked ==
  ASSUME TypeOK, NEW w \in Workers, pc[w] # "idle",
         job'[w].torrent = job[w].torrent, UNCHANGED owed,
         \A u \in Workers \ {w} : pc'[u] = pc[u] /\ job'[u] = job[u]
  PROVE  Asked' \subseteq Asked
  BY DEF Asked, InFlightUnowed

(* The start is one of SeedPromise.                                        *)
LEMMA InitRefines == Init => Promise!Init
  <1> SUFFICES ASSUME Init PROVE Promise!Init
    OBVIOUS
  <1> DEFINE fresh == {[NewTorrent EXCEPT !.save_path = p] :
                         p \in {"library", "outside"}}
  <1>a. \A s \in fresh : s.seeding_time = 0 /\ s.total_uploaded = "none"
    BY DEF NewTorrent
  <1>b. present = Torrents /\ deluge \in [Torrents -> fresh]
    BY DEF Init
  <1>1. \A h \in Torrents : /\ deluge[h].seeding_time = 0
                             /\ deluge[h].total_uploaded = "none"
    <2>1. \A h \in Torrents : deluge[h] \in fresh
      BY <1>b
    <2> HIDE DEF fresh
    <2> QED
      BY <1>a, <2>1
  <1>2. \A h \in Torrents : Standing(h) = "free"
    <2> TAKE h \in Torrents
    <2>1. /\ h \in present
          /\ ~Owes(h)
          /\ ~(deluge[h].seeding_time >= SeedFloor)
      BY <1>1, <1>b, FloorAssumption, SeedAssumption DEF Owes
    <2> QED
      BY <2>1 DEF Standing
  <1>3. InFlightUnowed = {}
    BY DEF Init, InFlightUnowed
  <1>4. {h \in Torrents : data[h] = "erased"} = {}
    BY DEF Init
  <1> QED
    BY <1>2, <1>3, <1>4 DEF Promise!Init

(* To begin a call is to ask, or nothing.                                  *)
LEMMA BeginRefines ==
  ASSUME Inv, NEW w \in Workers, NEW h \in Torrents, NEW rd, NEW given,
         NEW info, Begin(w, h, rd, given, info)
  PROVE  Promise!Next
  <1>0. TypeOK
    BY DEF Inv
  <1>1. /\ pc[w] = "idle" /\ pc'[w] # "idle" /\ h \in present
        /\ job'[w].torrent = h
        /\ owed'[w] <=> Owes(h)
        /\ \A u \in Workers \ {w} :
             pc'[u] = pc[u] /\ job'[u] = job[u] /\ owed'[u] = owed[u]
        /\ UNCHANGED <<present, deluge, data>>
    <2>1. pc'[w] # "idle"
      BY <1>0, NextRequestType DEF Begin, TypeOK
    <2>2. job'[w].torrent = h
      BY <1>0 DEF Begin, TypeOK
    <2>3. owed'[w] <=> Owes(h)
      BY <1>0 DEF Begin, TypeOK
    <2> QED
      BY <1>0, <2>1, <2>2, <2>3 DEF Begin, TypeOK, env
  <1>2. CASE Owes(h)
    <2>1. InFlightUnowed' = InFlightUnowed
      BY <1>1, <1>2 DEF InFlightUnowed
    <2>2. w \notin InFlightUnowed
      BY <1>1 DEF InFlightUnowed
    <2>3. Asked' \subseteq Asked
      BY <1>1, <2>1, <2>2 DEF Asked, InFlightUnowed
    <2> QED
      BY <1>1, <2>3, QuietStep DEF Promise!Next
  <1>3. CASE ~Owes(h)
    <2>1. InFlightUnowed' = InFlightUnowed \cup {w} /\ w \notin InFlightUnowed
      BY <1>1, <1>3 DEF InFlightUnowed
    <2>2. Asked' = Asked \cup {h}
      BY <1>1, <2>1 DEF Asked, InFlightUnowed
    <2>3. deluge[h] \in Status
      BY <1>0 DEF TypeOK
    <2>4. Standing(h) = "free"
      BY <1>1, <1>3, <2>3, FloorAssumption, SeedAssumption DEF Standing, Owes, Status
    <2>5. Promise!Ask(h)
      BY <1>1, <2>2, <2>4 DEF Promise!Ask, Asked, Standing, Owes
    <2> QED
      BY <2>5 DEF Promise!Next
  <1> QED
    BY <1>2, <1>3

(* What a call removes, SeedPromise may remove.                            *)
LEMMA RemoveRefines ==
  ASSUME Inv, NEW w \in Workers, Remove(w) \/ RemoveUnanswered(w)
  PROVE  Promise!Next
  <1>a. TypeOK /\ job[w].torrent \in Torrents /\ Valid(w)
    BY ValidAll DEF Inv, TypeOK, Jobs
  <1>b. PICK h \in Torrents : h = job[w].torrent
    BY <1>a
  <1>0. TypeOK /\ h = job[w].torrent /\ Valid(w)
    BY <1>a, <1>b
  <1>1. /\ pc[w] = "decide" /\ ~FloorBlocks(job[w].info) /\ Drop(w)
        /\ UNCHANGED <<deluge, job, owed>>
        /\ pc' = [pc EXCEPT ![w] = "idle"]
    BY DEF Remove, RemoveUnanswered
  <1>2. Asked' \subseteq Asked
    BY <1>0, <1>1, ProgressKeepsAsked DEF TypeOK
  <1>3. CASE h \notin present
    BY <1>0, <1>1, <1>2, <1>3, QuietStep DEF Drop, Promise!Next, TypeOK
  <1>4. CASE h \in present
    <2>1. Standing(h) = "paid" \/ (Standing(h) # "gone" /\ h \in Asked)
      <3>1. CASE owed[w]
        BY <1>0, <1>1, <1>4, <3>1, FloorSound DEF Standing
      <3>2. CASE ~owed[w]
        BY <1>0, <1>1, <1>4, <3>2 DEF Standing, Asked, InFlightUnowed
      <3> QED
        BY <3>1, <3>2
    <2>2. /\ \A g \in Torrents \ {h} : Standing(g)' = Standing(g)
          /\ Standing(h)' = "gone"
      BY <1>0, <1>1 DEF Drop, Standing, Owes
    <2>3. [g \in Torrents |-> Standing(g)]'
            = [[g \in Torrents |-> Standing(g)] EXCEPT ![h] = "gone"]
      BY <1>0, <2>2
    <2>4. CASE ~EraseAllowed(job[w])
      BY <1>0, <1>1, <1>2, <2>1, <2>3, <2>4
      DEF Drop, Promise!Next, Promise!Remove, Asked
    <2>5. CASE EraseAllowed(job[w])
      <3>1. deluge[h].save_path = "outside"
        BY <1>0, <1>1, <1>4, <2>5 DEF Valid, EraseAllowed
      <3>2. {g \in Torrents : data'[g] = "erased"}
              = {g \in Torrents : data[g] = "erased"} \cup {h}
        BY <1>0, <1>1, <1>4, <2>5 DEF Drop, TypeOK
      <3> QED
        BY <1>0, <1>1, <1>2, <2>1, <2>3, <3>1, <3>2
        DEF Promise!Next, Promise!Remove, Asked
    <2> QED
      BY <2>4, <2>5
  <1> QED
    BY <1>3, <1>4

(* Deluge's own steps let a torrent seed, or leave the library.            *)
LEMMA DelugeRefines ==
  ASSUME Inv, NEW h \in Torrents, DelugeStep(h)
  PROVE  Promise!Next \/ UNCHANGED Promise!vars
  <1>0. /\ TypeOK /\ deluge[h] \in Status
        /\ h \in present /\ UNCHANGED <<present, data, pc, job, owed>>
    BY DEF Inv, TypeOK, DelugeStep
  <1>1. Asked' = Asked
    BY <1>0 DEF Asked, InFlightUnowed
  <1> DEFINE Stand == [g \in Torrents |-> Standing(g)]
             Lib == {g \in Torrents : deluge[g].save_path = "library"}
  <1>2. CASE Transfer(h) \/ LoseData(h)
    <2>1. /\ \A g \in Torrents \ {h} : deluge'[g] = deluge[g]
          /\ deluge'[h].save_path = deluge[h].save_path
          /\ deluge[h].total_uploaded = "some"
               => deluge'[h].total_uploaded = "some"
          /\ deluge'[h].seeding_time \in Nat
          /\ deluge[h].seeding_time \in Nat
          /\ deluge'[h].seeding_time >= deluge[h].seeding_time
      BY <1>0, <1>2, FloorAssumption, SeedAssumption DEF Transfer, LoseData, TypeOK, Status
    <2>2. Lib' = Lib
      BY <2>1
    <2>3. \/ Standing(h)' = Standing(h)
          \/ Standing(h) = "free" /\ Standing(h)' \in {"owing", "paid"}
          \/ Standing(h) = "owing" /\ Standing(h)' = "paid"
      BY <1>0, <2>1, FloorAssumption, SeedAssumption DEF Standing, Owes
    <2>4. \A g \in Torrents \ {h} : Standing(g)' = Standing(g)
      BY <1>0, <2>1 DEF Standing, Owes
    <2>5. Stand' = [Stand EXCEPT ![h] = Standing(h)']
      BY <2>4
    <2>6. CASE Standing(h)' = Standing(h)
      BY <1>0, <1>1, <2>2, <2>4, <2>6 DEF Promise!vars, Asked
    <2>7. CASE Standing(h)' # Standing(h)
      <3>1. Promise!Seed(h)
        BY <1>0, <1>1, <2>2, <2>3, <2>5, <2>7 DEF Promise!Seed, Asked
      <3> QED
        BY <3>1 DEF Promise!Next
    <2> QED
      BY <2>6, <2>7
  <1>3. CASE MoveStorage(h)
    <2>1. /\ \A g \in Torrents \ {h} : deluge'[g] = deluge[g]
          /\ deluge'[h].save_path = "outside"
          /\ deluge'[h].seeding_time = deluge[h].seeding_time
          /\ deluge'[h].total_uploaded = deluge[h].total_uploaded
      BY <1>0, <1>3 DEF MoveStorage, TypeOK, Status
    <2>2. Lib' = Lib \ {h}
      BY <2>1
    <2>3. Stand' = Stand
      BY <1>0, <2>1 DEF Standing, Owes
    <2>4. Standing(h) # "gone"
      BY <1>0 DEF Standing
    <2>5. Promise!LeaveLibrary(h)
      BY <1>0, <1>1, <2>2, <2>3, <2>4 DEF Promise!LeaveLibrary, Asked
    <2> QED
      BY <2>5 DEF Promise!Next
  <1> QED
    BY <1>2, <1>3 DEF DelugeStep

(* A torrent grabbed again is one added.                                   *)
LEMMA ReaddRefines ==
  ASSUME Inv, NEW h \in Torrents, Readd(h)
  PROVE  Promise!Next
  <1>0. TypeOK /\ UNCHANGED <<pc, job, owed>> /\ h \notin present
    BY DEF Inv, Readd
  <1>1. Asked' = Asked /\ h \notin Asked
    BY <1>0 DEF Readd, Asked, InFlightUnowed
  <1>2. /\ \A g \in Torrents \ {h} :
            /\ deluge'[g] = deluge[g] /\ data'[g] = data[g]
            /\ g \in present' <=> g \in present
        /\ deluge'[h] = NewTorrent /\ data'[h] = "kept" /\ h \in present'
    BY <1>0 DEF Readd, TypeOK
  <1>3. Standing(h) = "gone" /\ Standing(h)' = "free"
    BY <1>0, <1>2, FloorAssumption, SeedAssumption DEF Standing, Owes, NewTorrent
  <1>4. \A g \in Torrents \ {h} : Standing(g)' = Standing(g)
    BY <1>2 DEF Standing, Owes
  <1>5. [g \in Torrents |-> Standing(g)]'
          = [[g \in Torrents |-> Standing(g)] EXCEPT ![h] = "free"]
    BY <1>3, <1>4
  <1>6. {g \in Torrents : deluge[g].save_path = "library"}'
          = {g \in Torrents : deluge[g].save_path = "library"} \ {h}
    BY <1>2 DEF NewTorrent
  <1>7. {g \in Torrents : data[g] = "erased"}'
          = {g \in Torrents : data[g] = "erased"} \ {h}
    BY <1>2
  <1>8. Promise!Add(h)
    BY <1>1, <1>3, <1>5, <1>6, <1>7 DEF Promise!Add, Asked
  <1> QED
    BY <1>8 DEF Promise!Next

(* Every step is one of SeedPromise, or none.                              *)
LEMMA StepRefines == Inv /\ [Next]_vars => [Promise!Next]_(Promise!vars)
  <1> SUFFICES ASSUME Inv, [Next]_vars
               PROVE  Promise!Next \/ UNCHANGED Promise!vars
    OBVIOUS
  <1>0. TypeOK
    BY DEF Inv
  <1>1. ASSUME NEW w \in Workers, NEW h \in Torrents, NEW rd \in BOOLEAN,
               Call(w, h, rd)
        PROVE  Promise!Next
    BY <1>1, BeginRefines DEF Call
  <1>2. ASSUME NEW w \in Workers, NEW h \in Torrents, CallPurgeQueued(w, h)
        PROVE  Promise!Next
    BY <1>2, BeginRefines DEF CallPurgeQueued
  <1>3. ASSUME NEW w \in Workers,
               Prefetch(w) \/ Fetch(w) \/ Probe(w) \/ Defer(w) \/ Abort(w)
        PROVE  Promise!Next
    <2>1. /\ pc[w] # "idle" /\ UNCHANGED <<present, deluge, data, owed>>
          /\ \A u \in Workers \ {w} : pc'[u] = pc[u] /\ job'[u] = job[u]
      BY <1>0, <1>3 DEF Prefetch, Fetch, Probe, Defer, Abort, TypeOK, env
    <2>2. job'[w].torrent = job[w].torrent
      <3>1. job[w] \in Jobs
        BY <1>0 DEF TypeOK
      <3>2. CASE Prefetch(w)
        BY <1>0, <3>1, <3>2 DEF Prefetch, TypeOK, Jobs
      <3>3. CASE Fetch(w)
        BY <1>0, <3>1, <3>3 DEF Fetch, TypeOK, Jobs
      <3>4. CASE Probe(w)
        <4>1. PICK path : job' = [job EXCEPT ![w].info.save_path = path]
          BY <3>4 DEF Probe
        <4> QED
          BY <1>0, <3>1, <4>1 DEF TypeOK, Jobs
      <3>5. CASE Defer(w) \/ Abort(w)
        BY <3>5 DEF Defer, Abort
      <3> QED
        BY <1>3, <3>2, <3>3, <3>4, <3>5
    <2> QED
      BY <1>0, <2>1, <2>2, ProgressKeepsAsked, QuietStep DEF Promise!Next
  <1>4. CASE UNCHANGED vars
    BY <1>4 DEF vars, Promise!vars, Standing, Owes, InFlightUnowed
  <1> QED
    BY <1>1, <1>2, <1>3, <1>4, RemoveRefines, DelugeRefines, ReaddRefines
    DEF Next, WorkerStep

(* The removal path implements SeedPromise.                                *)
THEOREM RemovalKeepsPromise == Spec => KeepsPromise
  <1>1. Spec => Promise!Spec
    BY InitRefines, StepRefines, Invariance, PTL DEF Spec, Promise!Spec
  <1> QED
    BY <1>1 DEF KeepsPromise
=============================================================================

----------------------- MODULE SeasonMigrationProofs -----------------------
(***************************************************************************)
(* Proofs about SeasonMigration, for any set of packs and of workers, any  *)
(* batch and any faults.                                                   *)
(***************************************************************************)
EXTENDS SeasonMigration, TLAPS

(* The inductive invariant: LibraryKept and CappedUntilSeeding speak of    *)
(* the disk and of Deluge, OneInCharge of why a tick may act on what it    *)
(* checked some requests ago.                                              *)
Inv == TypeOK /\ OneInCharge /\ LibraryKept /\ CappedUntilSeeding

-----------------------------------------------------------------------------
(* Shapes.                                                                 *)

(* A worker's pack is a pack, and Deluge has a torrent of it.              *)
LEMMA PackType ==
  ASSUME TypeOK, NEW w \in Workers
  PROVE  tick[w] \in Ticks /\ Pack(w) \in Packs /\ tor[Pack(w)] \in Torrent
  BY DEF TypeOK, Ticks, Pack

(* A step of one worker's program counter.                                 *)
LEMMA GotoType ==
  ASSUME TypeOK, NEW w \in Workers, NEW next \in Steps, Goto(w, next)
  PROVE  /\ tick' \in [Workers -> Ticks]
         /\ tick'[w].pc = next
         /\ tick'[w].pack = tick[w].pack
         /\ \A u \in Workers \ {w} : tick'[u] = tick[u]
  <1>1. [tick[w] EXCEPT !.pc = next] \in Ticks
    BY DEF TypeOK, Ticks
  <1> QED
    BY <1>1 DEF TypeOK, Ticks, Goto

(* A request to Deluge that changes one torrent.                           *)
LEMMA SetTorType ==
  ASSUME TypeOK, NEW h \in Packs, NEW t \in Torrent, SetTor(h, t)
  PROVE  /\ tor' \in [Packs -> Torrent]
         /\ tor'[h] = t
         /\ \A g \in Packs \ {h} : tor'[g] = tor[g]
  BY DEF TypeOK, SetTor

(* Only the holder of the lock is past it.                                 *)
LEMMA Exclusive ==
  ASSUME OneInCharge, NEW w \in Workers, NEW u \in Workers \ {w},
         tick[w].pc \notin AtRest
  PROVE  tick[u].pc \in AtRest
  BY DEF OneInCharge

-----------------------------------------------------------------------------
(* The initial state.                                                      *)

(* No tick is under way at the start, and no torrent is capped.            *)
LEMMA InitInv == Init => Inv
  <1> SUFFICES ASSUME Init PROVE Inv
    OBVIOUS
  <1> DEFINE start(h) == [pc |-> "idle", todo |-> {}, pack |-> h,
                          prior |-> "own", done |-> FALSE]
  <1>1. \A h \in Packs : start(h) \in Ticks /\ start(h).pc = "idle"
    BY DEF Ticks, Steps
  <1>2. tick \in [Workers -> {start(h) : h \in Packs}]
    BY DEF Init
  <1>3. tick \in [Workers -> Ticks] /\ \A w \in Workers : tick[w].pc = "idle"
    <2> HIDE DEF start
    <2> QED
      BY <1>1, <1>2
  <1>4. tor \in [Packs -> Torrent]
    BY DEF Init, Torrent
  <1> QED
    BY <1>3, <1>4 DEF Init, Inv, TypeOK, OneInCharge, LibraryKept,
       CappedUntilSeeding, AtRest, BeforeCap, BeforeMirror

-----------------------------------------------------------------------------
(* Steps of the tick that holds the lock.  It changes at most its own      *)
(* torrent, undoes no mirror, and need only establish what its own next    *)
(* step relies on: every other worker is at rest.                          *)

(* What such a step has to keep for the invariant to hold after it.        *)
LEMMA HolderStep ==
  ASSUME Inv, NEW w \in Workers, tick[w].pc \notin AtRest,
         UNCHANGED <<library, inflight, pilotDone>>,
         tick' \in [Workers -> Ticks],
         \A u \in Workers \ {w} : tick'[u] = tick[u],
         tor' \in [Packs -> Torrent],
         \A g \in Packs \ {Pack(w)} : tor'[g] = tor[g],
         mirror' \in [Packs -> {"none", "partial", "full"}],
         \A g \in Packs : mirror[g] = "full" => mirror'[g] = "full",
         tor'[Pack(w)].state # "Seeding" => tor'[Pack(w)].limit = "slow",
         tor'[Pack(w)].state = "Moving" => mirror'[Pack(w)] = "full",
         tick'[w].pc \notin BeforeCap => tor'[Pack(w)'].limit = "slow",
         tick'[w].pc \notin BeforeMirror => mirror'[Pack(w)'] = "full",
         tick'[w].pc = "restore" => tor'[Pack(w)'].state = "Seeding"
  PROVE  Inv'
  <1>1. TypeOK'
    BY DEF Inv, TypeOK
  <1>2. LibraryKept'
    BY DEF Inv, LibraryKept
  <1>3. CappedUntilSeeding'
    BY DEF Inv, CappedUntilSeeding
  <1>4. \A u \in Workers \ {w} : tick'[u].pc \in AtRest
    BY Exclusive DEF Inv
  <1>5. inflight' = w
    BY DEF Inv, OneInCharge
  <1>6. \A h \in Packs : tor'[h].state = "Moving" => mirror'[h] = "full"
    BY DEF Inv, OneInCharge
  <1>7. OneInCharge'
    BY <1>4, <1>5, <1>6 DEF OneInCharge, AtRest, BeforeCap, BeforeMirror
  <1> QED
    BY <1>1, <1>2, <1>3, <1>7 DEF Inv

(* The same for a step that only reads.                                    *)
LEMMA QuietStep ==
  ASSUME Inv, NEW w \in Workers, tick[w].pc \notin AtRest,
         UNCHANGED <<tor, library, mirror, inflight, pilotDone>>,
         tick' \in [Workers -> Ticks],
         \A u \in Workers \ {w} : tick'[u] = tick[u],
         tick'[w].pc \notin BeforeCap => tor[Pack(w)'].limit = "slow",
         tick'[w].pc \notin BeforeMirror => mirror[Pack(w)'] = "full",
         tick'[w].pc = "restore" => tor[Pack(w)'].state = "Seeding"
  PROVE  Inv'
  <1>1. Pack(w) \in Packs
    BY PackType DEF Inv
  <1>2. /\ tor[Pack(w)].state # "Seeding" => tor[Pack(w)].limit = "slow"
        /\ tor[Pack(w)].state = "Moving" => mirror[Pack(w)] = "full"
    BY <1>1 DEF Inv, CappedUntilSeeding, OneInCharge
  <1>3. /\ tor \in [Packs -> Torrent]
        /\ mirror \in [Packs -> {"none", "partial", "full"}]
    BY DEF Inv, TypeOK
  <1> QED
    BY <1>2, <1>3, HolderStep

(* The lock is released by its holder.                                     *)
LEMMA ReleaseStep ==
  ASSUME Inv, NEW w \in Workers, tick[w].pc \notin AtRest,
         UNCHANGED <<tor, library, mirror>>, inflight' = "none",
         pilotDone' \in BOOLEAN, Goto(w, "idle")
  PROVE  Inv'
  <1>1. /\ tick' \in [Workers -> Ticks]
        /\ tick'[w].pc = "idle"
        /\ \A u \in Workers \ {w} : tick'[u] = tick[u]
    BY GotoType DEF Inv, Steps
  <1>2. \A u \in Workers : tick'[u].pc \in AtRest
    BY <1>1, Exclusive DEF Inv, AtRest
  <1>3. TypeOK' /\ LibraryKept' /\ CappedUntilSeeding'
    BY <1>1 DEF Inv, TypeOK, LibraryKept, CappedUntilSeeding
  <1>4. OneInCharge'
    BY <1>2 DEF Inv, OneInCharge, AtRest, BeforeCap, BeforeMirror
  <1> QED
    BY <1>3, <1>4 DEF Inv

-----------------------------------------------------------------------------
(* One lemma per kind of step.                                             *)

(* Steps that only read and go on, or break off.                           *)
LEMMA ReadSteps ==
  ASSUME Inv, NEW w \in Workers,
         NoPack(w) \/ Compare(w) \/ Poll(w) \/ Verify(w) \/ Wait(w)
           \/ GiveUp(w)
  PROVE  Inv'
  <1> DEFINE h == Pack(w)
  <1>1. PICK next \in Steps :
          /\ Goto(w, next)
          /\ next \notin BeforeCap => tick[w].pc \notin BeforeCap
          /\ next \notin BeforeMirror =>
                tick[w].pc \notin BeforeMirror \/ SameInodes(h)
          /\ next = "restore" => tor[h].state = "Seeding"
    <2> USE DEF Steps, AtRest, BeforeCap, BeforeMirror
    <2>1. CASE NoPack(w) \/ GiveUp(w)
      BY <2>1 DEF NoPack, GiveUp
    <2>2. CASE Compare(w)
      BY <2>2 DEF Compare
    <2>3. CASE Poll(w)
      BY <2>3 DEF Poll
    <2>4. CASE Verify(w)
      BY <2>4 DEF Verify
    <2>5. CASE Wait(w)
      BY <2>5 DEF Wait
    <2> QED
      BY <2>1, <2>2, <2>3, <2>4, <2>5
  <1>2. /\ tick[w].pc \notin AtRest
        /\ UNCHANGED <<tor, library, mirror, inflight, pilotDone>>
    BY DEF NoPack, Compare, Poll, Verify, Wait, GiveUp, AtRest, Disk, Control
  <1>3. /\ tick' \in [Workers -> Ticks]
        /\ tick'[w].pc = next /\ Pack(w)' = h
        /\ \A u \in Workers \ {w} : tick'[u] = tick[u]
    BY <1>1, GotoType DEF Inv, Pack
  <1>4. /\ next \notin BeforeCap => tor[h].limit = "slow"
        /\ next \notin BeforeMirror => mirror[h] = "full"
    BY <1>1 DEF Inv, OneInCharge, SameInodes
  <1> QED
    BY <1>1, <1>2, <1>3, <1>4, QuietStep

(* The two steps that change the tick's other locals.                      *)
LEMMA LocalSteps ==
  ASSUME Inv, NEW w \in Workers, NextPack(w) \/ ReadLimit(w)
  PROVE  Inv'
  <1>1. /\ tick[w].pc \notin AtRest
        /\ UNCHANGED <<tor, library, mirror, inflight, pilotDone>>
    BY DEF NextPack, ReadLimit, AtRest, Disk, Control
  <1>2. tick[w] \in Ticks /\ tor[Pack(w)].limit \in {"own", "slow"}
    BY PackType DEF Inv, Torrent
  <1>3. /\ tick' \in [Workers -> Ticks]
        /\ tick'[w].pc \in BeforeCap
        /\ \A u \in Workers \ {w} : tick'[u] = tick[u]
    <2>1. CASE NextPack(w)
      <3>1. PICK g \in FirstOf(tick[w].todo, 1) :
              tick' = [tick EXCEPT ![w].pc = "read", ![w].pack = g,
                                   ![w].todo = @ \ {g}]
        BY <2>1 DEF NextPack
      <3>2. g \in Packs
        BY <1>2 DEF FirstOf, Ticks
      <3>3. [tick[w] EXCEPT !.pc = "read", !.pack = g, !.todo = @ \ {g}]
              \in Ticks
        BY <1>2, <3>2 DEF Ticks, Steps
      <3> QED
        BY <1>2, <3>1, <3>3 DEF Inv, TypeOK, Ticks, BeforeCap
    <2>2. CASE ReadLimit(w)
      <3>1. [tick[w] EXCEPT !.pc = "cap", !.prior = tor[Pack(w)].limit]
              \in Ticks
        BY <1>2 DEF Ticks, Steps
      <3> QED
        BY <1>2, <2>2, <3>1 DEF ReadLimit, Inv, TypeOK, Ticks, BeforeCap
    <2> QED
      BY <2>1, <2>2
  <1>4. tick'[w].pc \in BeforeMirror /\ tick'[w].pc # "restore"
    BY <1>3 DEF BeforeMirror, BeforeCap, AtRest
  <1> QED
    BY <1>1, <1>3, <1>4, QuietStep

(* cp, done or cut short, never undoes a mirror.                           *)
LEMMA CopySteps ==
  ASSUME Inv, NEW w \in Workers, Copy(w) \/ CopyFails(w)
  PROVE  Inv'
  <1> DEFINE h == Pack(w)
  <1>1. /\ tick[w].pc = "copy"
        /\ UNCHANGED <<tor, library, inflight, pilotDone>>
    BY DEF Copy, CopyFails, Control
  <1>2. /\ tor \in [Packs -> Torrent]
        /\ mirror \in [Packs -> {"none", "partial", "full"}]
        /\ h \in Packs
    BY PackType DEF Inv, TypeOK
  <1>3. /\ mirror' \in [Packs -> {"none", "partial", "full"}]
        /\ \A g \in Packs : mirror[g] = "full" => mirror'[g] = "full"
    BY <1>2 DEF Copy, CopyFails
  <1>4. PICK next \in {"compare", "end"} : Goto(w, next)
    BY DEF Copy, CopyFails
  <1>5. /\ tick' \in [Workers -> Ticks]
        /\ tick'[w].pc = next /\ Pack(w)' = h
        /\ \A u \in Workers \ {w} : tick'[u] = tick[u]
    BY <1>4, GotoType DEF Inv, Pack, Steps
  <1>6. tor[h].limit = "slow"
    BY <1>1 DEF Inv, OneInCharge, BeforeCap, AtRest
  <1>7. tor[h].state = "Moving" => mirror'[h] = "full"
    BY <1>2, <1>3 DEF Inv, OneInCharge
  <1>8. tick'[w].pc \in BeforeMirror /\ tick'[w].pc # "restore"
    BY <1>4, <1>5 DEF BeforeMirror, BeforeCap, AtRest
  <1> QED
    BY <1>1, <1>2, <1>3, <1>5, <1>6, <1>7, <1>8, HolderStep DEF AtRest

(* Requests to Deluge.                                                     *)
LEMMA TorrentSteps ==
  ASSUME Inv, NEW w \in Workers,
         Cap(w) \/ Pause(w) \/ Move(w) \/ Recheck(w) \/ Resume(w)
  PROVE  Inv'
  <1> DEFINE h == Pack(w)
  <1>1. h \in Packs /\ tor[h] \in Torrent
    BY PackType DEF Inv
  <1>2. /\ tick[w].pc \notin AtRest
        /\ UNCHANGED <<library, mirror, inflight, pilotDone>>
    BY DEF Cap, Pause, Move, Recheck, Resume, AtRest, Disk, Control
  <1>3. /\ tick[w].pc # "cap" => tor[h].limit = "slow" /\ mirror[h] = "full"
        /\ tor[h].state = "Moving" => mirror[h] = "full"
        /\ mirror \in [Packs -> {"none", "partial", "full"}]
    BY <1>1 DEF Cap, Pause, Move, Recheck, Resume, Inv, TypeOK, OneInCharge,
       AtRest, BeforeCap, BeforeMirror
  <1>4. PICK next \in Steps, t \in Torrent :
          /\ Goto(w, next) /\ SetTor(h, t)
          /\ t.limit = "slow"
          /\ t.state = "Moving" => mirror[h] = "full"
          /\ next \notin BeforeMirror => mirror[h] = "full"
          /\ next # "restore"
    <2>1. CASE Cap(w)
      BY <1>1, <1>3, <2>1 DEF Cap, Torrent, Steps, BeforeMirror
    <2>2. CASE Pause(w)
      BY <1>1, <1>3, <2>2 DEF Pause, Paused, Torrent, Steps
    <2>3. CASE Move(w)
      BY <1>1, <1>3, <2>3 DEF Move, Torrent, Steps
    <2>4. CASE Recheck(w)
      BY <1>1, <1>3, <2>4 DEF Recheck, Torrent, Steps
    <2>5. CASE Resume(w)
      BY <1>1, <1>3, <2>5 DEF Resume, Torrent, Steps
    <2> QED
      BY <2>1, <2>2, <2>3, <2>4, <2>5
  <1>5. /\ tick' \in [Workers -> Ticks]
        /\ tick'[w].pc = next /\ Pack(w)' = h
        /\ \A u \in Workers \ {w} : tick'[u] = tick[u]
    BY <1>4, GotoType DEF Inv, Pack
  <1>6. /\ tor' \in [Packs -> Torrent] /\ tor'[h] = t
        /\ \A g \in Packs \ {h} : tor'[g] = tor[g]
    BY <1>1, <1>4, SetTorType DEF Inv
  <1> QED
    BY <1>2, <1>3, <1>4, <1>5, <1>6, HolderStep

(* The limit comes back only for a torrent that seeds.                     *)
LEMMA RestoreStep ==
  ASSUME Inv, NEW w \in Workers, Restore(w)
  PROVE  Inv'
  <1> DEFINE h == Pack(w)
             t == [tor[h] EXCEPT !.limit = tick[w].prior]
  <1>1. h \in Packs /\ tor[h] \in Torrent /\ tick[w] \in Ticks
    BY PackType DEF Inv
  <1>2. /\ tick[w].pc = "restore" /\ SetTor(h, t)
        /\ UNCHANGED <<library, mirror, inflight, pilotDone>>
    BY DEF Restore, Disk, Control
  <1>3. tor[h].state = "Seeding"
    BY <1>2 DEF Inv, OneInCharge
  <1>4. t \in Torrent /\ t.state = "Seeding"
    BY <1>1, <1>3 DEF Torrent, Ticks
  <1>5. /\ tor' \in [Packs -> Torrent] /\ tor'[h] = t
        /\ \A g \in Packs \ {h} : tor'[g] = tor[g]
    <2> HIDE DEF t
    <2> QED
      BY <1>1, <1>2, <1>4, SetTorType DEF Inv
  <1>6. [tick[w] EXCEPT !.pc = "next", !.done = TRUE] \in Ticks
    BY <1>1 DEF Ticks, Steps
  <1>7. /\ tick' \in [Workers -> Ticks] /\ tick'[w].pc = "next"
        /\ \A u \in Workers \ {w} : tick'[u] = tick[u]
    BY <1>1, <1>6 DEF Restore, Inv, TypeOK, Ticks
  <1>8. mirror \in [Packs -> {"none", "partial", "full"}]
    BY DEF Inv, TypeOK
  <1> QED
    BY <1>2, <1>4, <1>5, <1>7, <1>8, HolderStep
    DEF AtRest, BeforeCap, BeforeMirror

(* Waiting for the lock, and letting go of it.                             *)
LEMMA FetchStep ==
  ASSUME Inv, NEW w \in Workers, Fetch(w)
  PROVE  Inv'
  <1> DEFINE todo == FirstOf(Candidates, IF pilotDone THEN Batch ELSE Pilot)
  <1>1. todo \in SUBSET Packs
    BY DEF FirstOf, Candidates
  <1>2. tick' = [tick EXCEPT ![w].pc = "acquire", ![w].done = FALSE,
                             ![w].todo = todo]
    BY DEF Fetch
  <1> HIDE DEF todo
  <1>3. [tick[w] EXCEPT !.pc = "acquire", !.done = FALSE, !.todo = todo]
          \in Ticks
    BY <1>1, PackType DEF Inv, Ticks, Steps
  <1>4. /\ tick' \in [Workers -> Ticks] /\ tick'[w].pc = "acquire"
        /\ \A u \in Workers \ {w} : tick'[u] = tick[u]
    BY <1>2, <1>3, PackType DEF Inv, TypeOK, Ticks
  <1>5. UNCHANGED <<tor, library, mirror, inflight, pilotDone>>
    BY DEF Fetch, Disk, Control
  <1>6. TypeOK' /\ LibraryKept' /\ CappedUntilSeeding'
    BY <1>4, <1>5 DEF Inv, TypeOK, LibraryKept, CappedUntilSeeding
  <1>7. OneInCharge'
    BY <1>4, <1>5 DEF Inv, OneInCharge, Pack, AtRest, BeforeCap, BeforeMirror
  <1> QED
    BY <1>6, <1>7 DEF Inv

(* The worker that takes the guard finds it free.                          *)
LEMMA AcquireStep ==
  ASSUME Inv, NEW w \in Workers, Acquire(w)
  PROVE  Inv'
  <1>1. PICK next \in {"next", "idle"} :
          /\ Goto(w, next)
          /\ next = "next" => inflight = "none" /\ inflight' = w
          /\ next = "idle" => inflight' = inflight
    BY DEF Acquire
  <1>2. /\ tick' \in [Workers -> Ticks] /\ tick'[w].pc = next
        /\ \A u \in Workers \ {w} : tick'[u] = tick[u]
    BY <1>1, GotoType DEF Inv, Steps
  <1>3. UNCHANGED <<tor, library, mirror, pilotDone>>
    BY DEF Acquire, Disk
  <1>4. TypeOK' /\ LibraryKept' /\ CappedUntilSeeding'
    BY <1>1, <1>2, <1>3 DEF Inv, TypeOK, LibraryKept, CappedUntilSeeding
  <1>5. \A u \in Workers \ {w} :
          tick'[u].pc \notin AtRest => inflight' = u /\ next # "next"
    BY <1>1, <1>2, MigrationAssumption DEF Inv, OneInCharge
  <1>6. tick'[w].pc \in BeforeCap /\ (tick'[w].pc \notin AtRest => inflight' = w)
    BY <1>1, <1>2 DEF AtRest, BeforeCap
  <1>7. OneInCharge'
    BY <1>2, <1>3, <1>5, <1>6
    DEF Inv, OneInCharge, Pack, AtRest, BeforeCap, BeforeMirror
  <1> QED
    BY <1>4, <1>7 DEF Inv

(* A tick that ends, or breaks off, gives the guard back.                  *)
LEMMA ReleaseSteps ==
  ASSUME Inv, NEW w \in Workers, End(w) \/ RequestFails(w)
  PROVE  Inv'
  <1>1. pilotDone' \in BOOLEAN
    BY PackType DEF End, RequestFails, Inv, TypeOK, Ticks
  <1>2. /\ tick[w].pc \notin AtRest /\ Goto(w, "idle") /\ inflight' = "none"
        /\ UNCHANGED <<tor, library, mirror>>
    BY DEF End, RequestFails, AtRest, Disk
  <1> QED
    BY <1>1, <1>2, ReleaseStep

(* After a restart every tick is at rest, and the guard is free.           *)
LEMMA RestartStep ==
  ASSUME Inv, Restart
  PROVE  Inv'
  <1>1. /\ UNCHANGED <<tor, library>>
        /\ inflight' = "none" /\ pilotDone' = FALSE
        /\ tick' = [w \in Workers |-> [tick[w] EXCEPT !.pc = "idle"]]
    BY DEF Restart
  <1>2. \A w \in Workers : [tick[w] EXCEPT !.pc = "idle"] \in Ticks
    BY PackType DEF Inv, Ticks, Steps
  <1>3. tick' \in [Workers -> Ticks] /\ \A w \in Workers : tick'[w].pc = "idle"
    BY <1>1, <1>2, PackType DEF Inv, Ticks
  <1>4. /\ mirror' \in [Packs -> {"none", "partial", "full"}]
        /\ \A g \in Packs : mirror[g] = "full" => mirror'[g] = "full"
    BY DEF Restart, Inv, TypeOK
  <1>5. TypeOK' /\ LibraryKept' /\ CappedUntilSeeding'
    BY <1>1, <1>3, <1>4 DEF Inv, TypeOK, LibraryKept, CappedUntilSeeding
  <1>6. OneInCharge'
    BY <1>1, <1>3, <1>4
    DEF Inv, OneInCharge, AtRest, BeforeCap, BeforeMirror
  <1> QED
    BY <1>5, <1>6 DEF Inv

(* What Deluge does on its own: it never leaves Seeding, and a move that   *)
(* ends finds the mirror complete.                                         *)
LEMMA DelugeSteps ==
  ASSUME Inv, NEW h \in Packs, MoveEnds(h) \/ CheckEnds(h) \/ Err(h)
  PROVE  Inv'
  <1>1. h \in Packs /\ tor[h] \in Torrent /\ TypeOK
    BY DEF Inv, TypeOK
  <1>2. tor[h].limit = "slow" /\ tor[h].state # "Seeding"
    BY DEF Inv, CappedUntilSeeding, MoveEnds, CheckEnds, Err
  <1>3. PICK t \in Torrent :
          SetTor(h, t) /\ t.limit = "slow" /\ t.state # "Moving"
    <2>1. CASE MoveEnds(h)
      <3> DEFINE t == [tor[h] EXCEPT !.state = "Paused",
                                     !.save_path = "seeding"]
      <3>1. t \in Torrent /\ t.limit = "slow" /\ t.state # "Moving"
        BY <1>1, <1>2 DEF Torrent
      <3>2. SetTor(h, t)
        BY <2>1 DEF MoveEnds
      <3> HIDE DEF t
      <3> QED
        BY <3>1, <3>2
    <2>2. CASE CheckEnds(h)
      BY <1>1, <1>2, <2>2 DEF CheckEnds, Torrent
    <2>3. CASE Err(h)
      BY <1>1, <1>2, <2>3 DEF Err, Torrent
    <2> QED
      BY <2>1, <2>2, <2>3
  <1>4. /\ tor' \in [Packs -> Torrent] /\ tor'[h] = t
        /\ \A g \in Packs \ {h} : tor'[g] = tor[g]
    BY <1>1, <1>3, SetTorType
  <1>5. UNCHANGED <<inflight, pilotDone, tick>>
    BY DEF MoveEnds, CheckEnds, Err, Control
  <1>6. UNCHANGED <<library, mirror>>
    <2>1. CASE MoveEnds(h)
      <3>1. library[h] /\ mirror[h] = "full"
        BY <2>1 DEF MoveEnds, Inv, LibraryKept, OneInCharge
      <3> QED
        BY <1>1, <2>1, <3>1 DEF MoveEnds, TypeOK
    <2>2. CASE CheckEnds(h) \/ Err(h)
      BY <2>2 DEF CheckEnds, Err, Disk
    <2> QED
      BY <2>1, <2>2
  <1>7. TypeOK' /\ LibraryKept' /\ CappedUntilSeeding'
    BY <1>3, <1>4, <1>5, <1>6 DEF Inv, TypeOK, LibraryKept, CappedUntilSeeding
  <1>8. ASSUME NEW w \in Workers
        PROVE  /\ tick'[w].pc \notin AtRest => inflight' = w
               /\ tick'[w].pc \notin BeforeCap => tor'[Pack(w)'].limit = "slow"
               /\ tick'[w].pc \notin BeforeMirror => mirror'[Pack(w)'] = "full"
               /\ tick'[w].pc = "restore" => tor'[Pack(w)'].state = "Seeding"
    <2>1. Pack(w)' = Pack(w) /\ Pack(w) \in Packs
      BY <1>1, <1>5, PackType DEF Pack
    <2>2. tick[w].pc = "restore" => Pack(w) # h
      BY <1>2 DEF Inv, OneInCharge
    <2> QED
      BY <1>3, <1>4, <1>5, <1>6, <2>1, <2>2 DEF Inv, OneInCharge
  <1>9. OneInCharge'
    BY <1>3, <1>4, <1>6, <1>8 DEF Inv, OneInCharge
  <1> QED
    BY <1>7, <1>9 DEF Inv

-----------------------------------------------------------------------------
(* Every step keeps the invariant.                                         *)
LEMMA StepInv == Inv /\ [Next]_vars => Inv'
  <1> SUFFICES ASSUME Inv, [Next]_vars PROVE Inv'
    OBVIOUS
  <1>1. ASSUME NEW w \in Workers, Do(w) \/ CopyFails(w) \/ RequestFails(w)
        PROVE  Inv'
    BY <1>1, FetchStep, AcquireStep, ReadSteps, LocalSteps, CopySteps,
       TorrentSteps, RestoreStep, ReleaseSteps DEF Do
  <1>2. CASE UNCHANGED vars
    BY <1>2 DEF vars, Inv, TypeOK, OneInCharge, LibraryKept,
       CappedUntilSeeding, Pack
  <1> QED
    BY <1>1, <1>2, RestartStep, DelugeSteps DEF Next

(* Everything below holds in every reachable state.                        *)
THEOREM Invariance == Spec => []Inv
  BY InitInv, StepInv, PTL DEF Spec

(* Deluge, the disk and the ticks keep their types.                        *)
THEOREM TypeCorrect == Spec => []TypeOK
  BY Invariance, PTL DEF Inv

(* Migrating never takes a file out of the Plex library.                   *)
THEOREM LibraryUntouched == Spec => []LibraryKept
  BY Invariance, PTL DEF Inv

(* The cap stays on until the torrent seeds, in every failure.             *)
THEOREM CapStaysOn == Spec => []CappedUntilSeeding
  BY Invariance, PTL DEF Inv

(* One migration at a time, and what its tick has checked stays true.      *)
THEOREM MigrationIsExclusive == Spec => []OneInCharge
  BY Invariance, PTL DEF Inv
=============================================================================

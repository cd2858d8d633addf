----------------------------- MODULE Supersede -----------------------------
(***************************************************************************)
(* The life of a superseded torrent in src/arr-webhook.py: webhook and     *)
(* dedupe threads relabel it (supersede_torrent), the daily cleanup and    *)
(* the queued purge remove it, a repeated grab or an operator revives it,  *)
(* each in several JSON-RPC requests to one Deluge, without a lock.        *)
(*                                                                         *)
(* The cleanup may work on the snapshot get_all_torrents shares for        *)
(* SNAPSHOT_TTL seconds; what it reads there about a torrent is a pure     *)
(* function of the snapshot, so the model keeps that reading ("plan").     *)
(* remove_torrent is one step that reads and decides and one that acts;    *)
(* TorrentRemoval has the interleavings inside it.                         *)
(***************************************************************************)
EXTENDS SeedFloorRules, FiniteSets

CONSTANTS
    Torrents,     \* torrent hashes
    Superseders,  \* threads that call supersede_torrent
    Removers,     \* subset of {"cleanup", "purge"}: the passes that run
    Bystander,    \* TRUE: some other torrent always reads progress > 0
    RequestsFail, \* TRUE: a request to Deluge may fail
    Hardlinks,    \* TRUE: imports hardlink, the old copy's data survives
    MaxSeed,      \* bound: seeding time a torrent accrues in the model
    PurgeQueuedMaxBatch

ASSUME SupersedeAssumption ==
    /\ Removers \subseteq {"cleanup", "purge"}
    /\ Bystander \in BOOLEAN
    /\ RequestsFail \in BOOLEAN
    /\ Hardlinks \in BOOLEAN
    /\ MaxSeed \in Nat /\ SeedFloor <= MaxSeed
    /\ PurgeQueuedMaxBatch \in Nat

VARIABLES
    present,  \* hashes Deluge knows
    tor,      \* what Deluge reports of each
    cache,    \* {} or {plan}: the shared snapshot
    sup,      \* the locals of each supersede_torrent call
    rem       \* the locals of each removing pass

vars == <<present, tor, cache, sup, rem>>

Torrent ==
    [label          : {"base", "upgrade", "superseded"},
     state          : {"Queued", "Downloading", "Paused", "Seeding"},
     progress       : {"zero", "some", "full"},
     seeding_time   : 0..MaxSeed,
     total_uploaded : {"none", "some"},
     save_path      : {"downloads", "seeding", "library"},
     capped         : BOOLEAN]

NewTorrent ==
    [label |-> "base", state |-> "Queued", progress |-> "zero",
     seeding_time |-> 0, total_uploaded |-> "none",
     save_path |-> "downloads", capped |-> FALSE]

LibrarySeed ==
    [label |-> "base", state |-> "Seeding", progress |-> "full",
     seeding_time |-> 0, total_uploaded |-> "none",
     save_path |-> "library", capped |-> FALSE]

Complete(h) == tor[h].progress = "full"

(* The info remove_torrent gets from Deluge.                               *)
StatusInfo(h) ==
    IF h \notin present THEN NoInfo
    ELSE [seeding_time   |-> tor[h].seeding_time,
          total_uploaded |-> tor[h].total_uploaded,
          is_finished    |-> IF Complete(h) THEN "yes" ELSE "no",
          progress       |-> IF Complete(h) THEN "full" ELSE "partial",
          save_path      |-> IF tor[h].save_path = "library"
                             THEN "library" ELSE "outside"]

(* The answers a request about h may get.                                  *)
Answers(good, failed) == IF RequestsFail THEN {good, failed} ELSE {good}

Plans == [Torrents -> {"skip", "seeded", "orphan", "unstarted"}]

(* A mutant of CleanupPlan: the seeded branch asks for Queued, as the      *)
(* purge does.                                                             *)
CleanupPlanQueued ==
    [h \in Torrents |->
        IF h \in present /\ tor[h].label = "superseded"
           /\ tor[h].state = "Queued" /\ tor[h].seeding_time >= SeedFloor
        THEN "seeded" ELSE "skip"]

(* What cleanup_superseded does with each torrent of a snapshot.  An       *)
(* orphan is only looked for while some torrent of it reads progress.      *)
MountHealthy == Bystander \/ \E h \in present : tor[h].progress # "zero"

CleanupPlan ==
    [h \in Torrents |->
        IF h \notin present \/ tor[h].label # "superseded" THEN "skip"
        ELSE IF tor[h].seeding_time >= SeedFloor THEN "seeded"
        ELSE IF MountHealthy /\ tor[h].progress = "zero" THEN "orphan"
        ELSE "skip"]

(* queued_superseded_targets: Queued and never started, or seeded enough.  *)
NeverStarted(h) ==
    /\ tor[h].seeding_time = 0
    /\ tor[h].total_uploaded = "none"
    /\ ~Complete(h)

PurgePlan ==
    [h \in Torrents |->
        IF \/ h \notin present
           \/ tor[h].label # "superseded" \/ tor[h].state # "Queued"
        THEN "skip"
        ELSE IF tor[h].seeding_time >= SeedFloor THEN "seeded"
        ELSE IF NeverStarted(h) THEN "unstarted"
        ELSE "skip"]

Targets(plan) == {h \in Torrents : plan[h] # "skip"}

-----------------------------------------------------------------------------
SupIdle(h) == [pc |-> "idle", torrent |-> h, inflight |-> "none", doubts |-> {}]

RemIdle(h) == [pc |-> "idle", plan |-> [g \in Torrents |-> "skip"],
               todo |-> {}, torrent |-> h, verdict |-> "keep"]

Init ==
    /\ present = Torrents
    /\ tor \in [Torrents -> {NewTorrent, LibrarySeed}]
    /\ cache = {}
    /\ sup \in [Superseders -> {SupIdle(h) : h \in Torrents}]
    /\ rem \in [Removers -> {RemIdle(h) : h \in Torrents}]

-----------------------------------------------------------------------------
(* supersede_torrent, one request a step.                                  *)

SupGoto(s, next) ==
    sup' = [sup EXCEPT ![s] = IF next = "idle" THEN SupIdle(@.torrent)
                              ELSE [@ EXCEPT !.pc = next]]

(* A replaced or duplicate torrent; callers skip one already superseded.   *)
SupStart(s, h) ==
    /\ sup[s].pc = "idle"
    /\ h \in present
    /\ tor[h].label # "superseded"
    /\ sup' = [sup EXCEPT ![s] = [SupIdle(h) EXCEPT !.pc = "inflight"]]
    /\ UNCHANGED <<present, tor, cache, rem>>

Inflight(h) ==
    IF h \notin present \/ Complete(h) THEN "none"
    ELSE IF tor[h].state = "Paused" THEN "paused" ELSE "active"

(* _torrent_inflight_state: None ("none") for a complete or missing        *)
(* torrent and on any error.                                               *)
SupInflight(s) ==
    /\ sup[s].pc = "inflight"
    /\ \/ sup' = [sup EXCEPT ![s].pc = "label",
                             ![s].inflight = Inflight(sup[s].torrent)]
       \/ /\ RequestsFail
          /\ sup' = [sup EXCEPT ![s].pc = "label", ![s].inflight = "none",
                                ![s].doubts = {"inflight"}]
    /\ UNCHANGED <<present, tor, cache, rem>>

(* The label is set; the snapshot cache is not invalidated.                *)
SupLabel(s) ==
    LET h == sup[s].torrent
    IN  /\ sup[s].pc = "label"
        /\ tor' = IF h \in present
                  THEN [tor EXCEPT ![h].label = "superseded"] ELSE tor
        /\ SupGoto(s, "path")
        /\ UNCHANGED <<present, cache, rem>>

(* A mutant of SupPath: without the fork on the in-flight reading.         *)
SupPathUnforked(s) ==
    /\ sup[s].pc = "path"
    /\ \E path \in Answers(StatusInfo(sup[s].torrent).save_path, "unknown") :
         SupGoto(s, IF path = "library" THEN "idle" ELSE "data")
    /\ UNCHANGED <<present, tor, cache, rem>>

(* The library-seed guard, then the fork on the earlier in-flight reading. *)
SupPath(s) ==
    LET h == sup[s].torrent
    IN  /\ sup[s].pc = "path"
        /\ \E path \in Answers(StatusInfo(h).save_path, "unknown") :
             SupGoto(s, IF path = "library" THEN "idle"
                        ELSE IF sup[s].inflight # "none" THEN "uncap"
                        ELSE "data")
        /\ UNCHANGED <<present, tor, cache, rem>>

(* A mutant of SupUncap: the cap is cleared only for a paused torrent.     *)
SupUncapPaused(s) ==
    LET h == sup[s].torrent
    IN  /\ sup[s].pc = "uncap"
        /\ tor' = IF h \in present /\ sup[s].inflight = "paused"
                  THEN [tor EXCEPT ![h].capped = FALSE] ELSE tor
        /\ SupGoto(s, IF sup[s].inflight = "paused" THEN "resume" ELSE "idle")
        /\ UNCHANGED <<present, cache, rem>>

(* release_inflight_superseded: clear the cap, then resume if it was       *)
(* paused; any failure ends it.                                            *)
SupUncap(s) ==
    LET h == sup[s].torrent
    IN  /\ sup[s].pc = "uncap"
        /\ \/ /\ tor' = IF h \in present
                        THEN [tor EXCEPT ![h].capped = FALSE] ELSE tor
              /\ SupGoto(s, IF sup[s].inflight = "paused" THEN "resume"
                            ELSE "idle")
           \/ /\ RequestsFail
              /\ SupGoto(s, "idle")
              /\ UNCHANGED tor
        /\ UNCHANGED <<present, cache, rem>>

SupResume(s) ==
    LET h == sup[s].torrent
    IN  /\ sup[s].pc = "resume"
        /\ tor' = IF h \in present /\ tor[h].state = "Paused"
                  THEN [tor EXCEPT ![h].state =
                          IF Complete(h) THEN "Seeding" ELSE "Downloading"]
                  ELSE tor
        /\ SupGoto(s, "idle")
        /\ UNCHANGED <<present, cache, rem>>

HasData(h) == h \notin present \/ tor[h].progress # "zero"

(* _torrent_has_local_data: TRUE on any doubt.                             *)
SupData(s) ==
    /\ sup[s].pc = "data"
    /\ \/ SupGoto(s, IF HasData(sup[s].torrent) THEN "move" ELSE "idle")
       \/ /\ RequestsFail
          /\ sup' = [sup EXCEPT ![s].pc = "move", ![s].doubts = @ \union {"data"}]
    /\ UNCHANGED <<present, tor, cache, rem>>

(* move_torrent_storage to SEEDING_DIR; it invalidates the snapshots.      *)
SupMove(s) ==
    LET h == sup[s].torrent
    IN  /\ sup[s].pc = "move"
        /\ tor' = IF h \in present
                  THEN [tor EXCEPT ![h].save_path = "seeding"] ELSE tor
        /\ cache' = {}
        /\ SupGoto(s, "idle")
        /\ UNCHANGED <<present, rem>>

-----------------------------------------------------------------------------
(* cleanup_superseded and purge_queued_superseded.                         *)

StartPass(r, plan) ==
    rem' = [rem EXCEPT ![r].pc = "loop", ![r].plan = plan,
                       ![r].todo = Targets(plan)]

(* The daily pass: a cached snapshot, or a fresh one that is then cached.  *)
CleanupStart ==
    /\ "cleanup" \in Removers /\ rem["cleanup"].pc = "idle"
    /\ \E plan \in IF cache = {} THEN {CleanupPlan} ELSE cache :
         StartPass("cleanup", plan) /\ cache' = {plan}
    /\ UNCHANGED <<present, tor, sup>>

(* The purge after an import, or its route: always a fresh snapshot; a     *)
(* batch over the cap is skipped whole.                                    *)
PurgeStart ==
    /\ "purge" \in Removers /\ rem["purge"].pc = "idle"
    /\ Targets(PurgePlan) # {}
    /\ Cardinality(Targets(PurgePlan)) <= PurgeQueuedMaxBatch
    /\ StartPass("purge", PurgePlan)
    /\ cache' = {CleanupPlan}
    /\ UNCHANGED <<present, tor, sup>>

(* remove_torrent's reading of a torrent of the pass: what the caller      *)
(* passed, over what Deluge answers.                                       *)
InfoOf(r, h, fetched) ==
    CASE r = "cleanup" -> fetched
      [] r = "purge" /\ rem[r].plan[h] = "seeded" ->
            Merge(fetched, [NoInfo EXCEPT !.seeding_time = SeedFloor])
      [] OTHER -> Merge(fetched, [NoInfo EXCEPT !.seeding_time = 0])

RemIsNext(r, h) ==
    /\ rem[r].pc = "loop"
    /\ h \in rem[r].todo

(* An orphan of the snapshot that has data after all is left alone, and    *)
(* the seed floor defers.                                                  *)
RemSkip(r, h) ==
    /\ RemIsNext(r, h)
    /\ \/ /\ rem[r].plan[h] = "orphan"
          /\ TRUE \in Answers(h \notin present \/ tor[h].progress # "zero",
                             TRUE)
       \/ \E fetched \in Answers(StatusInfo(h), NoInfo) :
             FloorBlocks(InfoOf(r, h, fetched))
    /\ rem' = [rem EXCEPT ![r].todo = @ \ {h}]
    /\ UNCHANGED <<present, tor, cache, sup>>

(* The removal is decided, with the files or without.                      *)
RemDecide(r, h) ==
    /\ RemIsNext(r, h)
    /\ rem[r].plan[h] = "orphan" => h \in present /\ tor[h].progress = "zero"
    /\ \E fetched \in Answers(StatusInfo(h), NoInfo) :
         LET info == InfoOf(r, h, fetched)
         IN  /\ ~FloorBlocks(info)
             /\ rem' = [rem EXCEPT
                   ![r].pc = "act", ![r].torrent = h, ![r].todo = @ \ {h},
                   ![r].verdict = IF /\ rem[r].plan[h] # "orphan"
                                     /\ info.save_path = "outside"
                                  THEN "erase" ELSE "keep"]
    /\ UNCHANGED <<present, tor, cache, sup>>

(* core.remove_torrent; neither pass looks at the label again.             *)
RemAct(r) ==
    /\ rem[r].pc = "act"
    /\ present' = present \ {rem[r].torrent}
    /\ cache' = {}
    /\ rem' = [rem EXCEPT ![r].pc = "loop"]
    /\ UNCHANGED <<tor, sup>>

(* The request fails: the cleanup gives up, the purge goes on.             *)
RemFail(r) ==
    /\ RequestsFail
    /\ rem[r].pc = "act"
    /\ rem' = [rem EXCEPT ![r].pc = IF r = "cleanup" THEN "idle" ELSE "loop",
                          ![r].todo = IF r = "cleanup" THEN {} ELSE @]
    /\ UNCHANGED <<present, tor, cache, sup>>

RemEnd(r) ==
    /\ rem[r].pc = "loop" /\ rem[r].todo = {}
    /\ rem' = [rem EXCEPT ![r] = RemIdle(rem[r].torrent)]
    /\ UNCHANGED <<present, tor, cache, sup>>

-----------------------------------------------------------------------------
(* The rest of the service, one step each.                                 *)

Relabel(h, label) ==
    /\ h \in present
    /\ tor' = [tor EXCEPT ![h].label = label]
    /\ UNCHANGED <<present, cache, sup, rem>>

(* An upgrade grab enters the throttled lane: the label applies the cap.   *)
Grab(h) ==
    /\ h \in present
    /\ ~(tor[h].label = "upgrade" /\ ~Complete(h))
    /\ ~(tor[h].label = "superseded" /\ Complete(h))
    /\ tor' = [tor EXCEPT ![h].label = "upgrade", ![h].capped = TRUE]
    /\ UNCHANGED <<present, cache, sup, rem>>

(* A grab of a complete superseded torrent brings it back.                 *)
Revive(h) ==
    /\ tor[h].label = "superseded" /\ Complete(h)
    /\ Relabel(h, "base")

(* /revert-superseded and /torrent-relabel.                                *)
Revert(h) ==
    /\ tor[h].label = "superseded"
    /\ Relabel(h, "base")

(* A completed upgrade gets its base label back at import.                 *)
ImportFlip(h) ==
    /\ tor[h].label = "upgrade" /\ Complete(h)
    /\ Relabel(h, "base")

(* A mutant of Poll: an older snapshot is kept beside the new one.         *)
PollKeeping ==
    /\ cache' = cache \cup {CleanupPlan}
    /\ UNCHANGED <<present, tor, sup, rem>>

(* A poller fills the shared snapshot, or its TTL passes.                  *)
Poll ==
    /\ cache = {}
    /\ cache' = {CleanupPlan}
    /\ UNCHANGED <<present, tor, sup, rem>>

Expire ==
    /\ cache # {}
    /\ cache' = {}
    /\ UNCHANGED <<present, tor, sup, rem>>

-----------------------------------------------------------------------------
(* Deluge and what happens to it.                                          *)

SetTor(h, t) ==
    /\ h \in present
    /\ tor' = [tor EXCEPT ![h] = t]
    /\ UNCHANGED <<present, cache, sup, rem>>

Start(h) ==
    /\ tor[h].state = "Queued"
    /\ SetTor(h, [tor[h] EXCEPT !.state = IF Complete(h) THEN "Seeding"
                                          ELSE "Downloading"])

Halt(h) ==
    /\ tor[h].state \in {"Downloading", "Seeding"}
    /\ \E s \in {"Queued", "Paused"} : SetTor(h, [tor[h] EXCEPT !.state = s])

Download(h) ==
    /\ tor[h].state = "Downloading"
    /\ \/ /\ tor[h].progress = "zero"
          /\ SetTor(h, [tor[h] EXCEPT !.progress = "some"])
       \/ /\ tor[h].progress = "some"
          /\ SetTor(h, [tor[h] EXCEPT !.progress = "full",
                                     !.state = "Seeding"])

Upload(h) ==
    /\ tor[h].state \in {"Downloading", "Seeding"}
    /\ tor[h].progress # "zero" /\ tor[h].total_uploaded = "none"
    /\ SetTor(h, [tor[h] EXCEPT !.total_uploaded = "some"])

Seed(h) ==
    /\ tor[h].state = "Seeding" /\ tor[h].seeding_time < MaxSeed
    /\ SetTor(h, [tor[h] EXCEPT !.seeding_time = @ + 1])

(* What a call has read of h that no longer holds when its data goes.      *)
Outdated(s, h) ==
    IF sup[s].torrent # h \/ sup[s].inflight # "none" THEN {}
    ELSE CASE sup[s].pc \in {"label", "path", "data"} -> {"inflight"}
           [] sup[s].pc = "move" -> {"inflight", "data"}
           [] OTHER -> {}

(* An import that does not hardlink destroys the old copy: after a recheck *)
(* Deluge reads it as a paused torrent without data.                       *)
Vanish(h) ==
    /\ ~Hardlinks
    /\ h \in present /\ Complete(h) /\ tor[h].save_path # "library"
    /\ tor' = [tor EXCEPT ![h].progress = "zero", ![h].state = "Paused"]
    /\ sup' = [s \in Superseders |-> [sup[s] EXCEPT !.doubts = @ \union Outdated(s, h)]]
    /\ UNCHANGED <<present, cache, rem>>

DelugeStep(h) ==
    Start(h) \/ Halt(h) \/ Download(h) \/ Upload(h) \/ Seed(h)

SupStep(s) ==
    \/ \E h \in Torrents : SupStart(s, h)
    \/ SupInflight(s) \/ SupLabel(s) \/ SupPath(s) \/ SupUncap(s)
    \/ SupResume(s) \/ SupData(s) \/ SupMove(s)

RemStep(r) ==
    \/ \E h \in Torrents : RemSkip(r, h) \/ RemDecide(r, h)
    \/ RemAct(r) \/ RemFail(r) \/ RemEnd(r)

LabelStep(h) == Grab(h) \/ Revive(h) \/ Revert(h) \/ ImportFlip(h)

Next ==
    \/ \E s \in Superseders : SupStep(s)
    \/ CleanupStart \/ PurgeStart
    \/ \E r \in Removers : RemStep(r)
    \/ \E h \in Torrents : LabelStep(h) \/ DelugeStep(h) \/ Vanish(h)
    \/ Poll \/ Expire

Spec == Init /\ [][Next]_vars

-----------------------------------------------------------------------------
TypeOK ==
    /\ present \subseteq Torrents
    /\ tor \in [Torrents -> Torrent]
    /\ cache \in SUBSET Plans /\ Cardinality(cache) <= 1
    /\ sup \in [Superseders ->
         [pc : {"idle", "inflight", "label", "path", "uncap", "resume",
                "data", "move"},
          torrent : Torrents,
          inflight : {"none", "active", "paused"},
          doubts : SUBSET {"inflight", "data"}]]
    /\ rem \in [Removers ->
         [pc : {"idle", "loop", "act"}, plan : Plans,
          todo : SUBSET Torrents, torrent : Torrents,
          verdict : {"keep", "erase"}]]

Superseding(h) ==
    \E s \in Superseders : sup[s].pc # "idle" /\ sup[s].torrent = h

(* A torrent superseded while it downloads keeps no throttled-lane cap     *)
(* (the per-torrent limit persists across the relabel, and a forgotten one *)
(* would let it crawl forever), also when two threads supersede it at once *)
(* and a repeated grab puts it back in the lane in between: as requests    *)
(* succeed and imports hardlink.                                           *)
SupersededUncapped ==
    \A h \in present :
        (/\ tor[h].label = "superseded" /\ tor[h].state = "Downloading"
         /\ ~Superseding(h))
          => ~tor[h].capped

(* Partial data is not moved mid-download, and a torrent without any is    *)
(* not moved at all (696-710), whatever is relabelled, resumed, downloaded *)
(* and removed between the two readings that forbid it and the move: save  *)
(* where the very reading got no answer, or the data went after it.        *)
MovedAsRead ==
    [][\A s \in Superseders : LET h == sup[s].torrent IN
         sup[s].pc = "move" /\ sup'[s].pc # "move" /\ h \in present =>
           /\ tor[h].progress = "zero" => "data" \in sup[s].doubts
           /\ tor[h].progress = "some" => "inflight" \in sup[s].doubts]_vars

(* What makes it so: a reading that is not in doubt still holds.           *)
ReadingsStand ==
    \A s \in Superseders : LET h == sup[s].torrent IN
        /\ sup[s].pc \in {"data", "move"} => sup[s].inflight = "none"
        /\ (/\ sup[s].pc \in {"label", "path", "data", "move"} /\ h \in present
            /\ sup[s].inflight = "none" /\ "inflight" \notin sup[s].doubts)
              => Complete(h)
        /\ sup[s].pc = "move" /\ "data" \notin sup[s].doubts => HasData(h)

(* What makes SupersededUncapped so, as requests succeed and imports       *)
(* hardlink: no reading is ever in doubt; a cap that comes back while a    *)
(* torrent is superseded again is one its new thread has yet to clear.     *)
FinishedRests ==
    \A h \in Torrents :
        /\ Complete(h) => tor[h].state # "Downloading"
        /\ tor[h].save_path = "library" => Complete(h)

NoDoubts == \A s \in Superseders : sup[s].doubts = {}

CapsCleared ==
    \A h \in present :
        tor[h].label = "superseded" /\ tor[h].capped /\ ~Complete(h)
          => \E s \in Superseders :
                /\ sup[s].torrent = h /\ sup[s].pc \in {"path", "uncap"}
                /\ sup[s].inflight # "none"

Inv ==
    TypeOK /\ FinishedRests /\ ReadingsStand /\ NoDoubts /\ CapsCleared

-----------------------------------------------------------------------------
(* Fairness.  The cleanup thread runs its pass again and again and each of *)
(* its requests is answered again and again; snapshots expire; Deluge      *)
(* seeds what it lists as Seeding.  Nothing is assumed of the webhooks,    *)
(* the operator or the purge.                                              *)
Fairness ==
    /\ WF_vars(CleanupStart)
    /\ WF_vars(\E h \in Torrents :
                  RemSkip("cleanup", h) \/ RemDecide("cleanup", h))
    /\ \A h \in Torrents : SF_vars(RemDecide("cleanup", h))
    /\ SF_vars(RemAct("cleanup"))
    /\ WF_vars(RemAct("cleanup") \/ RemFail("cleanup"))
    /\ WF_vars(RemEnd("cleanup"))
    /\ WF_vars(Expire)
    /\ \A h \in Torrents : WF_vars(Seed(h))

FairSpec == Spec /\ Fairness

(* Nothing piles up: no torrent stays superseded and seeding forever, even *)
(* when snapshots are stale, requests fail now and then and passes are cut *)
(* short.                                                                  *)
SupersededReaped ==
    \A h \in Torrents :
        ~<>[](/\ h \in present
              /\ tor[h].label = "superseded" /\ tor[h].state = "Seeding")
=============================================================================

--------------------------- MODULE TorrentRemoval ---------------------------
(***************************************************************************)
(* remove_torrent (src/arr-webhook.py:723): the one path by which the      *)
(* service drops a torrent from Deluge.  Webhook threads, scheduler        *)
(* threads and HTTP routes ("workers") call it concurrently; each call is  *)
(* a sequence of JSON-RPC requests, and Deluge, the *arrs and the other    *)
(* workers move between two of them.                                       *)
(*                                                                         *)
(* Data is abstracted to what the decisions tell apart: an upload count is *)
(* "none" or "some", a progress "partial" or "full" (100), a save path     *)
(* "library" (is_library_path) or "outside"; "unknown" is a field absent   *)
(* from a dict or None in it.  Seeding time is counted in units, of which  *)
(* SeedFloor are SEED_DAYS days.                                           *)
(***************************************************************************)
EXTENDS SeedFloorRules

CONSTANTS
    Torrents,   \* torrent hashes
    Workers,    \* threads that may call remove_torrent
    MaxSeed     \* bound: seeding time a torrent accrues in the model

ASSUME SeedAssumption ==
    /\ MaxSeed \in Nat
    /\ SeedFloor <= MaxSeed

VARIABLES
    present,  \* hashes Deluge knows
    deluge,   \* Deluge's status of each torrent (its last one once removed)
    data,     \* "kept" or "erased": what became of the torrent's files
    audit,    \* lines log_removal wrote for the torrent since it was added
    pc,       \* where each worker is in remove_torrent
    job,      \* the locals of its call: hash, remove_data, info
    owed      \* history: did the torrent owe seeding when the call began?

vars == <<present, deluge, data, audit, pc, job, owed>>
env  == <<deluge, data, audit>>

-----------------------------------------------------------------------------
(* What Deluge reports, and what a dict of the code may hold of it.        *)

Status ==
    [seeding_time   : 0..MaxSeed,
     total_uploaded : {"none", "some"},
     is_finished    : {"no", "yes"},
     progress       : {"partial", "full"},
     save_path      : {"library", "outside"}]

Info ==
    [seeding_time   : {UnknownTime} \cup (0..MaxSeed),
     total_uploaded : {"none", "some", "unknown"},
     is_finished    : {"no", "yes", "unknown"},
     progress       : {"partial", "full", "unknown"},
     save_path      : {"library", "outside", "unknown"}]

NewTorrent ==
    [seeding_time |-> 0, total_uploaded |-> "none", is_finished |-> "no",
     progress |-> "partial", save_path |-> "outside"]

Jobs == [torrent : Torrents, remove_data : BOOLEAN, given : BOOLEAN,
         info : Info]

(* The reply to core.get_torrent_status: {} for a hash Deluge has dropped. *)
Reply(h) == IF h \in present THEN deluge[h] ELSE NoInfo

(* A mutant of EraseAllowed: an unknown path passes.                       *)
EraseUnlessLibrary(j) == j.remove_data /\ j.info.save_path # "library"

(* The library-seed guard: only a known path outside the library may lose  *)
(* its files.                                                              *)
EraseAllowed(j) == j.remove_data /\ j.info.save_path = "outside"

NeedsPrefetch(j) ==
    /\ j.given \/ ~j.remove_data
    /\ \/ j.info.seeding_time = UnknownTime
       \/ /\ j.info.seeding_time < SeedFloor
          /\ "unknown" \in {j.info.progress, j.info.total_uploaded,
                            j.info.is_finished}

(* The next request of a call whose prefetch is done or not needed.        *)
NextRequest(j) ==
    IF ~j.remove_data THEN "decide"
    ELSE IF ~j.given THEN "fetch"
    ELSE IF j.info.save_path = "unknown" THEN "probe"
    ELSE "decide"

(* Seeding a tracker could ask for: it has uploaded or has begun to seed.  *)
Owes(h) == deluge[h].seeding_time > 0 \/ deluge[h].total_uploaded = "some"

-----------------------------------------------------------------------------
Init ==
    /\ present = Torrents
    /\ deluge \in [Torrents -> {[NewTorrent EXCEPT !.save_path = p] :
                                   p \in {"library", "outside"}}]
    /\ data = [h \in Torrents |-> "kept"]
    /\ audit = [h \in Torrents |-> 0]
    /\ pc = [w \in Workers |-> "idle"]
    /\ job \in [Workers -> {[torrent |-> h, remove_data |-> FALSE,
                             given |-> FALSE, info |-> NoInfo] :
                               h \in Torrents}]
    /\ owed = [w \in Workers |-> FALSE]

(***************************************************************************)
(* A worker decides to remove h, which its snapshot of Deluge showed.      *)
(* Every caller but one passes no info; purge_queued_superseded passes the *)
(* seeding time of its snapshot, which may be missing.  The time between   *)
(* the snapshot and the first request of the call is the time the worker   *)
(* stays at that request.                                                  *)
(***************************************************************************)
Begin(w, h, removeData, given, info) ==
    LET j == [torrent |-> h, remove_data |-> removeData, given |-> given,
              info |-> info]
    IN  /\ pc[w] = "idle"
        /\ h \in present
        /\ job' = [job EXCEPT ![w] = j]
        /\ pc' = [pc EXCEPT ![w] = IF NeedsPrefetch(j) THEN "prefetch"
                                   ELSE NextRequest(j)]
        /\ owed' = [owed EXCEPT ![w] = Owes(h)]
        /\ UNCHANGED <<present, env>>

Call(w, h, removeData) == Begin(w, h, removeData, FALSE, NoInfo)

(* Its targets never started or have seeded enough in that snapshot, where *)
(* a missing seeding time reads as 0.                                      *)
CallPurgeQueued(w, h) ==
    \E st \in {deluge[h].seeding_time, UnknownTime} :
        /\ \/ /\ st \in {0, UnknownTime}
              /\ deluge[h].total_uploaded = "none"
              /\ deluge[h].is_finished = "no"
           \/ st >= SeedFloor
        /\ Begin(w, h, TRUE, TRUE, [NoInfo EXCEPT !.seeding_time = st])

(* The first status request; when it fails the call goes on with the       *)
(* caller's info, or with {}.                                              *)
Prefetch(w) ==
    LET j == job[w]
    IN  /\ pc[w] = "prefetch"
        /\ \E fetched \in {Reply(j.torrent), NoInfo} :
             LET k == [j EXCEPT !.given = TRUE,
                                !.info = Merge(fetched, j.info)]
             IN  /\ job' = [job EXCEPT ![w] = k]
                 /\ pc' = [pc EXCEPT ![w] = NextRequest(k)]
        /\ UNCHANGED <<present, env, owed>>

(* The status request of a data removal called without info.               *)
Fetch(w) ==
    /\ pc[w] = "fetch"
    /\ \E fetched \in {Reply(job[w].torrent), NoInfo} :
         job' = [job EXCEPT ![w].info = fetched]
    /\ pc' = [pc EXCEPT ![w] = "decide"]
    /\ UNCHANGED <<present, env, owed>>

(* _torrent_save_path for a caller that passed none.                       *)
Probe(w) ==
    /\ pc[w] = "probe"
    /\ \E path \in {Reply(job[w].torrent).save_path, "unknown"} :
         job' = [job EXCEPT ![w].info.save_path = path]
    /\ pc' = [pc EXCEPT ![w] = "decide"]
    /\ UNCHANGED <<present, env, owed>>

(* The seed floor: nothing is sent, the caller gets DEFERRED.              *)
Defer(w) ==
    /\ pc[w] = "decide"
    /\ FloorBlocks(job[w].info)
    /\ pc' = [pc EXCEPT ![w] = "idle"]
    /\ UNCHANGED <<present, env, job, owed>>

(***************************************************************************)
(* core.remove_torrent.  Deluge drops the torrent, and its files if asked; *)
(* for a hash it no longer has it answers HTTP 200 with a JSON-RPC error,  *)
(* which the code does not read: it logs the removal all the same.         *)
(***************************************************************************)
Drop(w) ==
    LET h == job[w].torrent
    IN  /\ present' = present \ {h}
        /\ data' = IF h \in present /\ EraseAllowed(job[w])
                   THEN [data EXCEPT ![h] = "erased"] ELSE data

Remove(w) ==
    /\ pc[w] = "decide"
    /\ ~FloorBlocks(job[w].info)
    /\ Drop(w)
    /\ audit' = [audit EXCEPT ![job[w].torrent] = @ + 1]
    /\ pc' = [pc EXCEPT ![w] = "idle"]
    /\ UNCHANGED <<deluge, job, owed>>

(* The request is executed, its answer is lost (a timeout): the call       *)
(* raises before log_removal.                                              *)
RemoveUnanswered(w) ==
    /\ pc[w] = "decide"
    /\ ~FloorBlocks(job[w].info)
    /\ Drop(w)
    /\ pc' = [pc EXCEPT ![w] = "idle"]
    /\ UNCHANGED <<deluge, audit, job, owed>>

(* The request does not reach Deluge, or the process restarts.             *)
Abort(w) ==
    /\ pc[w] # "idle"
    /\ pc' = [pc EXCEPT ![w] = "idle"]
    /\ UNCHANGED <<present, env, job, owed>>

-----------------------------------------------------------------------------
(* Deluge and the *arrs.                                                   *)

Transfer(h) ==
    \/ /\ deluge[h].progress = "partial"
       /\ deluge' = [deluge EXCEPT ![h].progress = "full",
                                   ![h].is_finished = "yes"]
    \/ /\ deluge[h].total_uploaded = "none"
       /\ deluge' = [deluge EXCEPT ![h].total_uploaded = "some"]
    \/ /\ deluge[h].progress = "full"
       /\ deluge[h].seeding_time < MaxSeed
       /\ deluge' = [deluge EXCEPT ![h].seeding_time = @ + 1]

(* A recheck against a dropped mount: complete data reads as missing.      *)
LoseData(h) ==
    /\ deluge[h].progress = "full"
    /\ deluge' = [deluge EXCEPT ![h].progress = "partial",
                                ![h].is_finished = "no"]

(* Storage moves: the service's own refuse a library destination           *)
(* (move_torrent_storage, torrent_move, the relink of                      *)
(* deluge_error_repair), season_migration moves out of the library.        *)
MoveStorage(h) ==
    /\ deluge[h].save_path = "library"
    /\ deluge' = [deluge EXCEPT ![h].save_path = "outside"]

DelugeStep(h) ==
    /\ h \in present
    /\ Transfer(h) \/ LoseData(h) \/ MoveStorage(h)
    /\ UNCHANGED <<present, data, audit, pc, job, owed>>

(* An *arr grabs the hash again.  Bound: not while a call on its earlier   *)
(* life is in flight.                                                      *)
Readd(h) ==
    /\ h \notin present
    /\ \A w \in Workers : pc[w] # "idle" => job[w].torrent # h
    /\ present' = present \cup {h}
    /\ deluge' = [deluge EXCEPT ![h] = NewTorrent]
    /\ data' = [data EXCEPT ![h] = "kept"]
    /\ audit' = [audit EXCEPT ![h] = 0]
    /\ UNCHANGED <<pc, job, owed>>

WorkerStep(w) ==
    \/ \E h \in Torrents, removeData \in BOOLEAN : Call(w, h, removeData)
    \/ \E h \in Torrents : CallPurgeQueued(w, h)
    \/ Prefetch(w)
    \/ Fetch(w)
    \/ Probe(w)
    \/ Defer(w)
    \/ Remove(w)
    \/ RemoveUnanswered(w)
    \/ Abort(w)

Next ==
    \/ \E w \in Workers : WorkerStep(w)
    \/ \E h \in Torrents : DelugeStep(h) \/ Readd(h)

Spec == Init /\ [][Next]_vars

-----------------------------------------------------------------------------
TypeOK ==
    /\ present \subseteq Torrents
    /\ deluge \in [Torrents -> Status]
    /\ data \in [Torrents -> {"kept", "erased"}]
    /\ audit \in [Torrents -> Nat]
    /\ pc \in [Workers -> {"idle", "prefetch", "fetch", "probe", "decide"}]
    /\ job \in [Workers -> Jobs]
    /\ owed \in [Workers -> BOOLEAN]

(* No hit-and-run: a torrent that already owed seeding when its removal    *)
(* was asked for stays until it has seeded SEED_DAYS, whatever the calling *)
(* thread's snapshot said, whichever request failed, and whatever Deluge   *)
(* did between two requests (the seed floor of remove_torrent).            *)
ObligationKept ==
    [][\A w \in Workers :
          (/\ job[w].torrent \in present \ present'
           /\ pc[w] = "decide" /\ pc'[w] = "idle"
           /\ owed[w])
             => deluge[job[w].torrent].seeding_time >= SeedFloor]_vars

(* No library loss: the files of a torrent are erased only when they lie   *)
(* outside the Plex library at that moment, even though the path was read  *)
(* some requests earlier, or could not be read (the library-seed guard).   *)
LibraryFilesSurvive ==
    \A h \in Torrents : data[h] = "erased" => deluge[h].save_path = "outside"

(* What a call in flight may rely on, however long ago it read it: a path  *)
(* outside the library stays outside, and a torrent that owed seeding when *)
(* the call began still does and has not been read as never-seeded.        *)
CallsStayValid ==
    \A w \in Workers :
        LET h == job[w].torrent
            i == job[w].info
        IN  pc[w] # "idle" /\ h \in present =>
              /\ i.save_path = "outside" => deluge[h].save_path = "outside"
              /\ owed[w] =>
                   /\ Owes(h)
                   /\ i.seeding_time <= deluge[h].seeding_time
                   /\ i.seeding_time = 0 => deluge[h].total_uploaded = "some"
                   /\ i.total_uploaded = "none" => i.seeding_time > 0

Inv == TypeOK /\ LibraryFilesSurvive /\ CallsStayValid

-----------------------------------------------------------------------------
(* The removal path implements SeedPromise.                                *)
Standing(h) ==
    IF h \notin present THEN "gone"
    ELSE IF deluge[h].seeding_time >= SeedFloor THEN "paid"
    ELSE IF Owes(h) THEN "owing"
    ELSE "free"

InFlightUnowed == {w \in Workers : pc[w] # "idle" /\ ~owed[w]}

Promise == INSTANCE SeedPromise WITH
    standing  <- [h \in Torrents |-> Standing(h)],
    asked     <- {job[w].torrent : w \in InFlightUnowed},
    inLibrary <- {h \in Torrents : deluge[h].save_path = "library"},
    erased    <- {h \in Torrents : data[h] = "erased"}

(* Whatever the interleaving of calls, failed requests and Deluge's own    *)
(* steps, remove_torrent behaves as SeedPromise: no torrent is dropped     *)
(* while it owes seeding, no library file is erased.                       *)
KeepsPromise == Promise!Spec
=============================================================================

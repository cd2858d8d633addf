----------------------------- MODULE QueueDupes -----------------------------
(***************************************************************************)
(* The duplicate passes of src/arr-webhook.py over one movie or one series *)
(* (cleanup_radarr_queue_dupes, cleanup_sonarr_queue_dupes): grab threads  *)
(* and schedulers run them one at a time, each reading the *arr's queue,   *)
(* then Deluge, and then dropping every release that a better one covers,  *)
(* while grabs, downloads and imports go on.                               *)
(*                                                                         *)
(* A movie is one episode here, so that all its releases cover the same    *)
(* set, and Radarr's pass is Sonarr's with the keeper gate.  Groups of     *)
(* other movies or series do not interact.  Codec and custom-format score  *)
(* are one number.  dry_run changes nothing, and the promotion of a keeper *)
(* moves queue positions only: neither is here.                            *)
(***************************************************************************)
EXTENDS Integers, FiniteSets

CONSTANTS
    Releases,     \* torrent hashes
    Episodes,     \* what may be wanted: one movie, or episodes of a series
    Covers,       \* the episodes a release delivers
    Score,        \* its codec rank and custom-format score
    Passes,       \* threads that run a pass
    KeeperGate,   \* TRUE: Radarr, a keeper must be imported; FALSE: Sonarr
    QueueLag,     \* TRUE: the *arr's queue is refreshed now and then
    RequestsFail  \* TRUE: a request may fail, a history record be late

ASSUME DupesAssumption ==
    /\ IsFiniteSet(Releases) /\ IsFiniteSet(Episodes)
    /\ "free" \notin Passes
    /\ Covers \in [Releases -> (SUBSET Episodes) \ {{}}]
    /\ Score \in [Releases -> Nat]
    /\ KeeperGate \in BOOLEAN
    /\ QueueLag \in BOOLEAN
    /\ RequestsFail \in BOOLEAN

VARIABLES
    tor,       \* label and progress of each release in Deluge
    records,   \* the *arr's queue as last refreshed
    dropped,   \* releases whose queue record was deleted for good
    imported,  \* releases with a downloadFolderImported record
    lock,      \* _queue_dupe_lock: its holder, or "free"
    pass       \* the locals of each pass

vars == <<tor, records, dropped, imported, lock, pass>>

Zero == 0   \* progress, as far as decisions go
Some == 1
Full == 2   \* 99% and more

NoRecord == -1

Present(r) == tor[r].label # "absent"
InLane(r) == tor[r].label = "upgrade"

(* Still going to be imported.                                             *)
Live(r) == tor[r].label \in {"base", "upgrade"} /\ r \notin dropped

(* The *arr lists what carries its category label, until it is imported.   *)
Listed(r) == tor[r].label = "base" /\ r \notin dropped \cup imported

Listing == [r \in Releases |-> IF Listed(r) THEN tor[r].progress ELSE NoRecord]

Queue == IF QueueLag THEN records ELSE Listing

-----------------------------------------------------------------------------
(* Candidates, keepers and losers of one pass: "view" is the queue as the  *)
(* pass read it, "lane" the throttled torrents it could identify.          *)

Queued(view) == {r \in Releases : view[r] # NoRecord}

Candidates(view, lane) == Queued(view) \cup lane

Progress(view, r) == IF view[r] # NoRecord THEN view[r] ELSE tor[r].progress

(* The sort key: coverage, score, bytes pulled, then the queue id; a lane  *)
(* torrent has none and comes last, in the order Deluge listed them.       *)
Better(view, place, a, b) ==
    LET ca == Cardinality(Covers[a])  cb == Cardinality(Covers[b])
        pa == Progress(view, a)       pb == Progress(view, b)
        qa == a \in Queued(view)      qb == b \in Queued(view)
    IN  \/ ca > cb
        \/ ca = cb /\ Score[a] > Score[b]
        \/ ca = cb /\ Score[a] = Score[b] /\ pa > pb
        \/ ca = cb /\ Score[a] = Score[b] /\ pa = pb /\ qa /\ ~qb
        \/ /\ ca = cb /\ Score[a] = Score[b] /\ pa = pb /\ qa = qb
           /\ place[a] < place[b]

(* A mutant of Keepers: a candidate with the very set of another stays.    *)
KeepersStrict(cands, view, place) ==
    {r \in cands : \A k \in cands :
        Covers[r] \subseteq Covers[k] /\ Covers[r] # Covers[k]
            => ~Better(view, place, k, r)}

(* The loop over the sorted candidates keeps one that no kept one covers.  *)
(* As covering is transitive: one that no better one covers.               *)
Keepers(cands, view, place) ==
    {r \in cands : \A k \in cands :
        Covers[r] \subseteq Covers[k] => ~Better(view, place, k, r)}

(* The first keeper that covers r.                                         *)
KeeperOf(r, keepers, view, place) ==
    LET covering == {k \in keepers : Covers[r] \subseteq Covers[k]}
    IN  CHOOSE k \in covering :
            \A l \in covering \ {k} : Better(view, place, k, l)

(* What becomes of a loser: an unknown one is removed through the *arr, a  *)
(* known one loses its queue record and is superseded, as one of the lane. *)
How(view, r) ==
    CASE r \notin Queued(view) -> "lane"
      [] Present(r) -> "record"
      [] OTHER -> "client"

Jobs == [item : Releases, keeper : Releases,
         how : {"lane", "record", "client"}]

JobsOf(view, lane, place) ==
    LET cands == Candidates(view, lane)
        keepers == Keepers(cands, view, place)
    IN  {[item |-> r, keeper |-> KeeperOf(r, keepers, view, place),
          how |-> How(view, r)] : r \in cands \ keepers}

Places == {f \in [Releases -> 1..Cardinality(Releases)] :
             \A a, b \in Releases : f[a] = f[b] => a = b}

-----------------------------------------------------------------------------
NoView == [r \in Releases |-> NoRecord]

Idle == [pc |-> "idle", view |-> NoView, jobs |-> {}]

Init ==
    /\ tor = [r \in Releases |-> [label |-> "absent", progress |-> Zero]]
    /\ records = NoView
    /\ dropped = {}
    /\ imported = {}
    /\ lock = "free"
    /\ pass = [p \in Passes |-> Idle]

Goto(p, next) == pass' = [pass EXCEPT ![p].pc = next]

(* A mutant of Start: the pass does not wait for the lock.                 *)
StartUnlocked(p) ==
    /\ pass[p].pc = "idle"
    /\ lock' = p
    /\ Goto(p, "queue")
    /\ UNCHANGED <<tor, records, dropped, imported>>

(* _serialized: from a grab thread or a scheduler.                         *)
Start(p) ==
    /\ pass[p].pc = "idle"
    /\ lock = "free"
    /\ lock' = p
    /\ Goto(p, "queue")
    /\ UNCHANGED <<tor, records, dropped, imported>>

ReadQueue(p) ==
    /\ pass[p].pc = "queue"
    /\ pass' = [pass EXCEPT ![p].view = Queue, ![p].pc = "deluge"]
    /\ UNCHANGED <<tor, records, dropped, imported, lock>>

ReadQueueFails(p) ==
    /\ RequestsFail
    /\ pass[p].pc = "queue"
    /\ Goto(p, "end")
    /\ UNCHANGED <<tor, records, dropped, imported, lock>>

(* A fresh status of all torrents, then the grab history of each unfinished *)
(* lane torrent without a queue record; one without history is left alone. *)
ReadDeluge(p) ==
    LET view == pass[p].view
        lane == {r \in Releases : InLane(r) /\ r \notin Queued(view)
                                    /\ tor[r].progress < Full}
    IN  /\ pass[p].pc = "deluge"
        /\ \E known \in IF RequestsFail THEN SUBSET lane ELSE {lane},
              place \in Places :
             pass' = [pass EXCEPT ![p] = [pc |-> "drop", view |-> NoView,
                                          jobs |-> JobsOf(view, known, place)]]
        /\ UNCHANGED <<tor, records, dropped, imported, lock>>

(* Deluge unreachable: the lane is unknown and the queue's own are         *)
(* deferred.                                                               *)
ReadDelugeFails(p) ==
    /\ RequestsFail
    /\ pass[p].pc = "deluge"
    /\ Goto(p, "end")
    /\ UNCHANGED <<tor, records, dropped, imported, lock>>

Done(p, j) == pass' = [pass EXCEPT ![p].jobs = @ \ {j}]

(* A mutant of Confirmed: every keeper will do.                            *)
ConfirmedAnyway(j) == TRUE

(* _keeper_import_confirmed, which only Radarr's pass asks.                *)
Confirmed(j) == KeeperGate => j.keeper \in imported

Superseded(r) ==
    IF Present(r) THEN [tor EXCEPT ![r].label = "superseded"] ELSE tor

Unrecorded(r) == [records EXCEPT ![r] = NoRecord]

(* A loser of the lane: supersede_torrent.                                 *)
DropLane(p, j) ==
    /\ pass[p].pc = "drop" /\ j \in pass[p].jobs /\ j.how = "lane"
    /\ Confirmed(j)
    /\ tor' = Superseded(j.item)
    /\ Done(p, j)
    /\ UNCHANGED <<records, dropped, imported, lock>>

(* A loser Deluge has: its record is deleted, the client left alone ...    *)
DropRecord(p, j) ==
    /\ pass[p].pc = "drop" /\ j \in pass[p].jobs /\ j.how = "record"
    /\ Confirmed(j)
    /\ dropped' = dropped \cup {j.item}
    /\ records' = Unrecorded(j.item)
    /\ pass' = [pass EXCEPT ![p].jobs = (@ \ {j}) \cup
                               {[j EXCEPT !.how = "lane"]}]
    /\ UNCHANGED <<tor, imported, lock>>

(* A loser Deluge did not have: removed, with what the client has of it.   *)
DropClient(p, j) ==
    /\ pass[p].pc = "drop" /\ j \in pass[p].jobs /\ j.how = "client"
    /\ tor' = [tor EXCEPT ![j.item].label = "absent"]
    /\ dropped' = dropped \cup {j.item}
    /\ records' = Unrecorded(j.item)
    /\ Done(p, j)
    /\ UNCHANGED <<imported, lock>>

(* The keeper's import is not on record, or a request failed: next time.   *)
Skip(p, j) ==
    /\ pass[p].pc = "drop" /\ j \in pass[p].jobs
    /\ RequestsFail \/ (j.how # "client" /\ ~Confirmed(j))
    /\ Done(p, j)
    /\ UNCHANGED <<tor, records, dropped, imported, lock>>

End(p) ==
    /\ pass[p].pc = "end" \/ (pass[p].pc = "drop" /\ pass[p].jobs = {})
    /\ lock' = "free"
    /\ pass' = [pass EXCEPT ![p] = Idle]
    /\ UNCHANGED <<tor, records, dropped, imported>>

-----------------------------------------------------------------------------
(* Grabs, downloads and imports.                                           *)

SetTor(r, t) ==
    /\ tor' = [tor EXCEPT ![r] = t]
    /\ UNCHANGED <<records, dropped, imported, lock, pass>>

(* The *arr adds a torrent; bound: once per hash.                          *)
Grab(r) ==
    /\ tor[r].label = "absent" /\ r \notin dropped \cup imported
    /\ tor[r].progress = Zero
    /\ SetTor(r, [tor[r] EXCEPT !.label = "base"])

(* handle_grab throttles an upgrade.                                       *)
Throttle(r) ==
    /\ tor[r].label = "base" /\ tor[r].progress < Full
    /\ SetTor(r, [tor[r] EXCEPT !.label = "upgrade"])

(* A mutant of Download: beyond 100%.                                      *)
DownloadOn(r) ==
    /\ Present(r)
    /\ SetTor(r, [tor[r] EXCEPT !.progress = @ + 1])

Download(r) ==
    /\ Present(r) /\ tor[r].progress < Full
    /\ SetTor(r, [tor[r] EXCEPT !.progress = @ + 1])

(* A finished upgrade gets its base label back.                            *)
Flip(r) ==
    /\ InLane(r) /\ tor[r].progress = Full
    /\ SetTor(r, [tor[r] EXCEPT !.label = "base"])

(* The clean-up removes a superseded torrent; Full keeps it from Grab.     *)
Reap(r) ==
    /\ tor[r].label = "superseded"
    /\ SetTor(r, [label |-> "absent", progress |-> Full])

Import(r) ==
    /\ Live(r) /\ tor[r].progress = Full /\ r \notin imported
    /\ imported' = imported \cup {r}
    /\ UNCHANGED <<tor, records, dropped, lock, pass>>

Refresh ==
    /\ QueueLag
    /\ records # Listing
    /\ records' = Listing
    /\ UNCHANGED <<tor, dropped, imported, lock, pass>>

Env ==
    \/ \E r \in Releases :
         Grab(r) \/ Throttle(r) \/ Download(r) \/ Flip(r) \/ Reap(r) \/ Import(r)
    \/ Refresh

Drop(p) ==
    \E j \in pass[p].jobs :
        DropLane(p, j) \/ DropRecord(p, j) \/ DropClient(p, j) \/ Skip(p, j)

PassStep(p) ==
    \/ ReadQueue(p) \/ ReadQueueFails(p)
    \/ ReadDeluge(p) \/ ReadDelugeFails(p)
    \/ Drop(p)
    \/ End(p)

Next ==
    \/ \E p \in Passes : Start(p) \/ PassStep(p)
    \/ Env

Spec == Init /\ [][Next]_vars

(* Passes are run again and again, and a pass that holds the lock goes on. *)
(* Nothing is assumed of downloads and imports.                            *)
Fairness ==
    /\ WF_vars(\E p \in Passes : Start(p))
    /\ \A p \in Passes : WF_vars(PassStep(p))

FairSpec == Spec /\ Fairness

-----------------------------------------------------------------------------
TypeOK ==
    /\ tor \in [Releases -> [label : {"absent", "base", "upgrade",
                                      "superseded"},
                             progress : Zero..Full]]
    /\ records \in [Releases -> NoRecord..Full]
    /\ dropped \subseteq Releases
    /\ imported \subseteq Releases
    /\ lock \in Passes \cup {"free"}
    /\ pass \in [Passes -> [pc : {"idle", "queue", "deluge", "drop", "end"},
                            view : [Releases -> NoRecord..Full],
                            jobs : SUBSET Jobs]]

(* The passes never take the last copy: a release is dropped only while    *)
(* one other release that delivers everything it would is live or already  *)
(* imported, at the moment of the drop, although the choice was made       *)
(* several requests earlier and other passes dropped releases, too.        *)
KeeperStays ==
    [][\A r \in Releases :
          Live(r) /\ ~Live(r)' =>
            \E k \in Releases \ {r} :
                /\ Covers[r] \subseteq Covers[k]
                /\ Live(k)' \/ k \in imported']_vars

(* What makes KeeperStays so.  A release the *arr never grabbed, and with  *)
(* it one it may still grab, has no record and is in no pass's view.       *)
Fresh(r) ==
    /\ tor[r].label = "absent" /\ tor[r].progress = Zero
    /\ r \notin dropped \cup imported

RecordsKnown ==
    \A r \in Releases :
        \/ records[r] # NoRecord
        \/ \E p \in Passes : pass[p].pc = "deluge" /\ pass[p].view[r] # NoRecord
        => ~Fresh(r)

(* A loser is covered by another release, its keeper, and one that goes    *)
(* through the client is not in Deluge, now or ever again.                 *)
JobsSound ==
    \A p \in Passes : \A j \in pass[p].jobs :
        /\ j.keeper # j.item /\ Covers[j.item] \subseteq Covers[j.keeper]
        /\ j.how = "client" => ~Present(j.item) /\ ~Fresh(j.item)

(* One pass at a time, and only a dropping one has losers.                 *)
LockHeld ==
    \A p \in Passes :
        /\ pass[p].pc # "idle" => lock = p
        /\ pass[p].jobs # {} => pass[p].pc = "drop"

(* The settled world of 2376: with a queue that is current and requests    *)
(* that do not fail, what a pass read in the queue is live, its keepers    *)
(* are live and never among its losers, and a torrent without its record   *)
(* is about to be superseded.  Sonarr's pass needs it: it has no gate.     *)
Settled ==
    ~KeeperGate /\ ~QueueLag /\ ~RequestsFail =>
    /\ \A p \in Passes, r \in Releases :
          pass[p].pc = "deluge" /\ pass[p].view[r] # NoRecord => Live(r)
    /\ \A p \in Passes : \A j \in pass[p].jobs :
          Live(j.keeper) /\ \A i \in pass[p].jobs : i.item # j.keeper
    /\ \A r \in dropped :
          tor[r].label \in {"base", "upgrade"} =>
            \E p \in Passes : \E j \in pass[p].jobs : j.item = r /\ j.how = "lane"

Inv == TypeOK /\ RecordsKnown /\ JobsSound /\ LockHeld /\ Settled

(* A duplicate "lives for seconds instead of up to a day"                  *)
(* (src/arr-webhook.py:2531): two unfinished releases of which one covers  *)
(* the other do not stay in the throttled lane together.                   *)
DuplicateDropped ==
    \A a, b \in Releases :
        a # b /\ Covers[a] \subseteq Covers[b] =>
            ~<>[](/\ InLane(a) /\ InLane(b)
                  /\ tor[a].progress < Full /\ tor[b].progress < Full)
=============================================================================

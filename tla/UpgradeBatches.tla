--------------------------- MODULE UpgradeBatches ---------------------------
(***************************************************************************)
(* The upgrade batches of arr-webhook.py: the hourly scheduler, the manual *)
(* cycle of /run-monthly-upgrade, the passes they make (purge the stalled  *)
(* upgrades, search the next slice of the catalogue, relabel what was      *)
(* grabbed, charge the weekly quota) and the state file they share, which  *)
(* every one of them reads, changes and writes back whole, without a lock. *)
(***************************************************************************)
EXTENDS Integers, FiniteSets

CONSTANTS
  Size,      \* Size[s]: how many monitored items service s has
  HasFile,   \* the items with a file: what is grabbed for them is an upgrade
  Recent,    \* the items of a recent year
  BATCH,     \* UPGRADE_BATCH_SIZE
  QUOTA,     \* WEEKLY_UPGRADE_QUOTA
  WINDOW,    \* the days of the quota's window
  Grabs,     \* bound: grabs
  Manuals,   \* bound: uses of /run-monthly-upgrade
  Crashes    \* bound: restarts of the process

Services == {"radarr", "sonarr"}
Actors   == {"poll", "manual"}
Items    == UNION {{s} \X (0 .. Size[s] - 1) : s \in Services}

\* A service without monitored items has no pass.
ASSUME UpgradeAssumption ==
  /\ Size \in [Services -> Nat \ {0}]
  /\ BATCH \in Nat \ {0} /\ {QUOTA, WINDOW, Grabs, Manuals, Crashes} \subseteq Nat

VARIABLES
  file,      \* UPGRADE_STATE_PATH
  pc, svc,   \* where each actor is, and the service of its cycle
  st,        \* the state it loaded
  todo,      \* the items it has listed: to purge, or to search
  then,      \* where it goes on after its save
  held,      \* history: what has been in the lane since its search began
  label,     \* label[i]: the label of the torrent grabbed for i
  data,      \* data[i]: what that torrent does
  doomed,    \* doomed[p]: the torrent whose removal p is about to request
  jobs,      \* the services /run-monthly-upgrade still has to run
  confirmed, \* history: the upgrades the relabels of this window returned
  grabs, manuals, crashes

actors == <<pc, svc, st, todo, then, held>>
client == <<label, data, doomed, grabs>>
vars == <<file, actors, client, jobs, confirmed, manuals, crashes>>

Lane == {"plain", "recent"}
OwnLane(i) == IF i \in Recent THEN "recent" ELSE "plain"
Of(s) == {i \in Items : i[1] = s}

\* What a missing or half-written file loads as: the defaults of the readers
\* (a quota that is absent counts as expired).
Empty == [cursor |-> [s \in Services |-> 0], used |-> 0, age |-> WINDOW,
          next |-> "radarr"]

Cursors == {c \in [Services -> Nat] : \A s \in Services : c[s] < Size[s]}
State == [cursor : Cursors, used : Nat, age : 0 .. WINDOW, next : Services]

TypeOK ==
  /\ file \in State
  /\ pc \in [Actors -> {"rest", "purge", "drop", "remove", "load", "lane", "search",
                        "truncate", "write", "relabel", "turn",
                        "verify"}]
  /\ svc \in [Actors -> Services]
  /\ st \in [Actors -> State]
  /\ todo \in [Actors -> SUBSET Items]
  /\ then \in [Actors -> {"relabel", "turn", "verify", "rest"}]
  /\ held \in [Actors -> SUBSET Items]
  /\ label \in [Items -> Lane \union {"none", "base"}]
  /\ data \in [Items -> {"queued", "slow", "done"}]
  /\ doomed \in [Actors -> SUBSET Items]
  /\ jobs \in SUBSET Services
  /\ confirmed \in Nat
  /\ grabs \in 0 .. Grabs /\ manuals \in 0 .. Manuals /\ crashes \in 0 .. Crashes

Init ==
  /\ file = Empty
  /\ pc = [p \in Actors |-> "rest"]
  /\ svc = [p \in Actors |-> "radarr"]
  /\ st = [p \in Actors |-> Empty]
  /\ todo = [p \in Actors |-> {}]
  /\ then = [p \in Actors |-> "relabel"]
  /\ held = [p \in Actors |-> {}]
  /\ label = [i \in Items |-> "none"]
  /\ data = [i \in Items |-> "queued"]
  /\ doomed = [p \in Actors |-> {}]
  /\ jobs = {}
  /\ confirmed = 0
  /\ grabs = 0 /\ manuals = 0 /\ crashes = 0

-----------------------------------------------------------------------------
\* A mutant of AdvanceCursor: the last slice ends at the end of the catalogue.
AdvanceCursorUnwrapped(cursor, total) ==
  LET width == IF BATCH < total THEN BATCH ELSE total
      from  == IF cursor + width <= total THEN cursor ELSE total - width
  IN [slice |-> from .. from + width - 1, next |-> from]

\* advance_upgrade_cursor: the slice of one pass, and where the next resumes.
AdvanceCursor(cursor, total) ==
  LET clamped == IF cursor < total THEN cursor ELSE total - 1
      width   == IF BATCH < total THEN BATCH ELSE total
  IN [slice |-> {(clamped + k) % total : k \in 0 .. width - 1},
      next  |-> (clamped + width) % total]

\* weekly_quota_state: an expired window reads as a fresh one.
Quota(state) ==
  [cursor |-> state.cursor, next |-> state.next,
   used |-> IF state.age >= WINDOW THEN 0 ELSE state.used,
   age  |-> IF state.age >= WINDOW THEN 0 ELSE state.age]

Goto(p, where) == pc' = [pc EXCEPT ![p] = where]

\* monthly_search_scheduler: no cycle once the quota of the window is used.
Poll ==
  /\ pc["poll"] = "rest"
  /\ Quota(file).used < QUOTA
  /\ svc' = [svc EXCEPT !["poll"] = file.next]
  /\ Goto("poll", "purge")
  /\ UNCHANGED <<file, st, todo, then, held, client, jobs, confirmed, manuals, crashes>>

\* /run-monthly-upgrade: a thread of its own, and no quota.
RunMonthly ==
  /\ pc["manual"] = "rest" /\ manuals < Manuals
  /\ manuals' = manuals + 1
  /\ \E s \in Services, rest \in SUBSET Services :
       /\ rest \in {{}, {"sonarr"}} /\ s \notin rest
       /\ svc' = [svc EXCEPT !["manual"] = s]
       /\ jobs' = rest
  /\ Goto("manual", "purge")
  /\ UNCHANGED <<file, st, todo, then, held, client, confirmed, crashes>>

\* A torrent is gone: removed, or imported.
Leaves(i) ==
  /\ label' = [label EXCEPT ![i] = "none"]
  /\ data' = [data EXCEPT ![i] = "queued"]
  /\ held' = [p \in Actors |-> held[p] \ {i}]
  /\ doomed' = [p \in Actors |-> doomed[p] \ {i}]

\* purge_stalled_upgrade_torrents: only the plain lane, and never a torrent
\* that waits for one of Deluge's slots. A listing that fails ends it.
Stalled(s) == {i \in Of(s) : label[i] = "plain" /\ data[i] = "slow"}

PurgeList(p) ==
  /\ pc[p] = "purge"
  /\ \E listed \in {Stalled(svc[p]), {}} : todo' = [todo EXCEPT ![p] = listed]
  /\ Goto(p, "drop")
  /\ UNCHANGED <<file, svc, st, then, held, client, jobs, confirmed, manuals, crashes>>

\* remove_torrent's status: it defers what is gone or has finished by then,
\* and, for all the purge knows, what has uploaded or gets no answer.
Removable(i) == label[i] # "none" /\ data[i] # "done"

PurgeJudge(p) ==
  /\ pc[p] = "drop"
  /\ IF todo[p] = {}
     THEN Goto(p, "load") /\ UNCHANGED <<todo, doomed>>
     ELSE \E i \in todo[p] :
            /\ todo' = [todo EXCEPT ![p] = @ \ {i}]
            /\ \/ Removable(i) /\ doomed' = [doomed EXCEPT ![p] = {i}] /\ Goto(p, "remove")
               \/ UNCHANGED <<doomed, pc>>
  /\ UNCHANGED <<file, svc, st, then, held, label, data, grabs, jobs, confirmed, manuals, crashes>>

\* One request later it goes, though it may have finished in between (746-754
\* against 790-795). A removal without an answer ends the purge.
PurgeRemove(p) ==
  /\ pc[p] = "remove"
  /\ IF doomed[p] = {} THEN UNCHANGED <<label, data, held, doomed>>
     ELSE \E i \in doomed[p] : Leaves(i)
  /\ \/ Goto(p, "drop") /\ UNCHANGED todo
     \/ Goto(p, "load") /\ todo' = [todo EXCEPT ![p] = {}]
  /\ UNCHANGED <<file, svc, st, then, grabs, jobs, confirmed, manuals, crashes>>

PurgeFails(p) ==
  /\ pc[p] = "remove"
  /\ doomed' = [doomed EXCEPT ![p] = {}]
  /\ todo' = [todo EXCEPT ![p] = {}]
  /\ Goto(p, "load")
  /\ UNCHANGED <<file, svc, st, then, held, label, data, grabs, jobs, confirmed, manuals, crashes>>

\* radarr_bulk_search, sonarr_bulk_search: the state and the slice.
LoadState(p) ==
  /\ pc[p] = "load"
  /\ st' = [st EXCEPT ![p] = file]
  /\ todo' = [todo EXCEPT ![p] = {svc[p]} \X
       AdvanceCursor(file.cursor[svc[p]], Size[svc[p]]).slice]
  /\ held' = [held EXCEPT ![p] = {i \in Items : label[i] \in Lane}]
  /\ Goto(p, "lane")
  /\ UNCHANGED <<file, svc, then, client, jobs, confirmed, manuals, crashes>>

\* A mutant of InLane: only the label of the older years.
InPlainLane(s) == {i \in Of(s) : label[i] = "plain"}

\* radarr_lane_movie_ids, sonarr_lane_series_ids.
InLane(s) == {i \in Of(s) : label[i] \in Lane}

ReadLane(p) ==
  /\ pc[p] = "lane"
  /\ todo' = [todo EXCEPT ![p] = @ \ InLane(svc[p])]
  /\ Goto(p, "search")
  /\ UNCHANGED <<file, svc, st, then, held, client, jobs, confirmed, manuals, crashes>>

\* The lane cannot be read: the pass ends without moving the cursor.
ReadLaneFails(p) ==
  /\ pc[p] = "lane"
  /\ Goto(p, "relabel")
  /\ todo' = [todo EXCEPT ![p] = {}]
  /\ held' = [held EXCEPT ![p] = {}]
  /\ UNCHANGED <<file, svc, st, then, client, jobs, confirmed, manuals, crashes>>

\* A mutant of Moved: the cursor is not brought back into the catalogue.
MovedOn(p) == [st[p] EXCEPT !.cursor[svc[p]] = @ + BATCH]

\* The cursor moves past the slice, whatever the search answers.
Moved(p) == [st[p] EXCEPT !.cursor[svc[p]] = AdvanceCursor(@, Size[svc[p]]).next]

\* What the service grabs of the items it was asked for; what its queue holds
\* already it does not grab again.
Grab(found) ==
  /\ Cardinality(found) <= Grabs - grabs
  /\ label' = [i \in Items |-> IF i \in found THEN "base" ELSE label[i]]
  /\ data' = [i \in Items |-> IF i \in found THEN "queued" ELSE data[i]]
  /\ held' = [q \in Actors |-> IF pc'[q] \in {"lane", "search"} THEN held[q] \ found ELSE {}]
  /\ grabs' = grabs + Cardinality(found)

Grabbed(p) == {i \in todo[p] : label[i] # "base"}

\* What is saved, and where the actor goes on from there.
Save(p, state, where) ==
  /\ st' = [st EXCEPT ![p] = state]
  /\ then' = [then EXCEPT ![p] = where]
  /\ Goto(p, "truncate")

\* Radarr: one command for the slice.
SearchMovies(p) ==
  /\ pc[p] = "search" /\ svc[p] = "radarr"
  /\ Save(p, Moved(p), "relabel")
  /\ \E found \in SUBSET Grabbed(p) : Grab(found)
  /\ todo' = [todo EXCEPT ![p] = {}]
  /\ UNCHANGED <<file, svc, doomed, jobs, confirmed, manuals, crashes>>

\* Sonarr: one command for each series of the slice.
SearchSeries(p) ==
  /\ pc[p] = "search" /\ svc[p] = "sonarr"
  /\ IF todo[p] = {}
     THEN /\ Save(p, Moved(p), "relabel")
          /\ Grab({})
          /\ UNCHANGED todo
     ELSE \E i \in todo[p] :
          /\ UNCHANGED <<st, pc, then>>
          /\ todo' = [todo EXCEPT ![p] = @ \ {i}]
          /\ \E found \in SUBSET ({i} \intersect Grabbed(p)) : Grab(found)
  /\ UNCHANGED <<file, svc, doomed, jobs, confirmed, manuals, crashes>>

\* _save_upgrade_state: open(..., 'w') empties the file before json.dump.
Truncate(p) ==
  /\ pc[p] = "truncate"
  /\ file' = Empty
  /\ Goto(p, "write")
  /\ UNCHANGED <<svc, st, todo, then, held, client, jobs, confirmed, manuals, crashes>>

Write(p) ==
  /\ pc[p] = "write"
  /\ file' = st[p]
  /\ st' = [st EXCEPT ![p] = Empty]   \* the locals of the pass are forgotten
  /\ then' = [then EXCEPT ![p] = "relabel"]
  /\ svc' = [svc EXCEPT ![p] = IF then[p] = "rest" THEN "radarr" ELSE @]
  /\ Goto(p, then[p])
  /\ UNCHANGED <<todo, held, client, jobs, confirmed, manuals, crashes>>

\* The torrents of a service that its queue shows, and that replace a file.
Upgrades(s) == {i \in Of(s) : label[i] = "base"} \intersect HasFile

Throttle(moved) == label' = [i \in Items |-> IF i \in moved THEN OwnLane(i) ELSE label[i]]

\* record_upgrades_found: the file is loaded again, and its quota charged.
Record(p, n) ==
  LET state == Quota(file) IN
  /\ Save(p, [state EXCEPT !.used = @ + n], IF p = "poll" THEN "turn" ELSE "verify")
  /\ confirmed' = n + IF file.age >= WINDOW THEN 0 ELSE confirmed

\* relabel_radarr_upgrades: a failed call ends it, and it then returns 0.
RelabelMovies(p) ==
  /\ pc[p] = "relabel" /\ svc[p] = "radarr"
  /\ \E moved \in SUBSET Upgrades("radarr") :
       /\ Throttle(moved)
       /\ Record(p, IF moved = Upgrades("radarr") THEN Cardinality(moved) ELSE 0)
  /\ UNCHANGED <<file, svc, todo, held, data, doomed, grabs, jobs, manuals, crashes>>

\* relabel_sonarr_upgrades: an episode whose lookup fails is left out.
RelabelEpisodes(p) ==
  /\ pc[p] = "relabel" /\ svc[p] = "sonarr"
  /\ \E moved \in SUBSET Upgrades("sonarr") :
       /\ Throttle(moved)
       /\ \/ Record(p, Cardinality(moved))
          \/ Record(p, 0)
  /\ UNCHANGED <<file, svc, todo, held, data, doomed, grabs, jobs, manuals, crashes>>

\* A mutant of Turn: the turn is all it saves.
TurnOnly ==
  /\ pc["poll"] = "turn"
  /\ Save("poll", [Empty EXCEPT !.next = CHOOSE s \in Services : s # svc["poll"]], "rest")
  /\ UNCHANGED <<file, svc, todo, held, client, jobs, confirmed, manuals, crashes>>

\* The scheduler loads the file once more, and gives the other service its turn.
Turn ==
  /\ pc["poll"] = "turn"
  /\ Save("poll", [file EXCEPT !.next = CHOOSE s \in Services : s # svc["poll"]], "rest")
  /\ UNCHANGED <<file, svc, todo, held, client, jobs, confirmed, manuals, crashes>>

\* The manual thread: its next service, and verify_and_fix_labels at the end,
\* which knows only the plain lane.
NextJob ==
  /\ pc["manual"] = "verify" /\ jobs # {}
  /\ \E s \in jobs : svc' = [svc EXCEPT !["manual"] = s] /\ jobs' = jobs \ {s}
  /\ Goto("manual", "purge")
  /\ UNCHANGED <<file, st, todo, then, held, client, confirmed, manuals, crashes>>

VerifyLabels ==
  /\ pc["manual"] = "verify" /\ jobs = {}
  /\ \E fixed \in SUBSET UNION {Upgrades(s) : s \in Services} :
       label' = [i \in Items |-> IF i \in fixed THEN "plain" ELSE label[i]]
  /\ Goto("manual", "rest")
  /\ svc' = [svc EXCEPT !["manual"] = "radarr"]
  /\ UNCHANGED <<file, st, todo, then, held, data, doomed, grabs, jobs, confirmed, manuals, crashes>>

-----------------------------------------------------------------------------
\* A grab webhook throttles an upgrade on its own (handle_grab), uncharged.
Webhook(i) ==
  /\ i \in HasFile /\ label[i] = "base"
  /\ Throttle({i})
  /\ UNCHANGED <<file, actors, data, doomed, grabs, jobs, confirmed, manuals, crashes>>

\* Deluge: a torrent gets a slot, downloads, finishes; its import takes it
\* out of the lane.
Deluge(i) ==
  /\ label[i] # "none"
  /\ \/ data[i] = "queued" /\ data' = [data EXCEPT ![i] = "slow"] /\ UNCHANGED <<label, held, doomed>>
     \/ data[i] = "slow" /\ data' = [data EXCEPT ![i] = "done"] /\ UNCHANGED <<label, held, doomed>>
     \/ data[i] = "done" /\ Leaves(i)
  /\ UNCHANGED <<file, pc, svc, st, todo, then, grabs, jobs, confirmed, manuals, crashes>>

Day ==
  /\ file.age < WINDOW \/ \E p \in Actors : st[p].age < WINDOW
  /\ file' = [file EXCEPT !.age = IF @ < WINDOW THEN @ + 1 ELSE @]
  /\ st' = [p \in Actors |-> [st[p] EXCEPT !.age = IF @ < WINDOW THEN @ + 1 ELSE @]]
  /\ UNCHANGED <<pc, svc, todo, then, held, client, jobs, confirmed, manuals, crashes>>

\* The process is restarted: only the scheduler comes back, at its first poll.
Restart ==
  /\ crashes < Crashes
  /\ crashes' = crashes + 1
  /\ pc' = [p \in Actors |-> "rest"]
  /\ st' = [p \in Actors |-> Empty]
  /\ todo' = [p \in Actors |-> {}]
  /\ held' = [p \in Actors |-> {}]
  /\ svc' = [p \in Actors |-> "radarr"]
  /\ then' = [p \in Actors |-> "relabel"]
  /\ jobs' = {}
  /\ doomed' = [p \in Actors |-> {}]
  /\ UNCHANGED <<file, label, data, grabs, confirmed, manuals>>

ActorStep(p) ==
  \/ PurgeList(p) \/ PurgeJudge(p) \/ PurgeRemove(p) \/ PurgeFails(p)
  \/ LoadState(p) \/ ReadLane(p) \/ ReadLaneFails(p)
  \/ SearchMovies(p) \/ SearchSeries(p) \/ Truncate(p) \/ Write(p)
  \/ RelabelMovies(p) \/ RelabelEpisodes(p)

Next ==
  \/ Poll \/ Turn \/ RunMonthly \/ NextJob \/ VerifyLabels
  \/ \E p \in Actors : ActorStep(p)
  \/ \E i \in Items : Webhook(i) \/ Deluge(i)
  \/ Day \/ Restart

Fairness ==
  /\ WF_vars(Poll \/ Turn \/ ActorStep("poll"))
  /\ \A s \in Services : SF_vars(ReadLane("poll") /\ svc["poll"] = s)
  /\ WF_vars(Day) /\ \A i \in Items : WF_vars(Deluge(i))
  /\ WF_vars(NextJob \/ VerifyLabels \/ ActorStep("manual"))

Spec == Init /\ [][Next]_vars /\ Fairness

-----------------------------------------------------------------------------
\* A search never asks for an item whose upgrade has been in the throttled
\* lane, under either label, since before the pass loaded its state: the
\* service would snatch the same release again (the comment at 4070-4073).
NoResnatch ==
  [][\A p \in Actors, i \in Items :
       ~ (pc[p] = "search" /\ i \in todo[p] \ todo'[p] /\ i \in held[p])]_vars

\* As long as only the scheduler runs, and no restart cuts a save, the file
\* charges the window with every upgrade a relabel returned, whatever the
\* passes and the turns saved in between (4514-4518, 4539-4541).
Ledger ==
  manuals = 0 /\ crashes = 0 /\ pc["poll"] = "rest" => file.used = confirmed

\* What makes NoResnatch so: what a pass holds is still in the lane, and what
\* it has left to search is not among it.
HeldInLane ==
  \A p \in Actors :
    /\ pc[p] \in {"lane", "search"} => \A i \in held[p] : label[i] \in Lane
    /\ pc[p] = "lane" => todo[p] \subseteq Of(svc[p])
    /\ pc[p] = "search" => todo[p] \intersect held[p] = {}

\* What makes Ledger so: between its load and its write a pass has the quota
\* in hand, and the file has it the rest of the time.
QuotaInHand ==
  manuals = 0 /\ crashes = 0 =>
    /\ pc["manual"] = "rest"
    /\ pc["poll"] \in {"lane", "search", "truncate", "write"} => st["poll"].used = confirmed
    /\ pc["poll"] \notin {"truncate", "write"} => file.used = confirmed

Inv == TypeOK /\ HeldInLane /\ QuotaInHand

\* Every item of both services is, again and again, asked for or already
\* grabbed: the cursors walk the catalogues, the services take turns, a used
\* quota expires, and no stale or half-written file stops any of it.
EveryItemSearched ==
  \A i \in Items : []<>(label[i] # "none" \/ \E p \in Actors : pc[p] = "search" /\ i \in todo[p])

=============================================================================

---------------------------- MODULE ImportRescue ----------------------------
(***************************************************************************)
(* The rescue of a finished download that its *arr never imported: a scan  *)
(* every quarter of an hour, MAX of them, and then an entry in the digest. *)
(* An operator may run the rescue beside the timer. The importBlocked      *)
(* poller serves the downloads whose import the *arr reports as blocked.   *)
(***************************************************************************)
EXTENDS Naturals

CONSTANTS
  MAX,      \* AUTO_RESCUE_MAX_ATTEMPTS
  Mishaps   \* how often something comes between the tries: see mishaps

RescueAssumption == MAX \in Nat /\ Mishaps \in Nat

VARIABLES
  download,  \* the download, as its *arr and Deluge have it
  command,   \* an import command the *arr has queued
  attempts,  \* _rescue_attempts[h], 0 when it is missing
  gaveUp,    \* whether _rescue_gave_up has h
  saved,     \* both, as RESCUE_STATE_PATH has them
  run,       \* run[w]: a pass of _auto_rescue
  poll,      \* whether the poller holds a blocked record
  notified,  \* _ib_seen
  told,      \* whether the digest says the rescue gave up
  scans,     \* the scans fired, counted up to one beyond the bound
  mishaps    \* restarts, lookups and scans without an answer, resets, runs by hand

rescue == <<download, command, attempts, gaveUp, saved, run, poll, notified, told, scans, mishaps>>

Runs == {"timer", "hand"}
Bound == MAX * (1 + Mishaps)
Labelled == {"fetching", "waiting", "blocked", "imported", "library"}
Idle == [pc |-> "idle", dry |-> FALSE, tries |-> 0, active |-> FALSE, listed |-> FALSE]

TypeOK ==
  /\ download \in Labelled \union {"lane"}
  /\ command \in BOOLEAN /\ gaveUp \in BOOLEAN /\ poll \in BOOLEAN
  /\ notified \in BOOLEAN /\ told \in BOOLEAN
  /\ attempts \in 0 .. MAX
  /\ saved \in [attempts : 0 .. MAX, gaveUp : BOOLEAN]
  /\ run \in [Runs -> [pc : {"idle", "history", "scan", "prune", "save"}, dry : BOOLEAN,
                       tries : 0 .. MAX, active : BOOLEAN, listed : BOOLEAN]]
  /\ scans \in 0 .. Bound + 1
  /\ mishaps \in 0 .. Mishaps

Init ==
  /\ download = "fetching" /\ command = FALSE
  /\ attempts = 0 /\ gaveUp = FALSE
  /\ saved = [attempts |-> 0, gaveUp |-> FALSE]
  /\ run = [w \in Runs |-> Idle]
  /\ poll = FALSE /\ notified = FALSE /\ told = FALSE
  /\ scans = 0 /\ mishaps = 0

-----------------------------------------------------------------------------
\* What Deluge and the *arr do. A finished download is imported, or blocked,
\* or silently dropped; a scan or a manual import may help or not.
Finish ==
  /\ download = "fetching"
  /\ download' \in {"waiting", "blocked", "imported", "library", "lane"}
  /\ UNCHANGED command

Command ==
  /\ command
  /\ command' = FALSE
  /\ download' \in IF download \in {"waiting", "blocked"} THEN {download, "imported"} ELSE {download}

ArrStep ==
  /\ Finish \/ Command
  /\ UNCHANGED <<attempts, gaveUp, saved, run, poll, notified, told, scans, mishaps>>

-----------------------------------------------------------------------------
Goes(w, where) == run' = [run EXCEPT ![w].pc = where]
Mishap == mishaps < Mishaps /\ mishaps' = mishaps + 1

\* The route's reset, before its run.
Reset ==
  /\ run["hand"].pc = "idle" /\ Mishap
  /\ attempts' = 0 /\ gaveUp' = FALSE
  /\ saved' = [attempts |-> 0, gaveUp |-> FALSE]
  /\ UNCHANGED <<download, command, run, poll, notified, told, scans>>

\* One status of all torrents.
Start(w) ==
  /\ run[w].pc = "idle"
  /\ \E dry \in IF w = "hand" THEN BOOLEAN ELSE {FALSE} :
       run' = [run EXCEPT ![w] = [Idle EXCEPT !.dry = dry, !.listed = download \in Labelled,
                  !.pc = IF download \in {"waiting", "blocked", "imported"} THEN "history" ELSE "prune"]]
  /\ IF w = "timer" THEN UNCHANGED mishaps ELSE Mishap
  /\ UNCHANGED <<download, command, attempts, gaveUp, saved, poll, notified, told, scans>>

(* A mutant of History: a torrent it has given up on is not active.        *)
HistoryLate(w) ==
  /\ run[w].pc = "history" /\ download # "imported"
  /\ run' = [run EXCEPT ![w].tries = attempts, ![w].active = attempts < MAX,
               ![w].pc = IF attempts < MAX /\ ~ run[w].dry THEN "scan" ELSE "prune"]
  /\ gaveUp' = (gaveUp \/ (attempts >= MAX /\ ~ run[w].dry))
  /\ told' = (told \/ (attempts >= MAX /\ ~ run[w].dry))
  /\ UNCHANGED <<download, command, attempts, saved, poll, notified, scans, mishaps>>

\* The history knows no import since the grab: one more try, or the last
\* word in the digest.
History(w) ==
  /\ run[w].pc = "history" /\ download # "imported"
  /\ run' = [run EXCEPT ![w].tries = attempts, ![w].active = TRUE,
               ![w].pc = IF attempts < MAX /\ ~ run[w].dry THEN "scan" ELSE "prune"]
  /\ gaveUp' = (gaveUp \/ (attempts >= MAX /\ ~ run[w].dry))
  /\ told' = (told \/ (attempts >= MAX /\ ~ run[w].dry /\ ~ gaveUp))
  /\ UNCHANGED <<download, command, attempts, saved, poll, notified, scans, mishaps>>

Imported(w) ==
  /\ run[w].pc = "history" /\ download = "imported"
  /\ attempts' = 0 /\ gaveUp' = FALSE
  /\ Goes(w, "prune")
  /\ UNCHANGED <<download, command, saved, poll, notified, told, scans, mishaps>>

\* A lookup that fails leaves the torrent out of active_hashes.
HistoryFails(w) ==
  /\ run[w].pc = "history" /\ Mishap
  /\ Goes(w, "prune")
  /\ UNCHANGED <<download, command, attempts, gaveUp, saved, poll, notified, told, scans>>

(* A mutant of Scan: the try is not counted.                                *)
ScanUncounted(w) ==
  /\ run[w].pc = "scan"
  /\ command' = TRUE
  /\ scans' = IF scans <= Bound THEN scans + 1 ELSE scans
  /\ Goes(w, "prune")
  /\ UNCHANGED <<download, attempts, gaveUp, saved, poll, notified, told, mishaps>>

\* The try is counted by the number read before the request.
Scan(w) ==
  /\ run[w].pc = "scan"
  /\ command' = TRUE
  /\ scans' = IF scans <= Bound THEN scans + 1 ELSE scans
  /\ attempts' = run[w].tries + 1
  /\ Goes(w, "prune")
  /\ UNCHANGED <<download, gaveUp, saved, poll, notified, told, mishaps>>

\* The answer to an accepted scan is lost: it runs, is not counted, and will
\* be sent again.
ScanUnanswered(w) ==
  /\ run[w].pc = "scan" /\ Mishap
  /\ command' = TRUE
  /\ scans' = IF scans <= Bound THEN scans + 1 ELSE scans
  /\ Goes(w, "prune")
  /\ UNCHANGED <<download, attempts, gaveUp, saved, poll, notified, told>>

\* The scan is not accepted.
ScanFails(w) ==
  /\ run[w].pc = "scan" /\ Mishap
  /\ Goes(w, "prune")
  /\ UNCHANGED <<download, command, attempts, gaveUp, saved, poll, notified, told, scans>>

\* What this service labels and this pass did not find active is forgotten.
Prune(w) ==
  /\ run[w].pc = "prune"
  /\ IF run[w].listed /\ ~ run[w].active /\ attempts > 0
     THEN attempts' = 0 /\ gaveUp' = FALSE
     ELSE UNCHANGED <<attempts, gaveUp>>
  /\ Goes(w, IF run[w].dry THEN "idle" ELSE "save")
  /\ UNCHANGED <<download, command, saved, poll, notified, told, scans, mishaps>>

Save(w) ==
  /\ run[w].pc = "save"
  /\ saved' = [attempts |-> attempts, gaveUp |-> gaveUp]
  /\ run' = [run EXCEPT ![w] = Idle]
  /\ UNCHANGED <<download, command, attempts, gaveUp, poll, notified, told, scans, mishaps>>

Restart ==
  /\ Mishap
  /\ attempts' = saved.attempts /\ gaveUp' = saved.gaveUp
  /\ run' = [w \in Runs |-> Idle]
  /\ poll' = FALSE /\ notified' = FALSE
  /\ UNCHANGED <<download, command, saved, told, scans>>

-----------------------------------------------------------------------------
\* check_import_blocked: the queue's blocked records, then each one's import.
Poll ==
  /\ ~ poll /\ download = "blocked"
  /\ poll' = TRUE
  /\ UNCHANGED <<download, command, attempts, gaveUp, saved, run, notified, told, scans, mishaps>>

\* A clean candidate that the advisor confirms is queued for import.
ManualImport ==
  /\ poll /\ download = "blocked"
  /\ poll' = FALSE
  /\ command' = TRUE
  /\ UNCHANGED <<download, attempts, gaveUp, saved, run, notified, told, scans, mishaps>>

\* No candidate, no confirmation or no answer: a notice, once a day.
Notify ==
  /\ poll
  /\ poll' = FALSE
  /\ notified' = TRUE
  /\ UNCHANGED <<download, command, attempts, gaveUp, saved, run, told, scans, mishaps>>

NextDay ==
  /\ notified
  /\ notified' = FALSE
  /\ UNCHANGED <<download, command, attempts, gaveUp, saved, run, poll, told, scans, mishaps>>

RunStep(w) ==
  \/ Start(w) \/ History(w) \/ Imported(w) \/ Scan(w) \/ Prune(w) \/ Save(w)

Next ==
  \/ \E w \in Runs : RunStep(w) \/ HistoryFails(w) \/ ScanFails(w) \/ ScanUnanswered(w)
  \/ ArrStep \/ Reset \/ Restart \/ Poll \/ ManualImport \/ Notify \/ NextDay

Spec == Init /\ [][Next]_rescue

\* The timer's pass runs for ever; a run by hand gets done.
Fairness == \A w \in Runs : WF_rescue(RunStep(w))

-----------------------------------------------------------------------------
\* Whatever comes between the tries, each such thing costs one more round of
\* scans at most, an accepted scan whose answer is lost included, which the
\* code does not count: the counters survive overlapping runs and restarts,
\* and a torrent that was given up on is not started over by itself.
RescueBounded == scans <= MAX * (1 + mishaps)

\* What makes it so. Tries are counted for a finished download only, and a
\* scan that is under way is within MAX by the count that its run has read.
TriesSound ==
  /\ attempts > 0 \/ saved.attempts > 0 => download \in {"waiting", "blocked", "imported"}
  /\ \A w \in Runs :
       /\ run[w].pc \in {"history", "scan"} => download \in {"waiting", "blocked", "imported"}
       /\ run[w].pc = "scan" => run[w].active /\ run[w].tries < MAX

\* The scans that a run can add to those that the count leaves: the one that
\* it counts by an older number, and a round when it forgets the count. The
\* run by hand, each a mishap of its own, has a round.
Forgets(w) == run[w].pc = "prune" /\ run[w].listed /\ ~ run[w].active
ByTimer ==
  CASE run["timer"].pc = "scan" /\ run["timer"].tries < attempts -> attempts - run["timer"].tries
    [] Forgets("timer") -> attempts
    [] OTHER -> 0
ByHand == IF run["hand"].pc \in {"history", "scan"} \/ Forgets("hand") THEN MAX ELSE 0
UnderWay(w) == IF run[w].pc = "scan" THEN 1 ELSE 0

\* Once the download is imported, only the scans under way are left.
ScansLeft ==
  IF download = "imported" THEN UnderWay("timer") + UnderWay("hand")
  ELSE (MAX - attempts) + ByTimer + ByHand

Budget == scans + ScansLeft <= MAX * (1 + mishaps)

Inv == TypeOK /\ TriesSound /\ Budget

\* A download that nobody imports is rescued, or the digest says that it is not.
Settled == download = "waiting" ~> download = "imported" \/ told
=============================================================================

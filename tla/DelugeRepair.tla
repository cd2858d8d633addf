---------------------------- MODULE DelugeRepair ----------------------------
(***************************************************************************)
(* The repair of an errored torrent, and the restoring of the files an     *)
(* import has moved out of it. The repair pass takes one snapshot, resumes *)
(* what it rechecked before, restores, and treats what the snapshot shows  *)
(* in Error; the restoring also runs on a timer of its own, under a lock   *)
(* the repair does not hold. One torrent stands for each of them.          *)
(***************************************************************************)

VARIABLES
  torrent,    \* what Deluge knows of it
  disk,       \* where its data is, "short" when an import has moved a file out
  event,      \* the *arr's history of that import
  rechecked,  \* whether _repair_rechecked has the torrent
  present,    \* whether _restore_present has the moved file
  told,       \* _reported_deluge_errors, its outcomes
  worker,     \* the two passes
  lock,       \* _restore_lock
  failed      \* the kinds of mishap that have happened, each of them once

repair == <<torrent, disk, event, rechecked, present, told, worker, lock, failed>>

Workers == {"repair", "restore"}
States == {"Error", "Paused", "Checking", "Moving", "Downloading", "Seeding"}
Mischances == {"scan", "resume", "pause", "cut", "probe", "reverify", "move", "restart",
               "overtaken"}
Snapshots == [state : States, done : BOOLEAN]
Snapshot == [state |-> torrent.state, done |-> torrent.done]
NoSnapshot == [state |-> "Seeding", done |-> TRUE]
Idle == [pc |-> "idle", seen |-> NoSnapshot, own |-> NoSnapshot, then |-> "idle"]
Torrent == [state : States, done : BOOLEAN, held : BOOLEAN, library : BOOLEAN]
Passes == [pc : {"idle", "resume", "wait", "look", "link", "reverify", "pause", "recheck",
                 "errors"},
           seen : Snapshots, own : Snapshots, then : {"idle", "errors"}]

TypeOK ==
  /\ torrent \in Torrent
  /\ disk \in {"whole", "short", "missing", "elsewhere", "shelved"}
  /\ event \in {"none", "recent", "old", "replaced"}
  /\ rechecked \in BOOLEAN /\ present \in BOOLEAN
  /\ told \in SUBSET {"partial", "library", "missing", "match", "candidate"}
  /\ worker \in [Workers -> Passes]
  /\ lock \in Workers \union {"free"}
  /\ failed \in SUBSET Mischances
  /\ rechecked => ~ torrent.library

Init ==
  /\ torrent \in [state : {"Error", "Downloading", "Seeding"}, done : BOOLEAN,
                  held : {FALSE}, library : BOOLEAN]
  /\ torrent.done <=> torrent.state = "Seeding"
  /\ disk \in {"whole", "short", "missing", "elsewhere", "shelved"}
  /\ event \in {"none", "recent", "old", "replaced"}
  /\ disk = "short" <=> event # "none"
  /\ rechecked = FALSE /\ present = FALSE
  /\ told = {}
  /\ worker = [w \in Workers |-> Idle]
  /\ lock = "free"
  /\ failed = {}

-----------------------------------------------------------------------------
\* Deluge's answers to pause, recheck and resume.
PauseTorrent ==
  torrent' = [torrent EXCEPT !.held = TRUE, !.state = IF @ = "Checking" THEN @ ELSE "Paused"]
ForceRecheck ==
  torrent' = [torrent EXCEPT !.state = "Checking"]
ResumeTorrent ==
  torrent' = [torrent EXCEPT !.held = FALSE,
                !.state = IF @ = "Checking" THEN @
                          ELSE IF torrent.done THEN "Seeding" ELSE "Downloading"]

\* What Deluge does by itself.
FinishCheck ==
  /\ torrent.state = "Checking"
  /\ torrent' = [torrent EXCEPT !.done = disk = "whole",
                   !.state = IF torrent.held THEN "Paused"
                             ELSE IF disk = "whole" THEN "Seeding" ELSE "Downloading"]
  /\ UNCHANGED disk

FinishMove ==
  /\ torrent.state = "Moving"
  /\ torrent' = [torrent EXCEPT !.state = "Error"]
  /\ disk' = "whole"

Download ==
  /\ torrent.state = "Downloading"
  /\ torrent' = [torrent EXCEPT !.done = TRUE, !.state = "Seeding"]
  /\ disk' = "whole"

FindFault ==
  /\ torrent.state \in {"Downloading", "Seeding"} /\ disk # "whole"
  /\ torrent' = [torrent EXCEPT !.state = "Error", !.done = FALSE]
  /\ UNCHANGED disk

DelugeStep ==
  /\ FinishCheck \/ FinishMove \/ Download \/ FindFault
  /\ UNCHANGED <<event, rechecked, present, told, worker, lock, failed>>

\* An import that moves a file out of the torrent.
MoveOut ==
  /\ disk = "whole" /\ event = "none"
  /\ disk' = "short"
  /\ event' = "recent"
  /\ UNCHANGED <<torrent, rechecked, present, told, worker, lock, failed>>

-----------------------------------------------------------------------------
Goes(w, where) == worker' = [worker EXCEPT ![w].pc = where]

Mishap(kind) ==
  /\ kind \notin failed
  /\ failed' = failed \union {kind}

\* deluge_error_repair: one status of all torrents.
Scan ==
  /\ worker["repair"].pc = "idle"
  /\ worker' = [worker EXCEPT !["repair"] = [Idle EXCEPT !.pc = "resume", !.seen = Snapshot]]
  /\ UNCHANGED <<torrent, disk, event, rechecked, present, told, lock, failed>>

\* The resume pass, by the snapshot: what is checked through and whole runs
\* again, what is not is left paused for a human.
ResumePass ==
  LET seen == worker["repair"].seen IN
  /\ worker["repair"].pc = "resume"
  /\ Goes("repair", IF seen.state = "Error" THEN "wait" ELSE "idle")
  /\ IF ~ rechecked \/ seen.state = "Checking"
     THEN UNCHANGED <<torrent, rechecked, told>>
     ELSE /\ rechecked' = FALSE
          /\ IF seen.state = "Paused" /\ seen.done THEN ResumeTorrent ELSE UNCHANGED torrent
          /\ told' = told \union IF seen.state = "Paused" /\ ~ seen.done
                                 THEN {"partial"} ELSE {}
  /\ failed' = failed \union IF rechecked /\ seen.state \notin {"Paused", "Checking"} /\ torrent.held
                             THEN {"overtaken"} ELSE {}
  /\ UNCHANGED <<disk, event, present, lock>>

-----------------------------------------------------------------------------
\* restore_moved_files: on its timer, or from the repair for what it saw in Error.
Acquire(w) ==
  /\ lock = "free"
  /\ worker[w].pc = IF w = "repair" THEN "wait" ELSE "idle"
  /\ lock' = w
  /\ Goes(w, "look")
  /\ UNCHANGED <<torrent, disk, event, rechecked, present, told, failed>>

Returns(w) ==
  /\ lock' = "free"
  /\ worker' = [worker EXCEPT ![w].pc = IF w = "repair" THEN "errors" ELSE "idle",
                              ![w].own = NoSnapshot]

\* The timer looks at untracked imports of a week, the repair at all of 90 days.
Listed(w) ==
  /\ event = "recent" \/ (event \in {"old", "replaced"} /\ w = "repair")
  /\ ~ present /\ ~ torrent.library

\* _restore_moved_files: its own snapshot, and a look at the disk for the
\* files on record that nobody has found there yet.
Look(w) ==
  /\ worker[w].pc = "look"
  /\ IF Listed(w) /\ disk = "short" /\ event # "replaced"
     THEN /\ worker' = [worker EXCEPT ![w].pc = "link", ![w].own = Snapshot]
          /\ UNCHANGED <<lock, present>>
     ELSE /\ Returns(w)
          /\ present' = (present \/ (Listed(w) /\ disk = "whole"))
  /\ UNCHANGED <<torrent, disk, event, rechecked, told, failed>>

\* The library's file is linked back; Deluge must then look again, unless it
\* says that it has the file (or is at work on it).
Link(w) ==
  LET own == worker[w].own
      errored == disk = "short" /\ own.state = "Error"
      behind  == disk = "short" /\ own.state \in {"Paused", "Downloading"} /\ ~ own.done
  IN
  /\ worker[w].pc = "link"
  /\ present' = TRUE
  /\ disk' = "whole"
  /\ \/ /\ errored
        /\ worker' = [worker EXCEPT ![w].pc = "pause",
                        ![w].then = IF w = "repair" THEN "errors" ELSE "idle"]
        /\ UNCHANGED lock
     \/ behind /\ Goes(w, "reverify") /\ UNCHANGED lock
     \/ ~ errored /\ ~ behind /\ Returns(w)
  /\ UNCHANGED <<torrent, event, rechecked, told, failed>>

Reverify(w) ==
  /\ worker[w].pc = "reverify"
  /\ ForceRecheck
  /\ Returns(w)
  /\ UNCHANGED <<disk, event, rechecked, present, told, failed>>

-----------------------------------------------------------------------------
\* Pause, recheck, and remember: in the restoring and in the repair.
Pause(w) ==
  /\ worker[w].pc = "pause"
  /\ PauseTorrent
  /\ Goes(w, "recheck")
  /\ UNCHANGED <<disk, event, rechecked, present, told, lock, failed>>

\* The end of a restoring or of a repair: on to what comes next.
Leaves(w) ==
  /\ worker' = [worker EXCEPT ![w] = [@ EXCEPT !.pc = worker[w].then, !.own = NoSnapshot,
                                               !.then = "idle"]]
  /\ lock' = IF lock = w THEN "free" ELSE lock

(* A mutant of Recheck: the torrent is not remembered.                     *)
RecheckOnly(w) ==
  /\ worker[w].pc = "recheck"
  /\ ForceRecheck
  /\ Leaves(w)
  /\ UNCHANGED <<disk, event, rechecked, present, told, failed>>

Recheck(w) ==
  /\ worker[w].pc = "recheck"
  /\ ForceRecheck
  /\ rechecked' = TRUE
  /\ Leaves(w)
  /\ UNCHANGED <<disk, event, present, told, failed>>

-----------------------------------------------------------------------------
Report(outcome) ==
  /\ told' = told \union {outcome}
  /\ Goes("repair", "idle")

PathExists == disk \in {"whole", "short"}

\* A single and exact match that is no reseed of the library is moved to.
Findable == disk = "elsewhere"

\* What the snapshot showed in Error. A torrent the restoring has just
\* rechecked is left alone; one that seeds from the library is only paused.
ErrorPass ==
  /\ worker["repair"].pc = "errors"
  /\ \/ rechecked /\ Goes("repair", "idle") /\ UNCHANGED <<torrent, told>>
     \/ ~ rechecked /\ torrent.library /\ PauseTorrent /\ Report("library")
     \/ /\ ~ rechecked /\ ~ torrent.library
        /\ \/ PathExists /\ Goes("repair", "pause") /\ UNCHANGED <<torrent, told>>
           \/ disk = "missing" /\ Report("missing") /\ UNCHANGED torrent
           \/ disk = "shelved" /\ Report("match") /\ UNCHANGED torrent
           \/ Findable /\ Report("candidate") /\ UNCHANGED torrent
           \/ /\ Findable /\ Goes("repair", "idle")
              /\ torrent' = [torrent EXCEPT !.state = "Moving"]
              /\ UNCHANGED told
  /\ UNCHANGED <<disk, event, rechecked, present, lock, failed>>

-----------------------------------------------------------------------------
\* The history or Deluge does not answer the restoring.
LookFails(w) ==
  /\ worker[w].pc = "look" /\ Mishap("scan")
  /\ Returns(w)
  /\ UNCHANGED <<torrent, disk, event, rechecked, present, told>>

\* A request that gets no answer may have been carried out or not. A resume
\* keeps its hash for the next pass either way.
ResumeFails ==
  /\ worker["repair"].pc = "resume" /\ rechecked /\ Mishap("resume")
  /\ worker["repair"].seen.state = "Paused" /\ worker["repair"].seen.done
  /\ ResumeTorrent \/ UNCHANGED torrent
  /\ Goes("repair", "idle")
  /\ UNCHANGED <<disk, event, rechecked, present, told, lock>>

ReverifyFails(w) ==
  /\ worker[w].pc = "reverify" /\ Mishap("reverify")
  /\ ForceRecheck \/ UNCHANGED torrent
  /\ Returns(w)
  /\ UNCHANGED <<disk, event, rechecked, present, told>>

\* A pause that was not carried out leaves the torrent in Error, for the next
\* pass. One that was, and a recheck after it, end with the torrent paused,
\* neither remembered nor reported: the treatment is cut off.
PauseFails ==
  \/ Mishap("pause") /\ UNCHANGED torrent
  \/ Mishap("cut") /\ PauseTorrent

RequestFails(w) ==
  /\ \/ worker[w].pc = "pause" /\ PauseFails
     \/ worker[w].pc = "recheck" /\ Mishap("cut") /\ (ForceRecheck \/ UNCHANGED torrent)
     \/ /\ worker[w].pc = "errors" /\ ~ rechecked
        /\ \/ torrent.library /\ PauseFails
           \/ ~ torrent.library /\ Mishap("probe") /\ UNCHANGED torrent
           \/ /\ ~ torrent.library /\ Findable /\ Mishap("move")
              /\ torrent' \in {torrent, [torrent EXCEPT !.state = "Moving"]}
  /\ Leaves(w)
  /\ UNCHANGED <<disk, event, rechecked, present, told>>

Restart ==
  /\ Mishap("restart")
  /\ rechecked' = FALSE /\ present' = FALSE
  /\ told' = {}
  /\ worker' = [w \in Workers |-> Idle]
  /\ lock' = "free"
  /\ UNCHANGED <<torrent, disk, event>>

PassStep(w) ==
  \/ Acquire(w) \/ Look(w) \/ Link(w) \/ Reverify(w) \/ Pause(w) \/ Recheck(w)
  \/ w = "repair" /\ (Scan \/ ResumePass \/ ErrorPass)

Next ==
  \/ \E w \in Workers : PassStep(w) \/ LookFails(w) \/ ReverifyFails(w) \/ RequestFails(w)
  \/ ResumeFails \/ Restart \/ DelugeStep \/ MoveOut

\* The two schedulers run for ever, and Deluge gets its work done.
Fairness ==
  /\ \A w \in Workers : WF_repair(PassStep(w))
  /\ WF_repair(FinishCheck /\ DelugeStep) /\ WF_repair(FinishMove /\ DelugeStep)
  /\ SF_repair(Acquire("repair"))

-----------------------------------------------------------------------------
\* Paused, and no pass will come back to it.
Abandoned == torrent.state = "Paused" /\ ~ rechecked /\ \A w \in Workers : worker[w].pc # "recheck"

HealedUnless(excuses) ==
  torrent.state = "Error" ~>
    \/ torrent.state \in {"Downloading", "Seeding"}
    \/ told # {}
    \/ Abandoned /\ failed \intersect excuses # {}


\* An errored torrent is brought back, or reported, although two passes
\* treat it by snapshots of their own and any request may go unanswered. In
\* three cases the code leaves it paused and unreported instead: a restart,
\* an answer that is lost after the pause was carried out and before the
\* hash is remembered (7723-7728, 7843-7848, 7860-7871), and a resume pass
\* on a snapshot that a restoring has overtaken. It is never left in Error unreported.
Healed == HealedUnless({"restart", "cut", "overtaken"})

\* What makes TypeOK so: what a pass links, pauses and rechecks is no torrent
\* that seeds from the library.
LibraryLeftAlone ==
  \A w \in Workers : worker[w].pc \in {"link", "pause", "recheck"} => ~ torrent.library

Inv == TypeOK /\ LibraryLeftAlone
=============================================================================

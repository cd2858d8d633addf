-------------------------- MODULE SeasonMigration --------------------------
(***************************************************************************)
(* src/season_migration.py under src/speed_cap.py: season packs that seed  *)
(* out of the Plex library are hardlinked into the seeding directory and   *)
(* moved there, capped, a pilot first and then in batches.                 *)
(*                                                                         *)
(* A pack's number is its place in the sorted hashes, so names differ.     *)
(* Polling is a wait that may be given up; a dry run changes nothing and   *)
(* is left out.  A request that is executed and whose answer is lost is    *)
(* one after which the next request fails.                                 *)
(***************************************************************************)
EXTENDS Integers, FiniteSets

CONSTANTS
    Packs,    \* season packs, in the order of their hashes
    Workers,  \* threads that run ticks (run_once)
    Batch,    \* BATCH
    Faults    \* subset of {"copy", "request", "timeout", "error", "restart"}

ASSUME MigrationAssumption ==
    /\ Packs \subseteq Nat /\ IsFiniteSet(Packs)
    /\ Batch \in Nat \ {0}
    /\ "none" \notin Workers

Pilot == 1

VARIABLES
    tor,        \* Deluge: state, save path and download limit of each pack
    library,    \* is the library's copy still there?
    mirror,     \* the hardlinks under the seeding directory
    inflight,   \* speed_cap._inflight: its holder, or "none"
    pilotDone,  \* state['pilot_done'], in memory
    tick        \* the locals of each worker's tick

vars == <<tor, library, mirror, inflight, pilotDone, tick>>

Torrent == [state : {"Seeding", "Paused", "Moving", "Checking", "Resumed",
                     "Error"},     \* "Resumed": checking, then to seed
            save_path : {"library", "seeding"},
            limit : {"own", "slow"}]

Steps == {"idle", "acquire", "next", "read", "cap", "copy", "compare",
          "pause", "move", "poll", "verify", "recheck", "resume", "wait",
          "restore", "end"}

Ticks == [pc : Steps, todo : SUBSET Packs, pack : Packs,
          prior : {"own", "slow"}, done : BOOLEAN]

(* A mutant of Candidates: what has left the library counts as well.       *)
CandidatesAnywhere == {h \in Packs : tor[h].state = "Seeding"}

Candidates ==
    {h \in Packs : tor[h].state = "Seeding" /\ tor[h].save_path = "library"}

(* hashes[:limit] of the sorted candidates.                                *)
FirstOf(S, limit) == {h \in S : Cardinality({g \in S : g < h}) < limit}

(* Every file of the library's copy has its inode in the mirror.           *)
SameInodes(h) == library[h] /\ mirror[h] = "full"

Init ==
    /\ tor = [h \in Packs |-> [state |-> "Seeding", save_path |-> "library",
                               limit |-> "own"]]
    /\ library = [h \in Packs |-> TRUE]
    /\ mirror = [h \in Packs |-> "none"]
    /\ inflight = "none"
    /\ pilotDone = FALSE
    /\ tick \in [Workers -> {[pc |-> "idle", todo |-> {}, pack |-> h,
                              prior |-> "own", done |-> FALSE] : h \in Packs}]

-----------------------------------------------------------------------------
(* One tick.  Pack(w) is the torrent in hand.                              *)

Pack(w) == tick[w].pack

Goto(w, next) == tick' = [tick EXCEPT ![w].pc = next]

SetTor(h, t) == tor' = [tor EXCEPT ![h] = t]

Disk == <<library, mirror>>
Control == <<inflight, pilotDone>>

Fetch(w) ==
    /\ tick[w].pc = "idle"
    /\ tick' = [tick EXCEPT
          ![w].pc = "acquire", ![w].done = FALSE,
          ![w].todo = FirstOf(Candidates, IF pilotDone THEN Batch ELSE Pilot)]
    /\ UNCHANGED <<tor, Disk, Control>>

(* A mutant of Acquire: the lock is taken over.                            *)
AcquireAnyway(w) ==
    /\ tick[w].pc = "acquire"
    /\ inflight' = w /\ Goto(w, "next")
    /\ UNCHANGED <<tor, Disk, pilotDone>>

(* Not blocking: a tick that finds a migration in flight is skipped.       *)
Acquire(w) ==
    /\ tick[w].pc = "acquire"
    /\ IF inflight = "none" THEN inflight' = w /\ Goto(w, "next")
       ELSE Goto(w, "idle") /\ UNCHANGED inflight
    /\ UNCHANGED <<tor, Disk, pilotDone>>

(* any_error, then the next pack.                                          *)
NextPack(w) ==
    /\ tick[w].pc = "next" /\ tick[w].todo # {}
    /\ \A h \in Packs : tor[h].state # "Error"
    /\ \E h \in FirstOf(tick[w].todo, 1) :
          tick' = [tick EXCEPT ![w].pc = "read", ![w].pack = h,
                               ![w].todo = @ \ {h}]
    /\ UNCHANGED <<tor, Disk, Control>>

NoPack(w) ==
    /\ tick[w].pc = "next"
    /\ tick[w].todo = {} \/ \E h \in Packs : tor[h].state = "Error"
    /\ Goto(w, "end")
    /\ UNCHANGED <<tor, Disk, Control>>

(* apply_cap: the limit in force is the one to restore.                    *)
ReadLimit(w) ==
    /\ tick[w].pc = "read"
    /\ tick' = [tick EXCEPT ![w].pc = "cap", ![w].prior = tor[Pack(w)].limit]
    /\ UNCHANGED <<tor, Disk, Control>>

Cap(w) ==
    /\ tick[w].pc = "cap"
    /\ SetTor(Pack(w), [tor[Pack(w)] EXCEPT !.limit = "slow"])
    /\ Goto(w, "copy")
    /\ UNCHANGED <<Disk, Control>>

(* cp -al, unless something is there.                                      *)
Copy(w) ==
    /\ tick[w].pc = "copy"
    /\ mirror' = IF mirror[Pack(w)] = "none"
                 THEN [mirror EXCEPT ![Pack(w)] = "full"] ELSE mirror
    /\ Goto(w, "compare")
    /\ UNCHANGED <<tor, library, Control>>

CopyFails(w) ==
    /\ "copy" \in Faults
    /\ tick[w].pc = "copy" /\ mirror[Pack(w)] = "none"
    /\ \E left \in {"none", "partial"} :
          mirror' = [mirror EXCEPT ![Pack(w)] = left]
    /\ Goto(w, "end")
    /\ UNCHANGED <<tor, library, Control>>

(* A mutant of Compare: that there is a mirror will do.                    *)
CompareExists(w) ==
    /\ tick[w].pc = "compare"
    /\ Goto(w, IF mirror[Pack(w)] # "none" THEN "pause" ELSE "end")
    /\ UNCHANGED <<tor, Disk, Control>>

Compare(w) ==
    /\ tick[w].pc = "compare"
    /\ Goto(w, IF SameInodes(Pack(w)) THEN "pause" ELSE "end")
    /\ UNCHANGED <<tor, Disk, Control>>

(* A mutant of Paused: a paused torrent counts as stopped.                 *)
PausedStopped(state) == IF state = "Seeding" THEN "Stopped" ELSE state

(* core.pause_torrent: a check under way goes on and ends paused.          *)
Paused(state) ==
    CASE state = "Seeding" -> "Paused" [] state = "Resumed" -> "Checking"
      [] OTHER -> state

Pause(w) ==
    /\ tick[w].pc = "pause"
    /\ SetTor(Pack(w), [tor[Pack(w)] EXCEPT !.state = Paused(@)])
    /\ Goto(w, "move")
    /\ UNCHANGED <<Disk, Control>>

Move(w) ==
    LET t == tor[Pack(w)]
    IN  /\ tick[w].pc = "move"
        /\ SetTor(Pack(w), IF t.save_path = "library"
                           THEN [t EXCEPT !.state = "Moving"] ELSE t)
        /\ Goto(w, "poll")
        /\ UNCHANGED <<Disk, Control>>

Poll(w) ==
    LET t == tor[Pack(w)]
    IN  /\ tick[w].pc = "poll"
        /\ \/ t.state = "Error" /\ Goto(w, "end")
           \/ /\ t.state \notin {"Error", "Moving"} /\ t.save_path = "seeding"
              /\ Goto(w, "verify")
        /\ UNCHANGED <<tor, Disk, Control>>

Verify(w) ==
    /\ tick[w].pc = "verify"
    /\ Goto(w, IF SameInodes(Pack(w)) THEN "recheck" ELSE "end")
    /\ UNCHANGED <<tor, Disk, Control>>

Recheck(w) ==
    /\ tick[w].pc = "recheck"
    /\ SetTor(Pack(w), [tor[Pack(w)] EXCEPT !.state = "Checking"])
    /\ Goto(w, "resume")
    /\ UNCHANGED <<Disk, Control>>

Resume(w) ==
    LET t == tor[Pack(w)]
    IN  /\ tick[w].pc = "resume"
        /\ SetTor(Pack(w), [t EXCEPT !.state =
              CASE t.state = "Checking" -> "Resumed"
                [] t.state = "Paused" -> "Seeding"
                [] OTHER -> t.state])
        /\ Goto(w, "wait")
        /\ UNCHANGED <<Disk, Control>>

(* A mutant of Wait: whatever is not in Error counts as seeding.           *)
WaitNoError(w) ==
    /\ tick[w].pc = "wait"
    /\ Goto(w, IF tor[Pack(w)].state # "Error" THEN "restore" ELSE "end")
    /\ UNCHANGED <<tor, Disk, Control>>

Wait(w) ==
    /\ tick[w].pc = "wait"
    /\ \/ tor[Pack(w)].state = "Seeding" /\ Goto(w, "restore")
       \/ tor[Pack(w)].state = "Error" /\ Goto(w, "end")
    /\ UNCHANGED <<tor, Disk, Control>>

(* The bounded polls of the move and of Seeding run out.                   *)
GiveUp(w) ==
    /\ "timeout" \in Faults
    /\ \/ tick[w].pc = "poll" /\ tor[Pack(w)].state = "Moving"
       \/ tick[w].pc = "wait" /\ tor[Pack(w)].state # "Seeding"
    /\ Goto(w, "end")
    /\ UNCHANGED <<tor, Disk, Control>>

Restore(w) ==
    /\ tick[w].pc = "restore"
    /\ SetTor(Pack(w), [tor[Pack(w)] EXCEPT !.limit = tick[w].prior])
    /\ tick' = [tick EXCEPT ![w].pc = "next", ![w].done = TRUE]
    /\ UNCHANGED <<Disk, Control>>

End(w) ==
    /\ tick[w].pc = "end"
    /\ inflight' = "none"
    /\ pilotDone' = (pilotDone \/ tick[w].done)
    /\ Goto(w, "idle")
    /\ UNCHANGED <<tor, Disk>>

(* A request raises: the lock is released, nothing is recorded.            *)
RequestFails(w) ==
    /\ "request" \in Faults
    /\ tick[w].pc \in {"next", "read", "cap", "pause", "move", "poll",
                       "recheck", "resume", "wait", "restore"}
    /\ inflight' = "none"
    /\ Goto(w, "idle")
    /\ UNCHANGED <<tor, Disk, pilotDone>>

(* The process restarts, possibly in the middle of a cp.                   *)
Restart ==
    LET copying == {h \in Packs : mirror[h] = "none" /\ \E w \in Workers :
                        tick[w].pc = "copy" /\ Pack(w) = h}
    IN  /\ "restart" \in Faults
        /\ tick' = [w \in Workers |-> [tick[w] EXCEPT !.pc = "idle"]]
        /\ inflight' = "none" /\ pilotDone' = FALSE
        /\ \E torn \in SUBSET copying :
              mirror' = [h \in Packs |->
                            IF h \in torn THEN "partial" ELSE mirror[h]]
        /\ UNCHANGED <<tor, library>>

-----------------------------------------------------------------------------
(* Deluge.  A move takes what is not yet hardlinked out of the library;    *)
(* what is, stays: renaming a file to another link of it changes nothing.  *)

MoveEnds(h) ==
    /\ tor[h].state = "Moving"
    /\ SetTor(h, [tor[h] EXCEPT !.state = "Paused", !.save_path = "seeding"])
    /\ library' = [library EXCEPT ![h] = @ /\ mirror[h] = "full"]
    /\ mirror' = [mirror EXCEPT ![h] = "full"]
    /\ UNCHANGED <<Control, tick>>

CheckEnds(h) ==
    /\ tor[h].state \in {"Checking", "Resumed"}
    /\ SetTor(h, [tor[h] EXCEPT !.state =
                     IF @ = "Resumed" THEN "Seeding" ELSE "Paused"])
    /\ UNCHANGED <<Disk, Control, tick>>

Err(h) ==
    /\ "error" \in Faults
    /\ tor[h].state \in {"Moving", "Checking", "Resumed"}
    /\ SetTor(h, [tor[h] EXCEPT !.state = "Error"])
    /\ UNCHANGED <<Disk, Control, tick>>

Do(w) ==
    \/ Fetch(w) \/ Acquire(w) \/ NextPack(w) \/ NoPack(w) \/ ReadLimit(w)
    \/ Cap(w) \/ Copy(w) \/ Compare(w) \/ Pause(w) \/ Move(w) \/ Poll(w)
    \/ Verify(w) \/ Recheck(w) \/ Resume(w) \/ Wait(w) \/ GiveUp(w)
    \/ Restore(w) \/ End(w)

Next ==
    \/ \E w \in Workers : Do(w) \/ CopyFails(w) \/ RequestFails(w)
    \/ Restart
    \/ \E h \in Packs : MoveEnds(h) \/ CheckEnds(h) \/ Err(h)

Spec == Init /\ [][Next]_vars

(* Ticks come again and again and each goes on, its polls being bounded;   *)
(* cp does not fail every time.                                            *)
Fairness == \A w \in Workers : WF_vars(Do(w)) /\ SF_vars(Copy(w))

FairSpec == Spec /\ Fairness

-----------------------------------------------------------------------------
TypeOK ==
    /\ tor \in [Packs -> Torrent]
    /\ library \in [Packs -> BOOLEAN]
    /\ mirror \in [Packs -> {"none", "partial", "full"}]
    /\ inflight \in Workers \cup {"none"}
    /\ pilotDone \in BOOLEAN
    /\ tick \in [Workers -> Ticks]

(* The packs leave "the Plex library ... without touching the library      *)
(* files" (src/season_migration.py:1): whatever copy was cut short, poll   *)
(* given up or process restarted, and however old the tick's listing is.   *)
LibraryKept == \A h \in Packs : library[h]

(* "The cap stays on until the torrent is verified Seeding"                *)
(* (src/speed_cap.py:5), in every failure.                                 *)
CappedUntilSeeding ==
    \A h \in Packs : tor[h].state # "Seeding" => tor[h].limit = "slow"

(* "one at a time" (src/speed_cap.py:6): only the holder of the lock is    *)
(* past it, so that what its tick has brought about (the cap, the mirror   *)
(* checked for inodes, Seeding) stays true until it has used it, whatever  *)
(* other ticks, the faults and Deluge do between two requests; and Deluge  *)
(* moves only what is mirrored.  The strengthening the proofs rest on.     *)
AtRest == {"idle", "acquire"}
BeforeCap == AtRest \cup {"next", "read", "cap", "end"}
BeforeMirror == BeforeCap \cup {"copy", "compare"}

OneInCharge ==
    /\ \A w \in Workers :
          /\ tick[w].pc \notin AtRest => inflight = w
          /\ tick[w].pc \notin BeforeCap => tor[Pack(w)].limit = "slow"
          /\ tick[w].pc \notin BeforeMirror => mirror[Pack(w)] = "full"
          /\ tick[w].pc = "restore" => tor[Pack(w)].state = "Seeding"
    /\ \A h \in Packs : tor[h].state = "Moving" => mirror[h] = "full"

(* No pack is starved: one that could be migrated is taken up, unless a    *)
(* torrent in Error pauses all runs or a copy was left half made.          *)
TakenUp ==
    \A h \in Packs :
        ~<>[](/\ h \in Candidates
              /\ \A g \in Packs : tor[g].state # "Error"
              /\ \A g \in Packs : mirror[g] # "partial")
=============================================================================

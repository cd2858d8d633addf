----------------------------- MODULE SeedReviews -----------------------------
(***************************************************************************)
(* The weekly review of stalled seeds, which unseeds what has seeded long  *)
(* enough and uploaded too little since the review before. One torrent     *)
(* stands for each of them; time is counted in weeks, and the upload in    *)
(* units of STALL_UPLOAD_THRESHOLD_BYTES. The timer's review and those of  *)
(* the route share the file of the baselines, without a lock.              *)
(***************************************************************************)
EXTENDS Integers

CONSTANTS
  SEED_WEEKS,  \* SEED_DAYS and STALL_SEED_MIN_DAYS, both 21 days
  MaxUpload,   \* bounds the upload
  Routes       \* the requests of /run-stalled-seeds that may run at a time

Reviewers == Routes \union {"timer"}

ReviewsAssumption == {SEED_WEEKS, MaxUpload} \subseteq Nat /\ "timer" \notin Routes

VARIABLES
  torrent,  \* what Deluge has; stirred: it has uploaded since the timer's last look
  base,     \* the file SEED_STATE_PATH: the upload last written down, or None;
            \* history: own, whether it was this torrent's, not a predecessor's
  due,      \* a week is over since the timer's last review
  byHand,   \* history: a review by hand, for real, has looked since the timer's
  review    \* the reviews

reviews == <<torrent, base, due, byHand, review>>

None == -1
Uploads == 0 .. MaxUpload
Torrent == [here : BOOLEAN, shown : BOOLEAN, seeded : 0 .. SEED_WEEKS,
            uploaded : Uploads, stirred : BOOLEAN]
Entry == [up : Uploads \union {None}, own : BOOLEAN]
NoEntry == [up |-> None, own |-> TRUE]
Grabbed == [here |-> TRUE, shown |-> FALSE, seeded |-> 0, uploaded |-> 0, stirred |-> FALSE]
Idle == [pc |-> "idle", dry |-> FALSE, saw |-> "skipped", next |-> NoEntry,
         stirred |-> FALSE, hand |-> FALSE, own |-> TRUE]
\* stirred, hand and own are history, of the timer's review only.
Passes == [pc : {"idle", "look", "remove", "save"}, dry : BOOLEAN,
           saw : {"skipped", "young", "old"}, next : Entry,
           stirred : BOOLEAN, hand : BOOLEAN, own : BOOLEAN]

TypeOK ==
  /\ torrent \in Torrent
  /\ base \in Entry
  /\ due \in BOOLEAN /\ byHand \in BOOLEAN
  /\ review \in [Reviewers -> Passes]

Init ==
  /\ torrent = Grabbed
  /\ base = NoEntry /\ due = FALSE /\ byHand = FALSE
  /\ review = [r \in Reviewers |-> Idle]

-----------------------------------------------------------------------------
\* The timer sleeps a week before each of its reviews; none takes that long.
Week ==
  /\ ~ due /\ \A r \in Reviewers : review[r].pc = "idle"
  /\ due' = TRUE
  /\ torrent' = [torrent EXCEPT !.seeded = IF torrent.here /\ @ < SEED_WEEKS THEN @ + 1 ELSE @]
  /\ UNCHANGED <<base, byHand, review>>

Upload ==
  /\ torrent.here /\ torrent.uploaded < MaxUpload
  /\ torrent' = [torrent EXCEPT !.uploaded = @ + 1, !.stirred = TRUE]
  /\ UNCHANGED <<base, due, byHand, review>>

\* It gets its label and a slot, or waits for one again: the reviews skip what
\* has no label, and what is queued, downloading, checked or allocated.
Shift ==
  /\ torrent.here
  /\ torrent' = [torrent EXCEPT !.shown = ~ @]
  /\ UNCHANGED <<base, due, byHand, review>>

Gone == torrent' = [torrent EXCEPT !.here = FALSE, !.shown = FALSE, !.seeded = 0]

\* Another pass removes it (the retention of single episodes, a superseded or a
\* duplicate torrent), or someone at the client. No baseline is dropped.
Leave ==
  /\ torrent.here /\ Gone
  /\ UNCHANGED <<base, due, byHand, review>>

\* It is grabbed again after its removal: what is written down, or about to be,
\* was its predecessor's.
Readd ==
  /\ ~ torrent.here
  /\ torrent' = Grabbed
  /\ base' = [base EXCEPT !.own = base.up = None]
  /\ review' = [r \in Reviewers |->
       [review[r] EXCEPT !.next.own = review[r].next.up = None]]
  /\ UNCHANGED <<due, byHand>>

-----------------------------------------------------------------------------
\* The look of a review: what has no upload to write down is not there.
Saw == IF ~ torrent.shown THEN "skipped" ELSE IF torrent.seeded < SEED_WEEKS THEN "young" ELSE "old"
Look(r, dry, stirred, hand) ==
  /\ review[r].pc = "idle"
  /\ review' = [review EXCEPT ![r] = [pc |-> "look", dry |-> dry, saw |-> Saw,
       next |-> IF torrent.here THEN [up |-> torrent.uploaded, own |-> TRUE] ELSE NoEntry,
       stirred |-> stirred, hand |-> hand, own |-> TRUE]]
  /\ UNCHANGED base

\* Only the timer's ends the week.
TimerLooks ==
  /\ due /\ due' = FALSE
  /\ Look("timer", FALSE, torrent.stirred, byHand)
  /\ byHand' = FALSE
  /\ torrent' = [torrent EXCEPT !.stirred = FALSE]

\* The route: a preview, or with apply=1 for real.
RouteLooks(r) ==
  /\ \E dry \in BOOLEAN : Look(r, dry, FALSE, FALSE) /\ byHand' = (byHand \/ ~ dry)
  /\ UNCHANGED <<torrent, due>>

\* Seeded long enough, and quiet since the baseline that was loaded.
Stalled(r) ==
  /\ review[r].saw = "old" /\ review[r].next.up # None /\ base.up # None
  /\ review[r].next.up - base.up < 1

\* The baselines are loaded after the look. A stalled torrent goes if its swarm
\* is known to be large enough; one that is skipped keeps its old baseline.
Judge(r) ==
  /\ review[r].pc = "look"
  /\ \E goes \in BOOLEAN :
       /\ goes => Stalled(r) /\ ~ review[r].dry
       /\ review' = [review EXCEPT ![r] =
            [@ EXCEPT !.pc = IF goes THEN "remove" ELSE "save", !.saw = "skipped",
                      !.next = IF review[r].saw = "skipped" /\ review[r].next.up # None
                               THEN base ELSE review[r].next,
                      !.hand = review[r].hand \/ (r = "timer" /\ byHand),
                      !.own = r = "timer" => base.own]]
  /\ UNCHANGED <<torrent, base, due, byHand>>

\* The seed floor, judged on a new status: it lets go what has seeded, and what
\* has never begun to. A torrent it defers, or knows nothing of, stays.
Floor == torrent.here /\ (torrent.seeded >= SEED_WEEKS \/ torrent.seeded = 0)

Unseed(r) ==
  /\ review[r].pc = "remove" /\ Floor /\ Gone
  /\ review' = [review EXCEPT ![r] = [@ EXCEPT !.pc = "save", !.next = NoEntry]]
  /\ UNCHANGED <<base, due, byHand>>

\* A deferred torrent keeps what this review saw of it.
Defer(r) ==
  /\ review[r].pc = "remove"
  /\ review' = [review EXCEPT ![r].pc = "save"]
  /\ UNCHANGED <<torrent, base, due, byHand>>

(* A mutant of SaveReview: the preview writes the baselines down too.      *)
SaveReviewDry(r) ==
  /\ review[r].pc = "save"
  /\ base' = review[r].next
  /\ review' = [review EXCEPT ![r] = Idle]
  /\ UNCHANGED <<torrent, due, byHand>>

\* The baselines are written at the end, over whatever was written meanwhile.
SaveReview(r) ==
  /\ review[r].pc = "save"
  /\ base' = IF review[r].dry THEN base ELSE review[r].next
  /\ review' = [review EXCEPT ![r] = Idle]
  /\ UNCHANGED <<torrent, due, byHand>>

\* A request fails, and may have been carried out: nothing is written.
ReviewFails(r) ==
  /\ review[r].pc # "idle"
  /\ \/ UNCHANGED torrent
     \/ review[r].pc = "remove" /\ Floor /\ Gone
  /\ review' = [review EXCEPT ![r] = Idle]
  /\ UNCHANGED <<base, due, byHand>>

\* The process is restarted: the timer sleeps its week anew.
Restart ==
  /\ review' = [r \in Reviewers |-> Idle]
  /\ due' = FALSE
  /\ UNCHANGED <<torrent, base, byHand>>

-----------------------------------------------------------------------------
Next ==
  \/ Week \/ Upload \/ Shift \/ Leave \/ Readd \/ Restart
  \/ TimerLooks \/ \E r \in Routes : RouteLooks(r)
  \/ \E r \in Reviewers : Judge(r) \/ Unseed(r) \/ Defer(r) \/ SaveReview(r) \/ ReviewFails(r)

-----------------------------------------------------------------------------
\* The timer's review removes a torrent only if it has uploaded nothing since
\* the timer's look before, a week ago or more, whatever previews, overlapping
\* and failed reviews, skips, deferrals, removals and restarts came between.
\* Two things shorten the week: a review by hand; and a torrent that was grabbed
\* again, and skipped ever since, is judged by its predecessor's upload.
QuietForAWeek ==
  [][torrent.here /\ ~ torrent'.here /\ review["timer"].pc = "remove"
     /\ review'["timer"] # review["timer"]
       => ~ review["timer"].stirred \/ review["timer"].hand \/ ~ review["timer"].own]_reviews

\* What makes it so. A baseline of this torrent, written down or about to be, is
\* no more than it has uploaded, and less once it has uploaded since the timer's
\* look.
Before(entry) ==
  entry.own /\ entry.up # None =>
    /\ torrent.uploaded >= entry.up
    /\ byHand \/ (torrent.stirred => torrent.uploaded > entry.up)

BaseSound ==
  /\ Before(base)
  /\ \A r \in Reviewers : review[r].pc # "idle" /\ ~ review[r].dry => Before(review[r].next)

\* No review by hand goes on from one week to the next.
HandsSound ==
  \A r \in Routes :
    /\ due /\ review[r].pc # "idle" /\ ~ review[r].dry => byHand
    /\ review["timer"].pc = "look" /\ ~ review["timer"].hand /\ ~ byHand =>
         review[r].pc = "idle" \/ review[r].dry

\* The same of what the timer's review has seen and is judged by.
JudgedSound ==
  /\ ~ review["timer"].dry
  /\ due => review["timer"].pc = "idle"
  /\ review["timer"].pc = "look" /\ ~ review["timer"].hand /\ ~ byHand
     /\ base.own /\ base.up # None /\ review["timer"].stirred
     /\ review["timer"].next.up # None =>
       review["timer"].next.up > base.up
  /\ review["timer"].pc = "remove" =>
       ~ review["timer"].stirred \/ review["timer"].hand \/ ~ review["timer"].own

Inv == TypeOK /\ BaseSound /\ HandsSound /\ JudgedSound
=============================================================================

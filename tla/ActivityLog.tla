---------------------------- MODULE ActivityLog ----------------------------
(***************************************************************************)
(* The activity log, in which an operator finds what happened to a torrent *)
(* over the last week. Any thread appends to it; once a day a thread reads *)
(* it whole, drops what is older than a week and writes the rest anew, by  *)
(* opening the file, which empties it, and then writing. No lock is taken. *)
(***************************************************************************)
EXTENDS Naturals

CONSTANTS
  Weeks,     \* bounds the clock
  Entries    \* bounds the entries

LogAssumption == {Entries, Weeks} \subseteq Nat

VARIABLES
  week,      \* the clock, in units of ACTIVITY_LOG_RETENTION_DAYS
  next,      \* the number of the next entry
  activity,  \* the entries of the file
  trim,      \* trim_activity_log: where it is, what it keeps, and whether the last
             \* one that was cut short has left half a line at the file's end
  owed       \* what was recorded outside a trim, and lost by none that was cut short

logs == <<week, next, activity, trim, owed>>

Entry == [n : 0 .. Entries, ts : 0 .. Weeks]
AtRest(torn) == [pc |-> "away", kept |-> {}, torn |-> torn]

TypeOK ==
  /\ week \in 0 .. Weeks /\ next \in 0 .. Entries
  /\ activity \in SUBSET Entry /\ owed \in SUBSET Entry
  /\ trim \in [pc : {"away", "open", "write"}, kept : SUBSET Entry, torn : BOOLEAN]

Init ==
  /\ week = 0 /\ next = 0
  /\ activity = {} /\ owed = {}
  /\ trim = AtRest(FALSE)

-----------------------------------------------------------------------------
\* record_activity, on whatever thread. After half a line it is unreadable.
Record ==
  /\ next < Entries
  /\ LET entry == [n |-> next, ts |-> week]
         read == IF trim.torn THEN {} ELSE {entry}
     IN  /\ activity' = activity \union read
         /\ owed' = IF trim.pc = "away" THEN owed \union read ELSE owed
  /\ next' = next + 1 /\ trim' = [trim EXCEPT !.torn = FALSE]
  /\ UNCHANGED week

(* A mutant of Recent: what is a week old goes as well.                    *)
RecentShort(e) == week <= e.ts

\* At most a week old.
Recent(e) == week <= e.ts + 1

\* trim_activity_log reads the file; with nothing to drop it ends.
ReadActivity ==
  /\ trim.pc = "away"
  /\ \E e \in activity : ~ Recent(e)
  /\ trim' = [trim EXCEPT !.pc = "open", !.kept = {e \in activity : Recent(e)}]
  /\ UNCHANGED <<week, next, activity, owed>>

\* open(ACTIVITY_LOG, 'w').
Truncate ==
  /\ trim.pc = "open"
  /\ activity' = {} /\ trim' = [trim EXCEPT !.pc = "write", !.torn = FALSE]
  /\ UNCHANGED <<week, next, owed>>

\* What is written from the start of the file overwrites the first of what has
\* been appended since; nothing is written when nothing is kept.
Written(entries) ==
  \E n \in 0 .. Entries :
    /\ entries = {} => n = 0
    /\ activity' = entries \union {e \in activity : e.n >= n}

Rewrite ==
  /\ trim.pc = "write"
  /\ Written(trim.kept)
  /\ trim' = AtRest(FALSE)
  /\ UNCHANGED <<week, next, owed>>

\* A restart, or an error of the file's: before the open nothing is lost, after
\* it all that has not been written.
TrimCut ==
  \/ /\ trim.pc = "open"
     /\ trim' = AtRest(trim.torn)
     /\ UNCHANGED <<week, next, activity, owed>>
  \/ /\ trim.pc = "write"
     /\ \E n \in 0 .. Entries : Written({e \in trim.kept : e.n < n})
     /\ \E torn \in BOOLEAN : trim' = AtRest(torn)
     /\ owed' = {}
     /\ UNCHANGED <<week, next>>

NextWeek ==
  /\ week < Weeks
  /\ week' = week + 1
  /\ UNCHANGED <<next, activity, trim, owed>>

Next == Record \/ ReadActivity \/ Truncate \/ Rewrite \/ TrimCut \/ NextWeek

-----------------------------------------------------------------------------
\* Whoever reads the log while it is not being rewritten finds everything of
\* the last week, but what was recorded while a trim ran and what a trim that
\* was cut short has lost: the clock may go on between the reading and the
\* writing, and a trim starts from what the last one and the appends since left.
EvidenceKept == trim.pc # "write" => \A e \in owed : week <= e.ts + 1 => e \in activity

\* What makes it so: what a trim keeps is enough for the file to be emptied.
KeptEnough == trim.pc # "away" => \A e \in owed : week <= e.ts + 1 => e \in trim.kept

Inv == TypeOK /\ EvidenceKept /\ KeptEnough
=============================================================================

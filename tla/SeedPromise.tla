---------------------------- MODULE SeedPromise ----------------------------
(***************************************************************************)
(* What removal owes the trackers and the Plex library, without a word of  *)
(* how src/arr-webhook.py goes about it.  A torrent leaves Deluge only     *)
(* when it has paid its seeding, or when the removal was asked for while   *)
(* nothing was owed; its files go with it only if they lie outside the     *)
(* library.  TorrentRemoval implements this.                               *)
(***************************************************************************)
CONSTANT Torrents

VARIABLES
    standing,   \* "free" (owes nothing yet), "owing", "paid" or "gone"
    asked,      \* torrents whose removal is pending since they were free
    inLibrary,  \* torrents whose files are library files
    erased      \* torrents whose files were erased

vars == <<standing, asked, inLibrary, erased>>

Init ==
    /\ standing = [h \in Torrents |-> "free"]
    /\ asked = {}
    /\ inLibrary \in SUBSET Torrents
    /\ erased = {}

(* The removal of a torrent that owes nothing is asked for.                *)
Ask(h) ==
    /\ standing[h] = "free"
    /\ asked' = asked \cup {h}
    /\ UNCHANGED <<standing, inLibrary, erased>>

(* Requests end without a removal.                                         *)
Withdraw ==
    /\ asked' \in SUBSET asked
    /\ UNCHANGED <<standing, inLibrary, erased>>

(* Seeding: an obligation arises, and is met.                              *)
Seed(h) ==
    /\ \/ standing[h] = "free" /\ standing' \in
            {[standing EXCEPT ![h] = s] : s \in {"owing", "paid"}}
       \/ standing[h] = "owing" /\ standing' = [standing EXCEPT ![h] = "paid"]
    /\ UNCHANGED <<asked, inLibrary, erased>>

LeaveLibrary(h) ==
    /\ standing[h] # "gone"
    /\ inLibrary' = inLibrary \ {h}
    /\ UNCHANGED <<standing, asked, erased>>

Remove(h) ==
    /\ standing[h] = "paid" \/ (standing[h] # "gone" /\ h \in asked)
    /\ standing' = [standing EXCEPT ![h] = "gone"]
    /\ \/ UNCHANGED erased
       \/ h \notin inLibrary /\ erased' = erased \cup {h}
    /\ asked' \in SUBSET asked
    /\ UNCHANGED inLibrary

Add(h) ==
    /\ standing[h] = "gone" /\ h \notin asked
    /\ standing' = [standing EXCEPT ![h] = "free"]
    /\ inLibrary' = inLibrary \ {h}
    /\ erased' = erased \ {h}
    /\ UNCHANGED asked

Next ==
    \/ Withdraw
    \/ \E h \in Torrents :
         Ask(h) \/ Seed(h) \/ LeaveLibrary(h) \/ Remove(h) \/ Add(h)

Spec == Init /\ [][Next]_vars
=============================================================================

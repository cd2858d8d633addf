------------------------------ MODULE Webhooks ------------------------------
(***************************************************************************)
(* The Grab and Download webhooks of arr-webhook.py: every event starts a  *)
(* thread of its own, and the threads of different events, or of the same  *)
(* release, run in any order. The torrents are the releases of one title.  *)
(***************************************************************************)
EXTENDS Naturals, FiniteSets

CONSTANTS
  Torrents, None,
  Codec,      \* Codec[t]: the codec rank of the release, 0 when unknown
  Repack,     \* Repack[n]: the torrents of the group whose PROPER/REPACK n is
  Big,        \* the releases of 10 GB or more
  Grabs,      \* bound: grabs
  Imports     \* bound: imports

WebhooksAssumption == {Grabs, Imports} \subseteq Nat

VARIABLES
  label, state,    \* Deluge: each torrent's label and what it has done
  current,         \* the release whose file the library holds
  grab,            \* grab[t]: where the grab handler of t is
  import,          \* import[n]: where the import handler of n is
  upgrade,         \* upgrade[n]: isUpgrade in its event
  view,            \* view[n]: what its listing has left to sweep
  spent,           \* spent[n]: what the listing showed unregistered and seeded
  seen,            \* _recent_upgrade_download_ids
  overtaken,       \* history: what was imported since the event of n
  grabs, imports

deluge == <<label, state>>
importer == <<import, upgrade, view, spent, overtaken>>
vars == <<deluge, current, grab, importer, seen, grabs, imports>>

Lane == {"upgrade", "recent"}
Present(t) == label[t] # "absent"

TypeOK ==
  /\ label \in [Torrents -> Lane \union {"absent", "blank", "base", "superseded"}]
  /\ state \in [Torrents -> {"part", "done", "settled"}]
  /\ current \in Torrents \union {None}
  /\ grab \in [Torrents -> {"none", "blank", "check", "advise", "reject", "status", "revive", "throttle"}]
  /\ import \in [Torrents -> {"none", "claim", "flip", "list", "sweep", "done"}]
  /\ upgrade \in [Torrents -> BOOLEAN]
  /\ view \in [Torrents -> SUBSET Torrents]
  /\ spent \in [Torrents -> SUBSET Torrents]
  /\ overtaken \in [Torrents -> SUBSET Torrents]
  /\ seen \in SUBSET Torrents
  /\ \A t \in Torrents : label[t] = "absent" => state[t] = "part"
  /\ grabs \in 0 .. Grabs /\ imports \in 0 .. Imports

\* The title is not in the library yet, or a release of it is.
Init ==
  /\ current \in Torrents \union {None}
  /\ label = [t \in Torrents |-> IF t = current THEN "base" ELSE "absent"]
  /\ state = [t \in Torrents |-> IF t = current THEN "done" ELSE "part"]
  /\ grab = [t \in Torrents |-> "none"]
  /\ import = [n \in Torrents |-> "none"]
  /\ upgrade = [n \in Torrents |-> FALSE]
  /\ view = [n \in Torrents |-> {}]
  /\ spent = [n \in Torrents |-> {}]
  /\ overtaken = [n \in Torrents |-> {}]
  /\ seen = {}
  /\ grabs = 0 /\ imports = 0

SetLabel(t, l) == label' = [label EXCEPT ![t] = IF Present(t) THEN l ELSE @]
GrabAt(t, where) == grab' = [grab EXCEPT ![t] = where]
ImportAt(n, where) == import' = [import EXCEPT ![n] = where]

-----------------------------------------------------------------------------
(* The grab handler.                                                       *)

\* Radarr/Sonarr grabs a release: the webhook may beat Deluge to it.
Grab(t) ==
  /\ grab[t] = "none" /\ grabs < Grabs
  /\ label[t] \in {"absent", "superseded", "upgrade", "recent"}
  /\ grabs' = grabs + 1
  /\ GrabAt(t, "blank")
  /\ UNCHANGED <<deluge, current, importer, seen, imports>>

\* Deluge registers the torrent; Sonarr's category may not have landed on it.
Register(t) ==
  /\ ~ Present(t) /\ grab[t] # "none"
  /\ \E l \in {"base", "blank"} : label' = [label EXCEPT ![t] = l]
  /\ UNCHANGED <<state, current, grab, importer, seen, grabs, imports>>

\* label_blank_sonarr_grab: polls for the torrent, and gives up in the end.
LabelBlank(t) ==
  /\ grab[t] = "blank"
  /\ IF label[t] = "blank" THEN SetLabel(t, "base") ELSE UNCHANGED label
  /\ GrabAt(t, "check")
  /\ UNCHANGED <<state, current, importer, seen, grabs, imports>>

\* is_upgrade_sonarr, is_upgrade_radarr: an upgrade if there is a file; a
\* failed request counts as none, and a new release is only put on top.
IsUpgrade(t) ==
  /\ grab[t] = "check"
  /\ \/ current # None /\ GrabAt(t, "advise")
     \/ GrabAt(t, "none")
  /\ UNCHANGED <<deluge, current, importer, seen, grabs, imports>>

\* The advisor may reject any upgrade and may throttle a small one; it cannot
\* let a big one through.
Advise(t) ==
  /\ grab[t] = "advise"
  /\ \/ GrabAt(t, "reject")
     \/ GrabAt(t, "status")
     \/ t \notin Big /\ GrabAt(t, "none")
  /\ UNCHANGED <<deluge, current, importer, seen, grabs, imports>>

(* A mutant of RemoveTorrent: the record outlives the torrent.             *)
RemoveTorrentOnly(t) ==
  IF state[t] = "done" THEN UNCHANGED deluge
  ELSE label' = [label EXCEPT ![t] = "absent"] /\ UNCHANGED state

\* remove_torrent defers what has finished and still owes its seeding.
RemoveTorrent(t) ==
  IF state[t] = "done" THEN UNCHANGED deluge
  ELSE /\ label' = [label EXCEPT ![t] = "absent"]
       /\ state' = [state EXCEPT ![t] = "part"]

Reject(t) ==
  /\ grab[t] = "reject"
  /\ RemoveTorrent(t)
  /\ GrabAt(t, "none")
  /\ UNCHANGED <<current, importer, seen, grabs, imports>>

\* One status request decides between the three ways to go on.
Status(t) ==
  /\ grab[t] = "status"
  /\ GrabAt(t, IF label[t] = "upgrade" /\ state[t] = "part" THEN "none"
               ELSE IF label[t] = "superseded" /\ state[t] # "part" THEN "revive"
               ELSE "throttle")
  /\ UNCHANGED <<deluge, current, importer, seen, grabs, imports>>

\* A superseded release that is complete is grabbed again: it gets its label
\* back, and Radarr/Sonarr are asked to scan it.
Revive(t) ==
  /\ grab[t] = "revive"
  /\ SetLabel(t, "base")
  /\ GrabAt(t, "none")
  /\ UNCHANGED <<state, current, importer, seen, grabs, imports>>

Throttle(t) ==
  /\ grab[t] = "throttle"
  /\ SetLabel(t, "upgrade")
  /\ GrabAt(t, "none")
  /\ UNCHANGED <<state, current, importer, seen, grabs, imports>>

\* A failed Deluge call ends the handler where it is.
GrabFails(t) ==
  /\ grab[t] \in {"reject", "status", "revive", "throttle"}
  /\ GrabAt(t, "none")
  /\ UNCHANGED <<deluge, current, importer, seen, grabs, imports>>

\* The monthly relabel: an unfinished upgrade of a recent year.
LaneRelabel(t) ==
  /\ label[t] = "base" /\ state[t] = "part" /\ current # None
  /\ SetLabel(t, "recent")
  /\ UNCHANGED <<state, current, grab, importer, seen, grabs, imports>>

Progress(t) ==
  /\ Present(t) /\ state[t] # "settled"
  /\ state' = [state EXCEPT ![t] = IF @ = "part" THEN "done" ELSE "settled"]
  /\ UNCHANGED <<label, current, grab, importer, seen, grabs, imports>>

-----------------------------------------------------------------------------
(* The import handlers.                                                    *)

\* Radarr/Sonarr imports a complete release and posts the Download event.
Import(t) ==
  /\ imports < Imports /\ current # t
  /\ label[t] \in Lane \union {"base"} /\ state[t] # "part"
  /\ import[t] \in {"none", "done"}
  /\ imports' = imports + 1
  /\ current' = t
  /\ ImportAt(t, "claim")
  /\ upgrade' = [upgrade EXCEPT ![t] = current # None]
  /\ overtaken' = [n \in Torrents |->
       IF n = t THEN {}
       ELSE IF import[n] \in {"none", "done"} THEN overtaken[n]
       ELSE overtaken[n] \union {t}]
  /\ UNCHANGED <<deluge, grab, view, spent, seen, grabs>>

\* handle_upgrade_import: the download id is taken before the work is done;
\* handle_import_relabel takes none.
Claim(n) ==
  /\ import[n] = "claim"
  /\ IF upgrade[n]
     THEN /\ seen' = seen \union {n}
          /\ ImportAt(n, IF n \in seen THEN "done" ELSE "flip")
     ELSE ImportAt(n, "flip") /\ UNCHANGED seen
  /\ UNCHANGED <<deluge, current, grab, upgrade, view, spent, overtaken, grabs, imports>>

\* relabel_download_to_base: the label of the plain lane only.
Flip(n) ==
  /\ import[n] = "flip"
  /\ IF label[n] = "upgrade" THEN SetLabel(n, "base") ELSE UNCHANGED label
  /\ ImportAt(n, IF upgrade[n] THEN "list" ELSE "done")
  /\ UNCHANGED <<state, current, grab, upgrade, view, spent, overtaken, seen, grabs, imports>>

(* A mutant of Targets: the imported release is not left out.              *)
TargetsAll(n) == {t \in Torrents : label[t] \notin {"absent", "superseded"}}

\* What the listing shows of the title: all but the imported release itself
\* and what is superseded already; nothing if the release is not found.
Targets(n) ==
  IF Present(n) THEN {t \in Torrents \ {n} : label[t] \notin {"absent", "superseded"}} ELSE {}

List(n) ==
  /\ import[n] = "list"
  /\ view' = [view EXCEPT ![n] = Targets(n)]
  /\ spent' = [spent EXCEPT ![n] = {t \in Targets(n) : state[t] = "settled"}]
  /\ ImportAt(n, "sweep")
  /\ UNCHANGED <<deluge, current, grab, upgrade, overtaken, seen, grabs, imports>>

\* Deluge cannot be reached: the handler returns, and its id stays taken.
ImportFails(n) ==
  /\ import[n] \in {"flip", "list"}
  /\ ImportAt(n, "done")
  /\ UNCHANGED <<deluge, current, grab, upgrade, view, spent, overtaken, seen, grabs, imports>>

\* The codec floor: a release of a higher codec is not replaced.
Outranks(t, n) == Codec[n] # 0 /\ Codec[t] > Codec[n]

\* should_hard_delete_on_upgrade, on the listing.
HardDelete(n, t) == t \in Repack[n] /\ t \in spent[n]

\* One torrent of the listing: kept, deleted with its record, or superseded.
Sweep(n, t) ==
  /\ import[n] = "sweep" /\ t \in view[n]
  /\ view' = [view EXCEPT ![n] = @ \ {t}]
  /\ \/ Outranks(t, n) /\ UNCHANGED deluge
     \/ ~ Outranks(t, n) /\ HardDelete(n, t) /\ RemoveTorrent(t)
     \/ /\ ~ Outranks(t, n) /\ ~ HardDelete(n, t)
        /\ SetLabel(t, "superseded")
        /\ UNCHANGED state
  /\ UNCHANGED <<current, grab, import, upgrade, spent, overtaken, seen, grabs, imports>>

SweepEnds(n) ==
  /\ import[n] = "sweep" /\ view[n] = {}
  /\ ImportAt(n, "done")
  /\ spent' = [spent EXCEPT ![n] = {}]
  /\ overtaken' = [overtaken EXCEPT ![n] = {}]
  /\ UNCHANGED <<deluge, current, grab, upgrade, view, seen, grabs, imports>>

GrabStep(t) ==
  \/ LabelBlank(t) \/ IsUpgrade(t) \/ Advise(t) \/ Reject(t) \/ Status(t)
  \/ Revive(t) \/ Throttle(t) \/ GrabFails(t)

ImportStep(n) ==
  \/ Claim(n) \/ Flip(n) \/ List(n) \/ ImportFails(n) \/ SweepEnds(n)
  \/ \E t \in Torrents : Sweep(n, t)

Next ==
  \/ \E t \in Torrents :
       \/ Grab(t) \/ Register(t) \/ GrabStep(t) \/ LaneRelabel(t) \/ Progress(t)
       \/ Import(t)
  \/ \E n \in Torrents : ImportStep(n)

Spec == Init /\ [][Next]_vars

-----------------------------------------------------------------------------
\* A webhook supersedes or deletes the torrent of the file the library holds
\* only if that file was imported while the handler of an earlier import was
\* at work: no event of a release, however late or repeated, turns on a later one.
CurrentKept ==
  [][\A t \in Torrents :
       t = current /\ label[t] \notin {"absent", "superseded"}
         /\ label'[t] \in {"absent", "superseded"}
       => \/ grab[t] = "reject"
          \/ \E n \in Torrents : view'[n] # view[n] /\ t \in overtaken[n]]_vars

\* What makes it so: the release that the library holds is that of a handler
\* at work, or was imported since; a handler's listing leaves out its own.
HandlersBehind ==
  \A n \in Torrents :
    import[n] \in {"claim", "flip", "list", "sweep"} => current \in {n} \union overtaken[n]
OwnSpared == \A n \in Torrents : import[n] = "sweep" => n \notin view[n]

Inv == TypeOK /\ HandlersBehind /\ OwnSpared
=============================================================================

----------------------------- MODULE MCServices -----------------------------
(* Safety of the background services. They share no state: a behaviour is  *)
(* one of one of them, named by part, and the others rest where they began.*)
EXTENDS Naturals

CONSTANTS
  Grabs, Imports,       \* of the webhooks
  Clients, MaxCount,    \* of the share links
  Changes,              \* of the queue lanes and of the shared listing
  Queued,               \* of the queue lanes
  Entries, Weeks,       \* of the activity log
  Ticks,
  Releases, Episodes, Covers, Named, PackCodec, Parts, Arrivals, Lookups,  \* of the season (see SeriesDedupe)
  Zips, Limits,         \* of the share links (see ShareLinks)
  SEED_WEEKS, MaxUpload, Routes,  \* of the reviews (see SeedReviews)
  Torrents, NoTorrent, Codec, Repack, Big,  \* of the webhooks (see Webhooks)
  Pollers, Wants, SNAPSHOT_TTL  \* of the shared listing (see SnapshotCache)

VARIABLES
  part,
  label, state, current, grab, import, upgrade, view, spent, overtaken, seen, grabs, imports,
  link, job, client, zip, temps,
  torrent, base, due, byHand, review,
  lane, queue, pending, worker, settled, changes,
  week, next, activity, trim, owed,
  clock, version, snapshots, poller,
  superseded, library, latest, imported, arrivals, missing, dedupe

hooks == <<label, state, current, grab, import, upgrade, view, spent, overtaken, seen, grabs, imports>>
links == <<link, job, client, zip, temps>>
reviews == <<torrent, base, due, byHand, review>>
lanes == <<lane, queue, pending, worker, settled, changes>>
logs == <<week, next, activity, trim, owed>>
cache == <<clock, version, snapshots, poller>>
season == <<superseded, library, latest, imported, arrivals, missing, dedupe>>
vars == <<part, hooks, links, reviews, lanes, logs, cache, season>>

\* A release, and a repack of it by the same group in a better codec.
PairCodec == <<1, 2>>
PairRepack == <<{}, {1}>>

\* A season's pack, another of its first episode, S01E02-E03, and S01E02.
SeasonCovers == <<{1, 2, 3}, {1}, {2, 3}, {2}>>
SeasonNames == <<0, 0, 2, 2>>
SeasonCodec == <<1, 0, 1, 0>>
SeasonFiles == {{1, 2, 3}, {1}, {2, 3}, {2}}

Hooks == INSTANCE Webhooks WITH None <- NoTorrent
Links == INSTANCE ShareLinks
Reviews == INSTANCE SeedReviews
Lanes == INSTANCE QueueLanes WITH Torrents <- Queued
Logs == INSTANCE ActivityLog
Cache == INSTANCE SnapshotCache
Season == INSTANCE SeriesDedupe WITH
  Codec <- PackCodec, Files <- Parts, Imports <- Arrivals, Fails <- Lookups,
  imports <- arrivals, fails <- missing, pass <- dedupe

\* What the theorems about the services assume.
ASSUME ServicesAssumption ==
  /\ Links!LinksAssumption /\ Cache!SnapshotAssumption /\ Reviews!ReviewsAssumption
  /\ Hooks!WebhooksAssumption /\ Logs!LogAssumption /\ Season!DedupeAssumption
  /\ Lanes!LanesAssumption

Init ==
  /\ part \in {"hooks", "links", "reviews", "lanes", "logs", "cache", "season"}
  /\ Hooks!Init /\ (part = "hooks" \/ current = 0)
  /\ Links!Init /\ (part = "links" \/ (link.limit = 0 /\ ~ link.folder))
  /\ Lanes!Init /\ (part = "lanes" \/ Lanes!Present = {})
  /\ Reviews!Init /\ Logs!Init /\ Cache!Init /\ Season!Init

Next ==
  \/ part = "hooks" /\ Hooks!Next /\ UNCHANGED <<part, links, reviews, lanes, logs, cache, season>>
  \/ part = "links" /\ Links!Next /\ UNCHANGED <<part, hooks, reviews, lanes, logs, cache, season>>
  \/ part = "reviews" /\ Reviews!Next /\ UNCHANGED <<part, hooks, links, lanes, logs, cache, season>>
  \/ part = "lanes" /\ Lanes!Next /\ UNCHANGED <<part, hooks, links, reviews, logs, cache, season>>
  \/ part = "logs" /\ Logs!Next /\ UNCHANGED <<part, hooks, links, reviews, lanes, cache, season>>
  \/ part = "cache" /\ Cache!Next /\ UNCHANGED <<part, hooks, links, reviews, lanes, logs, season>>
  \/ part = "season" /\ Season!Next /\ UNCHANGED <<part, hooks, links, reviews, lanes, logs, cache>>

Spec == Init /\ [][Next]_vars

-----------------------------------------------------------------------------
\* The types of the part at work.
TypeOK ==
  CASE part = "hooks" -> Hooks!TypeOK
    [] part = "links" -> Links!TypeOK
    [] part = "reviews" -> Reviews!TypeOK
    [] part = "lanes" -> Lanes!TypeOK
    [] part = "logs" -> Logs!TypeOK
    [] part = "cache" -> Cache!TypeOK
    [] part = "season" -> Season!TypeOK

\* No event of a release turns on a later one (see Webhooks).
CurrentKept == Hooks!CurrentKept

\* A ready share link has its file (see ShareLinks).
ReadyHasFile == Links!ReadyHasFile

\* The review removes only after a week without upload (see SeedReviews).
QuietForAWeek == Reviews!QuietForAWeek

\* The lanes are strict once the reorders are through (see QueueLanes).
LanesHold == Lanes!LanesHold

\* A promoted keeper leads its lane (see QueueLanes).
FirstLeads == Lanes!FirstLeads

\* What the activity log owes its reader (see ActivityLog).
EvidenceKept == Logs!EvidenceKept

\* What the shared listing serves (see SnapshotCache).
ServedIsCurrent == Cache!ServedIsCurrent

\* The library pass spares the keepers that it can see (see SeriesDedupe).
KeeperSpared == Season!KeeperSpared
=============================================================================

--------------------------- MODULE SnapshotCache ---------------------------
(***************************************************************************)
(* get_all_torrents: the pollers share one listing of Deluge's torrents    *)
(* for SNAPSHOT_TTL. The request runs outside the lock, for as long as     *)
(* Deluge takes, while others change a torrent and empty the cache.        *)
(***************************************************************************)
EXTENDS Naturals

CONSTANTS
  Pollers,
  Wants,        \* the sets of fields that are asked for
  SNAPSHOT_TTL,
  Ticks,        \* bounds the clock
  Changes       \* bounds the changes of ours

SnapshotAssumption == {SNAPSHOT_TTL, Ticks, Changes} \subseteq Nat

VARIABLES
  clock,
  version,      \* the number of changes of ours that _invalidate_snapshot followed
  snapshots,    \* snapshots[want]: the listing that is kept for these fields
  poller        \* poller[p]: where a call is, and the listing it holds

snapshot == <<clock, version, snapshots, poller>>

\* A listing: whether there is one, the time it is stamped with, and, to
\* state the properties, the time and the state Deluge answered with, and
\* the change that emptied the cache while it was under way.
Listing == [kept : BOOLEAN, taken : 0 .. Ticks, at : 0 .. Ticks,
            version : 0 .. Changes, missed : 0 .. Changes]
Nothing == [kept |-> FALSE, taken |-> 0, at |-> 0, version |-> 0, missed |-> 0]
Away == [pc |-> "away", want |-> {}, list |-> Nothing]

TypeOK ==
  /\ clock \in 0 .. Ticks /\ version \in 0 .. Changes
  /\ snapshots \in [Wants -> Listing]
  /\ poller \in [Pollers -> [pc : {"away", "asks", "stores", "has"},
                              want : Wants \union {{}}, list : Listing]]
  /\ \A p \in Pollers : poller[p].pc = "has" => poller[p].list.kept

Init ==
  /\ clock = 0 /\ version = 0
  /\ snapshots = [want \in Wants |-> Nothing]
  /\ poller = [p \in Pollers |-> Away]

-----------------------------------------------------------------------------
Goes(p, where, want, list) ==
  poller' = [poller EXCEPT ![p] = [pc |-> where, want |-> want, list |-> list]]

Fresh(have) == snapshots[have].kept /\ clock - snapshots[have].taken < SNAPSHOT_TTL

\* A listing of more fields serves as well.
Hit(p, want) ==
  /\ poller[p].pc = "away"
  /\ \E have \in Wants : want \subseteq have /\ Fresh(have) /\ Goes(p, "has", want, snapshots[have])
  /\ UNCHANGED <<clock, version, snapshots>>

\* The cache has nothing, or force passes it by.
Ask(p, want) ==
  /\ poller[p].pc = "away"
  /\ Goes(p, "asks", want, [kept |-> TRUE, taken |-> clock, at |-> 0, version |-> 0, missed |-> 0])
  /\ UNCHANGED <<clock, version, snapshots>>

\* Deluge's answer.
Answer(p) ==
  /\ poller[p].pc = "asks"
  /\ LET list == poller[p].list IN
     Goes(p, "stores", poller[p].want, [kept |-> list.kept, taken |-> list.taken, at |-> clock,
                                        version |-> version, missed |-> list.missed])
  /\ UNCHANGED <<clock, version, snapshots>>

AnswerFails(p) ==
  /\ poller[p].pc = "asks"
  /\ poller' = [poller EXCEPT ![p] = Away]
  /\ UNCHANGED <<clock, version, snapshots>>

(* A mutant of Store: it is stamped with the time of its storing.          *)
StoreNow(p) ==
  /\ poller[p].pc = "stores"
  /\ snapshots' = [snapshots EXCEPT ![poller[p].want] = [poller[p].list EXCEPT !.taken = clock]]
  /\ poller' = [poller EXCEPT ![p] = Away]
  /\ UNCHANGED <<clock, version>>

Store(p) ==
  /\ poller[p].pc = "stores"
  /\ snapshots' = [snapshots EXCEPT ![poller[p].want] = poller[p].list]
  /\ poller' = [poller EXCEPT ![p] = Away]
  /\ UNCHANGED <<clock, version>>

Use(p) ==
  /\ poller[p].pc = "has"
  /\ poller' = [poller EXCEPT ![p] = Away]
  /\ UNCHANGED <<clock, version, snapshots>>

\* _invalidate_snapshot, called once a change of ours is through.
Invalidate ==
  /\ version < Changes
  /\ version' = version + 1
  /\ snapshots' = [want \in Wants |-> Nothing]
  /\ poller' = [p \in Pollers |->
       IF poller[p].pc \in {"asks", "stores"} THEN [poller[p] EXCEPT !.list.missed = version + 1]
       ELSE poller[p]]
  /\ UNCHANGED clock

Tick ==
  /\ clock < Ticks
  /\ clock' = clock + 1
  /\ UNCHANGED <<version, snapshots, poller>>

Next ==
  \/ \E p \in Pollers : \E want \in Wants : Hit(p, want) \/ Ask(p, want)
  \/ \E p \in Pollers : Answer(p) \/ AnswerFails(p) \/ Store(p) \/ Use(p)
  \/ Invalidate \/ Tick

Spec == Init /\ [][Next]_snapshot

-----------------------------------------------------------------------------
\* However long Deluge takes and whoever stores when, the cache serves
\* nothing that Deluge said SNAPSHOT_TTL ago or before, and what it serves
\* lacks no change of ours but those made while its request was under way.
ServedIsCurrent ==
  [][\A p \in Pollers :
       poller[p].pc = "away" /\ poller'[p].pc = "has" =>
         LET list == poller'[p].list IN
         clock - list.at < SNAPSHOT_TTL /\ (list.version = version \/ list.missed = version)]_snapshot

\* What makes it so: a listing, kept or on its way, was asked for before Deluge
\* answered, and lacks no change but one made while it was on its way.
Sound(list) ==
  /\ list.kept /\ list.taken <= list.at /\ list.at <= clock
  /\ list.version = version \/ list.missed = version

ListingsSound ==
  /\ \A want \in Wants : snapshots[want].kept => Sound(snapshots[want])
  /\ \A p \in Pollers :
       /\ poller[p].pc = "asks" => poller[p].list.kept /\ poller[p].list.taken <= clock
       /\ poller[p].pc = "stores" => Sound(poller[p].list)
       /\ poller[p].pc \in {"asks", "stores"} => poller[p].want \in Wants

Inv == TypeOK /\ ListingsSound
=============================================================================

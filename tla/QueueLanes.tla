----------------------------- MODULE QueueLanes -----------------------------
(***************************************************************************)
(* Deluge's queue in strict lanes: normal grabs above recent upgrades,     *)
(* those above old ones. The hourly pass, the duplicate passes and the     *)
(* upgrade cycles, which relabel what they find to be upgrades, each       *)
(* reorder it by a snapshot of their own, in up to five calls; meanwhile   *)
(* the webhooks label and move what has been grabbed.                      *)
(***************************************************************************)
EXTENDS Naturals, Sequences

CONSTANTS
  Torrents,  \* numbers: their order is the first order of the queue
  Changes    \* bounds the arrivals and the failing calls

VARIABLES
  lane,      \* the lane of each torrent's label
  queue,     \* Deluge's queue: the pairs of which the first is ahead of the second
  pending,   \* what the webhook of each torrent's grab is about to do
  worker,    \* the passes that reorder
  settled,   \* the last reorder to end knew every label, and none is behind
  changes

lanes == <<lane, queue, pending, worker, settled, changes>>

LanesAssumption == Torrents \subseteq Nat \ {0} /\ Changes \in Nat

NoOne == 0
NoView == [t \in {} |-> "absent"]
Workers == {"hourly", "cycle"}   \* a duplicate pass is the hourly one with a first
Lanes == {"normal", "recent", "old"}
Rank == [l \in Lanes |-> CASE l = "normal" -> 1 [] l = "recent" -> 2 [] l = "old" -> 3]
Calls == [to : {"top", "bottom"}, who : SUBSET Torrents]
Labels == [Torrents -> Lanes \union {"absent"}]
Idle == [pc |-> "idle", view |-> NoView, calls |-> <<>>, first |-> NoOne,
         clean |-> TRUE, alone |-> TRUE]

Present == {t \in Torrents : lane[t] # "absent"}
Upgrades == {t \in Torrents : lane[t] \in {"recent", "old"}}
Normals == {t \in Torrents : lane[t] = "normal"}
Passes == [pc : {"idle", "look", "relabel", "move"}, view : Labels \union {NoView},
           calls : Seq(Calls), first : Torrents \union {NoOne}, clean : BOOLEAN, alone : BOOLEAN]
Steps == {"none", "label", "top", "bottom"}

\* The queue is a strict order of what is there.
TypeOK ==
  /\ lane \in Labels
  /\ queue \subseteq Present \X Present
  /\ \A t \in Present : <<t, t>> \notin queue
  /\ \A t, u \in Present : t # u => (<<t, u>> \in queue <=> <<u, t>> \notin queue)
  /\ \A t, u, v \in Present : <<t, u>> \in queue /\ <<u, v>> \in queue => <<t, v>> \in queue
  /\ pending \in [Torrents -> Steps] /\ \A t \in Torrents : pending[t] # "none" => t \in Present
  /\ worker \in [Workers -> Passes]
  /\ settled \in BOOLEAN
  /\ changes \in 0 .. Changes

Init ==
  /\ lane \in Labels
  /\ queue = {p \in Present \X Present : p[1] < p[2]}
  /\ pending = [t \in Torrents |-> "none"]
  /\ worker = [w \in Workers |-> Idle]
  /\ settled = FALSE
  /\ changes = 0

-----------------------------------------------------------------------------
\* A call moves its torrents past the others, and keeps the order among either.
Puts(call, t, u) ==
  IF call.to = "top" THEN t \in call.who /\ u \notin call.who
                     ELSE u \in call.who /\ t \notin call.who

Moved(q, call) ==
  {p \in Torrents \X Torrents :
     \/ p \in q /\ ~ Puts(call, p[2], p[1])
     \/ <<p[2], p[1]>> \in q /\ Puts(call, p[1], p[2])}

Call(to, who) == IF who = {} THEN <<>> ELSE <<[to |-> to, who |-> who]>>

(* A mutant of ToBottom: the first one moves after the rest of its lane.   *)
ToBottomLast(who, first) ==
  Call("bottom", who \ {first}) \o Call("bottom", who \intersect {first})

\* One upgrade lane goes to the bottom, its first ahead of the rest.
ToBottom(who, first) ==
  Call("bottom", who \intersect {first}) \o Call("bottom", who \ {first})

ToTop(who, first) ==
  Call("top", who \ {first}) \o Call("top", who \intersect {first})

In(view, l) == {t \in DOMAIN view : view[t] = l}

(* A mutant of Plan: the old upgrades go to the bottom before the recent.  *)
PlanOldFirst(view, first) ==
  ToBottom(In(view, "old"), first) \o ToBottom(In(view, "recent"), first)
    \o ToTop(In(view, "normal"), first)

\* reorder_deluge_queue, by the snapshot it is given.
Plan(view, first) ==
  ToBottom(In(view, "recent"), first) \o ToBottom(In(view, "old"), first)
    \o ToTop(In(view, "normal"), first)

-----------------------------------------------------------------------------
\* What the snapshots of some workers lack from now on. A label that changes
\* also ends what a promoted keeper can count on.
Overtaken(ws) == [w \in Workers |->
  IF w \in ws /\ worker[w].pc # "idle" THEN [worker[w] EXCEPT !.clean = FALSE] ELSE worker[w]]

Surprised(ws) == [w \in Workers |-> [Overtaken(ws)[w] EXCEPT !.alone = FALSE]]

\* A pass takes its snapshot.
Look(w) ==
  /\ worker[w].pc = "idle"
  /\ worker' = [worker EXCEPT ![w] = [Idle EXCEPT !.pc = "look", !.view = lane,
                                        !.alone = \A v \in Workers : worker[v].pc # "move"]]
  /\ UNCHANGED <<lane, queue, pending, settled, changes>>

Reorder(w, first) ==
  /\ Plan(worker[w].view, first) # <<>>
  /\ worker' = [v \in Workers |->
       IF v = w THEN [Idle EXCEPT !.pc = "move", !.calls = Plan(worker[w].view, first),
                                  !.first = first, !.clean = worker[w].clean,
                                  !.alone = worker[w].alone /\ \A u \in Workers : worker[u].pc # "move"]
       ELSE [worker[v] EXCEPT !.alone = FALSE]]
  /\ UNCHANGED <<lane, queue, pending, settled, changes>>

\* prioritize_normal_torrents; with a first, _promote_keeper: never an old one.
Start(first) ==
  /\ worker["hourly"].pc = "look"
  /\ first = NoOne \/ (first \in Torrents /\ worker["hourly"].view[first] \in {"normal", "recent"})
  /\ Reorder("hourly", first)

\* relabel_*_upgrades: what its snapshot has as normal may turn out to be an
\* upgrade, whatever its label is by now. The new label is patched in.
Relabel(t, l) ==
  /\ worker["cycle"].pc \in {"look", "relabel"}
  /\ worker["cycle"].view[t] = "normal"
  /\ lane' = [lane EXCEPT ![t] = l]
  /\ worker' = [Surprised({"hourly"}) EXCEPT !["cycle"].view[t] = l, !["cycle"].pc = "relabel"]
  /\ settled' = FALSE
  /\ UNCHANGED <<queue, pending, changes>>

ReorderAfterRelabel == worker["cycle"].pc = "relabel" /\ Reorder("cycle", NoOne)

\* Nothing to relabel or to promote, or a request that failed: no reorder.
GiveUp(w) ==
  /\ worker[w].pc \in {"look", "relabel"}
  /\ worker' = [worker EXCEPT ![w] = Idle]
  /\ UNCHANGED <<lane, queue, pending, settled, changes>>

\* One call; after the last, the lanes are as the snapshot had them.
Move(w) ==
  /\ worker[w].pc = "move"
  /\ queue' = Moved(queue, Head(worker[w].calls))
  /\ worker' = [v \in Workers |->
       IF v # w THEN [worker[v] EXCEPT !.alone = FALSE,
                        !.clean = @ /\ (worker[w].clean \/ worker[v].pc # "move")]
       ELSE IF Len(worker[w].calls) = 1 THEN Idle
       ELSE [worker[w] EXCEPT !.calls = Tail(@)]]
  /\ settled' = IF Len(worker[w].calls) > 1 THEN settled
                ELSE \A v \in Workers : worker[v].clean
  /\ UNCHANGED <<lane, pending, changes>>

\* A call that fails ends the reorder.
MoveFails(w) ==
  /\ worker[w].pc = "move" /\ changes < Changes
  /\ changes' = changes + 1
  /\ worker' = [Overtaken(Workers) EXCEPT ![w] = Idle]
  /\ settled' = FALSE
  /\ UNCHANGED <<lane, queue, pending>>

-----------------------------------------------------------------------------
\* A grab arrives at the tail, under the label of its category. Its webhook is
\* to move a new request to the top, and to label an upgrade.
Grab(t) ==
  /\ lane[t] = "absent" /\ changes < Changes
  /\ changes' = changes + 1
  /\ lane' = [lane EXCEPT ![t] = "normal"]
  /\ queue' = queue \union (Present \X {t})
  /\ \E step \in {"top", "label"} : pending' = [pending EXCEPT ![t] = step]
  /\ UNCHANGED <<worker, settled>>

\* handle_grab, some seconds later. What is labelled already stays where it is.
Label(t) ==
  /\ pending[t] = "label"
  /\ IF lane[t] = "old"
     THEN /\ pending' = [pending EXCEPT ![t] = "none"]
          /\ UNCHANGED <<lane, worker>>
     ELSE /\ pending' = [pending EXCEPT ![t] = "bottom"]
          /\ lane' = [lane EXCEPT ![t] = "old"]
          /\ worker' = Surprised(Workers)
  /\ UNCHANGED <<queue, settled, changes>>

\* Its move: a new request goes to the top and an upgrade to the bottom, though
\* the cycle may have relabelled either of them since.
GrabMove(t) ==
  /\ pending[t] \in {"top", "bottom"}
  /\ pending' = [pending EXCEPT ![t] = "none"]
  /\ queue' = Moved(queue, [to |-> pending[t], who |-> {t}])
  /\ LET apt == lane[t] = IF pending[t] = "top" THEN "normal" ELSE "old" IN
       /\ worker' = [w \in Workers |-> [worker[w] EXCEPT !.alone = FALSE,
                        !.clean = @ /\ (apt \/ worker[w].pc # "move")]]
       /\ settled' = (settled /\ apt)
  /\ UNCHANGED <<lane, changes>>

\* The webhook leaves it where it is: a small upgrade, or a request that fails.
GrabStays(t) ==
  /\ pending[t] # "none"
  /\ pending' = [pending EXCEPT ![t] = "none"]
  /\ worker' = Overtaken(Workers)
  /\ settled' = FALSE
  /\ UNCHANGED <<lane, queue, changes>>

Next ==
  \/ \E first \in Torrents \union {NoOne} : Start(first)
  \/ \E t \in Torrents : \E l \in {"recent", "old"} : Relabel(t, l)
  \/ ReorderAfterRelabel
  \/ \E w \in Workers : Look(w) \/ GiveUp(w) \/ Move(w) \/ MoveFails(w)
  \/ \E t \in Torrents : Grab(t) \/ Label(t) \/ GrabMove(t) \/ GrabStays(t)

-----------------------------------------------------------------------------
Ahead(t, u) == <<t, u>> \in queue
Inverted(t, u) == Ahead(t, u) /\ Rank[lane[t]] > Rank[lane[u]]

\* However two reorders, the relabelling and the grabs interleave their calls,
\* the lanes are strict once they are through, as long as the last reorder was
\* behind on no label, no call failed, and no grab moved out of its lane.
LanesHold ==
  settled /\ (\A t \in Torrents : pending[t] = "none") /\ (\A w \in Workers : worker[w].pc = "idle") =>
    \A t, u \in Present : ~ Inverted(t, u)

\* A keeper that is promoted leads its own lane if, since the snapshot of its
\* pass, nobody else has moved or labelled anything.
FirstLeads ==
  [][\A w \in Workers, first, t \in Torrents :
       /\ worker[w].first = first /\ worker[w].alone
       /\ worker[w].pc = "move" /\ worker'[w].pc = "idle" /\ changes' = changes
       /\ lane[t] = lane[first] /\ t # first
       => ~ Ahead(t, first)']_lanes

\* What makes it so. A call to come will put u ahead of t, and none after it
\* will do the reverse; ...
Mends(calls, t, u) ==
  \E i \in DOMAIN calls :
    /\ Puts(calls[i], u, t)
    /\ \A j \in DOMAIN calls : j > i => ~ Puts(calls[j], t, u)

\* ... whatever call puts t ahead of u, a later one will mend it; ...
Minds(calls, t, u) ==
  \A i \in DOMAIN calls :
    Puts(calls[i], t, u) =>
      \E j \in DOMAIN calls :
        /\ j > i /\ Puts(calls[j], u, t)
        /\ \A k \in DOMAIN calls : k > j => ~ Puts(calls[k], t, u)

\* ... while the labels are as its snapshot had them, only a request goes to
\* the top, and only an upgrade to the bottom; ...
Moves(w) == worker[w].pc = "move"
Promotes(w) == worker[w].alone /\ worker[w].first # NoOne
CallsFit ==
  \A w \in Workers :
    /\ worker[w].clean \/ Promotes(w) => \A i \in DOMAIN worker[w].calls :
         worker[w].calls[i].who \subseteq IF worker[w].calls[i].to = "top" THEN Normals ELSE Upgrades
    /\ Moves(w) <=> worker[w].calls # <<>>
    /\ worker[w].first \in Present \union {NoOne}
ViewFits ==
  \A w \in Workers : worker[w].pc \in {"look", "relabel"} =>
    LET view == worker[w].view IN
    /\ view \in Labels /\ worker[w].calls = <<>> /\ worker[w].first = NoOne
    /\ In(view, "normal") \union In(view, "recent") \union In(view, "old") \subseteq Present
    /\ worker[w].clean \/ (w = "hourly" /\ worker[w].alone) =>
         \A t \in Present : view[t] = lane[t] \/ (view[t] = "absent" /\ lane[t] = "normal")

\* ... and while no reorder is behind, each pair that is out of its lanes is
\* mended by one that is under way, or waits for the webhook of its own grab.
Waits(t, u) == (lane[u] = "normal" /\ pending[u] # "none") \/ pending[t] = "bottom"
PairsMended ==
  /\ \A w \in Workers : Moves(w) /\ worker[w].clean =>
       \A t, u \in Present : Rank[lane[t]] > Rank[lane[u]] => Minds(worker[w].calls, t, u)
  /\ (\A w \in Workers : Moves(w) => worker[w].clean) /\ (settled \/ \E w \in Workers : Moves(w)) =>
       \A t, u \in Present : Inverted(t, u) =>
         Waits(t, u) \/ \E w \in Workers : Mends(worker[w].calls, t, u)

\* The same for what a promoted keeper leads.
Rivals(t, u) == t # u /\ ({t, u} \subseteq Normals \/ {t, u} \subseteq Upgrades)
FirstMended ==
  \A w \in Workers : Moves(w) /\ Promotes(w) =>
    \A t \in Present : Rivals(t, worker[w].first) =>
      /\ Minds(worker[w].calls, t, worker[w].first)
      /\ Ahead(t, worker[w].first) => Mends(worker[w].calls, t, worker[w].first)

Inv == TypeOK /\ CallsFit /\ ViewFits /\ PairsMended /\ FirstMended
=============================================================================

-------------------------- MODULE QueueLanesProofs --------------------------
(***************************************************************************)
(* Proofs about the queue lanes (Lanes! in MCServices), for any torrents   *)
(* and any number of changes: the queue stays an order, and the lanes are  *)
(* strict once the reorders are through. The invariant follows the calls   *)
(* that are still to come: what is out of its lane is mended by one.       *)
(***************************************************************************)
EXTENDS MCServices, Integers, SequenceTheorems, TLAPS

\* After a call, which of two torrents is ahead.
LEMMA LanesMovedPairs ==
  ASSUME NEW q, NEW call, NEW t \in Queued, NEW u \in Queued
  PROVE  <<t, u>> \in Lanes!Moved(q, call) <=>
           \/ <<t, u>> \in q /\ ~ Lanes!Puts(call, u, t)
           \/ <<u, t>> \in q /\ Lanes!Puts(call, t, u)
  BY DEF Lanes!Moved

\* A call leaves the queue an order.
LEMMA LanesMovedOrder ==
  ASSUME Lanes!TypeOK, NEW call
  PROVE  LET q == Lanes!Moved(queue, call) IN
         /\ q \subseteq Lanes!Present \X Lanes!Present
         /\ \A t \in Lanes!Present : <<t, t>> \notin q
         /\ \A t, u \in Lanes!Present : t # u => (<<t, u>> \in q <=> <<u, t>> \notin q)
         /\ \A t, u, v \in Lanes!Present : <<t, u>> \in q /\ <<u, v>> \in q => <<t, v>> \in q
  <1> DEFINE q == Lanes!Moved(queue, call)
  <1>1. q \subseteq Lanes!Present \X Lanes!Present
    BY DEF Lanes!TypeOK, Lanes!Moved
  <1>2. ASSUME NEW t \in Lanes!Present, NEW u \in Lanes!Present
        PROVE  <<t, u>> \in q <=> \/ <<t, u>> \in queue /\ ~ Lanes!Puts(call, u, t)
                                  \/ <<u, t>> \in queue /\ Lanes!Puts(call, t, u)
    BY LanesMovedPairs DEF Lanes!Present
  <1>3. ASSUME NEW t \in Lanes!Present
        PROVE  <<t, t>> \notin q
    BY <1>2 DEF Lanes!TypeOK
  <1> HIDE DEF q
  <1>4. ASSUME NEW t \in Lanes!Present, NEW u \in Lanes!Present, t # u
        PROVE  <<t, u>> \in q <=> <<u, t>> \notin q
    <2>1. ~ (Lanes!Puts(call, t, u) /\ Lanes!Puts(call, u, t))
      BY DEF Lanes!Puts
    <2>2. <<t, u>> \in queue <=> <<u, t>> \notin queue
      BY <1>4 DEF Lanes!TypeOK
    <2> QED
      BY <1>2, <2>1, <2>2
  <1>5. ASSUME NEW t \in Lanes!Present, NEW u \in Lanes!Present, NEW v \in Lanes!Present,
               <<t, u>> \in q, <<u, v>> \in q
        PROVE  <<t, v>> \in q
    <2>1. /\ <<t, u>> \in queue /\ <<u, v>> \in queue => <<t, v>> \in queue
          /\ <<t, v>> \in queue /\ <<v, u>> \in queue => <<t, u>> \in queue
          /\ <<v, t>> \in queue /\ <<t, u>> \in queue => <<v, u>> \in queue
          /\ <<u, t>> \in queue /\ <<t, v>> \in queue => <<u, v>> \in queue
          /\ <<u, v>> \in queue /\ <<v, t>> \in queue => <<u, t>> \in queue
      BY DEF Lanes!TypeOK
    <2>2. /\ t # u => (<<t, u>> \in queue <=> <<u, t>> \notin queue)
          /\ t # v => (<<t, v>> \in queue <=> <<v, t>> \notin queue)
          /\ u # v => (<<u, v>> \in queue <=> <<v, u>> \notin queue)
          /\ <<t, t>> \notin q /\ <<u, u>> \notin q
      BY <1>3 DEF Lanes!TypeOK
    <2>3. /\ (<<t, u>> \in queue /\ ~ Lanes!Puts(call, u, t)) \/ (<<u, t>> \in queue /\ Lanes!Puts(call, t, u))
          /\ (<<u, v>> \in queue /\ ~ Lanes!Puts(call, v, u)) \/ (<<v, u>> \in queue /\ Lanes!Puts(call, u, v))
      BY <1>2, <1>5
    <2>4. (<<t, v>> \in queue /\ ~ Lanes!Puts(call, v, t)) \/ (<<v, t>> \in queue /\ Lanes!Puts(call, t, v))
      <3>1. t # v
        BY <1>4, <1>5, <2>2
      <3> QED
        BY <2>1, <2>2, <2>3, <3>1 DEF Lanes!Puts
    <2> QED
      BY <1>2, <2>4
  <1> QED
    BY <1>1, <1>3, <1>4, <1>5 DEF q

\* What a call does to the plans that mind a pair.
LEMMA LanesTailMends ==
  ASSUME NEW calls \in Seq(Lanes!Calls), calls # <<>>, NEW t, NEW u
  PROVE  /\ Lanes!Minds(calls, t, u) => Lanes!Minds(Tail(calls), t, u)
         /\ Lanes!Minds(calls, t, u) /\ Lanes!Puts(Head(calls), t, u) => Lanes!Mends(Tail(calls), t, u)
         /\ Lanes!Mends(calls, t, u) => Lanes!Puts(Head(calls), u, t) \/ Lanes!Mends(Tail(calls), t, u)
  <1> DEFINE tail == Tail(calls)
  <1>1. /\ tail \in Seq(Lanes!Calls) /\ Head(calls) = calls[1] /\ DOMAIN calls = 1 .. Len(calls)
        /\ DOMAIN tail = 1 .. Len(calls) - 1 /\ \A i \in DOMAIN tail : tail[i] = calls[i + 1]
        /\ Len(calls) \in Nat /\ Len(calls) > 0
    OBVIOUS
  <1> HIDE DEF tail
  <1>2. ASSUME NEW j \in DOMAIN calls, j > 1, Lanes!Puts(calls[j], u, t),
               \A k \in DOMAIN calls : k > j => ~ Lanes!Puts(calls[k], t, u)
        PROVE  /\ j - 1 \in DOMAIN tail /\ Lanes!Puts(tail[j - 1], u, t)
               /\ \A k \in DOMAIN tail : k > j - 1 => ~ Lanes!Puts(tail[k], t, u)
    <2>1. j - 1 \in DOMAIN tail /\ tail[j - 1] = calls[j]
      BY <1>1, <1>2
    <2>2. ASSUME NEW k \in DOMAIN tail, k > j - 1
          PROVE  ~ Lanes!Puts(tail[k], t, u)
      BY <1>1, <1>2, <2>2
    <2> QED
      BY <1>2, <2>1, <2>2
  <1>3. ASSUME Lanes!Minds(calls, t, u)
        PROVE  Lanes!Minds(tail, t, u)
    <2>1. SUFFICES ASSUME NEW i \in DOMAIN tail, Lanes!Puts(tail[i], t, u)
                   PROVE  \E j \in DOMAIN tail :
                            /\ j > i /\ Lanes!Puts(tail[j], u, t)
                            /\ \A k \in DOMAIN tail : k > j => ~ Lanes!Puts(tail[k], t, u)
      BY DEF Lanes!Minds
    <2>2. i + 1 \in DOMAIN calls /\ Lanes!Puts(calls[i + 1], t, u) /\ i \in Nat
      BY <1>1, <2>1
    <2>3. PICK j \in DOMAIN calls : /\ j > i + 1 /\ Lanes!Puts(calls[j], u, t)
                                    /\ \A k \in DOMAIN calls : k > j => ~ Lanes!Puts(calls[k], t, u)
      BY <1>3, <2>2 DEF Lanes!Minds
    <2>4. j > 1 /\ j - 1 > i
      BY <1>1, <2>2, <2>3
    <2> QED
      BY <1>2, <2>3, <2>4
  <1>4. ASSUME Lanes!Minds(calls, t, u), Lanes!Puts(Head(calls), t, u)
        PROVE  Lanes!Mends(tail, t, u)
    <2>1. PICK j \in DOMAIN calls : /\ j > 1 /\ Lanes!Puts(calls[j], u, t)
                                    /\ \A k \in DOMAIN calls : k > j => ~ Lanes!Puts(calls[k], t, u)
      BY <1>1, <1>4 DEF Lanes!Minds
    <2> QED
      BY <1>2, <2>1 DEF Lanes!Mends
  <1>5. ASSUME Lanes!Mends(calls, t, u), ~ Lanes!Puts(Head(calls), u, t)
        PROVE  Lanes!Mends(tail, t, u)
    <2>1. PICK j \in DOMAIN calls : /\ Lanes!Puts(calls[j], u, t)
                                    /\ \A k \in DOMAIN calls : k > j => ~ Lanes!Puts(calls[k], t, u)
      BY <1>5 DEF Lanes!Mends
    <2>2. j > 1
      BY <1>1, <1>5, <2>1
    <2> QED
      BY <1>2, <2>1, <2>2 DEF Lanes!Mends
  <1> QED
    BY <1>3, <1>4, <1>5 DEF tail

\* A plan is made of calls in their places, of which those that move nothing
\* are left out.
LanesPlaced(seq, calls, lo, hi) ==
  \E at \in [DOMAIN seq -> lo .. hi] :
    /\ \A i \in DOMAIN seq : seq[i] = calls[at[i]]
    /\ \A i, j \in DOMAIN seq : i < j => at[i] < at[j]
    /\ \A n \in lo .. hi : calls[n].who # {} => \E i \in DOMAIN seq : at[i] = n

LEMMA LanesPlacedCall ==
  ASSUME NEW to \in {"top", "bottom"}, NEW who \in SUBSET Queued, NEW calls, NEW n \in Nat,
         calls[n] = [to |-> to, who |-> who]
  PROVE  Lanes!Call(to, who) \in Seq(Lanes!Calls) /\ LanesPlaced(Lanes!Call(to, who), calls, n, n)
  <1>1. CASE who = {}
    <2>1. Lanes!Call(to, who) = <<>> /\ <<>> \in Seq(Lanes!Calls) /\ DOMAIN <<>> = {}
      BY <1>1 DEF Lanes!Call
    <2>2. \A m \in n .. n : calls[m].who = {}
      BY <1>1
    <2>3. [i \in {} |-> n] \in [{} -> n .. n]
      OBVIOUS
    <2> QED
      BY <2>1, <2>2, <2>3 DEF LanesPlaced
  <1>2. CASE who # {}
    <2> DEFINE seq == <<[to |-> to, who |-> who]>>
               at == [i \in {1} |-> n]
    <2>1. Lanes!Call(to, who) = seq /\ seq \in Seq(Lanes!Calls) /\ DOMAIN seq = {1} /\ seq[1] = calls[n]
      BY <1>2 DEF Lanes!Call, Lanes!Calls
    <2>2. at \in [{1} -> n .. n] /\ at[1] = n
      OBVIOUS
    <2>3. \A m \in n .. n : m = n
      OBVIOUS
    <2> HIDE DEF seq, at
    <2>4. LanesPlaced(seq, calls, n, n)
      BY <2>1, <2>2, <2>3 DEF LanesPlaced
    <2> QED
      BY <2>1, <2>4
  <1> QED
    BY <1>1, <1>2

LEMMA LanesPlacedBoth ==
  ASSUME NEW calls, NEW lo \in Nat, NEW mid \in Nat, NEW after \in Nat, NEW hi \in Nat,
         lo <= mid, after = mid + 1, after <= hi,
         NEW p \in Seq(Lanes!Calls), NEW q \in Seq(Lanes!Calls),
         LanesPlaced(p, calls, lo, mid), LanesPlaced(q, calls, after, hi)
  PROVE  p \o q \in Seq(Lanes!Calls) /\ LanesPlaced(p \o q, calls, lo, hi)
  <1> DEFINE m == Len(p)
             r == p \o q
  <1>1. /\ r \in Seq(Lanes!Calls) /\ m \in Nat /\ DOMAIN r \subseteq Nat
        /\ \A i \in DOMAIN r : IF i <= m THEN i \in DOMAIN p /\ r[i] = p[i]
                                         ELSE i - m \in DOMAIN q /\ r[i] = q[i - m]
        /\ \A i \in DOMAIN p : i \in DOMAIN r /\ i \in Nat /\ i <= m
        /\ \A i \in DOMAIN q : i + m \in DOMAIN r /\ i \in Nat /\ i > 0 /\ i + m - m = i
    OBVIOUS
  <1>2. PICK a \in [DOMAIN p -> lo .. mid] :
          /\ \A i \in DOMAIN p : p[i] = calls[a[i]]
          /\ \A i, j \in DOMAIN p : i < j => a[i] < a[j]
          /\ \A k \in lo .. mid : calls[k].who # {} => \E i \in DOMAIN p : a[i] = k
    BY DEF LanesPlaced
  <1>3. PICK b \in [DOMAIN q -> after .. hi] :
          /\ \A i \in DOMAIN q : q[i] = calls[b[i]]
          /\ \A i, j \in DOMAIN q : i < j => b[i] < b[j]
          /\ \A k \in after .. hi : calls[k].who # {} => \E i \in DOMAIN q : b[i] = k
    BY DEF LanesPlaced
  <1> DEFINE at == [i \in DOMAIN r |-> IF i <= m THEN a[i] ELSE b[i - m]]
  <1> HIDE DEF m, r
  <1>4. /\ \A i \in DOMAIN p : at[i] = a[i] /\ a[i] \in lo .. mid
        /\ \A i \in DOMAIN q : at[i + m] = b[i] /\ b[i] \in after .. hi
    <2>1. ASSUME NEW i \in DOMAIN p
          PROVE  at[i] = a[i] /\ a[i] \in lo .. mid
      BY <1>1
    <2>2. ASSUME NEW i \in DOMAIN q
          PROVE  at[i + m] = b[i] /\ b[i] \in after .. hi
      <3>1. PICK n \in DOMAIN r : n = i + m /\ ~ (n <= m) /\ n - m = i
        BY <1>1
      <3>2. at[n] = b[n - m]
        BY <3>1
      <3>3. b[i] \in after .. hi
        OBVIOUS
      <3> HIDE DEF at
      <3> QED
        BY <3>1, <3>2, <3>3
    <2> QED
      BY <2>1, <2>2
  <1>5. \A i \in DOMAIN r : i > m => at[i] = b[i - m] /\ i - m \in DOMAIN q /\ b[i - m] \in after .. hi
    BY <1>1
  <1>6. at \in [DOMAIN r -> lo .. hi]
    <2>1. ASSUME NEW i \in DOMAIN r
          PROVE  (IF i <= m THEN a[i] ELSE b[i - m]) \in lo .. hi
      <3>1. CASE i <= m
        <4>1. a[i] \in lo .. mid
          BY <1>1, <3>1
        <4> QED
          BY <3>1, <4>1
      <3>2. CASE ~ (i <= m)
        <4>1. b[i - m] \in after .. hi
          BY <1>1, <3>2
        <4> QED
          BY <3>2, <4>1
      <3> QED
        BY <3>1, <3>2
    <2> QED
      BY <2>1
  <1> HIDE DEF at
  <1>7. ASSUME NEW i \in DOMAIN r
        PROVE  r[i] = calls[at[i]]
    <2>1. CASE i <= m
      BY <1>1, <1>2, <1>4, <2>1
    <2>2. CASE i > m
      BY <1>1, <1>3, <1>5, <2>2
    <2> QED
      BY <1>1, <2>1, <2>2
  <1>8. ASSUME NEW i \in DOMAIN r, NEW j \in DOMAIN r, i < j
        PROVE  at[i] < at[j]
    <2>0. i \in Nat /\ j \in Nat
      BY <1>1
    <2>1. CASE j <= m
      <3>1. i \in DOMAIN p /\ j \in DOMAIN p
        BY <1>1, <1>8, <2>0, <2>1
      <3> QED
        BY <1>2, <1>4, <1>8, <3>1
    <2>2. CASE i > m
      <3>1. i - m \in DOMAIN q /\ j - m \in DOMAIN q /\ i - m < j - m
        BY <1>1, <1>8, <2>0, <2>2
      <3>2. at[i] = b[i - m] /\ at[j] = b[j - m]
        BY <1>1, <1>5, <1>8, <2>0, <2>2
      <3> QED
        BY <1>3, <3>1, <3>2
    <2>3. CASE i <= m /\ j > m
      <3>1. at[i] \in lo .. mid /\ at[j] \in after .. hi
        BY <1>1, <1>4, <1>5, <2>3
      <3> QED
        BY <3>1
    <2> QED
      BY <1>1, <2>0, <2>1, <2>2, <2>3
  <1>9. ASSUME NEW k \in lo .. hi, calls[k].who # {}
        PROVE  \E i \in DOMAIN r : at[i] = k
    <2>1. CASE k \in lo .. mid
      <3>1. PICK i \in DOMAIN p : a[i] = k
        BY <1>2, <1>9, <2>1
      <3> QED
        BY <1>1, <1>4, <3>1
    <2>2. CASE k \in after .. hi
      <3>1. PICK i \in DOMAIN q : b[i] = k
        BY <1>3, <1>9, <2>2
      <3> QED
        BY <1>1, <1>4, <3>1
    <2> QED
      BY <2>1, <2>2
  <1>10. LanesPlaced(r, calls, lo, hi)
    BY <1>6, <1>7, <1>8, <1>9 DEF LanesPlaced
  <1> QED
    BY <1>1, <1>10 DEF r

\* The six calls of a reorder.
LanesSlots(snap, first) ==
  <<[to |-> "bottom", who |-> Lanes!In(snap, "recent") \intersect {first}],
    [to |-> "bottom", who |-> Lanes!In(snap, "recent") \ {first}],
    [to |-> "bottom", who |-> Lanes!In(snap, "old") \intersect {first}],
    [to |-> "bottom", who |-> Lanes!In(snap, "old") \ {first}],
    [to |-> "top", who |-> Lanes!In(snap, "normal") \ {first}],
    [to |-> "top", who |-> Lanes!In(snap, "normal") \intersect {first}]>>

LEMMA LanesPlanPlaced ==
  ASSUME NEW snap \in Lanes!Labels, NEW first
  PROVE  Lanes!Plan(snap, first) \in Seq(Lanes!Calls) /\ LanesPlaced(Lanes!Plan(snap, first), LanesSlots(snap, first), 1, 6)
  <1> DEFINE s == LanesSlots(snap, first)
             r == Lanes!In(snap, "recent")
             o == Lanes!In(snap, "old")
             n == Lanes!In(snap, "normal")
  <1>1. r \subseteq Queued /\ o \subseteq Queued /\ n \subseteq Queued
    BY DEF Lanes!In, Lanes!Labels
  <1>2. /\ s[1] = [to |-> "bottom", who |-> r \intersect {first}]
        /\ s[2] = [to |-> "bottom", who |-> r \ {first}]
        /\ s[3] = [to |-> "bottom", who |-> o \intersect {first}]
        /\ s[4] = [to |-> "bottom", who |-> o \ {first}]
        /\ s[5] = [to |-> "top", who |-> n \ {first}]
        /\ s[6] = [to |-> "top", who |-> n \intersect {first}]
    BY DEF LanesSlots
  <1> HIDE DEF s, r, o, n
  <1>3. Lanes!ToBottom(r, first) \in Seq(Lanes!Calls) /\ LanesPlaced(Lanes!ToBottom(r, first), s, 1, 2)
    <2>1. /\ Lanes!Call("bottom", r \intersect {first}) \in Seq(Lanes!Calls)
          /\ LanesPlaced(Lanes!Call("bottom", r \intersect {first}), s, 1, 1)
      BY <1>1, <1>2, LanesPlacedCall
    <2>2. /\ Lanes!Call("bottom", r \ {first}) \in Seq(Lanes!Calls)
          /\ LanesPlaced(Lanes!Call("bottom", r \ {first}), s, 2, 2)
      BY <1>1, <1>2, LanesPlacedCall
    <2> QED
      BY <2>1, <2>2, LanesPlacedBoth DEF Lanes!ToBottom
  <1>4. Lanes!ToBottom(o, first) \in Seq(Lanes!Calls) /\ LanesPlaced(Lanes!ToBottom(o, first), s, 3, 4)
    <2>1. /\ Lanes!Call("bottom", o \intersect {first}) \in Seq(Lanes!Calls)
          /\ LanesPlaced(Lanes!Call("bottom", o \intersect {first}), s, 3, 3)
      BY <1>1, <1>2, LanesPlacedCall
    <2>2. /\ Lanes!Call("bottom", o \ {first}) \in Seq(Lanes!Calls)
          /\ LanesPlaced(Lanes!Call("bottom", o \ {first}), s, 4, 4)
      BY <1>1, <1>2, LanesPlacedCall
    <2> QED
      BY <2>1, <2>2, LanesPlacedBoth DEF Lanes!ToBottom
  <1>5. Lanes!ToTop(n, first) \in Seq(Lanes!Calls) /\ LanesPlaced(Lanes!ToTop(n, first), s, 5, 6)
    <2>1. /\ Lanes!Call("top", n \ {first}) \in Seq(Lanes!Calls)
          /\ LanesPlaced(Lanes!Call("top", n \ {first}), s, 5, 5)
      BY <1>1, <1>2, LanesPlacedCall
    <2>2. /\ Lanes!Call("top", n \intersect {first}) \in Seq(Lanes!Calls)
          /\ LanesPlaced(Lanes!Call("top", n \intersect {first}), s, 6, 6)
      BY <1>1, <1>2, LanesPlacedCall
    <2> QED
      BY <2>1, <2>2, LanesPlacedBoth DEF Lanes!ToTop
  <1>6. /\ Lanes!ToBottom(r, first) \o Lanes!ToBottom(o, first) \in Seq(Lanes!Calls)
        /\ LanesPlaced(Lanes!ToBottom(r, first) \o Lanes!ToBottom(o, first), s, 1, 4)
    BY <1>3, <1>4, LanesPlacedBoth
  <1> DEFINE a == Lanes!ToBottom(r, first) \o Lanes!ToBottom(o, first)
             c == Lanes!ToTop(n, first)
  <1>7. Lanes!Plan(snap, first) = a \o c
    BY DEF Lanes!Plan, r, o, n
  <1> HIDE DEF a, c
  <1>8. a \o c \in Seq(Lanes!Calls) /\ LanesPlaced(a \o c, s, 1, 6)
    <2>1. a \in Seq(Lanes!Calls) /\ LanesPlaced(a, s, 1, 4) /\ c \in Seq(Lanes!Calls) /\ LanesPlaced(c, s, 5, 6)
      BY <1>5, <1>6 DEF a, c
    <2> QED
      BY <2>1, LanesPlacedBoth
  <1> QED
    BY <1>7, <1>8 DEF s

\* What the places say of the plan.
LEMMA LanesPlacedMends ==
  ASSUME NEW seq \in Seq(Lanes!Calls), NEW calls, LanesPlaced(seq, calls, 1, 6), NEW t, NEW u,
         NEW n \in 1 .. 6,
         Lanes!Puts(calls[n], u, t), \A k \in 1 .. 6 : k > n => ~ Lanes!Puts(calls[k], t, u)
  PROVE  /\ Lanes!Mends(seq, t, u)
         /\ (\A k \in 1 .. 6 : Lanes!Puts(calls[k], t, u) => k < n) => Lanes!Minds(seq, t, u)
  <1>1. PICK at \in [DOMAIN seq -> 1 .. 6] :
          /\ \A i \in DOMAIN seq : seq[i] = calls[at[i]]
          /\ \A i, j \in DOMAIN seq : i < j => at[i] < at[j]
          /\ \A k \in 1 .. 6 : calls[k].who # {} => \E i \in DOMAIN seq : at[i] = k
    BY DEF LanesPlaced
  <1>2. calls[n].who # {}
    BY DEF Lanes!Puts
  <1>3. PICK j \in DOMAIN seq : at[j] = n
    BY <1>1, <1>2
  <1>4. Lanes!Puts(seq[j], u, t) /\ \A k \in DOMAIN seq : k > j => ~ Lanes!Puts(seq[k], t, u)
    BY <1>1, <1>3
  <1>5. ASSUME \A k \in 1 .. 6 : Lanes!Puts(calls[k], t, u) => k < n,
               NEW i \in DOMAIN seq, Lanes!Puts(seq[i], t, u)
        PROVE  j > i
    <2>1. at[i] < at[j] /\ at[i] \in 1 .. 6 /\ at[j] \in 1 .. 6
      BY <1>1, <1>3, <1>5
    <2>2. i \in Nat /\ j \in Nat
      OBVIOUS
    <2>3. ~ (j < i) /\ i # j
      BY <1>1, <2>1
    <2> QED
      BY <2>2, <2>3
  <1> QED
    BY <1>4, <1>5 DEF Lanes!Mends, Lanes!Minds

LEMMA LanesPlacedMinds ==
  ASSUME NEW seq \in Seq(Lanes!Calls), NEW calls, LanesPlaced(seq, calls, 1, 6), NEW t, NEW u,
         \A k \in 1 .. 6 : ~ Lanes!Puts(calls[k], t, u)
  PROVE  Lanes!Minds(seq, t, u)
  BY DEF LanesPlaced, Lanes!Minds

\* No call moves a request down, or an upgrade up.
LEMMA LanesPlanFits ==
  ASSUME NEW snap \in Lanes!Labels, NEW first
  PROVE  \A i \in DOMAIN Lanes!Plan(snap, first) :
           LET call == Lanes!Plan(snap, first)[i] IN
           call.who \subseteq IF call.to = "top" THEN Lanes!In(snap, "normal")
                              ELSE Lanes!In(snap, "recent") \union Lanes!In(snap, "old")
  <1> DEFINE s == LanesSlots(snap, first)
             plan == Lanes!Plan(snap, first)
  <1>1. LanesPlaced(plan, s, 1, 6)
    BY LanesPlanPlaced
  <1>2. \A n \in 1 .. 6 : s[n].who \subseteq IF s[n].to = "top" THEN Lanes!In(snap, "normal")
                                             ELSE Lanes!In(snap, "recent") \union Lanes!In(snap, "old")
    BY DEF LanesSlots
  <1> HIDE DEF plan, s
  <1>3. PICK at \in [DOMAIN plan -> 1 .. 6] : \A i \in DOMAIN plan : plan[i] = s[at[i]]
    BY <1>1 DEF LanesPlaced
  <1>4. ASSUME NEW i \in DOMAIN plan
        PROVE  plan[i].who \subseteq IF plan[i].to = "top" THEN Lanes!In(snap, "normal")
                                     ELSE Lanes!In(snap, "recent") \union Lanes!In(snap, "old")
    <2>1. at[i] \in 1 .. 6 /\ plan[i] = s[at[i]]
      BY <1>3
    <2> QED
      BY <1>2, <2>1
  <1> QED
    BY <1>4 DEF plan

LEMMA LanesRanks == Lanes!Rank["normal"] = 1 /\ Lanes!Rank["recent"] = 2 /\ Lanes!Rank["old"] = 3
  BY DEF Lanes!Rank, Lanes!Lanes

\* What a snapshot knows: the lane of each torrent, but of a request that has
\* arrived since.
LanesKnown(snap) ==
  \A t \in Lanes!Present : snap[t] = lane[t] \/ (snap[t] = "absent" /\ lane[t] = "normal")

\* A reorder by such a snapshot mends every pair that is out of its lanes.
LEMMA LanesPlanKeeps ==
  ASSUME NEW snap \in Lanes!Labels, lane \in Lanes!Labels, NEW first, LanesKnown(snap),
         NEW t \in Lanes!Present, NEW u \in Lanes!Present, Lanes!Rank[lane[t]] > Lanes!Rank[lane[u]]
  PROVE  Lanes!Minds(Lanes!Plan(snap, first), t, u) /\ Lanes!Mends(Lanes!Plan(snap, first), t, u)
  <1> DEFINE s == LanesSlots(snap, first)
             plan == Lanes!Plan(snap, first)
             r == Lanes!In(snap, "recent")
             o == Lanes!In(snap, "old")
             n == Lanes!In(snap, "normal")
  <1>1. plan \in Seq(Lanes!Calls) /\ LanesPlaced(plan, s, 1, 6)
    BY LanesPlanPlaced
  <1>2. /\ s[1] = [to |-> "bottom", who |-> r \intersect {first}]
        /\ s[2] = [to |-> "bottom", who |-> r \ {first}]
        /\ s[3] = [to |-> "bottom", who |-> o \intersect {first}]
        /\ s[4] = [to |-> "bottom", who |-> o \ {first}]
        /\ s[5] = [to |-> "top", who |-> n \ {first}]
        /\ s[6] = [to |-> "top", who |-> n \intersect {first}]
    BY DEF LanesSlots
  <1>3. /\ \/ lane[u] = "normal" /\ lane[t] \in {"recent", "old"}
           \/ lane[u] = "recent" /\ lane[t] = "old"
        /\ t \in Queued /\ u \in Queued
    BY LanesRanks DEF Lanes!Present, Lanes!Labels, Lanes!Lanes
  <1>4. /\ snap[t] = lane[t] /\ snap[u] \in {lane[u], "absent"}
        /\ lane[u] # "normal" => snap[u] = lane[u]
    BY <1>3 DEF LanesKnown
  <1>5. /\ (t \in r <=> lane[t] = "recent") /\ (t \in o <=> lane[t] = "old") /\ t \notin n
        /\ lane[u] = "normal" => u \notin r /\ u \notin o
        /\ lane[u] = "recent" => u \in r /\ u \notin o /\ u \notin n
    BY <1>3, <1>4 DEF Lanes!In, Lanes!Labels
  <1> HIDE DEF s, plan, r, o, n
  <1>6. CASE lane[u] = "normal"
    <2>1. u \notin r /\ u \notin o /\ (t \in r \/ t \in o)
      BY <1>3, <1>5, <1>6
    <2>2. \A k \in 1 .. 6 : ~ Lanes!Puts(s[k], t, u)
      BY <1>2, <1>5, <2>1 DEF Lanes!Puts
    <2>3. PICK m \in 1 .. 4 : Lanes!Puts(s[m], u, t)
      BY <1>2, <2>1 DEF Lanes!Puts
    <2>4. Lanes!Mends(plan, t, u)
      BY <1>1, <2>2, <2>3, LanesPlacedMends
    <2>5. Lanes!Minds(plan, t, u)
      BY <1>1, <2>2, LanesPlacedMinds
    <2> QED
      BY <2>4, <2>5 DEF plan
  <1>7. CASE lane[u] = "recent" /\ lane[t] = "old"
    <2>1. /\ u \in r /\ u \notin o /\ u \notin n
          /\ t \in o /\ t \notin r /\ t \notin n
      BY <1>5, <1>7
    <2>2. \A k \in 1 .. 6 : Lanes!Puts(s[k], t, u) => k < 3
      BY <1>2, <2>1 DEF Lanes!Puts
    <2>3. PICK m \in {3, 4} : Lanes!Puts(s[m], u, t)
      BY <1>2, <2>1 DEF Lanes!Puts
    <2>4. Lanes!Mends(plan, t, u) /\ Lanes!Minds(plan, t, u)
      BY <1>1, <2>2, <2>3, LanesPlacedMends
    <2> QED
      BY <2>4 DEF plan
  <1> QED
    BY <1>3, <1>6, <1>7

\* A reorder with a first brings it ahead of its rivals.
LEMMA LanesPlanFirst ==
  ASSUME NEW snap \in Lanes!Labels, lane \in Lanes!Labels, LanesKnown(snap),
         NEW first \in Lanes!Present, snap[first] \in {"normal", "recent"},
         NEW t \in Lanes!Present, Lanes!Rivals(t, first)
  PROVE  Lanes!Minds(Lanes!Plan(snap, first), t, first) /\ Lanes!Mends(Lanes!Plan(snap, first), t, first)
  <1> DEFINE s == LanesSlots(snap, first)
             plan == Lanes!Plan(snap, first)
             r == Lanes!In(snap, "recent")
             o == Lanes!In(snap, "old")
             n == Lanes!In(snap, "normal")
  <1>1. plan \in Seq(Lanes!Calls) /\ LanesPlaced(plan, s, 1, 6)
    BY LanesPlanPlaced
  <1>2. /\ s[1] = [to |-> "bottom", who |-> r \intersect {first}]
        /\ s[2] = [to |-> "bottom", who |-> r \ {first}]
        /\ s[3] = [to |-> "bottom", who |-> o \intersect {first}]
        /\ s[4] = [to |-> "bottom", who |-> o \ {first}]
        /\ s[5] = [to |-> "top", who |-> n \ {first}]
        /\ s[6] = [to |-> "top", who |-> n \intersect {first}]
    BY DEF LanesSlots
  <1>3. /\ lane[first] = snap[first] /\ t # first /\ t \in Queued /\ first \in Queued
        /\ lane[first] = "normal" => lane[t] = "normal"
        /\ lane[first] = "recent" => lane[t] \in {"recent", "old"}
    BY DEF LanesKnown, Lanes!Rivals, Lanes!Normals, Lanes!Upgrades, Lanes!Present
  <1>4. snap[t] = lane[t] \/ (snap[t] = "absent" /\ lane[t] = "normal")
    BY DEF LanesKnown
  <1>5. \/ first \in n /\ first \notin r /\ first \notin o /\ t \notin r /\ t \notin o
        \/ first \in r /\ first \notin n /\ first \notin o /\ t \notin n
           /\ ((t \in r /\ t \notin o) \/ (t \in o /\ t \notin r))
    BY <1>3, <1>4 DEF Lanes!In, Lanes!Labels
  <1> HIDE DEF s, plan, r, o, n
  <1>6. CASE first \in n
    <2>1. \A k \in 1 .. 6 : Lanes!Puts(s[k], t, first) => k < 6
      BY <1>2, <1>3, <1>5, <1>6 DEF Lanes!Puts
    <2>2. Lanes!Puts(s[6], first, t)
      BY <1>2, <1>3, <1>6 DEF Lanes!Puts
    <2> QED
      BY <1>1, <2>1, <2>2, LanesPlacedMends DEF plan
  <1>7. CASE first \in r
    <2>1. \A k \in 1 .. 6 : Lanes!Puts(s[k], t, first) => k < 2
      BY <1>2, <1>3, <1>5, <1>7 DEF Lanes!Puts
    <2>2. PICK m \in {2, 4} : Lanes!Puts(s[m], first, t)
      BY <1>2, <1>3, <1>5, <1>7 DEF Lanes!Puts
    <2> QED
      BY <1>1, <2>1, <2>2, LanesPlacedMends DEF plan
  <1> QED
    BY <1>5, <1>6, <1>7

\* What the calls of a pass have to fit.
LanesFit(calls) ==
  \A i \in DOMAIN calls :
    calls[i].who \subseteq IF calls[i].to = "top" THEN Lanes!Normals ELSE Lanes!Upgrades

LEMMA LanesPlanFit ==
  ASSUME NEW snap \in Lanes!Labels, NEW first, LanesKnown(snap),
         Lanes!In(snap, "normal") \union Lanes!In(snap, "recent") \union Lanes!In(snap, "old") \subseteq Lanes!Present
  PROVE  LanesFit(Lanes!Plan(snap, first))
  <1>1. /\ Lanes!In(snap, "normal") \subseteq Lanes!Normals
        /\ Lanes!In(snap, "recent") \union Lanes!In(snap, "old") \subseteq Lanes!Upgrades
    BY DEF LanesKnown, Lanes!In, Lanes!Present, Lanes!Normals, Lanes!Upgrades
  <1> DEFINE plan == Lanes!Plan(snap, first)
  <1>2. \A i \in DOMAIN plan :
          plan[i].who \subseteq IF plan[i].to = "top" THEN Lanes!In(snap, "normal")
                                ELSE Lanes!In(snap, "recent") \union Lanes!In(snap, "old")
    BY LanesPlanFits
  <1> HIDE DEF plan
  <1>3. LanesFit(plan)
    BY <1>1, <1>2 DEF LanesFit
  <1> QED
    BY <1>3 DEF plan

\* Between two passes.
LEMMA LanesIdle ==
  /\ Lanes!Idle \in Lanes!Passes /\ Lanes!Idle.pc = "idle" /\ Lanes!Idle.calls = <<>>
  /\ Lanes!Idle.first = Lanes!NoOne
  BY DEF Lanes!Idle, Lanes!Passes

\* The invariant, as one reads it.
LEMMA LanesInvSays ==
  ASSUME Lanes!Inv
  PROVE  /\ Lanes!TypeOK /\ worker \in [Lanes!Workers -> Lanes!Passes] /\ lane \in Lanes!Labels
         /\ \A v \in Lanes!Workers :
              /\ worker[v].clean \/ Lanes!Promotes(v) => LanesFit(worker[v].calls)
              /\ worker[v].pc = "move" <=> worker[v].calls # <<>>
              /\ worker[v].first \in Lanes!Present \union {Lanes!NoOne}
              /\ worker[v].pc \in {"look", "relabel"} =>
                   /\ worker[v].view \in Lanes!Labels
                   /\ worker[v].calls = <<>> /\ worker[v].first = Lanes!NoOne
                   /\ Lanes!In(worker[v].view, "normal") \union Lanes!In(worker[v].view, "recent")
                        \union Lanes!In(worker[v].view, "old") \subseteq Lanes!Present
                   /\ worker[v].clean \/ (v = "hourly" /\ worker[v].alone) => LanesKnown(worker[v].view)
         /\ Lanes!PairsMended /\ Lanes!FirstMended
  BY DEF Lanes!Inv, Lanes!TypeOK, Lanes!CallsFit, Lanes!ViewFits, Lanes!Moves, LanesFit, LanesKnown

\* The same of the next state.
LEMMA LanesInvHolds ==
  ASSUME /\ Lanes!TypeOK'
         /\ \A v \in Lanes!Workers :
              /\ worker'[v].clean \/ Lanes!Promotes(v)' => LanesFit(worker[v].calls)'
              /\ worker'[v].pc = "move" <=> worker'[v].calls # <<>>
              /\ worker'[v].first \in Lanes!Present' \union {Lanes!NoOne}
              /\ worker'[v].pc \in {"look", "relabel"} =>
                   /\ worker'[v].view \in Lanes!Labels
                   /\ worker'[v].calls = <<>> /\ worker'[v].first = Lanes!NoOne
                   /\ Lanes!In(worker'[v].view, "normal") \union Lanes!In(worker'[v].view, "recent")
                        \union Lanes!In(worker'[v].view, "old") \subseteq Lanes!Present'
                   /\ worker'[v].clean \/ (v = "hourly" /\ worker'[v].alone) => LanesKnown(worker[v].view)'
         /\ Lanes!PairsMended' /\ Lanes!FirstMended'
  PROVE  Lanes!Inv'
  BY DEF Lanes!Inv, Lanes!CallsFit, Lanes!ViewFits, Lanes!Moves, LanesFit, LanesKnown

\* Nothing is under way, and whatever is queued is in its place of old.
LEMMA LanesInitInv ==
  ASSUME Lanes!LanesAssumption, Lanes!Init
  PROVE  Lanes!Inv
  <1>1. \A w \in Lanes!Workers : worker[w] = Lanes!Idle
    BY DEF Lanes!Init
  <1>2. Lanes!Present \subseteq Nat
    BY DEF Lanes!LanesAssumption, Lanes!Present
  <1>3. Lanes!TypeOK
    <2>1. worker \in [Lanes!Workers -> Lanes!Passes]
      BY LanesIdle DEF Lanes!Init
    <2>2. \A t, u \in Lanes!Present : <<t, u>> \in queue <=> t < u
      BY DEF Lanes!Init
    <2>3. /\ \A t \in Lanes!Present : <<t, t>> \notin queue
          /\ \A t, u \in Lanes!Present : t # u => (<<t, u>> \in queue <=> <<u, t>> \notin queue)
          /\ \A t, u, v \in Lanes!Present : <<t, u>> \in queue /\ <<u, v>> \in queue => <<t, v>> \in queue
      BY <1>2, <2>2
    <2>4. /\ queue \subseteq Lanes!Present \X Lanes!Present
          /\ pending \in [Queued -> Lanes!Steps] /\ \A t \in Queued : pending[t] = "none"
      BY DEF Lanes!Init, Lanes!Steps
    <2>5. settled \in BOOLEAN /\ lane \in Lanes!Labels
      BY DEF Lanes!Init
    <2>6. changes \in 0 .. Changes
      BY DEF Lanes!Init, Lanes!LanesAssumption
    <2> QED
      BY <2>1, <2>3, <2>4, <2>5, <2>6 DEF Lanes!TypeOK
  <1>4. \A w \in Lanes!Workers : ~ Lanes!Moves(w)
    BY <1>1, LanesIdle DEF Lanes!Moves
  <1>5. Lanes!CallsFit /\ Lanes!ViewFits
    BY <1>1, <1>4, LanesIdle DEF Lanes!CallsFit, Lanes!ViewFits
  <1>6. Lanes!PairsMended /\ Lanes!FirstMended
    BY <1>4 DEF Lanes!PairsMended, Lanes!FirstMended, Lanes!Init
  <1> QED
    BY <1>3, <1>5, <1>6 DEF Lanes!Inv

\* A pass reorders by its snapshot.
LEMMA LanesReorderStep ==
  ASSUME Lanes!LanesAssumption, Lanes!Inv, NEW w \in Lanes!Workers,
         worker[w].pc \in {"look", "relabel"}, NEW first \in Queued \union {Lanes!NoOne},
         first = Lanes!NoOne \/ (w = "hourly" /\ first \in Queued /\ worker[w].view[first] \in {"normal", "recent"}),
         Lanes!Reorder(w, first)
  PROVE  Lanes!Inv'
  <1> DEFINE snap == worker[w].view
             plan == Lanes!Plan(snap, first)
             alone == worker[w].alone /\ \A u \in Lanes!Workers : worker[u].pc # "move"
  <1>0. /\ worker \in [Lanes!Workers -> Lanes!Passes] /\ lane \in Lanes!Labels /\ alone \in BOOLEAN
        /\ snap \in Lanes!Labels /\ plan \in Seq(Lanes!Calls) /\ plan # <<>>
        /\ Lanes!NoOne \notin Queued /\ (alone => worker[w].alone)
        /\ Lanes!In(snap, "normal") \union Lanes!In(snap, "recent") \union Lanes!In(snap, "old") \subseteq Lanes!Present
        /\ worker[w].clean \/ (w = "hourly" /\ worker[w].alone) => LanesKnown(snap)
        /\ first # Lanes!NoOne => w = "hourly" /\ first \in Lanes!Present /\ snap[first] \in {"normal", "recent"}
    <2>1. /\ worker \in [Lanes!Workers -> Lanes!Passes] /\ lane \in Lanes!Labels /\ snap \in Lanes!Labels
          /\ Lanes!In(snap, "normal") \union Lanes!In(snap, "recent") \union Lanes!In(snap, "old") \subseteq Lanes!Present
          /\ worker[w].clean \/ (w = "hourly" /\ worker[w].alone) => LanesKnown(snap)
      BY LanesInvSays
    <2>2. Lanes!NoOne \notin Queued
      BY DEF Lanes!LanesAssumption, Lanes!NoOne
    <2>3. first # Lanes!NoOne => w = "hourly" /\ first \in Lanes!Present /\ snap[first] \in {"normal", "recent"}
      BY <2>1 DEF Lanes!In, Lanes!Labels
    <2>4. plan \in Seq(Lanes!Calls) /\ plan # <<>>
      BY <2>1, LanesPlanPlaced DEF Lanes!Reorder
    <2> QED
      BY <2>1, <2>2, <2>3, <2>4
  <1>1. /\ worker' = [v \in Lanes!Workers |->
             IF v = w THEN [Lanes!Idle EXCEPT !.pc = "move", !.calls = plan, !.first = first,
                                        !.clean = worker[w].clean, !.alone = alone]
             ELSE [worker[v] EXCEPT !.alone = FALSE]]
    BY DEF Lanes!Reorder
  <1> HIDE DEF snap, plan, alone
  <1>2. /\ worker'[w] \in Lanes!Passes /\ worker'[w].pc = "move" /\ worker'[w].calls = plan
        /\ worker'[w].first = first /\ worker'[w].clean = worker[w].clean /\ worker'[w].alone = alone
    BY <1>0, <1>1 DEF Lanes!Idle, Lanes!Passes
  <1>3. ASSUME NEW v \in Lanes!Workers, v # w
        PROVE  /\ worker'[v] \in Lanes!Passes /\ worker'[v].pc = worker[v].pc
               /\ worker'[v].calls = worker[v].calls
               /\ worker'[v].first = worker[v].first /\ worker'[v].clean = worker[v].clean
               /\ worker'[v].view = worker[v].view /\ worker'[v].alone = FALSE
    BY <1>0, <1>1, <1>3 DEF Lanes!Passes
  <1>4. /\ lane' = lane /\ queue' = queue /\ pending' = pending /\ settled' = settled /\ changes' = changes
        /\ Lanes!Present' = Lanes!Present /\ Lanes!Normals' = Lanes!Normals
        /\ Lanes!Upgrades' = Lanes!Upgrades
    BY DEF Lanes!Reorder, Lanes!Present, Lanes!Normals, Lanes!Upgrades
  <1>5. Lanes!TypeOK'
    <2>1. worker' \in [Lanes!Workers -> Lanes!Passes]
      BY <1>1, <1>2, <1>3
    <2> QED
      BY <1>4, <2>1 DEF Lanes!Inv, Lanes!TypeOK
  <1>6. worker[w].clean \/ (w = "hourly" /\ worker[w].alone) => LanesFit(plan)
    BY <1>0, LanesPlanFit DEF plan
  <1>7. ASSUME NEW v \in Lanes!Workers
        PROVE  /\ worker'[v].clean \/ Lanes!Promotes(v)' => LanesFit(worker[v].calls)'
               /\ worker'[v].pc = "move" <=> worker'[v].calls # <<>>
               /\ worker'[v].first \in Lanes!Present' \union {Lanes!NoOne}
               /\ worker'[v].pc \in {"look", "relabel"} =>
                    /\ worker'[v].view \in Lanes!Labels
                    /\ worker'[v].calls = <<>> /\ worker'[v].first = Lanes!NoOne
                    /\ Lanes!In(worker'[v].view, "normal") \union Lanes!In(worker'[v].view, "recent")
                         \union Lanes!In(worker'[v].view, "old") \subseteq Lanes!Present'
                    /\ worker'[v].clean \/ (v = "hourly" /\ worker'[v].alone) => LanesKnown(worker[v].view)'
    <2>1. CASE v = w
      BY <1>0, <1>2, <1>4, <1>6, <2>1 DEF Lanes!Promotes, LanesFit
    <2>2. CASE v # w
      <3>1. /\ worker[v].clean => LanesFit(worker[v].calls)
            /\ worker[v].pc = "move" <=> worker[v].calls # <<>>
            /\ worker[v].first \in Lanes!Present \union {Lanes!NoOne}
            /\ worker[v].pc \in {"look", "relabel"} =>
                 /\ worker[v].view \in Lanes!Labels
                 /\ worker[v].calls = <<>> /\ worker[v].first = Lanes!NoOne
                 /\ Lanes!In(worker[v].view, "normal") \union Lanes!In(worker[v].view, "recent")
                      \union Lanes!In(worker[v].view, "old") \subseteq Lanes!Present
                 /\ worker[v].clean => LanesKnown(worker[v].view)
        BY LanesInvSays
      <3>2. /\ LanesFit(worker[v].calls)' <=> LanesFit(worker[v].calls)
            /\ LanesKnown(worker[v].view)' <=> LanesKnown(worker[v].view)
            /\ ~ Lanes!Promotes(v)'
        BY <1>3, <1>4, <2>2 DEF LanesFit, LanesKnown, Lanes!Promotes
      <3> QED
        BY <1>3, <1>4, <2>2, <3>1, <3>2
    <2> QED
      BY <2>1, <2>2
  <1>8. ASSUME worker[w].clean, NEW t \in Lanes!Present, NEW u \in Lanes!Present, Lanes!Rank[lane[t]] > Lanes!Rank[lane[u]]
        PROVE  Lanes!Minds(plan, t, u) /\ Lanes!Mends(plan, t, u)
    BY <1>0, <1>8, LanesPlanKeeps DEF plan
  <1>9. Lanes!PairsMended'
    <2>1. ASSUME NEW v \in Lanes!Workers, Lanes!Moves(v)', worker'[v].clean,
                 NEW t \in Lanes!Present, NEW u \in Lanes!Present, Lanes!Rank[lane[t]] > Lanes!Rank[lane[u]]
          PROVE  Lanes!Minds(worker'[v].calls, t, u)
      BY <1>2, <1>3, <1>8, <2>1 DEF Lanes!Inv, Lanes!PairsMended, Lanes!Moves
    <2>2. ASSUME \A v \in Lanes!Workers : Lanes!Moves(v)' => worker'[v].clean,
                 NEW t \in Lanes!Present, NEW u \in Lanes!Present, Lanes!Inverted(t, u)
          PROVE  Lanes!Mends(worker'[w].calls, t, u)
      BY <1>2, <1>8, <2>2 DEF Lanes!Moves, Lanes!Inverted
    <2> QED
      BY <1>4, <2>1, <2>2 DEF Lanes!PairsMended, Lanes!Inverted, Lanes!Ahead
  <1>10. Lanes!FirstMended'
    <2>1. ASSUME first # Lanes!NoOne, alone, NEW t \in Lanes!Present, Lanes!Rivals(t, first)
          PROVE  Lanes!Minds(plan, t, first) /\ Lanes!Mends(plan, t, first)
      BY <1>0, <2>1, LanesPlanFirst DEF plan
    <2>2. ASSUME NEW v \in Lanes!Workers, Lanes!Moves(v)', worker'[v].alone, worker'[v].first # Lanes!NoOne,
                 NEW t \in Lanes!Present, Lanes!Rivals(t, worker'[v].first)
          PROVE  Lanes!Minds(worker'[v].calls, t, worker'[v].first) /\ Lanes!Mends(worker'[v].calls, t, worker'[v].first)
      BY <1>2, <1>3, <2>1, <2>2
    <2> QED
      BY <1>4, <2>2 DEF Lanes!FirstMended, Lanes!Rivals, Lanes!Promotes
  <1> QED
    BY <1>5, <1>7, <1>9, <1>10, LanesInvHolds

\* A pass that looks, or gives up, has no call to come.
LEMMA LanesRestStep ==
  ASSUME Lanes!Inv, NEW w \in Lanes!Workers, NEW new \in Lanes!Passes,
         worker[w].pc # "move", new.pc # "move", new.calls = <<>>, new.first = Lanes!NoOne,
         worker' = [worker EXCEPT ![w] = new],
         UNCHANGED <<lane, queue, pending, settled, changes>>,
         new.pc \in {"look", "relabel"} =>
           /\ new.view \in Lanes!Labels /\ LanesKnown(new.view)
           /\ Lanes!In(new.view, "normal") \union Lanes!In(new.view, "recent")
                \union Lanes!In(new.view, "old") \subseteq Lanes!Present
  PROVE  Lanes!Inv'
  <1>1. /\ worker \in [Lanes!Workers -> Lanes!Passes] /\ worker[w].calls = <<>>
        /\ worker'[w] = new /\ \A v \in Lanes!Workers : v # w => worker'[v] = worker[v]
    BY LanesInvSays
  <1>2. /\ lane' = lane /\ queue' = queue /\ pending' = pending /\ settled' = settled /\ changes' = changes
        /\ Lanes!Present' = Lanes!Present /\ Lanes!Normals' = Lanes!Normals
        /\ Lanes!Upgrades' = Lanes!Upgrades
    BY DEF Lanes!Present, Lanes!Normals, Lanes!Upgrades
  <1>3. Lanes!TypeOK'
    <2>1. worker' \in [Lanes!Workers -> Lanes!Passes]
      BY <1>1
    <2> QED
      BY <1>2, <2>1 DEF Lanes!Inv, Lanes!TypeOK
  <1>4. ASSUME NEW v \in Lanes!Workers
        PROVE  /\ worker'[v].clean \/ Lanes!Promotes(v)' => LanesFit(worker[v].calls)'
               /\ worker'[v].pc = "move" <=> worker'[v].calls # <<>>
               /\ worker'[v].first \in Lanes!Present' \union {Lanes!NoOne}
               /\ worker'[v].pc \in {"look", "relabel"} =>
                    /\ worker'[v].view \in Lanes!Labels
                    /\ worker'[v].calls = <<>> /\ worker'[v].first = Lanes!NoOne
                    /\ Lanes!In(worker'[v].view, "normal") \union Lanes!In(worker'[v].view, "recent")
                         \union Lanes!In(worker'[v].view, "old") \subseteq Lanes!Present'
                    /\ worker'[v].clean \/ (v = "hourly" /\ worker'[v].alone) => LanesKnown(worker[v].view)'
    <2>1. CASE v = w
      <3>1. worker'[v] = new /\ LanesFit(worker[v].calls)' /\ (LanesKnown(worker[v].view)' <=> LanesKnown(new.view))
        BY <1>1, <1>2, <2>1 DEF LanesFit, LanesKnown
      <3> QED
        BY <1>2, <3>1
    <2>2. CASE v # w
      <3>1. /\ worker'[v] = worker[v] /\ (LanesFit(worker[v].calls)' <=> LanesFit(worker[v].calls))
            /\ (LanesKnown(worker[v].view)' <=> LanesKnown(worker[v].view))
            /\ (Lanes!Promotes(v)' <=> Lanes!Promotes(v))
        BY <1>1, <1>2, <2>2 DEF LanesFit, LanesKnown, Lanes!Promotes
      <3> QED
        BY <1>2, <3>1, LanesInvSays
    <2> QED
      BY <2>1, <2>2
  <1>5. Lanes!PairsMended'
    <2>1. \A v \in Lanes!Workers : (Lanes!Moves(v)' <=> Lanes!Moves(v)) /\ (Lanes!Moves(v) => worker'[v] = worker[v])
      BY <1>1 DEF Lanes!Moves
    <2>2. ASSUME NEW v \in Lanes!Workers, NEW t \in Lanes!Present, NEW u \in Lanes!Present,
                 Lanes!Mends(worker[v].calls, t, u)
          PROVE  worker'[v] = worker[v]
      BY <1>1, <2>2 DEF Lanes!Mends
    <2>3. ASSUME NEW v \in Lanes!Workers, Lanes!Moves(v)', worker'[v].clean,
                 NEW t \in Lanes!Present, NEW u \in Lanes!Present, Lanes!Rank[lane[t]] > Lanes!Rank[lane[u]]
          PROVE  Lanes!Minds(worker'[v].calls, t, u)
      BY <2>1, <2>3 DEF Lanes!Inv, Lanes!PairsMended
    <2>4. ASSUME \A v \in Lanes!Workers : Lanes!Moves(v)' => worker'[v].clean,
                 settled \/ \E v \in Lanes!Workers : Lanes!Moves(v)',
                 NEW t \in Lanes!Present, NEW u \in Lanes!Present, Lanes!Inverted(t, u)
          PROVE  Lanes!Waits(t, u) \/ \E v \in Lanes!Workers : Lanes!Mends(worker'[v].calls, t, u)
      <3>1. Lanes!Waits(t, u) \/ \E v \in Lanes!Workers : Lanes!Mends(worker[v].calls, t, u)
        BY <2>1, <2>4 DEF Lanes!Inv, Lanes!PairsMended
      <3> QED
        BY <2>2, <3>1
    <2> QED
      BY <1>2, <2>3, <2>4 DEF Lanes!PairsMended, Lanes!Inverted, Lanes!Ahead, Lanes!Waits
  <1>6. Lanes!FirstMended'
    <2>1. ASSUME NEW v \in Lanes!Workers, Lanes!Moves(v)'
          PROVE  worker'[v] = worker[v] /\ Lanes!Moves(v)
      BY <1>1, <2>1 DEF Lanes!Moves
    <2> QED
      BY <1>2, <2>1 DEF Lanes!Inv, Lanes!FirstMended, Lanes!Promotes, Lanes!Rivals, Lanes!Ahead
  <1> QED
    BY <1>3, <1>4, <1>5, <1>6, LanesInvHolds

LEMMA LanesLookStep ==
  ASSUME Lanes!Inv, NEW w \in Lanes!Workers, Lanes!Look(w)
  PROVE  Lanes!Inv'
  <1> DEFINE alone == \A v \in Lanes!Workers : worker[v].pc # "move"
             new == [Lanes!Idle EXCEPT !.pc = "look", !.view = lane, !.alone = alone]
  <1>1. worker' = [worker EXCEPT ![w] = new] /\ worker[w].pc # "move"
    BY DEF Lanes!Look
  <1>2. alone \in BOOLEAN /\ lane \in Lanes!Labels
    BY LanesInvSays
  <1> HIDE DEF alone
  <1>3. /\ new \in Lanes!Passes /\ new.pc = "look" /\ new.calls = <<>> /\ new.first = Lanes!NoOne
        /\ new.view = lane
    <2>1. lane \in Lanes!Labels \union {Lanes!NoView}
      BY <1>2
    <2> QED
      BY <1>2, <2>1, LanesIdle DEF Lanes!Passes
  <1>4. /\ LanesKnown(new.view)
        /\ Lanes!In(new.view, "normal") \union Lanes!In(new.view, "recent")
             \union Lanes!In(new.view, "old") \subseteq Lanes!Present
    BY <1>2, <1>3 DEF LanesKnown, Lanes!In, Lanes!Present, Lanes!Labels
  <1> HIDE DEF new
  <1> QED
    BY <1>1, <1>2, <1>3, <1>4, LanesRestStep DEF Lanes!Look

LEMMA LanesGiveUpStep ==
  ASSUME Lanes!Inv, NEW w \in Lanes!Workers, Lanes!GiveUp(w)
  PROVE  Lanes!Inv'
  BY LanesIdle, LanesRestStep DEF Lanes!GiveUp

LEMMA LanesStartStep ==
  ASSUME Lanes!LanesAssumption, Lanes!Inv, NEW first \in Queued \union {Lanes!NoOne}, Lanes!Start(first)
  PROVE  Lanes!Inv'
  BY LanesReorderStep DEF Lanes!Start, Lanes!Workers

LEMMA LanesCycleStep ==
  ASSUME Lanes!LanesAssumption, Lanes!Inv, Lanes!ReorderAfterRelabel
  PROVE  Lanes!Inv'
  BY LanesReorderStep DEF Lanes!ReorderAfterRelabel, Lanes!Workers

\* What the others do to a pass.
LEMMA LanesOvertaken ==
  ASSUME worker \in [Lanes!Workers -> Lanes!Passes], NEW ws, NEW v \in Lanes!Workers,
         NEW pass, pass = Lanes!Overtaken(ws)[v] \/ pass = Lanes!Surprised(ws)[v]
  PROVE  /\ pass \in Lanes!Passes /\ pass.pc = worker[v].pc /\ pass.calls = worker[v].calls
         /\ pass.first = worker[v].first /\ pass.view = worker[v].view
         /\ pass.clean => worker[v].clean
         /\ v \in ws /\ worker[v].pc # "idle" => ~ pass.clean
         /\ pass.alone => worker[v].alone
         /\ pass = Lanes!Surprised(ws)[v] => ~ pass.alone
  <1> DEFINE old == Lanes!Overtaken(ws)[v]
  <1>1. old = IF v \in ws /\ worker[v].pc # "idle" THEN [worker[v] EXCEPT !.clean = FALSE] ELSE worker[v]
    BY DEF Lanes!Overtaken
  <1>2. Lanes!Surprised(ws)[v] = [old EXCEPT !.alone = FALSE]
    BY DEF Lanes!Surprised
  <1>3. worker[v] \in Lanes!Passes
    OBVIOUS
  <1> HIDE DEF old
  <1>4. /\ old \in Lanes!Passes /\ old.pc = worker[v].pc /\ old.calls = worker[v].calls
        /\ old.first = worker[v].first /\ old.view = worker[v].view /\ old.alone = worker[v].alone
        /\ old.clean => worker[v].clean
        /\ v \in ws /\ worker[v].pc # "idle" => ~ old.clean
    BY <1>1, <1>3 DEF Lanes!Passes
  <1> DEFINE new == [old EXCEPT !.alone = FALSE]
  <1>5. /\ new \in Lanes!Passes /\ new.pc = old.pc /\ new.calls = old.calls /\ new.first = old.first
        /\ new.view = old.view /\ new.clean = old.clean /\ new.alone = FALSE
    BY <1>4 DEF Lanes!Passes
  <1> HIDE DEF new
  <1>6. pass = old \/ pass = new
    BY <1>2 DEF old, new
  <1>7. pass = Lanes!Surprised(ws)[v] => pass = new
    BY <1>2 DEF new
  <1> QED
    BY <1>4, <1>5, <1>6, <1>7

\* An upgrade is relabelled: who moves meanwhile no longer knows every label.
LEMMA LanesRelabelStep ==
  ASSUME Lanes!Inv, NEW t \in Queued, NEW l \in {"recent", "old"}, Lanes!Relabel(t, l)
  PROVE  Lanes!Inv'
  <1> DEFINE snap == worker["cycle"].view
             patched == [snap EXCEPT ![t] = l]
  <1>1. /\ worker \in [Lanes!Workers -> Lanes!Passes] /\ lane \in Lanes!Labels
        /\ worker["cycle"].pc \in {"look", "relabel"} /\ worker["cycle"].calls = <<>>
        /\ worker["cycle"].first = Lanes!NoOne /\ "cycle" \in Lanes!Workers
        /\ snap \in Lanes!Labels /\ snap[t] = "normal"
        /\ Lanes!In(snap, "normal") \union Lanes!In(snap, "recent") \union Lanes!In(snap, "old") \subseteq Lanes!Present
        /\ worker["cycle"].clean => LanesKnown(snap)
    BY LanesInvSays DEF Lanes!Relabel, Lanes!Workers
  <1>2. /\ lane' = [lane EXCEPT ![t] = l] /\ queue' = queue /\ pending' = pending /\ changes' = changes
        /\ settled' = FALSE
    BY DEF Lanes!Relabel
  <1> HIDE DEF snap
  <1>3. t \in Lanes!Present
    BY <1>1 DEF Lanes!In, Lanes!Labels
  <1>4. lane' \in Lanes!Labels /\ Lanes!Present' = Lanes!Present
    <2>1. /\ lane'[t] = l /\ \A u \in Queued : u # t => lane'[u] = lane[u]
      BY <1>1, <1>2 DEF Lanes!Labels
    <2> QED
      BY <1>1, <1>2, <1>3, <2>1 DEF Lanes!Labels, Lanes!Lanes, Lanes!Present
  <1>5. /\ patched \in Lanes!Labels
        /\ Lanes!In(patched, "normal") \union Lanes!In(patched, "recent") \union Lanes!In(patched, "old") \subseteq Lanes!Present
        /\ worker["cycle"].clean => \A u \in Lanes!Present :
             patched[u] = lane'[u] \/ (patched[u] = "absent" /\ lane'[u] = "normal")
    <2>1. patched \in Lanes!Labels
      BY <1>1 DEF Lanes!Labels, Lanes!Lanes
    <2>2. /\ patched[t] = l /\ lane'[t] = l
          /\ \A u \in Queued : u # t => patched[u] = snap[u] /\ lane'[u] = lane[u]
      BY <1>1, <1>2 DEF Lanes!Labels
    <2> HIDE DEF patched
    <2>3. Lanes!In(patched, "normal") \union Lanes!In(patched, "recent") \union Lanes!In(patched, "old") \subseteq Lanes!Present
      BY <1>1, <1>3, <2>1, <2>2 DEF Lanes!In, Lanes!Labels
    <2>4. worker["cycle"].clean => \A u \in Lanes!Present :
            patched[u] = lane'[u] \/ (patched[u] = "absent" /\ lane'[u] = "normal")
      BY <1>1, <2>2 DEF LanesKnown, Lanes!Present
    <2> QED
      BY <2>1, <2>3, <2>4
  <1> DEFINE other == Lanes!Surprised({"hourly"})
  <1>6. ASSUME NEW v \in Lanes!Workers
        PROVE  /\ other[v] \in Lanes!Passes /\ other[v].pc = worker[v].pc /\ other[v].calls = worker[v].calls
               /\ other[v].first = worker[v].first /\ other[v].view = worker[v].view
               /\ (other[v].clean => worker[v].clean)
               /\ (v \in {"hourly"} /\ worker[v].pc # "idle" => ~ other[v].clean)
               /\ ~ other[v].alone
    BY <1>1, LanesOvertaken
  <1>7. other = [v \in Lanes!Workers |-> other[v]]
    BY DEF Lanes!Surprised
  <1> HIDE DEF other
  <1>8. worker' = [other EXCEPT !["cycle"].view[t] = l, !["cycle"].pc = "relabel"]
    BY DEF other, Lanes!Relabel
  <1>9. /\ worker'["cycle"] \in Lanes!Passes /\ worker'["cycle"].pc = "relabel" /\ worker'["cycle"].calls = <<>>
        /\ worker'["cycle"].first = Lanes!NoOne /\ worker'["cycle"].view = patched
        /\ (worker'["cycle"].clean => worker["cycle"].clean) /\ ~ worker'["cycle"].alone
    <2>1. other["cycle"] \in Lanes!Passes /\ other["cycle"].view = snap
      BY <1>1, <1>6 DEF snap
    <2>2. worker'["cycle"] = [other["cycle"] EXCEPT !.view = patched, !.pc = "relabel"]
      BY <1>1, <1>7, <1>8, <2>1
    <2>3. patched \in Lanes!Labels \union {Lanes!NoView}
      BY <1>5
    <2> HIDE DEF patched
    <2>4. /\ worker'["cycle"] \in Lanes!Passes /\ worker'["cycle"].pc = "relabel"
          /\ worker'["cycle"].view = patched /\ worker'["cycle"].calls = other["cycle"].calls
          /\ worker'["cycle"].first = other["cycle"].first /\ worker'["cycle"].clean = other["cycle"].clean
          /\ worker'["cycle"].alone = other["cycle"].alone
      BY <2>1, <2>2, <2>3 DEF Lanes!Passes
    <2> QED
      BY <1>1, <1>6, <2>4
  <1>10. ASSUME NEW v \in Lanes!Workers, v # "cycle"
         PROVE  worker'[v] = other[v] /\ v = "hourly"
    BY <1>7, <1>8, <1>10 DEF Lanes!Workers
  <1>11. ASSUME NEW v \in Lanes!Workers
         PROVE  /\ worker'[v] \in Lanes!Passes /\ ~ worker'[v].alone
                /\ worker'[v].first = worker[v].first /\ worker'[v].calls = worker[v].calls
                /\ (worker'[v].pc = "move" <=> worker[v].pc = "move")
                /\ (worker'[v].clean => worker'[v].calls = <<>>)
    <2>1. CASE v = "cycle"
      BY <1>1, <1>9, <2>1
    <2>2. CASE v # "cycle"
      <3>1. worker[v].pc = "move" <=> worker[v].calls # <<>>
        BY LanesInvSays
      <3> QED
        BY <1>6, <1>10, <2>2, <3>1
    <2> QED
      BY <2>1, <2>2
  <1>12. Lanes!TypeOK'
    <2>1. worker' = [v \in Lanes!Workers |-> worker'[v]]
      BY <1>7, <1>8
    <2>2. worker' \in [Lanes!Workers -> Lanes!Passes]
      BY <1>11, <2>1
    <2>3. queue' = queue /\ pending' = pending /\ changes' = changes /\ settled' = FALSE
      BY <1>2
    <2>4. Lanes!TypeOK
      BY LanesInvSays
    <2>5. /\ queue' \subseteq Lanes!Present' \X Lanes!Present'
          /\ \A u \in Lanes!Present' : <<u, u>> \notin queue'
          /\ \A u, v \in Lanes!Present' : u # v => (<<u, v>> \in queue' <=> <<v, u>> \notin queue')
          /\ \A u, v, x \in Lanes!Present' : <<u, v>> \in queue' /\ <<v, x>> \in queue' => <<u, x>> \in queue'
      BY <1>4, <2>3, <2>4 DEF Lanes!TypeOK
    <2>6. /\ pending' \in [Queued -> Lanes!Steps] /\ \A u \in Queued : pending'[u] # "none" => u \in Lanes!Present'
          /\ settled' \in BOOLEAN /\ changes' \in 0 .. Changes
      BY <1>4, <2>3, <2>4 DEF Lanes!TypeOK
    <2> QED
      BY <1>4, <2>2, <2>5, <2>6 DEF Lanes!TypeOK
  <1>13. ASSUME NEW v \in Lanes!Workers
         PROVE  /\ worker'[v].clean \/ Lanes!Promotes(v)' => LanesFit(worker[v].calls)'
                /\ worker'[v].pc = "move" <=> worker'[v].calls # <<>>
                /\ worker'[v].first \in Lanes!Present' \union {Lanes!NoOne}
                /\ worker'[v].pc \in {"look", "relabel"} =>
                     /\ worker'[v].view \in Lanes!Labels
                     /\ worker'[v].calls = <<>> /\ worker'[v].first = Lanes!NoOne
                     /\ Lanes!In(worker'[v].view, "normal") \union Lanes!In(worker'[v].view, "recent")
                          \union Lanes!In(worker'[v].view, "old") \subseteq Lanes!Present'
                     /\ worker'[v].clean \/ (v = "hourly" /\ worker'[v].alone) => LanesKnown(worker[v].view)'
    <2>1. /\ worker[v].pc = "move" <=> worker[v].calls # <<>>
          /\ worker[v].first \in Lanes!Present \union {Lanes!NoOne}
          /\ worker[v].pc \in {"look", "relabel"} =>
                     /\ worker[v].view \in Lanes!Labels
                     /\ worker[v].calls = <<>> /\ worker[v].first = Lanes!NoOne
                     /\ Lanes!In(worker[v].view, "normal") \union Lanes!In(worker[v].view, "recent")
                          \union Lanes!In(worker[v].view, "old") \subseteq Lanes!Present
      BY LanesInvSays
    <2>2. worker'[v].clean \/ Lanes!Promotes(v)' => LanesFit(worker[v].calls)'
      BY <1>11 DEF LanesFit, Lanes!Promotes
    <2>3. CASE v = "cycle"
      <3>1. worker'[v].clean => LanesKnown(worker[v].view)'
        <4>1. worker'[v].view = patched /\ (worker'[v].clean => worker["cycle"].clean)
          BY <1>9, <2>3
        <4> HIDE DEF patched
        <4> QED
          BY <1>4, <1>5, <4>1 DEF LanesKnown
      <3> QED
        BY <1>4, <1>5, <1>9, <1>11, <2>1, <2>2, <2>3, <3>1
    <2>4. CASE v # "cycle"
      <3>1. /\ worker'[v].pc = worker[v].pc /\ worker'[v].view = worker[v].view
            /\ worker'[v].pc \in {"look", "relabel"} => ~ worker'[v].clean
        BY <1>6, <1>10, <2>4
      <3> QED
        BY <1>4, <1>11, <2>1, <2>2, <3>1
    <2> QED
      BY <2>3, <2>4
  <1>14. \A v \in Lanes!Workers : Lanes!Moves(v)' => ~ worker'[v].clean
    BY <1>13, <1>11 DEF Lanes!Moves
  <1>15. Lanes!PairsMended'
    BY <1>2, <1>14 DEF Lanes!PairsMended
  <1>16. Lanes!FirstMended'
    BY <1>11 DEF Lanes!FirstMended, Lanes!Promotes
  <1> QED
    BY <1>12, <1>13, <1>15, <1>16, LanesInvHolds

\* What is behind on a step of the webhooks, or has failed, counts for nothing.
LEMMA LanesBehindStep ==
  ASSUME Lanes!Inv, UNCHANGED <<lane, queue>>, ~ settled', settled' \in BOOLEAN, changes' \in 0 .. Changes,
         pending' \in [Queued -> Lanes!Steps], \A t \in Queued : pending'[t] # "none" => pending[t] # "none",
         worker' = [v \in Lanes!Workers |-> worker'[v]],
         \A v \in Lanes!Workers :
           worker'[v] = Lanes!Idle \/ worker'[v] = Lanes!Overtaken(Lanes!Workers)[v]
  PROVE  Lanes!Inv'
  <1>1. worker \in [Lanes!Workers -> Lanes!Passes]
    BY LanesInvSays
  <1>2. ASSUME NEW v \in Lanes!Workers
        PROVE  /\ worker'[v] \in Lanes!Passes
               /\ worker'[v].pc # "idle" => ~ worker'[v].clean
               /\ \/ worker'[v] = Lanes!Idle
                  \/ /\ worker'[v].pc = worker[v].pc /\ worker'[v].calls = worker[v].calls
                     /\ worker'[v].first = worker[v].first /\ worker'[v].view = worker[v].view
                     /\ (worker'[v].alone => worker[v].alone)
    BY <1>1, LanesOvertaken, LanesIdle
  <1>3. /\ lane' = lane /\ queue' = queue
        /\ Lanes!Present' = Lanes!Present /\ Lanes!Normals' = Lanes!Normals
        /\ Lanes!Upgrades' = Lanes!Upgrades
    BY DEF Lanes!Present, Lanes!Normals, Lanes!Upgrades
  <1>4. Lanes!TypeOK'
    <2>1. worker' \in [Lanes!Workers -> Lanes!Passes]
      BY <1>2
    <2> QED
      BY <1>3, <2>1 DEF Lanes!Inv, Lanes!TypeOK
  <1>5. ASSUME NEW v \in Lanes!Workers
        PROVE  /\ worker'[v].clean \/ Lanes!Promotes(v)' => LanesFit(worker[v].calls)'
               /\ worker'[v].pc = "move" <=> worker'[v].calls # <<>>
               /\ worker'[v].first \in Lanes!Present' \union {Lanes!NoOne}
               /\ worker'[v].pc \in {"look", "relabel"} =>
                    /\ worker'[v].view \in Lanes!Labels
                    /\ worker'[v].calls = <<>> /\ worker'[v].first = Lanes!NoOne
                    /\ Lanes!In(worker'[v].view, "normal") \union Lanes!In(worker'[v].view, "recent")
                         \union Lanes!In(worker'[v].view, "old") \subseteq Lanes!Present'
                    /\ worker'[v].clean \/ (v = "hourly" /\ worker'[v].alone) => LanesKnown(worker[v].view)'
    <2>1. CASE worker'[v].calls = <<>> /\ worker'[v].first = Lanes!NoOne /\ worker'[v].pc = "idle"
      <3>1. LanesFit(worker[v].calls)'
        BY <2>1 DEF LanesFit
      <3> QED
        BY <2>1, <3>1
    <2>2. CASE /\ worker'[v].pc = worker[v].pc /\ worker'[v].calls = worker[v].calls
               /\ worker'[v].first = worker[v].first /\ worker'[v].view = worker[v].view
               /\ (worker'[v].alone => worker[v].alone)
      <3>1. /\ (LanesFit(worker[v].calls)' <=> LanesFit(worker[v].calls))
            /\ (LanesKnown(worker[v].view)' <=> LanesKnown(worker[v].view))
            /\ (Lanes!Promotes(v)' => Lanes!Promotes(v))
            /\ (worker'[v].clean => worker[v].calls = <<>>)
        <4>1. worker'[v].clean => worker[v].calls = <<>>
          BY <1>2, <2>2, LanesInvSays
        <4> QED
          BY <1>3, <2>2, <4>1 DEF LanesFit, LanesKnown, Lanes!Promotes
      <3>2. worker'[v].clean => LanesFit(worker[v].calls)'
        BY <2>2, <3>1 DEF LanesFit
      <3>3. worker'[v].pc \in {"look", "relabel"} => ~ worker'[v].clean
        BY <1>2
      <3>4. /\ Lanes!Promotes(v) => LanesFit(worker[v].calls)
            /\ worker[v].pc = "move" <=> worker[v].calls # <<>>
            /\ worker[v].first \in Lanes!Present \union {Lanes!NoOne}
            /\ worker[v].pc \in {"look", "relabel"} =>
                 /\ worker[v].view \in Lanes!Labels
                 /\ worker[v].calls = <<>> /\ worker[v].first = Lanes!NoOne
                 /\ Lanes!In(worker[v].view, "normal") \union Lanes!In(worker[v].view, "recent")
                      \union Lanes!In(worker[v].view, "old") \subseteq Lanes!Present
                 /\ (v = "hourly" /\ worker[v].alone) => LanesKnown(worker[v].view)
        BY LanesInvSays
      <3> QED
        BY <1>3, <2>2, <3>1, <3>2, <3>3, <3>4
    <2> QED
      BY <1>2, <2>1, <2>2, LanesIdle
  <1>6. Lanes!PairsMended'
    <2>1. \A v \in Lanes!Workers : Lanes!Moves(v)' => ~ worker'[v].clean
      BY <1>2 DEF Lanes!Moves
    <2> QED
      BY <2>1 DEF Lanes!PairsMended
  <1>7. Lanes!FirstMended'
    <2>1. ASSUME NEW v \in Lanes!Workers, Lanes!Moves(v)', Lanes!Promotes(v)'
          PROVE  /\ worker'[v].calls = worker[v].calls /\ worker'[v].first = worker[v].first
                 /\ Lanes!Moves(v) /\ Lanes!Promotes(v)
      BY <1>2, <2>1, LanesIdle DEF Lanes!Moves, Lanes!Promotes
    <2> QED
      BY <1>3, <2>1 DEF Lanes!Inv, Lanes!FirstMended, Lanes!Rivals, Lanes!Ahead
  <1> QED
    BY <1>4, <1>5, <1>6, <1>7, LanesInvHolds

LEMMA LanesMoveFailsStep ==
  ASSUME Lanes!LanesAssumption, Lanes!Inv, NEW w \in Lanes!Workers, Lanes!MoveFails(w)
  PROVE  Lanes!Inv'
  <1> DEFINE others == Lanes!Overtaken(Lanes!Workers)
  <1>1. /\ changes' = changes + 1 /\ changes < Changes /\ settled' = FALSE
        /\ UNCHANGED <<lane, queue, pending>> /\ worker' = [others EXCEPT ![w] = Lanes!Idle]
    BY DEF Lanes!MoveFails
  <1>2. changes \in 0 .. Changes /\ Changes \in Nat /\ pending \in [Queued -> Lanes!Steps]
    BY DEF Lanes!Inv, Lanes!TypeOK, Lanes!LanesAssumption
  <1>3. others = [v \in Lanes!Workers |-> others[v]]
    BY DEF Lanes!Overtaken
  <1>4. changes' \in 0 .. Changes
    BY <1>1, <1>2
  <1> HIDE DEF others
  <1>5. /\ worker' = [v \in Lanes!Workers |-> worker'[v]]
        /\ \A v \in Lanes!Workers : worker'[v] = Lanes!Idle \/ worker'[v] = others[v]
    BY <1>1, <1>3
  <1> QED
    BY <1>1, <1>2, <1>4, <1>5, LanesBehindStep DEF others

LEMMA LanesGrabStaysStep ==
  ASSUME Lanes!Inv, NEW n \in Queued, Lanes!GrabStays(n)
  PROVE  Lanes!Inv'
  <1> DEFINE others == Lanes!Overtaken(Lanes!Workers)
  <1>1. /\ changes' = changes /\ settled' = FALSE /\ UNCHANGED <<lane, queue>>
        /\ worker' = others /\ pending' = [pending EXCEPT ![n] = "none"]
    BY DEF Lanes!GrabStays
  <1>2. changes \in 0 .. Changes /\ pending \in [Queued -> Lanes!Steps]
    BY DEF Lanes!Inv, Lanes!TypeOK
  <1>3. others = [v \in Lanes!Workers |-> others[v]]
    BY DEF Lanes!Overtaken
  <1>4. pending' \in [Queued -> Lanes!Steps] /\ \A t \in Queued : pending'[t] # "none" => pending[t] # "none"
    BY <1>1, <1>2 DEF Lanes!Steps
  <1> HIDE DEF others
  <1> QED
    BY <1>1, <1>2, <1>3, <1>4, LanesBehindStep DEF others

\* A call mends what it puts right, and what it breaks a later one will mend.
LEMMA LanesMoveStep ==
  ASSUME Lanes!Inv, NEW w \in Lanes!Workers, Lanes!Move(w)
  PROVE  Lanes!Inv'
  <1> DEFINE calls == worker[w].calls
             head == Head(calls)
             tail == Tail(calls)
  <1>1. /\ worker \in [Lanes!Workers -> Lanes!Passes] /\ Lanes!Moves(w)
        /\ calls \in Seq(Lanes!Calls) /\ calls # <<>>
        /\ worker[w].pc = "move"
    <2>1. worker \in [Lanes!Workers -> Lanes!Passes] /\ worker[w].pc = "move"
      BY DEF Lanes!Inv, Lanes!TypeOK, Lanes!Move
    <2>2. Lanes!Moves(w) /\ calls # <<>>
      BY <2>1 DEF Lanes!Inv, Lanes!CallsFit, Lanes!Moves
    <2> QED
      BY <2>1, <2>2 DEF Lanes!Passes
  <1>2. /\ tail \in Seq(Lanes!Calls) /\ head = calls[1] /\ 1 \in DOMAIN calls
        /\ \A i \in DOMAIN tail : i + 1 \in DOMAIN calls /\ tail[i] = calls[i + 1]
        /\ (Len(calls) = 1 <=> tail = <<>>)
        /\ (Len(calls) > 1 <=> tail # <<>>)
    <2>1. tail \in Seq(Lanes!Calls) /\ Len(tail) = Len(calls) - 1 /\ Len(calls) \in Nat /\ Len(calls) > 0
      BY <1>1
    <2>2. /\ head = calls[1] /\ 1 \in DOMAIN calls
          /\ \A i \in DOMAIN tail : i + 1 \in DOMAIN calls /\ tail[i] = calls[i + 1]
      BY <1>1
    <2> HIDE DEF calls, head, tail
    <2>3. Len(tail) = 0 <=> tail = <<>>
      BY <2>1, EmptySeq
    <2> QED
      BY <2>1, <2>2, <2>3
  <1> HIDE DEF calls, head, tail
  <1>3. Lanes!Idle \in Lanes!Passes /\ Lanes!Idle.pc = "idle" /\ Lanes!Idle.calls = <<>> /\ Lanes!Idle.first = Lanes!NoOne
    BY DEF Lanes!Idle, Lanes!Passes
  <1>4. /\ worker'[w] = IF tail = <<>> THEN Lanes!Idle ELSE [worker[w] EXCEPT !.calls = tail]
        /\ \A v \in Lanes!Workers : v # w =>
             worker'[v] = [worker[v] EXCEPT !.alone = FALSE,
                             !.clean = @ /\ (worker[w].clean \/ worker[v].pc # "move")]
        /\ worker' = [v \in Lanes!Workers |-> worker'[v]]
        /\ queue' = Lanes!Moved(queue, head) /\ UNCHANGED <<lane, pending, changes>>
        /\ settled' = IF tail # <<>> THEN settled ELSE \A v \in Lanes!Workers : worker[v].clean
    <2>1. Len(worker[w].calls) = 1 <=> tail = <<>>
      BY <1>2 DEF calls
    <2>2. Len(worker[w].calls) > 1 <=> tail # <<>>
      BY <1>2 DEF calls
    <2>3. tail = Tail(worker[w].calls) /\ head = Head(worker[w].calls)
      BY DEF tail, head, calls
    <2> QED
      BY <2>1, <2>2, <2>3 DEF Lanes!Move
  <1>5. /\ worker'[w] \in Lanes!Passes /\ worker'[w].calls = tail
        /\ worker'[w].pc = "move" <=> tail # <<>>
        /\ worker'[w].first \in {worker[w].first, Lanes!NoOne} /\ worker'[w].pc \in {"move", "idle"}
        /\ tail # <<>> => /\ worker'[w].clean = worker[w].clean /\ worker'[w].alone = worker[w].alone
                          /\ worker'[w].first = worker[w].first
    <2>1. CASE tail = <<>>
      BY <1>3, <1>4, <2>1
    <2>2. CASE tail # <<>>
      BY <1>1, <1>2, <1>4, <2>2 DEF Lanes!Passes
    <2> QED
      BY <2>1, <2>2
  <1>6. ASSUME NEW v \in Lanes!Workers, v # w
        PROVE  /\ worker'[v] \in Lanes!Passes /\ worker'[v].pc = worker[v].pc
               /\ worker'[v].calls = worker[v].calls
               /\ worker'[v].first = worker[v].first /\ worker'[v].alone = FALSE
               /\ worker'[v].view = worker[v].view
               /\ worker'[v].clean = (worker[v].clean /\ (worker[w].clean \/ worker[v].pc # "move"))
    <2>1. worker'[v] = [worker[v] EXCEPT !.alone = FALSE,
                             !.clean = @ /\ (worker[w].clean \/ worker[v].pc # "move")]
      BY <1>4, <1>6
    <2>2. worker[v] \in Lanes!Passes
      BY <1>1
    <2> QED
      BY <2>1, <2>2 DEF Lanes!Passes
  <1>7. /\ lane' = lane /\ pending' = pending /\ changes' = changes
        /\ Lanes!Present' = Lanes!Present /\ Lanes!Normals' = Lanes!Normals
        /\ Lanes!Upgrades' = Lanes!Upgrades
    BY <1>4 DEF Lanes!Present, Lanes!Normals, Lanes!Upgrades
  <1>8. Lanes!TypeOK'
    <2>1. worker' \in [Lanes!Workers -> Lanes!Passes]
      BY <1>4, <1>5, <1>6
    <2>2. settled' \in BOOLEAN
      BY <1>4 DEF Lanes!Inv, Lanes!TypeOK
    <2>3. /\ queue' \subseteq Lanes!Present \X Lanes!Present
          /\ \A t \in Lanes!Present : <<t, t>> \notin queue'
          /\ \A t, u \in Lanes!Present : t # u => (<<t, u>> \in queue' <=> <<u, t>> \notin queue')
          /\ \A t, u, v \in Lanes!Present : <<t, u>> \in queue' /\ <<u, v>> \in queue' => <<t, v>> \in queue'
      BY <1>4, LanesMovedOrder DEF Lanes!Inv
    <2> QED
      BY <1>7, <2>1, <2>2, <2>3 DEF Lanes!Inv, Lanes!TypeOK
  <1>9. ASSUME NEW t \in Lanes!Present, NEW u \in Lanes!Present
        PROVE  <<t, u>> \in queue' <=> \/ Lanes!Ahead(t, u) /\ ~ Lanes!Puts(head, u, t)
                                       \/ Lanes!Ahead(u, t) /\ Lanes!Puts(head, t, u)
    BY <1>4, LanesMovedPairs DEF Lanes!Present, Lanes!Ahead
  <1>10. ASSUME NEW v \in Lanes!Workers
         PROVE  /\ worker'[v].clean \/ Lanes!Promotes(v)' => LanesFit(worker[v].calls)'
                /\ worker'[v].pc = "move" <=> worker'[v].calls # <<>>
                /\ worker'[v].first \in Lanes!Present' \union {Lanes!NoOne}
                /\ worker'[v].pc \in {"look", "relabel"} =>
                     /\ worker'[v].view \in Lanes!Labels
                     /\ worker'[v].calls = <<>> /\ worker'[v].first = Lanes!NoOne
                     /\ Lanes!In(worker'[v].view, "normal") \union Lanes!In(worker'[v].view, "recent")
                          \union Lanes!In(worker'[v].view, "old") \subseteq Lanes!Present'
                     /\ worker'[v].clean \/ (v = "hourly" /\ worker'[v].alone) => LanesKnown(worker[v].view)'
    <2>1. /\ worker[v].clean \/ Lanes!Promotes(v) => LanesFit(worker[v].calls)
          /\ worker[v].pc = "move" <=> worker[v].calls # <<>>
          /\ worker[v].first \in Lanes!Present \union {Lanes!NoOne}
          /\ worker[v].pc \in {"look", "relabel"} =>
               /\ worker[v].view \in Lanes!Labels
               /\ worker[v].calls = <<>> /\ worker[v].first = Lanes!NoOne
               /\ Lanes!In(worker[v].view, "normal") \union Lanes!In(worker[v].view, "recent")
                    \union Lanes!In(worker[v].view, "old") \subseteq Lanes!Present
               /\ worker[v].clean \/ (v = "hourly" /\ worker[v].alone) => LanesKnown(worker[v].view)
      BY LanesInvSays
    <2>2. CASE v = w
      <3>1. worker'[v].clean \/ Lanes!Promotes(v)' => LanesFit(worker[v].calls)'
        <4>1. CASE tail = <<>>
          BY <1>5, <2>2, <4>1 DEF LanesFit
        <4>2. CASE tail # <<>>
          <5>1. worker'[v].clean \/ Lanes!Promotes(v)' => LanesFit(calls)
            BY <1>5, <2>1, <2>2, <4>2 DEF Lanes!Promotes, calls
          <5>2. LanesFit(calls) => LanesFit(tail)
            BY <1>2 DEF LanesFit
          <5> QED
            BY <1>5, <1>7, <2>2, <5>1, <5>2 DEF LanesFit
        <4> QED
          BY <4>1, <4>2
      <3>2. worker'[v].pc \notin {"look", "relabel"}
        BY <1>1, <1>3, <1>5, <2>2
      <3> QED
        BY <1>5, <1>7, <2>1, <2>2, <3>1, <3>2
    <2>3. CASE v # w
      <3>1. /\ worker'[v].pc = worker[v].pc /\ worker'[v].calls = worker[v].calls
            /\ worker'[v].first = worker[v].first /\ worker'[v].view = worker[v].view
            /\ ~ worker'[v].alone /\ (worker'[v].clean => worker[v].clean)
        BY <1>6, <2>3
      <3>2. /\ (LanesFit(worker[v].calls)' <=> LanesFit(worker[v].calls))
            /\ (LanesKnown(worker[v].view)' <=> LanesKnown(worker[v].view))
            /\ ~ Lanes!Promotes(v)'
        BY <1>7, <3>1 DEF LanesFit, LanesKnown, Lanes!Promotes
      <3> QED
        BY <1>7, <2>1, <3>1, <3>2
    <2> QED
      BY <2>2, <2>3
  <1>11. Lanes!PairsMended'
    <2>1. ASSUME NEW v \in Lanes!Workers, Lanes!Moves(v)', worker'[v].clean,
                 NEW t \in Lanes!Present, NEW u \in Lanes!Present, Lanes!Rank[lane[t]] > Lanes!Rank[lane[u]]
          PROVE  Lanes!Minds(worker'[v].calls, t, u)
      <3>1. CASE v = w
        <4>1. Lanes!Minds(calls, t, u)
          BY <1>1, <1>5, <2>1, <3>1 DEF Lanes!Inv, Lanes!PairsMended, Lanes!Moves, calls
        <4>2. Lanes!Minds(tail, t, u)
          BY <1>1, <4>1, LanesTailMends DEF tail
        <4> QED
          BY <1>5, <3>1, <4>2
      <3>2. CASE v # w
        BY <1>6, <2>1, <3>2 DEF Lanes!Inv, Lanes!PairsMended, Lanes!Moves
      <3> QED
        BY <3>1, <3>2
    <2>2. ASSUME \A v \in Lanes!Workers : Lanes!Moves(v)' => worker'[v].clean,
                 settled' \/ \E v \in Lanes!Workers : Lanes!Moves(v)',
                 NEW t \in Lanes!Present, NEW u \in Lanes!Present, <<t, u>> \in queue',
                 Lanes!Rank[lane[t]] > Lanes!Rank[lane[u]]
          PROVE  Lanes!Waits(t, u) \/ \E v \in Lanes!Workers : Lanes!Mends(worker'[v].calls, t, u)
      <3>1. worker[w].clean
        <4>1. CASE tail # <<>>
          BY <1>5, <2>2, <4>1 DEF Lanes!Moves
        <4>2. CASE tail = <<>> /\ settled'
          BY <1>4, <4>2
        <4>3. CASE tail = <<>> /\ \E v \in Lanes!Workers : Lanes!Moves(v)'
          <5>1. PICK v \in Lanes!Workers : v # w /\ Lanes!Moves(v)'
            BY <1>5, <4>3 DEF Lanes!Moves
          <5>2. worker'[v].clean /\ worker[v].pc = "move"
            BY <1>6, <2>2, <5>1 DEF Lanes!Moves
          <5> QED
            BY <1>6, <5>1, <5>2
        <4> QED
          BY <2>2, <4>1, <4>2, <4>3
      <3>2. \A v \in Lanes!Workers : Lanes!Moves(v) => worker[v].clean
        BY <1>6, <2>2, <3>1 DEF Lanes!Moves
      <3>3. /\ \A x, y \in Lanes!Present : Lanes!Rank[lane[x]] > Lanes!Rank[lane[y]] => Lanes!Minds(calls, x, y)
            /\ \A x, y \in Lanes!Present : Lanes!Inverted(x, y) =>
                 Lanes!Waits(x, y) \/ \E v \in Lanes!Workers : Lanes!Mends(worker[v].calls, x, y)
        BY <1>1, <3>1, <3>2 DEF Lanes!Inv, Lanes!PairsMended, calls
      <3>4. \A v \in Lanes!Workers : v # w => worker'[v].calls = worker[v].calls
        BY <1>6
      <3>5. CASE Lanes!Puts(head, t, u)
        <4>1. Lanes!Mends(tail, t, u)
          BY <1>1, <2>2, <3>3, <3>5, LanesTailMends DEF head, tail
        <4> QED
          BY <1>5, <4>1
      <3>6. CASE ~ Lanes!Puts(head, t, u)
        <4>1. Lanes!Inverted(t, u) /\ ~ Lanes!Puts(head, u, t)
          BY <1>9, <2>2, <3>6 DEF Lanes!Inverted
        <4>2. CASE Lanes!Waits(t, u)
          BY <4>2
        <4>3. ASSUME NEW v \in Lanes!Workers, Lanes!Mends(worker[v].calls, t, u)
              PROVE  Lanes!Mends(worker'[v].calls, t, u)
          <5>1. CASE v = w
            <6>1. Lanes!Mends(tail, t, u)
              BY <1>1, <4>1, <4>3, <5>1, LanesTailMends DEF head, tail, calls
            <6> QED
              BY <1>5, <5>1, <6>1
          <5>2. CASE v # w
            BY <3>4, <4>3, <5>2
          <5> QED
            BY <5>1, <5>2
        <4> QED
          BY <3>3, <4>1, <4>2, <4>3
      <3> QED
        BY <3>5, <3>6
    <2> QED
      BY <1>7, <2>1, <2>2 DEF Lanes!PairsMended, Lanes!Inverted, Lanes!Ahead, Lanes!Waits
  <1>12. Lanes!FirstMended'
    <2>1. ASSUME NEW v \in Lanes!Workers, Lanes!Moves(v)', worker'[v].alone, worker'[v].first # Lanes!NoOne,
                 NEW t \in Lanes!Present, Lanes!Rivals(t, worker'[v].first)
          PROVE  /\ Lanes!Minds(worker'[v].calls, t, worker'[v].first)
                 /\ <<t, worker'[v].first>> \in queue' => Lanes!Mends(worker'[v].calls, t, worker'[v].first)
      <3>1. v = w /\ tail # <<>>
        BY <1>5, <1>6, <2>1 DEF Lanes!Moves
      <3> DEFINE first == worker[w].first
      <3>2. worker'[v].first = first /\ worker'[v].calls = tail /\ worker[w].alone
        BY <1>5, <2>1, <3>1
      <3>3. first # Lanes!NoOne /\ Lanes!Rivals(t, first) /\ first \in Lanes!Present
        BY <2>1, <3>2 DEF Lanes!Inv, Lanes!CallsFit
      <3>4. Lanes!Minds(calls, t, first) /\ (Lanes!Ahead(t, first) => Lanes!Mends(calls, t, first))
        BY <1>1, <3>2, <3>3 DEF Lanes!Inv, Lanes!FirstMended, Lanes!Promotes, calls
      <3> HIDE DEF first
      <3>5. /\ Lanes!Minds(tail, t, first) /\ (Lanes!Puts(head, t, first) => Lanes!Mends(tail, t, first))
            /\ Lanes!Mends(calls, t, first) => Lanes!Puts(head, first, t) \/ Lanes!Mends(tail, t, first)
        BY <1>1, <3>4, LanesTailMends DEF head, tail
      <3>6. <<t, first>> \in queue' => Lanes!Mends(tail, t, first)
        BY <1>9, <3>3, <3>4, <3>5
      <3> QED
        BY <3>2, <3>5, <3>6
    <2> QED
      BY <1>7, <2>1 DEF Lanes!FirstMended, Lanes!Rivals, Lanes!Ahead, Lanes!Promotes
  <1> QED
    BY <1>8, <1>10, <1>11, <1>12, LanesInvHolds

\* A grab appends its torrent, which has the label of a new request and waits
\* for its webhook.
LEMMA LanesGrabStep ==
  ASSUME Lanes!LanesAssumption, Lanes!Inv, NEW n \in Queued, Lanes!Grab(n)
  PROVE  Lanes!Inv'
  <1>1. /\ worker \in [Lanes!Workers -> Lanes!Passes] /\ lane \in Lanes!Labels /\ lane[n] = "absent"
        /\ changes \in 0 .. Changes /\ changes < Changes /\ n \notin Lanes!Present
        /\ queue' = queue \union (Lanes!Present \X {n})
        /\ settled' = settled /\ changes' = changes + 1 /\ worker' = worker
    BY DEF Lanes!Inv, Lanes!TypeOK, Lanes!Grab, Lanes!Present
  <1>2. /\ pending' \in [Queued -> Lanes!Steps] /\ pending'[n] # "none"
        /\ \A t \in Queued : t # n => pending'[t] = pending[t]
    <2>1. pending \in [Queued -> Lanes!Steps]
      BY DEF Lanes!Inv, Lanes!TypeOK
    <2>2. PICK step \in {"top", "label"} : pending' = [pending EXCEPT ![n] = step]
      BY DEF Lanes!Grab
    <2> QED
      BY <2>1, <2>2 DEF Lanes!Steps
  <1>3. /\ lane'[n] = "normal" /\ \A t \in Queued : t # n => lane'[t] = lane[t]
        /\ lane' \in Lanes!Labels
    <2>1. lane' = [lane EXCEPT ![n] = "normal"]
      BY DEF Lanes!Grab
    <2> QED
      BY <1>1, <2>1 DEF Lanes!Labels, Lanes!Lanes
  <1>4. /\ Lanes!Present' = Lanes!Present \union {n}
        /\ Lanes!Normals' = Lanes!Normals \union {n}
        /\ Lanes!Upgrades' = Lanes!Upgrades
        /\ n \notin Lanes!Normals /\ n \notin Lanes!Upgrades
    BY <1>1, <1>3 DEF Lanes!Present, Lanes!Normals, Lanes!Upgrades
  <1>5. \A t, u \in Lanes!Present' : <<t, u>> \in queue' <=> <<t, u>> \in queue \/ (t \in Lanes!Present /\ u = n)
    BY <1>1, <1>4
  <1>6. \A t \in Lanes!Present : <<t, n>> \notin queue /\ <<n, t>> \notin queue /\ t # n
    BY <1>1 DEF Lanes!Inv, Lanes!TypeOK
  <1>7. <<n, n>> \notin queue
    BY <1>1 DEF Lanes!Inv, Lanes!TypeOK
  <1>8. Lanes!TypeOK'
    <2>1. worker' \in [Lanes!Workers -> Lanes!Passes]
      BY <1>1
    <2>2. changes' \in 0 .. Changes
      BY <1>1 DEF Lanes!LanesAssumption
    <2>3. \A t \in Lanes!Present' : <<t, t>> \notin queue'
      BY <1>1, <1>4, <1>5, <1>6, <1>7 DEF Lanes!Inv, Lanes!TypeOK
    <2>4. \A t, u \in Lanes!Present' : t # u => (<<t, u>> \in queue' <=> <<u, t>> \notin queue')
      BY <1>4, <1>5, <1>6 DEF Lanes!Inv, Lanes!TypeOK
    <2>5. \A t, u, v \in Lanes!Present' : <<t, u>> \in queue' /\ <<u, v>> \in queue' => <<t, v>> \in queue'
      BY <1>1, <1>4, <1>5, <1>6, <1>7 DEF Lanes!Inv, Lanes!TypeOK
    <2>6. queue' \subseteq Lanes!Present' \X Lanes!Present'
      BY <1>1, <1>4 DEF Lanes!Inv, Lanes!TypeOK
    <2>7. \A t \in Queued : pending'[t] # "none" => t \in Lanes!Present'
      BY <1>2, <1>4 DEF Lanes!Inv, Lanes!TypeOK
    <2>8. settled' \in BOOLEAN
      BY <1>1 DEF Lanes!Inv, Lanes!TypeOK
    <2> QED
      BY <1>2, <1>3, <2>1, <2>2, <2>3, <2>4, <2>5, <2>6, <2>7, <2>8 DEF Lanes!TypeOK
  <1>9. ASSUME NEW v \in Lanes!Workers
        PROVE  /\ worker'[v].clean \/ Lanes!Promotes(v)' => LanesFit(worker[v].calls)'
               /\ worker'[v].pc = "move" <=> worker'[v].calls # <<>>
               /\ worker'[v].first \in Lanes!Present' \union {Lanes!NoOne}
               /\ worker'[v].pc \in {"look", "relabel"} =>
                    /\ worker'[v].view \in Lanes!Labels
                    /\ worker'[v].calls = <<>> /\ worker'[v].first = Lanes!NoOne
                    /\ Lanes!In(worker'[v].view, "normal") \union Lanes!In(worker'[v].view, "recent")
                         \union Lanes!In(worker'[v].view, "old") \subseteq Lanes!Present'
                    /\ worker'[v].clean \/ (v = "hourly" /\ worker'[v].alone) => LanesKnown(worker[v].view)'
    <2>1. /\ worker[v].clean \/ Lanes!Promotes(v) => LanesFit(worker[v].calls)
          /\ worker[v].pc = "move" <=> worker[v].calls # <<>>
          /\ worker[v].first \in Lanes!Present \union {Lanes!NoOne}
          /\ worker[v].pc \in {"look", "relabel"} =>
               /\ worker[v].view \in Lanes!Labels
               /\ worker[v].calls = <<>> /\ worker[v].first = Lanes!NoOne
               /\ Lanes!In(worker[v].view, "normal") \union Lanes!In(worker[v].view, "recent")
                    \union Lanes!In(worker[v].view, "old") \subseteq Lanes!Present
               /\ worker[v].clean \/ (v = "hourly" /\ worker[v].alone) => LanesKnown(worker[v].view)
      BY LanesInvSays
    <2>2. LanesFit(worker[v].calls) => LanesFit(worker[v].calls)'
      BY <1>1, <1>4 DEF LanesFit
    <2>3. Lanes!Promotes(v)' <=> Lanes!Promotes(v)
      BY <1>1 DEF Lanes!Promotes
    <2>4. ASSUME worker[v].pc \in {"look", "relabel"}, LanesKnown(worker[v].view)
          PROVE  LanesKnown(worker[v].view)'
      <3> DEFINE snap == worker[v].view
      <3>1. snap \in Lanes!Labels /\ snap[n] = "absent"
        BY <1>1, <2>1, <2>4 DEF Lanes!In, Lanes!Labels, Lanes!Lanes
      <3>2. \A t \in Lanes!Present : snap[t] = lane[t] \/ (snap[t] = "absent" /\ lane[t] = "normal")
        BY <2>4 DEF LanesKnown
      <3> HIDE DEF snap
      <3>3. \A t \in Lanes!Present' : snap[t] = lane'[t] \/ (snap[t] = "absent" /\ lane'[t] = "normal")
        BY <1>3, <1>4, <1>6, <3>1, <3>2 DEF Lanes!Present
      <3> QED
        BY <1>1, <3>3 DEF LanesKnown, snap
    <2> QED
      BY <1>1, <1>4, <2>1, <2>2, <2>3, <2>4
  <1>10. ASSUME NEW v \in Lanes!Workers, LanesFit(worker[v].calls), NEW t, t \notin Lanes!Normals, t # n
         PROVE  \A i \in DOMAIN worker[v].calls : ~ Lanes!Puts(worker[v].calls[i], t, n)
    BY <1>4, <1>10 DEF LanesFit, Lanes!Puts
  <1>11. Lanes!PairsMended'
    <2>1. ASSUME NEW v \in Lanes!Workers, Lanes!Moves(v)', worker'[v].clean,
                 NEW t \in Lanes!Present', NEW u \in Lanes!Present',
                 Lanes!Rank[lane'[t]] > Lanes!Rank[lane'[u]]
          PROVE  Lanes!Minds(worker'[v].calls, t, u)
      <3>1. Lanes!Moves(v) /\ worker[v].clean /\ LanesFit(worker[v].calls)
        BY <1>1, <2>1, LanesInvSays DEF Lanes!Moves
      <3>2. CASE t = n
        <4>1. Lanes!Rank[lane'[t]] = 1
          BY <1>3, <3>2, LanesRanks
        <4>2. Lanes!Rank[lane'[u]] \in {1, 2, 3}
          <5>1. lane'[u] \in Lanes!Lanes
            BY <1>3 DEF Lanes!Present, Lanes!Labels
          <5> QED
            BY <5>1, LanesRanks DEF Lanes!Lanes
        <4> QED
          BY <2>1, <4>1, <4>2
      <3>3. CASE u = n /\ t # n
        <4>1. t \in Lanes!Present /\ lane'[t] = lane[t]
          BY <1>3, <1>4, <3>3 DEF Lanes!Present
        <4>2. t \notin Lanes!Normals
          BY <1>3, <2>1, <3>3, <4>1, LanesRanks DEF Lanes!Normals
        <4>3. \A i \in DOMAIN worker[v].calls : ~ Lanes!Puts(worker[v].calls[i], t, n)
          BY <1>10, <3>1, <3>3, <4>2
        <4> QED
          BY <1>1, <3>3, <4>3 DEF Lanes!Minds
      <3>4. CASE t # n /\ u # n
        <4>1. t \in Lanes!Present /\ u \in Lanes!Present /\ lane'[t] = lane[t] /\ lane'[u] = lane[u]
          BY <1>3, <1>4, <3>4 DEF Lanes!Present
        <4> QED
          BY <1>1, <2>1, <3>1, <4>1 DEF Lanes!Inv, Lanes!PairsMended
      <3> QED
        BY <3>2, <3>3, <3>4
    <2>2. ASSUME \A v \in Lanes!Workers : Lanes!Moves(v)' => worker'[v].clean,
                 settled' \/ \E v \in Lanes!Workers : Lanes!Moves(v)',
                 NEW t \in Lanes!Present', NEW u \in Lanes!Present', <<t, u>> \in queue',
                 Lanes!Rank[lane'[t]] > Lanes!Rank[lane'[u]]
          PROVE  Lanes!Waits(t, u)' \/ \E v \in Lanes!Workers : Lanes!Mends(worker'[v].calls, t, u)
      <3>1. CASE u = n
        BY <1>2, <1>3, <3>1 DEF Lanes!Waits
      <3>2. CASE u # n
        <4>1. t \in Lanes!Present /\ u \in Lanes!Present /\ <<t, u>> \in queue
              /\ lane'[t] = lane[t] /\ lane'[u] = lane[u]
          BY <1>1, <1>3, <1>4, <1>5, <2>2, <3>2 DEF Lanes!Present, Lanes!Inv, Lanes!TypeOK
        <4>2. /\ \A v \in Lanes!Workers : Lanes!Moves(v) => worker[v].clean
              /\ settled \/ \E v \in Lanes!Workers : Lanes!Moves(v)
          BY <1>1, <2>2 DEF Lanes!Moves
        <4>3. Lanes!Waits(t, u) \/ \E v \in Lanes!Workers : Lanes!Mends(worker[v].calls, t, u)
          BY <2>2, <4>1, <4>2 DEF Lanes!Inv, Lanes!PairsMended, Lanes!Inverted, Lanes!Ahead
        <4>4. Lanes!Waits(t, u) => Lanes!Waits(t, u)'
          <5>1. pending'[t] = pending[t] /\ pending'[u] = pending[u]
            BY <1>2, <1>6, <4>1 DEF Lanes!Present
          <5> QED
            BY <4>1, <5>1 DEF Lanes!Waits
        <4> QED
          BY <1>1, <4>3, <4>4
      <3> QED
        BY <3>1, <3>2
    <2> QED
      BY <2>1, <2>2 DEF Lanes!PairsMended, Lanes!Inverted, Lanes!Ahead
  <1>12. Lanes!FirstMended'
    <2> DEFINE Later(t, u) == t # u /\ ({t, u} \subseteq Lanes!Normals' \/ {t, u} \subseteq Lanes!Upgrades')
    <2>1. ASSUME NEW v \in Lanes!Workers, Lanes!Moves(v), Lanes!Promotes(v),
                 NEW t \in Lanes!Present', Later(t, worker[v].first)
          PROVE  /\ Lanes!Minds(worker[v].calls, t, worker[v].first)
                 /\ <<t, worker[v].first>> \in queue' => Lanes!Mends(worker[v].calls, t, worker[v].first)
      <3> DEFINE first == worker[v].first
      <3>1. first \in Lanes!Present /\ first # n /\ LanesFit(worker[v].calls)
        BY <1>6, <2>1, LanesInvSays DEF Lanes!Promotes
      <3>2. CASE t = n
        <4>1. <<n, first>> \notin queue'
          BY <1>1, <1>6, <3>1
        <4>2. first \notin Lanes!Upgrades
          <5>1. Lanes!Normals \intersect Lanes!Upgrades = {}
            BY DEF Lanes!Normals, Lanes!Upgrades
          <5>2. first \in Lanes!Normals
            BY <1>4, <2>1, <3>1, <3>2
          <5> QED
            BY <5>1, <5>2
        <4>3. \A i \in DOMAIN worker[v].calls : ~ Lanes!Puts(worker[v].calls[i], n, first)
          BY <1>4, <3>1, <4>2 DEF LanesFit, Lanes!Puts
        <4> QED
          BY <3>2, <4>1, <4>3 DEF Lanes!Minds
      <3>3. CASE t # n
        <4>1. t \in Lanes!Present /\ Lanes!Rivals(t, first) /\ (<<t, first>> \in queue' => <<t, first>> \in queue)
          BY <1>4, <1>5, <2>1, <3>1, <3>3 DEF Lanes!Rivals
        <4> QED
          BY <2>1, <3>1, <4>1 DEF Lanes!Inv, Lanes!FirstMended, Lanes!Ahead
      <3> QED
        BY <3>2, <3>3
    <2> QED
      BY <1>1, <2>1 DEF Lanes!FirstMended, Lanes!Ahead, Lanes!Rivals, Lanes!Moves, Lanes!Promotes
  <1> QED
    BY <1>8, <1>9, <1>11, <1>12, LanesInvHolds

\* A webhook labels its grab, or finds it labelled.
LEMMA LanesLabelStep ==
  ASSUME Lanes!Inv, NEW n \in Queued, Lanes!Label(n)
  PROVE  Lanes!Inv'
  <1>1. /\ worker \in [Lanes!Workers -> Lanes!Passes] /\ lane \in Lanes!Labels /\ Lanes!TypeOK
        /\ pending \in [Queued -> Lanes!Steps] /\ pending[n] = "label" /\ n \in Lanes!Present
        /\ queue' = queue /\ settled' = settled /\ changes' = changes
    BY DEF Lanes!Inv, Lanes!TypeOK, Lanes!Label
  <1>2. CASE /\ lane[n] = "old" /\ pending' = [pending EXCEPT ![n] = "none"]
             /\ lane' = lane /\ worker' = worker
    <2>1. /\ pending' \in [Queued -> Lanes!Steps] /\ pending'[n] = "none"
          /\ \A t \in Queued : t # n => pending'[t] = pending[t]
      BY <1>1, <1>2 DEF Lanes!Steps
    <2>2. Lanes!Present' = Lanes!Present /\ Lanes!Normals' = Lanes!Normals /\ Lanes!Upgrades' = Lanes!Upgrades
      BY <1>2 DEF Lanes!Present, Lanes!Normals, Lanes!Upgrades
    <2>3. Lanes!TypeOK'
      BY <1>1, <1>2, <2>1, <2>2 DEF Lanes!TypeOK
    <2>4. Lanes!CallsFit' /\ Lanes!ViewFits' /\ Lanes!FirstMended'
      BY <1>1, <1>2, <2>2 DEF Lanes!Inv, Lanes!CallsFit, Lanes!ViewFits, Lanes!FirstMended, Lanes!Moves,
         Lanes!Promotes, Lanes!Rivals, Lanes!Ahead
    <2>5. ASSUME NEW t \in Lanes!Present, NEW u \in Lanes!Present, Lanes!Waits(t, u)
          PROVE  Lanes!Waits(t, u)'
      <3>1. t \in Queued /\ u \in Queued
        BY DEF Lanes!Present
      <3> QED
        BY <1>1, <1>2, <2>1, <2>5, <3>1 DEF Lanes!Waits
    <2>6. Lanes!PairsMended'
      BY <1>1, <1>2, <2>2, <2>5 DEF Lanes!Inv, Lanes!PairsMended, Lanes!Moves, Lanes!Inverted, Lanes!Ahead
    <2> QED
      BY <2>3, <2>4, <2>6 DEF Lanes!Inv
  <1>3. CASE /\ lane[n] # "old" /\ pending' = [pending EXCEPT ![n] = "bottom"]
             /\ lane' = [lane EXCEPT ![n] = "old"] /\ worker' = Lanes!Surprised(Lanes!Workers)
    <2>1. /\ pending' \in [Queued -> Lanes!Steps] /\ pending'[n] = "bottom"
          /\ \A t \in Queued : t # n => pending'[t] = pending[t]
      BY <1>1, <1>3 DEF Lanes!Steps
    <2>2. /\ lane'[n] = "old" /\ \A t \in Queued : t # n => lane'[t] = lane[t]
          /\ lane' \in Lanes!Labels
      BY <1>1, <1>3 DEF Lanes!Labels, Lanes!Lanes
    <2>3. Lanes!Present' = Lanes!Present
      BY <1>1, <2>2 DEF Lanes!Present
    <2>4. ASSUME NEW v \in Lanes!Workers
          PROVE  /\ worker'[v] \in Lanes!Passes /\ worker'[v].pc = worker[v].pc
                 /\ worker'[v].calls = worker[v].calls
                 /\ worker'[v].first = worker[v].first /\ worker'[v].view = worker[v].view
                 /\ worker[v].pc # "idle" => ~ worker'[v].clean
                 /\ ~ worker'[v].alone
      BY <1>1, <1>3, LanesOvertaken
    <2>5. Lanes!TypeOK'
      <3>1. worker' = [v \in Lanes!Workers |-> worker'[v]]
        BY <1>3 DEF Lanes!Surprised
      <3>2. worker' \in [Lanes!Workers -> Lanes!Passes]
        BY <2>4, <3>1
      <3>3. \A t \in Queued : pending'[t] # "none" => t \in Lanes!Present'
        BY <1>1, <2>1, <2>3 DEF Lanes!TypeOK
      <3>4. /\ queue' \subseteq Lanes!Present' \X Lanes!Present'
            /\ \A u \in Lanes!Present' : <<u, u>> \notin queue'
            /\ \A u, v \in Lanes!Present' : u # v => (<<u, v>> \in queue' <=> <<v, u>> \notin queue')
            /\ \A u, v, x \in Lanes!Present' : <<u, v>> \in queue' /\ <<v, x>> \in queue' => <<u, x>> \in queue'
        BY <1>1, <2>3 DEF Lanes!TypeOK
      <3>5. settled' \in BOOLEAN /\ changes' \in 0 .. Changes
        BY <1>1 DEF Lanes!TypeOK
      <3> QED
        BY <2>1, <2>2, <3>2, <3>3, <3>4, <3>5 DEF Lanes!TypeOK
    <2>6. ASSUME NEW v \in Lanes!Workers
          PROVE  /\ worker'[v].clean \/ Lanes!Promotes(v)' => LanesFit(worker[v].calls)'
                 /\ worker'[v].pc = "move" <=> worker'[v].calls # <<>>
                 /\ worker'[v].first \in Lanes!Present' \union {Lanes!NoOne}
                 /\ worker'[v].pc \in {"look", "relabel"} =>
                      /\ worker'[v].view \in Lanes!Labels
                      /\ worker'[v].calls = <<>> /\ worker'[v].first = Lanes!NoOne
                      /\ Lanes!In(worker'[v].view, "normal") \union Lanes!In(worker'[v].view, "recent")
                           \union Lanes!In(worker'[v].view, "old") \subseteq Lanes!Present'
                      /\ worker'[v].clean \/ (v = "hourly" /\ worker'[v].alone) => LanesKnown(worker[v].view)'
      <3>1. /\ worker[v].pc = "move" <=> worker[v].calls # <<>>
            /\ worker[v].first \in Lanes!Present \union {Lanes!NoOne}
            /\ worker[v].pc \in {"look", "relabel"} =>
                 /\ worker[v].view \in Lanes!Labels
                 /\ worker[v].calls = <<>> /\ worker[v].first = Lanes!NoOne
                 /\ Lanes!In(worker[v].view, "normal") \union Lanes!In(worker[v].view, "recent")
                      \union Lanes!In(worker[v].view, "old") \subseteq Lanes!Present
        BY LanesInvSays
      <3>2. worker'[v].clean => worker'[v].calls = <<>>
        BY <2>4, <3>1
      <3>3. worker'[v].clean \/ Lanes!Promotes(v)' => LanesFit(worker[v].calls)'
        BY <2>4, <3>2 DEF LanesFit, Lanes!Promotes
      <3> QED
        BY <2>3, <2>4, <3>1, <3>3
    <2>7. Lanes!PairsMended'
      <3>1. \A v \in Lanes!Workers : (Lanes!Moves(v)' <=> Lanes!Moves(v)) /\ (Lanes!Moves(v) => ~ worker'[v].clean)
        BY <2>4 DEF Lanes!Moves
      <3>2. ASSUME \A v \in Lanes!Workers : ~ Lanes!Moves(v), settled,
                   NEW t \in Lanes!Present, NEW u \in Lanes!Present, <<t, u>> \in queue,
                   Lanes!Rank[lane'[t]] > Lanes!Rank[lane'[u]]
            PROVE  Lanes!Waits(t, u)' \/ \E v \in Lanes!Workers : Lanes!Mends(worker'[v].calls, t, u)
        <4>1. CASE t = n
          BY <2>1, <4>1 DEF Lanes!Waits
        <4>2. CASE u = n
          <5>1. Lanes!Rank[lane'[u]] = 3
            BY <2>2, <4>2, LanesRanks
          <5>2. lane'[t] \in Lanes!Lanes
            BY <2>2, <2>3 DEF Lanes!Present, Lanes!Labels
          <5>3. Lanes!Rank[lane'[t]] \in {1, 2, 3}
            BY <5>2, LanesRanks DEF Lanes!Lanes
          <5> QED
            BY <3>2, <5>1, <5>3
        <4>3. CASE t # n /\ u # n
          <5>1. t \in Queued /\ u \in Queued
            BY DEF Lanes!Present
          <5>2. lane'[t] = lane[t] /\ lane'[u] = lane[u] /\ pending'[t] = pending[t] /\ pending'[u] = pending[u]
            BY <2>1, <2>2, <4>3, <5>1
          <5>3. Lanes!Waits(t, u) \/ \E v \in Lanes!Workers : Lanes!Mends(worker[v].calls, t, u)
            BY <3>2, <5>2 DEF Lanes!Inv, Lanes!PairsMended, Lanes!Inverted, Lanes!Ahead
          <5> QED
            BY <2>4, <5>2, <5>3 DEF Lanes!Waits
        <4> QED
          BY <4>1, <4>2, <4>3
      <3> QED
        BY <1>1, <2>3, <3>1, <3>2 DEF Lanes!PairsMended, Lanes!Inverted, Lanes!Ahead
    <2>8. Lanes!FirstMended'
      BY <2>4 DEF Lanes!FirstMended, Lanes!Promotes
    <2> QED
      BY <2>5, <2>6, <2>7, <2>8, LanesInvHolds
  <1> QED
    BY <1>2, <1>3 DEF Lanes!Label

\* The move of a webhook puts right what waited for it, if it is apt.
LEMMA LanesGrabMoveStep ==
  ASSUME Lanes!Inv, NEW n \in Queued, Lanes!GrabMove(n)
  PROVE  Lanes!Inv'
  <1> DEFINE call == [to |-> pending[n], who |-> {n}]
             apt == lane[n] = IF pending[n] = "top" THEN "normal" ELSE "old"
  <1>1. /\ worker \in [Lanes!Workers -> Lanes!Passes] /\ lane \in Lanes!Labels /\ Lanes!TypeOK
        /\ pending \in [Queued -> Lanes!Steps] /\ pending[n] \in {"top", "bottom"} /\ n \in Lanes!Present
        /\ queue' = Lanes!Moved(queue, call) /\ lane' = lane /\ changes' = changes
        /\ settled' = (settled /\ apt)
        /\ Lanes!Present' = Lanes!Present /\ Lanes!Normals' = Lanes!Normals
        /\ Lanes!Upgrades' = Lanes!Upgrades
    BY DEF Lanes!Inv, Lanes!TypeOK, Lanes!GrabMove, Lanes!Present, Lanes!Normals, Lanes!Upgrades
  <1>2. /\ pending' \in [Queued -> Lanes!Steps] /\ pending'[n] = "none"
        /\ \A t \in Queued : t # n => pending'[t] = pending[t]
    <2>1. pending' = [pending EXCEPT ![n] = "none"]
      BY DEF Lanes!GrabMove
    <2> QED
      BY <1>1, <2>1 DEF Lanes!Steps
  <1>3. /\ apt /\ pending[n] = "top" => lane[n] = "normal" /\ call.to = "top"
        /\ apt /\ pending[n] = "bottom" => lane[n] = "old" /\ call.to = "bottom"
        /\ \A t, u \in Lanes!Present : Lanes!Puts(call, t, u) <=>
             \/ pending[n] = "top" /\ t = n /\ u # n
             \/ pending[n] # "top" /\ u = n /\ t # n
    BY <1>1 DEF Lanes!Puts
  <1>4. worker' = [v \in Lanes!Workers |-> [worker[v] EXCEPT !.alone = FALSE,
                     !.clean = @ /\ (apt \/ worker[v].pc # "move")]]
    BY DEF Lanes!GrabMove
  <1>5. apt \in BOOLEAN
    OBVIOUS
  <1> HIDE DEF call, apt
  <1>6. ASSUME NEW v \in Lanes!Workers
        PROVE  /\ worker'[v] \in Lanes!Passes /\ worker'[v].pc = worker[v].pc
               /\ worker'[v].calls = worker[v].calls
               /\ worker'[v].first = worker[v].first /\ worker'[v].view = worker[v].view
               /\ worker'[v].alone = FALSE
               /\ worker'[v].clean = (worker[v].clean /\ (apt \/ worker[v].pc # "move"))
    <2>1. worker'[v] = [worker[v] EXCEPT !.alone = FALSE,
                          !.clean = @ /\ (apt \/ worker[v].pc # "move")]
      BY <1>4
    <2>2. worker[v] \in Lanes!Passes
      BY <1>1
    <2> QED
      BY <1>5, <2>1, <2>2 DEF Lanes!Passes
  <1>7. ASSUME NEW t \in Lanes!Present, NEW u \in Lanes!Present
        PROVE  <<t, u>> \in queue' <=> \/ <<t, u>> \in queue /\ ~ Lanes!Puts(call, u, t)
                                       \/ <<u, t>> \in queue /\ Lanes!Puts(call, t, u)
    BY <1>1, LanesMovedPairs DEF Lanes!Present
  <1>8. Lanes!TypeOK'
    <2>1. worker' \in [Lanes!Workers -> Lanes!Passes]
      BY <1>4, <1>6
    <2>2. settled' \in BOOLEAN
      BY <1>1, <1>5 DEF Lanes!TypeOK
    <2>3. /\ queue' \subseteq Lanes!Present \X Lanes!Present
          /\ \A t \in Lanes!Present : <<t, t>> \notin queue'
          /\ \A t, u \in Lanes!Present : t # u => (<<t, u>> \in queue' <=> <<u, t>> \notin queue')
          /\ \A t, u, v \in Lanes!Present : <<t, u>> \in queue' /\ <<u, v>> \in queue' => <<t, v>> \in queue'
      BY <1>1, LanesMovedOrder
    <2>4. \A t \in Queued : pending'[t] # "none" => t \in Lanes!Present
      BY <1>1, <1>2 DEF Lanes!TypeOK
    <2> QED
      BY <1>1, <1>2, <2>1, <2>2, <2>3, <2>4 DEF Lanes!TypeOK
  <1>9. ASSUME NEW v \in Lanes!Workers
        PROVE  /\ worker'[v].clean \/ Lanes!Promotes(v)' => LanesFit(worker[v].calls)'
               /\ worker'[v].pc = "move" <=> worker'[v].calls # <<>>
               /\ worker'[v].first \in Lanes!Present' \union {Lanes!NoOne}
               /\ worker'[v].pc \in {"look", "relabel"} =>
                    /\ worker'[v].view \in Lanes!Labels
                    /\ worker'[v].calls = <<>> /\ worker'[v].first = Lanes!NoOne
                    /\ Lanes!In(worker'[v].view, "normal") \union Lanes!In(worker'[v].view, "recent")
                         \union Lanes!In(worker'[v].view, "old") \subseteq Lanes!Present'
                    /\ worker'[v].clean \/ (v = "hourly" /\ worker'[v].alone) => LanesKnown(worker[v].view)'
    <2>1. /\ worker[v].clean => LanesFit(worker[v].calls)
          /\ worker[v].pc = "move" <=> worker[v].calls # <<>>
          /\ worker[v].first \in Lanes!Present \union {Lanes!NoOne}
          /\ worker[v].pc \in {"look", "relabel"} =>
               /\ worker[v].view \in Lanes!Labels
               /\ worker[v].calls = <<>> /\ worker[v].first = Lanes!NoOne
               /\ Lanes!In(worker[v].view, "normal") \union Lanes!In(worker[v].view, "recent")
                    \union Lanes!In(worker[v].view, "old") \subseteq Lanes!Present
               /\ worker[v].clean => LanesKnown(worker[v].view)
      BY LanesInvSays
    <2>2. /\ (LanesFit(worker[v].calls)' <=> LanesFit(worker[v].calls))
          /\ (LanesKnown(worker[v].view)' <=> LanesKnown(worker[v].view))
          /\ ~ Lanes!Promotes(v)' /\ (worker'[v].clean => worker[v].clean)
      BY <1>1, <1>6 DEF LanesFit, LanesKnown, Lanes!Promotes
    <2> QED
      BY <1>1, <1>6, <2>1, <2>2
  <1>10. \A v \in Lanes!Workers : /\ (Lanes!Moves(v)' <=> Lanes!Moves(v)) /\ (worker'[v].clean => worker[v].clean)
                                  /\ (Lanes!Moves(v)' /\ worker'[v].clean => apt)
    BY <1>6 DEF Lanes!Moves
  <1>11. Lanes!PairsMended'
    <2>1. ASSUME NEW v \in Lanes!Workers, Lanes!Moves(v)', worker'[v].clean,
                 NEW t \in Lanes!Present, NEW u \in Lanes!Present, Lanes!Rank[lane[t]] > Lanes!Rank[lane[u]]
          PROVE  Lanes!Minds(worker'[v].calls, t, u)
      BY <1>6, <1>10, <2>1 DEF Lanes!Inv, Lanes!PairsMended
    <2>2. ASSUME \A v \in Lanes!Workers : Lanes!Moves(v)' => worker'[v].clean,
                 settled' \/ \E v \in Lanes!Workers : Lanes!Moves(v)',
                 NEW t \in Lanes!Present, NEW u \in Lanes!Present, <<t, u>> \in queue',
                 Lanes!Rank[lane[t]] > Lanes!Rank[lane[u]]
          PROVE  Lanes!Waits(t, u)' \/ \E v \in Lanes!Workers : Lanes!Mends(worker'[v].calls, t, u)
      <3>1. /\ \A v \in Lanes!Workers : Lanes!Moves(v) => worker[v].clean
            /\ settled \/ \E v \in Lanes!Workers : Lanes!Moves(v)
            /\ apt
        BY <1>1, <1>10, <2>2
      <3>2. lane[t] \in Lanes!Lanes /\ lane[u] \in Lanes!Lanes /\ t \in Queued /\ u \in Queued
        BY <1>1 DEF Lanes!Present, Lanes!Labels
      <3>3. lane[t] # "normal" /\ lane[u] # "old" /\ t # u
        BY <2>2, <3>2, LanesRanks DEF Lanes!Lanes
      <3>4. ~ Lanes!Puts(call, t, u)
        BY <1>1, <1>3, <3>1, <3>3
      <3>5. <<t, u>> \in queue /\ ~ Lanes!Puts(call, u, t)
        BY <1>7, <2>2, <3>4
      <3>6. Lanes!Waits(t, u) => Lanes!Waits(t, u)'
        <4>1. ASSUME lane[u] = "normal", pending[u] # "none"
              PROVE  pending'[u] # "none"
          BY <1>1, <1>2, <1>3, <3>1, <3>2, <3>3, <3>5, <4>1
        <4>2. ASSUME pending[t] = "bottom"
              PROVE  pending'[t] = "bottom"
          BY <1>1, <1>2, <1>3, <3>1, <3>2, <3>3, <3>5, <4>2
        <4> QED
          BY <1>1, <4>1, <4>2 DEF Lanes!Waits
      <3>7. Lanes!Waits(t, u) \/ \E v \in Lanes!Workers : Lanes!Mends(worker[v].calls, t, u)
        BY <2>2, <3>1, <3>5 DEF Lanes!Inv, Lanes!PairsMended, Lanes!Inverted, Lanes!Ahead
      <3> QED
        BY <1>6, <3>6, <3>7
    <2> QED
      BY <1>1, <2>1, <2>2 DEF Lanes!PairsMended, Lanes!Inverted, Lanes!Ahead
  <1>12. Lanes!FirstMended'
    BY <1>6 DEF Lanes!FirstMended, Lanes!Promotes
  <1> QED
    BY <1>8, <1>9, <1>11, <1>12, LanesInvHolds

LEMMA LanesStepInv ==
  ASSUME Lanes!LanesAssumption, Lanes!Inv, [Lanes!Next]_lanes
  PROVE  Lanes!Inv'
  <1>1. CASE UNCHANGED lanes
    BY <1>1 DEF lanes, Lanes!Inv, Lanes!TypeOK, Lanes!CallsFit, Lanes!ViewFits,
       Lanes!PairsMended, Lanes!FirstMended, Lanes!Moves, Lanes!Promotes, Lanes!Present, Lanes!Normals,
       Lanes!Upgrades, Lanes!Inverted, Lanes!Ahead, Lanes!Rivals, Lanes!Waits
  <1>2. CASE \E first \in Queued \union {Lanes!NoOne} : Lanes!Start(first)
    BY <1>2, LanesStartStep
  <1>3. CASE \E t \in Queued : \E l \in {"recent", "old"} : Lanes!Relabel(t, l)
    BY <1>3, LanesRelabelStep
  <1>4. CASE Lanes!ReorderAfterRelabel
    BY <1>4, LanesCycleStep
  <1>5. CASE \E w \in Lanes!Workers : Lanes!Look(w) \/ Lanes!GiveUp(w) \/ Lanes!Move(w) \/ Lanes!MoveFails(w)
    BY <1>5, LanesLookStep, LanesGiveUpStep, LanesMoveStep, LanesMoveFailsStep
  <1>6. CASE \E t \in Queued : Lanes!Grab(t) \/ Lanes!Label(t) \/ Lanes!GrabMove(t) \/ Lanes!GrabStays(t)
    BY <1>6, LanesGrabStep, LanesLabelStep, LanesGrabMoveStep, LanesGrabStaysStep
  <1> QED
    BY <1>1, <1>2, <1>3, <1>4, <1>5, <1>6 DEF Lanes!Next

\* Who is idle has no call to come that could mend anything.
LEMMA LanesInvLanesHold ==
  ASSUME Lanes!Inv
  PROVE  Lanes!LanesHold
  <1>1. SUFFICES ASSUME settled, \A t \in Queued : pending[t] = "none",
                        \A w \in Lanes!Workers : worker[w].pc = "idle",
                        NEW t \in Lanes!Present, NEW u \in Lanes!Present, Lanes!Inverted(t, u)
                 PROVE  FALSE
    BY DEF Lanes!LanesHold
  <1>2. \A w \in Lanes!Workers : ~ Lanes!Moves(w) /\ worker[w].calls = <<>>
    BY <1>1, LanesInvSays DEF Lanes!Moves
  <1>3. ~ Lanes!Waits(t, u)
    BY <1>1 DEF Lanes!Waits, Lanes!Present
  <1> QED
    BY <1>1, <1>2, <1>3 DEF Lanes!Inv, Lanes!PairsMended, Lanes!Mends

\* The last call of a promotion leaves no rival of the keeper ahead of it.
LEMMA LanesStepFirstLeads ==
  ASSUME Lanes!LanesAssumption, Lanes!Inv, [Lanes!Next]_lanes, NEW w \in Lanes!Workers,
         NEW first \in Queued, NEW t \in Queued,
         worker[w].first = first, worker[w].alone, worker[w].pc = "move", worker'[w].pc = "idle",
         changes' = changes, lane[t] = lane[first], t # first
  PROVE  ~ Lanes!Ahead(t, first)'
  <1>1. worker \in [Lanes!Workers -> Lanes!Passes] /\ lane \in Lanes!Labels /\ changes \in Nat /\ Lanes!NoOne \notin Queued
    BY DEF Lanes!Inv, Lanes!TypeOK, Lanes!LanesAssumption, Lanes!NoOne
  <1>2. ASSUME worker'[w].pc = worker[w].pc
        PROVE  FALSE
    BY <1>2
  <1>3. ASSUME NEW v \in Lanes!Workers, NEW lead, worker[v].pc # "move", Lanes!Reorder(v, lead)
        PROVE  FALSE
    <2>1. w # v /\ worker'[w] = [worker[w] EXCEPT !.alone = FALSE]
      BY <1>3 DEF Lanes!Reorder
    <2> QED
      BY <1>1, <1>2, <2>1 DEF Lanes!Passes
  <1>4. Lanes!Move(w)
    <2>1. CASE UNCHANGED lanes
      BY <1>2, <2>1 DEF lanes
    <2>2. CASE \E lead \in Queued \union {Lanes!NoOne} : Lanes!Start(lead)
      BY <1>3, <2>2 DEF Lanes!Start, Lanes!Workers
    <2>3. CASE Lanes!ReorderAfterRelabel
      BY <1>3, <2>3 DEF Lanes!ReorderAfterRelabel, Lanes!Workers
    <2>4. ASSUME NEW v \in Queued, NEW l \in {"recent", "old"}, Lanes!Relabel(v, l)
          PROVE  FALSE
      <3> DEFINE other == Lanes!Surprised({"hourly"})
      <3>1. other[w].pc = worker[w].pc /\ other = [x \in Lanes!Workers |-> other[x]]
        BY <1>1, LanesOvertaken DEF Lanes!Surprised
      <3> HIDE DEF other
      <3>2. /\ w # "cycle"
            /\ worker' = [other EXCEPT !["cycle"].view[v] = l, !["cycle"].pc = "relabel"]
        BY <2>4 DEF Lanes!Relabel, other
      <3>3. worker'[w] = other[w]
        BY <3>1, <3>2
      <3> QED
        BY <1>2, <3>1, <3>3
    <2>5. ASSUME NEW v \in Lanes!Workers, Lanes!Look(v) \/ Lanes!GiveUp(v)
          PROVE  FALSE
      <3>1. v # w
        BY <2>5 DEF Lanes!Look, Lanes!GiveUp
      <3>2. PICK new : worker' = [worker EXCEPT ![v] = new]
        BY <2>5 DEF Lanes!Look, Lanes!GiveUp
      <3>3. worker'[w] = worker[w]
        BY <1>1, <3>1, <3>2
      <3> QED
        BY <1>2, <3>3
    <2>6. ASSUME NEW v \in Lanes!Workers, Lanes!Move(v), v # w
          PROVE  FALSE
      <3>1. worker'[w] = [worker[w] EXCEPT !.alone = FALSE,
                           !.clean = @ /\ (worker[v].clean \/ worker[w].pc # "move")]
        BY <2>6 DEF Lanes!Move
      <3> QED
        BY <1>1, <1>2, <3>1 DEF Lanes!Passes
    <2>7. CASE (\E v \in Lanes!Workers : Lanes!MoveFails(v)) \/ (\E v \in Queued : Lanes!Grab(v))
      <3>1. changes' = changes + 1
        BY <2>7 DEF Lanes!MoveFails, Lanes!Grab
      <3> QED
        BY <1>1, <3>1
    <2>8. ASSUME NEW v \in Queued, Lanes!Label(v) \/ Lanes!GrabStays(v)
          PROVE  FALSE
      <3>1. \/ worker' = worker
            \/ worker' = Lanes!Overtaken(Lanes!Workers)
            \/ worker' = Lanes!Surprised(Lanes!Workers)
        BY <2>8 DEF Lanes!Label, Lanes!GrabStays
      <3>2. worker'[w].pc = worker[w].pc
        BY <1>1, <3>1, LanesOvertaken
      <3> QED
        BY <1>2, <3>2
    <2>9. ASSUME NEW v \in Queued, Lanes!GrabMove(v)
          PROVE  FALSE
      <3> DEFINE apt == lane[v] = IF pending[v] = "top" THEN "normal" ELSE "old"
      <3>1. worker'[w] = [worker[w] EXCEPT !.alone = FALSE, !.clean = @ /\ (apt \/ worker[w].pc # "move")]
        BY <2>9 DEF Lanes!GrabMove
      <3> HIDE DEF apt
      <3> QED
        BY <1>1, <1>2, <3>1 DEF Lanes!Passes
    <2> QED
      BY <2>1, <2>2, <2>3, <2>4, <2>5, <2>6, <2>7, <2>8, <2>9 DEF Lanes!Next
  <1> DEFINE calls == worker[w].calls
  <1>5. calls \in Seq(Lanes!Calls) /\ calls # <<>> /\ queue' = Lanes!Moved(queue, Head(calls))
    BY <1>1, <1>4 DEF Lanes!Passes, Lanes!Inv, Lanes!CallsFit, Lanes!Moves, Lanes!Move
  <1>6. Len(calls) = 1
    <2>1. CASE Len(worker[w].calls) # 1
      <3>1. worker'[w] = [worker[w] EXCEPT !.calls = Tail(@)]
        BY <1>4, <2>1 DEF Lanes!Move
      <3> QED
        BY <1>1, <1>2, <3>1 DEF Lanes!Passes
    <2> QED
      BY <2>1
  <1> HIDE DEF calls
  <1>7. Tail(calls) = <<>>
    <2>1. Tail(calls) \in Seq(Lanes!Calls) /\ Len(Tail(calls)) = 0
      BY <1>5, <1>6
    <2> QED
      BY <2>1, EmptySeq
  <1>8. first \in Lanes!Present /\ t \in Lanes!Present /\ Lanes!Rivals(t, first)
    <2>1. first \in Lanes!Present
      BY <1>1 DEF Lanes!Inv, Lanes!CallsFit
    <2> QED
      BY <1>1, <2>1 DEF Lanes!Present, Lanes!Rivals, Lanes!Normals, Lanes!Upgrades,
         Lanes!Labels, Lanes!Lanes
  <1>9. Lanes!Minds(calls, t, first) /\ (Lanes!Ahead(t, first) => Lanes!Mends(calls, t, first))
    BY <1>1, <1>8 DEF Lanes!Inv, Lanes!FirstMended, Lanes!Moves, Lanes!Promotes, calls
  <1>10. ~ Lanes!Mends(Tail(calls), t, first)
    BY <1>7 DEF Lanes!Mends
  <1>11. ~ Lanes!Puts(Head(calls), t, first) /\ (Lanes!Ahead(t, first) => Lanes!Puts(Head(calls), first, t))
    BY <1>5, <1>9, <1>10, LanesTailMends
  <1> QED
    BY <1>5, <1>11, LanesMovedPairs DEF Lanes!Ahead

\* What the services do is a step of the lanes, or does not concern them.
LEMMA LanesMove == [Next]_vars => [Lanes!Next]_lanes
  BY DEF Next, vars

\* The queue stays an order, what is to come of a reorder fits the labels, and
\* while none is behind, it mends what is out of its lane.
THEOREM LanesInvariant == Spec => []Lanes!Inv
  <1>1. Init => Lanes!Inv
    BY ServicesAssumption, LanesInitInv DEF Init
  <1>2. Lanes!Inv /\ [Next]_vars => Lanes!Inv'
    BY ServicesAssumption, LanesStepInv, LanesMove
  <1> QED
    BY <1>1, <1>2, PTL DEF Spec

\* However many torrents, reorders, relabelled upgrades and grabs, the lanes are
\* strict once the reorders and the webhooks are through, unless the last one
\* was behind on a label, a call failed, or a grab moved out of its lane.
THEOREM LanesStrict == Spec => []LanesHold
  <1>1. Lanes!Inv => LanesHold
    BY LanesInvLanesHold DEF LanesHold
  <1> QED
    BY <1>1, LanesInvariant, PTL

\* A promoted keeper leads its lane at the end of its reorder, when nobody else
\* has moved or labelled anything since the snapshot of its pass.
THEOREM KeeperLeads == Spec => FirstLeads
  <1> DEFINE Leads ==
        \A w \in Lanes!Workers, first, t \in Queued :
          /\ worker[w].first = first /\ worker[w].alone
          /\ worker[w].pc = "move" /\ worker'[w].pc = "idle" /\ changes' = changes
          /\ lane[t] = lane[first] /\ t # first
          => ~ Lanes!Ahead(t, first)'
  <1>1. Lanes!Inv /\ [Lanes!Next]_lanes => [Leads]_lanes
    BY ServicesAssumption, LanesStepFirstLeads
  <1>2. Lanes!Inv /\ [Next]_vars => [Leads]_lanes
    BY <1>1, LanesMove
  <1>3. []Lanes!Inv /\ [][Next]_vars => [][Leads]_lanes
    BY <1>2, PTL
  <1>4. [][Leads]_lanes => FirstLeads
    BY DEF FirstLeads, Lanes!FirstLeads, lanes, Lanes!lanes
  <1> QED
    BY <1>3, <1>4, LanesInvariant, PTL DEF Spec
=============================================================================

--------------------------- MODULE ServicesProofs ---------------------------
(***************************************************************************)
(* Proofs about the services of MCServices, for any constants that fit:    *)
(* the share links (Links!), the shared listing (Cache!), the seed reviews *)
(* (Reviews!), the webhooks (Hooks!), the log (Logs!) and the library     *)
(* pass over a season (Season!).                                           *)
(***************************************************************************)
EXTENDS MCServices, QueueLanesProofs, Integers, Sequences, WellFoundedInduction, TLAPS

\* A new link has no job, and no file.
LEMMA LinksInitInv ==
  ASSUME Links!LinksAssumption, Links!Init
  PROVE  Links!Inv
  <1> USE DEF Links!LinksAssumption, Links!Init, Links!NoJob, Links!Here
  <1>1. PICK m \in Limits, f \in BOOLEAN :
          link = [limit |-> m, count |-> 0, folder |-> f, live |-> TRUE, expired |-> FALSE]
    OBVIOUS
  <1>2. Links!TypeOK
    BY <1>1 DEF Links!TypeOK
  <1>3. Links!ReadyHasFile /\ Links!FilesOwned
    BY DEF Links!ReadyHasFile, Links!FilesOwned
  <1> QED
    BY <1>2, <1>3 DEF Links!Inv

\* A visitor's request or response.
LEMMA LinksClientStep ==
  ASSUME Links!LinksAssumption, Links!Inv, NEW c \in Clients,
         \/ Links!Validate(c) \/ Links!SendFile(c) \/ Links!StartZip(c)
         \/ Links!Refused(c) \/ Links!TakeFile(c) \/ Links!Cleanup(c)
  PROVE  Links!Inv'
  <1> USE DEF Links!LinksAssumption, Links!Inv, Links!TypeOK, Links!ReadyHasFile,
     Links!FilesOwned, Links!NoJob, Links!Here
  <1>1. CASE Links!Validate(c)
    BY <1>1 DEF Links!Validate, Links!Goes
  <1>2. CASE Links!SendFile(c)
    BY <1>2 DEF Links!SendFile, Links!Goes
  <1>3. CASE Links!StartZip(c)
    BY <1>3 DEF Links!StartZip, Links!Goes
  <1>4. CASE Links!Refused(c)
    BY <1>4 DEF Links!Refused, Links!Goes, Links!ExpireZipJob
  <1>5. CASE Links!TakeFile(c)
    BY <1>5 DEF Links!TakeFile
  <1>6. CASE Links!Cleanup(c)
    BY <1>6 DEF Links!Cleanup, Links!Goes
  <1> QED
    BY <1>1, <1>2, <1>3, <1>4, <1>5, <1>6

\* A zip thread at work.
LEMMA LinksZipStep ==
  ASSUME Links!LinksAssumption, Links!Inv, NEW z \in Zips,
         Links!Walk(z) \/ Links!Abandon(z) \/ Links!Finish(z) \/ Links!ZipFails(z)
  PROVE  Links!Inv'
  <1> USE DEF Links!LinksAssumption, Links!Inv, Links!TypeOK, Links!ReadyHasFile,
     Links!FilesOwned, Links!NoJob, Links!ZipGoes
  <1>1. CASE Links!Walk(z)
    BY <1>1 DEF Links!Walk
  <1>2. CASE Links!Abandon(z)
    BY <1>2 DEF Links!Abandon
  <1>3. CASE Links!Finish(z)
    BY <1>3 DEF Links!Finish
  <1>4. CASE Links!ZipFails(z)
    BY <1>4 DEF Links!ZipFails
  <1> QED
    BY <1>1, <1>2, <1>3, <1>4

\* The sweep, the revocation and the expiry of the link.
LEMMA LinksLinkStep ==
  ASSUME Links!LinksAssumption, Links!Inv, Links!Sweep \/ Links!Revoke \/ Links!TimePasses
  PROVE  Links!Inv'
  <1> USE DEF Links!LinksAssumption, Links!Inv, Links!TypeOK, Links!ReadyHasFile,
     Links!FilesOwned, Links!NoJob, Links!ExpireZipJob
  <1>1. CASE Links!Sweep
    BY <1>1 DEF Links!Sweep
  <1>2. CASE Links!Revoke
    BY <1>2 DEF Links!Revoke
  <1>3. CASE Links!TimePasses
    BY <1>3 DEF Links!TimePasses
  <1> QED
    BY <1>1, <1>2, <1>3

\* Every step keeps the invariant.
LEMMA LinksStepInv ==
  ASSUME Links!LinksAssumption, Links!Inv, [Links!Next]_links
  PROVE  Links!Inv'
  <1>1. CASE UNCHANGED links
    BY <1>1 DEF links, Links!Inv, Links!TypeOK, Links!ReadyHasFile, Links!FilesOwned
  <1> QED
    BY <1>1, LinksClientStep, LinksZipStep, LinksLinkStep DEF Links!Next

\* What the services do is what one of them does, or does not concern it.
LEMMA LinksMove == [Next]_vars => [Links!Next]_links
  BY DEF Next, vars

\* A link, its job, its visitors and its threads keep their types; what a job
\* or a response holds, its thread has left.
THEOREM LinksInvariant == Spec => []Links!Inv
  <1>1. Init => Links!Inv
    BY ServicesAssumption, LinksInitInv DEF Init
  <1>2. Links!Inv /\ [Next]_vars => Links!Inv'
    BY ServicesAssumption, LinksStepInv, LinksMove
  <1> QED
    BY <1>1, <1>2, PTL DEF Spec

\* A ready job never points at a file that someone has removed.
THEOREM ReadyFileStays == Spec => []ReadyHasFile
  <1>1. Links!Inv => ReadyHasFile
    BY DEF Links!Inv, ReadyHasFile
  <1> QED
    BY <1>1, LinksInvariant, PTL

\* The cache is empty, and nobody asks.
LEMMA CacheInitInv ==
  ASSUME Cache!SnapshotAssumption, Cache!Init
  PROVE  Cache!Inv
  BY DEF Cache!SnapshotAssumption, Cache!Init, Cache!Inv, Cache!TypeOK, Cache!ListingsSound,
     Cache!Listing, Cache!Nothing, Cache!Away

\* A poller goes on with a listing that is worth keeping; the others stay.
LEMMA CacheGoesOn ==
  ASSUME Cache!SnapshotAssumption, Cache!Inv, NEW p \in Pollers,
         NEW where \in {"away", "asks", "stores", "has"},
         NEW want \in Wants \union {{}}, NEW list \in Cache!Listing,
         Cache!Goes(p, where, want, list), UNCHANGED <<clock, version>>,
         where \in {"asks", "stores"} => want \in Wants,
         where = "asks" => list.kept /\ list.taken <= clock,
         where = "stores" => Cache!Sound(list),
         where = "has" => list.kept,
         snapshots' \in [Wants -> Cache!Listing],
         \A w \in Wants : snapshots'[w].kept => Cache!Sound(snapshots'[w])
  PROVE  Cache!Inv'
  <1>1. /\ poller' \in [Pollers -> [pc : {"away", "asks", "stores", "has"},
                                    want : Wants \union {{}}, list : Cache!Listing]]
        /\ poller'[p] = [pc |-> where, want |-> want, list |-> list]
        /\ \A q \in Pollers \ {p} : poller'[q] = poller[q]
    BY DEF Cache!Goes, Cache!Inv, Cache!TypeOK
  <1>2. Cache!TypeOK'
    BY <1>1 DEF Cache!Inv, Cache!TypeOK
  <1>3. Cache!ListingsSound'
    BY <1>1 DEF Cache!Inv, Cache!ListingsSound, Cache!Sound
  <1> QED
    BY <1>2, <1>3 DEF Cache!Inv

\* No listing is a listing, too.
LEMMA NothingType == Cache!SnapshotAssumption => Cache!Nothing \in Cache!Listing
  BY DEF Cache!SnapshotAssumption, Cache!Nothing, Cache!Listing

\* One poller's call.
LEMMA CacheCallStep ==
  ASSUME Cache!SnapshotAssumption, Cache!Inv, NEW p \in Pollers,
         \/ \E want \in Wants : Cache!Hit(p, want) \/ Cache!Ask(p, want)
         \/ Cache!Answer(p) \/ Cache!AnswerFails(p) \/ Cache!Store(p) \/ Cache!Use(p)
  PROVE  Cache!Inv'
  <1>0. /\ Cache!TypeOK /\ Cache!ListingsSound
        /\ poller[p] \in [pc : {"away", "asks", "stores", "has"},
                          want : Wants \union {{}}, list : Cache!Listing]
    BY DEF Cache!Inv, Cache!TypeOK
  <1>1. ASSUME NEW want \in Wants, Cache!Hit(p, want)
        PROVE  Cache!Inv'
    <2>1. PICK have \in Wants : Cache!Fresh(have) /\ Cache!Goes(p, "has", want, snapshots[have])
      BY <1>1 DEF Cache!Hit
    <2> QED
      BY <1>0, <1>1, <2>1, CacheGoesOn DEF Cache!Hit, Cache!Fresh, Cache!TypeOK,
         Cache!ListingsSound
  <1>2. ASSUME NEW want \in Wants, Cache!Ask(p, want)
        PROVE  Cache!Inv'
    <2> DEFINE list == [kept |-> TRUE, taken |-> clock, at |-> 0, version |-> 0, missed |-> 0]
    <2>0. clock \in 0 .. Ticks /\ clock \in Nat /\ 0 \in 0 .. Ticks /\ 0 \in 0 .. Changes
      BY <1>0 DEF Cache!SnapshotAssumption, Cache!TypeOK
    <2>1. list \in Cache!Listing /\ list.kept /\ list.taken = clock /\ clock \in Nat
      BY <2>0 DEF Cache!Listing
    <2>2. Cache!Goes(p, "asks", want, list)
      BY <1>2 DEF Cache!Ask
    <2> HIDE DEF list
    <2> QED
      BY <1>0, <1>2, <2>1, <2>2, CacheGoesOn DEF Cache!Ask, Cache!TypeOK, Cache!ListingsSound
  <1>3. CASE Cache!Answer(p)
    <2> DEFINE old == poller[p].list
               list == [kept |-> old.kept, taken |-> old.taken, at |-> clock,
                        version |-> version, missed |-> old.missed]
    <2>0. /\ poller[p].list \in Cache!Listing /\ poller[p].list.kept
          /\ poller[p].list.taken <= clock
          /\ clock \in 0 .. Ticks /\ version \in 0 .. Changes /\ clock \in Nat
      BY <1>0, <1>3 DEF Cache!Answer, Cache!SnapshotAssumption, Cache!TypeOK,
         Cache!ListingsSound
    <2>1. /\ list \in Cache!Listing /\ list.kept /\ list.at = clock /\ list.version = version
          /\ list.taken <= clock /\ clock \in Nat
      BY <2>0 DEF Cache!Listing
    <2>2. Cache!Goes(p, "stores", poller[p].want, list) /\ poller[p].want \in Wants
      BY <1>0, <1>3 DEF Cache!Answer, Cache!ListingsSound
    <2>3. Cache!Sound(list)
      BY <2>1 DEF Cache!Sound
    <2> HIDE DEF list
    <2> QED
      BY <1>0, <1>3, <2>1, <2>2, <2>3, CacheGoesOn DEF Cache!Answer, Cache!TypeOK,
         Cache!ListingsSound
  <1>4. CASE Cache!AnswerFails(p) \/ Cache!Use(p)
    <2>1. Cache!Goes(p, "away", {}, Cache!Nothing)
      BY <1>4 DEF Cache!AnswerFails, Cache!Use, Cache!Away, Cache!Goes
    <2> QED
      BY <1>0, <1>4, <2>1, NothingType, CacheGoesOn DEF Cache!AnswerFails, Cache!Use,
         Cache!TypeOK, Cache!ListingsSound
  <1>5. CASE Cache!Store(p)
    <2>1. Cache!Goes(p, "away", {}, Cache!Nothing)
      BY <1>5 DEF Cache!Store, Cache!Away, Cache!Goes
    <2>2. /\ snapshots' \in [Wants -> Cache!Listing]
          /\ \A w \in Wants : snapshots'[w].kept => Cache!Sound(snapshots'[w])
      BY <1>0, <1>5 DEF Cache!Store, Cache!TypeOK, Cache!ListingsSound
    <2> QED
      BY <1>0, <1>5, <2>1, <2>2, NothingType, CacheGoesOn DEF Cache!Store
  <1> QED
    BY <1>1, <1>2, <1>3, <1>4, <1>5

\* A change of ours, which empties the cache, and the clock.
LEMMA CacheWorldStep ==
  ASSUME Cache!SnapshotAssumption, Cache!Inv, Cache!Invalidate \/ Cache!Tick
  PROVE  Cache!Inv'
  <1>1. CASE Cache!Invalidate
    <2>1. version' \in 0 .. Changes /\ version' = version + 1
      BY <1>1 DEF Cache!Inv, Cache!TypeOK, Cache!Invalidate, Cache!SnapshotAssumption
    <2>2. ASSUME NEW p \in Pollers
          PROVE  /\ poller'[p] \in [pc : {"away", "asks", "stores", "has"},
                                    want : Wants \union {{}}, list : Cache!Listing]
                 /\ poller'[p].pc = poller[p].pc /\ poller'[p].want = poller[p].want
                 /\ poller'[p].list.kept = poller[p].list.kept
                 /\ poller'[p].list.taken = poller[p].list.taken
                 /\ poller'[p].list.at = poller[p].list.at
                 /\ poller[p].pc \in {"asks", "stores"} => poller'[p].list.missed = version'
      BY <1>1, <2>1 DEF Cache!Inv, Cache!TypeOK, Cache!Invalidate, Cache!Listing
    <2>3. /\ snapshots' = [want \in Wants |-> Cache!Nothing] /\ clock' = clock
          /\ DOMAIN poller' = Pollers /\ poller' = [p \in Pollers |-> poller'[p]]
      BY <1>1 DEF Cache!Invalidate
    <2>4. Cache!TypeOK'
      BY <2>1, <2>2, <2>3, NothingType DEF Cache!Inv, Cache!TypeOK
    <2>5. Cache!ListingsSound'
      BY <2>2, <2>3 DEF Cache!Inv, Cache!ListingsSound, Cache!Sound, Cache!Nothing
    <2> QED
      BY <2>4, <2>5 DEF Cache!Inv
  <1>2. CASE Cache!Tick
    BY <1>2 DEF Cache!Tick, Cache!SnapshotAssumption, Cache!Inv, Cache!TypeOK,
       Cache!ListingsSound, Cache!Sound, Cache!Listing
  <1> QED
    BY <1>1, <1>2

\* Every step keeps the invariant.
LEMMA CacheStepInv ==
  ASSUME Cache!SnapshotAssumption, Cache!Inv, [Cache!Next]_cache
  PROVE  Cache!Inv'
  <1>1. CASE UNCHANGED cache
    BY <1>1 DEF cache, Cache!Inv, Cache!TypeOK, Cache!ListingsSound, Cache!Sound
  <1> QED
    BY <1>1, CacheCallStep, CacheWorldStep DEF Cache!Next

\* What the services do is a step of the listing's, or does not concern it.
LEMMA CacheMove == [Next]_vars => [Cache!Next]_cache
  BY DEF Next, vars

\* Every listing, kept or on its way, has its types and is as current as the
\* time and the changes since it was asked for allow.
THEOREM CacheInvariant == Spec => []Cache!Inv
  <1>1. Init => Cache!Inv
    BY ServicesAssumption, CacheInitInv DEF Init
  <1>2. Cache!Inv /\ [Next]_vars => Cache!Inv'
    BY ServicesAssumption, CacheStepInv, CacheMove
  <1> QED
    BY <1>1, <1>2, PTL DEF Spec

\* What get_all_torrents serves from its cache was answered within the TTL
\* and lacks no change but those made while its request was under way.
THEOREM CacheIsCurrent == Spec => ServedIsCurrent
  <1> DEFINE Served ==
        \A p \in Pollers :
          poller[p].pc = "away" /\ poller'[p].pc = "has" =>
            LET list == poller'[p].list IN
            clock - list.at < SNAPSHOT_TTL /\ (list.version = version \/ list.missed = version)
  <1>1. Cache!Inv /\ [Cache!Next]_cache => [Served]_cache
    <2> SUFFICES ASSUME Cache!Inv, Cache!Next, NEW p \in Pollers,
                        poller[p].pc = "away", poller'[p].pc = "has"
                 PROVE  LET list == poller'[p].list IN
                        /\ clock - list.at < SNAPSHOT_TTL
                        /\ list.version = version \/ list.missed = version
      OBVIOUS
    <2>1. ASSUME NEW q \in Pollers, NEW list,
                 NEW where \in {"away", "asks", "stores"}, NEW want,
                 Cache!Goes(q, where, want, list)
          PROVE  FALSE
      BY <2>1 DEF Cache!Goes, Cache!Inv, Cache!TypeOK
    <2>2. \A q \in Pollers :
            Cache!AnswerFails(q) \/ Cache!Store(q) \/ Cache!Use(q)
            => Cache!Goes(q, "away", {}, Cache!Nothing)
      BY DEF Cache!AnswerFails, Cache!Store, Cache!Use, Cache!Goes, Cache!Away
    <2>3. ~ Cache!Invalidate /\ ~ Cache!Tick
      BY DEF Cache!Invalidate, Cache!Tick, Cache!Inv, Cache!TypeOK
    <2>4. PICK q \in Pollers : \E want \in Wants : Cache!Hit(q, want)
      BY <2>1, <2>2, <2>3 DEF Cache!Next, Cache!Ask, Cache!Answer
    <2>5. q = p
      BY <2>4 DEF Cache!Hit, Cache!Goes, Cache!Inv, Cache!TypeOK
    <2>6. PICK want \in Wants : Cache!Hit(p, want)
      BY <2>4, <2>5
    <2>7. PICK have \in Wants : Cache!Fresh(have) /\ Cache!Goes(p, "has", want, snapshots[have])
      BY <2>6 DEF Cache!Hit
    <2>8. poller'[p].list = snapshots[have] /\ snapshots[have] \in Cache!Listing /\ clock \in Nat
      BY ServicesAssumption, <2>7 DEF Cache!Goes, Cache!Inv, Cache!TypeOK,
         Cache!SnapshotAssumption
    <2>9. Cache!Sound(snapshots[have]) /\ clock - snapshots[have].taken < SNAPSHOT_TTL
      BY <2>7 DEF Cache!Fresh, Cache!Inv, Cache!ListingsSound
    <2> QED
      BY ServicesAssumption, <2>8, <2>9 DEF Cache!Sound, Cache!Listing, Cache!SnapshotAssumption
  <1>2. Cache!Inv /\ [Next]_vars => [Served]_cache
    BY <1>1, CacheMove
  <1>3. []Cache!Inv /\ [][Next]_vars => [][Served]_cache
    BY <1>2, PTL
  <1>4. [][Served]_cache => ServedIsCurrent
    BY DEF ServedIsCurrent, Cache!ServedIsCurrent, Cache!snapshot, cache
  <1> QED
    BY <1>3, <1>4, CacheInvariant, PTL DEF Spec

-----------------------------------------------------------------------------
\* Nobody is at work.
LEMMA ReviewsIdle ==
  Reviews!ReviewsAssumption =>
    /\ Reviews!Grabbed \in Reviews!Torrent
    /\ Reviews!NoEntry \in Reviews!Entry
    /\ Reviews!Idle \in Reviews!Passes
  <1> SUFFICES ASSUME Reviews!ReviewsAssumption
               PROVE  /\ Reviews!Grabbed \in Reviews!Torrent
                      /\ Reviews!NoEntry \in Reviews!Entry
                      /\ Reviews!Idle \in Reviews!Passes
    OBVIOUS
  <1>1. 0 \in Reviews!Uploads /\ 0 \in 0 .. SEED_WEEKS
    BY DEF Reviews!ReviewsAssumption, Reviews!Uploads
  <1>2. Reviews!Grabbed \in Reviews!Torrent /\ Reviews!NoEntry \in Reviews!Entry
    BY <1>1 DEF Reviews!Grabbed, Reviews!Torrent, Reviews!NoEntry, Reviews!Entry
  <1> QED
    BY <1>2 DEF Reviews!Idle, Reviews!Passes

\* The torrent has just been grabbed.
LEMMA ReviewsInitInv ==
  ASSUME Reviews!ReviewsAssumption, Reviews!Init
  PROVE  Reviews!Inv
  <1>1. Reviews!TypeOK
    BY ReviewsIdle DEF Reviews!Init, Reviews!TypeOK
  <1>2. \A r \in Reviews!Reviewers : review[r] = Reviews!Idle
    BY DEF Reviews!Init
  <1>3. Reviews!BaseSound /\ Reviews!HandsSound /\ Reviews!JudgedSound
    BY <1>2 DEF Reviews!Init, Reviews!BaseSound, Reviews!Before, Reviews!HandsSound,
       Reviews!JudgedSound, Reviews!Idle, Reviews!NoEntry, Reviews!Reviewers
  <1> QED
    BY <1>1, <1>3 DEF Reviews!Inv

\* The types of a state, and who its reviewers are.
LEMMA ReviewsTypes ==
  ASSUME Reviews!ReviewsAssumption, Reviews!TypeOK
  PROVE  /\ torrent.here \in BOOLEAN /\ torrent.shown \in BOOLEAN /\ torrent.stirred \in BOOLEAN
         /\ torrent.seeded \in 0 .. SEED_WEEKS /\ torrent.seeded \in Nat
         /\ torrent.uploaded \in Reviews!Uploads /\ torrent.uploaded \in Nat
         /\ base.up \in Reviews!Uploads \union {Reviews!None} /\ base.up \in Int
         /\ base.own \in BOOLEAN
         /\ "timer" \in Reviews!Reviewers /\ Routes \subseteq Reviews!Reviewers
         /\ "timer" \notin Routes /\ Reviews!Uploads \subseteq Nat
         /\ SEED_WEEKS \in Nat /\ MaxUpload \in Nat
  BY DEF Reviews!ReviewsAssumption, Reviews!TypeOK, Reviews!Torrent, Reviews!Entry,
     Reviews!Uploads, Reviews!None, Reviews!Reviewers

\* The same of a review.
LEMMA ReviewsPassTypes ==
  ASSUME Reviews!ReviewsAssumption, Reviews!TypeOK, NEW r \in Reviews!Reviewers
  PROVE  /\ review[r].pc \in {"idle", "look", "remove", "save"}
         /\ review[r].dry \in BOOLEAN /\ review[r].hand \in BOOLEAN /\ review[r].own \in BOOLEAN
         /\ review[r].stirred \in BOOLEAN /\ review[r].next \in Reviews!Entry
         /\ review[r].next.up \in Reviews!Uploads \union {Reviews!None}
         /\ review[r].next.up \in Int /\ review[r].next.own \in BOOLEAN
  BY DEF Reviews!ReviewsAssumption, Reviews!TypeOK, Reviews!Passes, Reviews!Torrent,
     Reviews!Entry, Reviews!Uploads, Reviews!None

\* A review moves on, and the others are as they were.
LEMMA ReviewsGoesOn ==
  ASSUME Reviews!ReviewsAssumption, Reviews!TypeOK, NEW r \in Reviews!Reviewers,
         NEW p \in Reviews!Passes, review' = [review EXCEPT ![r] = p]
  PROVE  /\ review' \in [Reviews!Reviewers -> Reviews!Passes]
         /\ review'[r] = p /\ \A q \in Reviews!Reviewers \ {r} : review'[q] = review[q]
  BY DEF Reviews!TypeOK

\* A torrent that leaves takes its upload along.
LEMMA ReviewsGone ==
  ASSUME Reviews!ReviewsAssumption, Reviews!TypeOK, Reviews!Gone
  PROVE  /\ torrent' \in Reviews!Torrent /\ torrent'.uploaded = torrent.uploaded
         /\ torrent'.stirred = torrent.stirred
  <1>1. torrent' = [here |-> FALSE, shown |-> FALSE, seeded |-> 0,
                    uploaded |-> torrent.uploaded, stirred |-> torrent.stirred]
    BY DEF Reviews!Gone, Reviews!TypeOK, Reviews!Torrent
  <1> QED
    BY <1>1, ReviewsTypes DEF Reviews!Torrent

\* What the world does to the torrent.
LEMMA ReviewsWorldStep ==
  ASSUME Reviews!ReviewsAssumption, Reviews!Inv,
         \/ Reviews!Week \/ Reviews!Upload \/ Reviews!Shift \/ Reviews!Leave
         \/ Reviews!Readd \/ Reviews!Restart
  PROVE  Reviews!Inv'
  <1>0. Reviews!TypeOK /\ Reviews!BaseSound /\ Reviews!HandsSound /\ Reviews!JudgedSound
    BY DEF Reviews!Inv
  <1>1. CASE Reviews!Week
    <2>1. torrent' \in Reviews!Torrent
      BY <1>0, <1>1, ReviewsTypes DEF Reviews!Week, Reviews!TypeOK, Reviews!Torrent
    <2>2. /\ due' /\ UNCHANGED <<base, byHand, review>> /\ torrent'.uploaded = torrent.uploaded
          /\ torrent'.stirred = torrent.stirred
          /\ \A r \in Reviews!Reviewers : review[r].pc = "idle"
      BY <1>0, <1>1 DEF Reviews!Week, Reviews!TypeOK, Reviews!Torrent
    <2>3. Reviews!TypeOK'
      BY <1>0, <2>1, <2>2 DEF Reviews!TypeOK
    <2>4. Reviews!BaseSound'
      BY <1>0, <2>2 DEF Reviews!BaseSound, Reviews!Before
    <2>5. Reviews!HandsSound' /\ Reviews!JudgedSound'
      BY <1>0, <2>2, ReviewsTypes DEF Reviews!HandsSound, Reviews!JudgedSound
    <2> QED
      BY <2>3, <2>4, <2>5 DEF Reviews!Inv
  <1>2. CASE Reviews!Upload
    <2>1. torrent' = [here |-> torrent.here, shown |-> torrent.shown, seeded |-> torrent.seeded,
                      uploaded |-> torrent.uploaded + 1, stirred |-> TRUE]
      BY <1>0, <1>2 DEF Reviews!Upload, Reviews!TypeOK, Reviews!Torrent
    <2>2. torrent.uploaded + 1 \in Reviews!Uploads
      BY <1>0, <1>2, ReviewsTypes DEF Reviews!Upload, Reviews!Uploads
    <2>3. Reviews!TypeOK'
      BY <1>0, <1>2, <2>1, <2>2, ReviewsTypes DEF Reviews!Upload, Reviews!TypeOK, Reviews!Torrent
    <2>4. torrent'.uploaded = torrent.uploaded + 1 /\ UNCHANGED <<base, due, byHand, review>>
      BY <1>2, <2>1 DEF Reviews!Upload
    <2>5. ASSUME NEW e, e.up \in Int, Reviews!Before(e)
          PROVE  e.own /\ e.up # Reviews!None =>
                   torrent'.uploaded >= e.up /\ torrent'.uploaded > e.up
      BY <1>0, <2>4, <2>5, ReviewsTypes DEF Reviews!Before
    <2>6. Reviews!BaseSound'
      BY <1>0, <2>4, <2>5, ReviewsTypes, ReviewsPassTypes DEF Reviews!BaseSound, Reviews!Before
    <2>7. Reviews!HandsSound' /\ Reviews!JudgedSound'
      BY <1>0, <2>4 DEF Reviews!HandsSound, Reviews!JudgedSound
    <2> QED
      BY <2>3, <2>6, <2>7 DEF Reviews!Inv
  <1>3. CASE Reviews!Shift \/ Reviews!Leave
    <2>1. /\ torrent' \in Reviews!Torrent /\ UNCHANGED <<base, due, byHand, review>>
          /\ torrent'.uploaded = torrent.uploaded /\ torrent'.stirred = torrent.stirred
      BY <1>0, <1>3, ReviewsTypes, ReviewsGone DEF Reviews!Shift, Reviews!Leave,
         Reviews!TypeOK, Reviews!Torrent
    <2>2. Reviews!TypeOK'
      BY <1>0, <2>1 DEF Reviews!TypeOK
    <2>3. Reviews!BaseSound' /\ Reviews!HandsSound' /\ Reviews!JudgedSound'
      BY <1>0, <2>1 DEF Reviews!BaseSound, Reviews!Before, Reviews!HandsSound, Reviews!JudgedSound
    <2> QED
      BY <2>2, <2>3 DEF Reviews!Inv
  <1>4. CASE Reviews!Readd
    <2>1. /\ torrent' = Reviews!Grabbed /\ UNCHANGED <<due, byHand>>
          /\ base'.up = base.up /\ base' \in Reviews!Entry
          /\ base'.own <=> base.up = Reviews!None
      BY <1>0, <1>4 DEF Reviews!Readd, Reviews!TypeOK, Reviews!Entry
    <2>2. ASSUME NEW r \in Reviews!Reviewers
          PROVE  /\ review'[r] \in Reviews!Passes
                 /\ review'[r].pc = review[r].pc /\ review'[r].dry = review[r].dry
                 /\ review'[r].hand = review[r].hand /\ review'[r].own = review[r].own
                 /\ review'[r].stirred = review[r].stirred /\ review'[r].next.up = review[r].next.up
                 /\ review'[r].next.own <=> review[r].next.up = Reviews!None
      BY <1>0, <1>4 DEF Reviews!Readd, Reviews!TypeOK, Reviews!Passes, Reviews!Entry
    <2>3. Reviews!TypeOK'
      <3>1. review' \in [Reviews!Reviewers -> Reviews!Passes]
        BY <1>4, <2>2 DEF Reviews!Readd
      <3> QED
        BY <1>0, <2>1, <3>1, ReviewsIdle DEF Reviews!TypeOK
    <2>4. Reviews!BaseSound'
      BY <2>1, <2>2 DEF Reviews!BaseSound, Reviews!Before
    <2>5. Reviews!HandsSound'
      BY <1>0, <2>1, <2>2, ReviewsTypes DEF Reviews!HandsSound
    <2>6. Reviews!JudgedSound'
      BY <1>0, <2>1, <2>2, ReviewsTypes DEF Reviews!JudgedSound
    <2> QED
      BY <2>3, <2>4, <2>5, <2>6 DEF Reviews!Inv
  <1>5. CASE Reviews!Restart
    <2>1. \A r \in Reviews!Reviewers : review'[r] = Reviews!Idle
      BY <1>5 DEF Reviews!Restart
    <2>2. Reviews!TypeOK'
      BY <1>0, <1>5, ReviewsIdle DEF Reviews!Restart, Reviews!TypeOK
    <2>3. Reviews!BaseSound' /\ Reviews!HandsSound' /\ Reviews!JudgedSound'
      BY <1>0, <1>5, <2>1, ReviewsTypes DEF Reviews!Restart, Reviews!Idle, Reviews!BaseSound,
         Reviews!Before, Reviews!HandsSound, Reviews!JudgedSound
    <2> QED
      BY <2>2, <2>3 DEF Reviews!Inv
  <1> QED
    BY <1>1, <1>2, <1>3, <1>4, <1>5

\* The timer's look ends the week.
LEMMA ReviewsTimerStep ==
  ASSUME Reviews!ReviewsAssumption, Reviews!Inv, Reviews!TimerLooks
  PROVE  Reviews!Inv'
  <1> DEFINE p == [pc |-> "look", dry |-> FALSE, saw |-> Reviews!Saw,
                   next |-> IF torrent.here THEN [up |-> torrent.uploaded, own |-> TRUE]
                                            ELSE Reviews!NoEntry,
                   stirred |-> torrent.stirred, hand |-> byHand, own |-> TRUE]
  <1>0. Reviews!TypeOK /\ Reviews!BaseSound /\ Reviews!HandsSound /\ Reviews!JudgedSound
    BY DEF Reviews!Inv
  <1>1. p \in Reviews!Passes
    BY <1>0, ReviewsTypes, ReviewsIdle DEF Reviews!TypeOK, Reviews!Passes, Reviews!Entry, Reviews!Saw
  <1>2. /\ due /\ due' = FALSE /\ byHand' = FALSE /\ base' = base /\ review' = [review EXCEPT !["timer"] = p]
        /\ torrent' = [torrent EXCEPT !.stirred = FALSE]
    BY DEF Reviews!TimerLooks, Reviews!Look
  <1>3. /\ review' \in [Reviews!Reviewers -> Reviews!Passes] /\ review'["timer"] = p
        /\ \A q \in Reviews!Reviewers \ {"timer"} : review'[q] = review[q]
    BY <1>0, <1>1, <1>2, ReviewsTypes, ReviewsGoesOn
  <1>4. torrent' \in Reviews!Torrent /\ torrent'.uploaded = torrent.uploaded /\ ~ torrent'.stirred
    BY <1>0, <1>2, ReviewsTypes DEF Reviews!TypeOK, Reviews!Torrent
  <1>5. Reviews!TypeOK'
    BY <1>0, <1>2, <1>3, <1>4 DEF Reviews!TypeOK
  <1>6. Reviews!BaseSound'
    <2>1. Reviews!Before(base)'
      BY <1>0, <1>2, <1>4 DEF Reviews!BaseSound, Reviews!Before
    <2>2. ASSUME NEW r \in Reviews!Reviewers, review'[r].pc # "idle", ~ review'[r].dry
          PROVE  Reviews!Before(review[r].next)'
      <3>1. CASE r = "timer"
        BY <1>0, <1>3, <1>4, <3>1, ReviewsTypes DEF Reviews!Before, Reviews!NoEntry
      <3>2. CASE r # "timer"
        BY <1>0, <1>3, <1>4, <2>2, <3>2 DEF Reviews!BaseSound, Reviews!Before
      <3> QED
        BY <3>1, <3>2
    <2> QED
      BY <2>1, <2>2 DEF Reviews!BaseSound
  <1>7. Reviews!HandsSound'
    BY <1>0, <1>2, <1>3, ReviewsTypes DEF Reviews!HandsSound
  <1>8. Reviews!JudgedSound'
    BY <1>0, <1>2, <1>3 DEF Reviews!JudgedSound, Reviews!BaseSound, Reviews!Before, Reviews!NoEntry
  <1> QED
    BY <1>5, <1>6, <1>7, <1>8 DEF Reviews!Inv

\* A look by hand.
LEMMA ReviewsRouteStep ==
  ASSUME Reviews!ReviewsAssumption, Reviews!Inv, NEW r \in Routes, Reviews!RouteLooks(r)
  PROVE  Reviews!Inv'
  <1>0. Reviews!TypeOK /\ Reviews!BaseSound /\ Reviews!HandsSound /\ Reviews!JudgedSound
    BY DEF Reviews!Inv
  <1>1. PICK dry \in BOOLEAN : Reviews!Look(r, dry, FALSE, FALSE) /\ byHand' = (byHand \/ ~ dry)
    BY DEF Reviews!RouteLooks
  <1> DEFINE p == [pc |-> "look", dry |-> dry, saw |-> Reviews!Saw,
                   next |-> IF torrent.here THEN [up |-> torrent.uploaded, own |-> TRUE]
                                            ELSE Reviews!NoEntry,
                   stirred |-> FALSE, hand |-> FALSE, own |-> TRUE]
  <1>2. p \in Reviews!Passes
    BY <1>0, ReviewsTypes, ReviewsIdle DEF Reviews!TypeOK, Reviews!Passes, Reviews!Entry, Reviews!Saw
  <1>3. UNCHANGED <<torrent, due, base>> /\ review' = [review EXCEPT ![r] = p]
    BY <1>1 DEF Reviews!RouteLooks, Reviews!Look
  <1>4. /\ review' \in [Reviews!Reviewers -> Reviews!Passes] /\ review'[r] = p
        /\ \A q \in Reviews!Reviewers \ {r} : review'[q] = review[q]
    BY <1>0, <1>2, <1>3, ReviewsTypes, ReviewsGoesOn
  <1>5. Reviews!TypeOK'
    BY <1>0, <1>1, <1>3, <1>4 DEF Reviews!TypeOK
  <1>6. Reviews!BaseSound'
    <2>1. Reviews!Before(base)'
      BY <1>0, <1>1, <1>3 DEF Reviews!BaseSound, Reviews!Before
    <2>2. ASSUME NEW q \in Reviews!Reviewers, review'[q].pc # "idle", ~ review'[q].dry
          PROVE  Reviews!Before(review[q].next)'
      <3>1. CASE q = r
        BY <1>0, <1>1, <1>3, <1>4, <2>2, <3>1, ReviewsTypes DEF Reviews!Before, Reviews!NoEntry
      <3>2. CASE q # r
        BY <1>0, <1>1, <1>3, <1>4, <2>2, <3>2 DEF Reviews!BaseSound, Reviews!Before
      <3> QED
        BY <3>1, <3>2
    <2> QED
      BY <2>1, <2>2 DEF Reviews!BaseSound
  <1>7. Reviews!HandsSound'
    BY <1>0, <1>1, <1>3, <1>4, ReviewsTypes DEF Reviews!HandsSound
  <1>8. Reviews!JudgedSound'
    BY <1>0, <1>1, <1>3, <1>4, ReviewsTypes DEF Reviews!JudgedSound
  <1> QED
    BY <1>5, <1>6, <1>7, <1>8 DEF Reviews!Inv

\* A review judges by the baseline that it loads.
LEMMA ReviewsJudgeStep ==
  ASSUME Reviews!ReviewsAssumption, Reviews!Inv, NEW r \in Reviews!Reviewers, Reviews!Judge(r)
  PROVE  Reviews!Inv'
  <1>0. /\ Reviews!TypeOK /\ Reviews!BaseSound /\ Reviews!HandsSound /\ Reviews!JudgedSound
        /\ review[r].pc = "look"
    BY DEF Reviews!Inv, Reviews!Judge
  <1>1. PICK goes \in BOOLEAN :
          /\ goes => Reviews!Stalled(r) /\ ~ review[r].dry
          /\ review' = [review EXCEPT ![r] =
               [@ EXCEPT !.pc = IF goes THEN "remove" ELSE "save", !.saw = "skipped",
                         !.next = IF review[r].saw = "skipped" /\ review[r].next.up # Reviews!None
                                  THEN base ELSE review[r].next,
                         !.hand = review[r].hand \/ (r = "timer" /\ byHand),
                         !.own = r = "timer" => base.own]]
    BY DEF Reviews!Judge
  <1> DEFINE p == [review[r] EXCEPT !.pc = IF goes THEN "remove" ELSE "save", !.saw = "skipped",
                         !.next = IF review[r].saw = "skipped" /\ review[r].next.up # Reviews!None
                                  THEN base ELSE review[r].next,
                         !.hand = review[r].hand \/ (r = "timer" /\ byHand),
                         !.own = r = "timer" => base.own]
  <1>2. p \in Reviews!Passes
    <2>1. base \in Reviews!Entry /\ review[r] \in Reviews!Passes /\ review[r].next \in Reviews!Entry
      BY <1>0, ReviewsPassTypes DEF Reviews!TypeOK
    <2>2. review[r].hand \in BOOLEAN /\ byHand \in BOOLEAN /\ base.own \in BOOLEAN
      BY <1>0, ReviewsTypes, ReviewsPassTypes DEF Reviews!TypeOK
    <2> QED
      BY <2>1, <2>2 DEF Reviews!Passes
  <1>3. /\ review' = [review EXCEPT ![r] = p]
        /\ p.pc = (IF goes THEN "remove" ELSE "save") /\ p.dry = review[r].dry
        /\ p.hand = (review[r].hand \/ (r = "timer" /\ byHand)) /\ p.own = (r = "timer" => base.own)
        /\ p.stirred = review[r].stirred
        /\ p.next \in {base, review[r].next}
    BY <1>0, <1>1 DEF Reviews!TypeOK, Reviews!Passes
  <1> HIDE DEF p
  <1>4. /\ review' \in [Reviews!Reviewers -> Reviews!Passes] /\ review'[r] = p
        /\ \A q \in Reviews!Reviewers \ {r} : review'[q] = review[q]
        /\ UNCHANGED <<torrent, base, due, byHand>>
    BY <1>0, <1>2, <1>3, ReviewsGoesOn DEF Reviews!Judge
  <1>5. Reviews!TypeOK'
    BY <1>0, <1>4 DEF Reviews!TypeOK
  <1>6. Reviews!BaseSound'
    <2>1. Reviews!Before(base)'
      BY <1>0, <1>4 DEF Reviews!BaseSound, Reviews!Before
    <2>2. ASSUME NEW q \in Reviews!Reviewers, review'[q].pc # "idle", ~ review'[q].dry
          PROVE  Reviews!Before(review[q].next)'
      <3>1. review[q].pc # "idle" /\ ~ review[q].dry
        BY <1>0, <1>3, <1>4, <2>2
      <3>2. review'[q].next = review[q].next \/ review'[q].next = base
        BY <1>3, <1>4
      <3> QED
        BY <1>0, <1>4, <3>1, <3>2 DEF Reviews!BaseSound, Reviews!Before
    <2> QED
      BY <2>1, <2>2 DEF Reviews!BaseSound
  <1>7. Reviews!HandsSound'
    <2>1. \A q \in Reviews!Reviewers : review'[q].pc = "idle" <=> review[q].pc = "idle"
      BY <1>0, <1>3, <1>4
    <2>2. \A q \in Reviews!Reviewers : review'[q].dry = review[q].dry
      BY <1>3, <1>4
    <2>3. review'["timer"].pc = "look" => review'["timer"] = review["timer"]
      BY <1>0, <1>3, <1>4, ReviewsTypes
    <2> QED
      BY <1>0, <1>4, <2>1, <2>2, <2>3, ReviewsTypes DEF Reviews!HandsSound
  <1>8. Reviews!JudgedSound'
    <2>1. CASE r # "timer"
      BY <1>0, <1>4, <2>1, ReviewsTypes DEF Reviews!JudgedSound
    <2>2. CASE r = "timer"
      <3>1. /\ ~ review'["timer"].dry /\ ~ due /\ review'["timer"].pc # "look"
        BY <1>0, <1>3, <1>4, <2>2 DEF Reviews!JudgedSound
      <3>2. ASSUME review'["timer"].pc = "remove", review[r].stirred, ~ review[r].hand,
                   ~ byHand, base.own
            PROVE  FALSE
        <4>1. goes
          BY <1>3, <1>4, <2>2, <3>2
        <4>2. base.up # Reviews!None /\ review[r].next.up # Reviews!None /\ review[r].next.up - base.up < 1
          BY <1>1, <4>1 DEF Reviews!Stalled
        <4>3. review[r].next.up > base.up
          BY <1>0, <2>2, <3>2, <4>2 DEF Reviews!JudgedSound
        <4> QED
          BY <1>0, <4>2, <4>3, ReviewsTypes, ReviewsPassTypes
      <3> QED
        BY <1>3, <1>4, <2>2, <3>1, <3>2 DEF Reviews!JudgedSound
    <2> QED
      BY <2>1, <2>2
  <1> QED
    BY <1>5, <1>6, <1>7, <1>8 DEF Reviews!Inv

\* The rest of a review: the removal, and the end.
LEMMA ReviewsEndStep ==
  ASSUME Reviews!ReviewsAssumption, Reviews!Inv, NEW r \in Reviews!Reviewers,
         Reviews!Unseed(r) \/ Reviews!Defer(r) \/ Reviews!SaveReview(r) \/ Reviews!ReviewFails(r)
  PROVE  Reviews!Inv'
  <1>0. Reviews!TypeOK /\ Reviews!BaseSound /\ Reviews!HandsSound /\ Reviews!JudgedSound
    BY DEF Reviews!Inv
  <1>1. PICK p \in Reviews!Passes :
          /\ review' = [review EXCEPT ![r] = p]
          /\ p.pc \in {"idle", "save"} /\ (p.pc = "save" => review[r].pc = "remove")
          /\ p.pc # "idle" => p.dry = review[r].dry /\ p.next \in {review[r].next, Reviews!NoEntry}
          /\ ~ p.dry \/ p.dry = review[r].dry
    <2>1. Reviews!Idle \in Reviews!Passes /\ Reviews!Idle.pc = "idle" /\ ~ Reviews!Idle.dry
      BY ReviewsIdle DEF Reviews!Idle
    <2>2. CASE Reviews!SaveReview(r) \/ Reviews!ReviewFails(r)
      BY <2>1, <2>2 DEF Reviews!SaveReview, Reviews!ReviewFails
    <2>3. CASE Reviews!Unseed(r)
      <3> DEFINE p == [review[r] EXCEPT !.pc = "save", !.next = Reviews!NoEntry]
      <3>1. /\ p \in Reviews!Passes /\ p.pc = "save" /\ p.dry = review[r].dry
            /\ p.next = Reviews!NoEntry
        BY <1>0, ReviewsIdle DEF Reviews!TypeOK, Reviews!Passes
      <3> QED
        BY <2>3, <3>1 DEF Reviews!Unseed
    <2>4. CASE Reviews!Defer(r)
      <3> DEFINE p == [review[r] EXCEPT !.pc = "save"]
      <3>1. /\ p \in Reviews!Passes /\ p.pc = "save" /\ p.dry = review[r].dry
            /\ p.next = review[r].next
        BY <1>0 DEF Reviews!TypeOK, Reviews!Passes
      <3> QED
        BY <2>4, <3>1 DEF Reviews!Defer
    <2> QED
      BY <2>2, <2>3, <2>4
  <1>2. /\ review' \in [Reviews!Reviewers -> Reviews!Passes] /\ review'[r] = p
        /\ \A q \in Reviews!Reviewers \ {r} : review'[q] = review[q]
    BY <1>0, <1>1, ReviewsGoesOn
  <1>3. /\ torrent' \in Reviews!Torrent /\ torrent'.uploaded = torrent.uploaded
        /\ torrent'.stirred = torrent.stirred /\ UNCHANGED <<due, byHand>>
    BY <1>0, ReviewsGone DEF Reviews!Unseed, Reviews!Defer, Reviews!SaveReview,
       Reviews!ReviewFails, Reviews!TypeOK
  <1>4. \/ base' = base
        \/ base' = review[r].next /\ review[r].pc # "idle" /\ ~ review[r].dry /\ p.pc = "idle"
    <2>1. CASE Reviews!SaveReview(r)
      <3>1. review' = [review EXCEPT ![r] = Reviews!Idle] /\ review[r].pc = "save"
        BY <2>1 DEF Reviews!SaveReview
      <3>2. p = Reviews!Idle
        BY <1>0, <1>2, <3>1 DEF Reviews!TypeOK
      <3> QED
        BY <2>1, <3>1, <3>2 DEF Reviews!SaveReview, Reviews!Idle
    <2> QED
      BY <2>1 DEF Reviews!Unseed, Reviews!Defer, Reviews!ReviewFails
  <1>5. Reviews!TypeOK'
    BY <1>0, <1>2, <1>3, <1>4, ReviewsPassTypes DEF Reviews!TypeOK
  <1>6. Reviews!BaseSound'
    <2>1. Reviews!Before(base)'
      BY <1>0, <1>3, <1>4 DEF Reviews!BaseSound, Reviews!Before
    <2>2. ASSUME NEW q \in Reviews!Reviewers, review'[q].pc # "idle", ~ review'[q].dry
          PROVE  Reviews!Before(review[q].next)'
      <3>1. \/ review[q].pc # "idle" /\ ~ review[q].dry /\ review'[q].next = review[q].next
            \/ review'[q].next = Reviews!NoEntry
        BY <1>0, <1>1, <1>2, <2>2
      <3> QED
        BY <1>0, <1>3, <3>1 DEF Reviews!BaseSound, Reviews!Before, Reviews!NoEntry
    <2> QED
      BY <2>1, <2>2 DEF Reviews!BaseSound
  <1>7. Reviews!HandsSound'
    <2>1. \A q \in Reviews!Reviewers :
            review'[q].pc # "idle" => review[q].pc # "idle" /\ review'[q].dry = review[q].dry
      BY <1>1, <1>2
    <2>2. review'["timer"].pc = "look" => review'["timer"] = review["timer"]
      BY <1>0, <1>1, <1>2, ReviewsTypes
    <2> QED
      BY <1>0, <1>3, <2>1, <2>2, ReviewsTypes DEF Reviews!HandsSound
  <1>8. Reviews!JudgedSound'
    <2>1. CASE r = "timer"
      BY <1>0, <1>1, <1>2, <1>3, <2>1 DEF Reviews!JudgedSound
    <2>2. CASE r # "timer"
      <3>1. review'["timer"] = review["timer"]
        BY <1>0, <1>2, <2>2, ReviewsTypes
      <3>2. /\ review["timer"].pc = "look" /\ ~ review["timer"].hand /\ ~ byHand => base' = base
        BY <1>0, <1>4, <2>2 DEF Reviews!HandsSound, Reviews!Reviewers
      <3> QED
        BY <1>0, <1>3, <3>1, <3>2 DEF Reviews!JudgedSound
    <2> QED
      BY <2>1, <2>2
  <1> QED
    BY <1>5, <1>6, <1>7, <1>8 DEF Reviews!Inv

\* Every step keeps the invariant.
LEMMA ReviewsStepInv ==
  ASSUME Reviews!ReviewsAssumption, Reviews!Inv, [Reviews!Next]_reviews
  PROVE  Reviews!Inv'
  <1>1. CASE UNCHANGED reviews
    BY <1>1 DEF reviews, Reviews!Inv, Reviews!TypeOK, Reviews!BaseSound, Reviews!Before,
       Reviews!HandsSound, Reviews!JudgedSound
  <1> QED
    BY <1>1, ReviewsWorldStep, ReviewsTimerStep, ReviewsRouteStep, ReviewsJudgeStep,
       ReviewsEndStep DEF Reviews!Next

\* Only its own removal takes the timer's review on while the torrent goes.
LEMMA ReviewsQuietStep ==
  ASSUME Reviews!ReviewsAssumption, Reviews!Inv,
         review["timer"].pc = "remove"
  PROVE  ~ review["timer"].stirred \/ review["timer"].hand \/ ~ review["timer"].own
  BY DEF Reviews!Inv, Reviews!JudgedSound

\* What the services do is a step of the reviews', or does not concern them.
LEMMA ReviewsMove == [Next]_vars => [Reviews!Next]_reviews
  BY DEF Next, vars

\* The torrent, its baseline and the reviews keep their types; a baseline of
\* this torrent is from the timer's look before, or a review by hand has looked.
THEOREM ReviewsInvariant == Spec => []Reviews!Inv
  <1>1. Init => Reviews!Inv
    BY ServicesAssumption, ReviewsInitInv DEF Init
  <1>2. Reviews!Inv /\ [Next]_vars => Reviews!Inv'
    BY ServicesAssumption, ReviewsStepInv, ReviewsMove
  <1> QED
    BY <1>1, <1>2, PTL DEF Spec

\* _review_stalled_seeds of the timer unseeds only what has not uploaded since
\* its look a week before, whatever previews, skips, deferrals, grabs anew and
\* failed reviews came between, for any number of weeks to seed and of routes.
THEOREM QuietBeforeUnseed == Spec => QuietForAWeek
  <1>1. Reviews!Inv /\ [Reviews!Next]_reviews
          => [torrent.here /\ ~ torrent'.here /\ review["timer"].pc = "remove"
                /\ review'["timer"] # review["timer"]
                => ~ review["timer"].stirred \/ review["timer"].hand \/ ~ review["timer"].own]_reviews
    BY ServicesAssumption, ReviewsQuietStep
  <1> QED
    BY <1>1, ReviewsInvariant, ReviewsMove, PTL DEF Spec, QuietForAWeek, Reviews!QuietForAWeek,
       reviews, Reviews!reviews

-----------------------------------------------------------------------------
\* No handler is at work.
LEMMA HooksInitInv ==
  ASSUME Hooks!WebhooksAssumption, Hooks!Init
  PROVE  Hooks!Inv
  BY DEF Hooks!WebhooksAssumption, Hooks!Init, Hooks!Inv, Hooks!TypeOK, Hooks!HandlersBehind,
     Hooks!OwnSpared, Hooks!Lane

\* A step that leaves the import handlers, and the library, alone.
LEMMA HooksRest ==
  ASSUME Hooks!Inv, Hooks!TypeOK', UNCHANGED <<current, Hooks!importer>>
  PROVE  Hooks!Inv'
  BY DEF Hooks!Inv, Hooks!HandlersBehind, Hooks!OwnSpared, Hooks!importer

\* A grab, from its event to its end, and what Deluge does.
LEMMA HooksGrabStep ==
  ASSUME Hooks!WebhooksAssumption, Hooks!Inv, NEW t \in Torrents,
         Hooks!Grab(t) \/ Hooks!Register(t) \/ Hooks!GrabStep(t) \/ Hooks!LaneRelabel(t) \/ Hooks!Progress(t)
  PROVE  Hooks!Inv'
  <1> USE DEF Hooks!Inv, Hooks!TypeOK, Hooks!WebhooksAssumption, Hooks!Lane, Hooks!GrabAt,
     Hooks!SetLabel, Hooks!Present
  <1>1. CASE Hooks!Grab(t)
    <2>1. Hooks!TypeOK'
      BY <1>1 DEF Hooks!Grab, Hooks!deluge, Hooks!importer
    <2> QED
      BY <1>1, <2>1, HooksRest DEF Hooks!Grab
  <1>2. CASE Hooks!Register(t)
    <2>1. Hooks!TypeOK'
      BY <1>2 DEF Hooks!Register, Hooks!importer
    <2> QED
      BY <1>2, <2>1, HooksRest DEF Hooks!Register
  <1>3. CASE Hooks!LabelBlank(t)
    <2>1. Hooks!TypeOK'
      BY <1>3 DEF Hooks!LabelBlank, Hooks!importer
    <2> QED
      BY <1>3, <2>1, HooksRest DEF Hooks!LabelBlank
  <1>4. CASE Hooks!IsUpgrade(t)
    <2>1. Hooks!TypeOK'
      BY <1>4 DEF Hooks!IsUpgrade, Hooks!deluge, Hooks!importer
    <2> QED
      BY <1>4, <2>1, HooksRest DEF Hooks!IsUpgrade
  <1>5. CASE Hooks!Advise(t)
    <2>1. Hooks!TypeOK'
      BY <1>5 DEF Hooks!Advise, Hooks!deluge, Hooks!importer
    <2> QED
      BY <1>5, <2>1, HooksRest DEF Hooks!Advise
  <1>6. CASE Hooks!Reject(t)
    <2>1. Hooks!TypeOK'
      BY <1>6 DEF Hooks!Reject, Hooks!RemoveTorrent, Hooks!deluge, Hooks!importer
    <2> QED
      BY <1>6, <2>1, HooksRest DEF Hooks!Reject
  <1>7. CASE Hooks!Status(t)
    <2>1. Hooks!TypeOK'
      BY <1>7 DEF Hooks!Status, Hooks!deluge, Hooks!importer
    <2> QED
      BY <1>7, <2>1, HooksRest DEF Hooks!Status
  <1>8. CASE Hooks!Revive(t)
    <2>1. Hooks!TypeOK'
      BY <1>8 DEF Hooks!Revive, Hooks!importer
    <2> QED
      BY <1>8, <2>1, HooksRest DEF Hooks!Revive
  <1>9. CASE Hooks!Throttle(t)
    <2>1. Hooks!TypeOK'
      BY <1>9 DEF Hooks!Throttle, Hooks!importer
    <2> QED
      BY <1>9, <2>1, HooksRest DEF Hooks!Throttle
  <1>10. CASE Hooks!GrabFails(t)
    <2>1. Hooks!TypeOK'
      BY <1>10 DEF Hooks!GrabFails, Hooks!deluge, Hooks!importer
    <2> QED
      BY <1>10, <2>1, HooksRest DEF Hooks!GrabFails
  <1>11. CASE Hooks!LaneRelabel(t)
    <2>1. Hooks!TypeOK'
      BY <1>11 DEF Hooks!LaneRelabel, Hooks!importer
    <2> QED
      BY <1>11, <2>1, HooksRest DEF Hooks!LaneRelabel
  <1>12. CASE Hooks!Progress(t)
    <2>1. Hooks!TypeOK'
      BY <1>12 DEF Hooks!Progress, Hooks!importer
    <2> QED
      BY <1>12, <2>1, HooksRest DEF Hooks!Progress
  <1> QED
    BY <1>1, <1>2, <1>3, <1>4, <1>5, <1>6, <1>7, <1>8, <1>9, <1>10, <1>11, <1>12 DEF
       Hooks!GrabStep

\* An import makes the release current; the handlers at work are overtaken.
LEMMA HooksImportStep ==
  ASSUME Hooks!WebhooksAssumption, Hooks!Inv, NEW t \in Torrents, Hooks!Import(t)
  PROVE  Hooks!Inv'
  <1>1. Hooks!TypeOK'
    BY DEF Hooks!WebhooksAssumption, Hooks!Inv, Hooks!TypeOK, Hooks!Import, Hooks!ImportAt,
       Hooks!deluge, Hooks!Lane, Hooks!Present
  <1>2. Hooks!HandlersBehind' /\ Hooks!OwnSpared'
    BY DEF Hooks!Inv, Hooks!TypeOK, Hooks!HandlersBehind, Hooks!OwnSpared, Hooks!Import,
       Hooks!ImportAt
  <1> QED
    BY <1>1, <1>2 DEF Hooks!Inv

\* An import handler's step.
LEMMA HooksHandlerStep ==
  ASSUME Hooks!WebhooksAssumption, Hooks!Inv, NEW n \in Torrents, Hooks!ImportStep(n)
  PROVE  Hooks!Inv'
  <1> USE DEF Hooks!Inv, Hooks!TypeOK, Hooks!HandlersBehind, Hooks!OwnSpared, Hooks!ImportAt,
     Hooks!deluge
  <1>1. CASE Hooks!Claim(n)
    BY <1>1 DEF Hooks!Claim
  <1>2. CASE Hooks!Flip(n)
    BY <1>2 DEF Hooks!Flip, Hooks!SetLabel, Hooks!Lane
  <1>3. CASE Hooks!List(n)
    <2>1. Hooks!Targets(n) \subseteq Torrents \ {n}
      BY DEF Hooks!Targets
    <2> QED
      BY <1>3, <2>1 DEF Hooks!List
  <1>4. CASE Hooks!ImportFails(n)
    BY <1>4 DEF Hooks!ImportFails
  <1>5. CASE Hooks!SweepEnds(n)
    BY <1>5 DEF Hooks!SweepEnds
  <1>6. ASSUME NEW t \in Torrents, Hooks!Sweep(n, t)
        PROVE  Hooks!Inv'
    <2>1. Hooks!TypeOK'
      BY <1>6 DEF Hooks!Sweep, Hooks!SetLabel, Hooks!RemoveTorrent, Hooks!Lane, Hooks!Present
    <2>2. Hooks!HandlersBehind' /\ Hooks!OwnSpared'
      BY <1>6 DEF Hooks!Sweep
    <2> QED
      BY <2>1, <2>2
  <1> QED
    BY <1>1, <1>2, <1>3, <1>4, <1>5, <1>6 DEF Hooks!ImportStep

\* Every step keeps the invariant.
LEMMA HooksStepInv ==
  ASSUME Hooks!WebhooksAssumption, Hooks!Inv, [Hooks!Next]_hooks
  PROVE  Hooks!Inv'
  <1>1. CASE UNCHANGED hooks
    BY <1>1 DEF hooks, Hooks!deluge, Hooks!importer, Hooks!Inv, Hooks!TypeOK,
       Hooks!HandlersBehind, Hooks!OwnSpared
  <1> QED
    BY <1>1, HooksGrabStep, HooksImportStep, HooksHandlerStep DEF Hooks!Next

\* Only a rejected grab and the sweep of an import take the label of the
\* current release, and the sweep only that of a handler that is overtaken.
LEMMA HooksCurrentStep ==
  ASSUME Hooks!Inv, Hooks!Next, current \in Torrents,
         label[current] \notin {"absent", "superseded"},
         label'[current] \in {"absent", "superseded"}
  PROVE  \/ grab[current] = "reject"
         \/ \E n \in Torrents : view'[n] # view[n] /\ current \in overtaken[n]
  <1> USE DEF Hooks!Inv, Hooks!TypeOK, Hooks!SetLabel, Hooks!Present, Hooks!deluge
  <1>1. CASE \E t \in Torrents :
               Hooks!Grab(t) \/ Hooks!Register(t) \/ Hooks!GrabStep(t) \/ Hooks!LaneRelabel(t) \/ Hooks!Progress(t) \/ Hooks!Import(t)
    <2>1. PICK t \in Torrents : Hooks!Reject(t)
      BY <1>1 DEF Hooks!Grab, Hooks!Register, Hooks!GrabStep, Hooks!LaneRelabel,
         Hooks!Progress, Hooks!Import, Hooks!LabelBlank, Hooks!IsUpgrade, Hooks!Advise,
         Hooks!Status, Hooks!Revive, Hooks!Throttle, Hooks!GrabFails
    <2>2. t = current
      BY <2>1 DEF Hooks!Reject, Hooks!RemoveTorrent
    <2> QED
      BY <2>1, <2>2 DEF Hooks!Reject
  <1>2. CASE \E n \in Torrents : Hooks!ImportStep(n)
    <2>1. PICK n \in Torrents, t \in Torrents : Hooks!Sweep(n, t)
      BY <1>2 DEF Hooks!ImportStep, Hooks!Claim, Hooks!Flip, Hooks!List, Hooks!ImportFails,
         Hooks!SweepEnds
    <2>2. t = current
      BY <2>1 DEF Hooks!Sweep, Hooks!RemoveTorrent
    <2>3. current \in view[n] /\ view'[n] = view[n] \ {current} /\ import[n] = "sweep"
      BY <2>1, <2>2 DEF Hooks!Sweep
    <2> QED
      BY <2>3 DEF Hooks!HandlersBehind, Hooks!OwnSpared
  <1> QED
    BY <1>1, <1>2 DEF Hooks!Next

\* What the services do is a step of the webhooks', or does not concern them.
LEMMA HooksMove == [Next]_vars => [Hooks!Next]_hooks
  BY DEF Next, vars

\* The handlers keep their types; one that is at work is the current release's,
\* or is overtaken, and does not list its own release.
THEOREM HooksInvariant == Spec => []Hooks!Inv
  <1>1. Init => Hooks!Inv
    BY ServicesAssumption, HooksInitInv DEF Init
  <1>2. Hooks!Inv /\ [Next]_vars => Hooks!Inv'
    BY ServicesAssumption, HooksStepInv, HooksMove
  <1> QED
    BY <1>1, <1>2, PTL DEF Spec

\* However the events of the releases of a title come and go, none that was
\* not overtaken supersedes or deletes the release that the library holds.
THEOREM CurrentStays == Spec => CurrentKept
  <1> DEFINE Kept ==
        \A t \in Torrents :
          t = current /\ label[t] \notin {"absent", "superseded"}
            /\ label'[t] \in {"absent", "superseded"}
          => \/ grab[t] = "reject"
             \/ \E n \in Torrents : view'[n] # view[n] /\ t \in overtaken[n]
  <1>1. Hooks!Inv /\ [Hooks!Next]_hooks => [Kept]_hooks
    BY HooksCurrentStep
  <1>2. Hooks!Inv /\ [Next]_vars => [Kept]_hooks
    BY <1>1, HooksMove
  <1>3. []Hooks!Inv /\ [][Next]_vars => [][Kept]_hooks
    BY <1>2, PTL
  <1>4. [][Kept]_hooks => CurrentKept
    BY DEF CurrentKept, Hooks!CurrentKept, hooks, Hooks!vars, Hooks!deluge, Hooks!importer
  <1> QED
    BY <1>3, <1>4, HooksInvariant, PTL DEF Spec

-----------------------------------------------------------------------------
\* Nothing is recorded, and no trim is at work.
LEMMA LogsInitInv ==
  ASSUME Logs!LogAssumption, Logs!Init
  PROVE  Logs!Inv
  BY DEF Logs!LogAssumption, Logs!Init, Logs!Inv, Logs!TypeOK, Logs!EvidenceKept,
     Logs!KeptEnough, Logs!AtRest

\* The types, one by one.
LEMMA LogsTypes ==
  ASSUME Logs!LogAssumption, Logs!TypeOK
  PROVE  /\ week \in Nat /\ next \in Nat /\ Entries \in Nat
         /\ \A e \in owed : e \in Logs!Entry /\ e.ts \in Nat
         /\ trim.kept \in SUBSET Logs!Entry
  BY DEF Logs!LogAssumption, Logs!TypeOK, Logs!Entry

\* Something is recorded, or time goes by.
LEMMA LogsRecordStep ==
  ASSUME Logs!LogAssumption, Logs!Inv, Logs!Record \/ Logs!NextWeek
  PROVE  Logs!Inv'
  <1> USE DEF Logs!Inv, Logs!EvidenceKept, Logs!KeptEnough
  <1>1. CASE Logs!Record
    <2> DEFINE entry == [n |-> next, ts |-> week]
               read == IF trim.torn THEN {} ELSE {entry}
    <2>1. entry \in Logs!Entry /\ next' \in 0 .. Entries
      BY <1>1, LogsTypes DEF Logs!Record, Logs!TypeOK, Logs!Entry
    <2>2. /\ activity' = activity \union read /\ week' = week
          /\ owed' = IF trim.pc = "away" THEN owed \union read ELSE owed
          /\ trim' = [trim EXCEPT !.torn = FALSE]
      BY <1>1 DEF Logs!Record
    <2>3. read \in SUBSET Logs!Entry
      BY <2>1
    <2> HIDE DEF read
    <2>4. trim'.pc = trim.pc /\ trim'.kept = trim.kept
      BY <2>2 DEF Logs!TypeOK
    <2>5. Logs!TypeOK'
      BY <2>1, <2>2, <2>3 DEF Logs!TypeOK
    <2>6. Logs!EvidenceKept' /\ Logs!KeptEnough'
      BY <2>2, <2>4
    <2> QED
      BY <2>5, <2>6
  <1>2. CASE Logs!NextWeek
    <2>1. Logs!TypeOK'
      BY <1>2 DEF Logs!LogAssumption, Logs!NextWeek, Logs!TypeOK
    <2>2. \A e \in owed : week' <= e.ts + 1 => week <= e.ts + 1
      BY <1>2, LogsTypes DEF Logs!NextWeek
    <2>3. Logs!EvidenceKept' /\ Logs!KeptEnough'
      BY <1>2, <2>2 DEF Logs!NextWeek
    <2> QED
      BY <2>1, <2>3
  <1> QED
    BY <1>1, <1>2

\* A trim goes on, to its end or not.
LEMMA LogsTrimStep ==
  ASSUME Logs!LogAssumption, Logs!Inv,
         Logs!ReadActivity \/ Logs!Truncate \/ Logs!Rewrite \/ Logs!TrimCut
  PROVE  Logs!Inv'
  <1> USE DEF Logs!Inv, Logs!EvidenceKept, Logs!KeptEnough
  <1>1. CASE Logs!ReadActivity
    <2>1. /\ trim'.pc = "open" /\ trim'.kept = {e \in activity : Logs!Recent(e)}
          /\ trim' \in [pc : {"away", "open", "write"}, kept : SUBSET Logs!Entry, torn : BOOLEAN]
      BY <1>1 DEF Logs!ReadActivity, Logs!TypeOK
    <2>2. Logs!TypeOK'
      BY <1>1, <2>1 DEF Logs!ReadActivity, Logs!TypeOK
    <2>3. \A e \in owed : week <= e.ts + 1 => e \in activity /\ Logs!Recent(e)
      BY <1>1 DEF Logs!ReadActivity, Logs!Recent
    <2> QED
      BY <1>1, <2>1, <2>2, <2>3 DEF Logs!ReadActivity
  <1>2. CASE Logs!Truncate
    BY <1>2 DEF Logs!Truncate, Logs!TypeOK
  <1>3. CASE Logs!Rewrite
    <2>1. trim.kept \subseteq activity' /\ activity' \in SUBSET Logs!Entry
      BY <1>3, LogsTypes DEF Logs!Rewrite, Logs!Written, Logs!TypeOK
    <2>2. Logs!TypeOK'
      BY <1>3, <2>1 DEF Logs!Rewrite, Logs!TypeOK, Logs!AtRest
    <2> QED
      BY <1>3, <2>1, <2>2 DEF Logs!Rewrite, Logs!AtRest
  <1>4. CASE Logs!TrimCut
    <2>1. CASE trim.pc = "open"
      BY <1>4, <2>1 DEF Logs!TrimCut, Logs!TypeOK, Logs!AtRest
    <2>2. CASE trim.pc = "write"
      <3>1. owed' = {} /\ week' = week /\ next' = next
        BY <1>4, <2>2 DEF Logs!TrimCut
      <3>2. activity' \in SUBSET Logs!Entry
        BY <1>4, <2>2, LogsTypes DEF Logs!TrimCut, Logs!Written, Logs!TypeOK
      <3>3. /\ trim' \in [pc : {"away", "open", "write"}, kept : SUBSET Logs!Entry, torn : BOOLEAN]
            /\ trim'.pc = "away"
        BY <1>4, <2>2 DEF Logs!TrimCut, Logs!AtRest
      <3>4. Logs!TypeOK'
        BY <3>1, <3>2, <3>3 DEF Logs!TypeOK
      <3>5. Logs!EvidenceKept' /\ Logs!KeptEnough'
        BY <3>1
      <3> QED
        BY <3>4, <3>5
    <2> QED
      BY <1>4, <2>1, <2>2 DEF Logs!TrimCut
  <1> QED
    BY <1>1, <1>2, <1>3, <1>4

\* Every step keeps the invariant.
LEMMA LogsStepInv ==
  ASSUME Logs!LogAssumption, Logs!Inv, [Logs!Next]_logs
  PROVE  Logs!Inv'
  <1>1. CASE UNCHANGED logs
    BY <1>1 DEF logs, Logs!Inv, Logs!TypeOK, Logs!EvidenceKept, Logs!KeptEnough
  <1> QED
    BY <1>1, LogsRecordStep, LogsTrimStep DEF Logs!Next

\* What the services do is a step of the log's, or does not concern it.
LEMMA LogsMove == [Next]_vars => [Logs!Next]_logs
  BY DEF Next, vars

\* The log keeps what it owes, and what a trim has in hand is enough for the
\* file to be emptied.
THEOREM LogsInvariant == Spec => []Logs!Inv
  <1>1. Init => Logs!Inv
    BY ServicesAssumption, LogsInitInv DEF Init
  <1>2. Logs!Inv /\ [Next]_vars => Logs!Inv'
    BY ServicesAssumption, LogsStepInv, LogsMove
  <1> QED
    BY <1>1, <1>2, PTL DEF Spec

\* However much is recorded, and however long: outside of a rewrite the file
\* holds everything of the last week that was recorded while no trim ran, and
\* that no trim that was cut short has lost.
THEOREM EvidenceStays == Spec => []EvidenceKept
  <1>1. Logs!Inv => EvidenceKept
    BY DEF Logs!Inv, EvidenceKept
  <1> QED
    BY <1>1, LogsInvariant, PTL

-----------------------------------------------------------------------------
\* Before the first look nothing is read, and nothing to drop.
LEMMA SeasonIdleFits ==
  /\ Season!Idle \in Season!Passes /\ Season!Nowhere \in Season!Readings
  /\ Season!Idle.pc = "idle" /\ Season!Idle.todo = {} /\ Season!Idle.plan = <<>>
  /\ DOMAIN Season!Idle.plan = {}
  /\ Season!Idle.asked = {} /\ Season!Idle.skip = {} /\ Season!Idle.tracked = {}
  /\ Season!Idle.flat = {}
  /\ Season!Idle.newest = Season!Nowhere /\ Season!Idle.titles = Season!Nowhere
  <1>1. Season!Nowhere \in Season!Readings
    BY DEF Season!Nowhere, Season!Readings
  <1> QED
    BY <1>1 DEF Season!Idle, Season!Passes

\* Nothing has been imported, and no pass is at work.
LEMMA SeasonInitInv ==
  ASSUME Season!DedupeAssumption, Season!Init
  PROVE  Season!Inv
  <1>1. Season!Rounds = {{}}
    BY SeasonIdleFits DEF Season!Init, Season!Rounds
  <1>2. Season!TypeOK
    BY <1>1, SeasonIdleFits DEF Season!DedupeAssumption, Season!Init, Season!TypeOK,
       Season!Nowhere
  <1>3. Season!ImportsFit /\ Season!ReadingsSound /\ Season!DropsExcused
    BY <1>1, SeasonIdleFits DEF Season!Init, Season!ImportsFit, Season!ReadingsSound,
       Season!DropsExcused, Season!Nowhere
  <1> QED
    BY <1>2, <1>3 DEF Season!Inv

\* The types of a pass, field by field.
LEMMA SeasonPassTypes ==
  ASSUME Season!TypeOK
  PROVE  /\ dedupe.listed \subseteq Releases /\ dedupe.tracked \subseteq Releases
         /\ dedupe.flat \subseteq Releases
         /\ dedupe.newest \in Season!Readings /\ dedupe.titles \in Season!Readings
         /\ dedupe.keepers \subseteq Releases
         /\ dedupe.todo \subseteq Releases /\ dedupe.plan \in Seq(SUBSET Releases)
         /\ dedupe.asked \subseteq Releases /\ dedupe.late \subseteq Releases
         /\ dedupe.skip \subseteq Releases
         /\ dedupe.packs \in BOOLEAN /\ dedupe.blind \in BOOLEAN
  BY DEF Season!TypeOK, Season!Passes

\* Sonarr imports: what it takes is late for the pass under way.
LEMMA SeasonImportStep ==
  ASSUME Season!DedupeAssumption, Season!Inv, NEW r \in Releases, NEW taken \in Parts,
         NEW manual \in BOOLEAN,
         taken \subseteq Covers[r], Season!Import(r, taken, manual)
  PROVE  Season!Inv'
  <1> DEFINE late == IF dedupe.pc = "idle" THEN {} ELSE dedupe.late \union {r}
  <1>1. /\ dedupe' = [dedupe EXCEPT !.late = late] /\ late \subseteq Releases
        /\ library' = [e \in Episodes |-> IF e \in taken THEN r ELSE library[e]]
        /\ imported \subseteq imported' /\ imported' \subseteq Releases
        /\ superseded' = superseded /\ missing' = missing /\ arrivals' = arrivals + 1
        /\ arrivals < Arrivals
    BY SeasonPassTypes DEF Season!Inv, Season!TypeOK, Season!Import
  <1>2. \/ latest' = latest
        \/ latest' = [e \in Episodes |-> IF e \in taken THEN r ELSE latest[e]] /\ r \in imported'
    BY DEF Season!Inv, Season!Import
  <1>3. ASSUME dedupe.pc # "idle"
        PROVE  late = dedupe.late \union {r}
    BY <1>3
  <1> HIDE DEF late
  <1>4. /\ dedupe' \in Season!Passes /\ dedupe'.late = late
        /\ dedupe'.pc = dedupe.pc /\ dedupe'.listed = dedupe.listed
        /\ dedupe'.tracked = dedupe.tracked
        /\ dedupe'.flat = dedupe.flat /\ dedupe'.newest = dedupe.newest
        /\ dedupe'.titles = dedupe.titles
        /\ dedupe'.keepers = dedupe.keepers /\ dedupe'.todo = dedupe.todo
        /\ dedupe'.plan = dedupe.plan
        /\ dedupe'.asked = dedupe.asked /\ dedupe'.skip = dedupe.skip
        /\ dedupe'.blind = dedupe.blind
    BY <1>1 DEF Season!Inv, Season!TypeOK, Season!Passes
  <1>5. Season!Rounds' = Season!Rounds
    BY <1>4 DEF Season!Rounds
  <1>6. Season!TypeOK'
    <2>1. library' \in Season!Readings /\ latest' \in Season!Readings
      BY <1>1, <1>2 DEF Season!Inv, Season!TypeOK, Season!Readings
    <2>2. \A e \in Episodes : latest'[e] \in imported' \union {Season!None}
      BY <1>1, <1>2 DEF Season!Inv, Season!TypeOK, Season!Readings
    <2>3. arrivals' \in 0 .. Arrivals
      BY <1>1 DEF Season!Inv, Season!TypeOK, Season!DedupeAssumption
    <2> QED
      BY <1>1, <1>4, <1>5, <2>1, <2>2, <2>3 DEF Season!Inv, Season!TypeOK
  <1>7. Season!ImportsFit'
    BY <1>1, <1>2 DEF Season!Inv, Season!TypeOK, Season!ImportsFit, Season!Readings
  <1>8. ASSUME NEW e \in Episodes, library'[e] = latest'[e], latest'[e] # Season!None
        PROVE  \/ latest'[e] = r
               \/ latest'[e] = latest[e] /\ library[e] = latest[e]
    BY <1>1, <1>2, <1>8
  <1>9. Season!ReadingsSound'
    BY <1>3, <1>4, <1>8 DEF Season!Inv, Season!ReadingsSound
  <1>10. Season!DropsExcused'
    <2>1. CASE dedupe.pc = "idle"
      <3>1. dedupe.todo = {} /\ dedupe.plan = <<>> /\ DOMAIN dedupe.plan = {}
        BY <2>1 DEF Season!Inv, Season!DropsExcused, Season!Dropping
      <3> QED
        BY <1>4, <2>1, <3>1 DEF Season!DropsExcused, Season!Rounds
    <2>2. CASE dedupe.pc # "idle"
      <3>1. \A s \in Releases : Season!Keeps(s)' => s = r \/ Season!Keeps(s)
        BY <1>8 DEF Season!Keeps, Season!DedupeAssumption, Season!None
      <3>2. r \in dedupe'.late /\ dedupe.late \subseteq dedupe'.late
        BY <1>3, <1>4, <2>2
      <3>3. \A s : s = r \/ Season!Excused(s) => Season!Excused(s)'
        BY <1>4, <3>2 DEF Season!Excused
      <3>4. \A round \in Season!Rounds : round \subseteq Releases
        BY SeasonPassTypes DEF Season!Inv, Season!TypeOK
      <3> QED
        BY <1>4, <1>5, <3>1, <3>3, <3>4 DEF Season!Inv, Season!DropsExcused
    <2> QED
      BY <2>1, <2>2
  <1> QED
    BY <1>6, <1>7, <1>9, <1>10 DEF Season!Inv

\* A step of the pass: what it must show of its own.
LEMMA SeasonPassGoes ==
  ASSUME Season!Inv, superseded' \subseteq Releases,
         UNCHANGED <<library, latest, imported, arrivals>>,
         missing' \in 0 .. Lookups, dedupe' \in Season!Passes,
         dedupe'.skip \subseteq dedupe'.listed,
         \A round \in Season!Rounds' : round \subseteq dedupe'.listed,
         dedupe'.asked \subseteq dedupe'.todo,
         Season!ReadingsSound', Season!DropsExcused'
  PROVE  Season!Inv'
  BY DEF Season!Inv, Season!TypeOK, Season!ImportsFit

\* A step of the pass that has nothing to drop yet, or no more.
LEMMA SeasonLooksOn ==
  ASSUME Season!Inv, superseded' \subseteq Releases,
         UNCHANGED <<library, latest, imported, arrivals>>,
         missing' \in 0 .. Lookups, dedupe' \in Season!Passes,
         dedupe'.skip \subseteq dedupe'.listed,
         dedupe'.todo = {}, dedupe'.plan = <<>>, dedupe'.asked = {}, Season!ReadingsSound'
  PROVE  Season!Inv'
  <1>1. Season!Rounds' = {{}}
    BY DEF Season!Rounds
  <1>2. Season!DropsExcused'
    BY <1>1 DEF Season!DropsExcused
  <1> QED
    BY <1>1, <1>2, SeasonPassGoes

\* A pass that ends.
LEMMA SeasonPassEnds ==
  ASSUME Season!Inv, superseded' \subseteq Releases,
         UNCHANGED <<library, latest, imported, arrivals>>,
         missing' \in 0 .. Lookups, dedupe' = Season!Idle
  PROVE  Season!Inv'
  <1>1. Season!ReadingsSound'
    BY SeasonIdleFits DEF Season!ReadingsSound
  <1> QED
    BY <1>1, SeasonIdleFits, SeasonLooksOn
\* The listing begins a pass, and the four readings follow.
LEMMA SeasonListStep ==
  ASSUME Season!Inv, Season!List
  PROVE  Season!Inv'
  <1>1. PICK listed \in SUBSET Releases : dedupe' = [[Season!Idle EXCEPT !.listed = listed] EXCEPT !.pc = "files"]
    BY DEF Season!List, Season!Goes
  <1>2. /\ dedupe' \in Season!Passes /\ dedupe'.pc = "files" /\ dedupe'.skip = {}
        /\ dedupe'.todo = {} /\ dedupe'.plan = <<>>
        /\ dedupe'.asked = {} /\ dedupe'.tracked = {} /\ dedupe'.flat = {}
        /\ dedupe'.newest = Season!Nowhere /\ dedupe'.titles = Season!Nowhere
    BY <1>1, SeasonIdleFits DEF Season!Idle, Season!Passes
  <1>3. Season!ReadingsSound'
    BY <1>2 DEF Season!ReadingsSound, Season!Nowhere
  <1> QED
    BY <1>2, <1>3, SeasonLooksOn DEF Season!List, Season!World, Season!Inv, Season!TypeOK

\* The files of the library are read, or the pass ends for want of them.
LEMMA SeasonFilesStep ==
  ASSUME Season!DedupeAssumption, Season!Inv, Season!ReadFiles
  PROVE  Season!Inv'
  <1>1. UNCHANGED Season!World /\ missing' \in 0 .. Lookups
    BY DEF Season!DedupeAssumption, Season!ReadFiles, Season!Inv, Season!TypeOK
  <1>2. CASE dedupe' = Season!Idle
    BY <1>1, <1>2, SeasonPassEnds DEF Season!World, Season!Inv, Season!TypeOK
  <1>3. CASE dedupe' # Season!Idle
    <2> DEFINE files == {library[e] : e \in Episodes} \ {Season!None}
    <2>1. PICK named : /\ named \subseteq {q \in files : \A e \in Covers[q] : library[e] = q}
                       /\ dedupe' = [[dedupe EXCEPT !.tracked = named] EXCEPT !.pc = "flat"]
      BY <1>3 DEF Season!ReadFiles, Season!Goes
    <2>2. named \subseteq Releases
      BY <2>1 DEF Season!Inv, Season!TypeOK, Season!Readings
    <2>3. /\ dedupe' \in Season!Passes /\ dedupe'.pc = "flat" /\ dedupe'.tracked = named
          /\ dedupe'.listed = dedupe.listed /\ dedupe'.skip = dedupe.skip
          /\ dedupe'.todo = dedupe.todo
          /\ dedupe'.plan = dedupe.plan /\ dedupe'.asked = dedupe.asked
          /\ dedupe'.flat = dedupe.flat
          /\ dedupe'.newest = dedupe.newest /\ dedupe'.titles = dedupe.titles
          /\ dedupe'.late = dedupe.late
      BY <2>1, <2>2 DEF Season!Inv, Season!TypeOK, Season!Passes
    <2>4. dedupe.pc = "files" /\ dedupe.todo = {} /\ dedupe.plan = <<>> /\ dedupe.asked = {}
      BY DEF Season!ReadFiles, Season!Inv, Season!TypeOK, Season!DropsExcused, Season!Dropping
    <2>5. ASSUME NEW e \in Episodes, NEW q \in named, Named[q] = e
          PROVE  q = library[e]
      BY <2>1, <2>2, <2>5 DEF Season!DedupeAssumption
    <2>6. Season!ReadingsSound'
      BY <1>1, <2>3, <2>4, <2>5 DEF Season!Inv, Season!ReadingsSound, Season!World
    <2> QED
      BY <1>1, <2>3, <2>4, <2>6, SeasonLooksOn DEF Season!World, Season!Inv, Season!TypeOK
  <1> QED
    BY <1>2, <1>3

\* A lookup of the history or of the titles: what it found is sound.
LEMMA SeasonLookStep ==
  ASSUME Season!Inv, UNCHANGED Season!World, missing' \in 0 .. Lookups,
         NEW from \in {"flat", "latest", "titles"}, NEW where \in {"latest", "titles", "keepers"},
         NEW flat \in {dedupe.flat, imported}, NEW newest \in {dedupe.newest, latest},
         NEW titles \in {dedupe.titles, library}, dedupe.pc = from,
         dedupe' = [dedupe EXCEPT !.pc = where, !.flat = flat, !.newest = newest, !.titles = titles]
  PROVE  Season!Inv'
  <1>1. /\ dedupe' \in Season!Passes /\ dedupe'.pc = where /\ dedupe'.flat = flat
        /\ dedupe'.newest = newest
        /\ dedupe'.titles = titles /\ dedupe'.tracked = dedupe.tracked
        /\ dedupe'.listed = dedupe.listed /\ dedupe'.skip = dedupe.skip
        /\ dedupe'.todo = dedupe.todo
        /\ dedupe'.plan = dedupe.plan /\ dedupe'.asked = dedupe.asked
        /\ dedupe'.late = dedupe.late
    BY DEF Season!Inv, Season!TypeOK, Season!Passes
  <1>2. dedupe.todo = {} /\ dedupe.plan = <<>> /\ dedupe.asked = {}
    BY DEF Season!Inv, Season!TypeOK, Season!DropsExcused, Season!Dropping
  <1>3. ASSUME NEW e \in Episodes, latest'[e] # Season!None, latest'[e] \notin dedupe'.late,
               library'[e] = latest'[e]
        PROVE  /\ \A q \in dedupe'.tracked : Named[q] = e => q = latest'[e]
               /\ dedupe'.flat = {} \/ latest'[e] \in dedupe'.flat
               /\ dedupe'.newest[e] \in {Season!None, latest'[e]}
               /\ dedupe'.titles[e] \in {Season!None, latest'[e]}
    <2>1. /\ latest'[e] = latest[e] /\ library'[e] = library[e] /\ latest[e] \notin dedupe.late
          /\ latest[e] # Season!None /\ library[e] = latest[e] /\ latest[e] \in imported
      BY <1>1, <1>3 DEF Season!World, Season!Inv, Season!TypeOK
    <2>2. /\ \A q \in dedupe.tracked : Named[q] = e => q = latest[e]
          /\ dedupe.flat = {} \/ latest[e] \in dedupe.flat
          /\ dedupe.newest[e] \in {Season!None, latest[e]}
          /\ dedupe.titles[e] \in {Season!None, latest[e]}
      BY <2>1 DEF Season!Inv, Season!ReadingsSound
    <2> QED
      BY <1>1, <2>1, <2>2
  <1>4. Season!ReadingsSound'
    BY <1>1, <1>3 DEF Season!ReadingsSound
  <1> QED
    BY <1>1, <1>2, <1>4, SeasonLooksOn DEF Season!World, Season!Inv, Season!TypeOK

\* The three lookups before that of the keepers.
LEMMA SeasonReadStep ==
  ASSUME Season!DedupeAssumption, Season!Inv,
         Season!ReadFlat \/ Season!ReadLatest \/ Season!ReadTitles
  PROVE  Season!Inv'
  <1>1. /\ UNCHANGED Season!World /\ missing' \in 0 .. Lookups /\ dedupe \in Season!Passes
    BY DEF Season!DedupeAssumption, Season!ReadFlat, Season!ReadLatest, Season!ReadTitles,
       Season!Looks, Season!Inv, Season!TypeOK
  <1>2. CASE Season!ReadFlat
    <2>1. PICK flat \in {dedupe.flat, imported} :
            dedupe' = [dedupe EXCEPT !.pc = "latest", !.flat = flat, !.newest = dedupe.newest, !.titles = dedupe.titles]
      BY <1>1, <1>2 DEF Season!ReadFlat, Season!Looks, Season!Goes, Season!Passes
    <2> QED
      BY <1>1, <1>2, <2>1, SeasonLookStep DEF Season!ReadFlat, Season!Looks
  <1>3. CASE Season!ReadLatest
    <2>1. PICK newest \in {dedupe.newest, latest} :
            dedupe' = [dedupe EXCEPT !.pc = "titles", !.flat = dedupe.flat, !.newest = newest, !.titles = dedupe.titles]
      BY <1>1, <1>3 DEF Season!ReadLatest, Season!Looks, Season!Goes, Season!Passes
    <2> QED
      BY <1>1, <1>3, <2>1, SeasonLookStep DEF Season!ReadLatest, Season!Looks
  <1>4. CASE Season!ReadTitles
    <2>1. PICK titles \in {dedupe.titles, library} :
            dedupe' = [dedupe EXCEPT !.pc = "keepers", !.flat = dedupe.flat, !.newest = dedupe.newest, !.titles = titles]
      BY <1>1, <1>4 DEF Season!ReadTitles, Season!Looks, Season!Goes, Season!Passes
    <2> QED
      BY <1>1, <1>4, <2>1, SeasonLookStep DEF Season!ReadTitles, Season!Looks
  <1> QED
    BY <1>2, <1>3, <1>4

\* The keepers are read: no single of an episode that is kept by one is dropped.
LEMMA SeasonKeepersStep ==
  ASSUME Season!DedupeAssumption, Season!Inv, Season!ReadKeepers
  PROVE  Season!Inv'
  <1> DEFINE keepers == {r \in Releases : Season!Held(r) # {}}
             many == \E r \in Releases : Season!Cardinality(Season!Held(r)) > 1
  <1>1. many \in BOOLEAN /\ keepers \subseteq Releases
    OBVIOUS
  <1> HIDE DEF many
  <1>2. /\ UNCHANGED Season!World /\ missing' \in 0 .. Lookups /\ dedupe \in Season!Passes
        /\ dedupe.pc = "keepers"
        /\ dedupe.todo = {} /\ dedupe.plan = <<>> /\ dedupe.asked = {}
    <2>1. dedupe \in Season!Passes /\ dedupe.asked \subseteq dedupe.todo /\ missing \in 0 .. Lookups
      BY DEF Season!Inv, Season!TypeOK
    <2>2. UNCHANGED Season!World /\ dedupe.pc = "keepers" /\ (missing' = missing \/ (missing < Lookups /\ missing' = missing + 1))
      BY DEF Season!ReadKeepers
    <2>3. dedupe.todo = {} /\ dedupe.plan = <<>>
      BY <2>2 DEF Season!Inv, Season!DropsExcused, Season!Dropping
    <2> QED
      BY <2>1, <2>2, <2>3 DEF Season!DedupeAssumption
  <1>3. PICK found \in SUBSET Releases, packs \in BOOLEAN, blind \in BOOLEAN,
  todo \in SUBSET dedupe.listed :
          /\ dedupe' = [dedupe EXCEPT !.pc = "singles covered", !.keepers = found, !.packs = packs,
                                  !.blind = blind, !.todo = todo]
          /\ blind \/ found = keepers
          /\ todo = {} \/ todo \subseteq dedupe.listed \ keepers
    <2>1. CASE dedupe' = [dedupe EXCEPT !.pc = "singles covered", !.blind = TRUE]
      <3>1. /\ dedupe' = [dedupe EXCEPT !.pc = "singles covered", !.keepers = dedupe.keepers,
                                    !.packs = dedupe.packs, !.blind = TRUE, !.todo = {}]
            /\ dedupe.keepers \in SUBSET Releases /\ dedupe.packs \in BOOLEAN
        BY <1>2, <2>1 DEF Season!Passes
      <3> QED
        BY <3>1
    <2>2. CASE dedupe' = [dedupe EXCEPT !.pc = "singles covered", !.keepers = keepers, !.packs = FALSE]
      <3>1. /\ dedupe' = [dedupe EXCEPT !.pc = "singles covered", !.keepers = keepers,
                                    !.packs = FALSE, !.blind = dedupe.blind, !.todo = {}]
            /\ dedupe.blind \in BOOLEAN
        BY <1>2, <2>2 DEF Season!Passes
      <3> QED
        BY <1>1, <3>1
    <2> DEFINE read == [dedupe EXCEPT !.keepers = keepers, !.packs = many]
    <2>3. CASE dedupe' = [[read EXCEPT !.todo = Season!SinglesCovered(read)] EXCEPT !.pc = "singles covered"]
      <3>1. read.keepers = keepers /\ read.listed = dedupe.listed
        BY <1>2 DEF Season!Passes
      <3>2. Season!SinglesCovered(read) \subseteq dedupe.listed \ keepers
        BY <3>1 DEF Season!SinglesCovered
      <3> DEFINE singles == Season!SinglesCovered(read)
      <3> HIDE DEF singles
      <3>3. /\ dedupe' = [dedupe EXCEPT !.pc = "singles covered", !.keepers = keepers,
                                    !.packs = many, !.blind = dedupe.blind, !.todo = singles]
            /\ dedupe.blind \in BOOLEAN
        BY <1>2, <2>3 DEF Season!Passes, singles
      <3> QED
        BY <1>1, <3>2, <3>3 DEF singles
    <2>4. \/ Season!Goes("singles covered", [read EXCEPT !.todo = Season!SinglesCovered(read)])
          \/ Season!Goes("singles covered", [read EXCEPT !.packs = FALSE])
          \/ Season!Goes("singles covered", [dedupe EXCEPT !.blind = TRUE])
      BY DEF Season!ReadKeepers, many
    <2>5. CASE Season!Goes("singles covered", [read EXCEPT !.packs = FALSE])
      BY <1>2, <2>2, <2>5 DEF Season!Goes, Season!Passes
    <2>6. CASE Season!Goes("singles covered", [dedupe EXCEPT !.blind = TRUE])
      BY <1>2, <2>1, <2>6 DEF Season!Goes, Season!Passes
    <2> QED
      BY <2>3, <2>4, <2>5, <2>6 DEF Season!Goes
  <1>4. todo \subseteq dedupe.listed /\ todo \subseteq Releases
    BY <1>2, <1>3 DEF Season!Passes
  <1>5. /\ dedupe' \in Season!Passes /\ dedupe'.pc = "singles covered" /\ dedupe'.keepers = found
        /\ dedupe'.blind = blind /\ dedupe'.todo = todo /\ dedupe'.tracked = dedupe.tracked
        /\ dedupe'.flat = dedupe.flat
        /\ dedupe'.newest = dedupe.newest /\ dedupe'.titles = dedupe.titles
        /\ dedupe'.listed = dedupe.listed /\ dedupe'.skip = dedupe.skip
        /\ dedupe'.plan = dedupe.plan /\ dedupe'.asked = dedupe.asked
        /\ dedupe'.late = dedupe.late
    BY <1>2, <1>3, <1>4 DEF Season!Passes
  <1>6. \A e \in Episodes : latest[e] # Season!None => latest[e] \in keepers
    BY DEF Season!Inv, Season!TypeOK, Season!Readings, Season!Held
  <1> HIDE DEF keepers
  <1>7. ASSUME NEW e \in Episodes, latest'[e] # Season!None, latest'[e] \notin dedupe'.late,
               library'[e] = latest'[e]
        PROVE  /\ \A q \in dedupe'.tracked : Named[q] = e => q = latest'[e]
               /\ dedupe'.flat = {} \/ latest'[e] \in dedupe'.flat
               /\ dedupe'.newest[e] \in {Season!None, latest'[e]}
               /\ dedupe'.titles[e] \in {Season!None, latest'[e]}
               /\ latest'[e] \in dedupe'.keepers \/ dedupe'.blind
    <2>1. /\ latest'[e] = latest[e] /\ library'[e] = library[e] /\ latest[e] \notin dedupe.late
          /\ latest[e] # Season!None /\ library[e] = latest[e]
      BY <1>2, <1>5, <1>7 DEF Season!World
    <2>2. /\ \A q \in dedupe.tracked : Named[q] = e => q = latest[e]
          /\ dedupe.flat = {} \/ latest[e] \in dedupe.flat
          /\ dedupe.newest[e] \in {Season!None, latest[e]}
          /\ dedupe.titles[e] \in {Season!None, latest[e]}
      BY <1>2, <2>1 DEF Season!Inv, Season!ReadingsSound
    <2> QED
      BY <1>3, <1>5, <1>6, <2>1, <2>2
  <1>11. Season!ReadingsSound'
    BY <1>7 DEF Season!ReadingsSound
  <1>8. Season!Rounds' = {todo}
    <2>1. dedupe'.plan = <<>>
      BY <1>2, <1>5
    <2>2. DOMAIN dedupe'.plan = {}
      BY <2>1
    <2> QED
      BY <1>5, <2>2 DEF Season!Rounds
  <1>9. \A r \in todo : ~ Season!Keeps(r)
    BY <1>3, <1>4 DEF Season!Keeps, Season!Held, keepers
  <1>10. Season!DropsExcused'
    BY <1>2, <1>5, <1>8, <1>9 DEF Season!DropsExcused, Season!Dropping, Season!Keeps,
       Season!World
  <1> QED
    BY <1>2, <1>4, <1>5, <1>8, <1>10, <1>11, SeasonPassGoes DEF Season!World, Season!Inv,
       Season!TypeOK

\* The rounds of a plan are the sets that it was made of.
LEMMA SeasonRoundsOf ==
  ASSUME NEW a \in SUBSET Releases, NEW b \in SUBSET Releases, NEW c \in SUBSET Releases
  PROVE  LET plan == Season!NonEmpty(a) \o Season!NonEmpty(b) \o Season!NonEmpty(c) IN
         /\ plan \in Seq(SUBSET Releases)
         /\ \A i \in DOMAIN plan : plan[i] \in {a, b, c}
  <1> DEFINE sets == {a, b, c}
             plan == Season!NonEmpty(a) \o Season!NonEmpty(b) \o Season!NonEmpty(c)
  <1>1. ASSUME NEW s \in sets
        PROVE  Season!NonEmpty(s) \in Seq(sets)
    <2>1. <<s>> \in Seq(sets) /\ <<>> \in Seq(sets)
      OBVIOUS
    <2> QED
      BY <2>1 DEF Season!NonEmpty
  <1>2. plan \in Seq(sets)
    <2>1. Season!NonEmpty(a) \in Seq(sets) /\ Season!NonEmpty(b) \in Seq(sets) /\ Season!NonEmpty(c) \in Seq(sets)
      BY <1>1
    <2> HIDE DEF sets
    <2> QED
      BY <2>1
  <1>3. sets \subseteq SUBSET Releases
    OBVIOUS
  <1> HIDE DEF sets, plan
  <1>4. plan \in Seq(SUBSET Releases) /\ \A i \in DOMAIN plan : plan[i] \in sets
    BY <1>2, <1>3
  <1> QED
    BY <1>4 DEF sets, plan

\* A pack that keeps an episode loses only to another pack that does.
LEMMA SeasonPackLosersExcused ==
  ASSUME Season!DedupeAssumption, Season!TypeOK, NEW r \in Season!PackLosers(dedupe)
  PROVE  /\ r \in dedupe.listed /\ Season!Pack(r)
         /\ r \in dedupe.keepers => \E k \in dedupe.keepers \ {r} : Season!Pack(k)
  <1>1. /\ r \in dedupe.listed /\ Season!Pack(r)
        /\ \E k \in dedupe.listed : Season!Pack(k) /\ Season!Above(Season!Rank(dedupe, k), Season!Rank(dedupe, r))
    BY DEF Season!PackLosers
  <1>2. PICK k \in dedupe.listed : Season!Pack(k) /\ Season!Above(Season!Rank(dedupe, k), Season!Rank(dedupe, r))
    BY <1>1
  <1>3. ASSUME r \in dedupe.keepers
        PROVE  k \in dedupe.keepers /\ k # r
    <2>1. k \in Releases /\ r \in Releases /\ PackCodec[k] \in Nat /\ k \in Nat
      BY <1>1, <1>2, SeasonPassTypes DEF Season!DedupeAssumption
    <2>2. /\ Season!Rank(dedupe, r)[1] = 1
          /\ Season!Rank(dedupe, k)[1] = IF k \in dedupe.keepers THEN 1 ELSE 0
          /\ Season!Rank(dedupe, k)[2] \in Int /\ Season!Rank(dedupe, k)[3] \in Int
          /\ Season!Rank(dedupe, k)[4] \in Int
      BY <1>3, <2>1 DEF Season!Rank
    <2>3. PICK i \in 1 .. 4 : /\ Season!Rank(dedupe, k)[i] > Season!Rank(dedupe, r)[i]
                              /\ \A j \in 1 .. i - 1 : Season!Rank(dedupe, k)[j] = Season!Rank(dedupe, r)[j]
      BY <1>2 DEF Season!Above
    <2> QED
      BY <2>2, <2>3
  <1> QED
    BY <1>1, <1>2, <1>3

\* A single that keeps its episode and has not come late is its keeper.
LEMMA SeasonEpisodeLosersExcused ==
  ASSUME Season!DedupeAssumption, Season!Inv, dedupe.pc = "single seasons", NEW skip,
         NEW r \in Season!EpisodeLosers([dedupe EXCEPT !.skip = skip])
  PROVE  r \in dedupe.listed /\ (Season!Keeps(r) => r \in dedupe.late)
  <1> DEFINE p == [dedupe EXCEPT !.skip = skip]
             group(e) == {q \in p.listed \ p.skip : Named[q] = e}
  <1>1. /\ p.listed = dedupe.listed /\ p.newest = dedupe.newest /\ p.titles = dedupe.titles
        /\ p.flat = dedupe.flat /\ p.tracked = dedupe.tracked
    BY DEF Season!Inv, Season!TypeOK, Season!Passes
  <1>2. PICK e \in Episodes : r \in group(e) /\ Season!KeeperOf(p, e, group(e)) # {} /\ r \notin Season!KeeperOf(p, e, group(e))
    BY DEF Season!EpisodeLosers
  <1>3. r \in dedupe.listed /\ Named[r] = e /\ r \in Releases /\ r # Season!None
    BY <1>1, <1>2, SeasonPassTypes DEF Season!Inv, Season!DedupeAssumption, Season!None
  <1>4. ASSUME Season!Keeps(r), r \notin dedupe.late
        PROVE  FALSE
    <2>1. library[e] = r /\ latest[e] = r
      BY <1>3, <1>4 DEF Season!Keeps, Season!DedupeAssumption, Season!None
    <2>2. /\ \A q \in dedupe.tracked : Named[q] = e => q = r
          /\ dedupe.flat = {} \/ r \in dedupe.flat
          /\ dedupe.newest[e] \in {Season!None, r} /\ dedupe.titles[e] \in {Season!None, r}
      BY <1>3, <1>4, <2>1 DEF Season!Inv, Season!ReadingsSound
    <2>3. Season!None \notin group(e)
      BY <1>1, SeasonPassTypes DEF Season!Inv, Season!DedupeAssumption, Season!None
    <2> DEFINE g == group(e)
    <2>4. g \intersect p.tracked \subseteq {r} /\ g \intersect {p.titles[e]} \subseteq {r}
      BY <1>1, <2>2, <2>3
    <2>5. r \in g /\ Season!None \notin g /\ p.newest[e] \in {Season!None, r}
      BY <1>1, <1>2, <2>2, <2>3
    <2>6. Season!KeeperOf(p, e, g) # {} /\ r \notin Season!KeeperOf(p, e, g)
      BY <1>2
    <2>7. p.flat = {} \/ r \in p.flat
      BY <1>1, <2>2
    <2> HIDE DEF g, p
    <2>8. Season!OnlyOne(g \intersect p.flat) = {} \/ r \in Season!OnlyOne(g \intersect p.flat)
      BY <2>5, <2>7 DEF Season!OnlyOne
    <2>9. Season!OnlyOne(g \intersect p.tracked) \subseteq {r}
      BY <2>4 DEF Season!OnlyOne
    <2> QED
      BY <2>4, <2>5, <2>6, <2>8, <2>9 DEF Season!KeeperOf
  <1> QED
    BY <1>3, <1>4

\* The plan of the last three selections names only what has a reason to go.
LEMMA SeasonSinglesStep ==
  ASSUME Season!DedupeAssumption, Season!Inv, Season!ReadSingles
  PROVE  Season!Inv'
  <1>1. /\ UNCHANGED Season!World /\ missing' \in 0 .. Lookups /\ dedupe.pc = "single seasons"
    <2>1. missing' = missing \/ (missing < Lookups /\ missing' = missing + 1)
      BY DEF Season!ReadSingles
    <2>2. missing \in 0 .. Lookups
      BY DEF Season!Inv, Season!TypeOK
    <2>3. Lookups \in Nat
      BY DEF Season!DedupeAssumption
    <2>4. missing' \in 0 .. Lookups
      BY <2>1, <2>2, <2>3
    <2> QED
      BY <2>4 DEF Season!ReadSingles
  <1>2. PICK redundant : /\ dedupe' = [Season!Planned(redundant) EXCEPT !.pc = "drops"]
                         /\ \/ redundant = {}
                            \/ redundant = {r \in dedupe.listed : Season!Pack(r)} \ dedupe.keepers
    BY DEF Season!ReadSingles, Season!Goes, Season!PacksRedundant
  <1> DEFINE losers == Season!PackLosers(dedupe)
             skip == dedupe.skip \union redundant \union losers
             singles == Season!EpisodeLosers([dedupe EXCEPT !.skip = skip])
             plan == Season!NonEmpty(redundant) \o Season!NonEmpty(losers) \o Season!NonEmpty(singles)
             listed == redundant \union losers \union singles
             packs == {k \in dedupe.keepers : Season!Pack(k)}
  <1>3. redundant \subseteq dedupe.listed /\ losers \subseteq dedupe.listed
    BY <1>2 DEF Season!PackLosers
  <1>4. singles \subseteq dedupe.listed /\ (\A r \in singles : Season!Keeps(r) => r \in dedupe.late)
    BY <1>1, SeasonEpisodeLosersExcused
  <1>5. dedupe.listed \subseteq Releases /\ packs \subseteq Releases /\ dedupe.late \subseteq Releases
        /\ dedupe.blind \in BOOLEAN
    BY SeasonPassTypes DEF Season!Inv
  <1>6. Season!Planned(redundant) = [Season!Idle EXCEPT !.plan = plan, !.listed = listed, !.keepers = packs,
                                          !.late = dedupe.late, !.blind = dedupe.blind]
    <2>1. [dedupe EXCEPT !.skip = @ \union redundant \union losers] = [dedupe EXCEPT !.skip = skip]
      BY DEF Season!Inv, Season!TypeOK, Season!Passes
    <2> QED
      BY <2>1 DEF Season!Planned
  <1>7. /\ plan \in Seq(SUBSET Releases)
        /\ \A i \in DOMAIN plan : plan[i] \in {redundant, losers, singles}
    BY <1>3, <1>4, <1>5, SeasonRoundsOf
  <1>8. ASSUME NEW r \in redundant, Season!Keeps(r)
        PROVE  r \in dedupe.late \/ dedupe.blind
    <2>1. r \notin dedupe.keepers /\ r \in Releases /\ r # Season!None
      BY <1>2, <1>5, <1>8 DEF Season!DedupeAssumption, Season!None
    <2> QED
      BY <1>1, <1>8, <2>1 DEF Season!Inv, Season!ReadingsSound, Season!Keeps
  <1>9. ASSUME NEW r \in losers, Season!Keeps(r)
        PROVE  r \in dedupe.late \/ dedupe.blind \/ (Season!Pack(r) /\ \E k \in packs \ {r} : Season!Pack(k))
    <2>1. /\ Season!Pack(r) /\ r \in Releases /\ r # Season!None
          /\ r \in dedupe.keepers => \E k \in dedupe.keepers \ {r} : Season!Pack(k)
      BY <1>3, <1>5, SeasonPackLosersExcused DEF Season!Inv, Season!DedupeAssumption,
         Season!None
    <2>2. r \in dedupe.late \/ r \in dedupe.keepers \/ dedupe.blind
      BY <1>1, <1>9, <2>1 DEF Season!Inv, Season!ReadingsSound, Season!Keeps
    <2> QED
      BY <2>1, <2>2
  <1> HIDE DEF losers, singles, plan, listed, packs, skip
  <1>10. listed \subseteq Releases
    BY <1>3, <1>4, <1>5 DEF listed
  <1>11. dedupe' = [[Season!Idle EXCEPT !.plan = plan, !.listed = listed, !.keepers = packs,
                               !.late = dedupe.late,
                               !.blind = dedupe.blind] EXCEPT !.pc = "drops"]
    BY <1>2, <1>6
  <1>12. /\ dedupe' \in Season!Passes /\ dedupe'.pc = "drops" /\ dedupe'.plan = plan
         /\ dedupe'.listed = listed
         /\ dedupe'.keepers = packs /\ dedupe'.late = dedupe.late /\ dedupe'.blind = dedupe.blind
         /\ dedupe'.todo = {} /\ dedupe'.asked = {} /\ dedupe'.skip = {}
    BY <1>5, <1>7, <1>10, <1>11, SeasonIdleFits DEF Season!Idle, Season!Passes
  <1>13. \A round \in Season!Rounds' : round \in {{}, redundant, losers, singles}
    BY <1>7, <1>12 DEF Season!Rounds
  <1>14. \A r : Season!Keeps(r)' => Season!Keeps(r)
    BY <1>1 DEF Season!Keeps, Season!World
  <1>15. ASSUME NEW round \in Season!Rounds', NEW r \in round, Season!Keeps(r)'
         PROVE  Season!Excused(r)'
    BY <1>4, <1>8, <1>9, <1>12, <1>13, <1>14, <1>15 DEF Season!Excused
  <1>16. Season!DropsExcused'
    BY <1>12, <1>15 DEF Season!DropsExcused, Season!Dropping
  <1>17. Season!ReadingsSound'
    BY <1>12 DEF Season!ReadingsSound
  <1>18. \A round \in Season!Rounds' : round \subseteq listed
    BY <1>13 DEF listed
  <1> QED
    BY <1>1, <1>12, <1>16, <1>17, <1>18, SeasonPassGoes DEF Season!World, Season!Inv,
       Season!TypeOK

\* A step that only takes from what is to be dropped, or asks about it.
LEMMA SeasonDropOn ==
  ASSUME Season!Inv, superseded' \subseteq Releases,
         UNCHANGED <<library, latest, imported, arrivals>>,
         missing' \in 0 .. Lookups, NEW todo \in SUBSET dedupe.todo, NEW asked \in SUBSET todo,
         dedupe' = [dedupe EXCEPT !.todo = todo, !.asked = asked]
  PROVE  Season!Inv'
  <1>1. /\ todo \subseteq Releases /\ asked \subseteq Releases
        /\ \A round \in Season!Rounds : round \subseteq dedupe.listed
    BY SeasonPassTypes DEF Season!Inv, Season!TypeOK
  <1>2. /\ dedupe' \in Season!Passes /\ dedupe'.todo = todo /\ dedupe'.asked = asked
        /\ dedupe'.pc = dedupe.pc
        /\ dedupe'.listed = dedupe.listed /\ dedupe'.tracked = dedupe.tracked
        /\ dedupe'.flat = dedupe.flat
        /\ dedupe'.newest = dedupe.newest /\ dedupe'.titles = dedupe.titles
        /\ dedupe'.keepers = dedupe.keepers
        /\ dedupe'.skip = dedupe.skip /\ dedupe'.plan = dedupe.plan /\ dedupe'.late = dedupe.late
        /\ dedupe'.blind = dedupe.blind
    BY <1>1 DEF Season!Inv, Season!TypeOK, Season!Passes
  <1>3. ASSUME NEW round \in Season!Rounds'
        PROVE  \E old \in Season!Rounds : round \subseteq old
    BY <1>2 DEF Season!Rounds
  <1>4. Season!ReadingsSound'
    <2>1. Season!ReadingsSound /\ latest' = latest /\ library' = library
      BY DEF Season!Inv
    <2>2. ASSUME NEW e \in Episodes, dedupe'.pc \notin {"idle", "drops"}, latest'[e] # Season!None,
                 latest'[e] \notin dedupe'.late, library'[e] = latest'[e]
          PROVE  /\ \A q \in dedupe'.tracked : Named[q] = e => q = latest'[e]
                 /\ dedupe'.flat = {} \/ latest'[e] \in dedupe'.flat
                 /\ dedupe'.newest[e] \in {Season!None, latest'[e]}
                 /\ dedupe'.titles[e] \in {Season!None, latest'[e]}
                 /\ dedupe'.pc \in {"singles covered", "single seasons"} =>
                      latest'[e] \in dedupe'.keepers \/ dedupe'.blind
      <3>1. /\ dedupe.pc \notin {"idle", "drops"} /\ latest[e] # Season!None
            /\ latest[e] \notin dedupe.late
            /\ library[e] = latest[e]
        BY <1>2, <2>1, <2>2
      <3>2. /\ \A q \in dedupe.tracked : Named[q] = e => q = latest[e]
            /\ dedupe.flat = {} \/ latest[e] \in dedupe.flat
            /\ dedupe.newest[e] \in {Season!None, latest[e]}
            /\ dedupe.titles[e] \in {Season!None, latest[e]}
            /\ dedupe.pc \in {"singles covered", "single seasons"} => latest[e] \in dedupe.keepers \/ dedupe.blind
        BY <2>1, <3>1 DEF Season!ReadingsSound
      <3> QED
        BY <1>2, <2>1, <3>2
    <2> QED
      BY <2>2 DEF Season!ReadingsSound
  <1>5. (\A r : Season!Keeps(r)' => Season!Keeps(r)) /\ (\A r : Season!Excused(r) => Season!Excused(r)')
    BY <1>2 DEF Season!Keeps, Season!Excused
  <1>6. (dedupe'.pc \notin Season!Dropping => dedupe'.todo = {}) /\ (dedupe'.pc # "drops" => dedupe'.plan = <<>>)
    BY <1>2 DEF Season!Inv, Season!DropsExcused
  <1>7. Season!DropsExcused'
    BY <1>3, <1>5, <1>6 DEF Season!Inv, Season!DropsExcused
  <1>8. \A round \in Season!Rounds' : round \subseteq dedupe'.listed
    BY <1>1, <1>2, <1>3
  <1>9. dedupe'.skip \subseteq dedupe'.listed
    BY <1>2 DEF Season!Inv, Season!TypeOK
  <1> QED
    BY <1>2, <1>4, <1>7, <1>8, <1>9, SeasonPassGoes

\* A duplicate is asked about, skipped or superseded.
LEMMA SeasonAskStep ==
  ASSUME Season!DedupeAssumption, Season!Inv, NEW r \in Releases,
         Season!Ask(r) \/ Season!Supersede(r)
  PROVE  Season!Inv'
  <1>1. /\ UNCHANGED <<library, latest, imported, arrivals>> /\ superseded' \subseteq Releases
        /\ missing' \in 0 .. Lookups
    BY DEF Season!Ask, Season!Supersede, Season!World, Season!Inv, Season!TypeOK,
       Season!DedupeAssumption
  <1>2. dedupe \in Season!Passes /\ dedupe.asked \subseteq dedupe.todo
    BY DEF Season!Inv, Season!TypeOK
  <1>3. \E todo \in SUBSET dedupe.todo : \E asked \in SUBSET todo :
          dedupe' = [dedupe EXCEPT !.todo = todo, !.asked = asked]
    <2>1. CASE dedupe' = [dedupe EXCEPT !.asked = {r}] /\ r \in dedupe.todo
      <3>1. dedupe' = [dedupe EXCEPT !.todo = dedupe.todo, !.asked = {r}]
        BY <1>2, <2>1 DEF Season!Passes
      <3> QED
        BY <2>1, <3>1
    <2>2. CASE dedupe' = [dedupe EXCEPT !.todo = @ \ {r}] /\ dedupe.asked = {}
      <3>1. dedupe' = [dedupe EXCEPT !.todo = dedupe.todo \ {r}, !.asked = {}]
        BY <1>2, <2>2 DEF Season!Passes
      <3> QED
        BY <3>1
    <2>3. CASE dedupe' = [dedupe EXCEPT !.todo = @ \ {r}, !.asked = {}]
      <3>1. dedupe' = [dedupe EXCEPT !.todo = dedupe.todo \ {r}, !.asked = {}]
        BY <1>2, <2>3 DEF Season!Passes
      <3> QED
        BY <3>1
    <2> QED
      BY <2>1, <2>2, <2>3 DEF Season!Ask, Season!Supersede
  <1> QED
    BY <1>1, <1>3, SeasonDropOn

\* A request of a drop fails, and with it the pass.
LEMMA SeasonFailStep ==
  ASSUME Season!DedupeAssumption, Season!Inv, Season!SupersedeFails
  PROVE  Season!Inv'
  BY SeasonPassEnds DEF Season!SupersedeFails, Season!World, Season!Inv, Season!TypeOK,
     Season!DedupeAssumption

\* The next selection takes the first round of the plan.
LEMMA SeasonNextRoundStep ==
  ASSUME Season!Inv, UNCHANGED Season!World, missing' = missing, dedupe.plan # <<>>,
         dedupe.pc = "drops", dedupe.todo = {},
         dedupe' = [dedupe EXCEPT !.pc = "drops", !.todo = Head(dedupe.plan), !.plan = Tail(dedupe.plan)]
  PROVE  Season!Inv'
  <1>1. /\ dedupe.plan \in Seq(SUBSET Releases) /\ dedupe \in Season!Passes /\ dedupe.asked = {}
        /\ superseded \subseteq Releases /\ missing \in 0 .. Lookups
    BY DEF Season!Inv, Season!TypeOK, Season!Passes
  <1> DEFINE plan == dedupe.plan
  <1> HIDE DEF plan
  <1>2. /\ Head(plan) = plan[1] /\ 1 \in DOMAIN plan /\ Tail(plan) \in Seq(SUBSET Releases)
        /\ \A i \in DOMAIN Tail(plan) : i + 1 \in DOMAIN plan /\ Tail(plan)[i] = plan[i + 1]
        /\ Head(plan) \in SUBSET Releases
    BY <1>1 DEF plan
  <1>3. /\ dedupe' \in Season!Passes /\ dedupe'.pc = "drops" /\ dedupe'.todo = Head(plan)
        /\ dedupe'.plan = Tail(plan)
        /\ dedupe'.asked = {} /\ dedupe'.listed = dedupe.listed /\ dedupe'.skip = dedupe.skip
        /\ dedupe'.keepers = dedupe.keepers /\ dedupe'.late = dedupe.late
        /\ dedupe'.blind = dedupe.blind
    BY <1>1, <1>2 DEF Season!Passes, plan
  <1>4. \A round \in Season!Rounds' : round \in Season!Rounds
    BY <1>2, <1>3 DEF Season!Rounds, plan
  <1>5. (\A r : Season!Keeps(r)' => Season!Keeps(r)) /\ (\A r : Season!Excused(r) => Season!Excused(r)')
    BY <1>3 DEF Season!Keeps, Season!Excused, Season!World
  <1>6. Season!DropsExcused'
    BY <1>3, <1>4, <1>5 DEF Season!Inv, Season!DropsExcused, Season!Dropping
  <1>7. Season!ReadingsSound'
    BY <1>3 DEF Season!ReadingsSound
  <1>8. dedupe'.skip \subseteq dedupe'.listed /\ \A round \in Season!Rounds' : round \subseteq dedupe'.listed
    BY <1>3, <1>4 DEF Season!Inv, Season!TypeOK
  <1> QED
    BY <1>1, <1>3, <1>6, <1>7, <1>8, SeasonPassGoes DEF Season!World

\* A selection is through: the next one, or the end.
LEMMA SeasonSelectionStep ==
  ASSUME Season!Inv, Season!NextSelection
  PROVE  Season!Inv'
  <1>1. UNCHANGED Season!World /\ missing' = missing /\ dedupe.todo = {} /\ dedupe \in Season!Passes
        /\ superseded \subseteq Releases /\ missing \in 0 .. Lookups /\ dedupe.asked = {}
    BY DEF Season!NextSelection, Season!Inv, Season!TypeOK
  <1>2. CASE dedupe' = Season!Idle
    BY <1>1, <1>2, SeasonPassEnds DEF Season!World
  <1>3. CASE /\ dedupe.pc = "drops" /\ dedupe.plan # <<>>
             /\ Season!Goes("drops", [dedupe EXCEPT !.todo = Head(dedupe.plan), !.plan = Tail(@)])
    <2>1. dedupe' = [dedupe EXCEPT !.pc = "drops", !.todo = Head(dedupe.plan), !.plan = Tail(dedupe.plan)]
      BY <1>1, <1>3 DEF Season!Goes, Season!Passes
    <2> QED
      BY <1>1, <1>3, <2>1, SeasonNextRoundStep
  <1>4. CASE /\ dedupe.pc = "singles covered"
             /\ Season!Goes("single seasons", [dedupe EXCEPT !.skip = Season!SinglesCovered(dedupe)])
    <2> DEFINE skip == Season!SinglesCovered(dedupe)
    <2>1. skip \subseteq dedupe.listed /\ skip \subseteq Releases
      BY SeasonPassTypes DEF Season!SinglesCovered, Season!Inv
    <2> HIDE DEF skip
    <2>2. dedupe' = [dedupe EXCEPT !.pc = "single seasons", !.skip = skip]
      BY <1>1, <1>4 DEF Season!Goes, Season!Passes, skip
    <2>3. /\ dedupe' \in Season!Passes /\ dedupe'.pc = "single seasons" /\ dedupe'.skip = skip
          /\ dedupe'.listed = dedupe.listed /\ dedupe'.tracked = dedupe.tracked
          /\ dedupe'.flat = dedupe.flat
          /\ dedupe'.newest = dedupe.newest /\ dedupe'.titles = dedupe.titles
          /\ dedupe'.keepers = dedupe.keepers
          /\ dedupe'.plan = dedupe.plan /\ dedupe'.todo = {} /\ dedupe'.asked = {}
          /\ dedupe'.late = dedupe.late
          /\ dedupe'.blind = dedupe.blind
      BY <1>1, <2>1, <2>2 DEF Season!Passes
    <2>4. Season!Rounds' = Season!Rounds
      BY <1>1, <2>3 DEF Season!Rounds
    <2>5. Season!ReadingsSound'
      BY <1>1, <1>4, <2>3 DEF Season!Inv, Season!ReadingsSound, Season!World
    <2>6. (\A r : Season!Keeps(r)' => Season!Keeps(r)) /\ (\A r : Season!Excused(r) => Season!Excused(r)')
      BY <1>1, <2>3 DEF Season!Keeps, Season!Excused, Season!World
    <2>7. Season!DropsExcused'
      BY <1>4, <2>3, <2>4, <2>6 DEF Season!Inv, Season!DropsExcused
    <2> QED
      BY <1>1, <2>1, <2>3, <2>4, <2>5, <2>7, SeasonPassGoes DEF Season!World, Season!Inv,
         Season!TypeOK
  <1> QED
    BY <1>2, <1>3, <1>4 DEF Season!NextSelection

\* Every step of the pass ...
LEMMA SeasonPassStepInv ==
  ASSUME Season!DedupeAssumption, Season!Inv, Season!PassStep
  PROVE  Season!Inv'
  <1>1. CASE Season!List
    BY <1>1, SeasonListStep
  <1>2. CASE Season!ReadFiles
    BY <1>2, SeasonFilesStep
  <1>3. CASE Season!ReadFlat \/ Season!ReadLatest \/ Season!ReadTitles
    BY <1>3, SeasonReadStep
  <1>4. CASE Season!ReadKeepers
    BY <1>4, SeasonKeepersStep
  <1>5. CASE Season!ReadSingles
    BY <1>5, SeasonSinglesStep
  <1>6. CASE \E r \in Releases : Season!Ask(r) \/ Season!Supersede(r)
    BY <1>6, SeasonAskStep
  <1>7. CASE Season!SupersedeFails
    BY <1>7, SeasonFailStep
  <1>8. CASE Season!NextSelection
    BY <1>8, SeasonSelectionStep
  <1> QED
    BY <1>1, <1>2, <1>3, <1>4, <1>5, <1>6, <1>7, <1>8 DEF Season!PassStep

\* ... and every import of Sonarr keeps the invariant.
LEMMA SeasonStepInv ==
  ASSUME Season!DedupeAssumption, Season!Inv, [Season!Next]_season
  PROVE  Season!Inv'
  <1>1. CASE Season!Environment
    BY <1>1, SeasonImportStep DEF Season!Environment
  <1>2. CASE UNCHANGED season
    <2>1. Season!Rounds' = Season!Rounds /\ (\A r : Season!Keeps(r)' <=> Season!Keeps(r)) /\ (\A r : Season!Excused(r)' <=> Season!Excused(r))
      BY <1>2 DEF season, Season!Rounds, Season!Keeps, Season!Excused
    <2>2. Season!TypeOK' /\ Season!ImportsFit'
      BY <1>2, <2>1 DEF season, Season!Inv, Season!TypeOK, Season!ImportsFit
    <2>3. Season!ReadingsSound'
      <3>1. Season!ReadingsSound /\ dedupe' = dedupe /\ latest' = latest /\ library' = library
        BY <1>2 DEF season, Season!Inv
      <3> QED
        BY <3>1 DEF Season!ReadingsSound
    <2>4. Season!DropsExcused'
      <3>1. Season!DropsExcused /\ dedupe' = dedupe
        BY <1>2 DEF season, Season!Inv
      <3> QED
        BY <2>1, <3>1 DEF Season!DropsExcused
    <2> QED
      BY <2>2, <2>3, <2>4 DEF Season!Inv
  <1> QED
    BY <1>1, <1>2, SeasonPassStepInv DEF Season!Next

\* Only what is asked about is superseded, and it has a reason to go.
LEMMA SeasonSparedStep ==
  ASSUME Season!Inv, Season!Next, NEW r \in superseded' \ superseded, Season!Keeps(r)
  PROVE  Season!Excused(r)
  <1>1. r \in dedupe.asked
    BY DEF Season!Next, Season!Environment, Season!Import, Season!PassStep, Season!List,
       Season!ReadFiles, Season!ReadFlat, Season!ReadLatest, Season!ReadTitles, Season!Looks,
       Season!ReadKeepers, Season!ReadSingles, Season!Ask, Season!Supersede,
       Season!SupersedeFails, Season!NextSelection, Season!World
  <1>2. dedupe.todo \in Season!Rounds /\ r \in dedupe.todo
    BY <1>1 DEF Season!Inv, Season!TypeOK, Season!Rounds
  <1> QED
    BY <1>2 DEF Season!Inv, Season!DropsExcused

\* What the services do is a step of the season's pass, or does not concern it.
LEMMA SeasonMoves == [Next]_vars => [Season!Next]_season
  BY DEF Next, vars

\* The pass keeps its types; its readings hold what is kept, and what it is to
\* drop has a reason to go.
THEOREM SeasonInvariant == Spec => []Season!Inv
  <1>1. Init => Season!Inv
    BY ServicesAssumption, SeasonInitInv DEF Init
  <1>2. Season!Inv /\ [Next]_vars => Season!Inv'
    BY ServicesAssumption, SeasonStepInv, SeasonMoves
  <1> QED
    BY <1>1, <1>2, PTL DEF Spec

\* Whatever a season's releases cover and are named after, and however their
\* imports come, the pass supersedes a pack that keeps an episode, or a single
\* that keeps the one of its name, only beside an import that came late, without
\* the keepers, or as one of two packs that keep.
THEOREM KeepersStay == Spec => KeeperSpared
  <1> DEFINE Spared ==
        \A r \in superseded' \ superseded :
          Season!Keeps(r) =>
            \/ r \in dedupe.late \/ dedupe.blind
            \/ Season!Pack(r) /\ \E k \in dedupe.keepers \ {r} : Season!Pack(k)
  <1>1. Season!Inv /\ [Season!Next]_season => [Spared]_season
    BY SeasonSparedStep DEF Season!Excused
  <1>2. Season!Inv /\ [Next]_vars => [Spared]_season
    BY <1>1, SeasonMoves
  <1>3. []Season!Inv /\ [][Next]_vars => [][Spared]_season
    BY <1>2, PTL
  <1>4. [][Spared]_season => KeeperSpared
    BY DEF KeeperSpared, Season!KeeperSpared, season, Season!dedupe
  <1> QED
    BY <1>3, <1>4, SeasonInvariant, PTL DEF Spec

-----------------------------------------------------------------------------
\* Each service keeps the types of its own part.
THEOREM ServicesTypes == Spec => []TypeOK
  <1> DEFINE Known == part \in {"hooks", "links", "reviews", "lanes", "logs", "cache", "season"}
             Types == /\ Hooks!TypeOK /\ Links!TypeOK /\ Reviews!TypeOK /\ Lanes!TypeOK
                      /\ Logs!TypeOK /\ Cache!TypeOK /\ Season!TypeOK
  <1>1. Init => Known
    BY DEF Init
  <1>2. Known /\ [Next]_vars => Known'
    BY DEF Next, vars
  <1>3. Spec => []Known
    BY <1>1, <1>2, PTL DEF Spec
  <1>4. /\ Hooks!Inv => Hooks!TypeOK
        /\ Links!Inv => Links!TypeOK
        /\ Reviews!Inv => Reviews!TypeOK
        /\ Lanes!Inv => Lanes!TypeOK
        /\ Logs!Inv => Logs!TypeOK
        /\ Cache!Inv => Cache!TypeOK
        /\ Season!Inv => Season!TypeOK
    BY DEF Hooks!Inv, Links!Inv, Reviews!Inv, Lanes!Inv, Logs!Inv, Cache!Inv, Season!Inv
  <1>5. Known /\ Types => TypeOK
    BY DEF TypeOK
  <1>6. Spec => []Types
    BY <1>4, HooksInvariant, LinksInvariant, ReviewsInvariant, LanesInvariant, LogsInvariant,
       CacheInvariant, SeasonInvariant, PTL
  <1> QED
    BY <1>3, <1>5, <1>6, PTL
=============================================================================

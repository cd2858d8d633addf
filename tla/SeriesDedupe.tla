---------------------------- MODULE SeriesDedupe ----------------------------
(***************************************************************************)
(* dedup_via_sonarr on one season of a series: one listing of Deluge, then *)
(* Sonarr's import history, read five times, and the finished releases     *)
(* that four selections take for duplicates are superseded one by one,     *)
(* while Sonarr goes on importing. A dry run changes nothing.              *)
(***************************************************************************)
EXTENDS Naturals, FiniteSets, Sequences

CONSTANTS
  Releases,  \* numbers, for the hash that breaks a tie
  Episodes,
  Covers,    \* Covers[r]: the episodes r delivers
  Named,     \* Named[r]: the first episode of its name, or None: a season pack
  Codec,     \* codec_rank of its name
  Files,     \* bounds what Sonarr takes from a release in one import
  Imports,   \* bounds the imports
  Fails      \* bounds the lookups that fail

DedupeAssumption ==
  /\ Releases \subseteq Nat \ {0} /\ {Imports, Fails} \subseteq Nat
  /\ Covers \in [Releases -> SUBSET Episodes] /\ Codec \in [Releases -> Nat]
  /\ Named \in [Releases -> Episodes \union {0}]
  /\ 0 \notin Episodes /\ \A r \in Releases : Named[r] \in Covers[r] \union {0}

VARIABLES
  superseded,  \* the releases labelled so; the others carry a Sonarr label
  library,     \* library[e]: the release whose file the library has, or None
  latest,      \* latest[e]: the last one imported under its download id
  imported,    \* all that were imported under theirs
  imports, fails,
  pass         \* the locals of the pass

dedupe == <<superseded, library, latest, imported, imports, fails, pass>>

None == 0

\* EPISODE_RE goes by the name: S01E02-E03 is a single, of S01E02, however many
\* episodes it delivers, and S01 a pack, however few.
Single(r) == Named[r] # None
Pack(r) == ~ Single(r)
Nowhere == [e \in Episodes |-> None]
Idle == [pc |-> "idle", listed |-> {}, tracked |-> {}, flat |-> {}, newest |-> Nowhere,
         titles |-> Nowhere, keepers |-> {}, packs |-> FALSE, skip |-> {}, todo |-> {}, plan |-> <<>>,
         asked |-> {}, late |-> {}, blind |-> FALSE]

Held(r) == {e \in Episodes : latest[e] = r}

Readings == [Episodes -> Releases \union {None}]
Passes == [pc : {"idle", "files", "flat", "latest", "titles", "keepers", "singles covered",
                 "single seasons", "drops"},
           listed : SUBSET Releases, tracked : SUBSET Releases, flat : SUBSET Releases,
           newest : Readings, titles : Readings, keepers : SUBSET Releases, packs : BOOLEAN,
           skip : SUBSET Releases, todo : SUBSET Releases, plan : Seq(SUBSET Releases),
           asked : SUBSET Releases, late : SUBSET Releases, blind : BOOLEAN]

\* What the pass is to drop, now and later.
Rounds == {pass.todo} \union {pass.plan[i] : i \in DOMAIN pass.plan}

\* A keeper was imported under its id, and nothing is skipped or dropped that
\* the pass has not listed.
TypeOK ==
  /\ superseded \subseteq Releases /\ imported \subseteq Releases
  /\ library \in Readings /\ latest \in Readings
  /\ \A e \in Episodes : latest[e] \in imported \union {None}
  /\ imports \in 0 .. Imports /\ fails \in 0 .. Fails
  /\ pass \in Passes
  /\ pass.skip \subseteq pass.listed
  /\ \A round \in Rounds : round \subseteq pass.listed
  /\ pass.asked \subseteq pass.todo

Init ==
  /\ superseded = {} /\ imported = {}
  /\ library = Nowhere /\ latest = Nowhere
  /\ imports = 0 /\ fails = 0
  /\ pass = Idle

-----------------------------------------------------------------------------
\* Sonarr imports some episodes of a release; by hand, without a download id.
Import(r, files, byHand) ==
  /\ r \notin superseded /\ imports < Imports
  /\ imports' = imports + 1
  /\ library' = [e \in Episodes |-> IF e \in files THEN r ELSE library[e]]
  /\ IF byHand THEN UNCHANGED <<latest, imported>>
     ELSE /\ latest' = [e \in Episodes |-> IF e \in files THEN r ELSE latest[e]]
          /\ imported' = imported \union {r}
  /\ pass' = [pass EXCEPT !.late = IF pass.pc = "idle" THEN {} ELSE @ \union {r}]
  /\ UNCHANGED <<superseded, fails>>

Environment ==
  \E r \in Releases, files \in Files, byHand \in BOOLEAN :
    files \subseteq Covers[r] /\ Import(r, files, byHand)

-----------------------------------------------------------------------------
\* The selections, on what the pass has read. First the singles of a season
\* whose keeper is a pack, the pack being in Deluge or not.
(* A mutant of SinglesCovered: the keeper of its episode is not spared.    *)
SinglesCoveredAll(p) == IF p.packs THEN {r \in p.listed : Single(r)} ELSE {}

SinglesCovered(p) == IF p.packs THEN {r \in p.listed : Single(r)} \ p.keepers ELSE {}

\* Then the packs of a season of which one episode at least is a single's.
PacksRedundant(p, single) == IF single THEN {r \in p.listed : Pack(r)} \ p.keepers ELSE {}

\* Then all packs but the best, once one of them was ever imported: a keeper
\* before the others, what was imported before what was not, then the codec.
Rank(p, r) == <<IF r \in p.keepers THEN 1 ELSE 0, IF r \in p.flat THEN 1 ELSE 0, Codec[r], r>>
Above(a, b) == \E i \in 1 .. 4 : a[i] > b[i] /\ \A j \in 1 .. i - 1 : a[j] = b[j]
PackLosers(p) ==
  LET packs == {r \in p.listed : Pack(r)} IN
  IF packs \intersect (p.keepers \union p.flat) = {} THEN {}
  ELSE {r \in packs : \E k \in packs : Above(Rank(p, k), Rank(p, r))}

\* Last, the singles of one episode but its keeper: the last import, if it is
\* one of them, or the only one ever imported, or the one that has the name of
\* a file in the library, or of the last import.
OnlyOne(set) == IF Cardinality(set) = 1 THEN set ELSE {}
KeeperOf(p, e, group) ==
  LET byFlat  == OnlyOne(group \intersect p.flat)
      byFile  == OnlyOne(group \intersect p.tracked)
      byTitle == group \intersect {p.titles[e]}
  IN IF p.newest[e] \in group THEN {p.newest[e]}
     ELSE IF byFlat # {} THEN byFlat
     ELSE IF byFile # {} THEN byFile ELSE byTitle
EpisodeLosers(p) ==
  LET group(e) == {r \in p.listed \ p.skip : Named[r] = e}
      loses(e) == IF Cardinality(group(e)) < 2 \/ KeeperOf(p, e, group(e)) = {} THEN {}
                  ELSE group(e) \ KeeperOf(p, e, group(e))
  IN UNION {loses(e) : e \in Episodes}

-----------------------------------------------------------------------------
Goes(where, p) == pass' = [p EXCEPT !.pc = where]
World == <<superseded, library, latest, imported, imports>>

\* One lookup; one that fails leaves what the pass has of it empty.
Looks(from, where, found) ==
  /\ pass.pc = from
  /\ \/ Goes(where, found) /\ UNCHANGED fails
     \/ fails < Fails /\ fails' = fails + 1 /\ Goes(where, pass)
  /\ UNCHANGED World

\* The releases that Deluge has, at 99% and more.
List ==
  /\ pass.pc = "idle"
  /\ \E listed \in SUBSET (Releases \ superseded) \ {{}} : Goes("files", [Idle EXCEPT !.listed = listed])
  /\ UNCHANGED <<World, fails>>

\* Without a file of the series in the library, or an answer, that is all.
\* Only a file that Sonarr has not renamed tells its release, and only a release
\* of one file, which Sonarr deletes when it replaces any episode of it.
ReadFiles ==
  LET tracked == {library[e] : e \in Episodes} \ {None}
      whole == {r \in tracked : \A e \in Covers[r] : library[e] = r}
  IN
  /\ pass.pc = "files"
  /\ \/ tracked = {} /\ pass' = Idle /\ UNCHANGED fails
     \/ fails < Fails /\ fails' = fails + 1 /\ pass' = Idle
     \/ /\ tracked # {}
        /\ \E named \in SUBSET whole : Goes("flat", [pass EXCEPT !.tracked = named])
        /\ UNCHANGED fails
  /\ UNCHANGED World

ReadFlat   == Looks("flat", "latest", [pass EXCEPT !.flat = imported])
ReadLatest == Looks("latest", "titles", [pass EXCEPT !.newest = latest])
ReadTitles == Looks("titles", "keepers", [pass EXCEPT !.titles = library])

\* _sonarr_keeper_pack_info: a pack is what holds two episodes and more.
ReadKeepers ==
  /\ pass.pc = "keepers"
  /\ LET read == [pass EXCEPT !.keepers = {r \in Releases : Held(r) # {}},
                              !.packs = \E r \in Releases : Cardinality(Held(r)) > 1]
         half == [read EXCEPT !.packs = FALSE]  \* the second request failed
         none == [pass EXCEPT !.blind = TRUE]   \* the first one did
     IN \/ Goes("singles covered", [read EXCEPT !.todo = SinglesCovered(read)]) /\ UNCHANGED fails
        \/ /\ fails < Fails /\ fails' = fails + 1
           /\ \E p \in {half, none} : Goes("singles covered", p)
  /\ UNCHANGED World

NonEmpty(round) == IF round = {} THEN <<>> ELSE <<round>>

\* What the pass has read says what it drops from here on: the redundant packs,
\* the losing packs and the losing singles. The readings are of no use then.
Planned(redundant) ==
  LET losers == PackLosers(pass)
      singles == EpisodeLosers([pass EXCEPT !.skip = @ \union redundant \union losers])
  IN [Idle EXCEPT !.plan = NonEmpty(redundant) \o NonEmpty(losers) \o NonEmpty(singles),
                  !.listed = redundant \union losers \union singles,
                  !.keepers = {k \in pass.keepers : Pack(k)},
                  !.late = pass.late, !.blind = pass.blind]

\* _sonarr_keeper_single_seasons asks anew.
ReadSingles ==
  LET single == \E r \in Releases : Cardinality(Held(r)) = 1 IN
  /\ pass.pc = "single seasons"
  /\ \/ Goes("drops", Planned(PacksRedundant(pass, single))) /\ UNCHANGED fails
     \/ fails < Fails /\ fails' = fails + 1 /\ Goes("drops", Planned({}))
  /\ UNCHANGED World

Dropping == {"singles covered", "drops"}

\* One duplicate (_sonarr_import_pending): skipped when it was grabbed of late
\* and never imported, and when the lookup fails; the code goes through a set,
\* in any order ...
Ask(r) ==
  /\ pass.pc \in Dropping /\ r \in pass.todo /\ pass.asked = {}
  /\ \/ pass' = [pass EXCEPT !.asked = {r}] /\ UNCHANGED fails
     \/ r \notin imported /\ pass' = [pass EXCEPT !.todo = @ \ {r}] /\ UNCHANGED fails
     \/ /\ r \in imported /\ fails < Fails /\ fails' = fails + 1
        /\ pass' = [pass EXCEPT !.todo = @ \ {r}]
  /\ UNCHANGED World

\* ... and superseded otherwise; a request of its that fails ends the pass.
Supersede(r) ==
  /\ r \in pass.asked
  /\ superseded' = superseded \union {r}
  /\ pass' = [pass EXCEPT !.todo = @ \ {r}, !.asked = {}]
  /\ UNCHANGED <<library, latest, imported, imports, fails>>

SupersedeFails ==
  /\ pass.asked # {} /\ fails < Fails
  /\ fails' = fails + 1
  /\ pass' = Idle
  /\ UNCHANGED World

\* From one selection to the next.
NextSelection ==
  /\ pass.todo = {}
  /\ \/ /\ pass.pc = "singles covered"
        /\ Goes("single seasons", [pass EXCEPT !.skip = SinglesCovered(pass)])
     \/ /\ pass.pc = "drops" /\ pass.plan # <<>>
        /\ Goes("drops", [pass EXCEPT !.todo = Head(pass.plan), !.plan = Tail(@)])
     \/ pass.pc = "drops" /\ pass.plan = <<>> /\ pass' = Idle
  /\ UNCHANGED <<World, fails>>

PassStep ==
  \/ List \/ ReadFiles \/ ReadFlat \/ ReadLatest \/ ReadTitles \/ ReadKeepers \/ ReadSingles
  \/ \E r \in Releases : Ask(r) \/ Supersede(r)
  \/ SupersedeFails \/ NextSelection

Next == Environment \/ PassStep

Spec == Init /\ [][Next]_dedupe

-----------------------------------------------------------------------------
\* The library has an episode in the file of this release, and Sonarr's history
\* says so; of a single, the episode of its name.
Keeps(r) == \E e \in Episodes : library[e] = r /\ latest[e] = r /\ Named[r] \in {None, e}

\* The pass never supersedes the pack whose file the library has: "A pack
\* whose OWN hash is in here is itself the live file and must be spared - even
\* with a lower codec_rank than its same-season rival" (1763-1765); unless
\* Sonarr has imported it after the pass began to look.
LiveFileSpared ==
  [][\A r \in superseded' \ superseded : Pack(r) /\ Keeps(r) => r \in pass.late]_dedupe

\* What holds of it (1846-2093): beside an import that comes late, only the
\* failure of the one lookup that tells the keepers, and a season that two
\* packs share, cost a kept release its label; however old the other readings
\* are, and whatever else fails. It does not hold of what S01E02-E03 keeps of
\* E03: the last selection goes by E02 alone and asks no keepers (2022-2093).
KeeperSpared ==
  [][\A r \in superseded' \ superseded :
       Keeps(r) => \/ r \in pass.late \/ pass.blind
                   \/ Pack(r) /\ \E k \in pass.keepers \ {r} : Pack(k)]_dedupe

\* What makes it so: Sonarr takes from a release only what it covers; ...
ImportsFit ==
  \A e \in Episodes :
    /\ latest[e] # None => e \in Covers[latest[e]]
    /\ library[e] # None => e \in Covers[library[e]]

\* ... what has kept an episode since the pass began is in each reading that
\* did not fail, and is the only one of its name in that of the files; ...
ReadingsSound ==
  pass.pc \notin {"idle", "drops"} =>
    \A e \in Episodes :
      LET r == latest[e] IN
      r # None /\ r \notin pass.late /\ library[e] = r =>
        /\ \A q \in pass.tracked : Named[q] = e => q = r
        /\ pass.flat = {} \/ r \in pass.flat
        /\ pass.newest[e] \in {None, r} /\ pass.titles[e] \in {None, r}
        /\ pass.pc \in {"singles covered", "single seasons"} => r \in pass.keepers \/ pass.blind

\* ... and so it is dropped for a reason.
Excused(r) ==
  \/ r \in pass.late \/ pass.blind
  \/ Pack(r) /\ \E k \in pass.keepers \ {r} : Pack(k)
DropsExcused ==
  /\ pass.pc \notin Dropping => pass.todo = {}
  /\ pass.pc # "drops" => pass.plan = <<>>
  /\ \A round \in Rounds : \A r \in round : Keeps(r) => Excused(r)

Inv == TypeOK /\ ImportsFit /\ ReadingsSound /\ DropsExcused
=============================================================================

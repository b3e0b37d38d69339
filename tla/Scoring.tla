--------------------------------- MODULE Scoring ---------------------------------
(***************************************************************************)
(* Which release a search takes (scoring/filters.go, score.go, scoring.go, *)
(* parser/match.go): releases pass filters, are scored and sorted, and the *)
(* first is taken.  An item that is searched again after its import takes  *)
(* a release only as an upgrade of what the label stored with the import   *)
(* says (importer.go qualityLabel, targets.go importedQuality), which the  *)
(* importer makes of the name of the file, not of the release.  Names are  *)
(* parsed already: a release is a record of what its name and its indexer  *)
(* say, a file of what its name says, "" and 0 where they say nothing.     *)
(***************************************************************************)
EXTENDS Integers, Sequences, FiniteSets, SequencesExt, FiniteSetsExt

CONSTANTS
  Offers,       (* sets of releases a search may answer with              *)
  Profiles,     (* [resolutions, sources, banned, required, groups,       *)
                (* languages, hdr, least, most, seeders], sizes in MB     *)
  Weights,      (* [resolution, source, group, language, proper, seeder,  *)
                (* hdr, pack, age, ageMax]                                *)
  Wants,        (* [kind, titles, year, season, episode, absolute, anime, *)
                (* wanted, runtime]                                       *)
  FileNames,    (* [titled, resolution, source, codec, proper, repack]:   *)
                (* what the name of a video may say, besides its release  *)
  SeederPoints, (* [seeders -> int(30 * log2(1 + seeders))]               *)
  FailedGrabs   (* bound on grabs that fail                               *)

(* The sources a profile may list are known ones (config/validate.go), and *)
(* no codec is among them.                                                 *)
ASSUME ScoringAssumption ==
  /\ FailedGrabs \in Nat
  /\ \A pool \in Offers : IsFiniteSet(pool) /\ \A r, s \in pool : r.hash = s.hash => r = s
  /\ \A p \in Profiles :
       Range(p.sources) \cap ({""} \cup {x.codec : x \in FileNames \cup UNION Offers}) = {}

VARIABLES
  want, profile,
  blacklist,    (* hashes of grabs that failed                            *)
  have,         (* the release last imported, or NoRelease                *)
  named,        (* what the name of its file says, as the importer reads  *)
                (* it                                                     *)
  label,        (* the fields of the stored label                         *)
  winner        (* the release taken from the last answer, or NoRelease   *)

scoringVars == <<want, profile, blacklist, have, named, label, winner>>

NoRelease == [hash |-> "none"]
NoName == [titled |-> FALSE, resolution |-> "", source |-> "", codec |-> "",
           proper |-> FALSE, repack |-> FALSE]

-------------------------------------------------------------------------------
(* The wanted item (match.go).                                             *)

InSpan(r, season) == r.season = season \/ (r.season <= season /\ season <= r.last)
WholeSeason(r) == r.pack /\ r.episodes = {}
CoversEpisode(r, season, e) == InSpan(r, season) /\ (WholeSeason(r) \/ e \in r.episodes)
HasEpisodeInfo(r) == r.season > 0 \/ r.episodes # {} \/ r.absolute > 0 \/ r.dated

MatchesMovie(r) ==
  /\ ~HasEpisodeInfo(r)
  /\ want.year > 0 /\ r.year > 0 => r.year - want.year \in -1 .. 1

(* Absolute numbers of anime decide when they agree, and against a release *)
(* that has no others.                                                     *)
MatchesEpisode(r) ==
  LET absolute == want.anime /\ want.absolute > 0 /\ r.absolute > 0 IN
  \/ absolute /\ r.absolute = want.absolute
  \/ /\ ~(absolute /\ r.season = 0 /\ r.episodes = {})
     /\ ~r.dated /\ r.season > 0
     /\ WholeSeason(r) \/ want.episode \in r.episodes
     /\ InSpan(r, want.season)

MatchesItem(r) ==
  /\ r.title \in want.titles
  /\ IF want.kind = "movie" THEN MatchesMovie(r) ELSE MatchesEpisode(r)

-------------------------------------------------------------------------------
(* Filters (filters.go).                                                   *)

(* Positions count from the end of a list of preferences; -1 for none.     *)
Rank(order, x) ==
  IF x \notin Range(order) THEN -1
  ELSE Len(order) + 1 - Min({i \in DOMAIN order : order[i] = x})
ResolutionRank(x) == Rank(profile.resolutions, x)
SourceRank(x) == Rank(profile.sources, x)

TermsFit(r) ==
  /\ r.terms \cap profile.banned = {} /\ profile.required \subseteq r.terms
  /\ r.source = "cam" => SourceRank("cam") > 0

QualityFits(r) ==
  /\ profile.resolutions # <<>> => ResolutionRank(r.resolution) > 0
  /\ profile.sources # <<>> => r.source = "" \/ SourceRank(r.source) > 0

(* Episodes' worth of video: a pack counts its files, or ten a season.     *)
ContentUnits(r) ==
  LET seasons == IF r.last > r.season THEN r.last - r.season + 1 ELSE 1 IN
  IF WholeSeason(r)
  THEN IF r.files > 1 THEN Min({r.files, 40 * seasons}) ELSE 10 * seasons
  ELSE Max({1, Cardinality(r.episodes)})

(* Sizes scale with the runtime, in 45ths, within 0.4 and 4.               *)
RuntimeScale ==
  IF want.kind = "movie" \/ want.runtime = 0 THEN 45 ELSE Min({180, Max({18, want.runtime})})

SizeFits(r) ==
  LET Bound(mb) == (mb * ContentUnits(r) * RuntimeScale) \div 45 IN
  r.size = 0 \/ /\ profile.least > 0 => r.size >= Bound(profile.least)
                /\ profile.most > 0 => r.size <= Bound(profile.most)

Field(i) == IF i <= Len(label) THEN label[i] ELSE ""
Fixed(fields) == {"proper", "repack"} \cap Range(SubSeq(fields, 3, Len(fields))) # {}

(* Mutant: a fixed release is an upgrade of a fixed release. *)
IsUpgrade_Fixes(r) ==
  LET resolution == ResolutionRank(r.resolution) - ResolutionRank(Field(1))
      source == SourceRank(r.source) - SourceRank(Field(2)) IN
  \/ Len(label) < 2 \/ resolution > 0
  \/ resolution = 0 /\ (source > 0 \/ (source = 0 /\ (r.proper \/ r.repack)))

(* Better by resolution, then source, then as a fix; what is imported is   *)
(* read from the first fields of its label, and unknown without two.       *)
IsUpgrade(r) ==
  LET resolution == ResolutionRank(r.resolution) - ResolutionRank(Field(1))
      source == SourceRank(r.source) - SourceRank(Field(2)) IN
  \/ Len(label) < 2 \/ resolution > 0
  \/ resolution = 0
     /\ (source > 0 \/ (source = 0 /\ (r.proper \/ r.repack) /\ ~Fixed(label)))

Acceptable(r) ==
  /\ r.title # "" /\ r.hash \notin blacklist /\ MatchesItem(r) /\ TermsFit(r)
  /\ QualityFits(r) /\ r.seeders >= profile.seeders /\ SizeFits(r) /\ IsUpgrade(r)

-------------------------------------------------------------------------------
(* Scores (score.go).                                                      *)

(* Integer division as in Go, towards zero.                                *)
Quotient(a, b) == IF a < 0 THEN -((-a) \div b) ELSE a \div b

Ranked(weight, order, x) ==
  IF x \in Range(order) THEN (weight * Rank(order, x)) \div Len(order) ELSE 0

ResolutionScore(r) == Ranked(Weights.resolution, profile.resolutions, r.resolution)
SourceScore(r) == Ranked(Weights.source, profile.sources, r.source)
ProperScore(r) == IF r.proper \/ r.repack THEN Weights.proper ELSE 0

(* The earliest preference among those a release has.                      *)
Preferred(weight, order, has) ==
  IF Range(order) \cap has = {} THEN 0
  ELSE (weight * Max({Rank(order, x) : x \in Range(order) \cap has})) \div Len(order)

LanguageScore(r) == Preferred(Weights.language, profile.languages, r.language)
HdrScore(r) == Preferred(Weights.hdr, profile.hdr, r.hdr)

GroupScore(r) ==
  IF r.group \in DOMAIN profile.groups THEN Quotient(profile.groups[r.group] * Weights.group, 300) ELSE 0

(* 30 points a doubling and shares of it between, up to a cap.             *)
SeederScore(r) == Min({Weights.seeder, SeederPoints[r.seeders]})

(* A pack gains by two wanted episodes and loses by each further season;   *)
(* with fewer it loses, twice when it spans seasons.                       *)
PackScore(r) ==
  LET covered == Cardinality({e \in want.wanted : CoversEpisode(r, want.season, e)})
      spans == Max({0, r.last - r.season}) IN
  IF want.wanted = {} THEN 0
  ELSE IF covered >= 2 THEN Weights.pack * (1 - spans)
  ELSE IF ~r.pack /\ Cardinality(r.episodes) <= 1 THEN 0
  ELSE IF spans > 0 THEN -2 * Weights.pack ELSE -Weights.pack

AgeScore(r) ==
  LET penalty == r.age * Weights.age IN
  IF Weights.ageMax > 0 THEN -Min({penalty, Weights.ageMax}) ELSE -penalty

Score(r) ==
  ResolutionScore(r) + SourceScore(r) + GroupScore(r) + LanguageScore(r) + ProperScore(r)
    + SeederScore(r) + HdrScore(r) + PackScore(r) + AgeScore(r)

-------------------------------------------------------------------------------
(* Searches and imports.                                                   *)

Beats(a, b) ==
  \/ Score(a) > Score(b)
  \/ Score(a) = Score(b) /\ a.seeders > b.seeders
  \/ Score(a) = Score(b) /\ a.seeders = b.seeders /\ a.hash < b.hash

(* The first of the acceptable releases, stably sorted.                    *)
Best(answer) ==
  LET accepted == {i \in DOMAIN answer : Acceptable(answer[i])}
      unbeaten == {i \in accepted : \A j \in accepted : ~Beats(answer[j], answer[i])} IN
  IF unbeaten = {} THEN NoRelease ELSE answer[Min(unbeaten)]

(* The name of a file that is called as its release is.                    *)
ReleaseName(r) ==
  [titled |-> TRUE, resolution |-> r.resolution, source |-> r.source, codec |-> r.codec,
   proper |-> r.proper, repack |-> r.repack]

(* The importer goes by the name of the file.  Where that has no title or  *)
(* no resolution its gaps are filled from the release, but for the marks   *)
(* of a fix.                                                               *)
ParseSource(file, r) ==
  LET Filled(mine, other) == IF mine = "" THEN other ELSE mine IN
  IF file.titled /\ file.resolution # "" THEN file
  ELSE [titled |-> TRUE, resolution |-> Filled(file.resolution, r.resolution),
        source |-> Filled(file.source, r.source), codec |-> Filled(file.codec, r.codec),
        proper |-> file.proper, repack |-> file.repack]

(* Fields that are not known leave no gap.                                 *)
Stated(field) == IF field = "" THEN <<>> ELSE <<field>>
QualityLabel(r) ==
  Stated(r.resolution) \o Stated(r.source) \o Stated(r.codec)
    \o (IF r.proper THEN <<"proper">> ELSE <<>>) \o (IF r.repack THEN <<"repack">> ELSE <<>>)

ScoringInit ==
  /\ want \in Wants /\ profile \in Profiles
  /\ blacklist = {} /\ have = NoRelease /\ named = NoName /\ label = <<>>
  /\ winner = NoRelease

(* The indexers answer in some order; also an imported item is searched    *)
(* again, when the operator asks for it.                                   *)
Evaluate(pool) ==
  /\ winner = NoRelease
  /\ \E answer \in SetToSeqs(pool) : winner' = Best(answer)
  /\ UNCHANGED <<want, profile, blacklist, have, named, label>>

(* Of the videos filed for an item the last gives the label.               *)
Import ==
  /\ winner # NoRelease
  /\ have' = winner /\ winner' = NoRelease
  /\ \E file \in FileNames \cup {ReleaseName(winner)} :
       named' = ParseSource(file, winner) /\ label' = QualityLabel(named')
  /\ UNCHANGED <<want, profile, blacklist>>

GrabFails ==
  /\ winner # NoRelease /\ Cardinality(blacklist) < FailedGrabs
  /\ blacklist' = blacklist \cup {winner.hash}
  /\ winner' = NoRelease
  /\ UNCHANGED <<want, profile, have, named, label>>

ScoringNext == Import \/ GrabFails \/ \E pool \in Offers : Evaluate(pool)

ScoringSpec == ScoringInit /\ [][ScoringNext]_scoringVars

-------------------------------------------------------------------------------
(* Properties.                                                             *)

ScoringTypeOK ==
  /\ want \in Wants /\ profile \in Profiles
  /\ {have, winner} \subseteq {NoRelease} \cup UNION Offers
  /\ blacklist \subseteq {r.hash : r \in UNION Offers}

Fix(r) == r.proper \/ r.repack

(* A label tells what was imported if it names the resolution, and the     *)
(* source or the codec.                                                    *)
Told(file) == file.resolution # "" /\ (file.source # "" \/ file.codec # "")

(* A release that replaces a file is better than what the name of the file *)
(* says, by resolution, source or a first fix, in this order, if its label *)
(* tells that.  It is better than the release the file came from only as   *)
(* far as the name repeats that one: a file that does not call itself a    *)
(* fix is replaced by the same fix again.                                  *)
ImprovesOnImport ==
  LET resolution == ResolutionRank(have'.resolution) - ResolutionRank(named.resolution)
      source == SourceRank(have'.source) - SourceRank(named.source)
  IN winner # NoRelease /\ winner' = NoRelease /\ have' = winner /\ Told(named)
     => \/ resolution > 0
        \/ resolution = 0 /\ source > 0
        \/ resolution = 0 /\ source = 0 /\ Fix(have') /\ ~Fix(named)
===============================================================================

------------------------------- MODULE MCServices -------------------------------
(* Services for TLC.                                                       *)
EXTENDS Services

(* Downloads: a season pack with a file that names no episode, over a file *)
(* that is in the library; a movie in two files, one as large as the old.  *)
Settings == [hardlink : BOOLEAN, move : BOOLEAN, recycle : BOOLEAN]
Layout(s, walk, names, size, old) ==
  [walk |-> walk, names |-> names, size |-> size, old |-> old, items |-> DOMAIN old,
   hardlink |-> s.hardlink, move |-> s.move, recycle |-> s.recycle]

Pack(s) ==
  Layout(s, <<"f1", "f2", "f3">>, [f1 |-> "e1", f2 |-> "e2", f3 |-> ""],
         [f1 |-> 1, f2 |-> 2, f3 |-> 1, o |-> 9], [e1 |-> "o", e2 |-> NoFile])
Movie(s) ==
  Layout(s, <<"f1", "f2">>, [f1 |-> "", f2 |-> ""], [f1 |-> 1, f2 |-> 2, o |-> 1], [m1 |-> "o"])
MCLayouts == {Pack(s) : s \in Settings} \cup {Movie(s) : s \in Settings}

(* A pack of two episodes, one of which is monitored.                      *)
HalfPack(s) ==
  Layout(s, <<"f1", "f2">>, [f1 |-> "e1", f2 |-> "e2"], [f1 |-> 1, f2 |-> 2], [e1 |-> NoFile])
MCHalfPacks == {HalfPack(s) : s \in Settings}

(* Two loops, which share a name, and an API request that lease items, the *)
(* last for a shorter time.                                                *)
CONSTANTS search, recent, manual
OwnNames == search :> "engine-search" @@ recent :> "engine-search" @@ manual :> "manual-grab"
Times == search :> 2 @@ recent :> 2 @@ manual :> 1

(* Three binaries, each newer than the one before.                         *)
MCKnows == [p \in {1, 2, 3} |-> p]

-------------------------------------------------------------------------------
(* Releases, with what their names leave out, spell twice or span.         *)
Base ==
  [hash |-> 1, title |-> "show", season |-> 1, last |-> 0, episodes |-> {1}, pack |-> FALSE,
   absolute |-> 0, dated |-> FALSE, year |-> 0, resolution |-> "720p", source |-> "webdl",
   codec |-> "x264", proper |-> FALSE, repack |-> FALSE, group |-> "", language |-> {},
   hdr |-> {}, seeders |-> 7, size |-> 1000, files |-> 1, age |-> 0, terms |-> {}]
Better == [Base EXCEPT !.hash = 2, !.source = "bluray", !.group = "crew"]
FixedR == [Base EXCEPT !.hash = 3, !.proper = TRUE]
FixedT == [Base EXCEPT !.hash = 4, !.repack = TRUE, !.seeders = 0]
Bare == [Base EXCEPT !.hash = 5, !.source = "", !.codec = ""]
Season == [Base EXCEPT !.hash = 6, !.episodes = {}, !.pack = TRUE, !.files = 0,
                       !.resolution = "1080p", !.size = 9000]
Series == [Season EXCEPT !.hash = 7, !.last = 3, !.size = 30000]
Twin == [Base EXCEPT !.hash = 8, !.seeders = 2, !.language = {"en"}, !.age = 40]
Cam == [Base EXCEPT !.hash = 9, !.source = "cam", !.terms = {"cam"}]
Film == [Base EXCEPT !.hash = 10, !.season = 0, !.episodes = {}, !.year = 2001, !.title = "film"]
Film2 == [Film EXCEPT !.hash = 11, !.hdr = {"dv"}, !.resolution = "1080p"]
MCOffers ==
  {{Base, Better, FixedR}, {FixedR, FixedT, Cam}, {Base, Bare}, {Season, Series, Twin},
   {Base, [Base EXCEPT !.hash = 12]}, {Film, Film2, Base}}

(* Files that tell nothing, all but the title, or the quality of a release *)
(* that was not fixed.                                                     *)
MCFileNames ==
  LET Silent == [titled |-> FALSE, resolution |-> "", source |-> "", codec |-> "",
                 proper |-> FALSE, repack |-> FALSE]
  IN {Silent, [Silent EXCEPT !.resolution = "720p"],
      [Silent EXCEPT !.titled = TRUE, !.resolution = "1080p"],
      [Silent EXCEPT !.titled = TRUE, !.resolution = "720p", !.source = "webdl"]}

MCSeederPoints == 0 :> 0 @@ 2 :> 47 @@ 7 :> 90

Ordered ==
  [resolutions |-> <<"1080p", "720p">>, sources |-> <<"bluray", "webdl">>, banned |-> {"cam"},
   required |-> {}, groups |-> [crew |-> -100], languages |-> <<"en", "de">>, hdr |-> <<"dv">>,
   least |-> 100, most |-> 2000, seeders |-> 0]
MCProfiles ==
  {Ordered, [Ordered EXCEPT !.resolutions = <<>>, !.sources = <<>>, !.seeders = 1]}

MCWeights ==
  [resolution |-> 1000, source |-> 500, group |-> 300, language |-> 100, proper |-> 50,
   seeder |-> 120, hdr |-> 80, pack |-> 200, age |-> 1, ageMax |-> 30]

WantEpisode ==
  [kind |-> "episode", titles |-> {"show"}, year |-> 0, season |-> 1, episode |-> 1,
   absolute |-> 0, anime |-> FALSE, wanted |-> {1, 2}, runtime |-> 22]
WantMovie ==
  [WantEpisode EXCEPT !.kind = "movie", !.titles = {"film"}, !.year = 2002, !.wanted = {}]
MCWants == {WantEpisode, [WantEpisode EXCEPT !.wanted = {1}, !.runtime = 60], WantMovie}
===============================================================================

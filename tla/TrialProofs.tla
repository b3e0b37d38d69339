------------------------------ MODULE TrialProofs ------------------------------
(***************************************************************************)
(* Trials stay within what they were started for, and keep their promise,  *)
(* for any number of users, episodes, handlers, passes and failures.       *)
(***************************************************************************)
EXTENDS RequestSystem, FiniteSetTheorems, TLAPS

TrialRows == [scope : TrialScope \cup {"none"}, limit : Nat, season : Nat,
              decision : Decision \cup {""}]

TrialTypes ==
  /\ trial \in [Users -> TrialRows]
  /\ picked \in [Users -> SUBSET Episodes] /\ watched \in [Users -> SUBSET Episodes]
  /\ episode \in [Episodes -> Phase]

(* What is chosen for a trial are regular episodes of the series, no more  *)
(* than its limit, and what is seen was chosen.                            *)
TrialFits(u) ==
  /\ watched[u] \subseteq picked[u] /\ picked[u] \subseteq Regular(Stored)
  /\ Cardinality(picked[u]) <= trial[u].limit
  /\ trial[u].scope = "none" => picked[u] = {} /\ trial[u].decision = ""
  /\ trial[u].scope = "one_episode" => trial[u].limit = 1
  /\ trial[u].scope = "three_episodes" => trial[u].limit <= 3
  /\ trial[u].scope = "first_season" => \A e \in picked[u] : Season[e] = trial[u].season

TrialInv == TrialTypes /\ \A u \in Users : TrialFits(u)

-------------------------------------------------------------------------------
(* Sets of episodes.                                                       *)

LEMMA EpisodesAreFinite ==
  ASSUME NEW es \in SUBSET Episodes
  PROVE  IsFiniteSet(es) /\ Cardinality(es) \in Nat
  BY TablesAssumption, FS_Subset, FS_CardinalityType

LEMMA MoreEpisodes ==
  ASSUME NEW es \in SUBSET Episodes, NEW fs \in SUBSET es
  PROVE  /\ Cardinality(fs) <= Cardinality(es)
         /\ Cardinality(fs) = Cardinality(es) => fs = es
  BY EpisodesAreFinite, FS_Subset

LEMMA TogetherAtMost ==
  ASSUME NEW es \in SUBSET Episodes, NEW fs \in SUBSET Episodes
  PROVE  Cardinality(es \cup fs) <= Cardinality(es) + Cardinality(fs)
<1>1. IsFiniteSet(es) /\ IsFiniteSet(fs) /\ es \cap fs \in SUBSET Episodes
  BY EpisodesAreFinite
<1>2. Cardinality(es \cup fs) = Cardinality(es) + Cardinality(fs) - Cardinality(es \cap fs)
  BY <1>1, FS_Union
<1>3. Cardinality(es) \in Nat /\ Cardinality(fs) \in Nat /\ Cardinality(es \cap fs) \in Nat
  BY <1>1, EpisodesAreFinite
<1>4. QED
  BY <1>2, <1>3

(* Two episodes of a set have different numbers of episodes before them.   *)
LEMMA RanksDiffer ==
  ASSUME NEW es \in SUBSET Episodes, NEW e \in es, NEW f \in es, e # f
  PROVE  Cardinality({g \in es : Before(g, e)}) # Cardinality({g \in es : Before(g, f)})
<1> DEFINE Below(g) == {d \in es : Before(d, g)}
<1> USE TablesAssumption DEF Before
<1>1. ASSUME NEW a \in es, NEW b \in es, Before(a, b)
      PROVE  Cardinality(Below(a)) < Cardinality(Below(b))
  <2>1. Season \in [Episodes -> Nat] /\ Number \in [Episodes -> Nat]
    OBVIOUS
  <2>2. Below(a) \cup {a} \in SUBSET Below(b)
    BY <1>1, <2>1
  <2>3. a \notin Below(a)
    BY <2>1
  <2>4. IsFiniteSet(Below(a)) /\ Cardinality(Below(a)) \in Nat
    BY EpisodesAreFinite
  <2>5. Cardinality(Below(a) \cup {a}) = Cardinality(Below(a)) + 1
    BY <2>3, <2>4, FS_AddElement
  <2>6. Cardinality(Below(a) \cup {a}) <= Cardinality(Below(b)) /\ Cardinality(Below(b)) \in Nat
    BY <2>2, MoreEpisodes, EpisodesAreFinite
  <2>7. QED
    BY <2>4, <2>5, <2>6
<1>2. Before(e, f) \/ Before(f, e)
  OBVIOUS
<1>3. Cardinality(Below(e)) \in Nat /\ Cardinality(Below(f)) \in Nat
  BY EpisodesAreFinite
<1>4. Cardinality(Below(e)) < Cardinality(Below(f)) \/ Cardinality(Below(f)) < Cardinality(Below(e))
  <2> HIDE DEF Below, Before
  <2> QED
    BY <1>1, <1>2
<1>5. Cardinality(Below(e)) # Cardinality(Below(f))
  <2> HIDE DEF Below, Before
  <2> QED
    BY <1>3, <1>4
<1>6. QED
  BY <1>5

LEMMA FirstOfIsShort ==
  ASSUME NEW es \in SUBSET Episodes, NEW n \in Nat
  PROVE  FirstOf(es, n) \in SUBSET es /\ Cardinality(FirstOf(es, n)) <= n
<1> DEFINE T == FirstOf(es, n)
           rank == [e \in T |-> Cardinality({g \in es : Before(g, e)})]
<1>1. T \in SUBSET es
  BY DEF FirstOf
<1>2. IsFiniteSet(T) /\ Cardinality(T) \in Nat
  BY <1>1, EpisodesAreFinite
<1>3. rank \in [T -> 0 .. (n - 1)]
  <2> SUFFICES ASSUME NEW e \in T PROVE Cardinality({g \in es : Before(g, e)}) \in 0 .. (n - 1)
    OBVIOUS
  <2>1. Cardinality({g \in es : Before(g, e)}) \in Nat
    BY EpisodesAreFinite
  <2>2. Cardinality({g \in es : Before(g, e)}) < n
    BY DEF FirstOf
  <2>3. QED
    BY <2>1, <2>2
<1>4. IsFiniteSet(0 .. (n - 1)) /\ Cardinality(0 .. (n - 1)) = n
  BY FS_Interval
<1>5. \A e, f \in T : e # f => rank[e] # rank[f]
  <2> SUFFICES ASSUME NEW e \in T, NEW f \in T, e # f PROVE rank[e] # rank[f]
    OBVIOUS
  <2>1. e \in es /\ f \in es
    BY <1>1
  <2>2. QED
    BY <2>1, RanksDiffer
<1>6. ~(n < Cardinality(T))
  <2> HIDE DEF T, rank
  <2> QED
    BY <1>2, <1>3, <1>4, <1>5, FS_PigeonHole
<1>7. QED
  BY <1>1, <1>2, <1>6

-------------------------------------------------------------------------------
(* What the transactions do to trials.                                     *)

(* Episodes that are stored stay stored.                                   *)
LEMMA KeptTrials ==
  ASSUME TrialInv, UNCHANGED <<trial, picked, watched>>, episode' \in [Episodes -> Phase],
         Stored \subseteq Stored'
  PROVE  TrialInv'
<1>1. TrialTypes'
  BY DEF TrialInv, TrialTypes
<1>2. ASSUME NEW u \in Users PROVE TrialFits(u)'
  <2>1. Regular(Stored) \subseteq Regular(Stored)'
    BY DEF Regular
  <2>2. TrialFits(u)
    BY DEF TrialInv
  <2>3. QED
    BY <2>1, <2>2 DEF TrialFits
<1>3. QED
  BY <1>1, <1>2 DEF TrialInv

LEMMA OtherTrials ==
  ASSUME TrialInv, NEW v \in Users, trial'[v] = trial[v], UNCHANGED <<episode, picked, watched>>
  PROVE  TrialFits(v)'
<1>1. Regular(Stored)' = Regular(Stored)
  BY DEF Regular, Stored
<1>2. QED
  BY <1>1 DEF TrialInv, TrialFits

LEMMA StartedTrial ==
  ASSUME TrialInv, NEW u, NEW scope, CanStartTrial(u, scope), StartTrial(u, scope),
         UNCHANGED <<episode, picked, watched>>
  PROVE  /\ TrialInv'
         /\ \/ UNCHANGED trial
            \/ /\ u \in Users /\ trial[u].scope = "none"
               /\ trial'[u].scope # "none" /\ trial'[u].decision = ""
               /\ \A v \in Users \ {u} : trial'[v] = trial[v]
<1>1. CASE trial[u].scope # "none" \/ u \notin Users
  <2>1. trial' = trial
    BY <1>1 DEF StartTrial, TrialInv, TrialTypes
  <2>2. QED
    BY <2>1, KeptTrials DEF TrialInv, TrialTypes, Stored
<1>2. CASE trial[u].scope = "none" /\ u \in Users
  <2> DEFINE limit == CASE scope = "one_episode" -> 1
                        [] scope = "three_episodes" -> 3
                        [] scope = "first_season" -> 0
             row == [scope |-> scope, season |-> 0, decision |-> "", limit |-> limit]
  <2>1. scope \in {"one_episode", "three_episodes", "first_season"}
    BY DEF CanStartTrial, TrialScope
  <2>2. /\ limit \in Nat
        /\ scope = "one_episode" => limit = 1
        /\ scope = "three_episodes" => limit = 3
    BY <2>1
  <2>3. trial' = [trial EXCEPT ![u] = row]
    BY <1>2 DEF StartTrial
  <2> HIDE DEF limit
  <2>4. row \in TrialRows /\ row.scope = scope /\ row.limit = limit /\ row.decision = ""
    BY <2>1, <2>2 DEF TrialRows, TrialScope
  <2> HIDE DEF row
  <2>5. trial' \in [Users -> TrialRows]
    BY <2>3, <2>4 DEF TrialInv, TrialTypes
  <2>6. trial'[u] = row /\ \A v \in Users \ {u} : trial'[v] = trial[v]
    BY <1>2, <2>3 DEF TrialInv, TrialTypes
  <2>7. picked[u] = {} /\ Cardinality(picked[u]) = 0
    BY <1>2, FS_EmptySet DEF TrialInv, TrialFits
  <2>8. TrialFits(u)'
    <3>1. /\ trial'[u].scope = scope /\ trial'[u].limit = limit
          /\ picked'[u] = {} /\ watched'[u] = {} /\ Cardinality(picked'[u]) = 0
      BY <1>2, <2>4, <2>6, <2>7 DEF TrialInv, TrialFits
    <3>2. trial'[u].limit \in Nat /\ (scope = "one_episode" => trial'[u].limit = 1)
          /\ (scope = "three_episodes" => trial'[u].limit <= 3)
      BY <2>2, <3>1
    <3>3. scope # "none"
      BY <2>1
    <3>4. /\ watched'[u] \subseteq picked'[u] /\ picked'[u] \subseteq Regular(Stored)'
          /\ \A e \in picked'[u] : Season[e] = trial'[u].season
      BY <3>1
    <3>5. Cardinality(picked'[u]) <= trial'[u].limit
      BY <3>1, <3>2
    <3>6. QED
      BY <3>1, <3>2, <3>3, <3>4, <3>5, Zenon DEF TrialFits
  <2>9. \A v \in Users \ {u} : TrialFits(v)'
    BY <2>6, OtherTrials
  <2>10. TrialTypes'
    BY <2>5 DEF TrialInv, TrialTypes
  <2>11. TrialInv'
    BY <2>8, <2>9, <2>10 DEF TrialInv
  <2>12. trial'[u].scope # "none" /\ trial'[u].decision = ""
    BY <2>1, <2>4, <2>6
  <2>13. QED
    BY <1>2, <2>6, <2>11, <2>12
<1>3. QED
  BY <1>1, <1>2

LEMMA DecidedTrial ==
  ASSUME TrialInv, NEW u \in Users, NEW decision \in {"continue", "stop"}, CanVote(u),
         trial' = [trial EXCEPT ![u].decision = decision], UNCHANGED <<episode, picked, watched>>
  PROVE  /\ TrialInv'
         /\ trial'[u].decision = decision /\ trial'[u].scope = trial[u].scope
         /\ \A v \in Users \ {u} : trial'[v] = trial[v]
<1>1. trial[u] \in TrialRows /\ trial[u].scope # "none"
  BY DEF TrialInv, TrialTypes, CanVote, Undecided
<1> DEFINE row == [trial[u] EXCEPT !.decision = decision]
<1>2. /\ row \in TrialRows /\ row.decision = decision /\ row.scope = trial[u].scope
      /\ row.limit = trial[u].limit /\ row.season = trial[u].season
  BY <1>1 DEF TrialRows, Decision
<1>3. trial' = [trial EXCEPT ![u] = row]
  BY DEF TrialInv, TrialTypes
<1> HIDE DEF row
<1>4. trial' \in [Users -> TrialRows]
  BY <1>2, <1>3 DEF TrialInv, TrialTypes
<1>5. trial'[u] = row /\ \A v \in Users \ {u} : trial'[v] = trial[v]
  BY <1>3 DEF TrialInv, TrialTypes
<1>6. TrialFits(u)'
  <2>1. Regular(Stored)' = Regular(Stored)
    BY DEF Regular, Stored
  <2>2. QED
    BY <1>1, <1>2, <1>5, <2>1 DEF TrialInv, TrialFits
<1>7. \A v \in Users \ {u} : TrialFits(v)'
  BY <1>5, OtherTrials
<1>8. TrialTypes'
  BY <1>4 DEF TrialInv, TrialTypes
<1>9. QED
  BY <1>2, <1>5, <1>6, <1>7, <1>8 DEF TrialInv

LEMMA SeenEpisode ==
  ASSUME TrialInv, NEW u \in Users, NEW e \in Episodes, CanMarkWatched(u, e), MarkWatched(u, e),
         UNCHANGED <<trial, picked, episode>>
  PROVE  TrialInv'
<1>1. watched' = [watched EXCEPT ![u] = watched[u] \cup {e}]
  BY DEF MarkWatched
<1>2. TrialTypes'
  BY <1>1 DEF TrialInv, TrialTypes
<1>3. ASSUME NEW v \in Users PROVE TrialFits(v)'
  <2>1. watched'[v] \subseteq picked[v]
    BY <1>1 DEF TrialInv, TrialTypes, TrialFits, CanMarkWatched
  <2>2. QED
    <3>1. Regular(Stored)' = Regular(Stored)
      BY DEF Regular, Stored
    <3>2. QED
      BY <2>1, <3>1 DEF TrialInv, TrialFits
<1>4. QED
  BY <1>2, <1>3 DEF TrialInv

LEMMA LargestIsNat ==
  ASSUME NEW es \in SUBSET Episodes, \A e, f \in es : Season[e] = Season[f]
  PROVE  Largest({Season[e] : e \in es}) \in Nat
<1> DEFINE ids == {Season[e] : e \in es}
<1>1. ids \subseteq Nat
  BY TablesAssumption
<1>2. \E n \in ids \cup {0} : \A m \in ids : m <= n
  <2>1. CASE es = {}
    BY <2>1
  <2>2. CASE es # {}
    <3>1. PICK e \in es : TRUE
      BY <2>2
    <3>2. \A m \in ids : m = Season[e]
      BY <3>1
    <3>3. Season[e] \in ids /\ Season[e] \in Nat
      BY <3>1, <1>1
    <3>4. QED
      BY <3>2, <3>3
  <2>3. QED
    BY <2>1, <2>2
<1>3. Largest(ids) \in ids \cup {0}
  <2> HIDE DEF ids
  <2> QED
    BY <1>2 DEF Largest
<1>4. QED
  BY <1>1, <1>3

(* The selection of episodes: an open trial keeps what was chosen, and     *)
(* takes more only up to its limit; every other trial stays as it is.      *)
LEMMA PreparedTrials ==
  ASSUME TrialInv, PrepareTrials, UNCHANGED <<episode, watched>>
  PROVE  /\ TrialInv'
         /\ \A u \in Users :
              /\ trial'[u].scope = trial[u].scope /\ trial'[u].decision = trial[u].decision
              /\ picked[u] \subseteq picked'[u]
              /\ Undecided(u) \/ picked'[u] = picked[u]
<1> DEFINE undecided == {u \in Users : Undecided(u)}
           regular == Regular(Stored)
           first == {e \in regular : \A f \in regular : Season[e] <= Season[f]}
           live == {u \in undecided : Open(<<u, Show>>)}
           season == [u \in Users |->
             IF u \in live /\ trial[u].scope = "first_season" /\ trial[u].season = 0
             THEN Largest({Season[e] : e \in first}) ELSE trial[u].season]
           chosen == [u \in Users |->
             IF u \in live /\ trial[u].scope = "first_season"
             THEN picked[u] \cup {e \in Stored : season[u] > 0 /\ Season[e] = season[u] /\ Number[e] > 0}
             ELSE picked[u]]
           limit == [u \in Users |->
             CASE u \in live /\ trial[u].scope = "three_episodes" -> AtMost(3, Cardinality(regular))
               [] u \in undecided /\ trial[u].scope = "first_season" -> Cardinality(chosen[u])
               [] OTHER -> trial[u].limit]
           more(u) == FirstOf(regular \ chosen[u], limit[u] - Cardinality(chosen[u]))
<1>1. /\ trial' = [u \in Users |-> [trial[u] EXCEPT !.season = season[u], !.limit = limit[u]]]
      /\ picked' = [u \in Users |-> IF u \in live /\ Cardinality(chosen[u]) < limit[u]
                                    THEN chosen[u] \cup more(u) ELSE chosen[u]]
  BY DEF PrepareTrials, PrepareFor
<1>2. /\ regular \in SUBSET Episodes /\ regular \subseteq Stored
      /\ \A e \in regular : Season[e] > 0 /\ Number[e] > 0
      /\ \A e \in Stored : e \in Episodes /\ (Season[e] > 0 /\ Number[e] > 0 => e \in regular)
      /\ Cardinality(regular) \in Nat
  BY EpisodesAreFinite DEF Regular, Stored
<1>3. Largest({Season[e] : e \in first}) \in Nat
  <2>1. first \in SUBSET Episodes
    BY <1>2
  <2>2. \A e, f \in first : Season[e] = Season[f]
    BY <1>2, TablesAssumption
  <2> HIDE DEF first
  <2>3. QED
    BY <2>1, <2>2, LargestIsNat
<1>4. Regular(Stored)' = regular
  BY DEF Regular, Stored
<1>5. ASSUME NEW u \in Users
      PROVE  /\ season[u] \in Nat /\ chosen[u] \in SUBSET regular /\ picked[u] \subseteq chosen[u]
             /\ u \in live /\ trial[u].scope = "first_season" =>
                  \A e \in chosen[u] : Season[e] = season[u]
             /\ ~(u \in live /\ trial[u].scope = "first_season") =>
                  chosen[u] = picked[u] /\ season[u] = trial[u].season
  <2>1. trial[u] \in TrialRows /\ TrialFits(u) /\ picked[u] \subseteq regular
    BY DEF TrialInv, TrialTypes, TrialFits
  <2>2. trial[u].season \in Nat
    BY <2>1 DEF TrialRows
  <2>3. CASE u \in live /\ trial[u].scope = "first_season"
    <3>1. season[u] \in Nat /\ (season[u] = trial[u].season \/ trial[u].season = 0)
      BY <1>3, <2>2, <2>3
    <3>2. \A e \in picked[u] : Season[e] = trial[u].season
      BY <2>1, <2>3 DEF TrialFits
    <3>3. chosen[u] = picked[u] \cup {e \in Stored : season[u] > 0 /\ Season[e] = season[u] /\ Number[e] > 0}
      BY <2>3
    <3> HIDE DEF season, chosen, first, regular
    <3>4. \A e \in picked[u] : e \in regular /\ Season[e] = season[u]
      BY <1>2, <2>1, <3>1, <3>2
    <3>5. \A e \in chosen[u] : e \in regular /\ Season[e] = season[u]
      BY <1>2, <3>3, <3>4
    <3>6. QED
      BY <2>3, <3>1, <3>3, <3>5
  <2>4. CASE ~(u \in live /\ trial[u].scope = "first_season")
    <3>1. season[u] = trial[u].season /\ chosen[u] = picked[u]
      BY <2>4
    <3> HIDE DEF season, chosen, first, regular
    <3>2. QED
      BY <2>1, <2>2, <2>4, <3>1
  <2>5. QED
    BY <2>3, <2>4
<1>6. ASSUME NEW u \in Users
      PROVE  /\ limit[u] \in Nat /\ Cardinality(chosen[u]) <= limit[u]
             /\ trial[u].scope = "one_episode" => limit[u] = 1
             /\ trial[u].scope = "three_episodes" => limit[u] <= 3
             /\ u \in live /\ trial[u].scope = "first_season" => limit[u] = Cardinality(chosen[u])
  <2>1. trial[u] \in TrialRows /\ TrialFits(u) /\ trial[u].limit \in Nat
    BY DEF TrialInv, TrialTypes, TrialRows
  <2>2. chosen[u] \in SUBSET regular /\ Cardinality(chosen[u]) \in Nat
    BY <1>2, <1>5, EpisodesAreFinite
  <2> DEFINE Goal ==
        /\ limit[u] \in Nat /\ Cardinality(chosen[u]) <= limit[u]
        /\ trial[u].scope = "one_episode" => limit[u] = 1
        /\ trial[u].scope = "three_episodes" => limit[u] <= 3
        /\ u \in live /\ trial[u].scope = "first_season" => limit[u] = Cardinality(chosen[u])
  <2>3. CASE u \in live /\ trial[u].scope = "three_episodes"
    <3>1. limit[u] = AtMost(3, Cardinality(regular)) /\ chosen[u] = picked[u]
      BY <2>3, <1>5
    <3> HIDE DEF limit, chosen, regular, live, season
    <3>2. Cardinality(chosen[u]) <= Cardinality(regular)
      BY <1>2, <2>2, MoreEpisodes
    <3>3. Cardinality(chosen[u]) <= 3
      BY <2>1, <2>2, <2>3, <3>1 DEF TrialFits
    <3>4. QED
      BY <1>2, <2>2, <2>3, <3>1, <3>2, <3>3 DEF AtMost
  <2>4. CASE u \in undecided /\ trial[u].scope = "first_season"
    <3>1. limit[u] = Cardinality(chosen[u])
      BY <2>4
    <3> HIDE DEF limit, chosen, regular, live, season
    <3>2. QED
      BY <2>2, <2>4, <3>1
  <2>5. CASE /\ ~(u \in live /\ trial[u].scope = "three_episodes")
             /\ ~(u \in undecided /\ trial[u].scope = "first_season")
    <3>1. limit[u] = trial[u].limit
      BY <2>5
    <3>2. ~(u \in live /\ trial[u].scope = "first_season")
      BY <2>5
    <3>3. chosen[u] = picked[u]
      BY <1>5, <3>2
    <3> HIDE DEF limit, chosen, regular, live, season, undecided
    <3>4. QED
      BY <2>1, <3>1, <3>2, <3>3 DEF TrialFits
  <2>6. QED
    BY <2>3, <2>4, <2>5
<1>7. ASSUME NEW u \in Users
      PROVE  /\ trial'[u].scope = trial[u].scope /\ trial'[u].decision = trial[u].decision
             /\ trial'[u].season = season[u] /\ trial'[u].limit = limit[u]
             /\ trial'[u] \in TrialRows
  <2>1. trial'[u] = [trial[u] EXCEPT !.season = season[u], !.limit = limit[u]]
    BY <1>1
  <2>2. season[u] \in Nat /\ limit[u] \in Nat /\ trial[u] \in TrialRows
    BY <1>5, <1>6 DEF TrialInv, TrialTypes
  <2> HIDE DEF season, limit
  <2>3. QED
    BY <2>1, <2>2 DEF TrialRows
<1>8. ASSUME NEW u \in Users
      PROVE  /\ chosen[u] \subseteq picked'[u] /\ picked'[u] \in SUBSET regular
             /\ Cardinality(picked'[u]) <= limit[u]
             /\ picked'[u] = chosen[u] \/ (u \in live /\ Cardinality(chosen[u]) < limit[u])
  <2>1. /\ chosen[u] \in SUBSET Episodes /\ chosen[u] \subseteq regular
        /\ Cardinality(chosen[u]) \in Nat /\ limit[u] \in Nat /\ Cardinality(chosen[u]) <= limit[u]
    BY <1>2, <1>5, <1>6, EpisodesAreFinite
  <2>2. CASE u \in live /\ Cardinality(chosen[u]) < limit[u]
    <3>1. picked'[u] = chosen[u] \cup more(u)
      BY <1>1, <2>2
    <3> DEFINE room == limit[u] - Cardinality(chosen[u])
    <3>2. more(u) = FirstOf(regular \ chosen[u], room) /\ room \in Nat
      BY <2>1
    <3> HIDE DEF room, limit, chosen, live, more, season
    <3>3. more(u) \in SUBSET (regular \ chosen[u]) /\ Cardinality(more(u)) <= room
      BY <1>2, <2>1, <3>2, FirstOfIsShort
    <3>4. more(u) \in SUBSET Episodes
      BY <1>2, <3>3
    <3>5. Cardinality(picked'[u]) <= Cardinality(chosen[u]) + Cardinality(more(u))
      BY <2>1, <3>1, <3>4, TogetherAtMost
    <3>6. Cardinality(picked'[u]) \in Nat /\ Cardinality(more(u)) \in Nat
      BY <1>2, <2>1, <3>1, <3>4, EpisodesAreFinite
    <3>7. Cardinality(picked'[u]) <= limit[u]
      BY <2>1, <3>2, <3>3, <3>5, <3>6 DEF room
    <3>8. QED
      BY <2>1, <2>2, <3>1, <3>3, <3>7
  <2>3. CASE ~(u \in live /\ Cardinality(chosen[u]) < limit[u])
    <3>1. picked'[u] = chosen[u]
      BY <1>1, <2>3
    <3> HIDE DEF limit, chosen, live, more, season
    <3>2. QED
      BY <2>1, <3>1
  <2>4. QED
    BY <2>2, <2>3
<1>9. ASSUME NEW u \in Users
      PROVE  /\ TrialFits(u)' /\ picked[u] \subseteq picked'[u]
             /\ Undecided(u) \/ picked'[u] = picked[u]
  <2>1. TrialFits(u) /\ watched'[u] = watched[u]
    BY DEF TrialInv
  <2>2. u \in live => Undecided(u)
    OBVIOUS
  <2> HIDE DEF season, chosen, limit, live, regular, more, undecided
  <2>3. picked[u] \subseteq picked'[u] /\ (Undecided(u) \/ picked'[u] = picked[u])
    BY <1>5, <1>8, <2>2
  <2>4. watched'[u] \subseteq picked'[u] /\ picked'[u] \subseteq Regular(Stored)'
    BY <1>4, <1>8, <2>1, <2>3 DEF TrialFits
  <2>5. Cardinality(picked'[u]) <= trial'[u].limit
    BY <1>7, <1>8
  <2>6. /\ trial'[u].scope = "one_episode" => trial'[u].limit = 1
        /\ trial'[u].scope = "three_episodes" => trial'[u].limit <= 3
    BY <1>6, <1>7
  <2>7. trial'[u].scope = "none" => picked'[u] = {} /\ trial'[u].decision = ""
    BY <1>7, <2>1, <2>3 DEF TrialFits, Undecided
  <2>8. ASSUME trial'[u].scope = "first_season"
        PROVE  \A e \in picked'[u] : Season[e] = trial'[u].season
    <3>1. CASE u \in live
      BY <1>5, <1>6, <1>7, <1>8, <2>8, <3>1
    <3>2. CASE u \notin live
      BY <1>5, <1>7, <1>8, <2>1, <2>8, <3>2 DEF TrialFits
    <3>3. QED
      BY <3>1, <3>2
  <2>9. QED
    BY <2>3, <2>4, <2>5, <2>6, <2>7, <2>8, Zenon DEF TrialFits
<1>10. TrialTypes'
  <2>1. DOMAIN trial' = Users /\ DOMAIN picked' = Users
    BY <1>1
  <2>2. trial' = [u \in Users |-> trial'[u]] /\ picked' = [u \in Users |-> picked'[u]]
    BY <1>1
  <2> HIDE DEF season, chosen, limit, live, regular, more, undecided
  <2>3. \A u \in Users : trial'[u] \in TrialRows /\ picked'[u] \in SUBSET Episodes
    BY <1>2, <1>7, <1>8
  <2>4. trial' \in [Users -> TrialRows] /\ picked' \in [Users -> SUBSET Episodes]
    BY <2>2, <2>3
  <2>5. QED
    BY <2>4 DEF TrialInv, TrialTypes
<1>11. QED
  <2> HIDE DEF season, chosen, limit, live, regular, more, undecided
  <2> QED
    BY <1>7, <1>9, <1>10 DEF TrialInv

-------------------------------------------------------------------------------
(* The steps of the system, by what they do to trials.                     *)

Elsewhere ==
  /\ UNCHANGED <<trial, picked, watched>>
  /\ episode' \in [Episodes -> Phase] /\ Stored \subseteq Stored'
Starts ==
  /\ \E u, scope : CanStartTrial(u, scope) /\ StartTrial(u, scope)
  /\ UNCHANGED <<episode, picked, watched>>
Decides ==
  /\ \E u \in Users, decision \in {"continue", "stop"} :
       CanVote(u) /\ trial' = [trial EXCEPT ![u].decision = decision]
  /\ UNCHANGED <<episode, picked, watched>>
Prepares == PrepareTrials /\ UNCHANGED <<episode, watched>>
Sees ==
  /\ \E u \in Users, e \in Episodes : CanMarkWatched(u, e) /\ MarkWatched(u, e)
  /\ UNCHANGED <<trial, picked, episode>>

LEMMA NoEpisodeMoves ==
  ASSUME TrialInv, UNCHANGED <<trial, picked, watched, episode>> PROVE Elsewhere
  BY DEF TrialInv, TrialTypes, Elsewhere, Stored

LEMMA OneEpisodeMoves ==
  ASSUME TrialInv, UNCHANGED <<trial, picked, watched>>,
         NEW e, NEW phase \in Phase \ {"missing"}, episode' = [episode EXCEPT ![e] = phase]
  PROVE  Elsewhere
<1>1. episode \in [Episodes -> Phase]
  BY DEF TrialInv, TrialTypes
<1>2. episode' \in [Episodes -> Phase] /\ \A f \in Episodes : episode'[f] = episode[f] \/ episode'[f] = phase
  BY <1>1
<1>3. Stored \subseteq Stored'
  BY <1>2 DEF Stored
<1>4. QED
  BY <1>2, <1>3 DEF Elsewhere

LEMMA HandlerSteps ==
  ASSUME TrialInv, NEW h, HandlerStep(h) PROVE Elsewhere \/ Starts
<1> USE DEF tables, recVars, subjectVars, requestVars, syncVars
<1>1. CASE ReadRecorded(h) \/ CheckRules(h) \/ ReadSeries(h)
  BY <1>1, NoEpisodeMoves DEF ReadRecorded, CheckRules, ReadSeries
<1>2. CASE RequestMovie(h) \/ CreateSeries(h) \/ UpdateSeries(h)
  BY <1>2, NoEpisodeMoves DEF RequestMovie, CreateSeries, UpdateSeries
<1>3. CASE TrackRequest(h) \/ SelectSeasons(h) \/ Record(h) \/ Reopen(h)
  BY <1>3, NoEpisodeMoves DEF TrackRequest, SelectSeasons, Record, Reopen
<1>4. CASE BeginTrial(h)
  <2>1. UNCHANGED <<episode, picked, watched>>
    BY <1>4 DEF BeginTrial
  <2>2. CASE CanStartTrial(call[h].k[1], call[h].ask.trial)
    BY <1>4, <2>1, <2>2, Zenon DEF BeginTrial, Starts
  <2>3. CASE ~CanStartTrial(call[h].k[1], call[h].ask.trial)
    <3>1. UNCHANGED trial
      BY <1>4, <2>3, Zenon DEF BeginTrial
    <3>2. QED
      BY <2>1, <3>1, NoEpisodeMoves
  <2>4. QED
    BY <2>2, <2>3
<1>5. ASSUME NEW s \in call[h].todo, ForceSearch(h, s) PROVE Elsewhere \/ Starts
  <2>1. UNCHANGED <<trial, picked, watched>>
    BY <1>5 DEF ForceSearch
  <2>2. UNCHANGED episode \/ episode' = [episode EXCEPT ![s] = "wanted"]
    BY <1>5 DEF ForceSearch
  <2>3. QED
    BY <2>1, <2>2, NoEpisodeMoves, OneEpisodeMoves DEF Phase
<1>6. QED
  BY <1>1, <1>2, <1>3, <1>4, <1>5 DEF HandlerStep

LEMMA PassSteps ==
  ASSUME TrialInv, NEW p, PassStep(p) PROVE Elsewhere \/ Prepares
<1> USE DEF tables, recVars, subjectVars, requestVars, syncVars
<1>1. CASE \/ ListSeries(p) \/ ReadSeasons(p) \/ ReadLimits(p) \/ FetchEpisodes(p)
           \/ ReadSelected(p) \/ FinishPass(p)
  BY <1>1, NoEpisodeMoves DEF ListSeries, ReadSeasons, ReadLimits, FetchEpisodes, ReadSelected, FinishPass
<1>2. ASSUME NEW e \in pass[p].todo, StoreAnnounced(p, e) PROVE Elsewhere
  <2>1. UNCHANGED <<trial, picked, watched>>
    BY <1>2 DEF StoreAnnounced
  <2>2. episode' = [episode EXCEPT ![e] = IF @ = "missing" THEN "unmonitored" ELSE @]
    BY <1>2 DEF StoreAnnounced
  <2>3. episode' \in [Episodes -> Phase] /\ Stored \subseteq Stored'
    BY <2>2 DEF TrialInv, TrialTypes, Phase, Stored
  <2>4. QED
    BY <2>1, <2>3 DEF Elsewhere
<1>3. CASE SelectEpisodes(p)
  BY <1>3 DEF SelectEpisodes, Prepares
<1>4. ASSUME NEW e \in pass[p].todo, StoreEpisode(p, e) PROVE Elsewhere
  <2>1. UNCHANGED <<trial, picked, watched>>
    BY <1>4 DEF StoreEpisode
  <2>2. CASE e \in Episodes
    <3>1. PICK phase : episode' = [episode EXCEPT ![e] = phase] /\
            (phase \in {"wanted", "unmonitored"} \/ (phase = episode[e] /\ phase # "missing"))
      BY <1>4 DEF StoreEpisode
    <3>2. phase \in Phase \ {"missing"}
      BY <3>1, <2>2 DEF TrialInv, TrialTypes, Phase
    <3>3. QED
      BY <2>1, <3>1, <3>2, OneEpisodeMoves
  <2>3. CASE e \notin Episodes
    <3>1. UNCHANGED episode
      BY <1>4, <2>3 DEF StoreEpisode, TrialInv, TrialTypes
    <3>2. QED
      BY <2>1, <3>1, NoEpisodeMoves
  <2>4. QED
    BY <2>2, <2>3
<1>5. QED
  BY <1>1, <1>2, <1>3, <1>4 DEF PassStep

LEMMA SystemSteps ==
  ASSUME TrialInv, [Next]_vars
  PROVE  Elsewhere \/ Starts \/ Decides \/ Prepares \/ Sees
<1> USE DEF tables, recVars, subjectVars, requestVars, syncVars
<1>1. ASSUME NEW h \in Handlers, NEW k \in Keys, UserRetries(h, k) PROVE Elsewhere
  BY <1>1, NoEpisodeMoves DEF UserRetries, ReceiveRetry
<1>2. ASSUME NEW h \in Handlers, NEW k \in Keys, NEW act, NEW ask, UserActs(h, k, act, ask)
      PROVE  Elsewhere
  BY <1>2, NoEpisodeMoves DEF UserActs
<1>3. ASSUME NEW h \in Handlers, NEW patch \in Patches, OperatorPatches(h, patch) PROVE Elsewhere
  BY <1>3, NoEpisodeMoves DEF OperatorPatches, ReceivePatch
<1>4. ASSUME NEW h \in Handlers, Handle(h) PROVE Elsewhere \/ Starts
  BY <1>4, HandlerSteps DEF Handle
<1>5. ASSUME NEW h \in Handlers, HandlerFails(h) \/ ForgetCall(h) PROVE Elsewhere
  BY <1>5, NoEpisodeMoves DEF HandlerFails, Fail, ForgetCall, Forget
<1>6. ASSUME NEW k \in Keys, UserCancels(k) PROVE Elsewhere
  BY <1>6, NoEpisodeMoves DEF UserCancels, CancelRequest
<1>7. ASSUME NEW u \in Users, NEW decision \in {"continue", "stop"}, UserVotes(u, decision)
      PROVE  Decides
  BY <1>7 DEF UserVotes, Vote, VoteTrial, Decides
<1>8. ASSUME NEW u \in Users, NEW e \in Episodes, UserWatches(u, e) PROVE Sees
  BY <1>8 DEF UserWatches, Playback, Sees
<1>9. ASSUME NEW p \in Passes, RunPass(p) PROVE Elsewhere \/ Prepares
  BY <1>9, PassSteps DEF RunPass
<1>10. ASSUME NEW p \in Passes, PassAborts(p) PROVE Elsewhere
  BY <1>10, NoEpisodeMoves DEF PassAborts, AbortPass
<1>11. ASSUME NEW p \in Passes, NEW e \in Episodes, PassSkips(p, e) PROVE Elsewhere
  BY <1>11, NoEpisodeMoves DEF PassSkips, SkipEpisode
<1>12. ASSUME NEW e \in Episodes, ProviderAnnounces(e) \/ EpisodeAirs(e) PROVE Elsewhere
  BY <1>12, NoEpisodeMoves DEF ProviderAnnounces, Announce, EpisodeAirs, Air
<1>13. ASSUME NEW s \in Movies \cup Episodes, Acquire(s) PROVE Elsewhere
  <2>1. UNCHANGED <<trial, picked, watched>>
    BY <1>13 DEF Acquire
  <2>2. \/ UNCHANGED episode
        \/ \E phase \in {"active", "imported", "failed"} : episode' = [episode EXCEPT ![s] = phase]
    BY <1>13 DEF Acquire
  <2>3. QED
    BY <2>1, <2>2, NoEpisodeMoves, OneEpisodeMoves DEF Phase
<1>14. CASE SyncStep \/ SyncFault
  <2>1. UNCHANGED <<trial, picked, watched, episode>>
    BY <1>14 DEF SyncStep, AvailStep, BeginSync, SendBatch, SendComplete, HandleBatch,
                 HandleComplete, SyncFault, LoseMessage, GiveUp, ChangeLibrary
  <2>2. QED
    BY <2>1, NoEpisodeMoves
<1>15. CASE Notify \/ NotifyFault
  <2>1. UNCHANGED <<trial, picked, watched, episode>>
    BY <1>15 DEF Notify, WorkerStep, Claim, Finish, Post, ComeDue, NotifyFault, Abandon
  <2>2. QED
    BY <2>1, NoEpisodeMoves
<1>16. CASE Generate \/ Monitor \/ PluginFault
  <2>1. UNCHANGED <<trial, picked, watched, episode>>
    BY <1>16 DEF Generate, GenerateRead, GenerateFail, GenerateReplace, Prune, Monitor,
                 MonitorStep, BeginCheck, Answered, RefreshVirtual, SendQueued, SendMark,
                 ListActive, PluginFault, LoseAnswer, Mark
  <2>2. QED
    BY <2>1, NoEpisodeMoves
<1>17. CASE UNCHANGED vars
  BY <1>17, NoEpisodeMoves DEF vars
<1>18. QED
  BY <1>1, <1>2, <1>3, <1>4, <1>5, <1>6, <1>7, <1>8, <1>9, <1>10, <1>11, <1>12, <1>13, <1>14,
     <1>15, <1>16, <1>17 DEF Next

LEMMA TrialsStart == Init => TrialInv
<1> SUFFICES ASSUME Init PROVE TrialInv
  OBVIOUS
<1>1. /\ trial = [u \in Users |-> NoTrial] /\ episode = [e \in Episodes |-> "missing"]
      /\ picked = [u \in Users |-> {}] /\ watched = [u \in Users |-> {}]
  BY DEF Init
<1>2. NoTrial \in TrialRows /\ NoTrial.scope = "none" /\ NoTrial.decision = "" /\ NoTrial.limit = 0
  BY DEF NoTrial, TrialRows
<1>3. TrialTypes
  BY <1>1, <1>2 DEF TrialTypes, Phase
<1>4. ASSUME NEW u \in Users PROVE TrialFits(u)
  <2>1. trial[u] = NoTrial /\ picked[u] = {} /\ watched[u] = {} /\ Cardinality(picked[u]) = 0
    BY <1>1, FS_EmptySet
  <2> HIDE DEF NoTrial
  <2>2. picked[u] \subseteq Regular(Stored) /\ watched[u] \subseteq picked[u]
    BY <2>1, Zenon
  <2>3. trial[u].scope = "none" /\ trial[u].decision = ""
    BY <1>2, <2>1, Zenon
  <2>4. trial[u].limit = 0
    BY <1>2, <2>1, Zenon
  <2>5. Cardinality(picked[u]) <= trial[u].limit
    BY <2>1, <2>4
  <2>6. QED
    BY <2>1, <2>2, <2>3, <2>5, Zenon DEF TrialFits
<1>5. QED
  BY <1>3, <1>4 DEF TrialInv

LEMMA TrialsStep == TrialInv /\ [Next]_vars => TrialInv'
<1> SUFFICES ASSUME TrialInv, [Next]_vars PROVE TrialInv'
  OBVIOUS
<1>1. CASE Elsewhere
  BY <1>1, KeptTrials DEF Elsewhere
<1>2. CASE Starts
  BY <1>2, StartedTrial DEF Starts
<1>3. CASE Decides
  BY <1>3, DecidedTrial DEF Decides
<1>4. CASE Prepares
  BY <1>4, PreparedTrials DEF Prepares
<1>5. CASE Sees
  BY <1>5, SeenEpisode DEF Sees
<1>6. QED
  BY <1>1, <1>2, <1>3, <1>4, <1>5, SystemSteps

(* The inductive invariant of trials: what is chosen are regular episodes  *)
(* within scope and limit, and what is seen was chosen                     *)
(* (store/trials.go, whoever calls it in whatever order).                  *)
THEOREM TrialsInvariant == Spec => []TrialInv
  BY TrialsStart, TrialsStep, PTL DEF Spec

(* A trial of one or three episodes never takes more, one of the first     *)
(* season takes only that season's, and none takes a special, however      *)
(* metadata passes, votes and requests interleave.                         *)
THEOREM TrialsStayWithinScope == Spec => []TrialWithinScope
<1>1. TrialInv => TrialWithinScope
  <2> SUFFICES ASSUME TrialInv, NEW u \in Users
               PROVE  /\ trial[u].scope = "one_episode" => Cardinality(picked[u]) <= 1
                      /\ trial[u].scope = "three_episodes" => Cardinality(picked[u]) <= 3
                      /\ trial[u].scope = "first_season" =>
                           \A e \in picked[u] : Season[e] = trial[u].season
                      /\ \A e \in picked[u] : Season[e] > 0 /\ Number[e] > 0
    BY DEF TrialWithinScope
  <2>1. TrialFits(u) /\ trial[u] \in TrialRows /\ picked[u] \in SUBSET Episodes
    BY DEF TrialInv, TrialTypes
  <2>2. trial[u].limit \in Nat /\ Cardinality(picked[u]) \in Nat
    BY <2>1, EpisodesAreFinite DEF TrialRows
  <2>3. \A e \in picked[u] : Season[e] > 0 /\ Number[e] > 0
    BY <2>1 DEF TrialFits, Regular
  <2>4. /\ Cardinality(picked[u]) <= trial[u].limit
        /\ trial[u].scope = "one_episode" => trial[u].limit = 1
        /\ trial[u].scope = "three_episodes" => trial[u].limit <= 3
    BY <2>1, Zenon DEF TrialFits
  <2>5. /\ trial[u].scope = "one_episode" => Cardinality(picked[u]) <= 1
        /\ trial[u].scope = "three_episodes" => Cardinality(picked[u]) <= 3
    BY <2>2, <2>4
  <2>6. QED
    BY <2>1, <2>3, <2>5, Zenon DEF TrialFits
<1>2. QED
  BY <1>1, TrialsInvariant, PTL

-------------------------------------------------------------------------------
(* Trials implement TrialPromise.                                          *)

Stage == [u \in Users |-> IF trial[u].scope = "none" THEN "none"
                          ELSE IF trial[u].decision = "" THEN "open" ELSE trial[u].decision]

LEMMA PromiseStarts == Init => Promise!Init
<1> SUFFICES ASSUME Init PROVE Promise!Init
  OBVIOUS
<1>1. /\ trial = [u \in Users |-> NoTrial]
      /\ picked = [u \in Users |-> {}] /\ watched = [u \in Users |-> {}]
  BY DEF Init
<1>2. NoTrial.scope = "none"
  BY DEF NoTrial
<1> HIDE DEF NoTrial
<1>3. QED
  BY <1>1, <1>2 DEF Promise!Init

LEMMA PromiseStep ==
  ASSUME TrialInv, [Next]_vars
  PROVE  Promise!Next \/ (UNCHANGED <<picked, watched>> /\ Stage' = Stage)
<1>1. CASE Elsewhere
  BY <1>1 DEF Elsewhere, Stage
<1>2. CASE Starts
  <2>1. PICK u, scope : CanStartTrial(u, scope) /\ StartTrial(u, scope)
    BY <1>2 DEF Starts
  <2>2. UNCHANGED <<episode, picked, watched>>
    BY <1>2 DEF Starts
  <2>3. CASE UNCHANGED trial
    BY <2>2, <2>3 DEF Stage
  <2>4. CASE /\ u \in Users /\ trial[u].scope = "none"
             /\ trial'[u].scope # "none" /\ trial'[u].decision = ""
             /\ \A v \in Users \ {u} : trial'[v] = trial[v]
    <3>1. Stage[u] = "none" /\ Stage' = [Stage EXCEPT ![u] = "open"]
      BY <2>4 DEF Stage
    <3>2. Promise!Start(u)
      BY <2>2, <3>1 DEF Promise!Start, Stage
    <3>3. QED
      BY <2>4, <3>2 DEF Promise!Next
  <2>5. QED
    BY <2>1, <2>2, <2>3, <2>4, StartedTrial
<1>3. CASE Decides
  <2>1. PICK u \in Users, decision \in {"continue", "stop"} :
          CanVote(u) /\ trial' = [trial EXCEPT ![u].decision = decision]
    BY <1>3 DEF Decides
  <2>2. UNCHANGED <<episode, picked, watched>>
    BY <1>3 DEF Decides
  <2>3. /\ trial'[u].decision = decision /\ trial'[u].scope = trial[u].scope
        /\ \A v \in Users \ {u} : trial'[v] = trial[v]
    BY <2>1, <2>2, DecidedTrial
  <2>4. trial[u].scope # "none" /\ trial[u].decision = ""
    BY <2>1 DEF CanVote, Undecided
  <2>5. trial[u].limit > 0 /\ Cardinality(watched[u]) >= trial[u].limit
    BY <2>1 DEF CanVote
  <2>6. Stage[u] = "open" /\ Stage' = [Stage EXCEPT ![u] = decision]
    BY <2>3, <2>4 DEF Stage
  <2>7. picked[u] # {} /\ watched[u] = picked[u]
    <3>1. /\ picked[u] \in SUBSET Episodes /\ watched[u] \in SUBSET picked[u]
          /\ Cardinality(picked[u]) <= trial[u].limit /\ trial[u].limit \in Nat
      BY DEF TrialInv, TrialTypes, TrialFits, TrialRows
    <3>2. Cardinality(picked[u]) \in Nat /\ Cardinality(watched[u]) \in Nat
      BY <3>1, EpisodesAreFinite
    <3>3. Cardinality(watched[u]) <= Cardinality(picked[u])
      BY <3>1, MoreEpisodes
    <3>4. Cardinality(watched[u]) = Cardinality(picked[u]) /\ Cardinality(picked[u]) # 0
      BY <2>5, <3>1, <3>2, <3>3
    <3>5. watched[u] = picked[u]
      BY <3>1, <3>4, MoreEpisodes
    <3>6. picked[u] # {}
      BY <3>4, FS_EmptySet
    <3>7. QED
      BY <3>5, <3>6
  <2>8. Promise!Vote(u)
    BY <2>2, <2>6, <2>7 DEF Promise!Vote, Stage
  <2>9. QED
    BY <2>8 DEF Promise!Next
<1>4. CASE Prepares
  <2>1. /\ \A u \in Users :
             /\ trial'[u].scope = trial[u].scope /\ trial'[u].decision = trial[u].decision
             /\ picked[u] \subseteq picked'[u]
             /\ Undecided(u) \/ picked'[u] = picked[u]
        /\ TrialInv'
    BY <1>4, PreparedTrials DEF Prepares
  <2>2. Stage' = Stage /\ \A u \in Users : Undecided(u) => Stage[u] = "open"
    BY <2>1 DEF Stage, Undecided
  <2>3. picked' \in [Users -> SUBSET Episodes] /\ UNCHANGED watched
    BY <1>4, <2>1 DEF Prepares, TrialInv, TrialTypes
  <2>4. Promise!Choose
    BY <2>1, <2>2, <2>3 DEF Promise!Choose, Stage
  <2>5. QED
    BY <2>4 DEF Promise!Next
<1>5. CASE Sees
  <2>1. PICK u \in Users, e \in Episodes : CanMarkWatched(u, e) /\ MarkWatched(u, e)
    BY <1>5 DEF Sees
  <2>2. Stage[u] = "open" /\ e \in picked[u] /\ Stage' = Stage /\ UNCHANGED picked
    BY <1>5, <2>1 DEF Sees, CanMarkWatched, Undecided, Stage
  <2>3. Promise!See(u, e)
    BY <2>1, <2>2 DEF Promise!See, MarkWatched, Stage
  <2>4. QED
    BY <2>3 DEF Promise!Next
<1>6. QED
  BY <1>1, <1>2, <1>3, <1>4, <1>5, SystemSteps

(* Whatever else happens to the tables, trials are what TrialPromise says: *)
(* the choice only grows, and one vote ends it once all of it is seen.     *)
THEOREM TrialsKeepTheirPromise == Spec => KeepsPromise
<1>1. TrialInv /\ [Next]_vars => [Promise!Next]_<<Stage, picked, watched>>
  BY PromiseStep
<1>2. QED
  BY <1>1, PromiseStarts, TrialsInvariant, PTL DEF Spec, KeepsPromise, Promise!Spec, Stage
===============================================================================

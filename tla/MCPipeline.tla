------------------------------ MODULE MCPipeline ------------------------------
(***************************************************************************)
(* Instances of the pipeline for TLC: one series of two episodes, or one   *)
(* movie, a release of one episode and a pack of both.                     *)
(***************************************************************************)
EXTENDS Pipeline, TLC

CONSTANTS e1, e2, m1, show, single, pack, film, other, third

EpisodeSeries == [e \in {e1, e2} |-> show]
EpisodeRank == e1 :> 1 @@ e2 :> 2
OneRank == [e \in {e1} |-> 1]

OneEpisode == [e \in {e1} |-> show]

PackAndSingle == single :> {e2} @@ pack :> {e1, e2}
OneSingle == single :> {e1}
Films == film :> {m1} @@ other :> {m1}
ThreeFilms == Films @@ third :> {m1}

NoSeries == [e \in {} |-> show]
NoRank == [e \in {} |-> 0]

(* Transfers that go well, that wait or fail, and that others meddle with. *)
Smooth == {<<"downloading", "complete">>}
Rough == Smooth \cup {<<"downloading", "error">>, <<"downloading", "queued">>,
                      <<"queued", "downloading">>}
Meddled == Smooth \cup {<<"downloading", "error">>, <<"downloading", "absent">>,
                        <<"downloading", "foreign">>}
===============================================================================

-------------------------- MODULE MCSeriesProtocol --------------------------
(***************************************************************************)
(* Two sub-games, so that there is a first round, a later round and a last *)
(* one; two configs and two models, so that the two sides may be started   *)
(* with different ones.                                                    *)
(***************************************************************************)
EXTENDS SeriesProtocol

CONSTANTS c1, c2, m1, m2

MCConfigs == {c1, c2}
MCModels == {m1, m2}
=============================================================================

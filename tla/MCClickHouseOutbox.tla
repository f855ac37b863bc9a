------------------------- MODULE MCClickHouseOutbox -------------------------
(***************************************************************************)
(* Values of the constants of ClickHouseOutbox for model checking.         *)
(***************************************************************************)
EXTENDS ClickHouseOutbox, TLC

CONSTANTS e1, e2, w1, w2

TwoIds == 1..2
ThreeIds == 1..3
NoPoison == {}
Interchangeable == Permutations(Workers) \cup Permutations(Events)
=============================================================================

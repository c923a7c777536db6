------------------------------ MODULE MCWork ------------------------------
EXTENDS Work

MCStageTypes == <<"open", "won">>

\* two cards in the first column, with no letter between their ranks
MCBoards == {<<<<1>>, <<1, 1>>>>}
===========================================================================

------------------------------- MODULE MCFileLog -------------------------------
(* Values of FileLogAppender's constants for TLC. *)
EXTENDS FileLogAppender, TLC

Alike == Permutations(Threads)

\* Two entries of the root, two in one of them, one below that.
FivePaths == {<<"a">>, <<"b">>, <<"a", "c">>, <<"a", "d">>, <<"a", "c", "e">>}

TwoDirs == <<"var", "log">>
=============================================================================

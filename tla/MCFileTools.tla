------------------------------ MODULE MCFileTools ------------------------------
(* Small instances of FileTools for TLC. *)
EXTENDS FileTools, TLC

\* Empty, without a last newline, with Windows line ends, a form feed, repeated
\* and overlapping parts, and more lines than one answer shows.
MCInitialTexts ==
  {<<>>, <<"x">>, <<"x", "x", "x">>, <<"x", "lf", "y", "x">>,
   <<"y", "cr", "lf", "x", "cr", "lf", "y">>, <<"y", "ff", "x", "lf">>,
   <<"x", "lf", "lf", "x", "lf", "y", "lf", "y">>}

MCOldContents == {<<>>, <<"x">>, <<"x", "x">>, <<"lf", "x">>, <<"y">>}
MCNewContents == {<<>>, <<"y", "lf">>, <<"x", "cr", "lf", "y", "lf">>, <<"lf", "y", "cr">>,
                  <<"x", "x", "x", "x", "x", "x", "x", "x", "x">>}
MCKeywords == {<<"x">>, <<"y", "x">>}

\* Runs are interchangeable.
Symmetry == Permutations(Runs)
===============================================================================

------------------------------ MODULE MCUpdate ------------------------------
(***************************************************************************)
(* Small organizations for model-checking Update.                          *)
(***************************************************************************)
EXTENDS Update

CONSTANTS p1, p2, r1, r2

OnePull == {p1}
TwoPulls == {p1, p2}
OneRepo == {r1}
TwoRepos == {r1, r2}

AllInLaterRepo == [p \in TwoPulls |-> r2]
OneInEachRepo == (p1 :> r1) @@ (p2 :> r2)
OnlyPullInRepo == [p \in OnePull |-> r1]

ListOfOne == <<r1>>
ListOfTwo == <<r1, r2>>

(* Updates are interchangeable.                                             *)
UpdaterSymmetry == Permutations(Updater)
=============================================================================

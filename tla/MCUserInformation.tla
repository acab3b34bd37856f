-------------------------- MODULE MCUserInformation --------------------------
(***************************************************************************)
(* Reports of a December and the January after it.  Two organizations have *)
(* a repository decrediton with a pull request of the same number; a third *)
(* pull request is in dcrd, whose name lacks "decred".                     *)
(***************************************************************************)
EXTENDS UserInformation

CONSTANTS p1, p2, p3, alice, bob, decrediton, dcrd

Pulls == {p1, p2, p3}
Repos == {decrediton, dcrd}
WithDecred == {decrediton}
Authors == (p1 :> alice) @@ (p2 :> alice) @@ (p3 :> alice)
RepoNames == (p1 :> decrediton) @@ (p2 :> decrediton) @@ (p3 :> dcrd)
Numbers == (p1 :> 1) @@ (p2 :> 1) @@ (p3 :> 2)

Reviews == {<<p1, 1>>, <<p1, 2>>, <<p3, 3>>, <<p2, 4>>}
Reviewers == (<<p1, 1>> :> alice) @@ (<<p1, 2>> :> bob) @@ (<<p3, 3>> :> alice)
        @@ (<<p2, 4>> :> alice)

(* One review has no readable time; one was made at the last midnight of    *)
(* December, which is in both months.                                       *)
ReviewTimes ==
    (<<p1, 1>> :> Date(2020, 12, 31)) @@ (<<p1, 2>> :> Unset)
        @@ (<<p3, 3>> :> Date(2020, 12, 15) + 7) @@ (<<p2, 4>> :> Date(2020, 12, 20) + 7)

OpenRow(n, rs) == [updatedAt |-> 1, additions |-> n, mergedAt |-> 0,
                   commits |-> << >>, reviews |-> rs]
MergedRow(n, t, rs) == [updatedAt |-> 2, additions |-> n, mergedAt |-> t,
                        commits |-> << >>, reviews |-> rs]
Rows ==
    (p1 :> {OpenRow(1, <<1>>), MergedRow(2, Date(2020, 12, 15) + 7, <<1, 2>>)})
        @@ (p2 :> {OpenRow(3, << >>), MergedRow(4, Date(2020, 12, 31) + 12, <<4>>)})
        @@ (p3 :> {MergedRow(5, Date(2021, 1, 31), <<3>>)})

DecemberJanuary ==
    <<[year |-> 2020, month |-> 12], [year |-> 2021, month |-> 1]>>
=============================================================================

------------------------------- MODULE Mirror -------------------------------
(***************************************************************************)
(* What the tracker's database promises of every pull request: it holds a  *)
(* version that exists or existed, it never goes back to an earlier one,   *)
(* and a pull request does not stay unknown for ever.  (It does not        *)
(* promise to follow the changes: see EventuallyFresh in Update.)          *)
(***************************************************************************)
EXTENDS Naturals

CONSTANTS
    Item,       \* the things mirrored
    Wanted      \* those that must not stay unknown

VARIABLES
    remote,     \* remote[i]: the version of i, 0 if it does not exist
    stored      \* stored[i]: the version of the copy, 0 if there is none

Init ==
    /\ remote = [i \in Item |-> 0]
    /\ stored = [i \in Item |-> 0]

Change(i) ==
    /\ remote' = [remote EXCEPT ![i] = @ + 1]
    /\ UNCHANGED stored

Copy(i) ==
    /\ \E v \in 1 .. remote[i] :
          /\ v >= stored[i]
          /\ stored' = [stored EXCEPT ![i] = v]
    /\ UNCHANGED remote

Next == \E i \in Item : Change(i) \/ Copy(i)

mirrorVars == <<remote, stored>>

Safety == Init /\ [][Next]_mirrorVars

NoneUnknown == \A i \in Wanted : remote[i] > 0 ~> stored[i] > 0

Spec == Safety /\ NoneUnknown
=============================================================================

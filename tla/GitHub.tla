------------------------------- MODULE GitHub -------------------------------
(***************************************************************************)
(* The pull requests of one GitHub organization, as its REST API shows     *)
(* them to the tracker.  GitHub is not part of the repository: this module *)
(* is the environment of src/api and src/server, and says no more of it    *)
(* than src/api relies on.                                                 *)
(*                                                                         *)
(* A pull request is opened, receives commits and reviews and is merged.   *)
(* Each of these events gives it a later updated_at and moves it to the    *)
(* front of its repository's listing, which src/api asks for with          *)
(* "state=all&sort=updated&direction=desc".  Commits and reviews are       *)
(* numbered in the order they were made: the n-th commit of a pull request *)
(* is n.                                                                   *)
(***************************************************************************)
EXTENDS Naturals, Sequences, SequencesExt

CONSTANTS
    PR,         \* the pull requests that may ever be opened
    Repo,       \* the repositories of the organization
    RepoOf,     \* the repository a pull request belongs to
    MaxRev      \* bound: how many events one pull request sees

ASSUME GitHubAssumption ==
    /\ RepoOf \in [PR -> Repo]
    /\ MaxRev \in Nat

VARIABLES
    gh,         \* gh[p]: the pull request as it is now
    recent      \* recent[r]: the open or merged pull requests of r, most
                \* recently updated first

ghVars == <<gh, recent>>

Snapshot == [updatedAt : Nat, commits : Nat, reviews : Nat, mergedAt : Nat]

GitHubTypeOK ==
    /\ gh \in [PR -> Snapshot]
    /\ recent \in [Repo -> Seq(PR)]

IsOpened(p) == gh[p].updatedAt > 0

GitHubInit ==
    /\ gh = [p \in PR |-> [updatedAt |-> 0, commits |-> 0, reviews |-> 0,
                           mergedAt |-> 0]]
    /\ recent = [r \in Repo |-> << >>]

-----------------------------------------------------------------------------
(***************************************************************************)
(* Every event bumps updated_at and brings the pull request to the front.  *)
(***************************************************************************)
OpenPullRequest(p) ==
    /\ ~IsOpened(p)
    /\ MaxRev > 0
    /\ gh' = [gh EXCEPT ![p] = [gh[p] EXCEPT !.updatedAt = 1, !.commits = 1]]
    /\ recent' = [recent EXCEPT ![RepoOf[p]] = <<p>> \o @]

BringToFront(p) ==
    /\ IsOpened(p)
    /\ gh[p].updatedAt < MaxRev
    /\ \E i \in DOMAIN recent[RepoOf[p]] :
          /\ recent[RepoOf[p]][i] = p
          /\ recent' = [recent EXCEPT ![RepoOf[p]] = <<p>> \o RemoveAt(@, i)]

PushCommit(p) ==
    /\ BringToFront(p)
    /\ gh[p].mergedAt = 0
    /\ gh' = [gh EXCEPT ![p] =
                 [gh[p] EXCEPT !.updatedAt = @ + 1, !.commits = @ + 1]]

SubmitReview(p) ==
    /\ BringToFront(p)
    /\ gh' = [gh EXCEPT ![p] =
                 [gh[p] EXCEPT !.updatedAt = @ + 1, !.reviews = @ + 1]]

MergePullRequest(p) ==
    /\ BringToFront(p)
    /\ gh[p].mergedAt = 0
    /\ gh' = [gh EXCEPT ![p] =
                 [gh[p] EXCEPT !.updatedAt = @ + 1, !.mergedAt = gh[p].updatedAt + 1]]

UpdateOnGitHub(p) == PushCommit(p) \/ SubmitReview(p) \/ MergePullRequest(p)
=============================================================================

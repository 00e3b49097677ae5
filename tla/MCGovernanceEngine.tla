------------------------- MODULE MCGovernanceEngine -------------------------
(***************************************************************************)
(* Small instances of the governance engine for TLC.  The mixes bound the  *)
(* requests of each kind the clients make in one behaviour.                *)
(***************************************************************************)
EXTENDS GovernanceEngine, TLC

CONSTANTS w1, w2, ra, ac, finance, d1

OneDomain == [d \in Decisions |-> finance]

(* A RESPONSIBLE and an ACCOUNTABLE user, both of whom must approve. *)
SeedRA ==
  <<[user |-> ra, domain |-> finance, role |-> "responsible"],
    [user |-> ac, domain |-> finance, role |-> "accountable"]>>

(* Requests per kind: create, submit, vote, veto, override, assign, revoke. *)
Requests(c, s, v, x, o, a, r) ==
  [op \in Ops |-> CASE op = "create"   -> c
                    [] op = "submit"   -> s
                    [] op = "vote"     -> v
                    [] op = "veto"     -> x
                    [] op = "override" -> o
                    [] op = "assign"   -> a
                    [] op = "revoke"   -> r]

VotesAndVeto     == {Requests(1, 1, 2, 1, 0, 0, 0)}
VetoAndOverrides == {Requests(1, 1, 0, 1, 2, 0, 1)}
RolesOnly        == {Requests(0, 0, 0, 0, 0, 2, 2)}
OneByOne         == {Requests(1, 2, 2, 1, 1, 0, 1)}
OneOfMost        == {Requests(1, 1, 1, 1, 1, 0, 0)}
TwoApprovals     == {Requests(1, 1, 2, 0, 0, 0, 0)}

\* One run for three mixes: a behaviour makes the requests of one of them.
ThreeMixes == VotesAndVeto \cup VetoAndOverrides \cup RolesOnly

Symmetric == Permutations(Workers)
=============================================================================

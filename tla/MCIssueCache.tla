---------------------------- MODULE MCIssueCache ----------------------------
(***************************************************************************)
(* Small instances of IssueCache: statuses are interchangeable.            *)
(***************************************************************************)
EXTENDS IssueCache, TLC

Columns == Permutations(Status)
=============================================================================

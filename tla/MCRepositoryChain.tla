--------------------------- MODULE MCRepositoryChain ---------------------------
(* Two repositories: one whose package changes in a manifest that stays,   *)
(* one whose manifest moves and names a package only then.                 *)
EXTENDS RepositoryChain, TLC

CONSTANTS a, b, top, sub, k1, k2

Trees == [x \in Repo \X Revision |-> IF x = <<b, 2>> THEN sub ELSE top]
Packages == (<<a, 1>> :> k1) @@ (<<a, 2>> :> k2) @@ (<<b, 1>> :> NoPackage) @@ (<<b, 2>> :> k1)
================================================================================

------------------------------- MODULE MCRefresh -------------------------------
(* Two servers that name the same package, of which guard-scan takes one,  *)
(* and two repositories, one of them named by a server.                    *)
EXTENDS RefreshProps, TLC

CONSTANTS a, b, c, pkg, known, other

MCListing == <<a, b, c>>
MCKind == [s \in Server |-> IF s = c THEN "none" ELSE "npm"]
MCPackageOf == [s \in Server |-> pkg]
MCDocument == <<pkg, 1>> :> {"info"} @@ <<pkg, 2>> :> {"medium"}
MCManifest == <<pkg, 1>> :> {} @@ <<pkg, 2>> :> {"high"}
MCRepoOf == [s \in Server |-> IF s = a THEN {known} ELSE {}]
MCRepoMetadata == [r \in Repo |-> {"low"}]
MCRepoPackage == [r \in Repo |-> {}]
================================================================================

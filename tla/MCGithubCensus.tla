---------------------------- MODULE MCGithubCensus ----------------------------
(* Small instances of the census: four repositories in two or three buckets. *)
EXTENDS GithubCensusProps, TLC

CONSTANTS a, b, c, d, many, few, none

Stars == <<a, b, c, d>>
TwoBuckets == <<many, few>>
ThreeBuckets == <<many, few, none>>
ThreeAndOne == a :> many @@ b :> many @@ c :> many @@ d :> few
OneAndThree == a :> many @@ b :> few @@ c :> few @@ d :> few
Spread == a :> many @@ b :> few @@ c :> few @@ d :> none

AllWorlds == [Repo -> 0..FirstDay]
FullWorlds == [Repo -> 1..FirstDay]
FewWorlds == {w \in AllWorlds : w[a] = FirstDay /\ w[d] = FirstDay}
===============================================================================

--------------------------- MODULE MCContributions --------------------------
(* Contributions on a small hub: one seeded block and room for two more, two *)
(* proposals, two curators and two requests at a time, enough for any race   *)
(* between two curators or a curator and an author, and for each outcome of  *)
(* one race to be the starting point of another.                             *)
EXTENDS Contributions, TLC

CONSTANTS ann, cur, cid, b1, b2, b3

\* The roles of the members and of the blocks differ; within a role, and among
\* proposals and requests, the identities are interchangeable.
Symmetric ==
  Permutations(Contributions) \cup Permutations(Requests) \cup
  Permutations(Curators) \cup Permutations(Blocks \ SeedBlocks)

MCUsers == {ann, cur, cid}
MCCurators == {cur, cid}
MCBlocks == {b1, b2, b3}
MCSeedBlocks == {b1}
=============================================================================

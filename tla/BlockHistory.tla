---------------------------- MODULE BlockHistory ----------------------------
(* What the knowledge hub promises its readers about one block: the text    *)
(* shown is the newest entry of an append-only history, and every approved  *)
(* proposal adds exactly one entry to exactly one block.  Nothing here says *)
(* how many curators work at once; Contributions.tla does, and implements   *)
(* this specification.                                                      *)
EXTENDS Sequences

CONSTANTS Blocks,      \* identities a knowledge block can have
          Texts,       \* texts a proposal can carry
          InitialText, \* the text of a seeded block
          NoText       \* the text of a block that does not exist yet

VARIABLES shown,    \* shown[b]: the text a reader of b gets
          history   \* history[b]: the revision list of b, oldest first

vars == <<shown, history>>

Exists(b) == shown[b] # NoText

\* A seeded block may or may not have been given its first revision row.
Init ==
  /\ shown \in [Blocks -> {InitialText, NoText}]
  /\ history \in [Blocks -> {<<>>, <<InitialText>>}]
  /\ \A b \in Blocks : ~Exists(b) => history[b] = <<>>

Publish(b, t) ==
  /\ shown' = [shown EXCEPT ![b] = t]
  /\ history' = [history EXCEPT ![b] = Append(@, t)]

Create(b, t) == ~Exists(b) /\ Publish(b, t)
Edit(b, t)   == Exists(b) /\ Publish(b, t)

Next == \E b \in Blocks, t \in Texts : Create(b, t) \/ Edit(b, t)

Spec == Init /\ [][Next]_vars
=============================================================================

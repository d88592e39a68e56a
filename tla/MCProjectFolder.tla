--------------------------- MODULE MCProjectFolder ---------------------------
(* Two tasks; two chunks, two pairs, one made from each; two seeds; a       *)
(* request for both pairs, of which each seed holds out another, and one    *)
(* that is capped at one pair, drawn by the seed, and holds out none.       *)
EXTENDS ProjectFolder, TLC

CONSTANTS a, b, c1, c2, p1, p2, r1, r2, s1, s2

MCTasks == {a, b}
MCChunks == {c1, c2}
MCPairs == {p1, p2}
MCSeeds == {s1, s2}
MCChunkOf == p1 :> c1 @@ p2 :> c2
MCRequests == {r1, r2}
MCDrawn ==
  [q \in MCRequests |-> [s \in MCSeeds |->
    CASE q = r1 -> MCPairs [] q = r2 /\ s = s1 -> {p1} [] q = r2 /\ s = s2 -> {p2}]]
MCHeldOut ==
  [q \in MCRequests |-> [s \in MCSeeds |->
    CASE q = r1 /\ s = s1 -> {p1} [] q = r1 /\ s = s2 -> {p2} [] q = r2 -> {}]]

\* The tasks are alike: an operation is begun by the first that is idle.
FirstIdle ==
  ops' # ops => \A t \in Tasks : job[t].op = "none" /\ job'[t].op # "none" =>
    t = CHOOSE u \in Tasks : job[u].op = "none"

\* The pairs are alike: one that is synthesized alone, or held out alone, is p1.
FirstPair ==
  \A t \in Tasks : job'[t].op = "generate" /\ job'[t].file \in {"sft", "eval"} =>
    LET split == job'[t].data
    IN {p2} \notin {split.eval.pairs, split.sft.pairs \cup split.eval.pairs}

FirstOfAlike == FirstIdle /\ FirstPair
=============================================================================

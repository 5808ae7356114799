--------------------------- MODULE MCFinalization ---------------------------
(* Small clusters: the blocks that can be built are those of the proposers *)
(* of epoch 0 and epoch 1 on top of one another.                           *)
EXTENDS Finalization

CONSTANTS n1, n2, n3, Observers, Bodies, BodiesAbove

Above(bs, proposers, bodies) ==
    {[number |-> b.number + 1, parent |-> b, by |-> p, body |-> x] :
        b \in bs, p \in proposers, x \in bodies}

MCGenesis == [number |-> 0, parent |-> None, by |-> InitialProposer, body |-> None]
Height1 == Above({MCGenesis}, {InitialProposer}, Bodies)
Height2 == IF MaxNumber < 2 THEN {} ELSE Above(Height1, {n1, n2}, BodiesAbove)
Height3 == IF MaxNumber < 3 THEN {} ELSE Above(Height2, {n2}, BodiesAbove)
MCBlocks == {MCGenesis} \cup Height1 \cup Height2 \cup Height3

MCValidators == [e \in Epochs |-> Nodes \ Observers]
(* Epoch 1 goes to n2 when it is seeded by the genesis block.              *)
MCElect == [e \in Epochs |-> [b \in MCBlocks |-> IF b = MCGenesis THEN n2 ELSE n1]]
(* Steps of different nodes only meet in the message sets, which grow, so   *)
(* a node may as well finish what it is doing before another node moves.    *)
(* A boot node may still stop after each of its steps.                      *)
RunToCompletion ==
    \A n \in DOMAIN job : job[n].step = "idle" \/ job'[n] # job[n] \/ pending'[n] # pending[n]
=============================================================================

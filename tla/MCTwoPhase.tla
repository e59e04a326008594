----------------------------- MODULE MCTwoPhase ----------------------------
(* One module with a semantic step between local ones, one with local      *)
(* steps only; texts around the sizes where targets are met.               *)
EXTENDS TwoPhase

MCPipelines == << <<"squeeze", "semantic", "truncate">>, <<"other", "sentences", "truncate">> >>
MCProviders == << <<"p1", "p2">>, <<"p1">> >>

(* Pinned, elastic tokens and where the required terms end.                *)
MCShapes ==
  {[pinned |-> <<0, 0>>, size |-> <<3, 3>>, depth |-> <<0, 0>>],
   [pinned |-> <<1, 0>>, size |-> <<4, 1>>, depth |-> <<2, 1>>],
   [pinned |-> <<1, 1>>, size |-> <<3, 3>>, depth |-> <<0, 2>>],
   [pinned |-> <<2, 0>>, size |-> <<2, 4>>, depth |-> <<1, 0>>]}

MCRequests ==
  {[mode |-> mode, pinned |-> shape.pinned, size |-> shape.size, depth |-> shape.depth] :
     mode \in Modes, shape \in MCShapes}

MCGrants == {<<2, 2>>, <<3, 1>>, <<1, 3>>}

MCAnswers == {[size |-> 0, kept |-> FALSE], [size |-> 1, kept |-> TRUE],
              [size |-> 2, kept |-> TRUE], [size |-> 1, kept |-> FALSE],
              [size |-> 5, kept |-> TRUE]}
=============================================================================

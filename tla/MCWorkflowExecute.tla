-------------------------- MODULE MCWorkflowExecute --------------------------
(***************************************************************************)
(* The workflows that TLC runs.                                            *)
(***************************************************************************)
EXTENDS WorkflowExecute

\* A connection from an output (the first one by default) to an input.
C(from, output, to, input) == [from |-> from, output |-> output, to |-> to, input |-> input]
Line(from, to) == C(from, 0, to, 0)

\* A workflow whose nodes are listed from top to bottom.
Flow(order, connections) ==
    LET nodes == Range(order)
    IN  [nodes |-> nodes, connections |-> connections,
         position |-> [n \in nodes |-> CHOOSE i \in DOMAIN order : order[i] = n],
         required |-> [n \in nodes |-> 1],
         inputs |-> [n \in nodes |-> Cardinality({c.input : c \in {d \in connections : d.to = n}})],
         loops |-> {}, disabled |-> {}, pinned |-> {}, trigger |-> Head(order),
         edited |-> {{}}]

Diamond == {Line("T", "A"), Line("T", "B"), Line("A", "M"), C("B", 0, "M", 1), Line("M", "X")}

\* A merge below two branches; either branch may be edited, or lie on top.
Merged == [Flow(<<"T", "A", "B", "M", "X">>, Diamond) EXCEPT !.edited = {{}, {"A"}, {"B"}}]
MergedAll == [Flow(<<"T", "B", "A", "M", "X">>, Diamond) EXCEPT !.required["M"] = 2]
MergedPinned == [Flow(<<"T", "A", "B", "M", "X">>, Diamond) EXCEPT !.pinned = {"B"}]
MergedDisabled == [Flow(<<"T", "A", "B", "M", "X">>, Diamond) EXCEPT !.disabled = {"A"}]

\* A pinned node between two start nodes, if A is edited.
PinnedBelow ==
    [Flow(<<"T", "A", "B", "D", "M">>,
          {Line("T", "A"), Line("A", "B"), Line("B", "M"), Line("T", "D"), C("D", 0, "M", 1)})
        EXCEPT !.pinned = {"B"}, !.edited = {{}, {"A"}}]

\* Both outputs of a node lead to the inputs of a merge.
Branched ==
    [Flow(<<"T", "I", "A", "M">>,
          {Line("T", "I"), Line("I", "A"), Line("A", "M"), C("I", 1, "M", 1)})
        EXCEPT !.edited = {{}, {"I"}}]

\* A merge that waits for another one.
Chained ==
    Flow(<<"T", "A", "B", "D", "M", "N">>,
         {Line("T", "A"), Line("T", "B"), Line("T", "D"), Line("A", "M"), C("B", 0, "M", 1),
          Line("M", "N"), C("D", 0, "N", 1)})

\* Three branches end in the first input of a merge, a fourth in the second.
Crowded ==
    Flow(<<"T", "A", "B", "D", "E", "M">>,
         {Line("T", "A"), Line("T", "B"), Line("T", "D"), Line("T", "E"),
          Line("A", "M"), Line("B", "M"), C("D", 0, "M", 1), Line("E", "M")})

\* A merge of three branches, which runs with the data of one or of two.
Triple ==
    Flow(<<"T", "A", "B", "D", "M">>,
         {Line("T", "A"), Line("T", "B"), Line("T", "D"),
          Line("A", "M"), C("B", 0, "M", 1), C("D", 0, "M", 2)})
TripleOfTwo == [Triple EXCEPT !.required["M"] = 2]
TripleEdited == [Triple EXCEPT !.edited = {{}, {"A"}}]

\* A disabled node with two inputs, which a partial execution takes out: both
\* connections then lead to the one input of the node below.
DisabledMerge ==
    [Flow(<<"T", "A", "B", "D", "M">>,
          {Line("T", "A"), Line("T", "B"), Line("A", "D"), C("B", 0, "D", 1), Line("D", "M")})
        EXCEPT !.disabled = {"D"}, !.edited = {{}, {"A"}}]

\* A loop with a merge inside.
Looped ==
    [Flow(<<"T", "L", "A", "B", "M", "D">>,
          {Line("T", "L"), C("L", 1, "A", 0), C("L", 1, "B", 0), Line("A", "M"),
           C("B", 0, "M", 1), Line("M", "L"), Line("L", "D")})
        EXCEPT !.loops = {"L"}, !.edited = {{}, {"A"}}]

\* Two merges of a cycle, each above the other.
Mutual ==
    Flow(<<"T", "M", "N", "X">>,
         {Line("T", "M"), Line("M", "X"), Line("T", "N"), Line("X", "N"),
          C("N", 0, "M", 1), C("M", 1, "N", 1)})

AllWorkflows == {Merged, MergedAll, MergedPinned, MergedDisabled, DisabledMerge, PinnedBelow,
                 Branched, Chained, Crowded, Triple, TripleOfTwo, TripleEdited, Looped, Mutual}

=============================================================================

-------------------------- MODULE PartialExecution --------------------------
(***************************************************************************)
(* From the run data of an earlier execution to the state in which a       *)
(* partial execution starts: packages/core/src/execution-engine/           *)
(* partial-execution-utils.  A graph is a record of nodes and connections; *)
(* a connection leads from an output of a node to an input of another one, *)
(* and the order of connections is left out where the code depends on it.  *)
(* Run data is, per node, the sequence of its runs, each with the outputs  *)
(* on which it gave items.                                                 *)
(***************************************************************************)
EXTENDS Integers, Sequences, FiniteSets, SequencesExt, FiniteSetsExt

CONSTANTS
    None,  \* an input of which it is known that it got no data, in the code null
    Hole   \* an element of an array that was never written

First == [node |-> None, output |-> 0, run |-> 0]  \* the item a trigger is run with

-----------------------------------------------------------------------------
(* directed-graph.ts *)

DirectChildConnections(g, n) == {c \in g.connections : c.from = n}
DirectParentConnections(g, n) == {c \in g.connections : c.to = n}

\* Nodes that a path of at least one connection leads to.
Children(g, n) ==
    LET Step(S) == S \cup {c.to : c \in {d \in g.connections : d.from \in S}}
        reached[k \in 0..Cardinality(g.nodes)] ==
            IF k = 0 THEN {c.to : c \in DirectChildConnections(g, n)}
            ELSE Step(reached[k - 1])
    IN  reached[Cardinality(g.nodes)]

Parents(g, n) == {m \in g.nodes \ {n} : n \in Children(g, m)}  \* Workflow.getParentNodes()

StronglyConnectedComponent(g, n) ==
    {n} \cup {m \in Children(g, n) : n \in Children(g, m)}

\* removeNode() with reconnectConnections
RemoveNode(g, n) ==
    [nodes |-> g.nodes \ {n},
     connections |->
        {c \in g.connections : n \notin {c.from, c.to}} \cup
        {[in EXCEPT !.to = out.to, !.input = out.input] :
            in \in DirectParentConnections(g, n), out \in DirectChildConnections(g, n)}]

FilterDisabledNodes(g, disabled) ==
    LET order == SetToSeq(disabled)
        left[k \in 0..Cardinality(disabled)] ==
            IF k = 0 THEN g ELSE RemoveNode(left[k - 1], order[k])
    IN  left[Cardinality(disabled)]

-----------------------------------------------------------------------------
(* The subgraph, the start nodes, cycles *)

\* The connections on branches that lead up from the destination to the trigger.
Branches(g, destination, trigger) ==
    LET found[current \in g.nodes, branch \in SUBSET g.connections] ==
            LET parents == DirectParentConnections(g, current)
                visited == \E c \in branch : c.to = current
            IN  IF current = trigger THEN branch
                ELSE IF parents = {} \/ (visited /\ current = destination) THEN {}
                ELSE IF visited THEN branch
                ELSE UNION {found[c.from, branch \cup {c}] : c \in parents}
    IN  found[destination, {}]

\* The nodes and connections that lead from the trigger to the destination.
FindSubgraph(g, destination, trigger) ==
    LET kept == g.connections \cap Branches(g, destination, trigger)
    IN  [nodes |-> {trigger} \cup {c.from : c \in kept} \cup {c.to : c \in kept},
         connections |-> kept]

\* A run that failed counts as run data (isDirty() does not look for errors).
IsDirty(n, runData, pinned) == n \notin pinned /\ runData[n] = <<>>

\* getIncomingDataFromAnyRun(): the runs of n that gave items on an output.
RunsWithData(runData, n, output) == {k \in DOMAIN runData[n] : output \in runData[n][k].out}

FindStartNodesRecursive(g, trigger, destination, loops, runData, pinned) ==
    LET Follows(c) == RunsWithData(runData, c.from, c.output) # {} \/ c.from \in pinned
        LoopIsOpen(n) ==
            n \in loops /\ (runData[n] = <<>> \/ 0 \notin Last(runData[n]).out)
        found[current \in g.nodes, seen \in SUBSET g.nodes] ==
            IF IsDirty(current, runData, pinned) \/ current = destination \/ LoopIsOpen(current)
            THEN {current}
            ELSE IF current \in seen THEN {}
            ELSE UNION {found[c.to, seen \cup {current}] :
                           c \in {d \in DirectChildConnections(g, current) : Follows(d)}}
    IN  found[trigger, {}]

\* They are nodes of the graph.
FindStartNodes(g, trigger, destination, loops, runData, pinned) ==
    g.nodes \cap FindStartNodesRecursive(g, trigger, destination, loops, runData, pinned)

\* The first node of a cycle that a search from the trigger finds; the cycles
\* considered have one such node.
Entries(g, trigger, cycle) ==
    {n \in cycle :
        \/ n = trigger
        \/ \E c \in DirectParentConnections(g, n) :
              /\ c.from \notin cycle
              /\ c.from = trigger \/ c.from \in Children(g, trigger)}

EntryOf(g, trigger, n) ==
    CHOOSE m \in Entries(g, trigger, StronglyConnectedComponent(g, n)) : TRUE

HandleCycles(g, startNodes, trigger) == {EntryOf(g, trigger, n) : n \in startNodes}

\* Run data of the nodes to clean, of their children, and of what is not in
\* the graph is dropped.
CleanRunData(runData, g, nodes) ==
    LET cleaned == nodes \cup UNION {Children(g, n) : n \in nodes}
    IN  [n \in DOMAIN runData |-> IF n \in g.nodes \ cleaned THEN runData[n] ELSE <<>>]

-----------------------------------------------------------------------------
(* The execution stack *)

\* getSourceDataGroups(): the next group of the connections that are left.  It
\* has one for each input, from the smallest up to one without a connection,
\* and prefers those whose node has run or pinned data.
NextGroup(left, given) ==
    LET At(i) == {c \in left : c.input = i}
        Preferred(i) == IF At(i) \cap given # {} THEN CHOOSE c \in At(i) \cap given : TRUE
                        ELSE CHOOSE c \in At(i) : TRUE   \* by name
        smallest == Min({c.input : c \in left})
    IN  {Preferred(c.input) : c \in {d \in left : \A i \in smallest..d.input : At(i) # {}}}

FirstRun(runData, c) ==
    [node |-> c.from, output |-> c.output, run |-> Min(RunsWithData(runData, c.from, c.output)) - 1]

\* A complete group is run: the data of its connections in order, without those
\* whose output gave no items.
StackItem(n, group, runData, pinned) ==
    LET given == {c \in group : c.from \in pinned \/ RunsWithData(runData, c.from, c.output) # {}}
        order == CHOOSE s \in [1..Cardinality(given) -> given] :
                    \A i, j \in DOMAIN s : i < j => s[i].input < s[j].input
        Data(c) == IF c.from \in pinned
                   THEN [node |-> c.from, output |-> c.output, run |-> 0]
                   ELSE FirstRun(runData, c)
    IN  [node |-> n, resumed |-> FALSE, inputs |-> [i \in DOMAIN order |-> Data(order[i])]]

\* An incomplete one waits, with the data its connections have run data for.
WaitingEntry(group, runData) ==
    LET given == {c \in group : RunsWithData(runData, c.from, c.output) # {}}
        At(i) == {c \in given : c.input = i - 1}
    IN  [i \in 1..Max({0} \cup {c.input + 1 : c \in given}) |->
            IF At(i) # {} THEN FirstRun(runData, CHOOSE c \in At(i) : TRUE) ELSE Hole]

AddGroup(start, n, group, given, runData, pinned) ==
    LET entries == start.waiting[n]
        next == Cardinality(DOMAIN entries)
        entry == WaitingEntry(group, runData)
    IN  IF group \subseteq given
        THEN [start EXCEPT !.stack = Append(@, StackItem(n, group, runData, pinned))]
        ELSE IF entry = <<>> THEN start
        ELSE [start EXCEPT !.waiting[n] =
                 [i \in DOMAIN entries \cup {next} |-> IF i = next THEN entry ELSE entries[i]]]

\* recreateNodeExecutionStack() for one start node, after the ones before it.
AddStartNode(g, runData, pinned, start, n) ==
    LET all == DirectParentConnections(g, n)
        given == {c \in all : runData[c.from] # <<>> \/ c.from \in pinned}
        grouped[k \in 0..Cardinality(all)] ==
            IF k = 0 THEN [left |-> all, start |-> start]
            ELSE LET before == grouped[k - 1]
                     group == NextGroup(before.left, given)
                 IN  IF before.left = {} THEN before
                     ELSE [left |-> before.left \ group,
                           start |-> AddGroup(before.start, n, group, given, runData, pinned)]
    IN  IF all = {}
        THEN [start EXCEPT !.stack =
                 Append(@, [node |-> n, resumed |-> FALSE, inputs |-> <<First>>])]
        ELSE grouped[Cardinality(all)].start

=============================================================================

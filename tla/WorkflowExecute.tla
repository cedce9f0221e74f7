--------------------------- MODULE WorkflowExecute ---------------------------
(***************************************************************************)
(* The execution of a workflow: the stack of nodes to run, the nodes that  *)
(* wait for data on some of their inputs, and the run data                 *)
(* (packages/core/src/execution-engine/workflow-execute.ts), for workflows *)
(* with execution order v1.  The items of an output are one value, known   *)
(* by the node, the output and the run that gave them.  An execution is    *)
(* followed by partial executions that use its run data.                   *)
(***************************************************************************)
EXTENDS PartialExecution

CONSTANTS
    Workflows,     \* the workflows considered
    MaxIterations, \* runs of a loop node in an execution
    MaxExecutions, \* executions, partial ones included
    MaxFaults,     \* node runs that fail
    MaxWaits       \* times an execution is put to wait

\* Workflows are finite, and their connections lead from node to node.
ASSUME WorkflowAssumption ==
    \A w \in Workflows :
        /\ IsFiniteSet(w.nodes) /\ IsFiniteSet(w.disabled) /\ IsFiniteSet(w.connections)
        /\ w.connections \subseteq [from : w.nodes, output : Nat, to : w.nodes, input : Nat]
        /\ w.trigger \in w.nodes

\* What an element of an array of inputs is: the items of an output of a node,
\* the item a trigger is run with, null, or nothing at all.
Values(nodes) == [node : nodes, output : Nat, run : Nat] \cup {First, None, Hole}
StackItems(nodes) == [node : nodes, resumed : BOOLEAN, inputs : Seq(Values(nodes))]

\* None and Hole are unlike each other and anything else.
ASSUME NoneAssumption ==
    /\ None # Hole
    /\ \A w \in Workflows :
          /\ None \notin w.nodes \cup StackItems(w.nodes)
          /\ {None, Hole} \cap [node : w.nodes, output : Nat, run : Nat] = {}

VARIABLES
    workflow,      \* the saved workflow
    graph,         \* the nodes and connections that this execution knows
    destination,   \* the node at which it stops, or None
    runNodeFilter, \* the nodes that it may run
    stack,         \* nodeExecutionStack
    waiting,       \* waitingExecution: per node, the entries by their index
    runData,       \* resultData.runData
    current,       \* the stack item whose node is running, or None
    status,
    executions, faults, waits, \* counters for the bounds
    started,       \* history: the start nodes of a partial execution
    kept,          \* history: per node, its runs that a partial execution kept
    spent,         \* history: data taken by nodes that returned nothing or were skipped
    overwritten,   \* history: data in waiting entries that a new entry replaced
    checked        \* history: the last iteration has looked for waiting nodes to run

execVars == <<graph, destination, runNodeFilter, started, kept>>
counters == <<executions, faults, waits>>
vars == <<workflow, execVars, stack, waiting, runData, current, status, counters, spent,
          overwritten, checked>>

NoEntries == [i \in {} |-> <<>>]
Nodes == workflow.nodes
IsData(value) == value \notin {None, Hole}
WaitingNodes(w) == {n \in Nodes : DOMAIN w[n] # {}}
Inputs(n, array) == {[to |-> n, input |-> i - 1, data |-> array[i]] : i \in DOMAIN array}
NumberOfInputs(n) == Max({0} \cup {c.input : c \in DirectParentConnections(graph, n)}) + 1
Outputs(n) == {0} \cup {c.output : c \in DirectChildConnections(workflow, n)}

-----------------------------------------------------------------------------
(* run(), runPartialWorkflow2() *)

Init ==
    /\ workflow \in Workflows
    /\ graph = [nodes |-> workflow.nodes, connections |-> workflow.connections]
    /\ destination \in {None} \cup (workflow.nodes \ workflow.disabled)
    /\ runNodeFilter = IF destination = None THEN workflow.nodes
                       ELSE Parents(graph, destination) \cup {destination}
    /\ stack = <<[node |-> workflow.trigger, resumed |-> FALSE, inputs |-> <<First>>]>>
    /\ waiting = [n \in workflow.nodes |-> NoEntries]
    /\ runData = [n \in workflow.nodes |-> <<>>]
    /\ current = None
    /\ status = "running"
    /\ executions = 1 /\ faults = 0 /\ waits = 0
    /\ started = {} /\ kept = [n \in workflow.nodes |-> 0]
    /\ spent = {} /\ overwritten = {} /\ checked = FALSE

Ended == status \in {"success", "error", "canceled"} /\ current = None

\* A node is executed with the run data of the last execution: the subgraph
\* that leads to it, the start nodes on it, and the stack they begin with.  As
\* handleCycles() asserts, the trigger leads to what a start node is part of.
RunPartialWorkflow(target, dirty) ==
    LET whole == [nodes |-> workflow.nodes, connections |-> workflow.connections]
        trigger == IF DirectParentConnections(whole, target) = {} THEN target
                   ELSE workflow.trigger
        subgraph == FindSubgraph(FilterDisabledNodes(whole, workflow.disabled), target, trigger)
        usable == CleanRunData(runData, subgraph,
                               IF trigger = target THEN {target} ELSE dirty \cap subgraph.nodes)
        starts == IF trigger = target THEN {target}
                  ELSE FindStartNodes(subgraph, trigger, target, workflow.loops, usable,
                                      workflow.pinned)
        found == HandleCycles(subgraph, starts, trigger)
        cleaned == CleanRunData(usable, subgraph, found)
    IN  /\ Ended /\ executions < MaxExecutions
        /\ target = workflow.trigger \/ target \in Children(whole, workflow.trigger)
        /\ \A n \in starts :
              Entries(subgraph, trigger, StronglyConnectedComponent(subgraph, n)) # {}
        /\ executions' = executions + 1
        /\ graph' = subgraph
        /\ destination' = target
        /\ runNodeFilter' = subgraph.nodes
        /\ runData' = cleaned
        /\ started' = found /\ kept' = [n \in Nodes |-> Len(cleaned[n])]
        /\ \E order \in SetToSeqs(found) :
              LET start[k \in 0..Len(order)] ==
                      IF k = 0 THEN [stack |-> <<>>, waiting |-> [n \in Nodes |-> NoEntries]]
                      ELSE AddStartNode(subgraph, cleaned, workflow.pinned, start[k - 1], order[k])
              IN  stack' = start[Len(order)].stack /\ waiting' = start[Len(order)].waiting
        /\ status' = "running"
        /\ spent' = {} /\ overwritten' = {} /\ checked' = FALSE
        /\ UNCHANGED <<workflow, current, faults, waits>>

-----------------------------------------------------------------------------
(* processRunExecutionData() *)

\* The next node is taken from the stack; a node that is not on the filter is
\* skipped, and with it the rest of the iteration.
TakeNode ==
    LET item == Head(stack)
    IN  /\ status = "running" /\ current = None /\ stack # <<>>
        /\ stack' = Tail(stack)
        /\ IF item.node \in runNodeFilter
           THEN current' = item /\ UNCHANGED spent
           ELSE spent' = spent \cup Inputs(item.node, item.inputs) /\ UNCHANGED current
        /\ checked' = FALSE
        /\ UNCHANGED <<workflow, execVars, waiting, runData, status, counters, overwritten>>

AllNull(n) == [i \in 1..NumberOfInputs(n) |-> None]

\* An array after a write; beyond its end the write leaves holes.
WriteAt(array, i, value) ==
    [k \in 1..(IF i > Len(array) THEN i ELSE Len(array)) |->
        IF k = i THEN value ELSE IF k <= Len(array) THEN array[k] ELSE Hole]

\* addNodeToBeExecuted(): the data of a connection goes to the head of the
\* stack, or, for a node with several inputs, to the first waiting entry that
\* lacks it.  A new entry gets the number of entries as its index.
AddNodeToBeExecuted(state, c, run) ==
    LET data == [node |-> c.from, output |-> c.output, run |-> run]
        entries == state.waiting[c.to]
        lacking == {i \in DOMAIN entries :
                       c.input + 1 > Len(entries[i]) \/ ~IsData(entries[i][c.input + 1])}
        index == IF lacking # {} THEN Min(lacking) ELSE Cardinality(DOMAIN entries)
        before == IF lacking # {} THEN entries[index] ELSE AllNull(c.to)
        lost == IF lacking # {} \/ index \notin DOMAIN entries THEN {}
                ELSE Inputs(c.to, entries[index])
        entry == WriteAt(before, c.input + 1, data)
        item == [node |-> c.to, resumed |-> FALSE,
                 inputs |-> IF NumberOfInputs(c.to) = 1 THEN <<data>> ELSE entry]
    IN  IF NumberOfInputs(c.to) = 1
        THEN [state EXCEPT !.stack = <<item>> \o @]
        ELSE IF None \notin Range(entry)
        THEN [state EXCEPT
                 !.stack = <<item>> \o @,
                 !.waiting[c.to] = [i \in DOMAIN entries \ {index} |-> entries[i]],
                 !.overwritten = @ \cup lost]
        ELSE [state EXCEPT
                 !.waiting[c.to] = [i \in DOMAIN entries \cup {index} |->
                                       IF i = index THEN entry ELSE entries[i]],
                 !.overwritten = @ \cup lost]

\* Mutant: the connections of the first output only.
FollowFirstOutput(n, out) ==
    SetToSeqs({c \in DirectChildConnections(graph, n) : c.output = 0 /\ 0 \in out})

\* The connections of the outputs that gave items, the lowest node first: the
\* top one is added last and runs first.
ConnectionsToFollow(n, out) ==
    LET Before(c, d) ==
            \/ workflow.position[c.to] > workflow.position[d.to]
            \/ c.to = d.to /\ (c.output < d.output \/ (c.output = d.output /\ c.input <= d.input))
    IN  {order \in SetToSeqs({c \in DirectChildConnections(graph, n) : c.output \in out}) :
            \A i, j \in DOMAIN order : i < j => Before(order[i], order[j])}

Follow(order, run) ==
    LET after[k \in 0..Len(order)] ==
            IF k = 0 THEN [stack |-> stack, waiting |-> waiting, overwritten |-> overwritten]
            ELSE AddNodeToBeExecuted(after[k - 1], order[k], run)
    IN  after[Len(order)]

InputsWithData(n, w) == {i \in DOMAIN w[n][Min(DOMAIN w[n])] : IsData(w[n][Min(DOMAIN w[n])][i])}

\* Mutant: a node above it may still wait.
MayRunEarly(n, w) ==
    /\ n \in WaitingNodes(w)
    /\ workflow.required[n] # workflow.inputs[n]
    /\ Cardinality(InputsWithData(n, w)) >= workflow.required[n]

\* Mutant: one input more than required is asked for.
MayRunLate(n, w) ==
    /\ n \in WaitingNodes(w)
    /\ Parents(graph, n) \cap WaitingNodes(w) = {}
    /\ Cardinality(InputsWithData(n, w)) > workflow.required[n]

\* A waiting node that may run with less than all its inputs: unless it
\* requires them all, and once none of its parents waits.
MayRun(n, w) ==
    /\ n \in WaitingNodes(w)
    /\ workflow.required[n] # workflow.inputs[n]
    /\ Parents(graph, n) \cap WaitingNodes(w) = {}
    /\ Cardinality(InputsWithData(n, w)) >= workflow.required[n]

\* When the stack is empty, the first entry of such a node is put on it.  (The
\* code takes the first node in the order in which they began to wait.)
RunWaiting(state) ==
    IF state.stack # <<>> \/ ~\E n \in Nodes : MayRun(n, state.waiting)
    THEN stack' = state.stack /\ waiting' = state.waiting
    ELSE \E n \in {m \in Nodes : MayRun(m, state.waiting)} :
            LET entries == state.waiting[n]
                index == Min(DOMAIN entries)
            IN  /\ stack' = <<[node |-> n, resumed |-> FALSE, inputs |-> entries[index]]>>
                /\ waiting' = [state.waiting EXCEPT ![n] =
                                  [i \in DOMAIN entries \ {index} |-> entries[i]]]

Passes(item) == item.resumed \/ item.node \in workflow.disabled

\* A node without any data is not run (a partial execution may start with one),
\* nor is one that passes on a first input without data.
Runs(item) ==
    IF Passes(item) THEN item.inputs # <<>> /\ IsData(item.inputs[1])
    ELSE item.node \in workflow.pinned \/ \E i \in DOMAIN item.inputs : IsData(item.inputs[i])

\* The outputs on which a node may give items: a disabled one passes its first
\* input on, as does one that was put to wait and is resumed, and pinned data
\* replaces the run.  A loop gives a batch or is done.
Results(item) ==
    LET n == item.node
        iterations == Len(runData[n]) - kept[n] + 1
    IN  IF Passes(item) \/ n \in workflow.pinned THEN {{0}}
        ELSE IF n \in workflow.loops
        THEN {{0}} \cup (IF iterations < MaxIterations THEN {{1}} ELSE {})
        ELSE SUBSET Outputs(n)

\* The node succeeds: its run is recorded and, unless it is the destination,
\* its outputs are followed and waiting nodes are looked at.
FinishNode ==
    LET n == current.node
        run == Len(runData[n])
    IN  /\ current # None /\ Runs(current)
        /\ \E out \in Results(current) :
              /\ runData' = [runData EXCEPT ![n] =
                    Append(@, [inputs |-> current.inputs, out |-> out, status |-> "success"])]
              /\ IF n = destination
                 THEN UNCHANGED <<stack, waiting, overwritten>>
                 ELSE \E order \in ConnectionsToFollow(n, out) :
                         /\ RunWaiting(Follow(order, run))
                         /\ overwritten' = Follow(order, run).overwritten
        /\ checked' = (n # destination)
        /\ current' = None
        /\ UNCHANGED <<workflow, execVars, status, counters, spent>>

\* The node returns no data at all, or is not run: the iteration ends there.
ReturnNothing ==
    /\ current # None
    /\ Runs(current) =>
          ~Passes(current) /\ current.node \notin workflow.pinned \cup workflow.loops
    /\ spent' = spent \cup Inputs(current.node, current.inputs)
    /\ current' = None
    /\ UNCHANGED <<workflow, execVars, stack, waiting, runData, status, counters, overwritten,
                   checked>>

\* A run that fails or waits goes back to the stack, and the execution stops.
Stop(newStatus) ==
    /\ runData' = [runData EXCEPT ![current.node] =
          Append(@, [inputs |-> current.inputs, out |-> {}, status |-> newStatus])]
    /\ stack' = <<current>> \o stack
    /\ current' = None
    /\ status' = IF status = "running" THEN newStatus ELSE status
    /\ UNCHANGED <<workflow, execVars, waiting, executions, spent, overwritten, checked>>

FailNode ==
    /\ current # None /\ Runs(current)
    /\ ~Passes(current) /\ current.node \notin workflow.pinned
    /\ faults < MaxFaults /\ faults' = faults + 1
    /\ Stop("error") /\ UNCHANGED waits

PutToWait ==
    /\ current # None /\ Runs(current)
    /\ ~Passes(current) /\ current.node \notin workflow.pinned
    /\ waits < MaxWaits /\ waits' = waits + 1
    /\ Stop("waiting") /\ UNCHANGED faults

\* What an array is after it was saved and read: JSON knows no holes.
Saved(array) == [i \in DOMAIN array |-> IF array[i] = Hole THEN None ELSE array[i]]

\* A waiting execution is resumed from its row: its last run is taken back, and
\* the node at the head of the stack is disabled, so that it passes its input on.
\* flatted keeps references, so the other items of that node share the change.
Resume ==
    /\ status = "waiting"
    /\ status' = "running"
    /\ stack' = [i \in DOMAIN stack |->
          [stack[i] EXCEPT !.resumed = @ \/ stack[i].node = Head(stack).node, !.inputs = Saved(@)]]
    /\ waiting' = [n \in Nodes |-> [i \in DOMAIN waiting[n] |-> Saved(waiting[n][i])]]
    /\ runData' = [runData EXCEPT ![Head(stack).node] = Front(@)]
    /\ UNCHANGED <<workflow, execVars, current, counters, spent, overwritten, checked>>

\* A cancelation or the timeout: the node that is running still ends.
Cancel ==
    /\ status = "running"
    /\ status' = "canceled"
    /\ UNCHANGED <<workflow, execVars, stack, waiting, runData, current, counters, spent,
                   overwritten, checked>>

Finish ==
    /\ status = "running" /\ current = None /\ stack = <<>>
    /\ status' = "success"
    /\ UNCHANGED <<workflow, execVars, stack, waiting, runData, current, counters, spent,
                   overwritten, checked>>

-----------------------------------------------------------------------------

Next ==
    \/ \E target \in Nodes \ workflow.disabled, dirty \in workflow.edited :
          RunPartialWorkflow(target, dirty)
    \/ TakeNode \/ FinishNode \/ ReturnNothing \/ FailNode \/ PutToWait
    \/ Resume \/ Cancel \/ Finish

Spec == Init /\ [][Next]_vars

-----------------------------------------------------------------------------
(* Properties *)

\* What an output of a successful run owes the inputs connected to it.
Deliveries ==
    UNION {LET n == c.from
           IN  {[to |-> c.to, input |-> c.input,
                 data |-> [node |-> n, output |-> c.output, run |-> k - 1]] :
                   k \in {j \in kept[n] + 1..Len(runData[n]) :
                             runData[n][j].status = "success" /\ c.output \in runData[n][j].out}} :
           c \in {d \in graph.connections : d.from # destination}}

\* The places in which an input of a node has this data.
Places(d) ==
    LET Has(array) == d.input + 1 \in DOMAIN array /\ array[d.input + 1] = d.data
    IN  {<<"stack", i>> : i \in {j \in DOMAIN stack :
             stack[j].node = d.to /\ Has(stack[j].inputs)}} \cup
        {<<"waiting", i>> : i \in {j \in DOMAIN waiting[d.to] : Has(waiting[d.to][j])}} \cup
        {<<"run", k>> : k \in {j \in DOMAIN runData[d.to] :
             runData[d.to][j].status = "success" /\ Has(runData[d.to][j].inputs)}} \cup
        {<<"current", 0>> : x \in {y \in {current} \ {None} : y.node = d.to /\ Has(y.inputs)}} \cup
        {<<"spent", 0>> : x \in {d} \cap spent} \cup
        {<<"overwritten", 0>> : x \in {d} \cap overwritten}

\* A start node gets its pinned data on the stack although the pinned node is
\* below another start node, will run after it and give the same data again.
GivenTwice ==
    {c \in graph.connections :
        /\ c.to \in started /\ c.from \in workflow.pinned
        /\ ({c.from} \cup Parents(graph, c.from)) \cap started # {}}

\* Each output that gave items reaches each input connected to it once: it is
\* on the stack, waits, is being run, was run by one successful run, was spent
\* by a node that returned nothing or was skipped, or - the flaw that the index
\* of a new waiting entry leaves - was in an entry that a new one replaced.
\* Stops, failures, resumptions and the choice of entries keep to that.  The
\* other flaw is that of GivenTwice.
DeliveredOnce ==
    \A d \in Deliveries :
        \/ Cardinality(Places(d)) = 1
        \/ /\ Places(d) # {}
           /\ \E c \in GivenTwice :
                 c.from = d.data.node /\ c.to = d.to /\ c.input = d.input

Acyclic == \A n \in Nodes : n \notin Children(graph, n)
SingleConnections ==
    \A c, d \in graph.connections : (c.to = d.to /\ c.input = d.input) => c = d

\* What a partial execution may run again: what is given its pinned data twice,
\* and a start node with more than two inputs.  Its arrays are shorter than its
\* inputs (WaitingEntry), and a node runs although the end of an array is missing.
Repeated == {c.to : c \in GivenTwice} \cup {n \in started : NumberOfInputs(n) > 2}

\* Without cycles and with one connection per input no node is run a second
\* time in an execution, and none whose runs a partial execution kept: a node
\* with several inputs that runs before all its data is there would run again
\* for the rest, and a start node above a node whose runs were kept would repeat
\* that one.  The exception is what is Repeated, with all below it.
RunsOnce ==
    Acyclic /\ SingleConnections =>
        \A n \in Nodes :
            \/ Len(runData[n]) <= IF kept[n] = 0 THEN 1 ELSE kept[n]
            \/ \E m \in Repeated : n = m \/ n \in Children(graph, m)

\* An execution that succeeds leaves data behind in waiting nodes only for a
\* reason: a node that requires more inputs than have data, nodes of a cycle
\* that wait for each other - or a last iteration that ended before it looked
\* at them (a node that returned nothing, was skipped or is the destination).
StrandedHasCause ==
    (status = "success" /\ checked /\ WaitingNodes(waiting) # {}) =>
        \E n \in WaitingNodes(waiting) :
            \/ workflow.required[n] = workflow.inputs[n]
            \/ ~(Cardinality(InputsWithData(n, waiting)) >= workflow.required[n])
            \/ \E m \in WaitingNodes(waiting) \ {n} :
                  n \in Children(graph, m) /\ m \in Children(graph, n)

=============================================================================

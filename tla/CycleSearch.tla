----------------------------- MODULE CycleSearch -----------------------------
(***************************************************************************)
(* The depth-first search that detectCycle (commit validation) and         *)
(* findCycle (lowering) share line by line: a node is white until visited, *)
(* gray while its visit is on the stack, black when the visit is done.     *)
(* The lists of nodes and of successors are sets here, so every order of   *)
(* them is covered; a frame keeps the successors its loop has not reached. *)
(***************************************************************************)
EXTENDS Integers, Sequences

CONSTANT NoNode

VARIABLES
  succ,    \* the graph: a node's successors, for every node
  color,
  stack,   \* the visits under way, innermost last: [Node, Left]
  found    \* the node the search returns, or NoNode

searchVars == <<succ, color, stack, found>>

Nodes == DOMAIN succ
Top == stack[Len(stack)]
Colored(c) == {u \in Nodes : color[u] = c}

Frame(u) == [Node |-> u, Left |-> succ[u]]

(* Mutant: the colours of an earlier search are kept. *)
StartColored(graph) ==
  /\ succ' = graph
  /\ stack' = <<>> /\ found' = NoNode
  /\ UNCHANGED color

StartSearch(graph) ==
  /\ succ' = graph
  /\ color' = [u \in DOMAIN graph |-> "white"]
  /\ stack' = <<>> /\ found' = NoNode

Searching == found = NoNode /\ stack # <<>>

Visit(u, frames) ==
  /\ color' = [color EXCEPT ![u] = "gray"]
  /\ stack' = Append(frames, Frame(u))
  /\ UNCHANGED <<succ, found>>

(* The frames once the innermost loop has taken v. *)
Taken(v) == [stack EXCEPT ![Len(stack)].Left = @ \ {v}]

PickRoot ==
  /\ found = NoNode /\ stack = <<>>
  /\ \E u \in Colored("white") : Visit(u, stack)

(* Mutant: a gray successor is passed over. *)
ReachSkipping ==
  /\ Searching
  /\ \E v \in Top.Left :
       \/ color[v] # "white" /\ stack' = Taken(v) /\ UNCHANGED <<succ, color, found>>
       \/ color[v] = "white" /\ Visit(v, Taken(v))

Reach ==
  /\ Searching
  /\ \E v \in Top.Left :
       \/ color[v] = "gray" /\ found' = v /\ UNCHANGED <<succ, color, stack>>
       \/ color[v] = "black" /\ stack' = Taken(v) /\ UNCHANGED <<succ, color, found>>
       \/ color[v] = "white" /\ Visit(v, Taken(v))

(* Mutant: a finished visit leaves its node gray. *)
FinishGray ==
  /\ Searching /\ Top.Left = {}
  /\ stack' = SubSeq(stack, 1, Len(stack) - 1)
  /\ UNCHANGED <<succ, color, found>>

Finish ==
  /\ Searching /\ Top.Left = {}
  /\ color' = [color EXCEPT ![Top.Node] = "black"]
  /\ stack' = SubSeq(stack, 1, Len(stack) - 1)
  /\ UNCHANGED <<succ, found>>

SearchDone == found # NoNode \/ (stack = <<>> /\ Colored("white") = {})

(***************************************************************************)
(* Properties.                                                             *)
(***************************************************************************)
SearchTypeOK ==
  /\ succ \in [Nodes -> SUBSET Nodes]
  /\ color \in [Nodes -> {"white", "gray", "black"}]
  /\ stack \in Seq([Node : Nodes, Left : SUBSET Nodes])
  /\ found \in Nodes \cup {NoNode}

(* A graph has a cycle exactly when some of its nodes all lead to nodes among
   themselves.                                                             *)
Recurs(S) == S # {} /\ \A u \in S : succ[u] \cap S # {}
Acyclic == \A S \in SUBSET Nodes : ~Recurs(S)

(* A search that ends without a node has seen every node of an acyclic graph,
   whatever the order of the nodes and edges: no cycle that is only reached
   through finished or shared nodes is missed.                             *)
AcceptedIsAcyclic == SearchDone /\ found = NoNode => Acyclic

(* A node the search returns is on a cycle of edges, which the visits under
   way spell out: a node shared by two paths is never taken for a cycle.   *)
CycleIsReal ==
  found # NoNode =>
    \E k \in 1..Len(stack) :
      /\ stack[k].Node = found
      /\ found \in succ[Top.Node]
      /\ \A i \in k..(Len(stack) - 1) : stack[i + 1].Node \in succ[stack[i].Node]
=============================================================================

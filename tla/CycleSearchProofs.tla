-------------------------- MODULE CycleSearchProofs --------------------------
(***************************************************************************)
(* The cycle search is right for every finite or infinite graph: it misses *)
(* no cycle and returns a node only of a cycle.  Its invariant is that a   *)
(* gray node is one whose visit is on the stack, that the stack spells out *)
(* a path, and that a black node leads to black nodes only, among which    *)
(* there is no cycle.  Each lemma is about one step of the search.         *)
(***************************************************************************)
EXTENDS CycleSearch, SequenceTheorems, TLAPS

Frames == [Node : Nodes, Left : SUBSET Nodes]

GrayOnStack ==
  \A u \in Nodes : color[u] = "gray" <=> \E i \in 1..Len(stack) : stack[i].Node = u

StackDistinct ==
  \A i, j \in 1..Len(stack) : stack[i].Node = stack[j].Node => i = j

FramesLinked ==
  \A i \in 1..(Len(stack) - 1) : stack[i + 1].Node \in succ[stack[i].Node]

(* What a frame's loop has passed is black, or is the visit it waits for. *)
PassedIsBlack ==
  \A i \in 1..Len(stack) : \A v \in succ[stack[i].Node] :
    \/ v \in stack[i].Left
    \/ color[v] = "black"
    \/ i < Len(stack) /\ stack[i + 1].Node = v

LeftAreSuccessors ==
  \A i \in 1..Len(stack) : stack[i].Left \subseteq succ[stack[i].Node]

BlackClosed ==
  \A u \in Nodes : color[u] = "black" => \A v \in succ[u] : color[v] = "black"

BlackAcyclic == \A S \in SUBSET Nodes : (\A u \in S : color[u] = "black") => ~Recurs(S)

FoundOnTop ==
  found # NoNode => /\ stack # <<>>
                    /\ found \in succ[Top.Node]
                    /\ color[found] = "gray"

SearchInv ==
  /\ SearchTypeOK
  /\ GrayOnStack /\ StackDistinct
  /\ FramesLinked /\ PassedIsBlack /\ LeftAreSuccessors
  /\ BlackClosed /\ BlackAcyclic
  /\ FoundOnTop

(***************************************************************************)
(* The invariant says what a search that ends says of its graph.           *)
(***************************************************************************)

(* A search that ends without a node has left every node black. *)
LEMMA InvAcceptsAcyclic == SearchInv => AcceptedIsAcyclic
<1> SUFFICES ASSUME SearchInv, SearchDone, found = NoNode
             PROVE  Acyclic
  BY DEF AcceptedIsAcyclic
<1>1. stack = <<>> /\ Colored("white") = {}
  BY DEF SearchDone
<1>2. \A u \in Nodes : color[u] = "black"
  BY <1>1 DEF SearchInv, SearchTypeOK, GrayOnStack, Colored
<1> QED
  BY <1>2 DEF SearchInv, BlackAcyclic, Acyclic

(* A node the search returns is gray, so on the stack, which is a path. *)
LEMMA InvCycleIsReal == SearchInv => CycleIsReal
<1> SUFFICES ASSUME SearchInv, found # NoNode
             PROVE  \E k \in 1..Len(stack) :
                      /\ stack[k].Node = found
                      /\ found \in succ[Top.Node]
                      /\ \A i \in k..(Len(stack) - 1) :
                           stack[i + 1].Node \in succ[stack[i].Node]
  BY DEF CycleIsReal
<1>1. PICK k \in 1..Len(stack) : stack[k].Node = found
  BY DEF SearchInv, FoundOnTop, GrayOnStack, SearchTypeOK
<1>2. Len(stack) \in Nat
  BY DEF SearchInv, SearchTypeOK
<1>3. \A i \in k..(Len(stack) - 1) : stack[i + 1].Node \in succ[stack[i].Node]
  BY <1>2 DEF SearchInv, FramesLinked
<1> QED
  BY <1>1, <1>3 DEF SearchInv, FoundOnTop

(***************************************************************************)
(* The start of a search, of any graph.                                    *)
(***************************************************************************)
LEMMA EmptySearch ==
  ASSUME succ = <<>>, color = <<>>, stack = <<>>, found = NoNode
  PROVE  SearchInv
<1>1. Nodes = {} /\ Len(stack) = 0 /\ stack \in Seq(Frames)
  BY DEF Nodes
<1>2. succ \in [Nodes -> SUBSET Nodes] /\ color \in [Nodes -> {"white", "gray", "black"}]
  BY <1>1
<1>3. BlackAcyclic
  BY <1>1 DEF BlackAcyclic, Recurs
<1> QED
  BY <1>1, <1>2, <1>3 DEF SearchInv, SearchTypeOK, GrayOnStack, StackDistinct, FramesLinked,
    PassedIsBlack, LeftAreSuccessors, BlackClosed, FoundOnTop, Frames

LEMMA StartKeeps ==
  ASSUME NEW V, NEW graph \in [V -> SUBSET V], StartSearch(graph)
  PROVE  SearchInv'
<1>1. succ' = graph /\ Nodes' = V /\ stack' = <<>> /\ found' = NoNode
  BY DEF StartSearch, Nodes
<1>2. color' = [u \in V |-> "white"]
  BY DEF StartSearch
<1>3. Len(stack') = 0 /\ stack' \in Seq(Frames')
  BY <1>1
<1>4. BlackAcyclic'
  BY <1>1, <1>2 DEF BlackAcyclic, Recurs
<1>5. SearchTypeOK'
  BY <1>1, <1>2, <1>3 DEF SearchTypeOK, Frames
<1> QED
  BY <1>1, <1>2, <1>3, <1>4, <1>5 DEF SearchInv, GrayOnStack, StackDistinct, FramesLinked,
    PassedIsBlack, LeftAreSuccessors, BlackClosed, FoundOnTop

(***************************************************************************)
(* The steps.                                                              *)
(***************************************************************************)

(* Taking v changes what is left to the innermost loop and nothing else. *)
LEMMA TakenShape ==
  ASSUME SearchTypeOK, stack # <<>>, NEW v
  PROVE  /\ Taken(v) \in Seq(Frames)
         /\ Len(Taken(v)) = Len(stack)
         /\ Len(stack) \in 1..Len(stack)
         /\ \A i \in 1..Len(stack) : /\ Taken(v)[i].Node = stack[i].Node
                                     /\ i # Len(stack) => Taken(v)[i].Left = stack[i].Left
         /\ Taken(v)[Len(stack)].Left = stack[Len(stack)].Left \ {v}
<1> DEFINE n == Len(stack)
           f == [stack[n] EXCEPT !.Left = @ \ {v}]
<1>1. stack \in Seq(Frames)
  BY DEF SearchTypeOK, Frames
<1>2. n \in 1..n
  BY <1>1, EmptySeq, LenProperties
<1>3. stack[n] \in Frames
  BY <1>1, <1>2, ElementOfSeq
<1>4. f \in Frames /\ f.Node = stack[n].Node /\ f.Left = stack[n].Left \ {v}
  BY <1>3 DEF Frames
<1>5. Taken(v) = [stack EXCEPT ![n] = f]
  BY DEF Taken
<1> QED
  BY <1>1, <1>2, <1>4, <1>5, ExceptSeq

(* A white node u is visited from the innermost frame, which has taken it. *)
LEMMA VisitKeeps ==
  ASSUME SearchInv, found = NoNode,
         NEW u \in Nodes, color[u] = "white",
         NEW frames \in Seq(Frames), Visit(u, frames),
         Len(frames) = Len(stack),
         \A i \in 1..Len(stack) : frames[i].Node = stack[i].Node,
         \A i \in 1..Len(stack) : frames[i].Left \subseteq stack[i].Left,
         \A i \in 1..Len(stack) : \A v \in stack[i].Left :
           v \in frames[i].Left \/ (i = Len(stack) /\ v = u),
         Len(stack) > 0 => u \in succ[stack[Len(stack)].Node]
  PROVE  SearchInv'
<1> DEFINE n == Len(stack)
<1>1. succ' = succ /\ found' = NoNode /\ Nodes' = Nodes /\ Frames' = Frames
  BY DEF Visit, Nodes, Frames
<1>2. n \in Nat /\ stack \in Seq(Frames)
  BY DEF SearchInv, SearchTypeOK, Frames
<1>3. Frame(u) \in Frames /\ Frame(u).Node = u /\ Frame(u).Left = succ[u]
  BY DEF Frame, Frames, SearchInv, SearchTypeOK
<1>4. /\ stack' \in Seq(Frames)
      /\ Len(stack') = n + 1
      /\ \A i \in 1..n : stack'[i] = frames[i]
      /\ stack'[n + 1] = Frame(u)
  <2>1. stack' = Append(frames, Frame(u))
    BY DEF Visit
  <2> QED
    BY <2>1, <1>3, AppendProperties
<1>5. /\ color' \in [Nodes -> {"white", "gray", "black"}]
      /\ color'[u] = "gray"
      /\ \A w \in Nodes : w # u => color'[w] = color[w]
  BY DEF Visit, SearchInv, SearchTypeOK
<1>6. \A w \in Nodes : color'[w] = "black" <=> color[w] = "black"
  BY <1>5
<1>7. \A i \in 1..n : stack[i].Node \in Nodes /\ stack[i].Node # u
  <2>1. \A i \in 1..n : stack[i] \in Frames
    BY <1>2, ElementOfSeq
  <2> QED
    BY <2>1 DEF Frames, SearchInv, GrayOnStack
<1>8. SearchTypeOK'
  BY <1>1, <1>4, <1>5 DEF SearchTypeOK, SearchInv, Frames
<1>9. GrayOnStack'
  <2> SUFFICES ASSUME NEW w \in Nodes
               PROVE  color'[w] = "gray" <=> \E i \in 1..(n + 1) : stack'[i].Node = w
    BY <1>1, <1>4 DEF GrayOnStack
  <2>1. CASE w = u
    BY <2>1, <1>2, <1>3, <1>4, <1>5
  <2>2. CASE w # u
    <3>1. color'[w] = "gray" <=> \E i \in 1..n : stack[i].Node = w
      BY <2>2, <1>5 DEF SearchInv, GrayOnStack
    <3>2. \A i \in 1..(n + 1) : i \in 1..n \/ i = n + 1
      BY <1>2
    <3>3. \A i \in 1..n : i \in 1..(n + 1)
      BY <1>2
    <3> QED
      BY <3>1, <3>2, <3>3, <2>2, <1>3, <1>4
  <2> QED
    BY <2>1, <2>2
<1>10. StackDistinct'
  <2> SUFFICES ASSUME NEW i \in 1..(n + 1), NEW j \in 1..(n + 1), stack'[i].Node = stack'[j].Node
               PROVE  i = j
    BY <1>4 DEF StackDistinct
  <2>1. (i \in 1..n \/ i = n + 1) /\ (j \in 1..n \/ j = n + 1)
    BY <1>2
  <2> QED
    BY <2>1, <1>3, <1>4, <1>7 DEF SearchInv, StackDistinct
<1>11. FramesLinked'
  <2> SUFFICES ASSUME NEW i \in 1..n
               PROVE  stack'[i + 1].Node \in succ[stack'[i].Node]
    BY <1>1, <1>2, <1>4 DEF FramesLinked
  <2>1. CASE i = n
    BY <2>1, <1>2, <1>3, <1>4
  <2>2. CASE i # n
    <3>1. i \in 1..(n - 1) /\ i + 1 \in 1..n
      BY <2>2, <1>2
    <3> QED
      BY <3>1, <1>4 DEF SearchInv, FramesLinked
  <2> QED
    BY <2>1, <2>2
<1>12. PassedIsBlack'
  <2> SUFFICES ASSUME NEW i \in 1..(n + 1), NEW v \in succ[stack'[i].Node]
               PROVE  \/ v \in stack'[i].Left
                      \/ color'[v] = "black"
                      \/ i < n + 1 /\ stack'[i + 1].Node = v
    BY <1>1, <1>4 DEF PassedIsBlack
  <2>1. CASE i = n + 1
    BY <2>1, <1>3, <1>4
  <2>2. CASE i \in 1..n
    <3>1. v \in succ[stack[i].Node] /\ v \in Nodes
      BY <2>2, <1>4, <1>7 DEF SearchInv, SearchTypeOK
    <3>2. \/ v \in stack[i].Left
          \/ color[v] = "black"
          \/ i < n /\ stack[i + 1].Node = v
      BY <3>1, <2>2 DEF SearchInv, PassedIsBlack
    <3>3. CASE v \in stack[i].Left
      BY <3>3, <2>2, <1>2, <1>3, <1>4
    <3>4. CASE color[v] = "black"
      BY <3>4, <3>1, <1>6
    <3>5. CASE i < n /\ stack[i + 1].Node = v
      <4>1. i + 1 \in 1..n
        BY <3>5, <2>2, <1>2
      <4> QED
        BY <4>1, <3>5, <1>2, <1>4
    <3> QED
      BY <3>2, <3>3, <3>4, <3>5
  <2> QED
    BY <2>1, <2>2, <1>2
<1>13. LeftAreSuccessors'
  <2> SUFFICES ASSUME NEW i \in 1..(n + 1)
               PROVE  stack'[i].Left \subseteq succ[stack'[i].Node]
    BY <1>1, <1>4 DEF LeftAreSuccessors
  <2>1. CASE i = n + 1
    BY <2>1, <1>3, <1>4
  <2>2. CASE i \in 1..n
    BY <2>2, <1>4 DEF SearchInv, LeftAreSuccessors
  <2> QED
    BY <2>1, <2>2, <1>2
<1>14. BlackClosed' /\ BlackAcyclic'
  <2>1. BlackClosed'
    BY <1>1, <1>6 DEF SearchInv, SearchTypeOK, BlackClosed
  <2>2. BlackAcyclic'
    BY <1>1, <1>6 DEF SearchInv, BlackAcyclic, Recurs
  <2> QED
    BY <2>1, <2>2
<1>15. FoundOnTop'
  BY <1>1 DEF FoundOnTop
<1> QED
  BY <1>8, <1>9, <1>10, <1>11, <1>12, <1>13, <1>14, <1>15 DEF SearchInv

LEMMA PickRootKeeps == ASSUME SearchInv, PickRoot PROVE SearchInv'
<1>1. PICK u \in Colored("white") : Visit(u, stack)
  BY DEF PickRoot
<1>2. u \in Nodes /\ color[u] = "white"
  BY DEF Colored
<1>3. stack \in Seq(Frames) /\ Len(stack) = 0 /\ found = NoNode
  BY DEF PickRoot, SearchInv, SearchTypeOK, Frames
<1>4. ~(Len(stack) > 0) /\ \A i \in 1..Len(stack) : FALSE
  BY <1>3
<1> QED
  BY <1>1, <1>2, <1>3, <1>4, VisitKeeps

(* A gray successor ends the search; a black one is passed over; a white one
   is visited.                                                             *)
LEMMA ReachKeeps == ASSUME SearchInv, Reach PROVE SearchInv'
<1> DEFINE n == Len(stack)
<1>1. found = NoNode /\ stack # <<>> /\ SearchTypeOK /\ stack \in Seq(Frames) /\ n \in Nat
  BY DEF Reach, Searching, SearchInv, SearchTypeOK, Frames
<1>2. PICK v \in Top.Left :
        \/ color[v] = "gray" /\ found' = v /\ UNCHANGED <<succ, color, stack>>
        \/ color[v] = "black" /\ stack' = Taken(v) /\ UNCHANGED <<succ, color, found>>
        \/ color[v] = "white" /\ Visit(v, Taken(v))
  BY DEF Reach
<1>3. /\ Taken(v) \in Seq(Frames) /\ Len(Taken(v)) = n /\ n \in 1..n
      /\ \A i \in 1..n : /\ Taken(v)[i].Node = stack[i].Node
                         /\ i # n => Taken(v)[i].Left = stack[i].Left
      /\ Taken(v)[n].Left = stack[n].Left \ {v}
  BY <1>1, TakenShape
<1>4. v \in stack[n].Left /\ v \in succ[stack[n].Node] /\ v \in Nodes
  <2>1. v \in stack[n].Left
    BY DEF Top
  <2>2. stack[n] \in Frames
    BY <1>1, <1>3, ElementOfSeq
  <2> QED
    BY <2>1, <2>2, <1>3 DEF SearchInv, LeftAreSuccessors, Frames
<1>5. CASE color[v] = "gray" /\ found' = v /\ UNCHANGED <<succ, color, stack>>
  <2>1. Nodes' = Nodes /\ Top' = Top
    BY <1>5 DEF Nodes, Top
  <2>2. SearchTypeOK'
    BY <2>1, <1>1, <1>4, <1>5 DEF SearchTypeOK
  <2>3. FoundOnTop'
    BY <2>1, <1>1, <1>4, <1>5 DEF FoundOnTop, Top
  <2> QED
    BY <2>1, <2>2, <2>3, <1>5 DEF SearchInv, GrayOnStack, StackDistinct, FramesLinked,
      PassedIsBlack, LeftAreSuccessors, BlackClosed, BlackAcyclic, Recurs
<1>6. CASE color[v] = "black" /\ stack' = Taken(v) /\ UNCHANGED <<succ, color, found>>
  <2>1. Nodes' = Nodes /\ found' = NoNode /\ Frames' = Frames /\ Len(stack') = n
    BY <1>1, <1>3, <1>6 DEF Nodes, Frames
  <2>2. SearchTypeOK'
    BY <2>1, <1>1, <1>3, <1>6 DEF SearchTypeOK, Frames
  <2>3. \A i \in 1..n : stack'[i].Node = stack[i].Node
    BY <1>3, <1>6
  <2>4. GrayOnStack'
    BY <2>1, <2>3, <1>6 DEF SearchInv, GrayOnStack
  <2>5. StackDistinct'
    BY <2>1, <2>3 DEF SearchInv, StackDistinct
  <2>6. FramesLinked'
    <3> SUFFICES ASSUME NEW i \in 1..(n - 1)
                 PROVE  stack'[i + 1].Node \in succ[stack'[i].Node]
      BY <2>1, <1>6 DEF FramesLinked
    <3>1. i \in 1..n /\ i + 1 \in 1..n
      BY <1>1
    <3> QED
      BY <3>1, <2>3 DEF SearchInv, FramesLinked
  <2>7. PassedIsBlack'
    <3> SUFFICES ASSUME NEW i \in 1..n, NEW w \in succ[stack[i].Node]
                 PROVE  \/ w \in stack'[i].Left
                        \/ color[w] = "black"
                        \/ i < n /\ stack'[i + 1].Node = w
      BY <2>1, <2>3, <1>6 DEF PassedIsBlack
    <3>1. \/ w \in stack[i].Left
          \/ color[w] = "black"
          \/ i < n /\ stack[i + 1].Node = w
      BY DEF SearchInv, PassedIsBlack
    <3>2. w \in stack[i].Left => w \in stack'[i].Left \/ w = v
      BY <1>3, <1>6
    <3>3. i < n => i + 1 \in 1..n
      BY <1>1
    <3> QED
      BY <3>1, <3>2, <3>3, <2>3, <1>6
  <2>8. LeftAreSuccessors'
    <3> SUFFICES ASSUME NEW i \in 1..n
                 PROVE  stack'[i].Left \subseteq succ[stack[i].Node]
      BY <2>1, <2>3, <1>6 DEF LeftAreSuccessors
    <3>1. stack'[i].Left \subseteq stack[i].Left
      BY <1>3, <1>6
    <3> QED
      BY <3>1 DEF SearchInv, LeftAreSuccessors
  <2> QED
    BY <2>1, <2>2, <2>4, <2>5, <2>6, <2>7, <2>8, <1>6
      DEF SearchInv, BlackClosed, BlackAcyclic, Recurs, FoundOnTop
<1>7. CASE color[v] = "white" /\ Visit(v, Taken(v))
  <2>1. \A i \in 1..n : Taken(v)[i].Left \subseteq stack[i].Left
    BY <1>3
  <2>2. \A i \in 1..n : \A w \in stack[i].Left : w \in Taken(v)[i].Left \/ (i = n /\ w = v)
    BY <1>3
  <2> QED
    BY <2>1, <2>2, <1>1, <1>3, <1>4, <1>7, VisitKeeps
<1> QED
  BY <1>2, <1>5, <1>6, <1>7

(* The visit that ends leaves only black successors behind: a recurrent set
   of black nodes that held its node would recur without it.               *)
LEMMA FinishKeeps == ASSUME SearchInv, Finish PROVE SearchInv'
<1> DEFINE n == Len(stack)
           u == stack[n].Node
<1>1. /\ found = NoNode /\ stack # <<>> /\ SearchTypeOK /\ stack \in Seq(Frames)
      /\ n \in Nat /\ stack[n].Left = {} /\ n \in 1..n /\ n - 1 \in Nat
  <2>1. found = NoNode /\ stack # <<>> /\ SearchTypeOK /\ stack \in Seq(Frames) /\ n \in Nat
    BY DEF Finish, Searching, SearchInv, SearchTypeOK, Frames
  <2>2. stack[n].Left = {}
    BY DEF Finish, Top
  <2>3. n # 0
    BY <2>1, EmptySeq
  <2> QED
    BY <2>1, <2>2, <2>3
<1>2. u \in Nodes /\ color[u] = "gray"
  <2>1. stack[n] \in Frames
    BY <1>1, ElementOfSeq
  <2> QED
    BY <2>1, <1>1 DEF Frames, SearchInv, GrayOnStack
<1>3. succ' = succ /\ found' = NoNode /\ Nodes' = Nodes /\ Frames' = Frames
  BY <1>1 DEF Finish, Nodes, Frames
<1>4. /\ color' \in [Nodes -> {"white", "gray", "black"}]
      /\ color'[u] = "black"
      /\ \A w \in Nodes : w # u => color'[w] = color[w]
  BY <1>1, <1>2 DEF Finish, Top, SearchTypeOK
<1>5. /\ stack' \in Seq(Frames) /\ Len(stack') = n - 1
      /\ \A i \in 1..(n - 1) : i \in 1..n /\ stack'[i] = stack[i]
  <2>1. stack' = SubSeq(stack, 1, n - 1) /\ 1 \in 1..(n + 1) /\ n - 1 \in 0..n
    BY <1>1 DEF Finish
  <2>2. /\ SubSeq(stack, 1, n - 1) \in Seq(Frames)
        /\ Len(SubSeq(stack, 1, n - 1)) = n - 1
        /\ \A i \in 1..(n - 1) : SubSeq(stack, 1, n - 1)[i] = stack[i]
    <3>1. \A i \in 1..(n - 1) : stack[i] \in Frames
      BY <1>1, ElementOfSeq
    <3>2. n - 1 \in Int /\ 1 \in Int
      BY <1>1
    <3>3. /\ SubSeq(stack, 1, n - 1) \in Seq(Frames)
          /\ Len(SubSeq(stack, 1, n - 1)) = IF 1 <= n - 1 THEN n - 1 - 1 + 1 ELSE 0
          /\ \A i \in 1..(n - 1 - 1 + 1) : SubSeq(stack, 1, n - 1)[i] = stack[1 + i - 1]
      BY <3>1, <3>2, SubSeqProperties
    <3>4. Len(SubSeq(stack, 1, n - 1)) = n - 1
      <4>1. ASSUME NEW m \in Nat, m - 1 \in Nat
            PROVE  (IF 1 <= m - 1 THEN m - 1 - 1 + 1 ELSE 0) = m - 1
        BY <4>1
      <4>2. (IF 1 <= n - 1 THEN n - 1 - 1 + 1 ELSE 0) = n - 1
        BY <4>1, <1>1
      <4> QED
        BY <4>2, <3>3
    <3>5. ASSUME NEW i \in 1..(n - 1) PROVE SubSeq(stack, 1, n - 1)[i] = stack[i]
      <4>1. i \in 1..(n - 1 - 1 + 1) /\ 1 + i - 1 = i
        BY <1>1
      <4> QED
        BY <4>1, <3>3
    <3> QED
      BY <3>3, <3>4, <3>5
  <2> QED
    BY <2>1, <2>2, <1>1
<1>6. \A i \in 1..(n - 1) : stack[i].Node # u
  BY <1>1 DEF SearchInv, StackDistinct
<1>7. \A v \in succ[u] : v \in Nodes /\ color[v] = "black" /\ v # u
  <2> SUFFICES ASSUME NEW v \in succ[u]
               PROVE  v \in Nodes /\ color[v] = "black"
    BY <1>2
  <2>1. v \in Nodes
    BY <1>2 DEF SearchInv, SearchTypeOK
  <2>2. color[v] = "black"
    BY <1>1 DEF SearchInv, PassedIsBlack
  <2> QED
    BY <2>1, <2>2
<1>8. SearchTypeOK'
  BY <1>1, <1>3, <1>4, <1>5 DEF SearchTypeOK, Frames
<1>9. GrayOnStack'
  <2> SUFFICES ASSUME NEW w \in Nodes
               PROVE  color'[w] = "gray" <=> \E i \in 1..(n - 1) : stack[i].Node = w
    BY <1>3, <1>5 DEF GrayOnStack
  <2>1. CASE w = u
    BY <2>1, <1>4, <1>6
  <2>2. CASE w # u
    <3>1. color'[w] = "gray" <=> \E i \in 1..n : stack[i].Node = w
      BY <2>2, <1>4 DEF SearchInv, GrayOnStack
    <3>2. \A i \in 1..n : i \in 1..(n - 1) \/ i = n
      BY <1>1
    <3> QED
      BY <3>1, <3>2, <2>2, <1>5
  <2> QED
    BY <2>1, <2>2
<1>10. StackDistinct'
  BY <1>5 DEF SearchInv, StackDistinct
<1>11. FramesLinked'
  <2> SUFFICES ASSUME NEW i \in 1..(n - 2)
               PROVE  stack'[i + 1].Node \in succ[stack'[i].Node]
    BY <1>1, <1>3, <1>5 DEF FramesLinked
  <2>1. i \in 1..(n - 1) /\ i + 1 \in 1..(n - 1)
    BY <1>1
  <2> QED
    BY <2>1, <1>5 DEF SearchInv, FramesLinked
<1>12. PassedIsBlack'
  <2> SUFFICES ASSUME NEW i \in 1..(n - 1), NEW v \in succ[stack[i].Node]
               PROVE  \/ v \in stack'[i].Left
                      \/ color'[v] = "black"
                      \/ i < n - 1 /\ stack'[i + 1].Node = v
    BY <1>1, <1>3, <1>5 DEF PassedIsBlack
  <2>1. \/ v \in stack[i].Left
        \/ color[v] = "black"
        \/ i < n /\ stack[i + 1].Node = v
    BY <1>5 DEF SearchInv, PassedIsBlack
  <2>2. stack[i] \in Frames
    BY <1>1, <1>5, ElementOfSeq
  <2>3. v \in Nodes
    BY <2>2 DEF Frames, SearchInv, SearchTypeOK
  <2>4. color[v] = "black" => color'[v] = "black"
    BY <2>3, <1>4
  <2>5. CASE i = n - 1
    <3>1. i + 1 = n
      BY <2>5, <1>1
    <3> QED
      BY <3>1, <2>1, <2>4, <1>4, <1>5
  <2>6. CASE i # n - 1
    <3>1. i < n - 1 /\ i + 1 \in 1..(n - 1)
      BY <2>6, <1>1
    <3> QED
      BY <3>1, <2>1, <2>4, <1>5
  <2> QED
    BY <2>5, <2>6
<1>13. LeftAreSuccessors'
  BY <1>3, <1>5 DEF SearchInv, LeftAreSuccessors
<1>14. BlackClosed'
  <2> SUFFICES ASSUME NEW w \in Nodes, color'[w] = "black", NEW v \in succ[w]
               PROVE  color'[v] = "black"
    BY <1>3 DEF BlackClosed
  <2>1. v \in Nodes /\ color[v] = "black"
    BY <1>4, <1>7 DEF SearchInv, SearchTypeOK, BlackClosed
  <2> QED
    BY <2>1, <1>4
<1>15. BlackAcyclic'
  <2> SUFFICES ASSUME NEW S \in SUBSET Nodes, \A w \in S : color'[w] = "black", Recurs(S)
               PROVE  FALSE
    BY <1>3 DEF BlackAcyclic, Recurs
  <2> DEFINE B == S \ {u}
  <2>1. B \in SUBSET Nodes /\ \A w \in B : color[w] = "black"
    BY <1>4
  <2>2. \A w \in S : \A v \in succ[w] : v # u
    <3> SUFFICES ASSUME NEW w \in S, NEW v \in succ[w]
                 PROVE  v # u
      OBVIOUS
    <3>1. CASE w = u
      BY <3>1, <1>7
    <3>2. CASE w # u
      <4>1. color[v] = "black"
        BY <3>2, <2>1 DEF SearchInv, BlackClosed
      <4> QED
        BY <4>1, <1>2
    <3> QED
      BY <3>1, <3>2
  <2>3. \A w \in S : succ[w] \cap B # {}
    BY <2>2 DEF Recurs
  <2>4. Recurs(B)
    BY <2>3 DEF Recurs
  <2> QED
    BY <2>1, <2>4 DEF SearchInv, BlackAcyclic
<1>16. FoundOnTop'
  BY <1>3 DEF FoundOnTop
<1> QED
  BY <1>8, <1>9, <1>10, <1>11, <1>12, <1>13, <1>14, <1>15, <1>16 DEF SearchInv

LEMMA SearchStutter == ASSUME SearchInv, UNCHANGED searchVars PROVE SearchInv'
BY DEF searchVars, Nodes, Top, SearchInv, SearchTypeOK, GrayOnStack, StackDistinct, FramesLinked,
  PassedIsBlack, LeftAreSuccessors, BlackClosed, BlackAcyclic, Recurs, FoundOnTop
=============================================================================

------------------------------ MODULE Lowering ------------------------------
(***************************************************************************)
(* Lowering a committed revision to a RunSpec, and CheckSpec, the check of *)
(* a spec that does not trust how it was made.  Image, command and run     *)
(* metadata are opaque: a pin is runnable or not, a stamp encodable or not.*)
(***************************************************************************)
EXTENDS Contract

(* A revision as an exact read returns it. *)
RevisionOf(c) ==
  [Contract |-> Stored(c), CanonicalBody |-> Canonicalize(c), Digest |-> Canonicalize(c)]

VerifyRevision(rev) ==
  Else(VersionError(rev.Contract),
       Unless(/\ Canonicalize(rev.Contract) = rev.CanonicalBody
              /\ rev.CanonicalBody = rev.Digest, "INTEGRITY"))

CheckProfile(c) ==
  Else(FirstError([i \in DOMAIN c.Nodes |->
         IF c.Nodes[i].ToolProfile # Nil THEN "UNSUPPORTED_CAPABILITY"
         ELSE Unless(c.Nodes[i].FixedParameters = <<>>, "NOT_REPRESENTABLE")]),
       Unless(c.AssetBindings = <<>> /\ c.InputSlots = <<>>, "NOT_REPRESENTABLE"))

AuthorizationError(decision) ==
  CASE decision = "ALLOW" -> ""
    [] decision = "DENY" -> "AUTHORIZATION_DENIED"
    [] OTHER -> "AUTHORIZATION_UNKNOWN"

FrozenError(in) ==
  Else(Unless(in.RunID # Nil /\ in.SubmittedAt # Nil, "MISSING_FROZEN_INPUT"),
       Unless(in.SubmittedAt # "not RFC 3339", "INVALID_FROZEN_INPUT"))

LowerNodeError(c, in, i) ==
  LET n == c.Nodes[i] IN
  IF n.ID = Nil THEN "INVALID_CONTRACT"
  ELSE IF \E j \in 1..(i - 1) : c.Nodes[j].ID = n.ID THEN "DUPLICATE"
  ELSE IF n.Pin \notin DOMAIN in.Tools THEN "TOOL_FUNCTION_UNRESOLVED"
  ELSE Unless(n.Pin \in in.Runnables, "RUNNABLE_UNRESOLVED")

(* Mutant: a node, not a port, is what is consumed. *)
ConsumesNode(c, i) ==
  \E j \in 1..(i - 1) : c.DirectEdges[j].From = c.DirectEdges[i].From

Consumes(c, i) ==
  \E j \in 1..(i - 1) :
    /\ c.DirectEdges[j].From = c.DirectEdges[i].From
    /\ c.DirectEdges[j].Out = c.DirectEdges[i].Out

(* Mutant: the formats are trusted to be those of the commit. *)
LowerEdgeUntested(c, in, i) ==
  LET e == c.DirectEdges[i] IN
  IF e.From \notin NodeIDs(c) \/ e.To \notin NodeIDs(c) THEN "EDGE_INVALID"
  ELSE IF e.Out \notin DOMAIN DeclOf(c, in.Tools, e.From).Outputs THEN "EDGE_INVALID"
  ELSE Else(TargetError(c, in, e),
       Else(Unless(~Consumes(c, i), "NOT_REPRESENTABLE"),
            Unless(~\E j \in 1..(i - 1) : c.DirectEdges[j].To = e.To /\ c.DirectEdges[j].In = e.In,
                   "PROVIDER_CONFLICT")))

LowerEdgeError(c, in, i) ==
  LET e == c.DirectEdges[i] IN
  IF e.From \notin NodeIDs(c) \/ e.To \notin NodeIDs(c) THEN "EDGE_INVALID"
  ELSE IF e.Out \notin DOMAIN DeclOf(c, in.Tools, e.From).Outputs THEN "EDGE_INVALID"
  ELSE Else(TargetError(c, in, e),
       Else(PortsError(OutputOf(c, in.Tools, e), InputOf(c, in.Tools, e)),
       Else(Unless(~Consumes(c, i), "NOT_REPRESENTABLE"),
            Unless(~\E j \in 1..(i - 1) : c.DirectEdges[j].To = e.To /\ c.DirectEdges[j].In = e.In,
                   "PROVIDER_CONFLICT"))))

(* Every required input must be bound by an edge. *)
UnboundError(c, in) ==
  Unless(\A id \in NodeIDs(c) : LET inputs == DeclOf(c, in.Tools, id).Inputs IN
           \A port \in DOMAIN inputs :
             inputs[port].Required => \E e \in ToSet(c.DirectEdges) : e.To = id /\ e.In = port,
         "PROVIDER_MISSING")

(* Lower up to its call of CheckSpec. *)
LowerError(rev, in) ==
  LET c == rev.Contract IN
  Else(FrozenError(in),
  Else(VerifyRevision(rev),
  Else(CheckProfile(c),
  Else(AuthorizationError(in.Authorization),
  Else(FirstError([i \in DOMAIN c.Nodes |-> LowerNodeError(c, in, i)]),
  Else(FirstError([i \in DOMAIN c.DirectEdges |-> LowerEdgeError(c, in, i)]),
       UnboundError(c, in)))))))

Pair(e) == <<e.From, e.To>>

(* Each DirectEdge is the source of the dependency edge and of the binding;
   edges of one pair of nodes share a dependency edge.  The lists of edges and
   of bindings are kept by the positions of the DirectEdges they come from. *)
SpecOf(c, in) ==
  LET incoming(id) == {i \in DOMAIN c.DirectEdges : c.DirectEdges[i].To = id}
      first == {i \in DOMAIN c.DirectEdges :
                  ~\E j \in 1..(i - 1) : Pair(c.DirectEdges[j]) = Pair(c.DirectEdges[i])}
  IN  [Nodes |-> [i \in DOMAIN c.Nodes |->
         LET id == c.Nodes[i].ID
             decl == DeclOf(c, in.Tools, id) IN
         [ID |-> id, Inputs |-> DOMAIN decl.Inputs, Outputs |-> DOMAIN decl.Outputs,
          Bindings |-> [j \in incoming(id) |->
            LET e == c.DirectEdges[j] IN
            [Name |-> e.In, ChildInput |-> e.In, Producer |-> e.From, Output |-> e.Out,
             Required |-> decl.Inputs[e.In].Required]]]],
       Edges |-> [i \in first |-> Pair(c.DirectEdges[i])]]

(***************************************************************************)
(* CheckSpec, before and after its search for a cycle.                     *)
(***************************************************************************)
SpecIDs(spec) == {spec.Nodes[i].ID : i \in DOMAIN spec.Nodes}

SpecEdgeError(spec, i) ==
  LET e == spec.Edges[i] IN
  IF e[1] = e[2] \/ ~{e[1], e[2]} \subseteq SpecIDs(spec) THEN "EDGE_INVALID"
  ELSE Unless(~\E j \in DOMAIN spec.Edges : j < i /\ spec.Edges[j] = e, "DUPLICATE")

SpecShapeError(spec) ==
  IF spec.Nodes = <<>> THEN "INVALID_CONTRACT"
  ELSE Else(FirstError([i \in DOMAIN spec.Nodes |->
              IF spec.Nodes[i].ID = Nil THEN "INVALID_CONTRACT"
              ELSE Unless(~\E j \in 1..(i - 1) : spec.Nodes[j].ID = spec.Nodes[i].ID, "DUPLICATE")]),
            FirstError([i \in DOMAIN spec.Edges |-> SpecEdgeError(spec, i)]))

SpecGraph(spec) ==
  [id \in SpecIDs(spec) |-> {e[2] : e \in {d \in ToSet(spec.Edges) : d[1] = id}}]

BindingSound(spec, consumer, i) ==
  LET b == consumer.Bindings[i] IN
  /\ ~\E j \in DOMAIN consumer.Bindings : j < i /\ consumer.Bindings[j].Name = b.Name
  /\ b.ChildInput = b.Name /\ b.ChildInput \in consumer.Inputs
  /\ \E n \in ToSet(spec.Nodes) : n.ID = b.Producer /\ b.Output \in n.Outputs
  /\ <<b.Producer, consumer.ID>> \in ToSet(spec.Edges)

BoundError(spec, consumer, i) ==
  LET b == consumer.Bindings[i] IN
  IF Nil \in {b.Name, b.Producer, b.Output} THEN "INVALID_CONTRACT"
  ELSE Unless(BindingSound(spec, consumer, i), "SAME_SOURCE_VIOLATION")

SameSourceError(spec) ==
  Else(FirstError([n \in DOMAIN spec.Nodes |->
         FirstError([i \in DOMAIN spec.Nodes[n].Bindings |-> BoundError(spec, spec.Nodes[n], i)])]),
       Unless(\A e \in ToSet(spec.Edges) : \E n \in ToSet(spec.Nodes) :
                n.ID = e[2] /\ \E i \in DOMAIN n.Bindings : n.Bindings[i].Producer = e[1],
              "SAME_SOURCE_VIOLATION"))
=============================================================================

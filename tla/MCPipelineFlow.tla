--------------------------- MODULE MCPipelineFlow ---------------------------
(* Contracts of two families: every graph of up to three edges over three
   nodes (two inputs each), or over two nodes with two outputs each; and a
   contract that uses every feature, with each single defect Validate can
   refuse, and some that only look like one.  The bodies are read as texts
   of up to six escapes, and as objects of up to three members.            *)
EXTENDS PipelineFlow, TLC

In(format, card, required) == [Format |-> format, Cardinality |-> card, Required |-> required]
Out(format, card) == [Format |-> format, Cardinality |-> card]
None == [x \in {} |-> Nil]

F == [Inputs |-> "a" :> In("x", "SINGLE", FALSE) @@ "b" :> In("x", "SINGLE", FALSE),
      Outputs |-> "o" :> Out("x", "SINGLE") @@ "p" :> Out("x", "SINGLE"), Parameters |-> None]
G == [Inputs |-> "a" :> In("x", "SINGLE", TRUE) @@ "y" :> In("y", "SINGLE", FALSE)
                   @@ Nil :> In("x", "SINGLE", FALSE)
                   @@ "m" :> In("x", "MULTIPLE", FALSE) @@ "u" :> In("UNKNOWN", "SINGLE", FALSE),
      Outputs |-> "o" :> Out("x", "SINGLE") @@ "m" :> Out("x", "MULTIPLE") @@ "u" :> Out("UNKNOWN", "SINGLE"),
      Parameters |-> "k" :> {"v"} @@ "any" :> {}]
Good == [Tools |-> "f" :> F @@ "g" :> G,
         Assets |-> "asset" :> Out("x", "SINGLE") @@ "many" :> Out("x", "MULTIPLE")]

(* What the catalog may have become: a pin gone, another format, an input that
   is now required.                                                        *)
MCCatalogs ==
  {Good, [Good EXCEPT !.Tools = "f" :> F],
   [Good EXCEPT !.Tools["f"].Outputs["o"].Format = "y"],
   [Good EXCEPT !.Tools["f"].Inputs["a"].Required = TRUE]}

Node(id, pin) == [ID |-> id, Pin |-> pin, ToolProfile |-> Nil, FixedParameters |-> <<>>]
Edge(from, out, to, in) == [From |-> from, Out |-> out, To |-> to, In |-> in]
Graph(ids, edges) ==
  [CanonicalizationVersion |-> ContractVersionV1, SemanticDerivationVersion |-> ContractVersionV1,
   Nodes |-> [i \in DOMAIN ids |-> Node(ids[i], "f")],
   DirectEdges |-> SetToSeq(edges), AssetBindings |-> <<>>, InputSlots |-> <<>>]

Edges(ids, outs) ==
  {Edge(n, o, m, i) : n \in ids, o \in outs, m \in ids, i \in {"a", "b"}}

Graphs ==
  {Graph(<<"n1", "n2", "n3">>, es) :
     es \in UNION {kSubset(k, Edges({"n1", "n2", "n3"}, {"o"})) : k \in 0..3}}
  \cup {Graph(<<"n1", "n2">>, es) : es \in UNION {kSubset(k, Edges({"n1", "n2"}, {"o", "p"})) : k \in 1..2}}
  \cup {Graph(<<>>, {})}

Full ==
  [Graph(<<"n1", "n2">>, {Edge("n1", "o", "n2", "a")}) EXCEPT
     !.Nodes[2] = [Node("n2", "g") EXCEPT !.FixedParameters =
                     <<[Name |-> "k", Value |-> "v"], [Name |-> "any", Value |-> "w"]>>],
     !.AssetBindings = <<[To |-> "n1", In |-> "a", Asset |-> "asset"]>>,
     !.InputSlots = <<[SlotID |-> "s", To |-> "n1", In |-> "b"]>>]

(* An edge to a port that is declared without a name. *)
Unnamed ==
  [Graph(<<"n1", "n2">>, {Edge("n1", "o", "n2", "a"), Edge("n1", "p", "n2", Nil)}) EXCEPT
     !.Nodes[2] = Node("n2", "g")]

Twice(list) == list \o list
NodeDefects ==
  {[Full EXCEPT !.CanonicalizationVersion = "v2"], [Full EXCEPT !.SemanticDerivationVersion = "v2"],
   [Full EXCEPT !.Nodes[1].ID = Nil], [Full EXCEPT !.Nodes[2].ID = "n1"],
   [Full EXCEPT !.Nodes[1].ToolProfile = "profile"], [Full EXCEPT !.Nodes[1].Pin = "h"],
   [Full EXCEPT !.Nodes[2].FixedParameters = Twice(@)],
   [Full EXCEPT !.Nodes[2].FixedParameters[1].Name = "other"],
   [Full EXCEPT !.Nodes[2].FixedParameters[1].Value = "w"]}
EdgeDefects ==
  {[Full EXCEPT !.DirectEdges = es] :
     es \in {<<>>, Twice(Full.DirectEdges)} \cup
       {<<Edge("n1", "o", "n2", "a"), e>> :
          e \in {Edge("n3", "o", "n2", "y"), Edge("n1", "o", "n3", "a"), Edge("n1", "z", "n2", "y"),
                 Edge("n1", "o", "n2", "z"), Edge("n1", "o", "n2", "m"), Edge("n1", "o", "n2", "y"),
                 Edge("n1", "p", "n2", "a"), Edge("n2", "o", "n1", "a"), Edge("n2", "m", "n1", "b"),
                 Edge("n2", "u", "n2", "u")}}}
SourceDefects ==
  {[Full EXCEPT !.AssetBindings = Twice(@)], [Full EXCEPT !.AssetBindings[1].Asset = "lost"],
   [Full EXCEPT !.AssetBindings[1].Asset = "many"], [Full EXCEPT !.AssetBindings[1].To = "n3"],
   [Full EXCEPT !.InputSlots = Twice(@)], [Full EXCEPT !.InputSlots[1].SlotID = Nil],
   [Full EXCEPT !.InputSlots[1].In = "z"], [Full EXCEPT !.InputSlots[1].In = "a"],
   [Full EXCEPT !.InputSlots = @ \o <<[SlotID |-> "s", To |-> "n2", In |-> "y"]>>],
   [Full EXCEPT !.DirectEdges = <<>>, !.InputSlots[1] = [SlotID |-> "s", To |-> "n2", In |-> "a"]]}

MCContracts == Graphs \cup {Full, Unnamed} \cup NodeDefects \cup EdgeDefects \cup SourceDefects

MCSchema == 1 :> {"nodes", "version"} @@ 3 :> {"node_id"}
MCFieldOf(key) == CASE key = "Nodes" -> "nodes" [] key = "NODE_ID" -> "node_id" [] OTHER -> key

Nested(members) == <<"{">> \o members \o <<"}">>
NodesKey(key, objects) == <<key, "[">> \o objects \o <<"]">>
PlainTokens ==
  Nested(NodesKey("nodes", <<"{", "node_id", "value", "}", "{", "node_id", "value", "}">>)
           \o <<"version", "value">>)

Members ==
  {<<>>, <<"version", "value">>, <<"version", "null">>, <<"path", "value">>}
  \cup {NodesKey(key, objects) :
          key \in {"nodes", "Nodes"},
          objects \in {<<>>, <<"{", "node_id", "value", "}">>, <<"null">>,
                      <<"{", "node_id", "value", "}", "{", "node_id", "value", "}">>,
                      <<"{", "node_id", "value", "NODE_ID", "value", "}">>,
                      <<"{", "node_id", "value", "node_id", "value", "}">>,
                      <<"{", "}", "{", "nodes", "value", "}">>}}
Structures ==
  {Nested(m1 \o m2 \o m3) : m1, m2, m3 \in Members}
  \cup {Nested(m) \o rest : m \in Members, rest \in {<<"value">>, <<"{", "}">>, <<"null">>}}
  \cup {<<"null">>}

Escapes == {<<Backslash>>, <<"u", "H">>, <<"u", "L">>, <<"u", "B">>, <<"u">>, <<"n">>, <<"bytes">>}
Texts == {FlattenSeq(s) : s \in UNION {[1..k -> Escapes] : k \in 0..4}}
           \cup {FlattenSeq(s) : s \in [1..6 -> {<<Backslash>>, <<"u", "H">>, <<"u", "L">>}]}

Submitted(text, tokens, c) == [Text |-> text, Tokens |-> tokens, Rest |-> "nothing", Contract |-> c]
Plain(c) == Submitted(<<>>, PlainTokens, c)
(* What the odd bodies decode to: whatever else it says, a contract of a version
   that the next check refuses.                                            *)
Unsupported == [Full EXCEPT !.CanonicalizationVersion = "v2"]

(* Bytes after the value: after a contract that is committed otherwise, and
   after bodies that are refused for another reason.                       *)
Followed ==
  {[s EXCEPT !.Rest = rest] :
     s \in {Plain(Graph(<<"n1", "n2">>, {Edge("n1", "o", "n2", "a")})),
            Submitted(<<>>, PlainTokens \o <<"value">>, Unsupported),
            Submitted(<<>>, Nested(<<"path", "value">>), Unsupported),
            Submitted(<<Backslash, "u", "H">>, PlainTokens, Unsupported)},
     rest \in {"bracket", "other"}}

MCFirstSubmissions ==
  [Submission : {Plain(c) : c \in MCContracts}, Catalog : MCCatalogs]
  \cup [Submission : {Submitted(<<>>, tokens, Unsupported) : tokens \in Structures}
                       \cup {Submitted(text, PlainTokens, Unsupported) : text \in Texts}
                       \cup Followed,
        Catalog : {Good}]

Frozen ==
  [RunID |-> "run", SubmittedAt |-> "time", Authorization |-> "ALLOW",
   Tools |-> Good.Tools, Runnables |-> {"f", "g"}]
MCLowerInputs ==
  {[Frozen EXCEPT !.Tools = cat.Tools] : cat \in MCCatalogs}
  \cup {[Frozen EXCEPT !.RunID = Nil], [Frozen EXCEPT !.SubmittedAt = "not RFC 3339"],
        [Frozen EXCEPT !.Authorization = "DENY"], [Frozen EXCEPT !.Authorization = ""],
        [Frozen EXCEPT !.Runnables = {"g"}]}
=============================================================================

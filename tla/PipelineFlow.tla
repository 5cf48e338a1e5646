---------------------------- MODULE PipelineFlow ----------------------------
(***************************************************************************)
(* The life of a contract: it is submitted, parsed, gated, validated       *)
(* against what the resolvers answer then, and committed; it is submitted  *)
(* again, in another order of its lists or with a defect, against a        *)
(* catalog that has drifted; the revision is lowered with declarations     *)
(* frozen at yet another time.  Lower is also handed revisions that no     *)
(* commit made.  A submission is its body as Parse reads it and, as        *)
(* Contract, what the decoder makes of it.                                 *)
(***************************************************************************)
EXTENDS Parse, Lowering, CycleSearch

CONSTANTS
  FirstSubmissions,   \* what is submitted first, and the catalog of then
  Catalogs,           \* what the resolvers may answer: [Tools, Assets]
  LowerInputs         \* the frozen inputs of a lowering

IsList(list) == list \in Seq(ToSet(list))
IsRecords(list, fields) == IsList(list) /\ \A x \in ToSet(list) : x = [f \in fields |-> x[f]]

IsContract(c) ==
  /\ {"SemanticDerivationVersion", "CanonicalizationVersion",
      "Nodes", "DirectEdges", "AssetBindings", "InputSlots"} \subseteq DOMAIN c
  /\ IsRecords(c.Nodes, {"ID", "Pin", "ToolProfile", "FixedParameters"})
  /\ \A n \in ToSet(c.Nodes) : IsRecords(n.FixedParameters, {"Name", "Value"})
  /\ IsRecords(c.DirectEdges, {"From", "Out", "To", "In"})
  /\ IsRecords(c.AssetBindings, {"To", "In", "Asset"})
  /\ IsRecords(c.InputSlots, {"SlotID", "To", "In"})

ASSUME SubmissionsAreContracts ==
  \A f \in FirstSubmissions :
    "Contract" \in DOMAIN f.Submission /\ IsContract(f.Submission.Contract)

(* What Parse is given is characters, the tokens of JSON values, and a rest. *)
ASSUME SubmissionsAreTexts ==
  \A f \in FirstSubmissions :
    /\ "Text" \in DOMAIN f.Submission /\ IsList(f.Submission.Text)
    /\ "Tokens" \in DOMAIN f.Submission /\ IsList(f.Submission.Tokens)
    /\ TokenStream(f.Submission.Tokens) /\ "Rest" \in DOMAIN f.Submission

VARIABLES
  pc,
  submission,         \* [Text, Tokens, Rest, Contract]
  catalog,
  code,       \* the answer of the call: a code, or COMMITTED, CONVERGED, LOWERED
  committed,  \* what was committed, and the catalog it was validated against
  revision,   \* the revision handed to Lower
  input, spec

callVars == <<submission, catalog>>
lowerVars == <<revision, input, spec>>
vars == <<pc, callVars, code, committed, lowerVars, searchVars>>

Init ==
  /\ pc = "idle" /\ code = "" /\ committed = Nil
  /\ submission = Nil /\ catalog = Nil
  /\ revision = Nil /\ input = Nil /\ spec = Nil
  /\ succ = <<>> /\ color = <<>> /\ stack = <<>> /\ found = NoNode

Answer(label, c) == pc' = label /\ code' = c

(***************************************************************************)
(* Commit: Parse, the structural gate, convergence on a canonical form     *)
(* already committed (which asks no resolver), Validate, then the cycle    *)
(* search.                                                                 *)
(***************************************************************************)
body == submission.Contract

Submit(s, cat) ==
  LET c == s.Contract
      unread == ParseError(s)
      refusal == Else(RejectReservedCapabilities(c),
                      IF committed # Nil /\ Canonicalize(c) = Canonicalize(committed.Contract)
                        THEN "CONVERGED" ELSE ValidateError(c, cat))
  IN  /\ submission' = s /\ catalog' = cat
      /\ IF unread # "" THEN Answer("unread", unread) /\ UNCHANGED searchVars
         ELSE IF refusal # "" THEN Answer("answered", refusal) /\ UNCHANGED searchVars
         ELSE Answer("validating", "") /\ StartSearch(GraphOf(c))
      /\ UNCHANGED <<committed, lowerVars>>

FirstCommit == pc = "idle" /\ \E f \in FirstSubmissions : Submit(f.Submission, f.Catalog)

(* A committed contract as it may be submitted again: its lists in another
   order, the reserved field present, an edge repeated, an edge less.      *)
Again(c) ==
  {[c EXCEPT !.Nodes = Reverse(@), !.DirectEdges = Reverse(@), !.InputSlots = Reverse(@)]}
  \cup (IF c.Nodes = <<>> THEN {} ELSE {[c EXCEPT !.Nodes[1].ToolProfile = "profile"]})
  \cup (IF c.DirectEdges = <<>> THEN {}
        ELSE {[c EXCEPT !.DirectEdges = Append(@, Head(@))], [c EXCEPT !.DirectEdges = Tail(@)]})

CommitAgain ==
  /\ pc = "answered" /\ code = "COMMITTED"
  /\ \E c \in Again(body), cat \in Catalogs : Submit([submission EXCEPT !.Contract = c], cat)

ValidateEnds ==
  /\ pc = "validating" /\ SearchDone
  /\ IF found # NoNode THEN Answer("answered", "GRAPH_CYCLE") /\ UNCHANGED committed
     ELSE /\ Answer("answered", "COMMITTED")
          /\ committed' = [Contract |-> body, Catalog |-> catalog]
  /\ UNCHANGED <<callVars, lowerVars, searchVars>>

(***************************************************************************)
(* Lower.  A revision no commit made is one that a caller put together:    *)
(* consistent in itself, or with a body that is not its contract's.        *)
(***************************************************************************)
Handed ==
  {RevisionOf(body), [RevisionOf(body) EXCEPT !.Contract = body],
   [RevisionOf(body) EXCEPT !.CanonicalBody.DirectEdges = <<>>]}

Lower ==
  /\ pc = "answered" /\ \E rev \in Handed, in \in LowerInputs :
       LET lowered == SpecOf(rev.Contract, in)
           error == Else(LowerError(rev, in), SpecShapeError(lowered))
       IN  /\ revision' = rev /\ input' = in
           /\ IF error # "" THEN Answer("lowered", error) /\ UNCHANGED <<spec, searchVars>>
              ELSE /\ Answer("checking", "")
                   /\ spec' = lowered
                   /\ StartSearch(SpecGraph(lowered))
  /\ UNCHANGED <<callVars, committed>>

CheckSpecEnds ==
  /\ pc = "checking" /\ SearchDone
  /\ Answer("lowered", IF found # NoNode THEN "GRAPH_CYCLE"
                       ELSE Else(SameSourceError(spec), "LOWERED"))
  /\ UNCHANGED <<callVars, committed, lowerVars, searchVars>>

InSearch(step) ==
  /\ pc \in {"validating", "checking"} /\ step
  /\ UNCHANGED <<pc, callVars, code, committed, lowerVars>>

Next ==
  \/ FirstCommit \/ CommitAgain \/ ValidateEnds
  \/ Lower \/ CheckSpecEnds
  \/ InSearch(PickRoot) \/ InSearch(Reach) \/ InSearch(Finish)

Spec == Init /\ [][Next]_vars

(***************************************************************************)
(* Properties.                                                             *)
(***************************************************************************)

(* A body is read only if its string literals mean what they say: every
   escape is one of JSON's, and a surrogate comes in a pair, however many
   backslashes stand before it.  The scan before the decoder.              *)
EscapesDecide ==
  pc # "idle" /\ CheckStrictJSON(submission.Tokens) = "" /\ ~More(submission) =>
    LET text == submission.Text IN
    (pc # "unread" \/ code = "UNKNOWN_KEY") <=>
      "bytes" \notin ToSet(text) /\ WellEscaped(text) /\ Paired(Units(text))

(* A body is read only if it is one value without nulls in which no object
   repeats a key, at any depth and next to objects that use the same keys,
   every key is known, and no bytes follow but after a closing bracket.  The
   token walk and the decoder.                                             *)
StructureDecides ==
  pc # "idle" /\ submission.Text = <<>> =>
    (pc # "unread" <=> Strict(submission.Tokens) /\ submission.Rest # "other")

(* The comment on Parse: no silent last-wins, no case-folding of names.    *)
NoSilentLastWins ==
  pc \notin {"idle", "unread"} => ~OverwritesField(submission.Tokens)

(* The comment on Parse: trailing data after the JSON value is rejected.   *)
NoTrailingData == pc \notin {"idle", "unread"} => submission.Rest = "nothing"

(* What a committed contract is, said of the contract as a whole.          *)
Distinct(list) == Cardinality(ToSet(list)) = Len(list)
Ports(from, to) ==
  from.Cardinality = "SINGLE" /\ from.Format = to.Format /\ from.Format \notin UnknownFormats

InputPorts(c, cat) ==
  UNION {{<<id, port>> : port \in DOMAIN DeclOf(c, cat.Tools, id).Inputs} : id \in NodeIDs(c)}

NodesFit(c, cat) ==
  /\ Cardinality(NodeIDs(c)) = Len(c.Nodes) /\ Nil \notin NodeIDs(c)
  /\ \A n \in ToSet(c.Nodes) :
       /\ n.ToolProfile = Nil
       /\ n.Pin \in DOMAIN cat.Tools
       /\ Cardinality({p.Name : p \in ToSet(n.FixedParameters)}) = Len(n.FixedParameters)
       /\ \A p \in ToSet(n.FixedParameters) :
            LET declared == cat.Tools[n.Pin].Parameters IN
            p.Name \in DOMAIN declared /\ ParameterValueValid(declared[p.Name], p.Value)

Connections(c) == ToSet(c.DirectEdges) \cup ToSet(c.AssetBindings) \cup ToSet(c.InputSlots)

ConnectionsFit(c, cat) ==
  /\ Distinct(c.DirectEdges) /\ Distinct(c.AssetBindings)
  /\ Cardinality({s.SlotID : s \in ToSet(c.InputSlots)}) = Len(c.InputSlots)
  /\ \A s \in ToSet(c.InputSlots) : s.SlotID # Nil
  /\ \A x \in Connections(c) :
       <<x.To, x.In>> \in InputPorts(c, cat) /\ InputOf(c, cat.Tools, x).Cardinality = "SINGLE"
  /\ \A e \in ToSet(c.DirectEdges) :
       /\ e.From \in NodeIDs(c) /\ e.Out \in DOMAIN DeclOf(c, cat.Tools, e.From).Outputs
       /\ Ports(OutputOf(c, cat.Tools, e), InputOf(c, cat.Tools, e))
  /\ \A b \in ToSet(c.AssetBindings) :
       b.Asset \in DOMAIN cat.Assets /\ Ports(cat.Assets[b.Asset], InputOf(c, cat.Tools, b))
  /\ \A in \in InputPorts(c, cat) :
       LET given == Cardinality({x \in Connections(c) : <<x.To, x.In>> = in}) IN
       given <= 1 /\ (DeclOf(c, cat.Tools, in[1]).Inputs[in[2]].Required => given = 1)

GraphAcyclic(graph) ==
  \A S \in SUBSET DOMAIN graph : S # {} => \E u \in S : graph[u] \cap S = {}

WellFormed(c, cat) ==
  /\ c.CanonicalizationVersion = ContractVersionV1
  /\ c.SemanticDerivationVersion = ContractVersionV1
  /\ NodesFit(c, cat) /\ ConnectionsFit(c, cat) /\ GraphAcyclic(GraphOf(c))

(* A contract is committed exactly when it is well formed under what the
   resolvers answered for it: its sections, in their order and with what they
   leave to each other, let nothing else through and refuse nothing more.  *)
ValidateDecides ==
  pc = "answered" /\ code # "CONVERGED" =>
    (code = "COMMITTED" <=> WellFormed(body, catalog))

(* A body that converges on a committed one is not validated, and needs not
   be: it is well formed under the catalog of that commit.  The gate before
   the canonical identity is derived.                                      *)
ConvergedIsValid ==
  pc = "answered" /\ code = "CONVERGED" => WellFormed(body, committed.Catalog)

(* A RunSpec says what the contract said, under the declarations frozen for
   it and however they have drifted since the commit: its bindings are the
   contract's edges, its dependencies are theirs, their ports fit, every
   required input is bound once, and it has no cycle, whoever made the
   revision.                                                               *)
SpecBindings ==
  UNION {{[From |-> b.Producer, Out |-> b.Output, To |-> n.ID, In |-> b.ChildInput] :
            b \in ToSet(n.Bindings)} : n \in ToSet(spec.Nodes)}

LoweredIsSameSource ==
  pc = "lowered" /\ code = "LOWERED" =>
    LET c == revision.Contract
        cat == [Tools |-> input.Tools, Assets |-> <<>>]
    IN  /\ SpecBindings = ToSet(c.DirectEdges)
        /\ ToSet(spec.Edges) = {Pair(e) : e \in ToSet(c.DirectEdges)}
        /\ Cardinality(ToSet(spec.Edges)) = Cardinality(DOMAIN spec.Edges)
        /\ ConnectionsFit(c, cat)
        /\ GraphAcyclic(SpecGraph(spec))

(* With the declarations of its commit, a runnable and allowed revision is
   lowered if it uses no feature outside the lowering slice and no output
   twice, and refused as not representable otherwise.  CheckSpec contradicts
   what Lower built in two cases only, which the commit accepts: no nodes, and
   an edge of a declared port without a name.                              *)
Representable(c) ==
  /\ c.AssetBindings = <<>> /\ c.InputSlots = <<>>
  /\ \A n \in ToSet(c.Nodes) : n.FixedParameters = <<>>
  /\ Cardinality({<<e.From, e.Out>> : e \in ToSet(c.DirectEdges)}) = Len(c.DirectEdges)

Undrifted ==
  /\ committed # Nil /\ revision = RevisionOf(committed.Contract)
  /\ FrozenError(input) = "" /\ input.Authorization = "ALLOW"
  /\ input.Tools = committed.Catalog.Tools
  /\ {n.Pin : n \in ToSet(revision.Contract.Nodes)} \subseteq input.Runnables

LowersWhatIsRepresentable ==
  pc = "lowered" /\ Undrifted =>
    LET c == revision.Contract IN
    code = IF ~Representable(c) THEN "NOT_REPRESENTABLE"
           ELSE IF c.Nodes = <<>> \/ \E e \in ToSet(c.DirectEdges) : Nil \in {e.Out, e.In}
             THEN "INVALID_CONTRACT" ELSE "LOWERED"
=============================================================================

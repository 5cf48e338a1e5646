------------------------------ MODULE Contract ------------------------------
(***************************************************************************)
(* Commit validation and the canonical form.  A contract's lists are       *)
(* sequences of records, names are opaque, and a catalog is what the       *)
(* resolvers answer: the declaration of each ToolFunction pin, and of each *)
(* asset member.  An error is its code, and "" is no error.                *)
(***************************************************************************)
EXTENDS Integers, FiniteSets, SequencesExt

CONSTANT Nil

ContractVersionV1 == "v1"
UnknownFormats == {"", "UNKNOWN", "UNSPECIFIED"}

Else(first, second) == IF first # "" THEN first ELSE second
Unless(ok, code) == IF ok THEN "" ELSE code

(* The first error of a list of checks, in its order. *)
FirstError(errs) ==
  LET bad == {i \in DOMAIN errs : errs[i] # ""}
  IN  IF bad = {} THEN "" ELSE errs[CHOOSE i \in bad : \A j \in bad : i <= j]

Repeats(list, i) == \E j \in 1..(i - 1) : list[j] = list[i]

NodeIDs(c) == {c.Nodes[i].ID : i \in DOMAIN c.Nodes}
DeclOf(c, tools, id) == tools[(CHOOSE n \in ToSet(c.Nodes) : n.ID = id).Pin]

(***************************************************************************)
(* The sections of Validate.                                               *)
(***************************************************************************)
VersionError(c) ==
  Unless({c.CanonicalizationVersion, c.SemanticDerivationVersion} = {ContractVersionV1},
         "UNSUPPORTED_VERSION")

ParameterValueValid(allowed, value) == allowed = {} \/ value \in allowed

ParameterError(n, decl, i) ==
  LET p == n.FixedParameters[i] IN
  IF \E j \in 1..(i - 1) : n.FixedParameters[j].Name = p.Name THEN "DUPLICATE"
  ELSE Unless(/\ p.Name \in DOMAIN decl.Parameters
              /\ ParameterValueValid(decl.Parameters[p.Name], p.Value),
              "PARAMETER_INVALID")

NodeError(c, catalog, i) ==
  LET n == c.Nodes[i] IN
  IF n.ID = Nil THEN "INVALID_CONTRACT"
  ELSE IF \E j \in 1..(i - 1) : c.Nodes[j].ID = n.ID THEN "DUPLICATE"
  ELSE IF n.ToolProfile # Nil THEN "UNSUPPORTED_CAPABILITY"
  ELSE IF n.Pin \notin DOMAIN catalog.Tools THEN "TOOL_FUNCTION_UNRESOLVED"
  ELSE FirstError([j \in DOMAIN n.FixedParameters |->
                     ParameterError(n, catalog.Tools[n.Pin], j)])

CheckCardinality(port) == Unless(port.Cardinality = "SINGLE", "CARDINALITY_UNSUPPORTED")

CheckQ16(from, to) ==
  Unless(from.Format \notin UnknownFormats /\ from.Format = to.Format, "Q16_MISMATCH")

(* The input port a connection targets must exist. *)
TargetError(c, catalog, to) ==
  Unless(to.To \in NodeIDs(c) /\ to.In \in DOMAIN DeclOf(c, catalog.Tools, to.To).Inputs,
         "EDGE_INVALID")
InputOf(c, tools, to) == DeclOf(c, tools, to.To).Inputs[to.In]
OutputOf(c, tools, e) == DeclOf(c, tools, e.From).Outputs[e.Out]

(* The ports a provider and an input have must be single and fit. *)
PortsError(from, to) ==
  Else(CheckCardinality(from), Else(CheckCardinality(to), CheckQ16(from, to)))

EdgeError(c, catalog, i) ==
  LET e == c.DirectEdges[i] IN
  IF Repeats(c.DirectEdges, i) THEN "DUPLICATE"
  ELSE IF e.From \notin NodeIDs(c) \/ e.To \notin NodeIDs(c) THEN "EDGE_INVALID"
  ELSE IF e.Out \notin DOMAIN DeclOf(c, catalog.Tools, e.From).Outputs THEN "EDGE_INVALID"
  ELSE Else(TargetError(c, catalog, e),
            PortsError(OutputOf(c, catalog.Tools, e), InputOf(c, catalog.Tools, e)))

BindingError(c, catalog, i) ==
  LET b == c.AssetBindings[i] IN
  IF Repeats(c.AssetBindings, i) THEN "DUPLICATE"
  ELSE Else(TargetError(c, catalog, b),
       IF b.Asset \notin DOMAIN catalog.Assets THEN "ASSET_UNRESOLVED"
       ELSE PortsError(catalog.Assets[b.Asset], InputOf(c, catalog.Tools, b)))

SlotError(c, catalog, i) ==
  LET s == c.InputSlots[i] IN
  IF s.SlotID = Nil \/ \E j \in 1..(i - 1) : c.InputSlots[j].SlotID = s.SlotID THEN "SLOT_INVALID"
  ELSE Else(TargetError(c, catalog, s), CheckCardinality(InputOf(c, catalog.Tools, s)))

(* The connections of a list to one input, counted as they are met. *)
Providing(list, id, port) == Cardinality({i \in DOMAIN list : list[i].To = id /\ list[i].In = port})

(* Mutant: external input slots are not counted as providers. *)
ProvidersButSlots(c, id, port) ==
  Providing(c.DirectEdges, id, port) + Providing(c.AssetBindings, id, port)

Providers(c, id, port) ==
  Providing(c.DirectEdges, id, port) + Providing(c.AssetBindings, id, port)
    + Providing(c.InputSlots, id, port)

ProviderError(c, catalog) ==
  LET inputs == UNION {{<<id, port>> : port \in DOMAIN DeclOf(c, catalog.Tools, id).Inputs} :
                         id \in NodeIDs(c)}
      decl(in) == DeclOf(c, catalog.Tools, in[1]).Inputs[in[2]]
  IN  IF \E in \in inputs : decl(in).Cardinality = "SINGLE" /\ Providers(c, in[1], in[2]) > 1
        THEN "PROVIDER_CONFLICT"
      ELSE Unless(\A in \in inputs : decl(in).Required => Providers(c, in[1], in[2]) > 0,
                  "PROVIDER_MISSING")

(* Validate up to its cycle search. *)
ValidateError(c, catalog) ==
  Else(VersionError(c),
  Else(FirstError([i \in DOMAIN c.Nodes |-> NodeError(c, catalog, i)]),
  Else(FirstError([i \in DOMAIN c.DirectEdges |-> EdgeError(c, catalog, i)]),
  Else(FirstError([i \in DOMAIN c.AssetBindings |-> BindingError(c, catalog, i)]),
  Else(FirstError([i \in DOMAIN c.InputSlots |-> SlotError(c, catalog, i)]),
       ProviderError(c, catalog))))))

(* The graph detectCycle searches. *)
GraphOf(c) ==
  [id \in NodeIDs(c) |-> {e.To : e \in {d \in ToSet(c.DirectEdges) : d.From = id}}]

(***************************************************************************)
(* The canonical form sorts every list, so it is the bag of its elements   *)
(* (elements that sort alike but differ are Validate's duplicates); a node *)
(* is written without its reserved tool_profile_digest.                    *)
(***************************************************************************)
AsBag(list) == [x \in ToSet(list) |-> Cardinality({i \in DOMAIN list : list[i] = x})]

CanonicalNode(n) ==
  [ID |-> n.ID, Pin |-> n.Pin, FixedParameters |-> AsBag(n.FixedParameters)]

Canonicalize(c) ==
  [SemanticDerivationVersion |-> c.SemanticDerivationVersion,
   CanonicalizationVersion |-> c.CanonicalizationVersion,
   Nodes |-> AsBag([i \in DOMAIN c.Nodes |-> CanonicalNode(c.Nodes[i])]),
   DirectEdges |-> AsBag(c.DirectEdges), AssetBindings |-> AsBag(c.AssetBindings),
   InputSlots |-> AsBag(c.InputSlots)]

(* Mutant: the gate before the replay and convergence identity is missing. *)
AcceptReservedCapabilities(c) == ""

RejectReservedCapabilities(c) ==
  Unless(\A i \in DOMAIN c.Nodes : c.Nodes[i].ToolProfile = Nil, "UNSUPPORTED_CAPABILITY")

(* What a decoded committed body is: the canonical form has no reserved field. *)
Stored(c) ==
  [c EXCEPT !.Nodes = [i \in DOMAIN c.Nodes |-> [c.Nodes[i] EXCEPT !.ToolProfile = Nil]]]
=============================================================================

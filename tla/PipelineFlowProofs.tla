------------------------- MODULE PipelineFlowProofs -------------------------
(***************************************************************************)
(* What Commit and Lower decide, whatever is submitted and whatever the    *)
(* resolvers answer.  No pipeline with a cycle is committed or lowered:    *)
(* the checks before a search make its graph one whose edges join its      *)
(* nodes, the search of such a graph is right (CycleSearchProofs), and its *)
(* verdict is that of the call.  The sections of Validate, each in its order and   *)
(* with what it leaves to the next, let pass exactly the well formed       *)
(* contracts; the canonical form decides that too, but for the reserved    *)
(* field; and what Lower builds is what CheckSpec asks for.                *)
(***************************************************************************)
EXTENDS PipelineFlow, CycleSearchProofs, ParseProofs

(* What a step may not lose between the calls, and in one. *)
FlowInv ==
  /\ SearchInv
  /\ pc # "idle" => "Contract" \in DOMAIN submission /\ IsContract(body)
  /\ pc = "validating" => succ = GraphOf(body)
  /\ pc = "checking" => succ = SpecGraph(spec)
  /\ committed # Nil => GraphAcyclic(GraphOf(committed.Contract))
  /\ pc = "lowered" /\ code = "LOWERED" => GraphAcyclic(SpecGraph(spec))

(***************************************************************************)
(* Checks in their order.                                                  *)
(***************************************************************************)
(* A list of checks without an error has no check with one. *)
LEMMA FirstErrorNone ==
  ASSUME NEW errs, DOMAIN errs \subseteq Nat, FirstError(errs) = ""
  PROVE  \A i \in DOMAIN errs : errs[i] = ""
<1> DEFINE bad == {i \in DOMAIN errs : errs[i] # ""}
           first == CHOOSE i \in bad : \A j \in bad : i <= j
<1>1. FirstError(errs) = IF bad = {} THEN "" ELSE errs[first]
  BY DEF FirstError
<1>2. CASE bad # {}
  <2>1. first \in bad
    BY <1>2, Least
  <2> QED
    BY <2>1, <1>1, <1>2
<1>3. CASE bad = {}
  BY <1>3
<1> QED
  BY <1>2, <1>3

LEMMA ElseNone ==
  ASSUME NEW a, NEW b, Else(a, b) = ""
  PROVE  a = "" /\ b = ""
BY DEF Else

(* ... and the other way round. *)
LEMMA FirstErrorDecides ==
  ASSUME NEW errs, DOMAIN errs \subseteq Nat
  PROVE  FirstError(errs) = "" <=> \A i \in DOMAIN errs : errs[i] = ""
<1>1. ASSUME \A i \in DOMAIN errs : errs[i] = "" PROVE FirstError(errs) = ""
  BY <1>1 DEF FirstError
<1> QED
  BY <1>1, FirstErrorNone

(* Checks that only give one error give it if one of them does. *)
LEMMA FirstErrorAmong ==
  ASSUME NEW errs, DOMAIN errs \subseteq Nat, NEW err, err # "",
         \A i \in DOMAIN errs : errs[i] \in {"", err}
  PROVE  FirstError(errs) = IF \E i \in DOMAIN errs : errs[i] = err THEN err ELSE ""
<1> DEFINE bad == {i \in DOMAIN errs : errs[i] # ""}
           first == CHOOSE i \in bad : \A j \in bad : i <= j
<1>1. FirstError(errs) = IF bad = {} THEN "" ELSE errs[first]
  BY DEF FirstError
<1>2. bad # {} => first \in bad
  BY Least
<1>3. \A i \in bad : errs[i] = err
  OBVIOUS
<1> HIDE DEF first
<1>4. CASE \E i \in DOMAIN errs : errs[i] = err
  <2>1. bad # {}
    BY <1>4
  <2> QED
    BY <2>1, <1>1, <1>2, <1>3, <1>4
<1>5. CASE ~\E i \in DOMAIN errs : errs[i] = err
  <2>1. bad = {}
    BY <1>3, <1>5
  <2> QED
    BY <2>1, <1>1, <1>5
<1> QED
  BY <1>4, <1>5

LEMMA ElseDecides ==
  ASSUME NEW a, NEW b
  PROVE  Else(a, b) = "" <=> a = "" /\ b = ""
BY DEF Else

LEMMA UnlessDecides ==
  ASSUME NEW ok \in BOOLEAN, NEW err, err # ""
  PROVE  Unless(ok, err) = "" <=> ok
BY DEF Unless

(***************************************************************************)
(* Lists without repetition, counted.                                      *)
(***************************************************************************)

(* As many values as positions are as many different ones. *)
LEMMA CountsDistinct ==
  ASSUME NEW n \in Nat, NEW f, f = [i \in 1..n |-> f[i]]
  PROVE  /\ IsFiniteSet({f[i] : i \in 1..n})
         /\ Cardinality({f[i] : i \in 1..n}) = n <=>
              \A i, j \in 1..n : f[i] = f[j] => i = j
<1> DEFINE T == {f[i] : i \in 1..n}
<1>1. IsFiniteSet(1..n) /\ Cardinality(1..n) = n
  BY FS_Interval
<1>2. f \in Surjection(1..n, T)
  BY DEF Surjection
<1>3. f \in Injection(1..n, T) <=> \A i, j \in 1..n : f[i] = f[j] => i = j
  BY <1>2 DEF Injection, Surjection, IsInjective
<1> HIDE DEF T
<1>4. IsFiniteSet(T) /\ (Cardinality(T) = Cardinality(1..n) <=> f \in Injection(1..n, T))
  BY <1>1, <1>2, FS_Surjection
<1> QED
  BY <1>1, <1>3, <1>4 DEF T

(* No repetition of an earlier value is no repetition. *)
LEMMA NoEarlier ==
  ASSUME NEW n \in Nat, NEW f
  PROVE  (\A i \in 1..n : ~\E j \in 1..(i - 1) : f[j] = f[i]) <=>
           \A i, j \in 1..n : f[i] = f[j] => i = j
<1>1. ASSUME \A i \in 1..n : ~\E j \in 1..(i - 1) : f[j] = f[i],
             NEW i \in 1..n, NEW j \in 1..n, f[i] = f[j]
      PROVE  i = j
  <2>1. i < j => i \in 1..(j - 1)
    OBVIOUS
  <2>2. j < i => j \in 1..(i - 1)
    OBVIOUS
  <2> QED
    BY <1>1, <2>1, <2>2
<1>2. ASSUME \A i, j \in 1..n : f[i] = f[j] => i = j,
             NEW i \in 1..n, NEW j \in 1..(i - 1), f[j] = f[i]
      PROVE  FALSE
  <2>1. j \in 1..n /\ j # i
    OBVIOUS
  <2> QED
    BY <1>2, <2>1
<1> QED
  BY <1>1, <1>2

(* A list none of whose records has a field (or itself) in common with an
   earlier one has as many values of it as records.                        *)
LEMMA DistinctField ==
  ASSUME NEW list, IsList(list), NEW fld
  PROVE  /\ IsFiniteSet({x[fld] : x \in ToSet(list)})
         /\ Cardinality({x[fld] : x \in ToSet(list)}) = Len(list) <=>
              \A i, j \in DOMAIN list : list[i][fld] = list[j][fld] => i = j
         /\ Cardinality({x[fld] : x \in ToSet(list)}) = Len(list) <=>
              \A i \in DOMAIN list : ~\E j \in 1..(i - 1) : list[j][fld] = list[i][fld]
<1> DEFINE n == Len(list)
           f == [i \in 1..n |-> list[i][fld]]
<1>1. n \in Nat /\ DOMAIN list = 1..n
  BY DEF IsList
<1>2. {x[fld] : x \in ToSet(list)} = {f[i] : i \in 1..n}
  <2>1. {x[fld] : x \in ToSet(list)} = {list[i][fld] : i \in 1..n}
    BY <1>1, Zenon DEF ToSet
  <2>2. {list[i][fld] : i \in 1..n} = {f[i] : i \in 1..n}
    OBVIOUS
  <2> QED
    BY <2>1, <2>2
<1>3. /\ IsFiniteSet({f[i] : i \in 1..n})
      /\ Cardinality({f[i] : i \in 1..n}) = n <=> \A i, j \in 1..n : f[i] = f[j] => i = j
  <2>1. f = [i \in 1..n |-> f[i]]
    OBVIOUS
  <2> HIDE DEF f
  <2> QED
    BY <1>1, <2>1, CountsDistinct
<1>4. (\A i \in 1..n : ~\E j \in 1..(i - 1) : f[j] = f[i]) <=>
        \A i, j \in 1..n : f[i] = f[j] => i = j
  BY <1>1, NoEarlier
<1>5. \A i \in 1..n : f[i] = list[i][fld]
  OBVIOUS
<1>6. \A i \in 1..n : \A j \in 1..(i - 1) : j \in 1..n
  BY <1>1
<1> HIDE DEF f
<1> QED
  BY <1>1, <1>2, <1>3, <1>4, <1>5, <1>6

LEMMA DistinctSlots ==
  ASSUME NEW list, IsList(list)
  PROVE  Cardinality({s.SlotID : s \in ToSet(list)}) = Len(list) <=>
           \A i, j \in DOMAIN list : list[i].SlotID = list[j].SlotID => i = j
BY DistinctField

LEMMA DistinctList ==
  ASSUME NEW list, IsList(list)
  PROVE  /\ IsFiniteSet(ToSet(list))
         /\ Distinct(list) <=> \A i, j \in DOMAIN list : list[i] = list[j] => i = j
         /\ Distinct(list) <=> \A i \in DOMAIN list : ~Repeats(list, i)
<1> DEFINE n == Len(list)
<1>1. n \in Nat /\ DOMAIN list = 1..n /\ list = [i \in 1..n |-> list[i]]
  BY DEF IsList
<1>2. /\ IsFiniteSet({list[i] : i \in 1..n})
      /\ Cardinality({list[i] : i \in 1..n}) = n <=> \A i, j \in 1..n : list[i] = list[j] => i = j
  BY <1>1, CountsDistinct
<1>3. (\A i \in 1..n : ~\E j \in 1..(i - 1) : list[j] = list[i]) <=>
        \A i, j \in 1..n : list[i] = list[j] => i = j
  BY <1>1, NoEarlier
<1> QED
  BY <1>1, <1>2, <1>3 DEF Distinct, Repeats, ToSet

(***************************************************************************)
(* The lists of a contract stay lists.                                     *)
(***************************************************************************)
LEMMA SeqIsList ==
  ASSUME NEW S, NEW list \in Seq(S)
  PROVE  IsList(list)
BY SeqDef DEF IsList, ToSet

LEMMA ListShape ==
  ASSUME NEW list, IsList(list)
  PROVE  Len(list) \in Nat /\ DOMAIN list = 1..Len(list)
BY DEF IsList

LEMMA ListDomain ==
  ASSUME NEW list, IsList(list)
  PROVE  DOMAIN list \subseteq Nat
BY DEF IsList

LEMMA ContractDomains ==
  ASSUME NEW c, IsContract(c)
  PROVE  /\ DOMAIN c.Nodes \subseteq Nat /\ DOMAIN c.DirectEdges \subseteq Nat
         /\ DOMAIN c.AssetBindings \subseteq Nat /\ DOMAIN c.InputSlots \subseteq Nat
BY ListDomain DEF IsContract, IsRecords

(* A list made of the records of a list of records. *)
LEMMA MadeOfRecords ==
  ASSUME NEW list, NEW fields, IsRecords(list, fields), NEW other \in Seq(ToSet(list))
  PROVE  IsRecords(other, fields)
<1>1. IsList(other)
  BY SeqIsList
<1>2. ToSet(other) \subseteq ToSet(list)
  BY ElementOfSeq DEF ToSet
<1> QED
  BY <1>1, <1>2 DEF IsRecords

LEMMA ReverseIsRecords ==
  ASSUME NEW list, NEW fields, IsRecords(list, fields)
  PROVE  /\ IsRecords(Reverse(list), fields)
         /\ ToSet(Reverse(list)) \subseteq ToSet(list)
<1> DEFINE n == Len(list)
<1>1. list \in Seq(ToSet(list)) /\ n \in Nat
  BY DEF IsRecords, IsList
<1>2. \A i \in 1..n : list[n - i + 1] \in ToSet(list)
  BY <1>1, ElementOfSeq
<1>3. Reverse(list) \in Seq(ToSet(list))
  BY <1>1, <1>2, IsASeq DEF Reverse
<1> QED
  BY <1>3, MadeOfRecords, ElementOfSeq DEF ToSet

LEMMA EntryChangedIsRecords ==
  ASSUME NEW list, NEW fields, IsRecords(list, fields), list # <<>>,
         NEW x, x = [f \in fields |-> x[f]]
  PROVE  /\ IsRecords([list EXCEPT ![1] = x], fields)
         /\ ToSet([list EXCEPT ![1] = x]) \subseteq ToSet(list) \cup {x}
<1> DEFINE S == ToSet(list) \cup {x}
<1>1. list \in Seq(ToSet(list))
  BY DEF IsRecords, IsList
<1>2. list \in Seq(S) /\ 1 \in 1..Len(list)
  BY <1>1, SeqDef, EmptySeq
<1>3. [list EXCEPT ![1] = x] \in Seq(S)
  BY <1>2, ExceptSeq
<1>4. ToSet([list EXCEPT ![1] = x]) \subseteq S
  BY <1>3, ElementOfSeq DEF ToSet
<1>5. IsList([list EXCEPT ![1] = x])
  BY <1>3, SeqIsList
<1> QED
  BY <1>4, <1>5 DEF IsRecords

NodeFields == {"ID", "Pin", "ToolProfile", "FixedParameters"}

LEMMA AgainIsContract ==
  ASSUME NEW c, IsContract(c), NEW d \in Again(c)
  PROVE  IsContract(d)
<1> DEFINE edges == c.DirectEdges
           nodes == c.Nodes
           slots == c.InputSlots
           OthersKept == d.AssetBindings = c.AssetBindings /\ DOMAIN d = DOMAIN c
<1>1. {"SemanticDerivationVersion", "CanonicalizationVersion", "Nodes", "DirectEdges",
       "AssetBindings", "InputSlots"} \subseteq DOMAIN c
  BY DEF IsContract
<1>2. IsRecords(edges, {"From", "Out", "To", "In"}) /\ edges \in Seq(ToSet(edges))
  BY DEF IsContract, IsRecords, IsList
<1>3. IsRecords(nodes, NodeFields) /\ nodes \in Seq(ToSet(nodes))
  BY DEF IsContract, IsRecords, IsList, NodeFields
<1>4. \A n \in ToSet(nodes) : IsRecords(n.FixedParameters, {"Name", "Value"})
  BY DEF IsContract
<1>5. ASSUME OthersKept,
             IsRecords(d.Nodes, NodeFields),
             \A n \in ToSet(d.Nodes) : IsRecords(n.FixedParameters, {"Name", "Value"}),
             IsRecords(d.DirectEdges, {"From", "Out", "To", "In"}),
             IsRecords(d.InputSlots, {"SlotID", "To", "In"})
      PROVE  IsContract(d)
  BY <1>5, <1>1 DEF IsContract, NodeFields
<1>6. CASE d = [c EXCEPT !.Nodes = Reverse(@), !.DirectEdges = Reverse(@), !.InputSlots = Reverse(@)]
  <2>1. /\ OthersKept
        /\ d.DirectEdges = Reverse(edges) /\ d.Nodes = Reverse(nodes) /\ d.InputSlots = Reverse(slots)
    BY <1>1, <1>6
  <2>2. ToSet(Reverse(nodes)) \subseteq ToSet(nodes)
    BY <1>3, ReverseIsRecords
  <2>3. IsRecords(Reverse(slots), {"SlotID", "To", "In"})
    BY ReverseIsRecords DEF IsContract
  <2> QED
    BY <2>1, <2>2, <2>3, <1>2, <1>3, <1>4, <1>5, ReverseIsRecords
<1>7. CASE nodes # <<>> /\ d = [c EXCEPT !.Nodes[1].ToolProfile = "profile"]
  <2> DEFINE x == [nodes[1] EXCEPT !.ToolProfile = "profile"]
  <2>1. OthersKept /\ d.DirectEdges = edges /\ d.Nodes = [nodes EXCEPT ![1] = x] /\ d.InputSlots = slots
    BY <1>1, <1>7
  <2>2. nodes[1] \in ToSet(nodes)
    BY <1>3, <1>7, SeqDef, EmptySeq DEF ToSet
  <2>3. nodes[1] = [f \in NodeFields |-> nodes[1][f]]
    BY <2>2, <1>3 DEF IsRecords
  <2>4. x = [f \in NodeFields |-> x[f]] /\ x.FixedParameters = nodes[1].FixedParameters
    BY <2>3 DEF NodeFields
  <2> HIDE DEF x
  <2>5. /\ IsRecords([nodes EXCEPT ![1] = x], NodeFields)
        /\ ToSet([nodes EXCEPT ![1] = x]) \subseteq ToSet(nodes) \cup {x}
    BY <1>3, <1>7, <2>4, EntryChangedIsRecords
  <2>6. \A n \in ToSet(d.Nodes) : IsRecords(n.FixedParameters, {"Name", "Value"})
    BY <2>1, <2>2, <2>4, <2>5, <1>4
  <2>7. IsRecords(slots, {"SlotID", "To", "In"})
    BY DEF IsContract
  <2> QED
    BY <2>1, <2>5, <2>6, <2>7, <1>2, <1>5
<1>8. ASSUME NEW es \in Seq(ToSet(edges)), d = [c EXCEPT !.DirectEdges = es] PROVE IsContract(d)
  <2>1. OthersKept /\ d.DirectEdges = es /\ d.Nodes = nodes /\ d.InputSlots = slots
    BY <1>1, <1>8
  <2>2. IsRecords(es, {"From", "Out", "To", "In"})
    BY <1>2, MadeOfRecords
  <2>3. IsRecords(slots, {"SlotID", "To", "In"})
    BY DEF IsContract
  <2> QED
    BY <2>1, <2>2, <2>3, <1>3, <1>4, <1>5
<1>9. CASE edges # <<>> /\ d = [c EXCEPT !.DirectEdges = Append(@, Head(@))]
  <2>1. Append(edges, Head(edges)) \in Seq(ToSet(edges))
    BY <1>2, <1>9, HeadTailProperties, AppendProperties
  <2>2. d = [c EXCEPT !.DirectEdges = Append(edges, Head(edges))]
    BY <1>9
  <2> QED
    BY <2>1, <2>2, <1>8
<1>10. CASE edges # <<>> /\ d = [c EXCEPT !.DirectEdges = Tail(@)]
  <2>1. Tail(edges) \in Seq(ToSet(edges))
    BY <1>2, <1>10, HeadTailProperties
  <2>2. d = [c EXCEPT !.DirectEdges = Tail(edges)]
    BY <1>10
  <2> QED
    BY <2>1, <2>2, <1>8
<1> QED
  BY <1>6, <1>7, <1>9, <1>10 DEF Again

LEMMA StoredIsContract ==
  ASSUME NEW c, IsContract(c)
  PROVE  /\ IsContract(Stored(c))
         /\ DOMAIN Stored(c) = DOMAIN c
         /\ Stored(c).Nodes = [i \in DOMAIN c.Nodes |-> [c.Nodes[i] EXCEPT !.ToolProfile = Nil]]
         /\ \A f \in DOMAIN c : f # "Nodes" => Stored(c)[f] = c[f]
<1> DEFINE g == [i \in DOMAIN c.Nodes |-> [c.Nodes[i] EXCEPT !.ToolProfile = Nil]]
<1>1. /\ c.Nodes \in Seq(ToSet(c.Nodes))
      /\ {"SemanticDerivationVersion", "CanonicalizationVersion", "Nodes", "DirectEdges",
          "AssetBindings", "InputSlots"} \subseteq DOMAIN c
  BY DEF IsContract, IsRecords, IsList
<1>2. DOMAIN c.Nodes = 1..Len(c.Nodes) /\ Len(c.Nodes) \in Nat
  BY <1>1
<1>3. g \in Seq(ToSet(g))
  <2>1. g \in [1..Len(c.Nodes) -> ToSet(g)]
    BY <1>2 DEF ToSet
  <2> QED
    BY <2>1, <1>2, SeqDef
<1>4. \A x \in ToSet(g) : /\ x = [f \in NodeFields |-> x[f]]
                        /\ IsRecords(x.FixedParameters, {"Name", "Value"})
  <2> SUFFICES ASSUME NEW i \in DOMAIN c.Nodes
               PROVE  /\ g[i] = [f \in NodeFields |-> g[i][f]]
                      /\ IsRecords(g[i].FixedParameters, {"Name", "Value"})
    BY DEF ToSet
  <2> DEFINE n == c.Nodes[i]
  <2>1. n \in ToSet(c.Nodes)
    BY DEF ToSet
  <2>2. n = [f \in NodeFields |-> n[f]] /\ IsRecords(n.FixedParameters, {"Name", "Value"})
    BY <2>1 DEF IsContract, IsRecords, NodeFields
  <2>3. g[i] = [n EXCEPT !.ToolProfile = Nil]
    OBVIOUS
  <2> HIDE DEF n, g
  <2> QED
    BY <2>2, <2>3 DEF NodeFields
<1>5. /\ DOMAIN Stored(c) = DOMAIN c /\ Stored(c).Nodes = g
      /\ \A f \in DOMAIN c : f # "Nodes" => Stored(c)[f] = c[f]
  BY <1>1 DEF Stored
<1> HIDE DEF g
<1>6. IsRecords(Stored(c).Nodes, NodeFields)
  BY <1>3, <1>4, <1>5 DEF IsRecords, IsList
<1>7. \A x \in ToSet(Stored(c).Nodes) : IsRecords(x.FixedParameters, {"Name", "Value"})
  BY <1>4, <1>5
<1>8. /\ Stored(c).DirectEdges = c.DirectEdges /\ Stored(c).AssetBindings = c.AssetBindings
      /\ Stored(c).InputSlots = c.InputSlots
  BY <1>1, <1>5
<1>9. IsContract(Stored(c))
  BY <1>1, <1>5, <1>6, <1>7, <1>8 DEF IsContract, NodeFields
<1> QED
  BY <1>5, <1>9 DEF g

LEMMA HandedIsContract ==
  ASSUME IsContract(body), NEW rev \in Handed
  PROVE  IsContract(rev.Contract)
<1> DEFINE R == RevisionOf(body)
<1>1. DOMAIN R = {"Contract", "CanonicalBody", "Digest"} /\ R.Contract = Stored(body)
  BY DEF RevisionOf
<1>2. IsContract(Stored(body))
  BY StoredIsContract
<1>3. CASE rev = R
  BY <1>1, <1>2, <1>3
<1>4. CASE rev = [R EXCEPT !.Contract = body]
  <2>1. rev.Contract = body
    BY <1>1, <1>4
  <2> QED
    BY <2>1
<1>5. CASE rev = [R EXCEPT !.CanonicalBody.DirectEdges = <<>>]
  <2>1. rev.Contract = Stored(body)
    BY <1>1, <1>5
  <2> QED
    BY <2>1, <1>2
<1> QED
  BY <1>3, <1>4, <1>5 DEF Handed

(***************************************************************************)
(* The sections of Validate, each by what it says of the whole contract.   *)
(***************************************************************************)
LEMMA VersionDecides ==
  ASSUME NEW c
  PROVE  VersionError(c) = "" <=> /\ c.CanonicalizationVersion = ContractVersionV1
                                  /\ c.SemanticDerivationVersion = ContractVersionV1
BY DEF VersionError, Unless

LEMMA ParametersDecide ==
  ASSUME NEW n, IsList(n.FixedParameters), NEW decl
  PROVE  FirstError([j \in DOMAIN n.FixedParameters |-> ParameterError(n, decl, j)]) = "" <=>
           /\ Cardinality({p.Name : p \in ToSet(n.FixedParameters)}) = Len(n.FixedParameters)
           /\ \A p \in ToSet(n.FixedParameters) :
                p.Name \in DOMAIN decl.Parameters /\ ParameterValueValid(decl.Parameters[p.Name], p.Value)
<1> DEFINE list == n.FixedParameters
           errs == [j \in DOMAIN list |-> ParameterError(n, decl, j)]
           Fits(p) == /\ p.Name \in DOMAIN decl.Parameters
                      /\ ParameterValueValid(decl.Parameters[p.Name], p.Value)
           Again1(j) == \E k \in 1..(j - 1) : list[k].Name = list[j].Name
<1>1. FirstError(errs) = "" <=> \A j \in DOMAIN errs : errs[j] = ""
  <2>1. DOMAIN errs \subseteq Nat
    BY ListDomain
  <2> HIDE DEF errs
  <2> QED
    BY <2>1, FirstErrorDecides
<1>2. \A j \in DOMAIN list : errs[j] = ParameterError(n, decl, j)
  OBVIOUS
<1>3. ASSUME NEW j PROVE ParameterError(n, decl, j) = "" <=> ~Again1(j) /\ Fits(list[j])
  BY DEF ParameterError, Unless
<1>4. Cardinality({p.Name : p \in ToSet(list)}) = Len(list) <=> \A j \in DOMAIN list : ~Again1(j)
  BY DistinctField
<1>5. (\A p \in ToSet(list) : Fits(p)) <=> \A j \in DOMAIN list : Fits(list[j])
  BY DEF ToSet
<1>6. DOMAIN errs = DOMAIN list
  OBVIOUS
<1>7. FirstError(errs) = "" <=> \A j \in DOMAIN list : ~Again1(j) /\ Fits(list[j])
  <2> HIDE DEF errs, Again1, Fits
  <2> QED
    BY <1>1, <1>2, <1>3, <1>6
<1> HIDE DEF Again1, Fits
<1>8. FirstError(errs) = "" <=> /\ Cardinality({p.Name : p \in ToSet(list)}) = Len(list)
                               /\ \A p \in ToSet(list) : Fits(p)
  <2> HIDE DEF errs, list
  <2> QED
    BY <1>4, <1>5, <1>7
<1> QED
  BY <1>8 DEF Fits

LEMMA NodesDecide ==
  ASSUME NEW c, IsContract(c), NEW cat
  PROVE  FirstError([i \in DOMAIN c.Nodes |-> NodeError(c, cat, i)]) = "" <=> NodesFit(c, cat)
<1> DEFINE list == c.Nodes
           errs == [i \in DOMAIN list |-> NodeError(c, cat, i)]
           Again1(i) == \E k \in 1..(i - 1) : list[k].ID = list[i].ID
           Params(n) == FirstError([j \in DOMAIN n.FixedParameters |->
                                      ParameterError(n, cat.Tools[n.Pin], j)])
           Fits(n) == /\ n.ToolProfile = Nil /\ n.Pin \in DOMAIN cat.Tools
                      /\ Cardinality({p.Name : p \in ToSet(n.FixedParameters)}) = Len(n.FixedParameters)
                      /\ \A p \in ToSet(n.FixedParameters) :
                           LET declared == cat.Tools[n.Pin].Parameters IN
                           p.Name \in DOMAIN declared /\ ParameterValueValid(declared[p.Name], p.Value)
<1>1. FirstError(errs) = "" <=> \A i \in DOMAIN errs : errs[i] = ""
  <2>1. DOMAIN errs \subseteq Nat
    BY ContractDomains
  <2> HIDE DEF errs
  <2> QED
    BY <2>1, FirstErrorDecides
<1>2. DOMAIN errs = DOMAIN list /\ \A i \in DOMAIN list : errs[i] = NodeError(c, cat, i)
  OBVIOUS
<1>3. \A i \in DOMAIN list : NodeError(c, cat, i) = "" <=>
        list[i].ID # Nil /\ ~Again1(i) /\ Fits(list[i])
  <2> SUFFICES ASSUME NEW i \in DOMAIN list
               PROVE  NodeError(c, cat, i) = "" <=> list[i].ID # Nil /\ ~Again1(i) /\ Fits(list[i])
    OBVIOUS
  <2> DEFINE n == list[i]
  <2>1. IsList(n.FixedParameters)
    BY DEF IsContract, IsRecords, ToSet
  <2>2. Params(n) = "" <=>
          /\ Cardinality({p.Name : p \in ToSet(n.FixedParameters)}) = Len(n.FixedParameters)
          /\ \A p \in ToSet(n.FixedParameters) :
               /\ p.Name \in DOMAIN cat.Tools[n.Pin].Parameters
               /\ ParameterValueValid(cat.Tools[n.Pin].Parameters[p.Name], p.Value)
    BY <2>1, ParametersDecide
  <2>3. NodeError(c, cat, i) =
          IF n.ID = Nil THEN "INVALID_CONTRACT"
          ELSE IF Again1(i) THEN "DUPLICATE"
          ELSE IF n.ToolProfile # Nil THEN "UNSUPPORTED_CAPABILITY"
          ELSE IF n.Pin \notin DOMAIN cat.Tools THEN "TOOL_FUNCTION_UNRESOLVED" ELSE Params(n)
    BY DEF NodeError
  <2> HIDE DEF Params, Again1, n, list
  <2> QED
    BY <2>2, <2>3 DEF n
<1>4. IsList(list)
  BY DEF IsContract, IsRecords
<1>5. Cardinality({n.ID : n \in ToSet(list)}) = Len(list) <=> \A i \in DOMAIN list : ~Again1(i)
  BY <1>4, DistinctField
<1>6. NodeIDs(c) = {n.ID : n \in ToSet(list)}
  BY DEF NodeIDs, ToSet
<1>7. /\ Nil \notin NodeIDs(c) <=> \A i \in DOMAIN list : list[i].ID # Nil
      /\ (\A n \in ToSet(list) : Fits(n)) <=> \A i \in DOMAIN list : Fits(list[i])
  <2> HIDE DEF Fits
  <2> QED
    BY DEF NodeIDs, ToSet
<1>8. NodesFit(c, cat) <=> /\ Cardinality(NodeIDs(c)) = Len(list) /\ Nil \notin NodeIDs(c)
                           /\ \A n \in ToSet(list) : Fits(n)
  BY DEF NodesFit
<1>9. FirstError(errs) = "" <=> \A i \in DOMAIN list : list[i].ID # Nil /\ ~Again1(i) /\ Fits(list[i])
  <2> HIDE DEF errs, Again1, Fits
  <2> QED
    BY <1>1, <1>2, <1>3
<1> HIDE DEF errs, Again1, Fits, list
<1>10. FirstError(errs) = "" <=> NodesFit(c, cat)
  BY <1>5, <1>6, <1>7, <1>8, <1>9
<1> QED
  BY <1>10 DEF errs, list

LEMMA InputPortsOfNodes ==
  ASSUME NEW c, NEW cat
  PROVE  /\ \A in \in InputPorts(c, cat) : in = <<in[1], in[2]>> /\ in[1] \in NodeIDs(c)
         /\ \A x : <<x.To, x.In>> \in InputPorts(c, cat) => x.To \in NodeIDs(c)
BY DEF InputPorts

LEMMA TargetDecides ==
  ASSUME NEW c, NEW cat, NEW x
  PROVE  TargetError(c, cat, x) = "" <=> <<x.To, x.In>> \in InputPorts(c, cat)
<1>1. <<x.To, x.In>> \in InputPorts(c, cat) <=>
        x.To \in NodeIDs(c) /\ x.In \in DOMAIN DeclOf(c, cat.Tools, x.To).Inputs
  BY DEF InputPorts
<1> QED
  BY <1>1 DEF TargetError, Unless

LEMMA PortsDecide ==
  ASSUME NEW from, NEW to
  PROVE  PortsError(from, to) = "" <=> Ports(from, to) /\ to.Cardinality = "SINGLE"
BY DEF PortsError, Ports, CheckCardinality, CheckQ16, Else, Unless

(* What a connection must be, beside its list. *)
TargetFits(c, cat, x) ==
  <<x.To, x.In>> \in InputPorts(c, cat) /\ InputOf(c, cat.Tools, x).Cardinality = "SINGLE"

EdgeFits(c, cat, e) ==
  /\ TargetFits(c, cat, e)
  /\ e.From \in NodeIDs(c) /\ e.Out \in DOMAIN DeclOf(c, cat.Tools, e.From).Outputs
  /\ Ports(OutputOf(c, cat.Tools, e), InputOf(c, cat.Tools, e))

BindingFits(c, cat, b) ==
  /\ TargetFits(c, cat, b)
  /\ b.Asset \in DOMAIN cat.Assets /\ Ports(cat.Assets[b.Asset], InputOf(c, cat.Tools, b))

SlotFits(c, cat, s) == TargetFits(c, cat, s) /\ s.SlotID # Nil

LEMMA EdgesDecide ==
  ASSUME NEW c, IsContract(c), NEW cat
  PROVE  FirstError([i \in DOMAIN c.DirectEdges |-> EdgeError(c, cat, i)]) = "" <=>
           Distinct(c.DirectEdges) /\ \A x \in ToSet(c.DirectEdges) : EdgeFits(c, cat, x)
<1> DEFINE list == c.DirectEdges
           errs == [i \in DOMAIN list |-> EdgeError(c, cat, i)]
<1>1. FirstError(errs) = "" <=> \A i \in DOMAIN errs : errs[i] = ""
  <2>1. DOMAIN errs \subseteq Nat
    BY ContractDomains
  <2> HIDE DEF errs
  <2> QED
    BY <2>1, FirstErrorDecides
<1>2. DOMAIN errs = DOMAIN list /\ \A i \in DOMAIN list : errs[i] = EdgeError(c, cat, i)
  OBVIOUS
<1>3. \A i \in DOMAIN list : EdgeError(c, cat, i) = "" <=> ~Repeats(list, i) /\ EdgeFits(c, cat, list[i])
  <2> SUFFICES ASSUME NEW i \in DOMAIN list
               PROVE  EdgeError(c, cat, i) = "" <=> ~Repeats(list, i) /\ EdgeFits(c, cat, list[i])
    OBVIOUS
  <2> DEFINE e == list[i]
             target == TargetError(c, cat, e)
             ports == PortsError(OutputOf(c, cat.Tools, e), InputOf(c, cat.Tools, e))
  <2>1. EdgeError(c, cat, i) =
          IF Repeats(list, i) THEN "DUPLICATE"
          ELSE IF e.From \notin NodeIDs(c) \/ e.To \notin NodeIDs(c) THEN "EDGE_INVALID"
          ELSE IF e.Out \notin DOMAIN DeclOf(c, cat.Tools, e.From).Outputs THEN "EDGE_INVALID"
          ELSE Else(target, ports)
    BY DEF EdgeError
  <2>2. target = "" <=> <<e.To, e.In>> \in InputPorts(c, cat)
    BY TargetDecides
  <2>3. ports = "" <=> Ports(OutputOf(c, cat.Tools, e), InputOf(c, cat.Tools, e))
                        /\ InputOf(c, cat.Tools, e).Cardinality = "SINGLE"
    BY PortsDecide
  <2>4. Else(target, ports) = "" <=> target = "" /\ ports = ""
    BY ElseDecides
  <2>5. <<e.To, e.In>> \in InputPorts(c, cat) => e.To \in NodeIDs(c)
    BY DEF InputPorts
  <2> HIDE DEF target, ports, e, list
  <2> QED
    BY <2>1, <2>2, <2>3, <2>4, <2>5 DEF EdgeFits, TargetFits, e
<1>4. IsList(list)
  BY DEF IsContract, IsRecords
<1>5. Distinct(list) <=> \A i \in DOMAIN list : ~Repeats(list, i)
  BY <1>4, DistinctList
<1>6. (\A x \in ToSet(list) : EdgeFits(c, cat, x)) <=> \A i \in DOMAIN list : EdgeFits(c, cat, list[i])
  BY Zenon DEF ToSet
<1>7. FirstError(errs) = "" <=> Distinct(list) /\ \A x \in ToSet(list) : EdgeFits(c, cat, x)
  <2> HIDE DEF errs, list
  <2> QED
    BY <1>1, <1>2, <1>3, <1>5, <1>6
<1> QED
  BY <1>7

LEMMA BindingsDecide ==
  ASSUME NEW c, IsContract(c), NEW cat
  PROVE  FirstError([i \in DOMAIN c.AssetBindings |-> BindingError(c, cat, i)]) = "" <=>
           Distinct(c.AssetBindings) /\ \A x \in ToSet(c.AssetBindings) : BindingFits(c, cat, x)
<1> DEFINE list == c.AssetBindings
           errs == [i \in DOMAIN list |-> BindingError(c, cat, i)]
<1>1. FirstError(errs) = "" <=> \A i \in DOMAIN errs : errs[i] = ""
  <2>1. DOMAIN errs \subseteq Nat
    BY ContractDomains
  <2> HIDE DEF errs
  <2> QED
    BY <2>1, FirstErrorDecides
<1>2. DOMAIN errs = DOMAIN list /\ \A i \in DOMAIN list : errs[i] = BindingError(c, cat, i)
  OBVIOUS
<1>3. \A i \in DOMAIN list :
        BindingError(c, cat, i) = "" <=> ~Repeats(list, i) /\ BindingFits(c, cat, list[i])
  <2> SUFFICES ASSUME NEW i \in DOMAIN list
               PROVE  BindingError(c, cat, i) = "" <=> ~Repeats(list, i) /\ BindingFits(c, cat, list[i])
    OBVIOUS
  <2> DEFINE b == list[i]
             target == TargetError(c, cat, b)
             ports == PortsError(cat.Assets[b.Asset], InputOf(c, cat.Tools, b))
             asset == IF b.Asset \notin DOMAIN cat.Assets THEN "ASSET_UNRESOLVED" ELSE ports
  <2>1. BindingError(c, cat, i) = IF Repeats(list, i) THEN "DUPLICATE" ELSE Else(target, asset)
    BY DEF BindingError
  <2>2. target = "" <=> <<b.To, b.In>> \in InputPorts(c, cat)
    BY TargetDecides
  <2>3. ports = "" <=> Ports(cat.Assets[b.Asset], InputOf(c, cat.Tools, b))
                        /\ InputOf(c, cat.Tools, b).Cardinality = "SINGLE"
    BY PortsDecide
  <2>4. asset = "" <=> b.Asset \in DOMAIN cat.Assets /\ ports = ""
    OBVIOUS
  <2>5. Else(target, asset) = "" <=> target = "" /\ asset = ""
    BY ElseDecides
  <2> HIDE DEF target, ports, asset, b, list
  <2> QED
    BY <2>1, <2>2, <2>3, <2>4, <2>5 DEF BindingFits, TargetFits, b
<1>4. IsList(list)
  BY DEF IsContract, IsRecords
<1>5. Distinct(list) <=> \A i \in DOMAIN list : ~Repeats(list, i)
  BY <1>4, DistinctList
<1>6. (\A x \in ToSet(list) : BindingFits(c, cat, x)) <=> \A i \in DOMAIN list : BindingFits(c, cat, list[i])
  BY Zenon DEF ToSet
<1>7. FirstError(errs) = "" <=> Distinct(list) /\ \A x \in ToSet(list) : BindingFits(c, cat, x)
  <2> HIDE DEF errs, list
  <2> QED
    BY <1>1, <1>2, <1>3, <1>5, <1>6
<1> QED
  BY <1>7

LEMMA SlotsDecide ==
  ASSUME NEW c, IsContract(c), NEW cat
  PROVE  FirstError([i \in DOMAIN c.InputSlots |-> SlotError(c, cat, i)]) = "" <=>
           /\ Cardinality({s.SlotID : s \in ToSet(c.InputSlots)}) = Len(c.InputSlots)
           /\ \A x \in ToSet(c.InputSlots) : SlotFits(c, cat, x)
<1> DEFINE list == c.InputSlots
           errs == [i \in DOMAIN list |-> SlotError(c, cat, i)]
<1>1. FirstError(errs) = "" <=> \A i \in DOMAIN errs : errs[i] = ""
  <2>1. DOMAIN errs \subseteq Nat
    BY ContractDomains
  <2> HIDE DEF errs
  <2> QED
    BY <2>1, FirstErrorDecides
<1>2. DOMAIN errs = DOMAIN list /\ \A i \in DOMAIN list : errs[i] = SlotError(c, cat, i)
  OBVIOUS
<1>3. \A i \in DOMAIN list :
        SlotError(c, cat, i) = "" <=>
          (~\E j \in 1..(i - 1) : list[j].SlotID = list[i].SlotID) /\ SlotFits(c, cat, list[i])
  <2> SUFFICES ASSUME NEW i \in DOMAIN list
               PROVE  SlotError(c, cat, i) = "" <=>
                        (~\E j \in 1..(i - 1) : list[j].SlotID = list[i].SlotID) /\ SlotFits(c, cat, list[i])
    OBVIOUS
  <2> DEFINE s == list[i]
             target == TargetError(c, cat, s)
             single == CheckCardinality(InputOf(c, cat.Tools, s))
             Again1 == \E j \in 1..(i - 1) : list[j].SlotID = s.SlotID
  <2>1. SlotError(c, cat, i) = IF s.SlotID = Nil \/ Again1 THEN "SLOT_INVALID" ELSE Else(target, single)
    BY DEF SlotError
  <2>2. target = "" <=> <<s.To, s.In>> \in InputPorts(c, cat)
    BY TargetDecides
  <2>3. single = "" <=> InputOf(c, cat.Tools, s).Cardinality = "SINGLE"
    BY DEF CheckCardinality, Unless
  <2>4. Else(target, single) = "" <=> target = "" /\ single = ""
    BY ElseDecides
  <2>5. SlotFits(c, cat, s) <=> target = "" /\ single = "" /\ s.SlotID # Nil
    BY <2>2, <2>3 DEF SlotFits, TargetFits
  <2> HIDE DEF target, single
  <2> QED
    BY <2>1, <2>4, <2>5
<1>4. IsList(list)
  BY DEF IsContract, IsRecords
<1>5. (Cardinality({s.SlotID : s \in ToSet(list)}) = Len(list)) <=>
        \A i \in DOMAIN list : (~\E j \in 1..(i - 1) : list[j].SlotID = list[i].SlotID)
  BY <1>4, DistinctField
<1>6. (\A x \in ToSet(list) : SlotFits(c, cat, x)) <=> \A i \in DOMAIN list : SlotFits(c, cat, list[i])
  BY Zenon DEF ToSet
<1>7. FirstError(errs) = "" <=>
        /\ Cardinality({s.SlotID : s \in ToSet(list)}) = Len(list)
        /\ \A x \in ToSet(list) : SlotFits(c, cat, x)
  <2> HIDE DEF errs, list
  <2> QED
    BY <1>1, <1>2, <1>3, <1>5, <1>6
<1> QED
  BY <1>7

(* The providers of an input, counted list by list, are its connections: a
   list repeats none, and no connection is of two kinds.                   *)
Into(list, id, port) == {x \in ToSet(list) : x.To = id /\ x.In = port}

LEMMA ProvidingCounts ==
  ASSUME NEW list, IsList(list), \A i, j \in DOMAIN list : list[i] = list[j] => i = j,
         NEW id, NEW port
  PROVE  /\ IsFiniteSet(Into(list, id, port))
         /\ Providing(list, id, port) = Cardinality(Into(list, id, port))
<1> DEFINE I == {i \in DOMAIN list : list[i].To = id /\ list[i].In = port}
           T == {x \in ToSet(list) : x.To = id /\ x.In = port}
           f == [i \in I |-> list[i]]
<1>1. IsFiniteSet(I)
  <2>1. DOMAIN list = 1..Len(list) /\ Len(list) \in Nat
    BY DEF IsList
  <2>2. I \in SUBSET (1..Len(list)) /\ IsFiniteSet(1..Len(list))
    BY <2>1, FS_Interval
  <2> QED
    BY <2>2, FS_Subset
<1>2. f \in [I -> T]
  BY DEF ToSet
<1>3. \A x \in T : \E i \in I : f[i] = x
  BY DEF ToSet
<1>4. \A i, j \in I : f[i] = f[j] => i = j
  OBVIOUS
<1> HIDE DEF f, T, I
<1>5. f \in Surjection(I, T) /\ f \in Injection(I, T)
  BY <1>2, <1>3, <1>4 DEF Surjection, Injection, IsInjective
<1>6. IsFiniteSet(T) /\ Cardinality(T) = Cardinality(I)
  BY <1>1, <1>5, FS_Surjection
<1> QED
  BY <1>6 DEF T, I, Providing, Into

Given(c, in) == {x \in Connections(c) : <<x.To, x.In>> = in}

LEMMA ProvidersCount ==
  ASSUME NEW c, IsContract(c), Distinct(c.DirectEdges), Distinct(c.AssetBindings),
         Cardinality({s.SlotID : s \in ToSet(c.InputSlots)}) = Len(c.InputSlots),
         NEW id, NEW port
  PROVE  /\ IsFiniteSet(Given(c, <<id, port>>))
         /\ Providers(c, id, port) = Cardinality(Given(c, <<id, port>>))
<1> DEFINE E == Into(c.DirectEdges, id, port)
           B == Into(c.AssetBindings, id, port)
           S == Into(c.InputSlots, id, port)
<1>1. IsList(c.DirectEdges) /\ IsList(c.AssetBindings) /\ IsList(c.InputSlots)
  BY DEF IsContract, IsRecords
<1>2. IsFiniteSet(E) /\ Providing(c.DirectEdges, id, port) = Cardinality(E)
  <2>1. \A i, j \in DOMAIN c.DirectEdges : c.DirectEdges[i] = c.DirectEdges[j] => i = j
    BY <1>1, DistinctList
  <2> QED
    BY ProvidingCounts, <1>1, <2>1
<1>3. IsFiniteSet(B) /\ Providing(c.AssetBindings, id, port) = Cardinality(B)
  <2>1. \A i, j \in DOMAIN c.AssetBindings : c.AssetBindings[i] = c.AssetBindings[j] => i = j
    BY <1>1, DistinctList
  <2> QED
    BY ProvidingCounts, <1>1, <2>1
<1>4. IsFiniteSet(S) /\ Providing(c.InputSlots, id, port) = Cardinality(S)
  <2>1. \A i, j \in DOMAIN c.InputSlots : c.InputSlots[i].SlotID = c.InputSlots[j].SlotID => i = j
    BY <1>1, DistinctField
  <2>2. \A i, j \in DOMAIN c.InputSlots : c.InputSlots[i] = c.InputSlots[j] => i = j
    BY <2>1
  <2> QED
    BY ProvidingCounts, <1>1, <2>2
<1>5. Given(c, <<id, port>>) = (E \cup B) \cup S
  BY DEF Given, Connections, Into
<1>6. E \cap B = {} /\ (E \cup B) \cap S = {}
  <2>1. /\ \A x \in E : DOMAIN x = {"From", "Out", "To", "In"}
        /\ \A x \in B : DOMAIN x = {"To", "In", "Asset"}
        /\ \A x \in S : DOMAIN x = {"SlotID", "To", "In"}
    <3>1. \A x \in ToSet(c.DirectEdges) : x = [f \in {"From", "Out", "To", "In"} |-> x[f]]
      BY DEF IsContract, IsRecords
    <3>2. \A x \in ToSet(c.AssetBindings) : x = [f \in {"To", "In", "Asset"} |-> x[f]]
      BY DEF IsContract, IsRecords
    <3>3. \A x \in ToSet(c.InputSlots) : x = [f \in {"SlotID", "To", "In"} |-> x[f]]
      BY DEF IsContract, IsRecords
    <3>4. ASSUME NEW x, NEW F, x = [f \in F |-> x[f]] PROVE DOMAIN x = F
      BY <3>4
    <3> QED
      BY <3>1, <3>2, <3>3, <3>4 DEF Into
  <2> HIDE DEF E, B, S
  <2> QED
    BY <2>1
<1> HIDE DEF E, B, S
<1>7. /\ IsFiniteSet(E \cup B)
      /\ Cardinality(E \cup B) = Cardinality(E) + Cardinality(B) - Cardinality(E \cap B)
  BY <1>2, <1>3, FS_Union
<1>8. /\ IsFiniteSet((E \cup B) \cup S)
      /\ Cardinality((E \cup B) \cup S) =
           Cardinality(E \cup B) + Cardinality(S) - Cardinality((E \cup B) \cap S)
  BY <1>4, <1>7, FS_Union
<1>9. Cardinality({}) = 0
  BY FS_EmptySet
<1>10. Cardinality(E) \in Nat /\ Cardinality(B) \in Nat /\ Cardinality(S) \in Nat
  BY <1>2, <1>3, <1>4, FS_CardinalityType
<1>11. Providers(c, id, port) = Cardinality(E) + Cardinality(B) + Cardinality(S)
  BY <1>2, <1>3, <1>4 DEF Providers
<1>12. Cardinality(E \cap B) = 0 /\ Cardinality((E \cup B) \cap S) = 0
  BY <1>6, <1>9, Zenon
<1>13. Cardinality(E \cup B) = Cardinality(E) + Cardinality(B)
  BY <1>7, <1>10, <1>12
<1>14. Cardinality((E \cup B) \cup S) = Cardinality(E \cup B) + Cardinality(S)
  BY <1>8, <1>10, <1>12, <1>13
<1> QED
  BY <1>5, <1>8, <1>11, <1>13, <1>14

LEMMA ProvidersDecide ==
  ASSUME NEW c, IsContract(c), NEW cat, Distinct(c.DirectEdges), Distinct(c.AssetBindings),
         Cardinality({s.SlotID : s \in ToSet(c.InputSlots)}) = Len(c.InputSlots),
         \A x \in Connections(c) : TargetFits(c, cat, x)
  PROVE  ProviderError(c, cat) = "" <=>
           \A in \in InputPorts(c, cat) :
             /\ Cardinality(Given(c, in)) <= 1
             /\ DeclOf(c, cat.Tools, in[1]).Inputs[in[2]].Required => Cardinality(Given(c, in)) = 1
<1> DEFINE decl(in) == DeclOf(c, cat.Tools, in[1]).Inputs[in[2]]
           given(in) == Cardinality(Given(c, in))
           conflict == \E in \in InputPorts(c, cat) :
                         decl(in).Cardinality = "SINGLE" /\ Providers(c, in[1], in[2]) > 1
           bound == \A in \in InputPorts(c, cat) : decl(in).Required => Providers(c, in[1], in[2]) > 0
<1>1. ProviderError(c, cat) = IF conflict THEN "PROVIDER_CONFLICT" ELSE Unless(bound, "PROVIDER_MISSING")
  BY DEF ProviderError, InputPorts
<1>2. ProviderError(c, cat) = "" <=> ~conflict /\ bound
  <2>1. bound \in BOOLEAN /\ conflict \in BOOLEAN
    OBVIOUS
  <2> HIDE DEF conflict, bound
  <2> QED
    BY <1>1, <2>1, UnlessDecides DEF Unless
<1>3. \A in \in InputPorts(c, cat) :
        /\ given(in) \in Nat /\ Providers(c, in[1], in[2]) = given(in)
        /\ decl(in).Cardinality # "SINGLE" => given(in) = 0
  <2> SUFFICES ASSUME NEW in \in InputPorts(c, cat)
               PROVE  /\ given(in) \in Nat /\ Providers(c, in[1], in[2]) = given(in)
                      /\ decl(in).Cardinality # "SINGLE" => given(in) = 0
    OBVIOUS
  <2>1. in = <<in[1], in[2]>>
    BY DEF InputPorts
  <2>2. IsFiniteSet(Given(c, in)) /\ Providers(c, in[1], in[2]) = given(in)
    <3>1. IsFiniteSet(Given(c, <<in[1], in[2]>>))
          /\ Providers(c, in[1], in[2]) = Cardinality(Given(c, <<in[1], in[2]>>))
      BY ProvidersCount
    <3> QED
      BY <3>1, <2>1
  <2>3. ASSUME decl(in).Cardinality # "SINGLE", NEW x \in Given(c, in) PROVE FALSE
    <3>1. x \in Connections(c) /\ <<x.To, x.In>> = in
      BY DEF Given
    <3>2. InputOf(c, cat.Tools, x).Cardinality = "SINGLE"
      BY <3>1 DEF TargetFits
    <3>3. InputOf(c, cat.Tools, x) = decl(in)
      BY <3>1 DEF InputOf
    <3> QED
      BY <2>3, <3>2, <3>3
  <2>4. decl(in).Cardinality # "SINGLE" => Given(c, in) = {}
    BY <2>3
  <2>5. given(in) \in Nat
    BY <2>2, FS_CardinalityType
  <2> QED
    BY <2>2, <2>4, <2>5, FS_EmptySet
<1> HIDE DEF decl, given
<1>4. ~conflict /\ bound <=> \A in \in InputPorts(c, cat) :
                               given(in) <= 1 /\ (decl(in).Required => given(in) = 1)
  <2>1. ASSUME NEW in \in InputPorts(c, cat)
        PROVE  /\ ~(decl(in).Cardinality = "SINGLE" /\ Providers(c, in[1], in[2]) > 1) <=> given(in) <= 1
               /\ given(in) <= 1 => (Providers(c, in[1], in[2]) > 0 <=> given(in) = 1)
    BY <1>3
  <2> QED
    BY <2>1
<1> HIDE DEF conflict, bound
<1> QED
  BY <1>2, <1>4 DEF decl, given

(* Validate, up to its search for a cycle. *)
LEMMA SectionsDecide ==
  ASSUME NEW c, IsContract(c), NEW cat
  PROVE  ValidateError(c, cat) = "" <=>
           /\ c.CanonicalizationVersion = ContractVersionV1
           /\ c.SemanticDerivationVersion = ContractVersionV1
           /\ NodesFit(c, cat) /\ ConnectionsFit(c, cat)
<1> DEFINE nodes == FirstError([i \in DOMAIN c.Nodes |-> NodeError(c, cat, i)])
           edges == FirstError([i \in DOMAIN c.DirectEdges |-> EdgeError(c, cat, i)])
           bindings == FirstError([i \in DOMAIN c.AssetBindings |-> BindingError(c, cat, i)])
           slots == FirstError([i \in DOMAIN c.InputSlots |-> SlotError(c, cat, i)])
           Slotted == Cardinality({s.SlotID : s \in ToSet(c.InputSlots)}) = Len(c.InputSlots)
           Bound == \A in \in InputPorts(c, cat) :
                      /\ Cardinality(Given(c, in)) <= 1
                      /\ DeclOf(c, cat.Tools, in[1]).Inputs[in[2]].Required => Cardinality(Given(c, in)) = 1
<1>1. ValidateError(c, cat) =
        Else(VersionError(c), Else(nodes, Else(edges, Else(bindings, Else(slots, ProviderError(c, cat))))))
  BY DEF ValidateError
<1>2. ValidateError(c, cat) = "" <=>
        /\ VersionError(c) = "" /\ nodes = "" /\ edges = "" /\ bindings = "" /\ slots = ""
        /\ ProviderError(c, cat) = ""
  <2> HIDE DEF nodes, edges, bindings, slots
  <2> QED
    BY <1>1 DEF Else
<1>3. nodes = "" <=> NodesFit(c, cat)
  BY NodesDecide
<1>4. edges = "" <=> Distinct(c.DirectEdges) /\ \A x \in ToSet(c.DirectEdges) : EdgeFits(c, cat, x)
  BY EdgesDecide
<1>5. bindings = "" <=> Distinct(c.AssetBindings) /\ \A x \in ToSet(c.AssetBindings) : BindingFits(c, cat, x)
  BY BindingsDecide
<1>6. slots = "" <=> Slotted /\ \A x \in ToSet(c.InputSlots) : SlotFits(c, cat, x)
  BY SlotsDecide
<1>7. ConnectionsFit(c, cat) <=>
        /\ Distinct(c.DirectEdges) /\ \A x \in ToSet(c.DirectEdges) : EdgeFits(c, cat, x)
        /\ Distinct(c.AssetBindings) /\ \A x \in ToSet(c.AssetBindings) : BindingFits(c, cat, x)
        /\ Slotted /\ \A x \in ToSet(c.InputSlots) : SlotFits(c, cat, x)
        /\ Bound
  BY Zenon DEF ConnectionsFit, EdgeFits, BindingFits, SlotFits, TargetFits, Connections, Given
<1>8. ASSUME edges = "", bindings = "", slots = "" PROVE ProviderError(c, cat) = "" <=> Bound
  <2>1. \A x \in Connections(c) : TargetFits(c, cat, x)
    BY <1>4, <1>5, <1>6, <1>8 DEF Connections, EdgeFits, BindingFits, SlotFits
  <2> QED
    BY <1>4, <1>5, <1>6, <1>8, <2>1, ProvidersDecide
<1> HIDE DEF nodes, edges, bindings, slots, Bound, Slotted
<1> QED
  BY <1>2, <1>3, <1>4, <1>5, <1>6, <1>7, <1>8, VersionDecides

(***************************************************************************)
(* The canonical form decides whether a contract is well formed, but for   *)
(* the reserved field.                                                     *)
(***************************************************************************)
LEMMA BagsAgree ==
  ASSUME NEW a, NEW b, AsBag(a) = AsBag(b)
  PROVE  /\ ToSet(a) = ToSet(b)
         /\ \A x \in ToSet(a) :
              Cardinality({i \in DOMAIN a : a[i] = x}) = Cardinality({i \in DOMAIN b : b[i] = x})
<1>1. DOMAIN AsBag(a) = ToSet(a) /\ DOMAIN AsBag(b) = ToSet(b)
  BY DEF AsBag
<1>2. ASSUME NEW x \in ToSet(a)
      PROVE  Cardinality({i \in DOMAIN a : a[i] = x}) = Cardinality({i \in DOMAIN b : b[i] = x})
  <2>1. AsBag(a)[x] = Cardinality({i \in DOMAIN a : a[i] = x})
    BY DEF AsBag
  <2>2. AsBag(b)[x] = Cardinality({i \in DOMAIN b : b[i] = x})
    BY <1>1 DEF AsBag
  <2> QED
    BY <2>1, <2>2
<1> QED
  BY <1>1, <1>2

LEMMA DistinctSurvives ==
  ASSUME NEW a, IsList(a), NEW b, AsBag(a) = AsBag(b),
         \A i, j \in DOMAIN b : b[i] = b[j] => i = j
  PROVE  \A i, j \in DOMAIN a : a[i] = a[j] => i = j
<1> SUFFICES ASSUME NEW i \in DOMAIN a, NEW j \in DOMAIN a, a[i] = a[j] PROVE i = j
  OBVIOUS
<1> DEFINE x == a[i]
           A == {k \in DOMAIN a : a[k] = x}
           B == {k \in DOMAIN b : b[k] = x}
<1>1. x \in ToSet(a) /\ x \in ToSet(b)
  BY BagsAgree DEF ToSet
<1>2. Cardinality(A) = Cardinality(B)
  BY <1>1, BagsAgree
<1>3. PICK k \in DOMAIN b : b[k] = x
  BY <1>1 DEF ToSet
<1>4. B = {k}
  BY <1>3
<1>5. Cardinality(B) = 1
  BY <1>4, FS_Singleton
<1>6. IsFiniteSet(A)
  <2>1. DOMAIN a = 1..Len(a) /\ Len(a) \in Nat
    BY DEF IsList
  <2>2. A \in SUBSET (1..Len(a)) /\ IsFiniteSet(1..Len(a))
    BY <2>1, FS_Interval
  <2> QED
    BY <2>2, FS_Subset
<1>7. i \in A /\ j \in A
  OBVIOUS
<1> HIDE DEF A, B
<1>8. PICK y : A = {y}
  BY <1>2, <1>5, <1>6, FS_Singleton
<1> QED
  BY <1>7, <1>8

LEMMA DistinctFieldSurvives ==
  ASSUME NEW a, IsList(a), NEW b, AsBag(a) = AsBag(b), NEW fld,
         \A i, j \in DOMAIN b : b[i][fld] = b[j][fld] => i = j
  PROVE  \A i, j \in DOMAIN a : a[i][fld] = a[j][fld] => i = j
<1> SUFFICES ASSUME NEW i \in DOMAIN a, NEW j \in DOMAIN a, a[i][fld] = a[j][fld] PROVE i = j
  OBVIOUS
<1>1. a[i] \in ToSet(b) /\ a[j] \in ToSet(b)
  BY BagsAgree DEF ToSet
<1>2. PICK k \in DOMAIN b : b[k] = a[i]
  BY <1>1 DEF ToSet
<1>3. PICK l \in DOMAIN b : b[l] = a[j]
  BY <1>1 DEF ToSet
<1>4. a[i] = a[j]
  BY <1>2, <1>3
<1>5. \A m, n \in DOMAIN b : b[m] = b[n] => m = n
  OBVIOUS
<1> QED
  BY <1>4, <1>5, DistinctSurvives

LEMMA DistinctSlotsSurvive ==
  ASSUME NEW a, IsList(a), NEW b, AsBag(a) = AsBag(b),
         \A i, j \in DOMAIN b : b[i].SlotID = b[j].SlotID => i = j
  PROVE  \A i, j \in DOMAIN a : a[i].SlotID = a[j].SlotID => i = j
BY DistinctFieldSurvives

(* The declaration of a node is that of its pin. *)
LEMMA DeclIsOfPin ==
  ASSUME NEW c, \A i, j \in DOMAIN c.Nodes : c.Nodes[i].ID = c.Nodes[j].ID => i = j,
         NEW tools, NEW n \in ToSet(c.Nodes)
  PROVE  DeclOf(c, tools, n.ID) = tools[n.Pin]
<1>1. \A m \in ToSet(c.Nodes) : m.ID = n.ID => m = n
  BY DEF ToSet
<1>2. (CHOOSE m \in ToSet(c.Nodes) : m.ID = n.ID) = n
  BY <1>1
<1> QED
  BY <1>2 DEF DeclOf

UniqueIDs(c) == \A i, j \in DOMAIN c.Nodes : c.Nodes[i].ID = c.Nodes[j].ID => i = j
SamePins(c, d) == \A n \in ToSet(c.Nodes) : \E m \in ToSet(d.Nodes) : m.ID = n.ID /\ m.Pin = n.Pin

(* Contracts whose nodes have the same pins have the same declarations. *)
LEMMA TwinsDeclareAlike ==
  ASSUME NEW c, UniqueIDs(c), NEW d, UniqueIDs(d), SamePins(c, d), NEW tools, NEW id \in NodeIDs(c)
  PROVE  DeclOf(c, tools, id) = DeclOf(d, tools, id)
<1>1. PICK n \in ToSet(c.Nodes) : n.ID = id
  BY DEF NodeIDs, ToSet
<1>2. PICK m \in ToSet(d.Nodes) : m.ID = n.ID /\ m.Pin = n.Pin
  BY DEF SamePins
<1>3. DeclOf(c, tools, n.ID) = tools[n.Pin]
  BY DeclIsOfPin DEF UniqueIDs
<1>4. DeclOf(d, tools, m.ID) = tools[m.Pin]
  BY DeclIsOfPin DEF UniqueIDs
<1> QED
  BY <1>1, <1>2, <1>3, <1>4

CanonicalNodes(c) == [i \in DOMAIN c.Nodes |-> CanonicalNode(c.Nodes[i])]

(* Contracts of one canonical form have the same nodes, the reserved field
   and the order of their parameters aside.                                *)
LEMMA CanonicalTwins ==
  ASSUME NEW c, NEW d, AsBag(CanonicalNodes(c)) = AsBag(CanonicalNodes(d))
  PROVE  /\ NodeIDs(c) = NodeIDs(d)
         /\ \A n \in ToSet(c.Nodes) : \E m \in ToSet(d.Nodes) :
              /\ m.ID = n.ID /\ m.Pin = n.Pin
              /\ AsBag(m.FixedParameters) = AsBag(n.FixedParameters)
<1>1. ASSUME NEW e, NEW g, ToSet(CanonicalNodes(e)) = ToSet(CanonicalNodes(g)), NEW n \in ToSet(e.Nodes)
      PROVE  \E m \in ToSet(g.Nodes) : CanonicalNode(m) = CanonicalNode(n)
  <2>1. CanonicalNode(n) \in ToSet(CanonicalNodes(e))
    <3>1. PICK i \in DOMAIN e.Nodes : e.Nodes[i] = n
      BY DEF ToSet
    <3>2. i \in DOMAIN CanonicalNodes(e) /\ CanonicalNodes(e)[i] = CanonicalNode(n)
      BY <3>1 DEF CanonicalNodes
    <3> QED
      BY <3>2 DEF ToSet
  <2>2. CanonicalNode(n) \in ToSet(CanonicalNodes(g))
    BY <2>1, <1>1
  <2>3. PICK i \in DOMAIN CanonicalNodes(g) : CanonicalNodes(g)[i] = CanonicalNode(n)
    BY <2>2 DEF ToSet
  <2>4. i \in DOMAIN g.Nodes /\ CanonicalNode(g.Nodes[i]) = CanonicalNode(n)
    BY <2>3 DEF CanonicalNodes
  <2>5. g.Nodes[i] \in ToSet(g.Nodes)
    BY <2>4 DEF ToSet
  <2> QED
    BY <2>4, <2>5
<1>2. ToSet(CanonicalNodes(c)) = ToSet(CanonicalNodes(d))
  BY BagsAgree
<1>3. ASSUME NEW m, NEW n, CanonicalNode(m) = CanonicalNode(n)
      PROVE  m.ID = n.ID /\ m.Pin = n.Pin /\ AsBag(m.FixedParameters) = AsBag(n.FixedParameters)
  BY <1>3 DEF CanonicalNode
<1>4. \A n \in ToSet(c.Nodes) : \E m \in ToSet(d.Nodes) :
        m.ID = n.ID /\ m.Pin = n.Pin /\ AsBag(m.FixedParameters) = AsBag(n.FixedParameters)
  BY <1>1, <1>2, <1>3
<1>5. \A n \in ToSet(d.Nodes) : \E m \in ToSet(c.Nodes) : m.ID = n.ID
  BY <1>1, <1>2, <1>3
<1>6. \A e : NodeIDs(e) = {n.ID : n \in ToSet(e.Nodes)}
  BY DEF NodeIDs, ToSet
<1>7. NodeIDs(c) \subseteq NodeIDs(d)
  BY <1>4, <1>6
<1>8. NodeIDs(d) \subseteq NodeIDs(c)
  BY <1>5, <1>6
<1> QED
  BY <1>4, <1>7, <1>8

LEMMA ReservedDecides ==
  ASSUME NEW c
  PROVE  RejectReservedCapabilities(c) = "" <=> \A n \in ToSet(c.Nodes) : n.ToolProfile = Nil
BY DEF RejectReservedCapabilities, Unless, ToSet

LEMMA CanonicalWellFormed ==
  ASSUME NEW c, IsContract(c), NEW d, IsContract(d), Canonicalize(c) = Canonicalize(d),
         RejectReservedCapabilities(c) = "", NEW cat, WellFormed(d, cat)
  PROVE  WellFormed(c, cat)
<1>1. /\ c.CanonicalizationVersion = d.CanonicalizationVersion
      /\ c.SemanticDerivationVersion = d.SemanticDerivationVersion
      /\ AsBag(CanonicalNodes(c)) = AsBag(CanonicalNodes(d))
      /\ AsBag(c.DirectEdges) = AsBag(d.DirectEdges)
      /\ AsBag(c.AssetBindings) = AsBag(d.AssetBindings)
      /\ AsBag(c.InputSlots) = AsBag(d.InputSlots)
  BY DEF Canonicalize, CanonicalNodes
<1>2. /\ IsList(c.Nodes) /\ IsList(c.DirectEdges) /\ IsList(c.AssetBindings) /\ IsList(c.InputSlots)
      /\ IsList(d.Nodes) /\ IsList(d.DirectEdges) /\ IsList(d.AssetBindings) /\ IsList(d.InputSlots)
  BY DEF IsContract, IsRecords
<1>3. NodesFit(d, cat) /\ ConnectionsFit(d, cat) /\ GraphAcyclic(GraphOf(d))
  BY DEF WellFormed
<1>31. /\ Distinct(d.DirectEdges) /\ Distinct(d.AssetBindings)
       /\ Cardinality({s.SlotID : s \in ToSet(d.InputSlots)}) = Len(d.InputSlots)
  BY <1>3 DEF ConnectionsFit
<1>4. \A e : NodeIDs(e) = {n.ID : n \in ToSet(e.Nodes)}
  BY DEF NodeIDs, ToSet
<1>5. \A i, j \in DOMAIN d.Nodes : d.Nodes[i].ID = d.Nodes[j].ID => i = j
  BY <1>2, <1>3, <1>4, DistinctField DEF NodesFit
<1>6. \A i, j \in DOMAIN c.Nodes : c.Nodes[i].ID = c.Nodes[j].ID => i = j
  <2> DEFINE cs == CanonicalNodes(c)
             ds == CanonicalNodes(d)
  <2>1. /\ DOMAIN cs = DOMAIN c.Nodes /\ \A i \in DOMAIN cs : cs[i].ID = c.Nodes[i].ID
        /\ DOMAIN ds = DOMAIN d.Nodes /\ \A i \in DOMAIN ds : ds[i].ID = d.Nodes[i].ID
    BY DEF CanonicalNodes, CanonicalNode
  <2>2. IsList(cs)
    <3>1. DOMAIN c.Nodes = 1..Len(c.Nodes) /\ Len(c.Nodes) \in Nat
      BY <1>2, ListShape
    <3>2. cs \in [1..Len(c.Nodes) -> ToSet(cs)]
      BY <3>1 DEF CanonicalNodes, ToSet
    <3> QED
      BY <3>1, <3>2, SeqDef DEF IsList
  <2> HIDE DEF cs, ds
  <2>3. \A i, j \in DOMAIN ds : ds[i].ID = ds[j].ID => i = j
    BY <1>5, <2>1
  <2>4. AsBag(cs) = AsBag(ds)
    BY <1>1 DEF cs, ds
  <2>5. \A i, j \in DOMAIN cs : cs[i].ID = cs[j].ID => i = j
    BY <2>2, <2>3, <2>4, DistinctFieldSurvives
  <2> QED
    BY <2>1, <2>5
<1>7. /\ NodeIDs(c) = NodeIDs(d)
      /\ \A n \in ToSet(c.Nodes) : \E m \in ToSet(d.Nodes) :
           m.ID = n.ID /\ m.Pin = n.Pin /\ AsBag(m.FixedParameters) = AsBag(n.FixedParameters)
  BY <1>1, CanonicalTwins
<1>8. NodesFit(c, cat)
  <2>1. Cardinality(NodeIDs(c)) = Len(c.Nodes)
    BY <1>2, <1>4, <1>6, DistinctField
  <2>2. Nil \notin NodeIDs(c)
    BY <1>3, <1>7 DEF NodesFit
  <2>3. ASSUME NEW n \in ToSet(c.Nodes)
        PROVE  /\ n.ToolProfile = Nil /\ n.Pin \in DOMAIN cat.Tools
               /\ Cardinality({p.Name : p \in ToSet(n.FixedParameters)}) = Len(n.FixedParameters)
               /\ \A p \in ToSet(n.FixedParameters) :
                    LET declared == cat.Tools[n.Pin].Parameters IN
                    p.Name \in DOMAIN declared /\ ParameterValueValid(declared[p.Name], p.Value)
    <3>1. PICK m \in ToSet(d.Nodes) :
            m.Pin = n.Pin /\ AsBag(m.FixedParameters) = AsBag(n.FixedParameters)
      BY <1>7
    <3>2. IsList(n.FixedParameters) /\ IsList(m.FixedParameters)
      BY DEF IsContract, IsRecords
    <3>3. \A i, j \in DOMAIN m.FixedParameters :
            m.FixedParameters[i].Name = m.FixedParameters[j].Name => i = j
      BY <1>3, <3>2, DistinctField DEF NodesFit
    <3>4. \A i, j \in DOMAIN n.FixedParameters :
            n.FixedParameters[i].Name = n.FixedParameters[j].Name => i = j
      BY <3>1, <3>2, <3>3, DistinctFieldSurvives
    <3>5. Cardinality({p.Name : p \in ToSet(n.FixedParameters)}) = Len(n.FixedParameters)
      BY <3>2, <3>4, DistinctField
    <3>6. ToSet(n.FixedParameters) = ToSet(m.FixedParameters)
      BY <3>1, BagsAgree
    <3>7. n.ToolProfile = Nil
      BY ReservedDecides
    <3> QED
      BY <1>3, <3>1, <3>5, <3>6, <3>7 DEF NodesFit
  <2> QED
    BY <2>1, <2>2, <2>3 DEF NodesFit
<1>9. /\ ToSet(c.DirectEdges) = ToSet(d.DirectEdges) /\ ToSet(c.AssetBindings) = ToSet(d.AssetBindings)
      /\ ToSet(c.InputSlots) = ToSet(d.InputSlots)
  BY <1>1, BagsAgree
<1>10. \A id \in NodeIDs(c) : DeclOf(c, cat.Tools, id) = DeclOf(d, cat.Tools, id)
  <2>1. SamePins(c, d)
    <3> SUFFICES ASSUME NEW n \in ToSet(c.Nodes)
                 PROVE  \E m \in ToSet(d.Nodes) : m.ID = n.ID /\ m.Pin = n.Pin
      BY DEF SamePins
    <3>1. PICK m \in ToSet(d.Nodes) :
            m.ID = n.ID /\ m.Pin = n.Pin /\ AsBag(m.FixedParameters) = AsBag(n.FixedParameters)
      BY <1>7
    <3> QED
      BY <3>1
  <2>2. UniqueIDs(c) /\ UniqueIDs(d)
    BY <1>5, <1>6 DEF UniqueIDs
  <2> QED
    BY <2>1, <2>2, TwinsDeclareAlike
<1>11. InputPorts(c, cat) = InputPorts(d, cat)
  <2>1. ASSUME NEW in PROVE in \in InputPorts(c, cat) <=> in \in InputPorts(d, cat)
    BY <1>7, <1>10 DEF InputPorts
  <2> QED
    BY <2>1
<1>12. \A x : x.To \in NodeIDs(c) => InputOf(c, cat.Tools, x) = InputOf(d, cat.Tools, x)
  <2> SUFFICES ASSUME NEW x, x.To \in NodeIDs(c)
               PROVE  InputOf(c, cat.Tools, x) = InputOf(d, cat.Tools, x)
    OBVIOUS
  <2>1. DeclOf(c, cat.Tools, x.To) = DeclOf(d, cat.Tools, x.To)
    BY <1>10
  <2> QED
    BY <2>1 DEF InputOf
<1>13. \A x : <<x.To, x.In>> \in InputPorts(c, cat) => x.To \in NodeIDs(c)
  BY InputPortsOfNodes
<1>14. ConnectionsFit(c, cat)
  <2>1. Distinct(c.DirectEdges)
    <3>1. \A i, j \in DOMAIN d.DirectEdges : d.DirectEdges[i] = d.DirectEdges[j] => i = j
      BY <1>2, <1>31, DistinctList
    <3>2. \A i, j \in DOMAIN c.DirectEdges : c.DirectEdges[i] = c.DirectEdges[j] => i = j
      BY <1>1, <1>2, <3>1, DistinctSurvives
    <3> QED
      BY <1>2, <3>2, DistinctList
  <2>2. Distinct(c.AssetBindings)
    <3>1. \A i, j \in DOMAIN d.AssetBindings : d.AssetBindings[i] = d.AssetBindings[j] => i = j
      BY <1>2, <1>31, DistinctList
    <3>2. \A i, j \in DOMAIN c.AssetBindings : c.AssetBindings[i] = c.AssetBindings[j] => i = j
      BY <1>1, <1>2, <3>1, DistinctSurvives
    <3> QED
      BY <1>2, <3>2, DistinctList
  <2>3. Cardinality({s.SlotID : s \in ToSet(c.InputSlots)}) = Len(c.InputSlots)
    <3>1. \A i, j \in DOMAIN d.InputSlots : d.InputSlots[i].SlotID = d.InputSlots[j].SlotID => i = j
      BY <1>2, <1>31, DistinctSlots
    <3>2. \A i, j \in DOMAIN c.InputSlots : c.InputSlots[i].SlotID = c.InputSlots[j].SlotID => i = j
      BY <1>1, <1>2, <3>1, DistinctSlotsSurvive
    <3> QED
      BY <1>2, <3>2, DistinctSlots
  <2>4. Connections(c) = Connections(d)
    BY <1>9 DEF Connections
  <2>5. \A x \in Connections(c) : <<x.To, x.In>> \in InputPorts(c, cat)
                                 /\ InputOf(c, cat.Tools, x).Cardinality = "SINGLE"
    BY <1>3, <2>4, <1>11, <1>12, <1>13 DEF ConnectionsFit
  <2>6. \A s \in ToSet(c.InputSlots) : s.SlotID # Nil
    BY <1>3, <1>9 DEF ConnectionsFit
  <2>7. \A e \in ToSet(c.DirectEdges) :
          /\ e.From \in NodeIDs(c) /\ e.Out \in DOMAIN DeclOf(c, cat.Tools, e.From).Outputs
          /\ Ports(OutputOf(c, cat.Tools, e), InputOf(c, cat.Tools, e))
    <3> SUFFICES ASSUME NEW e \in ToSet(c.DirectEdges)
                 PROVE  /\ e.From \in NodeIDs(c)
                        /\ e.Out \in DOMAIN DeclOf(c, cat.Tools, e.From).Outputs
                        /\ Ports(OutputOf(c, cat.Tools, e), InputOf(c, cat.Tools, e))
      OBVIOUS
    <3>1. /\ e.From \in NodeIDs(d) /\ e.Out \in DOMAIN DeclOf(d, cat.Tools, e.From).Outputs
          /\ Ports(OutputOf(d, cat.Tools, e), InputOf(d, cat.Tools, e))
      BY <1>3, <1>9 DEF ConnectionsFit
    <3>2. DeclOf(c, cat.Tools, e.From) = DeclOf(d, cat.Tools, e.From)
      BY <3>1, <1>7, <1>10
    <3>3. OutputOf(c, cat.Tools, e) = OutputOf(d, cat.Tools, e)
      BY <3>2 DEF OutputOf
    <3>4. InputOf(c, cat.Tools, e) = InputOf(d, cat.Tools, e)
      BY <2>5, <1>12, <1>13 DEF Connections
    <3> QED
      BY <3>1, <3>2, <3>3, <3>4, <1>7
  <2>8. \A b \in ToSet(c.AssetBindings) :
          b.Asset \in DOMAIN cat.Assets /\ Ports(cat.Assets[b.Asset], InputOf(c, cat.Tools, b))
    <3> SUFFICES ASSUME NEW b \in ToSet(c.AssetBindings)
                 PROVE  b.Asset \in DOMAIN cat.Assets /\ Ports(cat.Assets[b.Asset], InputOf(c, cat.Tools, b))
      OBVIOUS
    <3>1. b.Asset \in DOMAIN cat.Assets /\ Ports(cat.Assets[b.Asset], InputOf(d, cat.Tools, b))
      BY <1>3, <1>9 DEF ConnectionsFit
    <3>2. InputOf(c, cat.Tools, b) = InputOf(d, cat.Tools, b)
      BY <2>5, <1>12, <1>13 DEF Connections
    <3> QED
      BY <3>1, <3>2
  <2>9. ASSUME NEW in \in InputPorts(c, cat)
        PROVE  /\ Cardinality(Given(c, in)) <= 1
               /\ DeclOf(c, cat.Tools, in[1]).Inputs[in[2]].Required => Cardinality(Given(c, in)) = 1
    <3>1. in \in InputPorts(d, cat) /\ in[1] \in NodeIDs(c)
      BY <1>11, InputPortsOfNodes
    <3>2. DeclOf(c, cat.Tools, in[1]) = DeclOf(d, cat.Tools, in[1])
      BY <3>1, <1>10
    <3>3. Given(c, in) = Given(d, in)
      BY <2>4 DEF Given
    <3>4. /\ Cardinality(Given(d, in)) <= 1
          /\ DeclOf(d, cat.Tools, in[1]).Inputs[in[2]].Required => Cardinality(Given(d, in)) = 1
      BY <1>3, <3>1, Zenon DEF ConnectionsFit, Given
    <3> QED
      BY <3>2, <3>3, <3>4
  <2> QED
    BY <2>1, <2>2, <2>3, <2>5, <2>6, <2>7, <2>8, <2>9, Zenon DEF ConnectionsFit, Given
<1>15. GraphOf(c) = GraphOf(d)
  BY <1>7, <1>9 DEF GraphOf
<1> QED
  BY <1>1, <1>3, <1>8, <1>14, <1>15 DEF WellFormed

(***************************************************************************)
(* A graph that is searched joins nodes that exist.                        *)
(***************************************************************************)
LEMMA ValidatedGraph ==
  ASSUME NEW c, NEW cat, IsContract(c), ValidateError(c, cat) = ""
  PROVE  GraphOf(c) \in [NodeIDs(c) -> SUBSET NodeIDs(c)]
<1>1. ConnectionsFit(c, cat)
  BY SectionsDecide
<1>2. \A e \in ToSet(c.DirectEdges) : <<e.To, e.In>> \in InputPorts(c, cat)
  BY <1>1, Zenon DEF ConnectionsFit, Connections
<1>3. \A e \in ToSet(c.DirectEdges) : e.To \in NodeIDs(c)
  BY <1>2, InputPortsOfNodes
<1> QED
  BY <1>3, ZenonT(60) DEF GraphOf

LEMMA SpecGraphTyped ==
  ASSUME NEW c, NEW in, IsContract(c), SpecShapeError(SpecOf(c, in)) = ""
  PROVE  SpecGraph(SpecOf(c, in)) \in [SpecIDs(SpecOf(c, in)) -> SUBSET SpecIDs(SpecOf(c, in))]
<1> DEFINE s == SpecOf(c, in)
           errs == [i \in DOMAIN s.Edges |-> SpecEdgeError(s, i)]
<1>1. DOMAIN s.Edges \subseteq DOMAIN c.DirectEdges
  BY DEF SpecOf
<1>2. DOMAIN errs \subseteq Nat
  BY <1>1, ContractDomains
<1> HIDE DEF s
<1>3. FirstError(errs) = ""
  <2> DEFINE nodes == FirstError([i \in DOMAIN s.Nodes |->
              IF s.Nodes[i].ID = Nil THEN "INVALID_CONTRACT"
              ELSE Unless(~\E j \in 1..(i - 1) : s.Nodes[j].ID = s.Nodes[i].ID, "DUPLICATE")])
  <2>1. SpecShapeError(s) = ""
    BY DEF s
  <2>2. Else(nodes, FirstError(errs)) = ""
    BY <2>1 DEF SpecShapeError
  <2> HIDE DEF nodes, errs
  <2> QED
    BY <2>2, ElseNone
<1>4. \A i \in DOMAIN s.Edges : SpecEdgeError(s, i) = ""
  <2>1. \A i \in DOMAIN errs : errs[i] = ""
    <3> HIDE DEF errs
    <3> QED
      BY <1>2, <1>3, FirstErrorNone
  <2> QED
    BY <2>1
<1>5. \A i \in DOMAIN s.Edges : s.Edges[i][2] \in SpecIDs(s)
  <2> SUFFICES ASSUME NEW i \in DOMAIN s.Edges
               PROVE  s.Edges[i][2] \in SpecIDs(s)
    OBVIOUS
  <2>1. SpecEdgeError(s, i) = ""
    BY <1>4
  <2> QED
    BY <2>1 DEF SpecEdgeError
<1>6. SpecGraph(s) \in [SpecIDs(s) -> SUBSET SpecIDs(s)]
  BY <1>5 DEF SpecGraph, ToSet
<1> QED
  BY <1>6 DEF s

(***************************************************************************)
(* What Lower builds.                                                      *)
(***************************************************************************)

(* One check of an edge, and all checks of a lowering: the declarations are
   those frozen in its input.                                              *)
SameTarget(c, i) ==
  \E j \in 1..(i - 1) : /\ c.DirectEdges[j].To = c.DirectEdges[i].To
                        /\ c.DirectEdges[j].In = c.DirectEdges[i].In

LEMMA LowerEdgeDecides ==
  ASSUME NEW c, NEW in, NEW i
  PROVE  /\ LowerEdgeError(c, in, i) = "" <=>
              EdgeFits(c, in, c.DirectEdges[i]) /\ ~Consumes(c, i) /\ ~SameTarget(c, i)
         /\ EdgeFits(c, in, c.DirectEdges[i]) /\ ~SameTarget(c, i) =>
              LowerEdgeError(c, in, i) = IF Consumes(c, i) THEN "NOT_REPRESENTABLE" ELSE ""
<1> DEFINE e == c.DirectEdges[i]
           target == TargetError(c, in, e)
           ports == PortsError(OutputOf(c, in.Tools, e), InputOf(c, in.Tools, e))
           single == Unless(~Consumes(c, i), "NOT_REPRESENTABLE")
           once == Unless(~SameTarget(c, i), "PROVIDER_CONFLICT")
<1>1. LowerEdgeError(c, in, i) =
        IF e.From \notin NodeIDs(c) \/ e.To \notin NodeIDs(c) THEN "EDGE_INVALID"
        ELSE IF e.Out \notin DOMAIN DeclOf(c, in.Tools, e.From).Outputs THEN "EDGE_INVALID"
        ELSE Else(target, Else(ports, Else(single, once)))
  BY DEF LowerEdgeError, SameTarget
<1>2. target = "" <=> <<e.To, e.In>> \in InputPorts(c, in)
  BY TargetDecides
<1>3. ports = "" <=> Ports(OutputOf(c, in.Tools, e), InputOf(c, in.Tools, e))
                      /\ InputOf(c, in.Tools, e).Cardinality = "SINGLE"
  BY PortsDecide
<1>4. <<e.To, e.In>> \in InputPorts(c, in) => e.To \in NodeIDs(c)
  BY InputPortsOfNodes
<1>5. /\ single = IF Consumes(c, i) THEN "NOT_REPRESENTABLE" ELSE ""
      /\ once = IF SameTarget(c, i) THEN "PROVIDER_CONFLICT" ELSE ""
  BY DEF Unless
<1>6. EdgeFits(c, in, e) <=>
        /\ target = "" /\ ports = ""
        /\ e.From \in NodeIDs(c) /\ e.Out \in DOMAIN DeclOf(c, in.Tools, e.From).Outputs
  BY <1>2, <1>3 DEF EdgeFits, TargetFits
<1>7. target = "" => e.To \in NodeIDs(c)
  BY <1>2, <1>4
<1> HIDE DEF target, ports, single, once, e
<1>8. Else(target, Else(ports, Else(single, once))) = "" <=>
        target = "" /\ ports = "" /\ ~Consumes(c, i) /\ ~SameTarget(c, i)
  BY <1>5 DEF Else
<1>9. target = "" /\ ports = "" /\ ~SameTarget(c, i) =>
        Else(target, Else(ports, Else(single, once))) =
          IF Consumes(c, i) THEN "NOT_REPRESENTABLE" ELSE ""
  BY <1>5 DEF Else
<1>10. /\ LowerEdgeError(c, in, i) = "" <=> EdgeFits(c, in, e) /\ ~Consumes(c, i) /\ ~SameTarget(c, i)
       /\ EdgeFits(c, in, e) /\ ~SameTarget(c, i) =>
            LowerEdgeError(c, in, i) = IF Consumes(c, i) THEN "NOT_REPRESENTABLE" ELSE ""
  BY <1>1, <1>6, <1>7, <1>8, <1>9
<1> QED
  BY <1>10 DEF e

LEMMA LowerNodeDecides ==
  ASSUME NEW c, NEW in, NEW i
  PROVE  LowerNodeError(c, in, i) = "" <=>
           /\ c.Nodes[i].ID # Nil /\ ~\E j \in 1..(i - 1) : c.Nodes[j].ID = c.Nodes[i].ID
           /\ c.Nodes[i].Pin \in DOMAIN in.Tools /\ c.Nodes[i].Pin \in in.Runnables
BY DEF LowerNodeError, Unless

LEMMA UnboundDecides ==
  ASSUME NEW c, NEW in
  PROVE  UnboundError(c, in) = "" <=>
           \A port \in InputPorts(c, in) :
             DeclOf(c, in.Tools, port[1]).Inputs[port[2]].Required =>
               \E e \in ToSet(c.DirectEdges) : e.To = port[1] /\ e.In = port[2]
<1> DEFINE Bound(id, port) == DeclOf(c, in.Tools, id).Inputs[port].Required =>
                                \E e \in ToSet(c.DirectEdges) : e.To = id /\ e.In = port
<1>1. UnboundError(c, in) = "" <=>
        \A id \in NodeIDs(c) : \A port \in DOMAIN DeclOf(c, in.Tools, id).Inputs : Bound(id, port)
  BY DEF UnboundError, Unless
<1> HIDE DEF Bound
<1>2. (\A id \in NodeIDs(c) : \A port \in DOMAIN DeclOf(c, in.Tools, id).Inputs : Bound(id, port)) <=>
        \A port \in InputPorts(c, in) : Bound(port[1], port[2])
  <2>1. ASSUME NEW id, NEW port
        PROVE  <<id, port>> \in InputPorts(c, in) <=>
                 id \in NodeIDs(c) /\ port \in DOMAIN DeclOf(c, in.Tools, id).Inputs
    BY DEF InputPorts
  <2>2. ASSUME NEW port \in InputPorts(c, in) PROVE port = <<port[1], port[2]>>
    BY InputPortsOfNodes
  <2>3. ASSUME \A port \in InputPorts(c, in) : Bound(port[1], port[2]),
               NEW id \in NodeIDs(c), NEW port \in DOMAIN DeclOf(c, in.Tools, id).Inputs
        PROVE  Bound(id, port)
    <3>1. <<id, port>> \in InputPorts(c, in)
      BY <2>1
    <3>2. Bound(<<id, port>>[1], <<id, port>>[2])
      BY <3>1, <2>3
    <3> QED
      BY <3>2
  <2>4. ASSUME \A id \in NodeIDs(c) : \A port \in DOMAIN DeclOf(c, in.Tools, id).Inputs : Bound(id, port),
               NEW port \in InputPorts(c, in)
        PROVE  Bound(port[1], port[2])
    <3>1. port[1] \in NodeIDs(c) /\ port[2] \in DOMAIN DeclOf(c, in.Tools, port[1]).Inputs
      BY <2>1, <2>2
    <3> QED
      BY <3>1, <2>4
  <2> QED
    BY <2>3, <2>4
<1> QED
  BY <1>1, <1>2 DEF Bound

LEMMA ProfileDecides ==
  ASSUME NEW c, IsContract(c), \A n \in ToSet(c.Nodes) : n.ToolProfile = Nil
  PROVE  CheckProfile(c) =
           IF /\ c.AssetBindings = <<>> /\ c.InputSlots = <<>>
              /\ \A n \in ToSet(c.Nodes) : n.FixedParameters = <<>>
             THEN "" ELSE "NOT_REPRESENTABLE"
<1> DEFINE errs == [i \in DOMAIN c.Nodes |->
             IF c.Nodes[i].ToolProfile # Nil THEN "UNSUPPORTED_CAPABILITY"
             ELSE Unless(c.Nodes[i].FixedParameters = <<>>, "NOT_REPRESENTABLE")]
           Plain == \A n \in ToSet(c.Nodes) : n.FixedParameters = <<>>
<1>1. DOMAIN errs = DOMAIN c.Nodes /\ DOMAIN errs \subseteq Nat
  BY ContractDomains
<1>2. \A i \in DOMAIN c.Nodes :
        errs[i] = IF c.Nodes[i].FixedParameters = <<>> THEN "" ELSE "NOT_REPRESENTABLE"
  BY DEF Unless, ToSet
<1>3. CheckProfile(c) =
        Else(FirstError(errs), Unless(c.AssetBindings = <<>> /\ c.InputSlots = <<>>, "NOT_REPRESENTABLE"))
  BY DEF CheckProfile
<1>4. Plain <=> \A i \in DOMAIN c.Nodes : c.Nodes[i].FixedParameters = <<>>
  BY DEF ToSet
<1> HIDE DEF errs, Plain
<1>5. FirstError(errs) = IF Plain THEN "" ELSE "NOT_REPRESENTABLE"
  <2>1. \A i \in DOMAIN errs : errs[i] \in {"", "NOT_REPRESENTABLE"}
    BY <1>1, <1>2
  <2>2. FirstError(errs) =
          IF \E i \in DOMAIN errs : errs[i] = "NOT_REPRESENTABLE" THEN "NOT_REPRESENTABLE" ELSE ""
    BY <1>1, <2>1, FirstErrorAmong
  <2> QED
    BY <2>2, <1>1, <1>2, <1>4
<1>6. CheckProfile(c) =
        IF c.AssetBindings = <<>> /\ c.InputSlots = <<>> /\ Plain THEN "" ELSE "NOT_REPRESENTABLE"
  BY <1>3, <1>5 DEF Else, Unless
<1> QED
  BY <1>6 DEF Plain

(* What is lowered has passed every check. *)
LEMMA LowerPassed ==
  ASSUME NEW rev, NEW in, IsContract(rev.Contract), LowerError(rev, in) = ""
  PROVE  /\ CheckProfile(rev.Contract) = ""
         /\ \A i \in DOMAIN rev.Contract.Nodes : LowerNodeError(rev.Contract, in, i) = ""
         /\ \A i \in DOMAIN rev.Contract.DirectEdges : LowerEdgeError(rev.Contract, in, i) = ""
         /\ UnboundError(rev.Contract, in) = ""
<1> DEFINE c == rev.Contract
           nodes == [i \in DOMAIN c.Nodes |-> LowerNodeError(c, in, i)]
           edges == [i \in DOMAIN c.DirectEdges |-> LowerEdgeError(c, in, i)]
<1>1. LowerError(rev, in) =
        Else(FrozenError(in), Else(VerifyRevision(rev), Else(CheckProfile(c),
          Else(AuthorizationError(in.Authorization), Else(FirstError(nodes),
          Else(FirstError(edges), UnboundError(c, in)))))))
  BY DEF LowerError
<1>2. DOMAIN nodes \subseteq Nat /\ DOMAIN edges \subseteq Nat
  BY ContractDomains
<1>3. /\ \A i \in DOMAIN c.Nodes : nodes[i] = LowerNodeError(c, in, i)
      /\ \A i \in DOMAIN c.DirectEdges : edges[i] = LowerEdgeError(c, in, i)
      /\ DOMAIN nodes = DOMAIN c.Nodes /\ DOMAIN edges = DOMAIN c.DirectEdges
  OBVIOUS
<1> HIDE DEF nodes, edges, c
<1>4. CheckProfile(c) = "" /\ FirstError(nodes) = "" /\ FirstError(edges) = "" /\ UnboundError(c, in) = ""
  BY <1>1 DEF Else
<1>5. (\A i \in DOMAIN nodes : nodes[i] = "") /\ (\A i \in DOMAIN edges : edges[i] = "")
  BY <1>2, <1>4, FirstErrorNone
<1>6. /\ \A i \in DOMAIN c.Nodes : LowerNodeError(c, in, i) = ""
      /\ \A i \in DOMAIN c.DirectEdges : LowerEdgeError(c, in, i) = ""
  BY <1>3, <1>5
<1> QED
  BY <1>4, <1>6 DEF c

(* A list no record of which goes where an earlier one goes. *)
LEMMA OneTarget ==
  ASSUME NEW c, IsContract(c), \A i \in DOMAIN c.DirectEdges : ~SameTarget(c, i),
         NEW i \in DOMAIN c.DirectEdges, NEW j \in DOMAIN c.DirectEdges,
         c.DirectEdges[i].To = c.DirectEdges[j].To, c.DirectEdges[i].In = c.DirectEdges[j].In
  PROVE  i = j
<1>1. IsList(c.DirectEdges)
  BY DEF IsContract, IsRecords
<1>2. DOMAIN c.DirectEdges \subseteq Nat \ {0}
  BY <1>1, ListShape
<1>3. i \in Nat \ {0} /\ j \in Nat \ {0}
  BY <1>2
<1>4. i < j => i \in 1..(j - 1)
  BY <1>3
<1>5. j < i => j \in 1..(i - 1)
  BY <1>3
<1>6. ~SameTarget(c, i) /\ ~SameTarget(c, j)
  OBVIOUS
<1> QED
  BY <1>3, <1>4, <1>5, <1>6 DEF SameTarget

Frozen(in) == [Tools |-> in.Tools, Assets |-> <<>>]

LEMMA FrozenIsInput ==
  ASSUME NEW c, NEW in
  PROVE  /\ InputPorts(c, Frozen(in)) = InputPorts(c, in)
         /\ \A e : EdgeFits(c, Frozen(in), e) <=> EdgeFits(c, in, e)
<1>1. Frozen(in).Tools = in.Tools
  BY DEF Frozen
<1>2. InputPorts(c, Frozen(in)) = InputPorts(c, in)
  BY <1>1, Zenon DEF InputPorts
<1> HIDE DEF Frozen
<1> QED
  BY <1>1, <1>2, Zenon DEF EdgeFits, TargetFits

LEMMA SmallSets ==
  Cardinality({}) = 0 /\ (\A x : Cardinality({x}) = 1) /\ 0 <= 1 /\ 1 <= 1 /\ 0 # 1
BY FS_EmptySet, FS_Singleton

LEMMA EmptyListIsEmpty == ToSet(<<>>) = {}
<1>1. DOMAIN <<>> = {}
  OBVIOUS
<1> QED
  BY <1>1, Zenon DEF ToSet

(* A contract that may be lowered connects as a committed one does: under the
   frozen declarations every edge fits, and every input has the edges it may. *)
LEMMA LoweringConnects ==
  ASSUME NEW c, NEW in, IsContract(c), CheckProfile(c) = "", UnboundError(c, in) = "",
         \A i \in DOMAIN c.DirectEdges : LowerEdgeError(c, in, i) = ""
  PROVE  ConnectionsFit(c, Frozen(in))
<1> DEFINE cat == Frozen(in)
           edges == c.DirectEdges
<1>1. c.AssetBindings = <<>> /\ c.InputSlots = <<>>
  <2> DEFINE profiles == FirstError([i \in DOMAIN c.Nodes |->
             IF c.Nodes[i].ToolProfile # Nil THEN "UNSUPPORTED_CAPABILITY"
             ELSE Unless(c.Nodes[i].FixedParameters = <<>>, "NOT_REPRESENTABLE")])
             rest == Unless(c.AssetBindings = <<>> /\ c.InputSlots = <<>>, "NOT_REPRESENTABLE")
  <2>1. Else(profiles, rest) = ""
    BY DEF CheckProfile
  <2>2. rest = ""
    <3> HIDE DEF profiles, rest
    <3> QED
      BY <2>1, ElseNone
  <2> QED
    BY <2>2 DEF Unless
<1>2. \A i \in DOMAIN edges : EdgeFits(c, in, edges[i]) /\ ~SameTarget(c, i)
  BY LowerEdgeDecides
<1>3. IsList(edges)
  BY DEF IsContract, IsRecords
<1>4. Distinct(edges)
  <2>1. \A i \in DOMAIN edges : Repeats(edges, i) => SameTarget(c, i)
    BY DEF Repeats, SameTarget
  <2> QED
    BY <1>2, <1>3, <2>1, DistinctList
<1>5. Connections(c) = ToSet(edges) /\ ToSet(c.AssetBindings) = {} /\ ToSet(c.InputSlots) = {}
  <2>2. ToSet(c.AssetBindings) = {} /\ ToSet(c.InputSlots) = {}
    BY <1>1, EmptyListIsEmpty
  <2> QED
    BY <2>2 DEF Connections
<1>6. Distinct(c.AssetBindings)
  BY <1>1, <1>5, FS_EmptySet DEF Distinct
<1>7. Cardinality({s.SlotID : s \in ToSet(c.InputSlots)}) = Len(c.InputSlots)
  <2>1. {s.SlotID : s \in ToSet(c.InputSlots)} = {}
    BY <1>5
  <2>2. Cardinality({s.SlotID : s \in ToSet(c.InputSlots)}) = Cardinality({})
    BY <2>1, Zenon
  <2> QED
    BY <1>1, <2>2, FS_EmptySet
<1>8. \A x \in ToSet(edges) : EdgeFits(c, cat, x)
  <2>1. \A x \in ToSet(edges) : EdgeFits(c, in, x)
    BY <1>2 DEF ToSet
  <2> QED
    BY <2>1, FrozenIsInput
<1>9. \A x \in Connections(c) : TargetFits(c, cat, x)
  BY <1>5, <1>8 DEF EdgeFits
<1>10. ASSUME NEW port \in InputPorts(c, cat)
       PROVE  /\ Cardinality(Given(c, port)) <= 1
              /\ DeclOf(c, cat.Tools, port[1]).Inputs[port[2]].Required => Cardinality(Given(c, port)) = 1
  <2>1. ASSUME NEW x \in Given(c, port), NEW y \in Given(c, port) PROVE x = y
    <3>1. x \in ToSet(edges) /\ y \in ToSet(edges) /\ <<x.To, x.In>> = <<y.To, y.In>>
      BY <1>5 DEF Given
    <3>2. PICK i \in DOMAIN edges : x = edges[i]
      BY <3>1 DEF ToSet
    <3>3. PICK j \in DOMAIN edges : y = edges[j]
      BY <3>1 DEF ToSet
    <3>4. edges[i].To = edges[j].To /\ edges[i].In = edges[j].In
      BY <3>1, <3>2, <3>3
    <3>5. \A k \in DOMAIN edges : ~SameTarget(c, k)
      BY <1>2
    <3>6. i = j
      BY <3>4, <3>5, OneTarget
    <3> QED
      BY <3>2, <3>3, <3>6
  <2>2. Cardinality({}) = 0 /\ (\A x : Cardinality({x}) = 1) /\ 0 <= 1 /\ 1 <= 1
    BY SmallSets, Zenon
  <2>3. CASE Given(c, port) = {}
    <3>1. Cardinality(Given(c, port)) = 0
      BY <2>2, <2>3
    <3>2. ~DeclOf(c, cat.Tools, port[1]).Inputs[port[2]].Required
      <4>1. port = <<port[1], port[2]>> /\ port \in InputPorts(c, in)
        BY InputPortsOfNodes, FrozenIsInput
      <4>2. ~\E e \in ToSet(edges) : e.To = port[1] /\ e.In = port[2]
        BY <1>5, <2>3, <4>1 DEF Given
      <4>3. ~DeclOf(c, in.Tools, port[1]).Inputs[port[2]].Required
        BY <4>1, <4>2, UnboundDecides
      <4> QED
        BY <4>3 DEF Frozen
    <3> QED
      BY <2>2, <3>1, <3>2, Zenon
  <2>4. CASE Given(c, port) # {}
    <3>1. PICK x : x \in Given(c, port)
      BY <2>4
    <3>2. Given(c, port) = {x}
      BY <2>1, <3>1
    <3>3. Cardinality(Given(c, port)) = 1
      BY <2>2, <3>2
    <3> QED
      BY <2>2, <3>3, Zenon
  <2> QED
    BY <2>3, <2>4
<1> HIDE DEF cat
<1>11. ConnectionsFit(c, cat)
  <2>1. /\ \A s \in ToSet(c.InputSlots) : s.SlotID # Nil
        /\ \A b \in ToSet(c.AssetBindings) :
             b.Asset \in DOMAIN cat.Assets /\ Ports(cat.Assets[b.Asset], InputOf(c, cat.Tools, b))
    BY <1>5
  <2>2. \A x \in Connections(c) :
          <<x.To, x.In>> \in InputPorts(c, cat) /\ InputOf(c, cat.Tools, x).Cardinality = "SINGLE"
    BY <1>9 DEF TargetFits
  <2>3. \A e \in ToSet(edges) :
          /\ e.From \in NodeIDs(c) /\ e.Out \in DOMAIN DeclOf(c, cat.Tools, e.From).Outputs
          /\ Ports(OutputOf(c, cat.Tools, e), InputOf(c, cat.Tools, e))
    BY <1>8 DEF EdgeFits
  <2>4. \A port \in InputPorts(c, cat) :
          LET given == Cardinality({x \in Connections(c) : <<x.To, x.In>> = port}) IN
          given <= 1 /\ (DeclOf(c, cat.Tools, port[1]).Inputs[port[2]].Required => given = 1)
    BY <1>10, Zenon DEF Given
  <2> QED
    BY <1>4, <1>6, <1>7, <2>1, <2>2, <2>3, <2>4, Zenon DEF ConnectionsFit
<1> QED
  BY <1>11 DEF cat

(* What the bindings of a spec say, as edges. *)
Said(n) ==
  {[From |-> b.Producer, Out |-> b.Output, To |-> n.ID, In |-> b.ChildInput] : b \in ToSet(n.Bindings)}
BindingsOf(s) == UNION {Said(n) : n \in ToSet(s.Nodes)}

(* The node that SpecOf makes of a contract's. *)
SpecNode(c, in, i) ==
  LET id == c.Nodes[i].ID
      decl == DeclOf(c, in.Tools, id) IN
  [ID |-> id, Inputs |-> DOMAIN decl.Inputs, Outputs |-> DOMAIN decl.Outputs,
   Bindings |-> [j \in {k \in DOMAIN c.DirectEdges : c.DirectEdges[k].To = id} |->
     LET e == c.DirectEdges[j] IN
     [Name |-> e.In, ChildInput |-> e.In, Producer |-> e.From, Output |-> e.Out,
      Required |-> decl.Inputs[e.In].Required]]]

(* The positions of the edges that join a pair of nodes first. *)
Firsts(c) ==
  {i \in DOMAIN c.DirectEdges :
     ~\E j \in 1..(i - 1) : Pair(c.DirectEdges[j]) = Pair(c.DirectEdges[i])}

LEMMA SpecShape ==
  ASSUME NEW c, NEW in
  PROVE  SpecOf(c, in) = [Nodes |-> [i \in DOMAIN c.Nodes |-> SpecNode(c, in, i)],
                          Edges |-> [i \in Firsts(c) |-> Pair(c.DirectEdges[i])]]
BY Zenon DEF SpecOf, SpecNode, Firsts

LEMMA SpecParts ==
  ASSUME NEW c, NEW in
  PROVE  /\ DOMAIN SpecOf(c, in).Nodes = DOMAIN c.Nodes
         /\ \A i \in DOMAIN c.Nodes : SpecOf(c, in).Nodes[i] = SpecNode(c, in, i)
         /\ DOMAIN SpecOf(c, in).Edges = Firsts(c)
         /\ \A i \in Firsts(c) : SpecOf(c, in).Edges[i] = Pair(c.DirectEdges[i])
BY SpecShape

LEMMA NodeSays ==
  ASSUME NEW c, NEW in, NEW i, IsContract(c)
  PROVE  Said(SpecNode(c, in, i)) = {e \in ToSet(c.DirectEdges) : e.To = c.Nodes[i].ID}
<1> DEFINE id == c.Nodes[i].ID
           edges == c.DirectEdges
           into == {k \in DOMAIN edges : edges[k].To = id}
           b == SpecNode(c, in, i).Bindings
           say(x) == [From |-> x.Producer, Out |-> x.Output, To |-> id, In |-> x.ChildInput]
<1>1. /\ SpecNode(c, in, i).ID = id /\ DOMAIN b = into
      /\ \A j \in into : /\ b[j].Producer = edges[j].From /\ b[j].Output = edges[j].Out
                         /\ b[j].ChildInput = edges[j].In
  BY DEF SpecNode
<1>2. \A e \in ToSet(edges) : e = [f \in {"From", "Out", "To", "In"} |-> e[f]]
  BY DEF IsContract, IsRecords
<1>3. \A j \in into : say(b[j]) = edges[j]
  <2> SUFFICES ASSUME NEW j \in into PROVE say(b[j]) = edges[j]
    OBVIOUS
  <2>1. edges[j] = [f \in {"From", "Out", "To", "In"} |-> edges[j][f]]
    BY <1>2 DEF ToSet
  <2>2. edges[j] = [From |-> edges[j].From, Out |-> edges[j].Out, To |-> edges[j].To, In |-> edges[j].In]
    BY <2>1
  <2> QED
    BY <1>1, <2>2
<1>4. Said(SpecNode(c, in, i)) = {say(x) : x \in ToSet(b)}
  BY <1>1, Zenon DEF Said
<1>5. ToSet(b) = {b[j] : j \in into}
  BY <1>1, Zenon DEF ToSet
<1> HIDE DEF b, say
<1>6. {say(x) : x \in ToSet(b)} = {edges[j] : j \in into}
  BY <1>3, <1>5
<1>7. {edges[j] : j \in into} = {e \in ToSet(edges) : e.To = id}
  BY DEF ToSet
<1> QED
  BY <1>4, <1>6, <1>7

(* Every edge of the contract is one binding of its consumer, and there are
   no others.                                                              *)
LEMMA SpecSaysEdges ==
  ASSUME NEW c, NEW in, IsContract(c), \A e \in ToSet(c.DirectEdges) : e.To \in NodeIDs(c)
  PROVE  BindingsOf(SpecOf(c, in)) = ToSet(c.DirectEdges)
<1> DEFINE s == SpecOf(c, in)
           into(id) == {e \in ToSet(c.DirectEdges) : e.To = id}
<1>1. \A i \in DOMAIN c.Nodes : Said(s.Nodes[i]) = into(c.Nodes[i].ID)
  BY SpecParts, NodeSays
<1>2. ToSet(s.Nodes) = {s.Nodes[i] : i \in DOMAIN c.Nodes}
  BY SpecParts, Zenon DEF ToSet
<1> HIDE DEF s
<1>3. BindingsOf(s) \subseteq ToSet(c.DirectEdges)
  <2> SUFFICES ASSUME NEW n \in ToSet(s.Nodes) PROVE Said(n) \subseteq ToSet(c.DirectEdges)
    BY DEF BindingsOf
  <2>1. PICK i \in DOMAIN c.Nodes : n = s.Nodes[i]
    BY <1>2
  <2> QED
    BY <1>1, <2>1
<1>4. ASSUME NEW e \in ToSet(c.DirectEdges) PROVE e \in BindingsOf(s)
  <2>1. PICK i \in DOMAIN c.Nodes : c.Nodes[i].ID = e.To
    BY DEF NodeIDs
  <2>2. e \in Said(s.Nodes[i]) /\ s.Nodes[i] \in ToSet(s.Nodes)
    BY <1>1, <1>2, <2>1
  <2> QED
    BY <2>2 DEF BindingsOf
<1>5. BindingsOf(s) = ToSet(c.DirectEdges)
  BY <1>3, <1>4
<1> QED
  BY <1>5 DEF s

(* The dependencies of a spec are the pairs of nodes its contract's edges
   join, each once.                                                        *)
LEMMA SpecDependsOnEdges ==
  ASSUME NEW c, NEW in, IsContract(c)
  PROVE  /\ ToSet(SpecOf(c, in).Edges) = {Pair(e) : e \in ToSet(c.DirectEdges)}
         /\ Cardinality(ToSet(SpecOf(c, in).Edges)) = Cardinality(DOMAIN SpecOf(c, in).Edges)
<1> DEFINE s == SpecOf(c, in)
           edges == c.DirectEdges
           F == Firsts(c)
           n == Len(edges)
<1>1. n \in Nat /\ DOMAIN edges = 1..n
  BY ListShape DEF IsContract, IsRecords
<1>2. F \subseteq 1..n
  BY <1>1 DEF Firsts
<1>3. ToSet(s.Edges) = {Pair(edges[i]) : i \in F}
  <2>1. ToSet(s.Edges) = {s.Edges[i] : i \in F}
    BY SpecParts, Zenon DEF ToSet
  <2>2. \A i \in F : s.Edges[i] = Pair(edges[i])
    BY SpecParts
  <2> HIDE DEF s, F
  <2> QED
    BY <2>1, <2>2
<1>4. ASSUME NEW e \in ToSet(edges) PROVE \E i \in F : Pair(edges[i]) = Pair(e)
  <2> DEFINE T == {k \in 1..n : Pair(edges[k]) = Pair(e)}
  <2>1. PICK k \in 1..n : e = edges[k]
    BY <1>1 DEF ToSet
  <2>2. T \in SUBSET Nat /\ T # {}
    BY <1>1, <2>1
  <2>3. PICK i \in T : \A j \in T : i <= j
    BY <2>2, Least
  <2>4. \A j \in 1..(i - 1) : Pair(edges[j]) # Pair(edges[i])
    <3> SUFFICES ASSUME NEW j \in 1..(i - 1), Pair(edges[j]) = Pair(edges[i]) PROVE FALSE
      OBVIOUS
    <3>1. j \in 1..n /\ ~(i <= j)
      BY <1>1
    <3> QED
      BY <2>3, <3>1
  <2>5. i \in F
    BY <1>1, <2>4 DEF Firsts
  <2> QED
    BY <2>5
<1>5. {Pair(edges[i]) : i \in F} = {Pair(e) : e \in ToSet(edges)}
  <2>1. \A i \in F : edges[i] \in ToSet(edges)
    BY <1>1, <1>2 DEF ToSet
  <2> HIDE DEF F
  <2> QED
    BY <1>4, <2>1
<1>6. \A i, j \in F : Pair(edges[i]) = Pair(edges[j]) => i = j
  <2> SUFFICES ASSUME NEW i \in F, NEW j \in F, Pair(edges[i]) = Pair(edges[j]), i # j PROVE FALSE
    OBVIOUS
  <2>1. i \in Nat /\ j \in Nat /\ i >= 1 /\ j >= 1
    BY <1>1, <1>2
  <2>2. i \in 1..(j - 1) \/ j \in 1..(i - 1)
    BY <2>1
  <2> QED
    BY <2>2 DEF Firsts
<1>7. Cardinality({Pair(edges[i]) : i \in F}) = Cardinality(F)
  <2> DEFINE f == [i \in F |-> Pair(edges[i])]
             T == {Pair(edges[i]) : i \in F}
  <2>1. IsFiniteSet(F)
    <3>1. IsFiniteSet(1..n)
      BY <1>1, FS_Interval
    <3> HIDE DEF F, n
    <3> QED
      BY <1>2, <3>1, FS_Subset
  <2>2. f \in Surjection(F, T)
    BY DEF Surjection
  <2>3. f \in Injection(F, T)
    BY <1>6, <2>2 DEF Injection, Surjection, IsInjective
  <2> HIDE DEF f, T, F
  <2>4. Cardinality(T) = Cardinality(F)
    BY <2>1, <2>2, <2>3, FS_Surjection
  <2> QED
    BY <2>4 DEF T
<1>8. DOMAIN s.Edges = F
  BY SpecParts
<1> HIDE DEF F, s
<1>9. /\ ToSet(s.Edges) = {Pair(e) : e \in ToSet(edges)}
      /\ Cardinality(ToSet(s.Edges)) = Cardinality(DOMAIN s.Edges)
  BY <1>3, <1>5, <1>7, <1>8, Zenon
<1> QED
  BY <1>9 DEF s

LEMMA PairCounts ==
  ASSUME NEW x, NEW y, x # y
  PROVE  Cardinality({x, y}) = 2
<1>1. IsFiniteSet({x}) /\ Cardinality({x}) = 1
  BY FS_Singleton
<1>2. y \notin {x} /\ {x, y} = {x} \cup {y}
  OBVIOUS
<1> QED
  BY <1>1, <1>2, FS_AddElement

(***************************************************************************)
(* The lowering of a committed contract under its own declarations.        *)
(***************************************************************************)
Outs(c) == {<<e.From, e.Out>> : e \in ToSet(c.DirectEdges)}

(* An output is consumed twice exactly when there are more edges than outputs. *)
LEMMA ConsumesCounts ==
  ASSUME NEW c, IsContract(c)
  PROVE  Cardinality(Outs(c)) = Len(c.DirectEdges) <=>
           \A i \in DOMAIN c.DirectEdges : ~Consumes(c, i)
<1> DEFINE edges == c.DirectEdges
           n == Len(edges)
           f == [i \in 1..n |-> <<edges[i].From, edges[i].Out>>]
<1>1. n \in Nat /\ DOMAIN edges = 1..n
  BY ListShape DEF IsContract, IsRecords
<1>2. Outs(c) = {f[i] : i \in 1..n}
  <2>1. Outs(c) = {<<edges[i].From, edges[i].Out>> : i \in 1..n}
    BY <1>1, Zenon DEF ToSet, Outs
  <2>2. \A i \in 1..n : f[i] = <<edges[i].From, edges[i].Out>>
    OBVIOUS
  <2> HIDE DEF f
  <2> QED
    BY <2>1, <2>2
<1>3. f = [i \in 1..n |-> f[i]]
  OBVIOUS
<1>4. \A i \in 1..n : \A j \in 1..n :
        f[j] = f[i] <=> edges[j].From = edges[i].From /\ edges[j].Out = edges[i].Out
  OBVIOUS
<1> HIDE DEF f
<1>5. Cardinality(Outs(c)) = n <=> \A i, j \in 1..n : f[i] = f[j] => i = j
  BY <1>1, <1>2, <1>3, CountsDistinct
<1>6. (\A i \in 1..n : ~\E j \in 1..(i - 1) : f[j] = f[i]) <=>
        \A i, j \in 1..n : f[i] = f[j] => i = j
  BY <1>1, NoEarlier
<1>7. \A i \in 1..n : (\E j \in 1..(i - 1) : f[j] = f[i]) <=> Consumes(c, i)
  <2> SUFFICES ASSUME NEW i \in 1..n
               PROVE  (\E j \in 1..(i - 1) : f[j] = f[i]) <=> Consumes(c, i)
    OBVIOUS
  <2>1. \A j \in 1..(i - 1) : j \in 1..n
    BY <1>1
  <2> QED
    BY <1>4, <2>1 DEF Consumes
<1> QED
  BY <1>1, <1>5, <1>6, <1>7

(* In a contract that connects, no edge goes where an earlier one goes. *)
LEMMA ConnectedOnce ==
  ASSUME NEW c, IsContract(c), NEW cat, ConnectionsFit(c, cat)
  PROVE  \A i \in DOMAIN c.DirectEdges : ~SameTarget(c, i)
<1> SUFFICES ASSUME NEW i \in DOMAIN c.DirectEdges, SameTarget(c, i) PROVE FALSE
  OBVIOUS
<1> DEFINE edges == c.DirectEdges
<1>1. IsList(edges) /\ DOMAIN edges = 1..Len(edges) /\ Len(edges) \in Nat
  BY ListShape DEF IsContract, IsRecords
<1>2. PICK j \in 1..(i - 1) : edges[j].To = edges[i].To /\ edges[j].In = edges[i].In
  BY DEF SameTarget
<1>3. j \in DOMAIN edges /\ j # i
  BY <1>1
<1>4. Distinct(edges) /\ Distinct(c.AssetBindings)
      /\ Cardinality({s.SlotID : s \in ToSet(c.InputSlots)}) = Len(c.InputSlots)
  BY Zenon DEF ConnectionsFit
<1>5. edges[j] # edges[i]
  BY <1>1, <1>3, <1>4, DistinctList
<1> DEFINE port == <<edges[i].To, edges[i].In>>
<1>6. edges[i] \in ToSet(edges) /\ edges[j] \in ToSet(edges)
  BY <1>3 DEF ToSet
<1>7. edges[i] \in Given(c, port) /\ edges[j] \in Given(c, port)
  BY <1>2, <1>6 DEF Given, Connections
<1>8. port \in InputPorts(c, cat)
  <2>1. edges[i] \in Connections(c)
    BY <1>6 DEF Connections
  <2> QED
    BY <2>1, Zenon DEF ConnectionsFit
<1>9. Cardinality(Given(c, port)) <= 1
  BY <1>8, Zenon DEF ConnectionsFit, Given
<1>10. IsFiniteSet(Given(c, port))
  BY <1>4, ProvidersCount
<1> HIDE DEF port
<1>11. {edges[i], edges[j]} \subseteq Given(c, port)
  BY <1>7
<1>12. Cardinality({edges[i], edges[j]}) <= Cardinality(Given(c, port))
  BY <1>10, <1>11, FS_Subset
<1>13. Cardinality({edges[i], edges[j]}) = 2
  BY <1>5, PairCounts
<1> QED
  BY <1>9, <1>10, <1>12, <1>13, FS_CardinalityType

(* A contract read back from its commit is the contract, in its form and in
   what it means, without the reserved field.                              *)
LEMMA StoredIsTwin ==
  ASSUME NEW d, IsContract(d)
  PROVE  /\ Canonicalize(Stored(d)) = Canonicalize(d)
         /\ RejectReservedCapabilities(Stored(d)) = ""
<1> DEFINE c == Stored(d)
<1>1. /\ c.Nodes = [i \in DOMAIN d.Nodes |-> [d.Nodes[i] EXCEPT !.ToolProfile = Nil]]
      /\ \A f \in DOMAIN d : f # "Nodes" => c[f] = d[f]
  BY StoredIsContract
<1>2. \A n \in ToSet(d.Nodes) : n = [f \in NodeFields |-> n[f]]
  BY DEF IsContract, IsRecords, NodeFields
<1>3. DOMAIN c.Nodes = DOMAIN d.Nodes
  BY <1>1
<1>4. \A i \in DOMAIN d.Nodes :
        /\ CanonicalNode(c.Nodes[i]) = CanonicalNode(d.Nodes[i])
        /\ c.Nodes[i].ToolProfile = Nil
  <2> SUFFICES ASSUME NEW i \in DOMAIN d.Nodes
               PROVE  /\ CanonicalNode(c.Nodes[i]) = CanonicalNode(d.Nodes[i])
                      /\ c.Nodes[i].ToolProfile = Nil
    OBVIOUS
  <2> DEFINE n == d.Nodes[i]
             m == c.Nodes[i]
  <2>1. m = [n EXCEPT !.ToolProfile = Nil]
    BY <1>1
  <2>2. n = [f \in NodeFields |-> n[f]]
    BY <1>2 DEF ToSet
  <2> HIDE DEF n, m, c
  <2>3. m.ID = n.ID /\ m.Pin = n.Pin /\ m.FixedParameters = n.FixedParameters /\ m.ToolProfile = Nil
    BY <2>1, <2>2 DEF NodeFields
  <2>4. CanonicalNode(m) = CanonicalNode(n)
    BY <2>3, Zenon DEF CanonicalNode
  <2> QED
    BY <2>3, <2>4 DEF n, m
<1>5. /\ c.SemanticDerivationVersion = d.SemanticDerivationVersion
      /\ c.CanonicalizationVersion = d.CanonicalizationVersion
      /\ c.DirectEdges = d.DirectEdges /\ c.AssetBindings = d.AssetBindings
      /\ c.InputSlots = d.InputSlots
  BY <1>1 DEF IsContract
<1> HIDE DEF c
<1>6. [i \in DOMAIN c.Nodes |-> CanonicalNode(c.Nodes[i])] =
        [i \in DOMAIN d.Nodes |-> CanonicalNode(d.Nodes[i])]
  BY <1>3, <1>4
<1>7. Canonicalize(c) = Canonicalize(d)
  BY <1>5, <1>6, Zenon DEF Canonicalize
<1>8. RejectReservedCapabilities(c) = ""
  BY <1>3, <1>4 DEF RejectReservedCapabilities, Unless
<1> QED
  BY <1>7, <1>8 DEF c

LEMMA CommittedRevision ==
  ASSUME NEW d, IsContract(d), NEW cat, WellFormed(d, cat)
  PROVE  /\ IsContract(Stored(d)) /\ WellFormed(Stored(d), cat)
         /\ VerifyRevision(RevisionOf(d)) = ""
         /\ RevisionOf(d).Contract = Stored(d)
<1>1. IsContract(Stored(d))
  BY StoredIsContract
<1>2. Canonicalize(Stored(d)) = Canonicalize(d) /\ RejectReservedCapabilities(Stored(d)) = ""
  BY StoredIsTwin
<1>3. WellFormed(Stored(d), cat)
  BY <1>1, <1>2, CanonicalWellFormed
<1>4. VersionError(Stored(d)) = ""
  BY <1>3, VersionDecides DEF WellFormed
<1>5. /\ RevisionOf(d).Contract = Stored(d) /\ RevisionOf(d).CanonicalBody = Canonicalize(d)
      /\ RevisionOf(d).Digest = Canonicalize(d)
  BY Zenon DEF RevisionOf
<1>6. VerifyRevision(RevisionOf(d)) = ""
  BY <1>2, <1>4, <1>5 DEF VerifyRevision, Else, Unless
<1> QED
  BY <1>1, <1>3, <1>5, <1>6

(* Without drift, the checks of Lower refuse nothing but what is outside the
   lowering slice.                                                         *)
LEMMA LoweringDecides ==
  ASSUME NEW d, IsContract(d), NEW cat, WellFormed(d, cat),
         NEW in, FrozenError(in) = "", in.Authorization = "ALLOW", in.Tools = cat.Tools,
         {n.Pin : n \in ToSet(Stored(d).Nodes)} \subseteq in.Runnables
  PROVE  LowerError(RevisionOf(d), in) = IF Representable(Stored(d)) THEN "" ELSE "NOT_REPRESENTABLE"
<1> DEFINE c == Stored(d)
           plain == /\ c.AssetBindings = <<>> /\ c.InputSlots = <<>>
                    /\ \A n \in ToSet(c.Nodes) : n.FixedParameters = <<>>
           nodes == [i \in DOMAIN c.Nodes |-> LowerNodeError(c, in, i)]
           edges == [i \in DOMAIN c.DirectEdges |-> LowerEdgeError(c, in, i)]
           decision == AuthorizationError(in.Authorization)
           unbound == UnboundError(c, in)
<1>1. IsContract(c) /\ WellFormed(c, cat) /\ VerifyRevision(RevisionOf(d)) = ""
      /\ RevisionOf(d).Contract = c
  BY CommittedRevision
<1>2. NodesFit(c, cat) /\ ConnectionsFit(c, cat)
  BY <1>1 DEF WellFormed
<1>3. LowerError(RevisionOf(d), in) =
        Else(FrozenError(in), Else(VerifyRevision(RevisionOf(d)), Else(CheckProfile(c), Else(decision,
          Else(FirstError(nodes), Else(FirstError(edges), unbound))))))
  BY <1>1, Zenon DEF LowerError
<1>4. decision = ""
  BY DEF AuthorizationError
<1>5. CheckProfile(c) = IF plain THEN "" ELSE "NOT_REPRESENTABLE"
  <2>1. \A n \in ToSet(c.Nodes) : n.ToolProfile = Nil
    BY <1>2 DEF NodesFit
  <2> HIDE DEF c
  <2> QED
    BY <1>1, <2>1, ProfileDecides
<1> HIDE DEF c
<1>6. DOMAIN nodes \subseteq Nat /\ DOMAIN edges \subseteq Nat
  BY <1>1, ContractDomains
<1>7. FirstError(nodes) = ""
  <2>1. Cardinality(NodeIDs(c)) = Len(c.Nodes) /\ Nil \notin NodeIDs(c)
    BY <1>2 DEF NodesFit
  <2>2. IsList(c.Nodes)
    BY <1>1 DEF IsContract, IsRecords
  <2>3. NodeIDs(c) = {n.ID : n \in ToSet(c.Nodes)}
    BY Zenon DEF NodeIDs, ToSet
  <2>4. \A i \in DOMAIN c.Nodes : ~\E j \in 1..(i - 1) : c.Nodes[j].ID = c.Nodes[i].ID
    <3>1. Cardinality({n["ID"] : n \in ToSet(c.Nodes)}) = Len(c.Nodes)
      BY <2>1, <2>3
    <3> QED
      BY <2>2, <3>1, DistinctField
  <2>5. \A i \in DOMAIN c.Nodes :
          /\ c.Nodes[i].ID # Nil /\ c.Nodes[i].Pin \in DOMAIN in.Tools
          /\ c.Nodes[i].Pin \in in.Runnables
    <3> SUFFICES ASSUME NEW i \in DOMAIN c.Nodes
                 PROVE  /\ c.Nodes[i].ID # Nil /\ c.Nodes[i].Pin \in DOMAIN in.Tools
                        /\ c.Nodes[i].Pin \in in.Runnables
      OBVIOUS
    <3>1. c.Nodes[i] \in ToSet(c.Nodes) /\ c.Nodes[i].ID \in NodeIDs(c)
      BY DEF ToSet, NodeIDs
    <3>2. c.Nodes[i].Pin \in DOMAIN in.Tools
      BY <1>2, <3>1 DEF NodesFit
    <3>3. c.Nodes[i].Pin \in in.Runnables
      BY <3>1 DEF c
    <3> QED
      BY <2>1, <3>1, <3>2, <3>3
  <2>6. \A i \in DOMAIN c.Nodes : LowerNodeError(c, in, i) = ""
    BY <2>4, <2>5, LowerNodeDecides
  <2>7. \A i \in DOMAIN nodes : nodes[i] = ""
    BY <2>6
  <2> HIDE DEF nodes
  <2> QED
    BY <1>6, <2>7, FirstErrorDecides
<1>8. FirstError(edges) = IF \A i \in DOMAIN c.DirectEdges : ~Consumes(c, i) THEN "" ELSE "NOT_REPRESENTABLE"
  <2>1. \A i \in DOMAIN c.DirectEdges : ~SameTarget(c, i)
    BY <1>1, <1>2, ConnectedOnce
  <2>2. \A i \in DOMAIN c.DirectEdges : EdgeFits(c, in, c.DirectEdges[i])
    <3>1. \A e \in ToSet(c.DirectEdges) : EdgeFits(c, cat, e)
      BY <1>2, Zenon DEF ConnectionsFit, EdgeFits, TargetFits, Connections
    <3>2. \A e : EdgeFits(c, cat, e) <=> EdgeFits(c, in, e)
      <4>1. InputPorts(c, cat) = InputPorts(c, in)
        BY Zenon DEF InputPorts
      <4> QED
        BY <4>1, Zenon DEF EdgeFits, TargetFits
    <3> QED
      BY <3>1, <3>2 DEF ToSet
  <2>3. \A i \in DOMAIN edges : edges[i] = IF Consumes(c, i) THEN "NOT_REPRESENTABLE" ELSE ""
    BY <2>1, <2>2, LowerEdgeDecides
  <2>4. DOMAIN edges = DOMAIN c.DirectEdges
    OBVIOUS
  <2> HIDE DEF edges
  <2>5. \A i \in DOMAIN edges : edges[i] \in {"", "NOT_REPRESENTABLE"}
    BY <2>3
  <2>6. FirstError(edges) = IF \E i \in DOMAIN edges : edges[i] = "NOT_REPRESENTABLE"
                              THEN "NOT_REPRESENTABLE" ELSE ""
    BY <1>6, <2>5, FirstErrorAmong
  <2> QED
    BY <2>3, <2>4, <2>6
<1>9. ASSUME plain PROVE unbound = ""
  <2>1. Connections(c) = ToSet(c.DirectEdges)
    BY <1>9, EmptyListIsEmpty DEF Connections
  <2>2. ASSUME NEW port \in InputPorts(c, in), DeclOf(c, in.Tools, port[1]).Inputs[port[2]].Required
        PROVE  \E e \in ToSet(c.DirectEdges) : e.To = port[1] /\ e.In = port[2]
    <3>1. port \in InputPorts(c, cat) /\ DeclOf(c, cat.Tools, port[1]).Inputs[port[2]].Required
      BY <2>2, Zenon DEF InputPorts
    <3>2. Cardinality(Given(c, port)) = 1
      BY <1>2, <3>1, Zenon DEF ConnectionsFit, Given
    <3>3. Given(c, port) # {}
      BY <3>2, SmallSets, Zenon
    <3>4. PICK e : e \in Given(c, port)
      BY <3>3
    <3>5. e \in ToSet(c.DirectEdges) /\ <<e.To, e.In>> = port
      BY <2>1, <3>4 DEF Given
    <3>6. e.To = port[1] /\ e.In = port[2]
      BY <3>5
    <3> QED
      BY <3>5, <3>6
  <2> QED
    BY <2>2, UnboundDecides
<1>10. Representable(c) <=> plain /\ \A i \in DOMAIN c.DirectEdges : ~Consumes(c, i)
  <2>1. Cardinality(Outs(c)) = Len(c.DirectEdges) <=> \A i \in DOMAIN c.DirectEdges : ~Consumes(c, i)
    BY <1>1, ConsumesCounts
  <2> QED
    BY <2>1, Zenon DEF Representable, Outs
<1> HIDE DEF nodes, edges, plain, decision, unbound
<1>11. LowerError(RevisionOf(d), in) = IF Representable(c) THEN "" ELSE "NOT_REPRESENTABLE"
  BY <1>1, <1>3, <1>4, <1>5, <1>7, <1>8, <1>9, <1>10 DEF Else
<1> QED
  BY <1>11 DEF c

(***************************************************************************)
(* CheckSpec agrees with what Lower built of a committed contract.         *)
(***************************************************************************)
LEMMA SpecHasTheNodes ==
  ASSUME NEW c, NEW in
  PROVE  /\ SpecIDs(SpecOf(c, in)) = NodeIDs(c)
         /\ \A i \in DOMAIN c.Nodes : SpecOf(c, in).Nodes[i].ID = c.Nodes[i].ID
<1>1. \A i \in DOMAIN c.Nodes : SpecOf(c, in).Nodes[i].ID = c.Nodes[i].ID
  <2>1. \A i : SpecNode(c, in, i).ID = c.Nodes[i].ID
    BY DEF SpecNode
  <2>2. \A i \in DOMAIN c.Nodes : SpecOf(c, in).Nodes[i] = SpecNode(c, in, i)
    BY SpecParts
  <2> QED
    BY <2>1, <2>2, Zenon
<1>2. DOMAIN SpecOf(c, in).Nodes = DOMAIN c.Nodes
  BY SpecParts
<1>3. SpecIDs(SpecOf(c, in)) = NodeIDs(c)
  BY <1>1, <1>2 DEF SpecIDs, NodeIDs
<1> QED
  BY <1>1, <1>3

LEMMA SpecGraphIsGraph ==
  ASSUME NEW c, NEW in, IsContract(c)
  PROVE  SpecGraph(SpecOf(c, in)) = GraphOf(c)
<1> DEFINE s == SpecOf(c, in)
<1>1. SpecIDs(s) = NodeIDs(c)
  BY SpecHasTheNodes
<1>2. ToSet(s.Edges) = {Pair(e) : e \in ToSet(c.DirectEdges)}
  BY SpecDependsOnEdges
<1>3. ASSUME NEW id
      PROVE  {e[2] : e \in {d \in ToSet(s.Edges) : d[1] = id}} =
               {e.To : e \in {d \in ToSet(c.DirectEdges) : d.From = id}}
  <2> DEFINE Led == {e[2] : e \in {d \in ToSet(s.Edges) : d[1] = id}}
             Meant == {e.To : e \in {d \in ToSet(c.DirectEdges) : d.From = id}}
  <2>1. ASSUME NEW x \in Meant PROVE x \in Led
    <3>1. PICK e \in ToSet(c.DirectEdges) : e.From = id /\ x = e.To
      OBVIOUS
    <3>2. Pair(e) \in ToSet(s.Edges) /\ Pair(e)[1] = id /\ Pair(e)[2] = x
      BY <1>2, <3>1 DEF Pair
    <3> HIDE DEF s
    <3> QED
      BY <3>2
  <2>2. ASSUME NEW x \in Led PROVE x \in Meant
    <3>1. PICK p \in ToSet(s.Edges) : p[1] = id /\ x = p[2]
      OBVIOUS
    <3>2. PICK e \in ToSet(c.DirectEdges) : p = Pair(e)
      BY <1>2
    <3>3. e.From = id /\ e.To = x
      BY <3>1, <3>2 DEF Pair
    <3> QED
      BY <3>3
  <2> HIDE DEF Led, Meant
  <2>3. Led = Meant
    BY <2>1, <2>2
  <2> QED
    BY <2>3 DEF Led, Meant
<1> HIDE DEF s
<1>4. SpecGraph(s) = [id \in NodeIDs(c) |-> {e[2] : e \in {d \in ToSet(s.Edges) : d[1] = id}}]
  BY <1>1, Zenon DEF SpecGraph
<1>5. SpecGraph(s) = GraphOf(c)
  BY <1>3, <1>4, Zenon DEF GraphOf
<1> QED
  BY <1>5 DEF s

LEMMA ShapeDecides ==
  ASSUME NEW c, IsContract(c), NEW cat, WellFormed(c, cat), NEW in
  PROVE  SpecShapeError(SpecOf(c, in)) = IF c.Nodes = <<>> THEN "INVALID_CONTRACT" ELSE ""
<1> DEFINE s == SpecOf(c, in)
           list == c.DirectEdges
<1>1. /\ DOMAIN s.Nodes = DOMAIN c.Nodes /\ DOMAIN s.Edges = Firsts(c)
      /\ \A i \in Firsts(c) : s.Edges[i] = Pair(list[i])
      /\ \A i \in DOMAIN c.Nodes : s.Nodes[i].ID = c.Nodes[i].ID
      /\ SpecIDs(s) = NodeIDs(c)
  BY SpecParts, SpecHasTheNodes
<1>2. DOMAIN c.Nodes \subseteq Nat /\ Firsts(c) \subseteq DOMAIN list
      /\ DOMAIN list = 1..Len(list) /\ Len(list) \in Nat
  BY ContractDomains, ListShape DEF Firsts, IsContract, IsRecords
<1>3. s.Nodes = <<>> <=> c.Nodes = <<>>
  <2>1. s.Nodes = [i \in DOMAIN c.Nodes |-> SpecNode(c, in, i)]
    BY SpecShape
  <2>2. c.Nodes \in Seq(ToSet(c.Nodes)) /\ DOMAIN c.Nodes = 1..Len(c.Nodes) /\ Len(c.Nodes) \in Nat
    BY ListShape DEF IsContract, IsRecords, IsList
  <2> DEFINE n == Len(c.Nodes)
             T == {SpecNode(c, in, i) : i \in 1..n}
  <2>3. s.Nodes \in Seq(T) /\ Len(s.Nodes) = n
    <3>1. s.Nodes \in [1..n -> T]
      BY <2>1, <2>2
    <3> HIDE DEF s, T
    <3> QED
      BY <2>2, <3>1, SeqDef, LenProperties
  <2>4. c.Nodes = <<>> <=> n = 0
    BY <2>2, EmptySeq
  <2> HIDE DEF s, T, n
  <2>5. s.Nodes = <<>> <=> n = 0
    BY <2>3, EmptySeq
  <2> QED
    BY <2>4, <2>5
<1>4. /\ Cardinality(NodeIDs(c)) = Len(c.Nodes) /\ Nil \notin NodeIDs(c)
      /\ IsList(c.Nodes) /\ NodeIDs(c) = {n["ID"] : n \in ToSet(c.Nodes)}
  <2>1. NodeIDs(c) = {n["ID"] : n \in ToSet(c.Nodes)}
    BY Zenon DEF NodeIDs, ToSet
  <2> QED
    BY <2>1 DEF WellFormed, NodesFit, IsContract, IsRecords
<1> HIDE DEF s
<1> DEFINE nodes == [i \in DOMAIN s.Nodes |->
              IF s.Nodes[i].ID = Nil THEN "INVALID_CONTRACT"
              ELSE Unless(~\E j \in 1..(i - 1) : s.Nodes[j].ID = s.Nodes[i].ID, "DUPLICATE")]
           edges == [i \in DOMAIN s.Edges |-> SpecEdgeError(s, i)]
<1>5. FirstError(nodes) = ""
  <2>1. \A i \in DOMAIN c.Nodes : ~\E j \in 1..(i - 1) : c.Nodes[j].ID = c.Nodes[i].ID
    <3>1. Cardinality({n["ID"] : n \in ToSet(c.Nodes)}) = Len(c.Nodes)
      BY <1>4
    <3> QED
      BY <1>4, <3>1, DistinctField
  <2>2. \A i \in DOMAIN c.Nodes : ~\E j \in 1..(i - 1) : s.Nodes[j].ID = s.Nodes[i].ID
    <3>1. \A i \in DOMAIN c.Nodes : \A j \in 1..(i - 1) : j \in DOMAIN c.Nodes
      BY <1>4, ListShape
    <3> QED
      BY <1>1, <2>1, <3>1
  <2>3. \A i \in DOMAIN c.Nodes : s.Nodes[i].ID # Nil
    BY <1>1, <1>4 DEF NodeIDs
  <2>4. DOMAIN nodes \subseteq Nat /\ \A i \in DOMAIN nodes : nodes[i] = ""
    BY <1>1, <1>2, <2>2, <2>3 DEF Unless
  <2> HIDE DEF nodes
  <2> QED
    BY <2>4, FirstErrorDecides
<1>6. FirstError(edges) = ""
  <2>1. ASSUME NEW i \in Firsts(c) PROVE SpecEdgeError(s, i) = ""
    <3> DEFINE e == list[i]
    <3>1. e \in ToSet(list)
      BY <1>2 DEF ToSet
    <3>2. e.From \in NodeIDs(c) /\ e.To \in NodeIDs(c)
      <4>1. /\ e.From \in NodeIDs(c) /\ <<e.To, e.In>> \in InputPorts(c, cat)
        BY <3>1, Zenon DEF WellFormed, ConnectionsFit, Connections
      <4> QED
        BY <4>1, InputPortsOfNodes
    <3>3. e.From # e.To
      <4> SUFFICES ASSUME e.From = e.To PROVE FALSE
        OBVIOUS
      <4>1. e.To \in GraphOf(c)[e.From]
        BY <3>1, <3>2 DEF GraphOf
      <4>2. DOMAIN GraphOf(c) = NodeIDs(c) /\ GraphAcyclic(GraphOf(c))
        BY DEF WellFormed, GraphOf
      <4>3. {e.From} \in SUBSET DOMAIN GraphOf(c) /\ {e.From} # {}
        BY <3>2, <4>2
      <4>4. PICK u \in {e.From} : GraphOf(c)[u] \cap {e.From} = {}
        BY <4>2, <4>3 DEF GraphAcyclic
      <4> QED
        BY <4>1, <4>4
    <3>4. ~\E j \in DOMAIN s.Edges : j < i /\ s.Edges[j] = s.Edges[i]
      <4> SUFFICES ASSUME NEW j \in Firsts(c), j < i, s.Edges[j] = s.Edges[i] PROVE FALSE
        BY <1>1
      <4>1. j \in 1..(i - 1)
        BY <1>2
      <4>2. Pair(list[j]) = Pair(list[i])
        BY <1>1
      <4> QED
        BY <4>1, <4>2 DEF Firsts
    <3>5. s.Edges[i] = <<e.From, e.To>>
      BY <1>1 DEF Pair
    <3> HIDE DEF e
    <3>6. s.Edges[i][1] = e.From /\ s.Edges[i][2] = e.To
      BY <3>5
    <3> QED
      BY <1>1, <3>2, <3>3, <3>4, <3>6 DEF SpecEdgeError, Unless
  <2>2. DOMAIN edges = Firsts(c) /\ \A i \in DOMAIN edges : edges[i] = SpecEdgeError(s, i)
    BY <1>1
  <2>3. Firsts(c) \subseteq Nat
    BY <1>2
  <2> HIDE DEF edges
  <2>4. DOMAIN edges \subseteq Nat /\ \A i \in DOMAIN edges : edges[i] = ""
    BY <2>1, <2>2, <2>3
  <2> QED
    BY <2>4, FirstErrorDecides
<1>7. SpecShapeError(s) =
        IF s.Nodes = <<>> THEN "INVALID_CONTRACT" ELSE Else(FirstError(nodes), FirstError(edges))
  BY DEF SpecShapeError
<1> HIDE DEF nodes, edges
<1>8. SpecShapeError(s) = IF c.Nodes = <<>> THEN "INVALID_CONTRACT" ELSE ""
  BY <1>3, <1>5, <1>6, <1>7 DEF Else
<1> QED
  BY <1>8 DEF s

Unnamed(e) == Nil \in {e.Out, e.In}

(* Each binding made of a committed contract's edge is sound, and refused for
   nothing but a port without a name.                                      *)
LEMMA BoundDecides ==
  ASSUME NEW c, IsContract(c), NEW cat, WellFormed(c, cat), NEW in, in.Tools = cat.Tools,
         NEW i \in DOMAIN c.Nodes,
         NEW k \in DOMAIN c.DirectEdges, c.DirectEdges[k].To = c.Nodes[i].ID
  PROVE  BoundError(SpecOf(c, in), SpecNode(c, in, i), k) =
           IF Unnamed(c.DirectEdges[k]) THEN "INVALID_CONTRACT" ELSE ""
<1> DEFINE s == SpecOf(c, in)
           m == SpecNode(c, in, i)
           edges == c.DirectEdges
           e == edges[k]
           b == m.Bindings[k]
           into == {j \in DOMAIN edges : edges[j].To = c.Nodes[i].ID}
<1>1. ConnectionsFit(c, cat) /\ Nil \notin NodeIDs(c) /\ e \in ToSet(edges)
  BY DEF WellFormed, NodesFit, ToSet
<1>2. /\ e.From \in NodeIDs(c) /\ e.Out \in DOMAIN DeclOf(c, in.Tools, e.From).Outputs
      /\ <<e.To, e.In>> \in InputPorts(c, cat)
  BY <1>1, Zenon DEF ConnectionsFit, Connections
<1>3. e.In \in DOMAIN DeclOf(c, in.Tools, e.To).Inputs
  BY <1>2 DEF InputPorts
<1>4. /\ b.Name = e.In /\ b.ChildInput = e.In /\ b.Producer = e.From /\ b.Output = e.Out
      /\ m.ID = e.To /\ m.Inputs = DOMAIN DeclOf(c, in.Tools, e.To).Inputs
      /\ DOMAIN m.Bindings = into
      /\ \A j \in into : m.Bindings[j].Name = edges[j].In
  BY DEF SpecNode
<1>5. ~\E j \in DOMAIN m.Bindings : j < k /\ m.Bindings[j].Name = b.Name
  <2> SUFFICES ASSUME NEW j \in into, j < k, m.Bindings[j].Name = b.Name PROVE FALSE
    BY <1>4
  <2>1. edges[j].In = e.In /\ edges[j].To = e.To
    BY <1>4
  <2>2. j \in 1..(k - 1)
    <3>1. DOMAIN edges = 1..Len(edges) /\ Len(edges) \in Nat
      BY ListShape DEF IsContract, IsRecords
    <3> HIDE DEF m, b
    <3> QED
      BY <3>1
  <2>3. ~SameTarget(c, k)
    BY <1>1, ConnectedOnce
  <2> HIDE DEF m, b
  <2> QED
    BY <2>1, <2>2, <2>3 DEF SameTarget
<1>6. \E n \in ToSet(s.Nodes) : n.ID = e.From /\ e.Out \in n.Outputs
  <2>1. PICK p \in DOMAIN c.Nodes : c.Nodes[p].ID = e.From
    BY <1>2 DEF NodeIDs
  <2>2. s.Nodes[p] \in ToSet(s.Nodes) /\ s.Nodes[p] = SpecNode(c, in, p)
    BY SpecParts DEF ToSet
  <2>3. SpecNode(c, in, p).ID = e.From
        /\ SpecNode(c, in, p).Outputs = DOMAIN DeclOf(c, in.Tools, e.From).Outputs
    BY <2>1 DEF SpecNode
  <2> HIDE DEF s, e
  <2> QED
    BY <1>2, <2>2, <2>3, Zenon
<1>7. <<e.From, e.To>> \in ToSet(s.Edges)
  <2>1. ToSet(s.Edges) = {Pair(x) : x \in ToSet(edges)}
    BY SpecDependsOnEdges
  <2> HIDE DEF s, e
  <2> QED
    BY <1>1, <2>1 DEF Pair
<1>8. <<b.Producer, m.ID>> = <<e.From, e.To>>
  BY <1>4
<1> HIDE DEF s, m, b, e
<1>9. BindingSound(s, m, k)
  <2>1. /\ b.ChildInput = b.Name /\ b.ChildInput \in m.Inputs
    BY <1>3, <1>4
  <2>2. \E n \in ToSet(s.Nodes) : n.ID = b.Producer /\ b.Output \in n.Outputs
    BY <1>4, <1>6
  <2>3. <<b.Producer, m.ID>> \in ToSet(s.Edges)
    BY <1>7, <1>8
  <2> QED
    BY <1>5, <2>1, <2>2, <2>3, Zenon DEF BindingSound, b
<1>10. Nil \in {b.Name, b.Producer, b.Output} <=> Unnamed(e)
  BY <1>1, <1>2, <1>4 DEF Unnamed
<1>11. BoundError(s, m, k) = IF Nil \in {b.Name, b.Producer, b.Output} THEN "INVALID_CONTRACT"
                             ELSE Unless(BindingSound(s, m, k), "SAME_SOURCE_VIOLATION")
  BY Zenon DEF BoundError, b
<1>12. BoundError(s, m, k) = IF Unnamed(e) THEN "INVALID_CONTRACT" ELSE ""
  BY <1>9, <1>10, <1>11 DEF Unless
<1> QED
  BY <1>12 DEF s, m, e

(* CheckSpec refuses what Lower built of a committed contract, after its
   search, for an edge of a port without a name and for nothing else.      *)
LEMMA SameSourceDecides ==
  ASSUME NEW c, IsContract(c), NEW cat, WellFormed(c, cat), NEW in, in.Tools = cat.Tools
  PROVE  SameSourceError(SpecOf(c, in)) =
           IF \E e \in ToSet(c.DirectEdges) : Unnamed(e) THEN "INVALID_CONTRACT" ELSE ""
<1> DEFINE s == SpecOf(c, in)
           edges == c.DirectEdges
           into(i) == {j \in DOMAIN edges : edges[j].To = c.Nodes[i].ID}
           bound(i) == [k \in DOMAIN s.Nodes[i].Bindings |-> BoundError(s, s.Nodes[i], k)]
           errs == [i \in DOMAIN s.Nodes |-> FirstError(bound(i))]
           Refused(i) == \E k \in into(i) : Unnamed(edges[k])
           Joined == \A e \in ToSet(s.Edges) : \E n \in ToSet(s.Nodes) :
                       n.ID = e[2] /\ \E k \in DOMAIN n.Bindings : n.Bindings[k].Producer = e[1]
<1>1. /\ DOMAIN s.Nodes = DOMAIN c.Nodes
      /\ \A i \in DOMAIN c.Nodes : s.Nodes[i] = SpecNode(c, in, i)
  BY SpecParts
<1>2. \A i \in DOMAIN c.Nodes :
        /\ s.Nodes[i].ID = c.Nodes[i].ID /\ DOMAIN s.Nodes[i].Bindings = into(i)
        /\ \A k \in into(i) : s.Nodes[i].Bindings[k].Producer = edges[k].From
  <2>1. \A i : /\ SpecNode(c, in, i).ID = c.Nodes[i].ID /\ DOMAIN SpecNode(c, in, i).Bindings = into(i)
               /\ \A k \in into(i) : SpecNode(c, in, i).Bindings[k].Producer = edges[k].From
    BY DEF SpecNode
  <2> HIDE DEF s, into
  <2> QED
    BY <1>1, <2>1
<1>3. DOMAIN edges \subseteq Nat /\ DOMAIN c.Nodes \subseteq Nat
  BY ContractDomains
<1>4. \A e \in ToSet(edges) : e.To \in NodeIDs(c)
  <2> SUFFICES ASSUME NEW e \in ToSet(edges) PROVE e.To \in NodeIDs(c)
    OBVIOUS
  <2>1. <<e.To, e.In>> \in InputPorts(c, cat)
    BY Zenon DEF WellFormed, ConnectionsFit, Connections
  <2> QED
    BY <2>1, InputPortsOfNodes
<1>5. \A i \in DOMAIN c.Nodes : \A k \in into(i) :
        BoundError(s, s.Nodes[i], k) = IF Unnamed(edges[k]) THEN "INVALID_CONTRACT" ELSE ""
  <2> SUFFICES ASSUME NEW i \in DOMAIN c.Nodes, NEW k \in into(i)
               PROVE  BoundError(s, s.Nodes[i], k) = IF Unnamed(edges[k]) THEN "INVALID_CONTRACT" ELSE ""
    OBVIOUS
  <2>1. BoundError(s, SpecNode(c, in, i), k) = IF Unnamed(edges[k]) THEN "INVALID_CONTRACT" ELSE ""
    BY BoundDecides
  <2> HIDE DEF s
  <2> QED
    BY <1>1, <2>1
<1>6. \A i \in DOMAIN c.Nodes : FirstError(bound(i)) = IF Refused(i) THEN "INVALID_CONTRACT" ELSE ""
  <2> SUFFICES ASSUME NEW i \in DOMAIN c.Nodes
               PROVE  FirstError(bound(i)) = IF Refused(i) THEN "INVALID_CONTRACT" ELSE ""
    OBVIOUS
  <2> DEFINE list == bound(i)
  <2>1. DOMAIN list = into(i) /\ \A k \in into(i) : list[k] = BoundError(s, s.Nodes[i], k)
    BY <1>2
  <2>2. into(i) \subseteq Nat
    BY <1>3
  <2> HIDE DEF list, s
  <2>3. DOMAIN list \subseteq Nat /\ \A k \in DOMAIN list : list[k] \in {"", "INVALID_CONTRACT"}
    BY <1>5, <2>1, <2>2
  <2>4. FirstError(list) =
          IF \E k \in DOMAIN list : list[k] = "INVALID_CONTRACT" THEN "INVALID_CONTRACT" ELSE ""
    BY <2>3, FirstErrorAmong
  <2>5. (\E k \in DOMAIN list : list[k] = "INVALID_CONTRACT") <=> Refused(i)
    BY <1>5, <2>1
  <2>6. FirstError(list) = IF Refused(i) THEN "INVALID_CONTRACT" ELSE ""
    BY <2>4, <2>5
  <2> QED
    BY <2>6 DEF list
<1>7. /\ DOMAIN errs = DOMAIN c.Nodes
      /\ \A i \in DOMAIN c.Nodes : errs[i] = IF Refused(i) THEN "INVALID_CONTRACT" ELSE ""
  <2> HIDE DEF s, Refused
  <2> QED
    BY <1>1, <1>6
<1>8. (\E i \in DOMAIN c.Nodes : Refused(i)) <=> \E e \in ToSet(edges) : Unnamed(e)
  <2>1. ASSUME NEW e \in ToSet(edges), Unnamed(e) PROVE \E i \in DOMAIN c.Nodes : Refused(i)
    <3>1. PICK k \in DOMAIN edges : e = edges[k]
      BY DEF ToSet
    <3>2. PICK i \in DOMAIN c.Nodes : c.Nodes[i].ID = e.To
      BY <1>4 DEF NodeIDs
    <3>3. k \in into(i)
      BY <3>1, <3>2
    <3> QED
      BY <2>1, <3>1, <3>2, <3>3
  <2>2. ASSUME NEW i \in DOMAIN c.Nodes, Refused(i) PROVE \E e \in ToSet(edges) : Unnamed(e)
    <3>1. PICK k \in into(i) : Unnamed(edges[k])
      BY <2>2
    <3>2. edges[k] \in ToSet(edges)
      BY DEF ToSet
    <3> QED
      BY <3>1, <3>2
  <2> QED
    BY <2>1, <2>2
<1>9. Joined
  <2> SUFFICES ASSUME NEW p \in ToSet(s.Edges)
               PROVE  \E n \in ToSet(s.Nodes) :
                        n.ID = p[2] /\ \E k \in DOMAIN n.Bindings : n.Bindings[k].Producer = p[1]
    OBVIOUS
  <2>1. PICK e \in ToSet(edges) : p = Pair(e)
    BY SpecDependsOnEdges
  <2>2. PICK k \in DOMAIN edges : e = edges[k]
    BY DEF ToSet
  <2>3. PICK i \in DOMAIN c.Nodes : c.Nodes[i].ID = e.To
    BY <1>4 DEF NodeIDs
  <2>4. k \in into(i) /\ p[1] = e.From /\ p[2] = e.To
    BY <2>1, <2>2, <2>3 DEF Pair
  <2>5. s.Nodes[i] \in ToSet(s.Nodes)
    BY <1>1, Zenon DEF ToSet
  <2>6. s.Nodes[i].ID = p[2] /\ k \in DOMAIN s.Nodes[i].Bindings /\ s.Nodes[i].Bindings[k].Producer = p[1]
    <3> HIDE DEF s, into
    <3> QED
      BY <1>2, <2>2, <2>3, <2>4
  <2> QED
    BY <2>5, <2>6, Zenon
<1>10. SameSourceError(s) = Else(FirstError(errs), Unless(Joined, "SAME_SOURCE_VIOLATION"))
  BY Zenon DEF SameSourceError
<1>11. Unless(Joined, "SAME_SOURCE_VIOLATION") = ""
  BY <1>9, Zenon DEF Unless
<1> HIDE DEF errs, Joined, Refused
<1>12. FirstError(errs) = IF \E i \in DOMAIN c.Nodes : Refused(i) THEN "INVALID_CONTRACT" ELSE ""
  <2>1. DOMAIN errs \subseteq Nat /\ \A i \in DOMAIN errs : errs[i] \in {"", "INVALID_CONTRACT"}
    BY <1>3, <1>7
  <2>2. FirstError(errs) =
          IF \E i \in DOMAIN errs : errs[i] = "INVALID_CONTRACT" THEN "INVALID_CONTRACT" ELSE ""
    BY <2>1, FirstErrorAmong
  <2> QED
    BY <1>7, <2>2
<1> HIDE DEF s
<1>13. SameSourceError(s) = IF \E e \in ToSet(edges) : Unnamed(e) THEN "INVALID_CONTRACT" ELSE ""
  BY <1>8, <1>10, <1>11, <1>12 DEF Else
<1> QED
  BY <1>13 DEF s

(***************************************************************************)
(* Every step keeps FlowInv.                                               *)
(***************************************************************************)

(* What a search that ended says of a graph, in the words of the flow. *)
LEMMA SearchedGraphAcyclic ==
  ASSUME SearchInv, SearchDone, found = NoNode
  PROVE  GraphAcyclic(succ)
<1>1. Acyclic
  BY InvAcceptsAcyclic DEF AcceptedIsAcyclic
<1> QED
  BY <1>1 DEF Acyclic, Recurs, GraphAcyclic, Nodes

(* A search that ended with a node has a cycle of its graph on its stack. *)
LEMMA SearchedGraphCyclic ==
  ASSUME SearchInv, found # NoNode
  PROVE  ~GraphAcyclic(succ)
<1>1. PICK k \in 1..Len(stack) :
        /\ stack[k].Node = found
        /\ found \in succ[Top.Node]
        /\ \A i \in k..(Len(stack) - 1) : stack[i + 1].Node \in succ[stack[i].Node]
  BY InvCycleIsReal DEF CycleIsReal
<1> DEFINE n == Len(stack)
           S == {stack[i].Node : i \in k..n}
<1>2. n \in Nat /\ \A i \in 1..n : stack[i].Node \in Nodes
  <2>1. stack \in Seq(Frames)
    BY DEF SearchInv, SearchTypeOK, Frames
  <2>2. \A i \in 1..n : stack[i] \in Frames
    BY <2>1, ElementOfSeq
  <2> QED
    BY <2>1, <2>2 DEF Frames
<1>3. S \in SUBSET DOMAIN succ /\ S # {}
  BY <1>2 DEF Nodes
<1>4. ASSUME NEW u \in S PROVE succ[u] \cap S # {}
  <2>1. PICK i \in k..n : u = stack[i].Node
    OBVIOUS
  <2>2. CASE i = n
    <3>1. found \in S
      BY <1>1, <1>2
    <3> QED
      BY <1>1, <2>1, <2>2, <3>1 DEF Top
  <2>3. CASE i # n
    <3>1. i \in k..(n - 1) /\ i + 1 \in k..n
      BY <1>2, <2>3
    <3> QED
      BY <1>1, <2>1, <3>1
  <2> QED
    BY <2>2, <2>3
<1> HIDE DEF S
<1> QED
  BY <1>3, <1>4 DEF GraphAcyclic

LEMMA FlowStart == Init => FlowInv
<1> SUFFICES ASSUME Init PROVE FlowInv
  OBVIOUS
<1>1. SearchInv
  BY EmptySearch DEF Init
<1> QED
  BY <1>1 DEF Init, FlowInv

LEMMA SubmitKeeps ==
  ASSUME FlowInv, NEW s, NEW cat, "Contract" \in DOMAIN s, IsContract(s.Contract),
         Submit(s, cat)
  PROVE  FlowInv'
<1> DEFINE c == s.Contract
           refusal == Else(RejectReservedCapabilities(c),
                           IF committed # Nil /\ Canonicalize(c) = Canonicalize(committed.Contract)
                             THEN "CONVERGED" ELSE ValidateError(c, cat))
<1>1. submission' = s /\ body' = c /\ committed' = committed
  BY DEF Submit, body
<1>2. \/ pc' \in {"unread", "answered"} /\ UNCHANGED searchVars
      \/ refusal = "" /\ pc' = "validating" /\ StartSearch(GraphOf(c))
  BY DEF Submit, Answer
<1>3. CASE pc' \in {"unread", "answered"} /\ UNCHANGED searchVars
  <2>1. SearchInv'
    BY <1>3, SearchStutter DEF FlowInv
  <2>2. /\ pc' # "validating" /\ pc' # "checking" /\ pc' # "lowered"
    BY <1>3
  <2> QED
    BY <2>1, <2>2, <1>1 DEF FlowInv
<1>4. CASE refusal = "" /\ pc' = "validating" /\ StartSearch(GraphOf(c))
  <2>1. ValidateError(c, cat) = ""
    <3> DEFINE rest == IF committed # Nil /\ Canonicalize(c) = Canonicalize(committed.Contract)
                         THEN "CONVERGED" ELSE ValidateError(c, cat)
    <3>1. rest = ""
      <4>1. Else(RejectReservedCapabilities(c), rest) = ""
        BY <1>4
      <4> HIDE DEF rest
      <4> QED
        BY <4>1, ElseNone
    <3> QED
      BY <3>1
  <2>2. SearchInv'
    BY <2>1, <1>4, ValidatedGraph, StartKeeps
  <2>3. succ' = GraphOf(body)'
    BY <1>1, <1>4 DEF StartSearch
  <2> QED
    BY <2>2, <2>3, <1>1, <1>4 DEF FlowInv
<1> QED
  BY <1>2, <1>3, <1>4

(***************************************************************************)
(* The codes a commit or a lowering may be refused with before its search.  *)
(***************************************************************************)
Refusals ==
  {"", "UNSUPPORTED_VERSION", "INTEGRITY", "UNSUPPORTED_CAPABILITY", "NOT_REPRESENTABLE",
   "AUTHORIZATION_DENIED", "AUTHORIZATION_UNKNOWN", "MISSING_FROZEN_INPUT",
   "INVALID_FROZEN_INPUT", "INVALID_CONTRACT", "DUPLICATE", "TOOL_FUNCTION_UNRESOLVED",
   "RUNNABLE_UNRESOLVED", "EDGE_INVALID", "CARDINALITY_UNSUPPORTED", "Q16_MISMATCH",
   "PROVIDER_CONFLICT", "PROVIDER_MISSING", "PARAMETER_INVALID", "ASSET_UNRESOLVED",
   "SLOT_INVALID"}

LEMMA ElseRefuses ==
  ASSUME NEW a \in Refusals, NEW b \in Refusals
  PROVE  Else(a, b) \in Refusals
BY DEF Else

LEMMA FirstErrorRefuses ==
  ASSUME NEW errs, DOMAIN errs \subseteq Nat, \A i \in DOMAIN errs : errs[i] \in Refusals
  PROVE  FirstError(errs) \in Refusals
<1> DEFINE bad == {i \in DOMAIN errs : errs[i] # ""}
           first == CHOOSE i \in bad : \A j \in bad : i <= j
<1>1. FirstError(errs) = IF bad = {} THEN "" ELSE errs[first]
  BY DEF FirstError
<1>2. bad # {} => first \in bad
  BY Least
<1>3. "" \in Refusals
  BY DEF Refusals
<1> QED
  BY <1>1, <1>2, <1>3

LEMMA LowerEdgeRefuses ==
  ASSUME NEW c, NEW in, NEW i
  PROVE  LowerEdgeError(c, in, i) \in Refusals
<1> DEFINE e == c.DirectEdges[i]
           once == Unless(~\E j \in 1..(i - 1) : c.DirectEdges[j].To = e.To /\ c.DirectEdges[j].In = e.In,
                          "PROVIDER_CONFLICT")
           ports == PortsError(OutputOf(c, in.Tools, e), InputOf(c, in.Tools, e))
           single == Unless(~Consumes(c, i), "NOT_REPRESENTABLE")
           target == TargetError(c, in, e)
<1>1. once \in Refusals /\ single \in Refusals
  BY DEF Unless, Refusals
<1>2. target \in Refusals
  BY DEF TargetError, Unless, Refusals
<1>3. ports \in Refusals
  <2>1. ASSUME NEW from, NEW to PROVE PortsError(from, to) \in Refusals
    BY DEF PortsError, CheckCardinality, CheckQ16, Else, Unless, Refusals
  <2> QED
    BY <2>1
<1>4. LowerEdgeError(c, in, i) \in {"EDGE_INVALID", Else(target, Else(ports, Else(single, once)))}
  BY DEF LowerEdgeError
<1> HIDE DEF once, ports, single, target
<1>5. Else(target, Else(ports, Else(single, once))) \in Refusals
  BY <1>1, <1>2, <1>3, ElseRefuses
<1> QED
  BY <1>4, <1>5 DEF Refusals

LEMMA LowerRefuses ==
  ASSUME NEW rev, NEW in, IsContract(rev.Contract)
  PROVE  LowerError(rev, in) \in Refusals
<1> DEFINE c == rev.Contract
           profiles == [i \in DOMAIN c.Nodes |->
             IF c.Nodes[i].ToolProfile # Nil THEN "UNSUPPORTED_CAPABILITY"
             ELSE Unless(c.Nodes[i].FixedParameters = <<>>, "NOT_REPRESENTABLE")]
           nodes == [i \in DOMAIN c.Nodes |-> LowerNodeError(c, in, i)]
           edges == [i \in DOMAIN c.DirectEdges |-> LowerEdgeError(c, in, i)]
           frozen == FrozenError(in)
           verify == VerifyRevision(rev)
           decision == AuthorizationError(in.Authorization)
           unbound == UnboundError(c, in)
<1>1. DOMAIN c.Nodes \subseteq Nat /\ DOMAIN c.DirectEdges \subseteq Nat
  BY ContractDomains
<1>2. FirstError(edges) \in Refusals
  <2>1. DOMAIN edges \subseteq Nat /\ \A i \in DOMAIN edges : edges[i] \in Refusals
    BY <1>1, LowerEdgeRefuses
  <2> HIDE DEF edges
  <2> QED
    BY <2>1, FirstErrorRefuses
<1>3. FirstError(nodes) \in Refusals
  <2>1. ASSUME NEW i PROVE LowerNodeError(c, in, i) \in Refusals
    BY DEF LowerNodeError, Unless, Refusals
  <2>2. DOMAIN nodes \subseteq Nat /\ \A i \in DOMAIN nodes : nodes[i] \in Refusals
    BY <1>1, <2>1
  <2> HIDE DEF nodes
  <2> QED
    BY <2>2, FirstErrorRefuses
<1>4. CheckProfile(c) \in Refusals
  <2>1. DOMAIN profiles \subseteq Nat /\ \A i \in DOMAIN profiles : profiles[i] \in Refusals
    BY <1>1 DEF Unless, Refusals
  <2>2. FirstError(profiles) \in Refusals
    <3> HIDE DEF profiles
    <3> QED
      BY <2>1, FirstErrorRefuses
  <2>3. Unless(c.AssetBindings = <<>> /\ c.InputSlots = <<>>, "NOT_REPRESENTABLE") \in Refusals
    BY DEF Unless, Refusals
  <2> QED
    BY <2>2, <2>3, ElseRefuses DEF CheckProfile
<1>5. frozen \in Refusals
  BY DEF FrozenError, Else, Unless, Refusals
<1>6. verify \in Refusals
  BY DEF VerifyRevision, VersionError, Else, Unless, Refusals
<1>7. decision \in Refusals
  BY DEF AuthorizationError, Refusals
<1>8. unbound \in Refusals
  BY DEF UnboundError, Unless, Refusals
<1>9. LowerError(rev, in) =
        Else(frozen, Else(verify, Else(CheckProfile(c), Else(decision,
          Else(FirstError(nodes), Else(FirstError(edges), unbound))))))
  BY DEF LowerError
<1> HIDE DEF c, nodes, edges, frozen, verify, decision, unbound
<1> QED
  BY <1>2, <1>3, <1>4, <1>5, <1>6, <1>7, <1>8, <1>9, ElseRefuses

LEMMA SpecShapeRefuses ==
  ASSUME NEW c, NEW in, IsContract(c)
  PROVE  SpecShapeError(SpecOf(c, in)) \in Refusals
<1> DEFINE s == SpecOf(c, in)
<1>1. DOMAIN s.Edges \subseteq DOMAIN c.DirectEdges /\ DOMAIN s.Nodes = DOMAIN c.Nodes
  BY DEF SpecOf
<1>2. DOMAIN s.Edges \subseteq Nat /\ DOMAIN s.Nodes \subseteq Nat
  BY <1>1, ContractDomains
<1> HIDE DEF s
<1> DEFINE nodes == [i \in DOMAIN s.Nodes |->
              IF s.Nodes[i].ID = Nil THEN "INVALID_CONTRACT"
              ELSE Unless(~\E j \in 1..(i - 1) : s.Nodes[j].ID = s.Nodes[i].ID, "DUPLICATE")]
           edges == [i \in DOMAIN s.Edges |-> SpecEdgeError(s, i)]
<1>3. FirstError(nodes) \in Refusals
  <2>1. DOMAIN nodes \subseteq Nat /\ \A i \in DOMAIN nodes : nodes[i] \in Refusals
    BY <1>2 DEF Unless, Refusals
  <2> HIDE DEF nodes
  <2> QED
    BY <2>1, FirstErrorRefuses
<1>4. FirstError(edges) \in Refusals
  <2>1. ASSUME NEW i PROVE SpecEdgeError(s, i) \in Refusals
    BY DEF SpecEdgeError, Unless, Refusals
  <2>2. DOMAIN edges \subseteq Nat /\ \A i \in DOMAIN edges : edges[i] \in Refusals
    BY <1>2, <2>1
  <2> HIDE DEF edges
  <2> QED
    BY <2>2, FirstErrorRefuses
<1>5. SpecShapeError(s) \in {"INVALID_CONTRACT", Else(FirstError(nodes), FirstError(edges))}
  BY DEF SpecShapeError
<1>6. SpecShapeError(s) \in Refusals
  <2> HIDE DEF nodes, edges
  <2>1. "INVALID_CONTRACT" \in Refusals
    BY DEF Refusals
  <2> QED
    BY <2>1, <1>3, <1>4, <1>5, ElseRefuses
<1> QED
  BY <1>6 DEF s

LEMMA PortsRefuse ==
  ASSUME NEW from, NEW to
  PROVE  PortsError(from, to) \in Refusals
BY DEF PortsError, CheckCardinality, CheckQ16, Else, Unless, Refusals

LEMMA TargetRefuses ==
  ASSUME NEW c, NEW cat, NEW x
  PROVE  TargetError(c, cat, x) \in Refusals
BY DEF TargetError, Unless, Refusals

LEMMA NodeRefuses ==
  ASSUME NEW c, IsContract(c), NEW cat, NEW i \in DOMAIN c.Nodes
  PROVE  NodeError(c, cat, i) \in Refusals
<1> DEFINE n == c.Nodes[i]
           errs == [j \in DOMAIN n.FixedParameters |-> ParameterError(n, cat.Tools[n.Pin], j)]
<1>1. DOMAIN errs \subseteq Nat
  <2>1. IsList(n.FixedParameters)
    BY DEF IsContract, IsRecords, ToSet
  <2> QED
    BY <2>1, ListDomain
<1>2. \A j \in DOMAIN errs : errs[j] \in Refusals
  BY DEF ParameterError, Unless, Refusals
<1>3. FirstError(errs) \in Refusals
  <2> HIDE DEF errs
  <2> QED
    BY <1>1, <1>2, FirstErrorRefuses
<1>4. NodeError(c, cat, i) \in
        {"INVALID_CONTRACT", "DUPLICATE", "UNSUPPORTED_CAPABILITY", "TOOL_FUNCTION_UNRESOLVED",
         FirstError(errs)}
  BY DEF NodeError
<1> HIDE DEF errs
<1> QED
  BY <1>3, <1>4 DEF Refusals

LEMMA EdgeRefuses ==
  ASSUME NEW c, NEW cat, NEW i
  PROVE  EdgeError(c, cat, i) \in Refusals
<1> DEFINE e == c.DirectEdges[i]
           target == TargetError(c, cat, e)
           ports == PortsError(OutputOf(c, cat.Tools, e), InputOf(c, cat.Tools, e))
<1>1. EdgeError(c, cat, i) \in {"DUPLICATE", "EDGE_INVALID", Else(target, ports)}
  BY DEF EdgeError
<1>2. Else(target, ports) \in Refusals
  BY PortsRefuse, TargetRefuses, ElseRefuses
<1> HIDE DEF target, ports
<1> QED
  BY <1>1, <1>2 DEF Refusals

LEMMA BindingRefuses ==
  ASSUME NEW c, NEW cat, NEW i
  PROVE  BindingError(c, cat, i) \in Refusals
<1> DEFINE b == c.AssetBindings[i]
           target == TargetError(c, cat, b)
           ports == PortsError(cat.Assets[b.Asset], InputOf(c, cat.Tools, b))
           rest == IF b.Asset \notin DOMAIN cat.Assets THEN "ASSET_UNRESOLVED" ELSE ports
<1>1. BindingError(c, cat, i) \in {"DUPLICATE", Else(target, rest)}
  BY DEF BindingError
<1>2. ports \in Refusals /\ target \in Refusals
  BY PortsRefuse, TargetRefuses
<1>3. rest \in Refusals
  <2> HIDE DEF ports
  <2> QED
    BY <1>2 DEF Refusals
<1> HIDE DEF target, ports, rest
<1>4. Else(target, rest) \in Refusals
  BY <1>2, <1>3, ElseRefuses
<1> QED
  BY <1>1, <1>4 DEF Refusals

LEMMA SlotRefuses ==
  ASSUME NEW c, NEW cat, NEW i
  PROVE  SlotError(c, cat, i) \in Refusals
<1> DEFINE s == c.InputSlots[i]
           target == TargetError(c, cat, s)
           single == CheckCardinality(InputOf(c, cat.Tools, s))
<1>1. SlotError(c, cat, i) \in {"SLOT_INVALID", Else(target, single)}
  BY DEF SlotError
<1>2. single \in Refusals
  BY DEF CheckCardinality, Unless, Refusals
<1>3. Else(target, single) \in Refusals
  <2> HIDE DEF single
  <2> QED
    BY <1>2, TargetRefuses, ElseRefuses
<1> HIDE DEF target, single
<1> QED
  BY <1>1, <1>3 DEF Refusals

LEMMA ValidateRefuses ==
  ASSUME NEW c, IsContract(c), NEW cat
  PROVE  ValidateError(c, cat) \in Refusals
<1> DEFINE nodes == [i \in DOMAIN c.Nodes |-> NodeError(c, cat, i)]
           edges == [i \in DOMAIN c.DirectEdges |-> EdgeError(c, cat, i)]
           bindings == [i \in DOMAIN c.AssetBindings |-> BindingError(c, cat, i)]
           slots == [i \in DOMAIN c.InputSlots |-> SlotError(c, cat, i)]
           version == VersionError(c)
           providers == ProviderError(c, cat)
<1>1. /\ DOMAIN nodes \subseteq Nat /\ DOMAIN edges \subseteq Nat
      /\ DOMAIN bindings \subseteq Nat /\ DOMAIN slots \subseteq Nat
  BY ContractDomains
<1>2. /\ \A i \in DOMAIN nodes : nodes[i] \in Refusals
      /\ \A i \in DOMAIN edges : edges[i] \in Refusals
      /\ \A i \in DOMAIN bindings : bindings[i] \in Refusals
      /\ \A i \in DOMAIN slots : slots[i] \in Refusals
  BY NodeRefuses, EdgeRefuses, BindingRefuses, SlotRefuses
<1>3. version \in Refusals /\ providers \in Refusals
  BY DEF VersionError, ProviderError, Unless, Refusals
<1>4. ValidateError(c, cat) =
        Else(version, Else(FirstError(nodes), Else(FirstError(edges), Else(FirstError(bindings),
          Else(FirstError(slots), providers)))))
  BY DEF ValidateError
<1> HIDE DEF nodes, edges, bindings, slots, version, providers
<1>5. /\ FirstError(nodes) \in Refusals /\ FirstError(edges) \in Refusals
      /\ FirstError(bindings) \in Refusals /\ FirstError(slots) \in Refusals
  BY <1>1, <1>2, FirstErrorRefuses
<1> QED
  BY <1>3, <1>4, <1>5, ElseRefuses

(***************************************************************************)
(* The remaining steps.                                                    *)
(***************************************************************************)
LEMMA FirstCommitKeeps == ASSUME FlowInv, FirstCommit PROVE FlowInv'
<1>1. PICK f \in FirstSubmissions : Submit(f.Submission, f.Catalog)
  BY DEF FirstCommit
<1> QED
  BY <1>1, SubmissionsAreContracts, SubmitKeeps

LEMMA CommitAgainKeeps == ASSUME FlowInv, CommitAgain PROVE FlowInv'
<1>1. PICK c \in Again(body), cat \in Catalogs : Submit([submission EXCEPT !.Contract = c], cat)
  BY DEF CommitAgain
<1>2. "Contract" \in DOMAIN submission /\ IsContract(body)
  BY DEF FlowInv, CommitAgain
<1>3. IsContract(c)
  BY <1>2, AgainIsContract
<1> DEFINE s == [submission EXCEPT !.Contract = c]
<1>4. "Contract" \in DOMAIN s /\ s.Contract = c
  BY <1>2
<1> HIDE DEF s
<1>5. Submit(s, cat)
  BY <1>1 DEF s
<1> QED
  BY <1>3, <1>4, <1>5, SubmitKeeps

LEMMA ValidateEndsKeeps == ASSUME FlowInv, ValidateEnds PROVE FlowInv'
<1>1. SearchInv'
  BY SearchStutter DEF FlowInv, ValidateEnds
<1>2. pc = "validating" /\ pc' = "answered" /\ submission' = submission /\ body' = body
  BY DEF ValidateEnds, Answer, callVars, body
<1>3. committed' # Nil => GraphAcyclic(GraphOf(committed.Contract))'
  <2>1. CASE found # NoNode
    BY <2>1 DEF FlowInv, ValidateEnds
  <2>2. CASE found = NoNode
    <3>1. GraphAcyclic(GraphOf(body))
      BY <2>2, <1>2, SearchedGraphAcyclic DEF FlowInv, ValidateEnds
    <3>2. committed'.Contract = body
      BY <2>2 DEF ValidateEnds
    <3> QED
      BY <3>1, <3>2
  <2> QED
    BY <2>1, <2>2
<1> QED
  BY <1>1, <1>2, <1>3 DEF FlowInv

LEMMA LowerKeeps == ASSUME FlowInv, Lower PROVE FlowInv'
<1>1. pc = "answered" /\ submission' = submission /\ body' = body /\ committed' = committed
  BY DEF Lower, callVars, body
<1>2. PICK rev \in Handed, in \in LowerInputs :
        LET lowered == SpecOf(rev.Contract, in)
            error == Else(LowerError(rev, in), SpecShapeError(lowered))
        IN  \/ error # "" /\ Answer("lowered", error) /\ UNCHANGED <<spec, searchVars>>
            \/ /\ error = "" /\ Answer("checking", "") /\ spec' = lowered
               /\ StartSearch(SpecGraph(lowered))
  BY DEF Lower
<1> DEFINE lowered == SpecOf(rev.Contract, in)
           error == Else(LowerError(rev, in), SpecShapeError(lowered))
<1>3. IsContract(rev.Contract)
  BY <1>1, HandedIsContract DEF FlowInv
<1>4. CASE error # "" /\ Answer("lowered", error) /\ UNCHANGED <<spec, searchVars>>
  <2>1. error \in Refusals
    BY <1>3, LowerRefuses, SpecShapeRefuses, ElseRefuses
  <2>2. pc' = "lowered" /\ code' # "LOWERED"
    <3> HIDE DEF error
    <3> QED
      BY <1>4, <2>1 DEF Answer, Refusals
  <2>3. SearchInv'
    BY <1>4, SearchStutter DEF FlowInv
  <2> QED
    BY <2>2, <2>3, <1>1 DEF FlowInv
<1>5. CASE /\ error = "" /\ Answer("checking", "") /\ spec' = lowered
           /\ StartSearch(SpecGraph(lowered))
  <2>1. SpecShapeError(lowered) = ""
    BY <1>5, ElseNone
  <2>2. SearchInv'
    BY <2>1, <1>3, <1>5, SpecGraphTyped, StartKeeps
  <2>3. succ' = SpecGraph(spec)' /\ pc' = "checking"
    <3> HIDE DEF lowered
    <3> QED
      BY <1>5 DEF StartSearch, Answer
  <2> QED
    BY <2>2, <2>3, <1>1 DEF FlowInv
<1> QED
  BY <1>2, <1>4, <1>5

LEMMA CheckSpecEndsKeeps == ASSUME FlowInv, CheckSpecEnds PROVE FlowInv'
<1>1. SearchInv'
  BY SearchStutter DEF FlowInv, CheckSpecEnds
<1>2. /\ pc = "checking" /\ pc' = "lowered" /\ submission' = submission /\ body' = body
      /\ committed' = committed /\ spec' = spec
  BY DEF CheckSpecEnds, Answer, callVars, lowerVars, body
<1>3. code' = "LOWERED" => GraphAcyclic(SpecGraph(spec))
  <2>1. CASE found # NoNode
    BY <2>1 DEF CheckSpecEnds, Answer
  <2>2. CASE found = NoNode
    BY <2>2, <1>2, SearchedGraphAcyclic DEF FlowInv, CheckSpecEnds
  <2> QED
    BY <2>1, <2>2
<1> QED
  BY <1>1, <1>2, <1>3 DEF FlowInv

LEMMA InSearchKeeps ==
  ASSUME FlowInv, pc \in {"validating", "checking"}, SearchInv', succ' = succ,
         UNCHANGED <<pc, callVars, code, committed, lowerVars>>
  PROVE  FlowInv'
BY DEF FlowInv, callVars, lowerVars, body

LEMMA StepKeepsFlowInv == ASSUME FlowInv, [Next]_vars PROVE FlowInv'
<1>1. CASE FirstCommit
  BY <1>1, FirstCommitKeeps
<1>2. CASE CommitAgain
  BY <1>2, CommitAgainKeeps
<1>3. CASE ValidateEnds
  BY <1>3, ValidateEndsKeeps
<1>4. CASE Lower
  BY <1>4, LowerKeeps
<1>5. CASE CheckSpecEnds
  BY <1>5, CheckSpecEndsKeeps
<1>6. CASE InSearch(PickRoot)
  <2>1. SearchInv' /\ succ' = succ
    BY <1>6, PickRootKeeps DEF FlowInv, InSearch, PickRoot, Visit
  <2> QED
    BY <2>1, <1>6, InSearchKeeps DEF InSearch
<1>7. CASE InSearch(Reach)
  <2>1. SearchInv' /\ succ' = succ
    BY <1>7, ReachKeeps DEF FlowInv, InSearch, Reach, Visit
  <2> QED
    BY <2>1, <1>7, InSearchKeeps DEF InSearch
<1>8. CASE InSearch(Finish)
  <2>1. SearchInv' /\ succ' = succ
    BY <1>8, FinishKeeps DEF FlowInv, InSearch, Finish
  <2> QED
    BY <2>1, <1>8, InSearchKeeps DEF InSearch
<1>9. CASE UNCHANGED vars
  <2>1. SearchInv'
    BY <1>9, SearchStutter DEF FlowInv, vars
  <2> QED
    BY <2>1, <1>9 DEF FlowInv, vars, callVars, lowerVars, searchVars, body
<1> QED
  BY <1>1, <1>2, <1>3, <1>4, <1>5, <1>6, <1>7, <1>8, <1>9 DEF Next

LEMMA FlowInvariant == Spec => []FlowInv
BY FlowStart, StepKeepsFlowInv, PTL DEF Spec

(***************************************************************************)
(* The verdicts: what a call answered is what the contract, the canonical  *)
(* form and the revision decide.                                           *)
(***************************************************************************)
LoweringKept ==
  pc = "checking" \/ (pc = "lowered" /\ code = "LOWERED") =>
    /\ IsContract(revision.Contract)
    /\ spec = SpecOf(revision.Contract, input)
    /\ LowerError(revision, input) = ""

VerdictInv ==
  /\ pc = "validating" => ValidateError(body, catalog) = ""
  /\ committed # Nil =>
       IsContract(committed.Contract) /\ WellFormed(committed.Contract, committed.Catalog)
  /\ ValidateDecides
  /\ ConvergedIsValid
  /\ LoweringKept

LEMMA SubmitDecides ==
  ASSUME FlowInv, VerdictInv, NEW s, NEW cat, "Contract" \in DOMAIN s, IsContract(s.Contract),
         Submit(s, cat)
  PROVE  VerdictInv'
<1> DEFINE c == s.Contract
           reserved == RejectReservedCapabilities(c)
           again == committed # Nil /\ Canonicalize(c) = Canonicalize(committed.Contract)
           error == ValidateError(c, cat)
           refusal == Else(reserved, IF again THEN "CONVERGED" ELSE error)
<1>1. /\ submission' = s /\ catalog' = cat /\ body' = c /\ committed' = committed
      /\ UNCHANGED lowerVars
  BY DEF Submit, body
<1>2. \/ pc' = "unread"
      \/ refusal # "" /\ pc' = "answered" /\ code' = refusal
      \/ refusal = "" /\ pc' = "validating"
  BY DEF Submit, Answer
<1>3. error \in Refusals
  BY ValidateRefuses
<1>4. /\ reserved = "" \/ reserved = "UNSUPPORTED_CAPABILITY"
      /\ reserved = "" <=> \A n \in ToSet(c.Nodes) : n.ToolProfile = Nil
  BY ReservedDecides DEF RejectReservedCapabilities, Unless
<1>5. WellFormed(c, cat) => reserved = "" /\ error = ""
  BY <1>4, SectionsDecide DEF WellFormed, NodesFit
<1>6. reserved = "" /\ again => WellFormed(c, committed.Catalog)
  BY CanonicalWellFormed DEF VerdictInv
<1> HIDE DEF c, reserved, again, error
<1>7. CASE pc' = "unread"
  <2>1. /\ pc' # "validating" /\ pc' # "answered" /\ pc' # "checking" /\ pc' # "lowered"
    BY <1>7
  <2> QED
    BY <2>1, <1>1 DEF VerdictInv, ValidateDecides, ConvergedIsValid, LoweringKept
<1>8. CASE refusal # "" /\ pc' = "answered" /\ code' = refusal
  <2>1. code' = "CONVERGED" => reserved = "" /\ again
    BY <1>3, <1>4, <1>8 DEF Else, Refusals
  <2>2. code' # "COMMITTED"
    BY <1>3, <1>4, <1>8 DEF Else, Refusals
  <2>3. code' # "CONVERGED" => ~WellFormed(c, cat)
    BY <1>5, <1>8 DEF Else
  <2>4. ValidateDecides'
    BY <2>2, <2>3, <1>1 DEF ValidateDecides
  <2>5. ConvergedIsValid'
    BY <2>1, <1>1, <1>6 DEF ConvergedIsValid
  <2>6. /\ pc' # "validating" /\ pc' # "checking" /\ pc' # "lowered"
    BY <1>8
  <2> QED
    BY <2>4, <2>5, <2>6, <1>1 DEF VerdictInv, LoweringKept
<1>9. CASE refusal = "" /\ pc' = "validating"
  <2>1. error = ""
    BY <1>9 DEF Else
  <2>2. ValidateError(body', catalog') = ""
    BY <2>1, <1>1 DEF error
  <2>3. /\ pc' # "answered" /\ pc' # "checking" /\ pc' # "lowered"
    BY <1>9
  <2> QED
    BY <2>2, <2>3, <1>1 DEF VerdictInv, ValidateDecides, ConvergedIsValid, LoweringKept
<1> QED
  BY <1>2, <1>7, <1>8, <1>9

LEMMA FirstCommitDecides == ASSUME FlowInv, VerdictInv, FirstCommit PROVE VerdictInv'
<1>1. PICK f \in FirstSubmissions : Submit(f.Submission, f.Catalog)
  BY DEF FirstCommit
<1> QED
  BY <1>1, SubmissionsAreContracts, SubmitDecides

LEMMA CommitAgainDecides == ASSUME FlowInv, VerdictInv, CommitAgain PROVE VerdictInv'
<1>1. PICK c \in Again(body), cat \in Catalogs : Submit([submission EXCEPT !.Contract = c], cat)
  BY DEF CommitAgain
<1>2. "Contract" \in DOMAIN submission /\ IsContract(body)
  BY DEF FlowInv, CommitAgain
<1>3. IsContract(c)
  BY <1>2, AgainIsContract
<1> DEFINE s == [submission EXCEPT !.Contract = c]
<1>4. "Contract" \in DOMAIN s /\ s.Contract = c
  BY <1>2
<1> HIDE DEF s
<1>5. Submit(s, cat)
  BY <1>1 DEF s
<1> QED
  BY <1>3, <1>4, <1>5, SubmitDecides

LEMMA ValidateEndsDecides == ASSUME FlowInv, VerdictInv, ValidateEnds PROVE VerdictInv'
<1>1. /\ pc = "validating" /\ pc' = "answered" /\ body' = body /\ catalog' = catalog
      /\ SearchInv /\ SearchDone /\ succ = GraphOf(body) /\ IsContract(body)
  BY DEF FlowInv, ValidateEnds, Answer, callVars, body
<1>2. WellFormed(body, catalog) <=> GraphAcyclic(GraphOf(body))
  BY <1>1, SectionsDecide DEF VerdictInv, WellFormed
<1>3. CASE found # NoNode
  <2>1. code' = "GRAPH_CYCLE" /\ committed' = committed
    BY <1>3 DEF ValidateEnds, Answer
  <2>2. ~WellFormed(body, catalog)
    BY <1>1, <1>2, <1>3, SearchedGraphCyclic
  <2> QED
    BY <2>1, <2>2, <1>1 DEF VerdictInv, ValidateDecides, ConvergedIsValid, LoweringKept
<1>4. CASE found = NoNode
  <2>1. code' = "COMMITTED" /\ committed' = [Contract |-> body, Catalog |-> catalog]
    BY <1>4 DEF ValidateEnds, Answer
  <2>2. WellFormed(body, catalog)
    BY <1>1, <1>2, <1>4, SearchedGraphAcyclic
  <2>3. committed'.Contract = body /\ committed'.Catalog = catalog
    BY <2>1
  <2> QED
    BY <2>1, <2>2, <2>3, <1>1 DEF VerdictInv, ValidateDecides, ConvergedIsValid, LoweringKept
<1> QED
  BY <1>3, <1>4

LEMMA LowerDecides == ASSUME FlowInv, VerdictInv, Lower PROVE VerdictInv'
<1>1. pc = "answered" /\ body' = body /\ committed' = committed
  BY DEF Lower, callVars, body
<1>2. PICK rev \in Handed, in \in LowerInputs :
        /\ revision' = rev /\ input' = in
        /\ LET lowered == SpecOf(rev.Contract, in)
               error == Else(LowerError(rev, in), SpecShapeError(lowered))
           IN  \/ error # "" /\ Answer("lowered", error)
               \/ error = "" /\ Answer("checking", "") /\ spec' = lowered
  BY DEF Lower
<1> DEFINE lowered == SpecOf(rev.Contract, in)
           error == Else(LowerError(rev, in), SpecShapeError(lowered))
<1>3. IsContract(rev.Contract)
  BY <1>1, HandedIsContract DEF FlowInv
<1>4. error \in Refusals
  BY <1>3, LowerRefuses, SpecShapeRefuses, ElseRefuses
<1>5. LoweringKept'
  <2>1. CASE error # "" /\ Answer("lowered", error)
    <3> HIDE DEF error
    <3>1. pc' = "lowered" /\ code' # "LOWERED"
      BY <2>1, <1>4 DEF Answer, Refusals
    <3> QED
      BY <3>1 DEF LoweringKept
  <2>2. CASE error = "" /\ Answer("checking", "") /\ spec' = lowered
    <3>1. LowerError(rev, in) = ""
      BY <2>2, ElseNone
    <3> HIDE DEF error, lowered
    <3> QED
      BY <3>1, <2>2, <1>2, <1>3 DEF LoweringKept, lowered
  <2> QED
    BY <1>2, <2>1, <2>2
<1>6. pc' # "validating" /\ pc' # "answered"
  BY <1>2 DEF Answer
<1> QED
  BY <1>1, <1>5, <1>6 DEF VerdictInv, ValidateDecides, ConvergedIsValid

LEMMA CheckSpecEndsDecides == ASSUME VerdictInv, CheckSpecEnds PROVE VerdictInv'
<1>1. pc = "checking" /\ pc' = "lowered" /\ committed' = committed /\ UNCHANGED lowerVars
  BY DEF CheckSpecEnds, Answer
<1> QED
  BY <1>1 DEF VerdictInv, ValidateDecides, ConvergedIsValid, LoweringKept, lowerVars

LEMMA InSearchDecides ==
  ASSUME VerdictInv, UNCHANGED <<pc, callVars, code, committed, lowerVars>>
  PROVE  VerdictInv'
BY DEF VerdictInv, ValidateDecides, ConvergedIsValid, LoweringKept, callVars, lowerVars, body

LEMMA StepKeepsVerdictInv == ASSUME FlowInv, VerdictInv, [Next]_vars PROVE VerdictInv'
<1>1. CASE FirstCommit
  BY <1>1, FirstCommitDecides
<1>2. CASE CommitAgain
  BY <1>2, CommitAgainDecides
<1>3. CASE ValidateEnds
  BY <1>3, ValidateEndsDecides
<1>4. CASE Lower
  BY <1>4, LowerDecides
<1>5. CASE CheckSpecEnds
  BY <1>5, CheckSpecEndsDecides
<1>6. CASE InSearch(PickRoot) \/ InSearch(Reach) \/ InSearch(Finish)
  BY <1>6, InSearchDecides DEF InSearch
<1>7. CASE UNCHANGED vars
  BY <1>7, InSearchDecides DEF vars
<1> QED
  BY <1>1, <1>2, <1>3, <1>4, <1>5, <1>6, <1>7 DEF Next

LEMMA VerdictStart == Init => VerdictInv
BY DEF Init, VerdictInv, ValidateDecides, ConvergedIsValid, LoweringKept

LEMMA VerdictInvariant == Spec => []VerdictInv
BY FlowInvariant, VerdictStart, StepKeepsVerdictInv, PTL DEF Spec

(* The spec of a lowering that answered LOWERED. *)
LEMMA LoweredIsOfContract ==
  ASSUME FlowInv, VerdictInv
  PROVE  LoweredIsSameSource
<1> SUFFICES ASSUME pc = "lowered", code = "LOWERED"
             PROVE  LET c == revision.Contract
                        cat == [Tools |-> input.Tools, Assets |-> <<>>]
                    IN  /\ SpecBindings = ToSet(c.DirectEdges)
                        /\ ToSet(spec.Edges) = {Pair(e) : e \in ToSet(c.DirectEdges)}
                        /\ Cardinality(ToSet(spec.Edges)) = Cardinality(DOMAIN spec.Edges)
                        /\ ConnectionsFit(c, cat)
                        /\ GraphAcyclic(SpecGraph(spec))
  BY Zenon DEF LoweredIsSameSource
<1> DEFINE c == revision.Contract
<1>1. IsContract(c) /\ spec = SpecOf(c, input) /\ LowerError(revision, input) = ""
  BY DEF VerdictInv, LoweringKept
<1>2. /\ CheckProfile(c) = "" /\ UnboundError(c, input) = ""
      /\ \A i \in DOMAIN c.DirectEdges : LowerEdgeError(c, input, i) = ""
  BY <1>1, LowerPassed
<1>3. ConnectionsFit(c, Frozen(input))
  BY <1>1, <1>2, LoweringConnects
<1>4. \A e \in ToSet(c.DirectEdges) : e.To \in NodeIDs(c)
  <2>1. \A i \in DOMAIN c.DirectEdges : c.DirectEdges[i].To \in NodeIDs(c)
    BY <1>2, LowerEdgeDecides, InputPortsOfNodes DEF EdgeFits, TargetFits
  <2> QED
    BY <2>1 DEF ToSet
<1>5. SpecBindings = BindingsOf(spec)
  BY Zenon DEF SpecBindings, BindingsOf, Said
<1>6. BindingsOf(spec) = ToSet(c.DirectEdges)
  BY <1>1, <1>4, SpecSaysEdges
<1>7. /\ ToSet(spec.Edges) = {Pair(e) : e \in ToSet(c.DirectEdges)}
      /\ Cardinality(ToSet(spec.Edges)) = Cardinality(DOMAIN spec.Edges)
  BY <1>1, SpecDependsOnEdges
<1>8. GraphAcyclic(SpecGraph(spec))
  BY DEF FlowInv
<1> QED
  BY <1>3, <1>5, <1>6, <1>7, <1>8, Zenon DEF Frozen

(* A spec that is being checked has the shape CheckSpec asks for, and what a
   lowering without drift answered is what its contract decides.           *)
PredictInv ==
  /\ pc = "checking" => SpecShapeError(spec) = ""
  /\ LowersWhatIsRepresentable

(* The answer that LowersWhatIsRepresentable predicts. *)
Predicted(c) ==
  IF ~Representable(c) THEN "NOT_REPRESENTABLE"
  ELSE IF c.Nodes = <<>> \/ \E e \in ToSet(c.DirectEdges) : Unnamed(e)
    THEN "INVALID_CONTRACT" ELSE "LOWERED"

(* Undrifted, of any commit, revision and input. *)
WithoutDrift(made, rev, in) ==
  /\ made # Nil /\ rev = RevisionOf(made.Contract)
  /\ FrozenError(in) = "" /\ in.Authorization = "ALLOW"
  /\ in.Tools = made.Catalog.Tools
  /\ {n.Pin : n \in ToSet(rev.Contract.Nodes)} \subseteq in.Runnables

LEMMA UndriftedFacts ==
  ASSUME NEW made, IsContract(made.Contract), WellFormed(made.Contract, made.Catalog),
         NEW rev, NEW in, WithoutDrift(made, rev, in)
  PROVE  LET c == rev.Contract IN
         /\ IsContract(c) /\ WellFormed(c, made.Catalog) /\ in.Tools = made.Catalog.Tools
         /\ LowerError(rev, in) = IF Representable(c) THEN "" ELSE "NOT_REPRESENTABLE"
<1> DEFINE d == made.Contract
           cat == made.Catalog
<1>1. /\ rev = RevisionOf(d)
      /\ FrozenError(in) = "" /\ in.Authorization = "ALLOW" /\ in.Tools = cat.Tools
      /\ {n.Pin : n \in ToSet(rev.Contract.Nodes)} \subseteq in.Runnables
  BY Zenon DEF WithoutDrift
<1>2. IsContract(d) /\ WellFormed(d, cat)
  OBVIOUS
<1> HIDE DEF d, cat
<1>3. /\ IsContract(Stored(d)) /\ WellFormed(Stored(d), cat) /\ RevisionOf(d).Contract = Stored(d)
  BY <1>2, CommittedRevision
<1>4. rev.Contract = Stored(d)
  BY <1>1, <1>3
<1>5. {n.Pin : n \in ToSet(Stored(d).Nodes)} \subseteq in.Runnables
  BY <1>1, <1>4
<1>6. LowerError(RevisionOf(d), in) = IF Representable(Stored(d)) THEN "" ELSE "NOT_REPRESENTABLE"
  BY <1>1, <1>2, <1>5, LoweringDecides
<1> QED
  BY <1>1, <1>3, <1>4, <1>6, Zenon DEF cat

LEMMA LowerPredicts == ASSUME FlowInv, VerdictInv, VerdictInv', Lower PROVE PredictInv'
<1>1. PICK rev \in Handed, in \in LowerInputs :
        /\ revision' = rev /\ input' = in
        /\ LET lowered == SpecOf(rev.Contract, in)
               error == Else(LowerError(rev, in), SpecShapeError(lowered))
           IN  \/ error # "" /\ Answer("lowered", error)
               \/ error = "" /\ Answer("checking", "") /\ spec' = lowered
  BY DEF Lower
<1> DEFINE c == rev.Contract
           lowered == SpecOf(c, in)
           refused == LowerError(rev, in)
           shape == SpecShapeError(lowered)
<1>2. CASE Else(refused, shape) # "" /\ Answer("lowered", Else(refused, shape))
  <2>1. ASSUME Undrifted' PROVE code' = Predicted(c)
    <3>1. /\ IsContract(c) /\ WellFormed(c, committed'.Catalog)
          /\ refused = IF Representable(c) THEN "" ELSE "NOT_REPRESENTABLE"
      <4>1. WithoutDrift(committed', rev, in)
        BY <1>1, <2>1, Zenon DEF Undrifted, WithoutDrift
      <4>2. IsContract(committed'.Contract) /\ WellFormed(committed'.Contract, committed'.Catalog)
        BY <4>1, Zenon DEF WithoutDrift, VerdictInv
      <4> QED
        BY <4>1, <4>2, UndriftedFacts
    <3>2. shape = IF c.Nodes = <<>> THEN "INVALID_CONTRACT" ELSE ""
      BY <3>1, ShapeDecides
    <3>3. code' = Else(refused, shape)
      BY <1>2 DEF Answer
    <3> HIDE DEF c, refused, shape
    <3> QED
      BY <1>2, <3>1, <3>2, <3>3 DEF Else, Predicted
  <2>2. pc' # "checking" /\ revision'.Contract = c
    BY <1>1, <1>2 DEF Answer
  <2>3. LowersWhatIsRepresentable'
    <3>1. code' = Predicted(revision'.Contract) \/ ~Undrifted'
      BY <2>1, <2>2
    <3> QED
      BY <3>1, Zenon DEF LowersWhatIsRepresentable, Predicted, Unnamed
  <2> QED
    BY <2>2, <2>3 DEF PredictInv
<1>3. CASE Else(refused, shape) = "" /\ Answer("checking", "") /\ spec' = lowered
  <2>1. shape = ""
    BY <1>3, ElseNone
  <2>2. pc' = "checking" /\ SpecShapeError(spec') = ""
    <3> HIDE DEF lowered
    <3> QED
      BY <1>3, <2>1 DEF Answer
  <2> QED
    BY <2>2 DEF PredictInv, LowersWhatIsRepresentable
<1> QED
  BY <1>1, <1>2, <1>3

LEMMA CheckSpecEndsPredicts ==
  ASSUME FlowInv, VerdictInv, PredictInv, CheckSpecEnds
  PROVE  PredictInv'
<1> DEFINE c == revision.Contract
<1>1. /\ pc = "checking" /\ pc' = "lowered" /\ committed' = committed
      /\ revision' = revision /\ input' = input /\ SearchInv /\ SearchDone /\ succ = SpecGraph(spec)
      /\ code' = IF found # NoNode THEN "GRAPH_CYCLE" ELSE Else(SameSourceError(spec), "LOWERED")
  BY DEF CheckSpecEnds, Answer, lowerVars, FlowInv
<1>2. IsContract(c) /\ spec = SpecOf(c, input) /\ LowerError(revision, input) = ""
  BY <1>1 DEF VerdictInv, LoweringKept
<1>3. ASSUME Undrifted PROVE code' = Predicted(c)
  <2>1. /\ WellFormed(c, committed.Catalog) /\ input.Tools = committed.Catalog.Tools
        /\ LowerError(revision, input) = IF Representable(c) THEN "" ELSE "NOT_REPRESENTABLE"
    <3>1. WithoutDrift(committed, revision, input)
      BY <1>3, Zenon DEF Undrifted, WithoutDrift
    <3>2. IsContract(committed.Contract) /\ WellFormed(committed.Contract, committed.Catalog)
      BY <3>1, Zenon DEF WithoutDrift, VerdictInv
    <3> QED
      BY <3>1, <3>2, UndriftedFacts
  <2>2. Representable(c)
    BY <1>2, <2>1
  <2>3. SpecShapeError(spec) = "" /\ SpecShapeError(spec) = IF c.Nodes = <<>> THEN "INVALID_CONTRACT" ELSE ""
    BY <1>1, <1>2, <2>1, ShapeDecides DEF PredictInv
  <2>4. c.Nodes # <<>>
    BY <2>3
  <2>5. found = NoNode
    <3>1. SpecGraph(spec) = GraphOf(c)
      BY <1>2, SpecGraphIsGraph
    <3>2. GraphAcyclic(succ)
      BY <1>1, <2>1, <3>1 DEF WellFormed
    <3> QED
      BY <1>1, <3>2, SearchedGraphCyclic
  <2>6. SameSourceError(spec) = IF \E e \in ToSet(c.DirectEdges) : Unnamed(e) THEN "INVALID_CONTRACT" ELSE ""
    BY <1>2, <2>1, SameSourceDecides
  <2> HIDE DEF c
  <2> QED
    BY <1>1, <2>2, <2>4, <2>5, <2>6 DEF Else, Predicted
<1>4. Undrifted' <=> Undrifted
  BY <1>1 DEF Undrifted
<1>5. LowersWhatIsRepresentable'
  <2>1. Undrifted' => code' = Predicted(revision'.Contract)
    BY <1>1, <1>3, <1>4
  <2> QED
    BY <2>1, Zenon DEF LowersWhatIsRepresentable, Predicted, Unnamed
<1> QED
  BY <1>1, <1>5 DEF PredictInv

LEMMA StepKeepsPredictInv ==
  ASSUME FlowInv, VerdictInv, VerdictInv', PredictInv, [Next]_vars
  PROVE  PredictInv'
<1>1. CASE FirstCommit \/ CommitAgain
  <2>1. pc' \in {"unread", "answered", "validating"}
    BY <1>1 DEF FirstCommit, CommitAgain, Submit, Answer
  <2> QED
    BY <2>1 DEF PredictInv, LowersWhatIsRepresentable
<1>2. CASE ValidateEnds
  <2>1. pc' = "answered"
    BY <1>2 DEF ValidateEnds, Answer
  <2> QED
    BY <2>1 DEF PredictInv, LowersWhatIsRepresentable
<1>3. CASE Lower
  BY <1>3, LowerPredicts
<1>4. CASE CheckSpecEnds
  BY <1>4, CheckSpecEndsPredicts
<1>5. CASE InSearch(PickRoot) \/ InSearch(Reach) \/ InSearch(Finish)
  <2>1. pc' \in {"validating", "checking"} /\ pc' = pc /\ spec' = spec
    BY <1>5 DEF InSearch, lowerVars
  <2> QED
    BY <2>1 DEF PredictInv, LowersWhatIsRepresentable
<1>6. CASE UNCHANGED vars
  BY <1>6 DEF vars, callVars, lowerVars, PredictInv, LowersWhatIsRepresentable, Undrifted
<1> QED
  BY <1>1, <1>2, <1>3, <1>4, <1>5, <1>6 DEF Next

LEMMA PredictInvariant == Spec => []PredictInv
<1>1. Init => PredictInv
  BY DEF Init, PredictInv, LowersWhatIsRepresentable
<1> QED
  BY <1>1, FlowInvariant, VerdictInvariant, StepKeepsPredictInv, PTL DEF Spec

(***************************************************************************)
(* The reading: what a call reads is a text and a token stream, and it goes *)
(* on exactly if Parse has no error for them.                              *)
(***************************************************************************)
IsText(s) ==
  /\ "Text" \in DOMAIN s /\ IsList(s.Text)
  /\ "Tokens" \in DOMAIN s /\ IsList(s.Tokens) /\ TokenStream(s.Tokens)

ReadInv ==
  pc # "idle" =>
    /\ IsText(submission)
    /\ pc = "unread" => code = ParseError(submission) /\ code # ""
    /\ pc # "unread" => ParseError(submission) = ""

LEMMA SubmitReads ==
  ASSUME NEW s, NEW cat, IsText(s), Submit(s, cat)
  PROVE  ReadInv'
<1>1. submission' = s
  BY DEF Submit
<1>2. \/ ParseError(s) # "" /\ pc' = "unread" /\ code' = ParseError(s)
      \/ ParseError(s) = "" /\ pc' \in {"answered", "validating"}
  BY Zenon DEF Submit, Answer
<1> QED
  BY <1>1, <1>2 DEF ReadInv

LEMMA StepKeepsReadInv == ASSUME ReadInv, [Next]_vars PROVE ReadInv'
<1>1. CASE FirstCommit
  <2>1. PICK f \in FirstSubmissions : Submit(f.Submission, f.Catalog)
    BY <1>1 DEF FirstCommit
  <2>2. IsText(f.Submission)
    BY SubmissionsAreTexts DEF IsText
  <2> QED
    BY <2>1, <2>2, SubmitReads
<1>2. CASE CommitAgain
  <2>1. PICK c \in Again(body), cat \in Catalogs : Submit([submission EXCEPT !.Contract = c], cat)
    BY <1>2 DEF CommitAgain
  <2>2. IsText(submission)
    BY <1>2 DEF CommitAgain, ReadInv
  <2> DEFINE s == [submission EXCEPT !.Contract = c]
  <2>3. DOMAIN s = DOMAIN submission /\ s.Text = submission.Text /\ s.Tokens = submission.Tokens
    BY <2>2 DEF IsText
  <2> HIDE DEF s
  <2>4. IsText(s)
    BY <2>2, <2>3 DEF IsText
  <2> QED
    BY <2>1, <2>4, SubmitReads DEF s
<1>3. ASSUME submission' = submission, pc \notin {"idle", "unread"}, pc' \notin {"idle", "unread"}
      PROVE  ReadInv'
  BY <1>3 DEF ReadInv
<1>4. CASE ValidateEnds
  BY <1>3, <1>4 DEF ValidateEnds, Answer, callVars
<1>5. CASE Lower
  BY <1>3, <1>5 DEF Lower, Answer, callVars
<1>6. CASE CheckSpecEnds
  BY <1>3, <1>6 DEF CheckSpecEnds, Answer, callVars
<1>7. CASE InSearch(PickRoot) \/ InSearch(Reach) \/ InSearch(Finish)
  BY <1>3, <1>7 DEF InSearch, callVars
<1>8. CASE UNCHANGED vars
  BY <1>8 DEF ReadInv, vars, callVars
<1> QED
  BY <1>1, <1>2, <1>4, <1>5, <1>6, <1>7, <1>8 DEF Next

LEMMA ReadInvariant == Spec => []ReadInv
<1>1. Init => ReadInv
  BY DEF Init, ReadInv
<1> QED
  BY <1>1, StepKeepsReadInv, PTL DEF Spec

(***************************************************************************)
(* Theorems.                                                               *)
(***************************************************************************)

(* The search's graph, colours and stack keep their types: no edge of a
   searched graph leads out of it (detectCycle and findCycle index their
   colours by it).                                                         *)
THEOREM SearchIsTyped == Spec => []SearchTypeOK
<1>1. FlowInv => SearchTypeOK
  BY DEF FlowInv, SearchInv
<1> QED
  BY <1>1, FlowInvariant, PTL

(* A search that accepts, in Commit or in CheckSpec, accepts an acyclic graph. *)
THEOREM SearchMissesNoCycle == Spec => []AcceptedIsAcyclic
<1>1. FlowInv => AcceptedIsAcyclic
  BY InvAcceptsAcyclic DEF FlowInv
<1> QED
  BY <1>1, FlowInvariant, PTL

(* A search that refuses has a cycle of the graph on its stack. *)
THEOREM SearchReturnsCycles == Spec => []CycleIsReal
<1>1. FlowInv => CycleIsReal
  BY InvCycleIsReal DEF FlowInv
<1> QED
  BY <1>1, FlowInvariant, PTL

(* What is committed has no cycle of edges, and what is lowered none of
   dependencies: the answers COMMITTED and LOWERED are those of a search of
   the graph of this very contract and of this very spec.                  *)
THEOREM NothingCyclicPasses ==
  Spec => [](/\ committed # Nil => GraphAcyclic(GraphOf(committed.Contract))
             /\ pc = "lowered" /\ code = "LOWERED" => GraphAcyclic(SpecGraph(spec)))
<1>1. FlowInv => /\ committed # Nil => GraphAcyclic(GraphOf(committed.Contract))
                 /\ pc = "lowered" /\ code = "LOWERED" => GraphAcyclic(SpecGraph(spec))
  BY DEF FlowInv
<1> QED
  BY <1>1, FlowInvariant, PTL

(* Validate is right in both directions: whatever is submitted and whatever
   the resolvers answer, a contract is committed exactly when it is well
   formed, said of the contract as a whole.                                *)
THEOREM CommittedIffWellFormed == Spec => []ValidateDecides
<1>1. VerdictInv => ValidateDecides
  BY DEF VerdictInv
<1> QED
  BY <1>1, VerdictInvariant, PTL

(* A body that converges on a commit by its canonical form alone is well
   formed under the catalog of that commit: nothing a section of Validate
   looks at is lost in the form, but for the field that is gated before.   *)
THEOREM ConvergedContractsAreValid == Spec => []ConvergedIsValid
<1>1. VerdictInv => ConvergedIsValid
  BY DEF VerdictInv
<1> QED
  BY <1>1, VerdictInvariant, PTL

(* A RunSpec has the contract's edges as its bindings, their pairs of nodes as
   its dependencies, fits the frozen declarations and has no cycle.        *)
THEOREM LoweringKeepsTheSource == Spec => []LoweredIsSameSource
<1>1. FlowInv /\ VerdictInv => LoweredIsSameSource
  BY LoweredIsOfContract
<1> QED
  BY <1>1, FlowInvariant, VerdictInvariant, PTL

(* Without drift, Lower answers what the contract decides: a committed
   contract in the lowering slice becomes a RunSpec, and CheckSpec, which does
   not trust how its spec was made, agrees with Lower but for no nodes and
   for an edge of a port without a name.                                   *)
THEOREM RepresentableContractsAreLowered == Spec => []LowersWhatIsRepresentable
<1>1. PredictInv => LowersWhatIsRepresentable
  BY DEF PredictInv
<1> QED
  BY <1>1, PredictInvariant, PTL

(* The scan before the decoder and the decoder together: for a text of any
   length, a body is read exactly if every escape is one of JSON's and the
   surrogates come in pairs.                                               *)
THEOREM EscapesOfAnyTextDecide == Spec => []EscapesDecide
<1>1. ReadInv => EscapesDecide
  <2> SUFFICES ASSUME ReadInv, pc # "idle",
                      CheckStrictJSON(submission.Tokens) = "", ~More(submission)
               PROVE  (pc # "unread" \/ code = "UNKNOWN_KEY") <=>
                        /\ "bytes" \notin ToSet(submission.Text) /\ WellEscaped(submission.Text)
                        /\ Paired(Units(submission.Text))
    BY DEF EscapesDecide
  <2>1. ParseError(submission) \in {"", "UNKNOWN_KEY"} <=>
          /\ "bytes" \notin ToSet(submission.Text) /\ WellEscaped(submission.Text)
          /\ Paired(Units(submission.Text))
    BY ParseDecides DEF ReadInv, IsText, IsList
  <2>2. pc # "unread" \/ code = "UNKNOWN_KEY" <=> ParseError(submission) \in {"", "UNKNOWN_KEY"}
    BY DEF ReadInv
  <2> QED
    BY <2>1, <2>2, Zenon
<1> QED
  BY <1>1, ReadInvariant, PTL

(* The token walk and the decoder together: for a body of any depth and
   length, it is read exactly if it is one value without nulls, no object of
   it repeats a key, every key is known at its depth, and what follows it, if
   anything, begins with a closing bracket.                                *)
THEOREM StructureOfAnyBodyDecides == Spec => []StructureDecides
<1>1. ReadInv => StructureDecides
  <2> SUFFICES ASSUME ReadInv, pc # "idle", submission.Text = <<>>
               PROVE  pc # "unread" <=> Strict(submission.Tokens) /\ submission.Rest # "other"
    BY DEF StructureDecides
  <2>1. ParseError(submission) = "" <=> Strict(submission.Tokens) /\ submission.Rest # "other"
    BY ParseDecides DEF ReadInv, IsText, IsList
  <2>2. pc # "unread" <=> ParseError(submission) = ""
    BY DEF ReadInv
  <2> QED
    BY <2>1, <2>2, Zenon
<1> QED
  BY <1>1, ReadInvariant, PTL
=============================================================================

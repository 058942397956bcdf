---------------------------- MODULE ProgramFacts ----------------------------
(***************************************************************************)
(* Facts about well-formed programs and their selectors that the proofs    *)
(* about the components rest on.                                           *)
(***************************************************************************)
EXTENDS GraphEncoding, WellFoundedInduction, TLAPS

-----------------------------------------------------------------------------
(* Numbers and sequences.  What needs induction is drawn from the numbers  *)
(* being well founded under <.                                             *)

LEMMA LeastNumber ==
  ASSUME NEW T \in SUBSET Nat, T # {}
  PROVE  \E m \in T : \A k \in T : m <= k
<1> DEFINE R == OpToRel(<, Nat)
<1>1. IsWellFoundedOn(R, Nat)
  BY NatLessThanWellFounded, Zenon
<1>2. \A x, y \in Nat : x < y => <<x, y>> \in R
  BY DEF OpToRel
<1> HIDE DEF R
<1>3. PICK m \in T : \A y \in T : ~(<<y, m>> \in R)
  BY <1>1, WFMin
<1>4. ASSUME NEW k \in T
      PROVE  m <= k
  <2>1. m \in Nat /\ k \in Nat
    OBVIOUS
  <2>2. ~(k < m)
    BY <1>2, <1>3, <2>1
  <2> QED
    BY <2>1, <2>2
<1> QED
  BY <1>4

(* What occurs in a sequence has a last occurrence. *)
LEMMA LastOccurrence ==
  ASSUME NEW S, NEW s \in Seq(S), NEW x \in Range(s)
  PROVE  \E c \in DOMAIN s : s[c] = x /\ \A d \in DOMAIN s : s[d] = x => d <= c
<1> DEFINE n == Len(s)
           T == {n - c : c \in {d \in DOMAIN s : s[d] = x}}
<1>1. n \in Nat /\ DOMAIN s = 1 .. n
  OBVIOUS
<1>2. T \in SUBSET Nat /\ T # {}
  BY <1>1 DEF Range
<1>3. PICK m \in T : \A k \in T : m <= k
  <2> HIDE DEF T
  <2> QED
    BY <1>2, LeastNumber
<1>4. PICK c \in DOMAIN s : s[c] = x /\ m = n - c
  OBVIOUS
<1>5. ASSUME NEW d \in DOMAIN s, s[d] = x
      PROVE  d <= c
  <2>1. n - c <= n - d
    BY <1>3, <1>4, <1>5
  <2> QED
    BY <1>1, <2>1
<1> QED
  BY <1>4, <1>5

-----------------------------------------------------------------------------
(* Programs. *)

(* The position of a node that is there is a position of that node, and    *)
(* the only one.                                                           *)
LEMMA NodeIndexFound ==
  ASSUME NEW p, NEW i \in DOMAIN p.nodes
  PROVE  /\ NodeIndex(p, p.nodes[i].id) \in DOMAIN p.nodes
         /\ p.nodes[NodeIndex(p, p.nodes[i].id)].id = p.nodes[i].id
  BY DEF NodeIndex

(* An operation's operands are earlier nodes. *)
LEMMA OperandIsEarlier ==
  ASSUME NEW p \in Program, WellFormed(p),
         NEW i \in DOMAIN p.nodes, p.nodes[i].op # "INPUT", NEW k \in {1, 2}
  PROVE  /\ NodeIndex(p, p.nodes[i].inputs[k]) \in 1 .. (i - 1)
         /\ p.nodes[NodeIndex(p, p.nodes[i].inputs[k])].id = p.nodes[i].inputs[k]
<1>1. p.nodes \in Seq(Node) /\ i \in 1 .. Len(p.nodes)
  BY DEF Program
<1>2. /\ p.nodes[i].inputs \in Seq(NodeId)
      /\ Len(p.nodes[i].inputs) = 2
      /\ k \in DOMAIN p.nodes[i].inputs
  <2>1. p.nodes[i] \in Node
    BY <1>1
  <2>2. p.nodes[i].inputs \in Seq(NodeId)
    BY <2>1 DEF Node
  <2>3. Len(p.nodes[i].inputs) = 2
    BY DEF WellFormed, Arity
  <2> QED
    BY <2>2, <2>3
<1>3. PICK j \in 1 .. (i - 1) : p.nodes[j].id = p.nodes[i].inputs[k]
  BY <1>1, <1>2 DEF WellFormed, TopologicalOrder, OperandIs
<1>4. j \in DOMAIN p.nodes
  BY <1>1
<1>5. /\ NodeIndex(p, p.nodes[j].id) \in DOMAIN p.nodes
      /\ p.nodes[NodeIndex(p, p.nodes[j].id)].id = p.nodes[j].id
  BY <1>4, NodeIndexFound
<1>6. NodeIndex(p, p.nodes[j].id) = j
  BY <1>4, <1>5 DEF WellFormed, UniqueIds
<1> QED
  BY <1>3, <1>5, <1>6

(* The operands of an operation have the shapes it calls for. *)
LEMMA OperandShapes ==
  ASSUME NEW p \in Program, WellFormed(p),
         NEW i \in DOMAIN p.nodes, p.nodes[i].op # "INPUT"
  PROVE  ShapeRule(p.nodes[i].op, p.nodes[NodeIndex(p, p.nodes[i].inputs[1])].shape,
                   p.nodes[NodeIndex(p, p.nodes[i].inputs[2])].shape, p.nodes[i].shape)
<1> DEFINE l == NodeIndex(p, p.nodes[i].inputs[1])
           r == NodeIndex(p, p.nodes[i].inputs[2])
<1>1. l \in 1 .. (i - 1) /\ r \in 1 .. (i - 1)
  BY OperandIsEarlier
<1>2. OperandIs(p, i, 1, l) /\ OperandIs(p, i, 2, r)
  BY OperandIsEarlier DEF OperandIs
<1> QED
  BY <1>1, <1>2 DEF WellFormed, ShapesAgree

(* Inputs and outputs name nodes of the program, and there is an output. *)
LEMMA InterfaceNodes ==
  ASSUME NEW p \in Program, WellFormed(p)
  PROVE  /\ \A id \in InputNodes(p) : NodeIndex(p, id) \in DOMAIN p.nodes
         /\ \A id \in InputNodes(p) : p.nodes[NodeIndex(p, id)].id = id
         /\ \A c \in DOMAIN p.input_ids : p.input_ids[c] \in InputNodes(p)
         /\ \A o \in DOMAIN p.output_ids : NodeIndex(p, p.output_ids[o]) \in DOMAIN p.nodes
         /\ Len(p.output_ids) > 0 /\ Len(p.nodes) > 0
<1>1. p.nodes \in Seq(Node) /\ p.input_ids \in Seq(NodeId) /\ p.output_ids \in Seq(NodeId)
  BY DEF Program
<1>2. ASSUME NEW id \in InputNodes(p)
      PROVE  NodeIndex(p, id) \in DOMAIN p.nodes /\ p.nodes[NodeIndex(p, id)].id = id
  BY NodeIndexFound DEF InputNodes
<1>3. \A c \in DOMAIN p.input_ids : p.input_ids[c] \in InputNodes(p)
  BY DEF WellFormed, InterfaceAgrees, Range
<1>4. \A o \in DOMAIN p.output_ids : NodeIndex(p, p.output_ids[o]) \in DOMAIN p.nodes
  BY NodeIndexFound DEF WellFormed, InterfaceAgrees
<1>5. Len(p.output_ids) > 0
  BY <1>1 DEF WellFormed, InterfaceAgrees
<1>6. Len(p.nodes) > 0
  BY <1>1, <1>4, <1>5
<1> QED
  BY <1>2, <1>3, <1>4, <1>5, <1>6

(* The first node is an input. *)
LEMMA SomeInput ==
  ASSUME NEW p \in Program, WellFormed(p)
  PROVE  InputNodes(p) # {}
<1>1. p.nodes \in Seq(Node) /\ 1 \in DOMAIN p.nodes
  BY InterfaceNodes DEF Program
<1>2. CASE p.nodes[1].op # "INPUT"
  <2>1. NodeIndex(p, p.nodes[1].inputs[1]) \in 1 .. (1 - 1)
    BY <1>1, <1>2, OperandIsEarlier
  <2> QED
    BY <2>1
<1>3. CASE p.nodes[1].op = "INPUT"
  BY <1>1, <1>3 DEF InputNodes
<1> QED
  BY <1>2, <1>3

-----------------------------------------------------------------------------
(* The selectors of a well-formed program.  Each row has one 1. *)

(* The column of input_ids that stands for INPUT node i. *)
InputColumn(p, i) ==
  CHOOSE c \in DOMAIN p.input_ids :
    /\ p.input_ids[c] = p.nodes[i].id
    /\ \A d \in DOMAIN p.input_ids : p.input_ids[d] = p.nodes[i].id => d <= c

LEMMA InputSelectorRow ==
  ASSUME NEW p \in Program, WellFormed(p), NEW i \in DOMAIN p.nodes
  PROVE  /\ p.nodes[i].op # "INPUT" => \A c \in DOMAIN p.input_ids : InputSelector(p, i, c) = 0
         /\ p.nodes[i].op = "INPUT" =>
              /\ InputColumn(p, i) \in DOMAIN p.input_ids
              /\ p.input_ids[InputColumn(p, i)] = p.nodes[i].id
              /\ \A c \in DOMAIN p.input_ids :
                   InputSelector(p, i, c) = IF c = InputColumn(p, i) THEN 1 ELSE 0
<1>1. CASE p.nodes[i].op # "INPUT"
  BY <1>1 DEF InputSelector, Bit
<1>2. CASE p.nodes[i].op = "INPUT"
  <2> DEFINE IsLast(c) ==
        /\ p.input_ids[c] = p.nodes[i].id
        /\ \A d \in DOMAIN p.input_ids : p.input_ids[d] = p.nodes[i].id => d <= c
  <2>1. p.input_ids \in Seq(NodeId) /\ DOMAIN p.input_ids \subseteq Nat
    BY DEF Program
  <2>2. p.nodes[i].id \in Range(p.input_ids)
    BY <1>2 DEF WellFormed, InterfaceAgrees, InputNodes
  <2>3. \E c \in DOMAIN p.input_ids : IsLast(c)
    BY <2>1, <2>2, LastOccurrence
  <2>4. InputColumn(p, i) \in DOMAIN p.input_ids /\ IsLast(InputColumn(p, i))
    BY <2>3 DEF InputColumn
  <2>5. ASSUME NEW c \in DOMAIN p.input_ids
        PROVE  IsLast(c) <=> c = InputColumn(p, i)
    <3>1. ASSUME IsLast(c)
          PROVE  c = InputColumn(p, i)
      <4>1. c <= InputColumn(p, i) /\ InputColumn(p, i) <= c
        BY <2>4, <3>1
      <4>2. c \in Nat /\ InputColumn(p, i) \in Nat
        BY <2>1, <2>4
      <4> QED
        BY <4>1, <4>2
    <3> QED
      BY <2>4, <3>1
  <2>6. ASSUME NEW c \in DOMAIN p.input_ids
        PROVE  InputSelector(p, i, c) = IF c = InputColumn(p, i) THEN 1 ELSE 0
    <3>1. InputSelector(p, i, c) = Bit(IsLast(c))
      BY <1>2 DEF InputSelector
    <3> HIDE DEF IsLast
    <3> QED
      BY <2>5, <3>1 DEF Bit
  <2> QED
    BY <1>2, <2>4, <2>6
<1> QED
  BY <1>1, <1>2

LEMMA OutputSelectorRow ==
  ASSUME NEW p \in Program, WellFormed(p),
         NEW o \in DOMAIN p.output_ids, NEW j \in DOMAIN p.nodes
  PROVE  OutputSelector(p, o, j) = IF j = NodeIndex(p, p.output_ids[o]) THEN 1 ELSE 0
<1> DEFINE n == NodeIndex(p, p.output_ids[o])
<1>1. PICK i \in DOMAIN p.nodes : p.nodes[i].id = p.output_ids[o]
  BY DEF WellFormed, InterfaceAgrees
<1>2. n \in DOMAIN p.nodes /\ p.nodes[n].id = p.output_ids[o]
  BY <1>1, NodeIndexFound
<1>3. p.nodes[j].id = p.output_ids[o] <=> j = n
  BY <1>2 DEF WellFormed, UniqueIds
<1> HIDE DEF n
<1> QED
  BY <1>3 DEF OutputSelector, Bit, n
=============================================================================

----------------------------- MODULE BoundedJson -----------------------------
(***************************************************************************)
(* The structural bounds that plenora-runtime-capabilities puts on JSON it *)
(* does not interpret: the attributes of a discovered operation and the    *)
(* details of a public error.                                              *)
(*                                                                         *)
(* A JSON value is a record: the children of an object or of an array, the *)
(* members' names if it is an object, whether a string or a name in it is  *)
(* longer than allowed, and whether its text is broken. What the bounds    *)
(* are is the limits l: depth, nodes, items, and the depth of the root.    *)
(***************************************************************************)
EXTENDS Integers, SequencesExt, FiniteSetsExt, OrderedChecks

Rejected == -1

Leaf == [children |-> <<>>, members |-> <<>>, oversized |-> FALSE, broken |-> FALSE]
Collection(children) == [Leaf EXCEPT !.children = children]
Object(members, children) == [Leaf EXCEPT !.members = members, !.children = children]

\* The pass of UniqueJson over the text: a member's name, then its value.
RECURSIVE UniqueWalk(_)
UniqueWalk(v) ==
    IF v.broken THEN "InvalidJson"
    ELSE FirstVerdict([i \in DOMAIN v.children |->
            IF i \in DOMAIN v.members /\ \E j \in 1..(i - 1) : v.members[j] = v.members[i]
            THEN "DuplicateJsonMember" ELSE UniqueWalk(v.children[i])])

\* validate_attribute_value and validate_detail_value: the nodes counted once
\* the value has been walked, or Rejected.
RECURSIVE Visit(_, _, _, _)
Visit(v, depth, nodes, l) ==
    IF depth > l.depth \/ nodes + 1 > l.nodes \/ Len(v.children) > l.items \/ v.oversized
    THEN Rejected
    ELSE FoldLeft(LAMBDA counted, child :
                    IF counted = Rejected THEN Rejected ELSE Visit(child, depth + 1, counted, l),
                  nodes + 1, v.children)

\* validate_attributes and validate_details, past the encoded size.
Bounded(v, l) == Visit(v, l.root, 0, l) # Rejected

----------------------------------------------------------------------------
(* What the walk is meant to establish, without a walk.                     *)

RECURSIVE Height(_), Size(_), Values(_)
Height(v) ==
    IF v.children = <<>> THEN 0
    ELSE 1 + Max({Height(v.children[i]) : i \in DOMAIN v.children})
Size(v) == 1 + FoldLeft(LAMBDA n, child : n + Size(child), 0, v.children)
Values(v) == {v} \cup UNION {Values(v.children[i]) : i \in DOMAIN v.children}

AllUnique(v) ==
    \A w \in Values(v) : Cardinality(Range(w.members)) = Len(w.members)

WithinBounds(v, l) ==
    /\ l.root + Height(v) <= l.depth /\ Size(v) <= l.nodes
    /\ \A w \in Values(v) : Len(w.children) <= l.items /\ ~w.oversized
=============================================================================

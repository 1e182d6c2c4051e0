----------------------------- MODULE SceneTree -----------------------------
(***************************************************************************)
(* What the scene tools make of a scene: a tree of nodes, each with its    *)
(* children in their order, its name, whether it is in the group, and a    *)
(* property; and the connections between nodes.  A node here is the        *)
(* engine's object, whatever its name and its place; a tool's node path    *)
(* stands for the node that it leads to.  One group, one property, and     *)
(* one signal with one method stand for all.                               *)
(*                                                                         *)
(* A node may instance another scene.  What is inside, one node if any, is *)
(* not a node of this scene: the engine supplies it whenever it opens the  *)
(* scene, as the first child of the instance.  The scene is as it is then: *)
(* opened.                                                                 *)
(***************************************************************************)
EXTENDS Integers, Sequences, FiniteSets

CONSTANTS
    Nodes, Root, DefaultValue,
    InnerName   \* of the node inside an instanced scene

ASSUME RootAssumption == Root \in Nodes

NodesOf(s) == DOMAIN s.children
Elements(q) == {q[i] : i \in DOMAIN q}
ChildrenOf(s, n) == Elements(s.children[n])
ParentOf(s, n) == CHOOSE p \in NodesOf(s) : n \in ChildrenOf(s, p)
PlaceOf(q, n) == CHOOSE i \in DOMAIN q : q[i] = n

\* The children that p has besides those that are nodes of this scene.
Supplied(s, p) == IF p \in s.inside THEN 1 ELSE 0
ChildCount(s, p) == Len(s.children[p]) + Supplied(s, p)
IndexOf(s, n) ==
    LET p == ParentOf(s, n) IN PlaceOf(s.children[p], n) - 1 + Supplied(s, p)
ChildNames(s, p) ==
    {s.name[c] : c \in ChildrenOf(s, p)} \cup IF p \in s.inside THEN {InnerName} ELSE {}
HasChildNamed(s, p, name) == name \in ChildNames(s, p)

\* n and all below it: the least set of nodes that has n and the children of
\* its members.
Subtree(s, n) ==
    {m \in NodesOf(s) : \A below \in SUBSET NodesOf(s) :
        n \in below /\ (\A k \in below : ChildrenOf(s, k) \subseteq below) => m \in below}

\* A sequence of nodes without those that are not kept.
Selected(q, kept) ==
    IF Elements(q) \subseteq kept THEN q ELSE SelectSeq(q, LAMBDA c : c \in kept)

\* The scene without the nodes that are not kept.
Keep(s, kept) ==
    [children |-> [n \in kept |-> Selected(s.children[n], kept)],
     name     |-> [n \in kept |-> s.name[n]],
     grouped  |-> s.grouped \cap kept,
     property |-> [n \in kept |-> s.property[n]],
     links    |-> {l \in s.links : {l.from, l.to} \subseteq kept},
     inside   |-> s.inside \cap kept]

\* PackedScene.pack saves the nodes that the root owns, down to the first
\* that it does not.
Pack(s, owned) ==
    Keep(s, NodesOf(s) \ UNION {Subtree(s, n) : n \in NodesOf(s) \ owned})

\* Mutant: the node's children are forgotten.
AssignOwnerOnly(s, n, owned) == owned \cup {n}

AssignOwnerRecursive(s, n, owned) == owned \cup Subtree(s, n)

-----------------------------------------------------------------------------
(* Changes                                                                 *)

NewScene(rootName) ==
    [children |-> [n \in {Root} |-> <<>>], name |-> [n \in {Root} |-> rootName],
     grouped |-> {}, property |-> [n \in {Root} |-> DefaultValue], links |-> {},
     inside |-> {}]

Without(q, n) ==
    IF n \notin Elements(q) THEN q
    ELSE SubSeq(q, 1, PlaceOf(q, n) - 1) \o SubSeq(q, PlaceOf(q, n) + 1, Len(q))

InsertAt(q, index, n) == SubSeq(q, 1, index) \o <<n>> \o SubSeq(q, index + 1, Len(q))

AddChild(s, p, n) == [s EXCEPT !.children[p] = Append(@, n)]
RemoveChild(s, n) == [s EXCEPT !.children[ParentOf(s, n)] = Without(@, n)]

\* The scene without n and all below it.
Removed(s, n) == Keep(RemoveChild(s, n), NodesOf(s) \ Subtree(s, n))

PutAt(s, p, n, at) == [s EXCEPT !.children[p] = InsertAt(Without(@, n), at, n)]

\* The place among the children that are nodes of this scene: none of them is
\* before one that is supplied once the scene is opened again.
OwnIndex(s, p, index) == IF p \in s.inside /\ index > 0 THEN index - 1 ELSE index

\* Mutant: counts the moved node itself among those that it passes.
MoveChildPast(s, p, n, index) ==
    PutAt(s, p, n, OwnIndex(s, p, IF index > IndexOf(s, n) THEN index - 1 ELSE index))

\* Node.move_child: to the index among its siblings.
MoveChild(s, p, n, index) == PutAt(s, p, n, OwnIndex(s, p, index))

\* A scene with a new node, which has no parent yet.
WithNode(s, n, name) ==
    LET all == NodesOf(s) \cup {n}
    IN  [children |-> [m \in all |-> IF m = n THEN <<>> ELSE s.children[m]],
         name     |-> [m \in all |-> IF m = n THEN name ELSE s.name[m]],
         grouped  |-> s.grouped,
         property |-> [m \in all |-> IF m = n THEN DefaultValue ELSE s.property[m]],
         links    |-> s.links,
         inside   |-> s.inside]

\* Node.duplicate: copyOf maps each new node to the node of the subtree that
\* it is a copy of.  The copies have their groups and their outgoing
\* connections, to the copy of the target where that was copied too.
WithCopies(s, copyOf) ==
    LET copies   == DOMAIN copyOf
        all      == NodesOf(s) \cup copies
        original(n) == IF n \in copies THEN copyOf[n] ELSE n
        copyFor(n)  == CHOOSE c \in copies : copyOf[c] = n
        copied      == {copyOf[c] : c \in copies}
    IN  [children |-> [n \in all |->
                          IF n \in copies
                          THEN [i \in DOMAIN s.children[copyOf[n]] |->
                                    copyFor(s.children[copyOf[n]][i])]
                          ELSE s.children[n]],
         name     |-> [n \in all |-> s.name[original(n)]],
         grouped  |-> s.grouped \cup {c \in copies : copyOf[c] \in s.grouped},
         property |-> [n \in all |-> s.property[original(n)]],
         links    |-> s.links \cup
                      {[from  |-> copyFor(l.from),
                        to    |-> IF l.to \in copied THEN copyFor(l.to) ELSE l.to,
                        flags |-> l.flags] : l \in {l \in s.links : l.from \in copied}},
         inside   |-> s.inside \cup {c \in copies : copyOf[c] \in s.inside}]

\* A name is a sequence that begins with a word and goes on with suffixes: k
\* is the suffix _k of a tool, and -k the number k of the engine.
IsName(name) == name \in Seq(Elements(name))

ASSUME InnerAssumption == IsName(InnerName)

\* Mutant: takes the name without looking.
ResolveNothing(s, p, base) == base

\* The name itself, or with the least suffix from 2 that no sibling has.
ResolveName(s, p, base) ==
    IF ~HasChildNamed(s, p, base) THEN base
    ELSE LET free(k) == ~HasChildNamed(s, p, Append(base, k))
             last    == ChildCount(s, p) + 2
             suffix  == CHOOSE k \in 2 .. last : free(k) /\ \A j \in 2 .. (k - 1) : ~free(j)
         IN  Append(base, suffix)

\* The engine's name for a node when the one it should have is taken: with
\* the least number from 2 that makes it another.
Numbered(base, taken) ==
    {Append(base, -k) : k \in
        {k \in 2 .. (Cardinality(taken) + 2) :
            /\ Append(base, -k) \notin taken
            /\ \A j \in 2 .. (k - 1) : Append(base, -j) \in taken}}

\* Node.set_name, which no tool looks at before.
SetNames(s, n, name) ==
    LET taken == IF n = Root THEN {} ELSE ChildNames(RemoveChild(s, n), ParentOf(s, n))
    IN  IF name \notin taken THEN {name} ELSE Numbered(name, taken)

-----------------------------------------------------------------------------
(* What is inside instances                                                *)

\* A scene that was saved after the root was made the owner of what is inside
\* some instances: it is a node of this scene as well, leafOf[m] for the
\* instance m, and the instance's first after the one that is supplied.
WithInner(s, leafOf, names) ==
    LET leaves == Elements(leafOf)
        all    == NodesOf(s) \cup leaves
    IN  [children |-> [m \in all |-> IF m \in leaves THEN <<>>
                                     ELSE IF m \in DOMAIN leafOf
                                     THEN InsertAt(s.children[m], 0, leafOf[m])
                                     ELSE s.children[m]],
         name     |-> [m \in all |-> IF m \in DOMAIN names THEN names[m] ELSE s.name[m]],
         grouped  |-> s.grouped,
         property |-> [m \in all |-> IF m \in leaves THEN DefaultValue ELSE s.property[m]],
         links    |-> s.links,
         inside   |-> s.inside]

\* The names of such an instance's children when the scene is opened: the
\* leaf was saved with the name that it has in its own scene, and a name that
\* a child before has is numbered.
LoadsAs(s, m, leaf, names) ==
    LET kids     == InsertAt(s.children[m], 0, leaf)
        saved(c) == IF c = leaf THEN InnerName ELSE s.name[c]
    IN  \A i \in DOMAIN kids :
            LET before == {InnerName} \cup {names[kids[j]] : j \in 1 .. (i - 1)}
                c      == kids[i]
            IN  /\ names[c] \notin before
                /\ names[c] \in IF saved(c) \in before THEN Numbered(InnerName, before)
                                ELSE {saved(c)}

-----------------------------------------------------------------------------
(* Well-formed scenes                                                      *)

Distinct(q) == \A i, j \in DOMAIN q : q[i] = q[j] => i = j

\* Every node but the root is the child of one node, once, and the root
\* leads to all; siblings differ in name, and from what an instance supplies;
\* connections are between nodes.
IsScene(s) ==
    /\ Root \in NodesOf(s) /\ NodesOf(s) \subseteq Nodes
    /\ Subtree(s, Root) = NodesOf(s)
    /\ \A n \in NodesOf(s) :
           /\ Distinct(s.children[n])
           /\ Root \notin ChildrenOf(s, n)
           /\ \A m \in NodesOf(s) \ {n} : ChildrenOf(s, n) \cap ChildrenOf(s, m) = {}
           /\ \A c, d \in ChildrenOf(s, n) : s.name[c] = s.name[d] => c = d
           /\ n \in s.inside => \A c \in ChildrenOf(s, n) : s.name[c] # InnerName
    /\ s.grouped \subseteq NodesOf(s) /\ s.inside \subseteq NodesOf(s)
    /\ \A l \in s.links : {l.from, l.to} \subseteq NodesOf(s)
=============================================================================

--------------------------- MODULE MCProjectFiles ---------------------------
(* Two keys, objects in objects; scenes of up to four nodes.  All of them  *)
(* want the name that others have.                                         *)
EXTENDS ProjectFiles, TLC

CONSTANTS a, b, one, two, s1, s2, root, n1, n2, n3, p0, p1

TwoKeys    == {a, b}
TwoScalars == {one, two}
AllKinds   == {"json", "cfg", "script", "resource", "scene"}

\* "", no slash, "/", "/a", "/b", "//a", "/a/", "/a/b", "/b/a"
SomePointers ==
    {<<>>, Unrooted, <<Empty>>, <<a>>, <<b>>, <<Empty, a>>, <<a, Empty>>, <<a, b>>, <<b, a>>}

\* The key a is the type; 1 names a type that needs the field b.
OneType == {one}
TextOf(object) == IF <<b>> \in DOMAIN object THEN two ELSE NoText
ObjectOf(fields) == [p \in {<<>>} \cup fields |-> IF p = <<>> THEN Object ELSE one]

\* 1, 2, {}, {b: 1}; the typed object {a: 1, b: 1}, and in an object,
\* {b: {a: 1, b: 1}}; and one without its field, {a: 1}
SomeValues ==
    {[p \in {<<>>} |-> one], [p \in {<<>>} |-> two], EmptyObject,
     ObjectOf({<<b>>}), ObjectOf({<<a>>, <<b>>}), ObjectOf({<<a>>}),
     Put(EmptyObject, <<b>>, ObjectOf({<<a>>, <<b>>}))}

TwoSections == {s1, s2}
TwoTexts   == {one, two}
FourNodes  == {root, n1, n2, n3}
NameA      == <<a>>
OneName    == {<<a>>}
TwoValues  == {p0, p1}
TwoFlags   == {2, 10}
NewNodes   == Permutations({n1, n2, n3})

\* No action reads the last answer, so that states that differ in it only
\* have the same steps.
KindAndFile == <<kind, file>>
=============================================================================

----------------------------- MODULE Documents -----------------------------
(***************************************************************************)
(* What the file tools make of a JSON document and of a config file: how a *)
(* pointer is read, what is found at it, and what a set or a removal       *)
(* leaves.  A document is a function from the places in it, sequences of   *)
(* keys, to the scalar there, or to Object.  An array counts as a scalar:  *)
(* no pointer enters one.  A result carries the code that the tool answers *)
(* with, whether something changed, and the document after it.             *)
(***************************************************************************)
EXTENDS Naturals, Sequences

CONSTANTS
    Keys, Scalars,
    Empty,     \* the token between two slashes, or after the last one
    Unrooted,  \* a pointer that does not begin with a slash
    Null,      \* JSON's null, which a config file cannot hold
    TypeKey, TypeNames,  \* "type", and the engine's types that it may name
    Written(_),          \* the text of the value that a typed object stands for
    NoText               \* of one that lacks a field

ASSUME TokenAssumption == Empty \notin Keys /\ Unrooted # <<>> /\ NoText \notin Scalars

Object == "object"

\* p is the place t or lies inside what is there.
Within(t, p) == Len(t) <= Len(p) /\ SubSeq(p, 1, Len(t)) = t

\* t lies strictly inside p.
Above(p, t) == p # t /\ Within(p, t)

InsideOf(t, p) == SubSeq(p, Len(t) + 1, Len(p))

ValueAt(doc, t) ==
    [p \in {InsideOf(t, q) : q \in {q \in DOMAIN doc : Within(t, q)}} |-> doc[t \o p]]

IsObject(doc) == doc[<<>>] = Object

EmptyObject == [p \in {<<>>} |-> Object]

\* The places above a place, up to the root, are objects.
IsDocument(doc) ==
    /\ doc = [p \in DOMAIN doc |-> doc[p]]
    /\ <<>> \in DOMAIN doc
    /\ \A p \in DOMAIN doc :
           /\ p \in Seq(Keys) /\ doc[p] \in Scalars \cup {Object}
           /\ \A n \in 0 .. (Len(p) - 1) :
                  SubSeq(p, 1, n) \in DOMAIN doc /\ doc[SubSeq(p, 1, n)] = Object

-----------------------------------------------------------------------------
(* Typed objects: an object whose "type" names a type of the engine stands *)
(* for a value of it, a Vector2 for one.  JSON cannot hold that value: its *)
(* text is what is stored.                                                 *)

\* What is inside a typed object is not looked at for others.
TypedPlaces(value) ==
    LET typed == {p \in DOMAIN value : /\ Append(p, TypeKey) \in DOMAIN value
                                       /\ value[Append(p, TypeKey)] \in TypeNames}
    IN  {p \in typed : \A q \in typed : ~Above(q, p)}

Decodes(value) == \A p \in TypedPlaces(value) : Written(ValueAt(value, p)) # NoText

Decoded(value) ==
    LET typed == TypedPlaces(value)
    IN  [p \in {q \in DOMAIN value : \A t \in typed : ~Above(t, q)} |->
            IF p \in typed THEN Written(ValueAt(value, p)) ELSE value[p]]

-----------------------------------------------------------------------------
(* Results                                                                 *)

Refused(code, doc) == [code |-> code, changed |-> FALSE, content |-> doc]
Same(doc) == Refused("OK", doc)
Changed(doc) == [code |-> "OK", changed |-> TRUE, content |-> doc]

\* Two values that differ may be of two types: the engine's operator may then
\* stop the script, which is answered as INTERNAL.
Differs(doc, next) == {Changed(next), Refused("INTERNAL", doc)}

-----------------------------------------------------------------------------
(* JSON                                                                    *)

Tokens(pointer) == SelectSeq(pointer, LAMBDA token : token # Empty)

\* The code of a get.  The pointer "" and those of slashes only are the
\* document's root.
GetValue(doc, pointer) ==
    IF pointer = Unrooted THEN "INVALID_ARGS"
    ELSE IF Tokens(pointer) \in DOMAIN doc THEN "OK" ELSE "NOT_FOUND"

\* Mutant: a scalar on the way is replaced.
BlockedNever(doc, t) == FALSE

\* A set walks through objects only and makes those that are missing.
Blocked(doc, t) == \E p \in DOMAIN doc : Above(p, t) /\ doc[p] # Object

\* Mutant: the objects on the way are not made.
PutWithoutParents(doc, t, value) ==
    LET kept   == {p \in DOMAIN doc : ~Within(t, p)}
        placed == {t \o p : p \in DOMAIN value}
    IN  [p \in kept \cup placed |-> IF Within(t, p) THEN value[InsideOf(t, p)] ELSE doc[p]]

Put(doc, t, value) ==
    LET kept   == {p \in DOMAIN doc : ~Within(t, p)}
        made   == {SubSeq(t, 1, n) : n \in 0 .. (Len(t) - 1)}
        placed == {t \o p : p \in DOMAIN value}
    IN  [p \in kept \cup made \cup placed |->
            IF Within(t, p) THEN value[InsideOf(t, p)]
            ELSE IF p \in made THEN Object ELSE doc[p]]

Cut(doc, t) == [p \in {p \in DOMAIN doc : ~Within(t, p)} |-> doc[p]]

\* The last of no tokens stops the script.
SetValue(doc, pointer, value) ==
    LET t == Tokens(pointer)
    IN  IF pointer = <<>>
        THEN IF doc = value THEN {Same(doc)} ELSE Differs(doc, value)
        ELSE IF pointer = Unrooted \/ ~IsObject(doc) THEN {Refused("INVALID_ARGS", doc)}
        ELSE IF t = <<>> THEN {Refused("INTERNAL", doc)}
        ELSE IF Blocked(doc, t) THEN {Refused("INVALID_ARGS", doc)}
        ELSE IF t \notin DOMAIN doc THEN {Changed(Put(doc, t, value))}
        ELSE IF ValueAt(doc, t) = value THEN {Same(doc)}
        ELSE Differs(doc, Put(doc, t, value))

RemoveValue(doc, pointer) ==
    LET t == Tokens(pointer)
    IN  IF pointer \in {<<>>, Unrooted} THEN Refused("INVALID_ARGS", doc)
        ELSE IF ~IsObject(doc) THEN Same(doc)
        ELSE IF t = <<>> THEN Refused("INTERNAL", doc)
        ELSE IF t \notin DOMAIN doc THEN Same(doc)
        ELSE Changed(Cut(doc, t))

-----------------------------------------------------------------------------
(* Config files: a function from the <<section, key>> that have a value to *)
(* it.  A section is there as long as one of its keys is.                  *)

EmptyConfig == [entry \in {} |-> Null]

\* ConfigFile.get_value with the default null, and ConfigFile.set_value,
\* for which null erases the key.
ConfigGet(config, entry) ==
    IF entry \in DOMAIN config THEN config[entry] ELSE Null
ConfigPut(config, entry, value) ==
    IF value = Null THEN [e \in DOMAIN config \ {entry} |-> config[e]]
    ELSE [e \in DOMAIN config \cup {entry} |-> IF e = entry THEN value ELSE config[e]]

SetConfigValue(config, section, key, value) ==
    LET old  == ConfigGet(config, <<section, key>>)
        next == ConfigPut(config, <<section, key>>, value)
    IN  IF old = value THEN {Same(config)}
        ELSE IF Null \in {old, value} THEN {Changed(next)}
        ELSE Differs(config, next)

\* Mutant: a removal of a key takes its section.
RemoveSection(config, section, key) ==
    LET gone == {e \in DOMAIN config : e[1] = section}
    IN  IF gone = {} THEN Same(config)
        ELSE Changed([e \in DOMAIN config \ gone |-> config[e]])

\* No key stands for the whole section.
RemoveConfigValue(config, section, key) ==
    LET gone == {e \in DOMAIN config : e[1] = section /\ key \in {Empty, e[2]}}
    IN  IF gone = {} THEN Same(config)
        ELSE Changed([e \in DOMAIN config \ gone |-> config[e]])
=============================================================================

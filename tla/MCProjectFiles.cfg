SPECIFICATION Spec
CONSTANTS
    a = a
    b = b
    one = one
    two = two
    s1 = s1
    s2 = s2
    root = root
    n1 = n1
    n2 = n2
    n3 = n3
    p0 = p0
    p1 = p1
    Keys <- TwoKeys
    Scalars <- TwoScalars
    Empty = Empty
    Unrooted = Unrooted
    Null = Null
    TypeKey = a
    TypeNames <- OneType
    Written <- TextOf
    NoText = NoText
    Nodes <- FourNodes
    Root = root
    DefaultValue = p0
    InnerName <- NameA
    Kinds <- AllKinds
    Missing = Missing
    Blank = Blank
    Broken = Broken
    NoAnswer = NoAnswer
    Pointers <- SomePointers
    JsonValues <- SomeValues
    BadValue = BadValue
    Sections <- TwoSections
    ConfigValues <- TwoScalars
    Texts <- TwoTexts
    RootNames <- OneName
    NodeNames <- OneName
    SourceName <- NameA
    Values <- TwoValues
    Flags <- TwoFlags
    MaxNameLength = 2
    MaxSize = 4
VIEW KindAndFile
SYMMETRY NewNodes
INVARIANTS
    TypeOK
    SceneIsTree
PROPERTIES
    RefusedUntouched
    JsonWriteIsRead
    ConfigWriteIsRead
    NothingVanishes
    ReparentIsExact

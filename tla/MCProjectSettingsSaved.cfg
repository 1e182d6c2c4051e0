SPECIFICATION Spec
CONSTANTS
    name = name
    globals = globals
    jump = jump
    v1 = v1
    p1 = p1
    e1 = e1
    Absent = Absent
    Junk = Junk
    NoIndex = NoIndex
    Plain <- OnePlain
    Autoloads <- OneAutoload
    Actions <- OneAction
    PlainValues <- OneValue
    Paths <- OnePath
    Orders <- TwoOrders
    Deadzones <- TwoZones
    Events <- OneEvent
    DefaultDeadzone = 1
INVARIANT SuccessIsSaved

\* Registry, names, supervision and mailboxes over the safety programs.
SPECIFICATION Spec
CONSTANTS
    Capacity = 2
    Names = {n1}
    n1 = n1
    hi = hi
    NoName = NoName
    Texts = {hi}
    Crash = Crash
    Main = Main
    BodyA = BodyA
    BodyB = BodyB
    Bodies = {Main, BodyA, BodyB}
    MaxActors = 3
    Programs <- SafetyPrograms
INVARIANTS
    TypeOK
    RegistryExact
    NamesLead
    SupervisionForest
    EscalatesOnce
PROPERTIES
    GoneForGood
    MailboxesHold
\* A program ends, and the spawn bound stops the ones that would go on.
CHECK_DEADLOCK FALSE

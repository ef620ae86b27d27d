\* Loop-free programs that do not send in circles.
SPECIFICATION FairSpec
CONSTANTS
    Capacity = 1
    Names = {n1}
    n1 = n1
    hi = hi
    NoName = NoName
    Texts = {hi}
    Crash = Crash
    Main = Main
    BodyA = BodyA
    BodyB = BodyB
    Bodies = {Main, BodyA, BodyB}
    MaxActors = 3
    Programs <- LivePrograms
PROPERTIES
    SendsReturn
    AllEnd
\* A program ends.
CHECK_DEADLOCK FALSE

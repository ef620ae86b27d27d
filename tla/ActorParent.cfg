\* The parent an escalation goes to is not the actor that spawned the child.
SPECIFICATION Spec
CONSTANTS
    Capacity = 1
    Names = {n1}
    n1 = n1
    hi = hi
    NoName = NoName
    Texts = {hi}
    Crash = Crash
    Main = Main
    BodyA = BodyA
    BodyB = BodyB
    Bodies = {Main, BodyA, BodyB}
    MaxActors = 3
    Programs <- FamilyPrograms
INVARIANT
    ParentIsCreator
CHECK_DEADLOCK FALSE

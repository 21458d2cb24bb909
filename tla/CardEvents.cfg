SPECIFICATION Spec
CONSTANT NoStatus = NoStatus
INVARIANTS CrossingsTold EventsAgreeWithStats
PROPERTIES EventsAreCrossings

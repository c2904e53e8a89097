SPECIFICATION Spec
PROPERTIES EveryRequestEnds EveryWaitEnds
CHECK_DEADLOCK FALSE

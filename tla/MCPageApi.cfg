CONSTANT Calls = {sign, register, again}
SPECIFICATION FairApiSpec
INVARIANTS OwnResponseOnce
PROPERTIES EveryCallAnswered
CHECK_DEADLOCK FALSE

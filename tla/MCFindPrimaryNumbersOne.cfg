CONSTANT MaxN = 14
SPECIFICATION Spec
INVARIANT ReturnsPrimesBelowN
CHECK_DEADLOCK FALSE

SPECIFICATION Spec
CONSTANT MaxFaults = 2
INVARIANT BuiltFromWhole
PROPERTIES FinalNamesUntouched EventuallyBuilt

SPECIFICATION ItoaSpec
CONSTANTS
  Inputs <- SmallInputs
  MaxDigits = 7
INVARIANT DecimalAsWritten

SPECIFICATION EveryWord
INVARIANTS
    LengthsAgree
    PlannedIsExecuted
    NativeFlags
    ArithmeticExact

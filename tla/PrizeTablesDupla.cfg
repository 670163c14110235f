CONSTANTS
    Lotteries = {"dupla-sena"}
    Values = {7}
    MaxMissing = 1
    MonthIsLate = FALSE
SPECIFICATION Spec
INVARIANT TotalIsOwed

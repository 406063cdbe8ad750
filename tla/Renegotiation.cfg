SPECIFICATION Spec
CONSTANT MaxOffers = 3
INVARIANTS TypeOK SentIsLocal AsAsked CrashOnlyAtOdds
CHECK_DEADLOCK FALSE

SPECIFICATION FairSpec
CONSTANTS
    Top = 31
    Scale = 2
    Limits <- SomeLimits
    Poll = 2
    Start <- SomeInstants
    MaxStep = 2
INVARIANTS TypeOK NotTooEarly NotTooLate
PROPERTIES EndsOrFloods

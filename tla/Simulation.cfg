SPECIFICATION Spec
CONSTANTS Prices = {2, 3}
          Limits = {1, 3}
          OpenQtys <- FlatOrShort
          TargetDollars <- LongFlatShort
          MaxTrade = 6
          MinTrade = 4
          MinPosition = 4
          Dust = 3
          Suspicious = 8
          Fee = 1
          Slip = 1
          Sky = 1
          SliceTime <- Times
          Hour = 4
          DayLength = 6
          LastSlice = 2
CHECK_DEADLOCK FALSE
INVARIANTS TypeOK OneSided LedgersAgree DeadPositionsClosed AgeOfThePosition DailyAddsUp
PROPERTY KeepsAccount

SPECIFICATION Spec
CONSTANTS Day = 8
          Times = {0, 4}
          Interval = 2
          Near = 1
          Wave = 1
          Period = 2
          Offset = 1
          Starts = {2, 4}
          MinCalc = 1
          MaxCalc = 2
          MaxNow = 11
INVARIANTS TypeOK TargetsHandedOver OptimizedInTime OnScheduleFirstDay

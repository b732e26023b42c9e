SPECIFICATION FairSpec
CONSTANTS StaleTicks = 2
          MaxRestarts = 1
PROPERTIES ConditionReported CallsReturn

SPECIFICATION FairSpec
CONSTANTS Symbols = {a}
          a = a
          Slots = {1, 2}
          Targets = {2}
          StaleWaves = 3
          Slack = 0
          MaxPos = 1
          MaxReqs = 0
          MaxMsgs = 1
          Faults = {"late", "untold"}
INVARIANTS BookAgrees SweptHaveExpired
PROPERTIES OrdersEnd BookClears

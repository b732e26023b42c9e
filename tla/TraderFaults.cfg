SPECIFICATION Spec
CONSTANTS Symbols = {a}
          a = a
          Slots = {1}
          Targets = {1}
          StaleWaves = 1
          Slack = 0
          MaxPos = 1
          MaxReqs = 0
          MaxMsgs = 1
          Faults = {"late", "late_book", "lost_request", "lost_message", "refresh_fails", "foreign", "unparsable", "crash"}
INVARIANT PositionAccounted

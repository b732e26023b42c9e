SPECIFICATION Spec
CONSTANTS Symbols = {a}
          a = a
          Slots = {1, 2}
          Targets <- LongShort
          StaleWaves = 1
          Slack = 1
          MaxPos = 2
          MaxReqs = 1
          MaxMsgs = 1
          Faults = {"crash", "lost_message"}
INVARIANTS TypeOK CleanSlate SizedAsHeld NoOvershoot

SPECIFICATION FairSpec
CONSTANTS RefreshTicks = 3
          LifeTicks = 6
          Delays = 5
          Faults = {"create", "connect", "refresh"}
          Listeners = {"local", "gateway"}
INVARIANTS TypeOK KeyOutlivesSession DelayCountsFailures
PROPERTY ListensAgain

SPECIFICATION FairSpec
CONSTANTS RefreshTicks = 3
          LifeTicks = 6
          Delays = 1
          Faults = {"refresh"}
          Listeners = {"local"}
PROPERTY ReconnectsOnExpiry

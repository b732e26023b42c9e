SPECIFICATION Spec
CONSTANTS Symbols = {a, b}
          a = a
          b = b
          DayTicks = 6
          CaptureFrom = 4
          CaptureTo = 6
          Window = 2
          WaveTicks = 1
          MaxNow = 20
INVARIANTS TypeOK SignalFresh CapturedWhenDue
PROPERTY BoostedInWindow

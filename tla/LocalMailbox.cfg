SPECIFICATION FairSpec
CONSTANTS Locked = TRUE
          MaxEvents = 3
INVARIANTS TypeOK Lossless MappingBeforeAck
PROPERTIES Delivered ImplementsMailbox

SPECIFICATION Spec
CONSTANTS Aggregators = {a1, a2}
          MaxErrors = 1
          MaxRows = 1
CHECK_DEADLOCK FALSE
INVARIANTS TypeOK VwapWhole
PROPERTIES QuoteReachesBar KilledAggregatorsEnd QuotesComeBack

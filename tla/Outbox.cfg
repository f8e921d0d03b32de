CONSTANTS
    NumEvents = 4
    Exporters = {x1, x2}
    Limit = 2
    MaxFailures = 2
SPECIFICATION FairSpec
INVARIANTS ExportedIsWritten WrittenOnce
PROPERTIES ImplementsAtLeastOnce EventuallyExported

SPECIFICATION FairSpec
CONSTANT MayFail = {"dir", "egress", "resolve", "stage", "umount", "boot", "ctl", "export",
                    "cleanup", "drop"}
CHECK_DEADLOCK FALSE
INVARIANTS ExportComplete ImageUnshared CleansUpInOrder TimeoutIsReported
PROPERTIES ImplementsCapsule WorkerEventuallyEnds CallsReturn

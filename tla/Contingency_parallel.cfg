CONSTANTS
    Jobs <- MCJobs
    w1 = w1
    w2 = w2
    w3 = w3
    MaxTimeouts = 4
SPECIFICATION FairSpec
CHECK_DEADLOCK FALSE
INVARIANTS OwnOutages MasterUntouched TargetAlive LinesFinal NoneMissed ListCovers ReportComplete
PROPERTY Finishes

CONSTANTS
    cron = cron
    button = button
    d1 = d1
    d2 = d2
    Crons <- MCCrons
    Buttons <- MCButtons
    Devices <- MCDevices
    Cap = 2
    LockAfter = 2
    MaxRounds = 1
    MaxNow = 2

SPECIFICATION Spec

INVARIANTS
    TypeOK
    OnePassPerConnection
    
    OutcomeMatchesLog


    

VIEW MCView

CHECK_DEADLOCK FALSE

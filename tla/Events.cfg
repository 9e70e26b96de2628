\* Two workers, the dispatcher and a submit request.
SPECIFICATION FairSpec
CONSTANTS
    Workers = {w1, w2}
    Main = main
    Signal = signal
    disp = disp
    submit = submit
    Tasks <- MCTasks
    Priority <- MCPriority
    StartTasks <- MCStartTasks
    Spawns <- MCSpawns
    Recurring <- MCRecurring
    Delays = {1}
    MaxDelay = 1
    MaxAge = 1
INVARIANTS NoStrandedEvent
PROPERTIES QueuedUntilTakenOnce QueuedEventRuns 

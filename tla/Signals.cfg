\* Two signals: a SIGUSR1 starts a walk, and a SIGHUP or SIGQUIT arrives
\* while the walk rotates logs or after it passed the entry.
CONSTANTS
    MaxSignals = 2
SPECIFICATION Spec
PROPERTY ExitSignalServed

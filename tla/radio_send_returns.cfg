SPECIFICATION Spec
PROPERTY
    SendReturns
\* sendto may spin for ever: nothing is enabled then.
CHECK_DEADLOCK FALSE

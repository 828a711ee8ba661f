------------------------- MODULE MC_RouterLifecycle -------------------------
EXTENDS RouterLifecycle

\* Both signals main.cpp handles.
MCSignals == {"SIGINT", "SIGUSR1"}

\* A user may press Ctrl-C again when the first one seems ignored.
MCMaxDeliveries == 2
====

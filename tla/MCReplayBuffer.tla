--------------------------- MODULE MCReplayBuffer ---------------------------
EXTENDS ReplayBuffer

\* In memory only, auto-saved with a cache as large as the window and with a
\* smaller one, and in memory with the sampling thread.
AllSetups == { [autoSave |-> FALSE, preload |-> FALSE, cacheSize |-> 1],
               [autoSave |-> TRUE, preload |-> FALSE, cacheSize |-> 2],
               [autoSave |-> TRUE, preload |-> FALSE, cacheSize |-> 1],
               [autoSave |-> FALSE, preload |-> TRUE, cacheSize |-> 1] }
=============================================================================

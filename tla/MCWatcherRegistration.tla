----------------------- MODULE MCWatcherRegistration -----------------------
EXTENDS WatcherRegistration, TLC

Symmetry == Permutations(Caller) \cup Permutations(Watcher)
==============================================================================

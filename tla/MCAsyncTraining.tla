-------------------------- MODULE MCAsyncTraining ---------------------------
EXTENDS AsyncTraining

CONSTANTS p1, p2

OneParam == {{p} : p \in Params}

\* Blocking, with an init_sync of everything and no minimal ratio; blocking, with
\* init_sync disabled and a ratio; in the background, with an init_sync of one
\* parameter.
PatchModes ==
    { [noWait |-> FALSE, syncer |-> "patch", init |-> Params, onPolicy |-> 0],
      [noWait |-> FALSE, syncer |-> "patch", init |-> {}, onPolicy |-> 10],
      [noWait |-> TRUE, syncer |-> "patch", init |-> {p2}, onPolicy |-> 0] }

BlockingBucket ==
    {[noWait |-> FALSE, syncer |-> "bucket", init |-> Params, onPolicy |-> 0]}
=============================================================================

------------------------------ MODULE MCChannel ------------------------------
(***************************************************************************)
(* Small programs: one on an unbounded channel, one on a bounded one.        *)
(***************************************************************************)
EXTENDS Channel

CONSTANTS p, q, r, drv, a, b

MCClient == {p, q, r, drv}
MCDriver == {drv}
MCKey == {a, b}

Async(op, key, weight) == [op |-> op, key |-> key, weight |-> weight, async |-> TRUE]
Sync(op, key, weight) == [Async(op, key, weight) EXCEPT !.async = FALSE]

\* Two keys of one producer interleave on one link; one consumer waits for
\* them out of order and forms a batch that the next item would exceed, and
\* the driver puts and gets beside them.
KeyedProgram ==
     (p :> <<Async("put", a, 1), Async("put", b, 2), Sync("put", a, 2)>>)
  @@ (q :> <<Async("get", b, 0), Async("get_batch", a, 2)>>)
  @@ (r :> <<>>)
  @@ (drv :> <<Sync("put", b, 0), Sync("get", b, 0)>>)

\* One key with room for one item: producers and consumers block in turn.
BoundedProgram ==
     (p :> <<Async("put", a, 1), Async("put", a, 1), Async("put", a, 1)>>)
  @@ (q :> <<Sync("get", a, 0), Sync("get_nowait", b, 0)>>)
  @@ (r :> <<Async("get_batch", a, 2)>>)
  @@ (drv :> <<Sync("put_nowait", b, 0), Sync("put_nowait", b, 0),
             Sync("get_nowait", b, 0)>>)

MCSetups == { [maxSize |-> 0, program |-> KeyedProgram],
              [maxSize |-> 1, program |-> BoundedProgram] }

\* They keep to what the properties ask of a program.
ASSUME SyncGetsFirst /\ FifoPrograms /\ BlockingPuts
=============================================================================

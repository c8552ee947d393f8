--------------------------- MODULE MCPointToPoint ---------------------------
EXTENDS PointToPoint

Obj(kind, cpu, accel) == [kind |-> kind, cpu |-> cpu, accel |-> accel]
Plain == Obj("object", 0, <<>>)
Host  == Obj("tensor", 1, <<>>)
Gpu   == Obj("tensor", 0, <<0>>)
Mixed(kind) == Obj(kind, 1, <<0, 1>>)

Do(op, obj, async) == [op |-> op, obj |-> obj, async |-> async]

\* Worker 0 runs p, worker 1 runs q; receives run on device 1 of worker 1.
Setup(relation, ccl, p, q) ==
    [relation |-> relation, ccl |-> ccl, device |-> [w \in Workers |-> w],
     program |-> [w \in Workers |-> IF w = 0 THEN p ELSE q]]

\* Two objects one way and one the other way, in every mix of synchronous and
\* asynchronous calls.
Exchange(relation, ccl, kind) ==
    { Setup(relation, ccl,
            <<Do("send", Mixed(kind), a), Do("send", Plain, b), Do("recv", Plain, c)>>,
            <<Do("recv", Plain, d), Do("recv", Plain, a), Do("send", Mixed("tensor"), b)>>)
      : a, b, c, d \in BOOLEAN }

\* Tensors in place behind an object.
InPlaceAfter(relation, obj) ==
    { Setup(relation, TRUE, <<Do("send", Plain, a), Do("send_tensor", obj, b)>>,
                            <<Do("recv", Plain, c), Do("recv_tensor", obj, a)>>)
      : a, b, c \in BOOLEAN }

\* One way only, to a peer that shares some of the devices.
OneWay(kind) ==
    { Setup("overlap", TRUE, <<Do("send", Mixed(kind), a), Do("send", Gpu, b)>>,
                             <<Do("recv", Plain, c), Do("recv", Plain, a)>>)
      : a, b, c \in BOOLEAN }

AllSetups == Exchange("apart", TRUE, "dict") \cup Exchange("apart", FALSE, "dataclass")
             \cup Exchange("same", TRUE, "list")
             \cup InPlaceAfter("apart", Host) \cup InPlaceAfter("same", Gpu)
             \cup InPlaceAfter("overlap", Gpu) \cup OneWay("list")

\* Both ways between workers that share some of the devices.
BothWays == { Setup("overlap", TRUE, <<Do("send", Gpu, TRUE), Do("recv", Plain, TRUE)>>,
                                     <<Do("recv", Plain, TRUE), Do("send", Gpu, TRUE)>>) }
=============================================================================

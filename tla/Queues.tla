-------------------------------- MODULE Queues --------------------------------
(* Queues whose members leave from any place: the waiters of tokio's fair    *)
(* Mutex, of which the first holds it, and LoginRegistry's early_order.  A   *)
(* member is in its queue at most once.                                      *)
EXTENDS Naturals, Sequences

Queued(queue, who) == \E i \in DOMAIN queue : queue[i] = who

(* retain: what stood behind the one that leaves moves up.                   *)
Without(queue, who) ==
  IF Queued(queue, who)
  THEN [i \in 1 .. Len(queue) - 1 |->
          IF \E j \in 1 .. i : queue[j] = who THEN queue[i + 1] ELSE queue[i]]
  ELSE queue
=============================================================================

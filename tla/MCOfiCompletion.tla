-------------------------- MODULE MCOfiCompletion --------------------------
(* TLC instance of OfiCompletion: two threads on one context. *)
EXTENDS OfiCompletion

CONSTANTS t1, t2

MCThreads == {t1, t2}

(* The build with context locks polls for ever in MULTIPLE mode; the other  *)
(* polls once, then blocks.                                                 *)
WithLock    == [ctx_lock |-> TRUE, poll |-> -1, frags |-> 1, puts |-> 3, gets |-> 1]
WithoutLock == [ctx_lock |-> FALSE, poll |-> 1, frags |-> 2, puts |-> 2, gets |-> 0]

MCBuilds == {WithLock, WithoutLock}

RetryBuilds == {[WithoutLock EXCEPT !.frags = 1]}
=============================================================================

---------------------------- MODULE MCDispatcher ----------------------------
(* Instances of Dispatcher for TLC. *)
EXTENDS Dispatcher, TLC

CONSTANTS e1, e2, e3, e4, s1, s2, c1

\* e1 is a walk event, e2 an asynchronous one.
MCGroupWalk == [e \in Event |-> CASE e = e1 -> "Walk" [] e = e2 -> "WalkParallel" [] OTHER -> "Serial"]
\* e1 runs on the pool, next to whatever else is in its queue.
MCGroupMixed == [e \in Event |-> IF e = e1 THEN "WalkParallel" ELSE "Serial"]

NoExpiration == [e \in Event |-> 0]
\* e1 expires one tick after it is dispatched.
MCExpires == [e \in Event |-> IF e = e1 THEN 1 ELSE 0]

\* Events that nothing tells apart in DispatcherSafety.
Symmetry == Permutations({e2, e3, e4})

MCDelay == [s \in Scheduled |-> IF s = s2 THEN 2 ELSE 1]
=============================================================================

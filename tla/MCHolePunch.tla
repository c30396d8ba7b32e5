---------------------------- MODULE MCHolePunch ----------------------------
(* Small networks for TLC. *)
EXTENDS HolePunch, TLC, FiniteSets

CONSTANTS t1, t2, p1

(* Every thread sends to the same provider. *)
ToOne == [t \in Thread |-> p1]

(* Threads that send to the same provider are interchangeable. *)
Symmetry == Permutations(Thread)

(* The socket's peer address matters while the reader is about to ask. *)
Followed == <<users, flags, IF WantsSource THEN peer ELSE Server,
              readerVars, th, net, routerVars, worldVars, faultVars>>

(* Once something went wrong, each thread is followed through one call.   *)
OneCallAfterFault ==
    trouble + muddles + shifts > 0 => \A t \in Thread : th[t].fails = 0

(* One call of a provider's is under way at a time, while the threads are  *)
(* in the first round of their first call, before anybody moves or is      *)
(* removed.                                                                *)
CallsEarly ==
    LET calls == {m \in net : m.kind = "call"}
    IN  /\ Cardinality(calls) <= 1
        /\ calls # {} \/ rPc \in {"call", "called"}
              => shifts = 0 /\ \A t \in Thread : th[t].fails = 0 /\ th[t].round = 1
=============================================================================

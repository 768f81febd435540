---------------------------- MODULE MCQueueEngine ----------------------------
(***************************************************************************)
(* Instances of QueueEngine for TLC: requests are model values, queues,    *)
(* aliases and models are strings.                                         *)
(***************************************************************************)
EXTENDS QueueEngine, TLC

CONSTANTS r1, r2, r3, r4

Conf(steps, after, over) ==
  [exists |-> TRUE, enabled |-> TRUE, steps |-> steps, after |-> after,
   over |-> over]
One(m, n) == [model |-> m, cap |-> n]

OneByte  == [r \in Requests |-> 1]
HugeR4   == [r \in Requests |-> IF r = r4 THEN 99 ELSE 1]
NoNames  == [a \in {} |-> "A"]
Fixed    == [q \in Queues |-> {InitConf[q]}]
AliasA   == [a \in {"a"} |-> "A"]
AliasAB  == [a \in {"a", "b"} |-> IF a = "a" THEN "A" ELSE "B"]
AllToA   == [r \in Requests |-> "a"]
OneToB   == [r \in Requests |-> IF r = r3 THEN "b" ELSE "a"]
Swap     == Permutations({r1, r2})
R2ToB    == [r \in Requests |-> IF r = r2 THEN "b" ELSE "a"]

\* Two queues share model m, under different caps; A has a second step.
SharedConf == [q \in Queues |-> IF q = "A" THEN Conf(<<One("m", 1), One("n", 1)>>, 0, NoName)
                                ELSE Conf(<<One("m", 2)>>, 0, NoName)]
\* One queue with one slot.
SingleConf == [q \in Queues |-> Conf(<<One("m", 1)>>, 0, NoName)]
\* SingleConf, or a queue an administrator has moved to another model.
Edited == [q \in Queues |-> {InitConf[q], Conf(<<One("n", 1)>>, 0, NoName)}]
\* A life in which the administrator edits, or one in which the process dies.
EditOrCrash == edits + crashes <= 1
\* A behaviour in which the administrator edits, or one in which a statement fails.
EditOrFault == edits + faults <= 1
\* A ring of overflow: A's goes to B, B's to A under A's extra alias x.  Neither
\* has a step, so what waits there waits for its deadline.  B's overflow may be
\* changed to a plain model or to A's name.
AliasABX  == [a \in {"a", "b", "x"} |-> IF a = "b" THEN "B" ELSE "A"]
NameA     == [a \in {"name-a"} |-> "A"]
RingConf  == [q \in Queues |-> Conf(<< >>, 1, IF q = "A" THEN "b" ELSE "x")]
RingSaves == [q \in Queues |-> {RingConf[q]} \cup
                (IF q = "A" THEN {} ELSE {Conf(<< >>, 1, "m"), Conf(<< >>, 1, "name-a")})]
===============================================================================

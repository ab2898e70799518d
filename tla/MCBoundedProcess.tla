-------------------------- MODULE MCBoundedProcess --------------------------
(* Instances of BoundedProcess for TLC.                                    *)
EXTENDS BoundedProcess

\* A relative timeout, an absolute deadline before the relative cap, one that
\* may be over, and an empty timeout.
MCRequest ==
    {[kind |-> "After", at |-> 0, timeout |-> 1], [kind |-> "At", at |-> 1, timeout |-> 2],
     [kind |-> "At", at |-> 0, timeout |-> 1], [kind |-> "After", at |-> 0, timeout |-> 0]}
\* stdout can exceed its limit, stderr is only closed.
MCLimit == [s \in Stream |-> 1]
MCMaxWrite == [s \in Stream |-> IF s = "stdout" THEN 2 ELSE 0]
=============================================================================

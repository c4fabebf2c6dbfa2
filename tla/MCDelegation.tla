---------------------------- MODULE MCDelegation ----------------------------
(* Plans for TLC. *)
EXTENDS Delegation

(* An execution, two verifications of it side by side, an execution on both. *)
Work == [t \in 1 .. 4 |-> CASE t = 1 -> {} [] t = 4 -> {2, 3} [] OTHER -> {1}]

Once == [t \in 1 .. 4 |-> 1]

Everywhere == {"recover", "collect", "decide", "launch", "await", "ack", "work", "release",
               "retryable", "needs_human", "non_retryable"}
ButAck == Everywhere \ {"ack"}
=============================================================================

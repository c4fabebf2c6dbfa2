--------------------------- MODULE MCScheduler ---------------------------
(* Small instances of Scheduler for TLC. *)
EXTENDS Scheduler, TLC

CONSTANTS s1, s2

Once(at) == [kind |-> "once", at |-> at]
Interval(n) == [kind |-> "interval", every |-> n]
CronAt(m, h) == [kind |-> "cron", minute |-> m, hour |-> h]

CronAndOnce == s1 :> CronAt(Star, Star) @@ s2 :> Once(3)
CronAndInterval == s1 :> CronAt(Star, Star) @@ s2 :> Interval(2)

NoCircumstances == {}
Shared == {"cli", "overlap", "busy"}
=============================================================================

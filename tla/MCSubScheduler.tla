---- MODULE MCSubScheduler ----
(***************************************************************************)
(* SubScheduler for TLC: two subscriptions, two workers and one request    *)
(* thread, so that one refresh may hang and the other must go on.          *)
(***************************************************************************)
EXTENDS SubScheduler
====

------------------------------ MODULE MCProxy ------------------------------
(* Constants of the runs of Proxy.  One unit of time stands for 30 s.      *)
EXTENDS Proxy

CONSTANTS r1, r2, r3, k1

MCRequest == {r1, r2, r3}
MCKey == {k1}

(* The requests are interchangeable in Spec, so what holds of one of them  *)
(* holds of each: a request that has entered ends, even when the pool is   *)
(* full of requests that wait for a response which never comes; a waiter   *)
(* waits for a unit of time then.  (proxy.py, session.py, dedup_wait)      *)
FirstRequestEnds == RequestEnds(r1)
=============================================================================

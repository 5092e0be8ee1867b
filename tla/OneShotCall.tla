----------------------------- MODULE OneShotCall -----------------------------
(***************************************************************************)
(* The outcome of one asynchronous call as its issuer may rely on it: it   *)
(* is decided once, with a success the completion closure has run, and it  *)
(* never runs twice.  Whether it runs for a failure is left open.          *)
(* Deadlines, sockets and handlers are not mentioned; RpcChannel.tla shows *)
(* that they implement this.                                               *)
(***************************************************************************)
EXTENDS Naturals

VARIABLES outcome,  \* "open", "success" or "failure"
          runs      \* how often the closure has run

ovars == <<outcome, runs>>

OInit == outcome = "open" /\ runs = 0

Succeed == /\ outcome = "open"
           /\ outcome' = "success"
           /\ runs' = runs + 1

Fail == /\ outcome = "open"
        /\ outcome' = "failure"
        /\ runs' \in {runs, runs + 1}

ONext == Succeed \/ Fail

OSpec == OInit /\ [][ONext]_ovars
==============================================================================

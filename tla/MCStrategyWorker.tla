-------------------------- MODULE MCStrategyWorker --------------------------
(* One exchange with one account and one instrument.  The event kinds are  *)
(* spread over the runs, but for the wallet's, which fills one cache only.  *)
EXTENDS StrategyWorker

Ev(k) == [kind |-> k, exchange |-> "x", account |-> 1]

MCEventAccount == {Ev("account")}
MCEventPosition == {Ev(k) : k \in {"account", "position"}}
MCEventWire == {Ev(k) : k \in {"market", "response", "undecodable"}}
MCInstrument == {<<"x", 7>>}
MCAccount == {<<"x", 1>>}
=============================================================================

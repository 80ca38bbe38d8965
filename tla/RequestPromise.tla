--------------------------- MODULE RequestPromise ---------------------------
(***************************************************************************)
(* What the node promises about one RequestID (doc/en/go-api.md, "Retries  *)
(* and recovery"): one launcher at a time, one worker at a time, and an    *)
(* answer that is final.  Once the ledger holds the answer no launcher is  *)
(* admitted again, so a removed worker is never recreated.  A launcher     *)
(* that outlives its lease voids one thing, and of its own request only:   *)
(* that it is alone.  There is still one worker at a time, created by a    *)
(* launcher, and an answer that is final.                                  *)
(***************************************************************************)
CONSTANTS Keys, Callers, None

VARIABLES
  holders,  \* calls that may touch resources of the request
  workers,  \* workers of the request that exist
  final,    \* the worker every later call is answered with
  void      \* requests whose launchers may have company

promiseVars == <<holders, workers, final, void>>

Init ==
  /\ holders = [k \in Keys |-> {}]
  /\ workers = [k \in Keys |-> {}]
  /\ final = [k \in Keys |-> None]
  /\ void = {}

Alone(k) == holders[k] = {} \/ k \in void

Grant(k, c) ==
  /\ Alone(k) /\ workers[k] = {} /\ final[k] = None
  /\ holders' = [holders EXCEPT ![k] = @ \cup {c}]
  /\ UNCHANGED <<workers, final, void>>

Create(k, c) ==
  /\ c \in holders[k] /\ workers[k] = {}
  /\ workers' = [workers EXCEPT ![k] = {c}]
  /\ UNCHANGED <<final, void>>
  /\ \/ UNCHANGED holders
     \/ holders' = [holders EXCEPT ![k] = @ \ {c}]

Leave(k, c) ==
  /\ c \in holders[k]
  /\ holders' = [holders EXCEPT ![k] = @ \ {c}]
  /\ UNCHANGED <<workers, final, void>>

Complete(k, w) ==
  /\ Alone(k) /\ w \in workers[k] /\ final[k] = None
  /\ final' = [final EXCEPT ![k] = w]
  /\ UNCHANGED <<holders, workers, void>>

Destroy(k, w) ==
  /\ w \in workers[k]
  /\ workers' = [workers EXCEPT ![k] = @ \ {w}]
  /\ UNCHANGED <<holders, final, void>>

\* A launcher outlives its lease while it still acts on the request.
Forfeit(k, c) ==
  /\ c \in holders[k]
  /\ void' = void \cup {k}
  /\ UNCHANGED <<holders, workers, final>>

Next ==
  \E k \in Keys, c \in Callers :
    \/ Grant(k, c) \/ Create(k, c) \/ Leave(k, c) \/ Complete(k, c)
    \/ Destroy(k, c) \/ Forfeit(k, c)

Spec == Init /\ [][Next]_promiseVars
=============================================================================

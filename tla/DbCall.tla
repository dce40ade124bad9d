------------------------------- MODULE DbCall -------------------------------
(***************************************************************************)
(* What a caller of IWsDispatcher::dispatch() (wsdbproxy.hpp) may rely on, *)
(* whatever happens to the agent and its connection: a remote procedure    *)
(* call that is executed at most once.  A call that was refused is never   *)
(* executed, an answered one has been executed, and a failed one may have  *)
(* been, or may yet be.                                                    *)
(***************************************************************************)
EXTENDS Naturals

CONSTANT Req   \* the calls

VARIABLES
  call,    \* idle, inflight, refused, failed or answered
  effect,  \* how often the operation was executed
  down     \* the calling process has died

callVars == <<call, effect, down>>

DbInit ==
  /\ call = [r \in Req |-> "idle"]
  /\ effect = [r \in Req |-> 0]
  /\ down = FALSE

Move(r, from, to) ==
  /\ ~down /\ call[r] = from
  /\ call' = [call EXCEPT ![r] = to]
  /\ UNCHANGED <<effect, down>>

Begin(r) == Move(r, "idle", "inflight")

Refuse(r) == Move(r, "idle", "refused")

Fail(r) == Move(r, "inflight", "failed")

Answer(r) == effect[r] = 1 /\ Move(r, "inflight", "answered")

\* Late, perhaps, but never twice and never without a call.
Execute(r) ==
  /\ ~down /\ call[r] \in {"inflight", "failed"} /\ effect[r] = 0
  /\ effect' = [effect EXCEPT ![r] = 1]
  /\ UNCHANGED <<call, down>>

Die == ~down /\ down' = TRUE /\ UNCHANGED <<call, effect>>

DbNext ==
  \/ \E r \in Req : Begin(r) \/ Refuse(r) \/ Fail(r) \/ Answer(r) \/ Execute(r)
  \/ Die

DbSpec == DbInit /\ [][DbNext]_callVars
=============================================================================

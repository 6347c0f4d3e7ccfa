-------------------------- MODULE GatewayContract --------------------------
(***************************************************************************)
(* What Gateway.Run promises its caller, without goroutines and channels:  *)
(* every admitted request is answered at most once, a successful return    *)
(* has answered each of them, and an unsuccessful one means refusal or     *)
(* cancellation.                                                           *)
(***************************************************************************)
EXTENDS FiniteSets

CONSTANT Requests      \* the requests that may be asked

VARIABLES
  asked,       \* the requests of this run
  answered,    \* the requests whose result was produced
  cancelled,   \* the context is done
  returned     \* "running", or what Run returned

cvars == <<asked, answered, cancelled, returned>>

CInit ==
  /\ asked \subseteq Requests
  /\ answered = {}
  /\ cancelled = FALSE
  /\ returned = "running"

Refuse == /\ returned = "running" /\ answered = {}
          /\ returned' = "refused"
          /\ UNCHANGED <<asked, answered, cancelled>>

Answer == /\ returned = "running"
          /\ \E r \in asked \ answered : answered' = answered \cup {r}
          /\ UNCHANGED <<asked, cancelled, returned>>

Cancel == /\ ~cancelled /\ cancelled' = TRUE
          /\ UNCHANGED <<asked, answered, returned>>

ReturnAll == /\ returned = "running" /\ answered = asked
             /\ returned' = "ok"
             /\ UNCHANGED <<asked, answered, cancelled>>

ReturnCancelled == /\ returned = "running" /\ cancelled
                   /\ returned' = "cancelled"
                   /\ UNCHANGED <<asked, answered, cancelled>>

CNext == Refuse \/ Answer \/ Cancel \/ ReturnAll \/ ReturnCancelled

CSafety == CInit /\ [][CNext]_cvars

(* Run returns.                                                            *)
CSpec == CSafety /\ <>(returned # "running")
============================================================================

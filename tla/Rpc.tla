-------------------------------- MODULE Rpc --------------------------------
(***************************************************************************)
(* What a caller of Client::Notify may rely on, without shared memory,     *)
(* locks or condition variables: a call is executed at most once, and it   *)
(* reports success only when it was executed with success.                 *)
(***************************************************************************)
CONSTANTS Clients, Requests

VARIABLES
  call,   \* where the current call of each client stands
  asked   \* the request of the current or the last call

rpcVars == <<call, asked>>

Standing == {"idle", "open", "success", "fail"}

Init ==
  /\ call = [c \in Clients |-> "idle"]
  /\ asked \in [Clients -> Requests]

Invoke(c, t) ==
  /\ call[c] = "idle"
  /\ call' = [call EXCEPT ![c] = "open"]
  /\ asked' = [asked EXCEPT ![c] = t]

(* The server executes the request.  A Test request is never executed and  *)
(* StopServer never fails.                                                 *)
Serve(c, result) ==
  /\ call[c] = "open"
  /\ asked[c] # "Test"
  /\ asked[c] = "StopServer" => result = "success"
  /\ call' = [call EXCEPT ![c] = result]
  /\ UNCHANGED asked

(* The call ends; a call that ends before it is executed never is. *)
Finish(c) ==
  /\ call[c] # "idle"
  /\ call' = [call EXCEPT ![c] = "idle"]
  /\ UNCHANGED asked

Next ==
  \E c \in Clients :
    \/ \E t \in Requests : Invoke(c, t)
    \/ \E result \in {"success", "fail"} : Serve(c, result)
    \/ Finish(c)

Spec == Init /\ [][Next]_rpcVars
=============================================================================

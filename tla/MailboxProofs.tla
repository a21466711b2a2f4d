--------------------------- MODULE MailboxProofs ---------------------------
(***************************************************************************)
(* The safety properties of Mailbox for any number of clients, calls,      *)
(* crashes and retries.  Each follows from the inductive invariant IInv.   *)
(***************************************************************************)
EXTENDS Mailbox, TLAPS

(* The program points of Notify between the construction of the CivMsg and *)
(* its destruction, those with lock_clients held, and those with lock_cond *)
(* held; the points of the server with its lock held.                      *)
HasData   == {"setType", "setPayload", "lockCond", "loop", "waitC", "wokenC",
              "timedoutC", "result"}
InSection == HasData \cup {"construct"}
HasCond   == {"loop", "result"}
Serving   == {"dispatch", "handling", "reply"}

(* The sync block lives as long as the loop of the server. *)
SyncInv ==
  /\ spc \in {"boot", "construct"} => sync = "none"
  /\ spc \in {"top", "lock", "waitS", "wokenS", "exit"} \cup Serving => sync = "live"
  /\ sync = "destroyed" => spc \in {"remove", "gone"}

(* Each mutex excludes, until the server destroys it. *)
LockInv ==
  sync # "destroyed" =>
    /\ \A c \in Clients : pc[c] \in InSection => mutex = c
    /\ \A c \in Clients : pc[c] \in HasCond => mutex_cond = c
    /\ spc \in Serving => mutex_cond = Server

(* The CivMsg belongs to a call that has constructed it and has neither    *)
(* destroyed nor, before the end of the server, abandoned it.              *)
DataInv ==
  /\ \A c \in Clients : pc[c] \in HasData => Present /\ data.owner = c
  /\ Present /\ sync # "destroyed" => pc[data.owner] \in HasData \cup {"dead"}
  /\ \A c \in Clients : pc[c] = "setType" => data.type = "Zero"
  /\ spc \in {"handling", "reply"} => Present
  /\ spc = "handling" => data.type = "Vm"

(* The type of the CivMsg tells whether its request was executed. *)
Told(c) ==
  /\ data.type \notin Responses => executed[c] = 0 /\ outcome[c] = "none"
  /\ data.type = "RespondSuccess" => executed[c] = 1 /\ outcome[c] = "success"
  /\ data.type = "RespondFail" => executed[c] = 1 /\ outcome[c] = "fail"

ExecInv ==
  /\ \A c \in Clients : pc[c] \in HasData => Told(c)
  /\ Present /\ sync # "destroyed" =>
       /\ Told(data.owner)
       /\ data.type \in Requests => data.type = req[data.owner]
  /\ \A c \in Clients : pc[c] \in {"find", "lockClients", "construct"} =>
       executed[c] = 0 /\ outcome[c] = "none"
  /\ \A c \in Clients : pc[c] # "idle" => ret[c] = "none"

(* After a late execution the server only finishes its iteration. *)
LateInv ==
  /\ ~stop_server => late = 0
  /\ late # 0 => late = 1 /\ spc \in {"reply", "top", "exit", "remove", "gone"}

(* A client waits only while it has retries left. *)
RetryInv ==
  \A c \in Clients : pc[c] \in {"waitC", "wokenC", "timedoutC"} => retry[c] < MaxRetry

IInv ==
  /\ TypeOK /\ RetryInv /\ SyncInv /\ LockInv /\ DataInv /\ ExecInv /\ LateInv
  /\ AtMostOnce /\ ReplyHonest

-----------------------------------------------------------------------------
(* The conjuncts of IInv are preserved by each kind of step. *)

(* A step of Notify in client c preserves IInv. *)
LEMMA ClientStepInv ==
  ASSUME NEW c \in Clients, IInv, ClientStep(c) PROVE IInv'
<1> USE ThreadsAssumption, BoundsAssumption DEF IInv, TypeOK, RetryInv, SyncInv,
      LockInv, DataInv, ExecInv, LateInv, AtMostOnce, ReplyHonest, Told, Present,
      HasData, InSection, HasCond, Serving, Requests, Responses, MsgType,
      NoData, CivMsg, ClientPoint, ServerPoint, serverVars, clientVars,
      lockVars, ghostVars, Goto, Return, Free, Unlocked, NotifyServer,
      ServerGoto, Execute
<1>1. CASE FindSync(c)
  BY <1>1 DEF FindSync
<1>2. CASE LockClients(c)
  BY <1>2 DEF LockClients
<1>3. CASE Construct(c)
  BY <1>3 DEF Construct
<1>4. CASE ConstructThrows(c)
  BY <1>4 DEF ConstructThrows
<1>5. CASE SetType(c)
  BY <1>5 DEF SetType
<1>6. CASE SetPayload(c)
  BY <1>6 DEF SetPayload
<1>7. CASE LockCond(c)
  BY <1>7 DEF LockCond
<1>8. CASE Loop(c)
  BY <1>8 DEF Loop
<1>9. CASE Timeout(c)
  BY <1>9 DEF Timeout
<1>10. CASE Relock(c)
  <2>1. TypeOK'
    BY <1>10 DEF Relock
  <2>2. RetryInv'
    BY <1>10 DEF Relock
  <2>3. SyncInv'
    BY <1>10 DEF Relock
  <2>4. LockInv'
    BY <1>10 DEF Relock
  <2>5. DataInv'
    BY <1>10 DEF Relock
  <2>6. ExecInv'
    BY <1>10 DEF Relock
  <2>7. LateInv'
    BY <1>10 DEF Relock
  <2>8. AtMostOnce'
    BY <1>10 DEF Relock
  <2>9. ReplyHonest'
    BY <1>10 DEF Relock
  <2> QED
    BY <2>1, <2>2, <2>3, <2>4, <2>5, <2>6, <2>7, <2>8, <2>9
<1>11. CASE Result(c)
  BY <1>11 DEF Result
<1>12. CASE LockThrows(c)
  BY <1>12 DEF LockThrows
<1>13. CASE RelockInvalid(c)
  BY <1>13 DEF RelockInvalid
<1> HIDE DEF IInv
<1> QED
  BY <1>1, <1>2, <1>3, <1>4, <1>5, <1>6, <1>7, <1>8, <1>9, <1>10, <1>11,
     <1>12, <1>13 DEF ClientStep

(* A step of the loop of Server::Start preserves IInv. *)
LEMMA ServerStepInv ==
  ASSUME IInv, ServerStep PROVE IInv'
<1> USE ThreadsAssumption, BoundsAssumption DEF IInv, TypeOK, RetryInv, SyncInv,
      LockInv, DataInv, ExecInv, LateInv, AtMostOnce, ReplyHonest, Told, Present,
      HasData, InSection, HasCond, Serving, Requests, Responses, MsgType,
      NoData, CivMsg, ClientPoint, ServerPoint, serverVars, clientVars,
      lockVars, ghostVars, Goto, Return, Free, Unlocked, NotifyServer,
      ServerGoto, Execute
<1>1. CASE CreateSegment
  BY <1>1 DEF CreateSegment
<1>2. CASE ConstructSync
  <2>1. TypeOK'
    BY <1>2 DEF ConstructSync
  <2>2. RetryInv'
    BY <1>2 DEF ConstructSync
  <2>3. SyncInv'
    BY <1>2 DEF ConstructSync
  <2>4. LockInv'
    BY <1>2 DEF ConstructSync
  <2>5. DataInv'
    BY <1>2 DEF ConstructSync
  <2>6. ExecInv'
    BY <1>2 DEF ConstructSync
  <2>7. LateInv'
    BY <1>2 DEF ConstructSync
  <2>8. AtMostOnce'
    BY <1>2 DEF ConstructSync
  <2>9. ReplyHonest'
    BY <1>2 DEF ConstructSync
  <2> QED
    BY <2>1, <2>2, <2>3, <2>4, <2>5, <2>6, <2>7, <2>8, <2>9
<1>3. CASE TestStop
  BY <1>3 DEF TestStop
<1>4. CASE LockServer
  BY <1>4 DEF LockServer
<1>5. CASE RelockServer
  BY <1>5 DEF RelockServer
<1>6. CASE DispatchNothing
  BY <1>6 DEF DispatchNothing
<1>7. CASE DispatchStop
  BY <1>7 DEF DispatchStop
<1>8. CASE DispatchVm
  BY <1>8 DEF DispatchVm
<1>9. CASE DispatchOther
  BY <1>9 DEF DispatchOther
<1>10. CASE Reply
  <2>1. TypeOK'
    BY <1>10 DEF Reply
  <2>2. RetryInv'
    BY <1>10 DEF Reply
  <2>3. SyncInv'
    BY <1>10 DEF Reply
  <2>4. LockInv'
    BY <1>10 DEF Reply
  <2>5. DataInv'
    BY <1>10 DEF Reply
  <2>6. ExecInv'
    BY <1>10 DEF Reply
  <2>7. LateInv'
    BY <1>10 DEF Reply
  <2>8. AtMostOnce'
    BY <1>10 DEF Reply
  <2>9. ReplyHonest'
    BY <1>10 DEF Reply
  <2> QED
    BY <2>1, <2>2, <2>3, <2>4, <2>5, <2>6, <2>7, <2>8, <2>9
<1>11. CASE DestroySync
  BY <1>11 DEF DestroySync
<1>12. CASE RemoveSegment
  <2>1. TypeOK'
    BY <1>12, ZenonT(40) DEF RemoveSegment
  <2>2. RetryInv'
    BY <1>12 DEF RemoveSegment
  <2>3. SyncInv'
    BY <1>12 DEF RemoveSegment
  <2>4. LockInv'
    BY <1>12 DEF RemoveSegment
  <2>5. DataInv'
    BY <1>12 DEF RemoveSegment
  <2>6. ExecInv'
    BY <1>12 DEF RemoveSegment
  <2>7. LateInv'
    BY <1>12 DEF RemoveSegment
  <2>8. AtMostOnce'
    BY <1>12 DEF RemoveSegment
  <2>9. ReplyHonest'
    BY <1>12 DEF RemoveSegment
  <2> QED
    BY <2>1, <2>2, <2>3, <2>4, <2>5, <2>6, <2>7, <2>8, <2>9
<1>13. CASE HandlerThrows
  <2>1. TypeOK'
    BY <1>13 DEF HandlerThrows
  <2>2. RetryInv'
    BY <1>13 DEF HandlerThrows
  <2>3. SyncInv'
    BY <1>13 DEF HandlerThrows
  <2>4. LockInv'
    BY <1>13 DEF HandlerThrows
  <2>5. DataInv'
    BY <1>13 DEF HandlerThrows
  <2>6. ExecInv'
    BY <1>13 DEF HandlerThrows
  <2>7. LateInv'
    BY <1>13 DEF HandlerThrows
  <2>8. AtMostOnce'
    BY <1>13 DEF HandlerThrows
  <2>9. ReplyHonest'
    BY <1>13 DEF HandlerThrows
  <2> QED
    BY <2>1, <2>2, <2>3, <2>4, <2>5, <2>6, <2>7, <2>8, <2>9
<1>14. ASSUME NEW result \in {"success", "fail"}, HandlerReturns(result) PROVE IInv'
  BY <1>14 DEF HandlerReturns
<1> HIDE DEF IInv
<1> QED
  BY <1>1, <1>2, <1>3, <1>4, <1>5, <1>6, <1>7, <1>8, <1>9, <1>10, <1>11,
     <1>12, <1>13, <1>14 DEF ServerStep

(* Calls, crashes, signals and spurious wake-ups preserve IInv. *)
LEMMA EnvironmentInv ==
  ASSUME IInv, Environment PROVE IInv'
<1> USE ThreadsAssumption, BoundsAssumption DEF IInv, TypeOK, RetryInv, SyncInv,
      LockInv, DataInv, ExecInv, LateInv, AtMostOnce, ReplyHonest, Told, Present,
      HasData, InSection, HasCond, Serving, Requests, Responses, MsgType,
      NoData, CivMsg, ClientPoint, ServerPoint, serverVars, clientVars,
      lockVars, ghostVars, Goto, Return, Free, Unlocked, NotifyServer,
      ServerGoto, Execute
<1>1. CASE Signal
  BY <1>1 DEF Signal
<1>2. CASE SignalTooEarly
  BY <1>2 DEF SignalTooEarly
<1>3. CASE SpuriousServer
  BY <1>3 DEF SpuriousServer
<1>4. ASSUME NEW c \in Clients, Crash(c) PROVE IInv'
  BY <1>4 DEF Crash
<1>5. ASSUME NEW c \in Clients, SpuriousClient(c) PROVE IInv'
  BY <1>5 DEF SpuriousClient
<1>6. ASSUME NEW c \in Clients, NEW t \in Requests, Call(c, t) PROVE IInv'
  BY <1>6 DEF Call
<1> HIDE DEF IInv
<1> QED
  BY <1>1, <1>2, <1>3, <1>4, <1>5, <1>6 DEF Environment

(* IInv is inductive. *)
THEOREM Inductive == IInv /\ [Next]_vars => IInv'
<1> SUFFICES ASSUME IInv, [Next]_vars PROVE IInv'
  OBVIOUS
<1>1. CASE ServerStep
  BY <1>1, ServerStepInv
<1>2. CASE Environment
  BY <1>2, EnvironmentInv
<1>3. ASSUME NEW c \in Clients, ClientStep(c) PROVE IInv'
  BY <1>3, ClientStepInv
<1>4. CASE UNCHANGED vars
  BY <1>4 DEF vars, IInv, TypeOK, RetryInv, SyncInv, LockInv, DataInv,
     ExecInv, LateInv, AtMostOnce, ReplyHonest, Told, Present, serverVars,
     clientVars, lockVars, ghostVars
<1> QED
  BY <1>1, <1>2, <1>3, <1>4 DEF Next

(* IInv holds initially. *)
LEMMA InitInv == Init => IInv
<1> SUFFICES ASSUME Init PROVE IInv
  OBVIOUS
<1> USE ThreadsAssumption, BoundsAssumption DEF Init
<1>1. TypeOK
  <2>1. /\ {named, msg_in, stop_server, signalled} \subseteq BOOLEAN
        /\ data \in CivMsg \cup {NoData}
        /\ mutex \in Clients \cup {None}
        /\ mutex_cond \in Clients \cup {Server, None}
    OBVIOUS
  <2>2. /\ retry \in [Clients -> 0..MaxRetry] /\ calls \in [Clients -> 0..MaxCalls]
        /\ executed \in [Clients -> Nat] /\ late \in Nat
    OBVIOUS
  <2> QED
    BY <2>1, <2>2 DEF TypeOK, Requests, ClientPoint, ServerPoint
<1>2. RetryInv /\ LockInv
  BY DEF RetryInv, LockInv, InSection, HasData, HasCond, Serving
<1>3. SyncInv /\ LateInv
  BY DEF SyncInv, Serving, LateInv
<1>4. DataInv /\ ExecInv
  BY DEF DataInv, ExecInv, Present, HasData
<1>5. AtMostOnce /\ ReplyHonest
  BY DEF AtMostOnce, ReplyHonest
<1> QED
  BY <1>1, <1>2, <1>3, <1>4, <1>5 DEF IInv

(* Every reachable state of the mailbox satisfies IInv. *)
THEOREM Invariant == Spec => []IInv
<1>1. Init => IInv
  BY InitInv
<1>2. IInv /\ [Next]_vars => IInv'
  BY Inductive
<1> QED
  BY <1>1, <1>2, PTL DEF Spec

-----------------------------------------------------------------------------
(* The variables of the mailbox keep their types; in particular no retry   *)
(* counter of Notify passes kMaxRetryCount.                                *)
THEOREM TypeCorrect == Spec => []TypeOK
<1>1. IInv => TypeOK
  BY DEF IInv
<1> QED
  BY <1>1, Invariant, PTL

(* The loop of Server::Start executes the request of a call of Notify at   *)
(* most once, however often it finds the same CivMsg.                      *)
THEOREM ExecutedOnce == Spec => []AtMostOnce
<1>1. IInv => AtMostOnce
  BY DEF IInv
<1> QED
  BY <1>1, Invariant, PTL

(* Notify returns true only when the handler of this call succeeded, and   *)
(* false for a success only after its last retry.                          *)
THEOREM HonestReplies == Spec => []ReplyHonest
<1>1. IInv => ReplyHonest
  BY DEF IInv
<1> QED
  BY <1>1, Invariant, PTL

(* No client destroys the CivMsg that a handler of the server works on. *)
THEOREM NoDanglingData == Spec => []HandlerDataLive
<1>1. IInv => HandlerDataLive
  BY DEF IInv, DataInv, HandlerDataLive
<1> QED
  BY <1>1, Invariant, PTL

(* After stop_server_ is set the server executes at most one request. *)
THEOREM StopIsPrompt == Spec => []StopsSoon
<1>1. IInv => StopsSoon
  BY DEF IInv, TypeOK, LateInv, StopsSoon
<1> QED
  BY <1>1, Invariant, PTL

-----------------------------------------------------------------------------
(* A step that neither begins, executes nor ends a call. *)
Quiet ==
  /\ \A c \in Clients : pc'[c] = "idle" <=> pc[c] = "idle"
  /\ UNCHANGED <<executed, outcome, req>>

(* Such a step is a stutter of Rpc. *)
LEMMA QuietStutters == Quiet => UNCHANGED Abstract!rpcVars
<1> SUFFICES ASSUME Quiet PROVE UNCHANGED Abstract!rpcVars
  OBVIOUS
<1>1. \A c \in Clients : Standing(c)' = Standing(c)
  BY DEF Quiet, Standing
<1> QED
  BY <1>1 DEF Quiet, Abstract!rpcVars

(* The end of a call is a Finish step of the specification of calls. *)
LEMMA ReturnFinishes ==
  ASSUME NEW c \in Clients, NEW value, TypeOK, pc[c] # "idle",
         Return(c, value), UNCHANGED <<executed, outcome>>
  PROVE  Abstract!Finish(c)
<1>1. Standing(c) # "idle" /\ Standing(c)' = "idle"
  BY DEF Standing, TypeOK, Return
<1>2. \A d \in Clients \ {c} : Standing(d)' = Standing(d)
  BY DEF Standing, TypeOK, Return
<1> QED
  BY <1>1, <1>2 DEF Abstract!Finish, Return

(* An execution is a Serve step. *)
LEMMA ExecuteServes ==
  ASSUME IInv, NEW result \in {"success", "fail"}, Execute(result),
         Present, sync # "destroyed", UNCHANGED <<pc, req>>,
         data.type \in {"StopServer", "Vm"},
         data.type = "StopServer" => result = "success"
  PROVE  Abstract!Serve(data.owner, result)
<1>0. PICK o \in Clients : o = data.owner
  BY DEF IInv, TypeOK, Present, NoData, CivMsg
<1>1. pc[o] # "idle" /\ executed[o] = 0 /\ req[o] = data.type
  BY <1>0 DEF IInv, TypeOK, DataInv, ExecInv, Told, Present, NoData, CivMsg,
         HasData, Responses, Requests
<1>2. executed'[o] = 1 /\ outcome'[o] = result
  BY <1>0, <1>1 DEF Execute, IInv, TypeOK
<1>3. Standing(o) = "open" /\ Standing(o)' = result
  BY <1>1, <1>2 DEF Standing
<1>4. \A d \in Clients \ {o} : Standing(d)' = Standing(d)
  BY <1>0 DEF Standing, Execute, IInv, TypeOK
<1> QED
  BY <1>0, <1>1, <1>3, <1>4 DEF Abstract!Serve

(* What a step looks like to the specification of calls. *)
Simulated ==
  \/ Quiet
  \/ \E c \in Clients : Abstract!Finish(c)
  \/ \E c \in Clients, t \in Requests : Abstract!Invoke(c, t)
  \/ \E c \in Clients, result \in {"success", "fail"} : Abstract!Serve(c, result)

(* Every step is quiet, begins a call, executes one or ends one. *)
LEMMA StepSimulates == ASSUME IInv, [Next]_vars PROVE Simulated
<1>t. TypeOK
  BY DEF IInv
<1>1. ASSUME NEW c \in Clients, NEW t \in Requests, Call(c, t) PROVE Simulated
  <2>1. Standing(c) = "idle" /\ Standing(c)' = "open"
    BY <1>t, <1>1 DEF Call, Goto, Standing, TypeOK
  <2>2. \A d \in Clients \ {c} : Standing(d)' = Standing(d)
    BY <1>t, <1>1 DEF Call, Goto, Standing, TypeOK
  <2>3. Abstract!Invoke(c, t)
    BY <1>1, <2>1, <2>2 DEF Call, Abstract!Invoke
  <2> QED
    BY <2>3 DEF Simulated
<1>2. ASSUME NEW c \in Clients,
             ConstructThrows(c) \/ Result(c) \/ LockThrows(c)
                \/ (FindSync(c) /\ sync # "live")
      PROVE  Simulated
  <2>1. PICK value : Return(c, value)
    BY <1>2 DEF ConstructThrows, Result, LockThrows, FindSync
  <2>2. pc[c] # "idle" /\ UNCHANGED <<executed, outcome>>
    BY <1>2 DEF ConstructThrows, Result, LockThrows, FindSync, ghostVars
  <2> QED
    BY <1>t, <2>1, <2>2, ReturnFinishes DEF Simulated
<1>3. ASSUME NEW c \in Clients,
             \/ LockClients(c) \/ Construct(c) \/ SetType(c) \/ SetPayload(c)
             \/ LockCond(c) \/ Loop(c) \/ Timeout(c) \/ Relock(c)
             \/ RelockInvalid(c) \/ Crash(c) \/ SpuriousClient(c)
             \/ (FindSync(c) /\ sync = "live")
      PROVE  Simulated
  BY <1>t, <1>3 DEF Simulated, Quiet, TypeOK, Goto, ghostVars, LockClients, Construct,
     SetType, SetPayload, LockCond, Loop, Timeout, Relock, RelockInvalid,
     Crash, SpuriousClient, FindSync
<1>4. ASSUME NEW result \in {"success", "fail"}, HandlerReturns(result)
      PROVE  Simulated
  <2>1. data.type = "Vm" /\ Present /\ sync # "destroyed"
    BY <1>4 DEF HandlerReturns, ServerGoto, IInv, DataInv, SyncInv, Serving
  <2>2. Execute(result) /\ UNCHANGED <<pc, req>>
    BY <1>4 DEF HandlerReturns, clientVars
  <2>3. Abstract!Serve(data.owner, result)
    BY <2>1, <2>2, ExecuteServes
  <2> QED
    BY <2>1, <2>3 DEF Simulated, IInv, TypeOK, Present, NoData, CivMsg
<1>5. CASE DispatchStop
  <2>1. data.type = "StopServer" /\ Present /\ sync # "destroyed"
    BY <1>5 DEF DispatchStop, ServerGoto, IInv, SyncInv, Serving, Present, NoData
  <2>2. Execute("success") /\ UNCHANGED <<pc, req>>
    BY <1>5 DEF DispatchStop, clientVars
  <2>3. Abstract!Serve(data.owner, "success")
    BY <2>1, <2>2, ExecuteServes
  <2> QED
    BY <2>1, <2>3 DEF Simulated, IInv, TypeOK, Present, NoData, CivMsg
<1>6. CASE Reply
  BY <1>t, <1>6 DEF Simulated, Quiet, TypeOK, Reply, ghostVars
<1>7. CASE \/ CreateSegment \/ ConstructSync \/ TestStop \/ LockServer
           \/ RelockServer \/ DispatchNothing \/ DispatchVm \/ DispatchOther
           \/ DestroySync \/ RemoveSegment \/ HandlerThrows \/ Signal
           \/ SignalTooEarly \/ SpuriousServer
  BY <1>7 DEF Simulated, Quiet, clientVars, ghostVars, CreateSegment, ConstructSync,
     TestStop, LockServer, RelockServer, DispatchNothing, DispatchVm,
     DispatchOther, DestroySync, RemoveSegment, HandlerThrows, Signal,
     SignalTooEarly, SpuriousServer
<1>8. CASE UNCHANGED vars
  BY <1>8 DEF Simulated, Quiet, vars, clientVars, ghostVars
<1> QED
  BY <1>1, <1>2, <1>3, <1>4, <1>5, <1>6, <1>7, <1>8
     DEF Next, ServerStep, Environment, ClientStep

(* The mailbox implements at-most-once calls: every step of Notify and of  *)
(* the server is a step of Rpc or leaves its state alone.                  *)
THEOREM Refinement == Spec => ImplementsRpc
<1>1. Init => Abstract!Init
  BY DEF Init, Abstract!Init, Standing, Requests
<1>2. IInv /\ [Next]_vars => [Abstract!Next]_(Abstract!rpcVars)
  BY StepSimulates, QuietStutters DEF Simulated, Abstract!Next
<1> QED
  BY <1>1, <1>2, Invariant, PTL DEF Spec, ImplementsRpc, Abstract!Spec
=============================================================================

------------------------------ MODULE Mailbox ------------------------------
(***************************************************************************)
(* The mailbox between the command line clients and the vm-manager server: *)
(* one CivMsg and one CivMsgSync in the shared memory segment              *)
(* "CivServerShm".  Client::Notify (services/client.cc) posts a request    *)
(* and waits for the answer; the loop of Server::Start                     *)
(* (services/server.cc) takes the request, runs its handler and answers.   *)
(*                                                                         *)
(* Each thread moves through the program points named by its pc.  The two  *)
(* interprocess mutexes are modelled by their owners, the two condition    *)
(* variables by the program points "waitS" and "waitC" of the thread       *)
(* blocked on them: a notification moves the thread to a point where it    *)
(* has to take mutex_cond again.                                           *)
(***************************************************************************)
EXTENDS Naturals, FiniteSets

CONSTANTS
  Clients,          \* the client processes
  Server,           \* the thread that runs Server::Start
  None,             \* no owner, no payload
  MaxRetry,         \* kMaxRetryCount of Client::Notify (100 in the code)
  MaxCalls,         \* bound on the calls of Notify by one client
  MaxCrashes,       \* bound on the clients killed in the middle of a call
  SpuriousWakeups   \* whether the condition variables wake up unasked

ASSUME ThreadsAssumption == Server \notin Clients /\ None \notin Clients
                            /\ Server # None
ASSUME BoundsAssumption  == MaxRetry \in Nat \ {0} /\ MaxCalls \in Nat
                            /\ MaxCrashes \in Nat
ASSUME SpuriousAssumption == SpuriousWakeups \in BOOLEAN

VARIABLES
  named,        \* "CivServerShm" can be opened
  sync,         \* the CivMsgSync object: "none", "live" or "destroyed"
  mutex,        \* owner of CivMsgSync::mutex
  mutex_cond,   \* owner of CivMsgSync::mutex_cond
  msg_in,       \* CivMsgSync::msg_in
  data,         \* the CivMsg object
  stop_server,  \* Server::stop_server_
  spc,          \* program point of the server
  pc,           \* program point of each client
  req,          \* the argument of the current Notify of each client
  retry,        \* its retry_cnt
  ret,          \* what the last finished Notify returned
  calls,        \* number of calls of Notify each client has begun
  signalled,    \* SIGINT or SIGTERM was delivered to the server
  executed,     \* how often the request of the current call was executed
  outcome,      \* what the handler of the current call decided
  late          \* requests executed although stop_server was already set

serverVars == <<named, sync, stop_server, spc, signalled, late>>
clientVars == <<pc, req, retry, ret, calls>>
lockVars   == <<mutex, mutex_cond>>
ghostVars  == <<executed, outcome>>
vars == <<serverVars, clientVars, lockVars, msg_in, data, ghostVars>>

-----------------------------------------------------------------------------
(* Message types.  "Vm" stands for the five types whose handler returns 0  *)
(* or -1 (ListVm, ImportVm, StartVm, StopVm and GetVmInfo); "Zero" is the  *)
(* value-initialized type of a CivMsg just constructed.                    *)
Requests  == {"StopServer", "Vm", "Test"}
Responses == {"RespondSuccess", "RespondFail"}
MsgType   == Requests \cup Responses \cup {"Zero"}

(* The CivMsg object.  The field owner is not in the code: it records      *)
(* which call constructed the object.                                      *)
NoData == [type |-> "Absent", payload |-> None, owner |-> None]
CivMsg == [type : MsgType, payload : Clients \cup {None}, owner : Clients]

Present == data # NoData

ClientPoint == {"idle", "find", "lockClients", "construct", "setType",
                "setPayload", "lockCond", "loop", "waitC", "wokenC",
                "timedoutC", "result", "dead"}
ServerPoint == {"boot", "construct", "top", "lock", "waitS", "wokenS",
                "dispatch", "handling", "reply", "exit", "remove", "gone"}

Init ==
  /\ named = FALSE
  /\ sync = "none"
  /\ mutex = None
  /\ mutex_cond = None
  /\ msg_in = FALSE
  /\ data = NoData
  /\ stop_server = FALSE
  /\ spc = "boot"
  /\ pc = [c \in Clients |-> "idle"]
  /\ req = [c \in Clients |-> "Test"]
  /\ retry = [c \in Clients |-> 0]
  /\ ret = [c \in Clients |-> "none"]
  /\ calls = [c \in Clients |-> 0]
  /\ signalled = FALSE
  /\ executed = [c \in Clients |-> 0]
  /\ outcome = [c \in Clients |-> "none"]
  /\ late = 0

-----------------------------------------------------------------------------
(* Client::Notify *)

Goto(c, from, to) ==
  /\ pc[c] = from
  /\ pc' = [pc EXCEPT ![c] = to]

(* notify_one on cond_s: the server is its only waiter. *)
NotifyServer ==
  spc' = IF spc = "waitS" THEN "wokenS" ELSE spc

(* Client::Client opens the segment of the server (it throws when there is *)
(* none), a Prepare function puts the arguments of the request into the    *)
(* segment of the client, and Notify(t) is called.                         *)
Call(c, t) ==
  /\ named
  /\ calls[c] < MaxCalls
  /\ Goto(c, "idle", "find")
  /\ req' = [req EXCEPT ![c] = t]
  /\ calls' = [calls EXCEPT ![c] = @ + 1]
  /\ retry' = [retry EXCEPT ![c] = 0]
  /\ ret' = [ret EXCEPT ![c] = "none"]
  /\ executed' = [executed EXCEPT ![c] = 0]
  /\ outcome' = [outcome EXCEPT ![c] = "none"]
  /\ UNCHANGED <<serverVars, lockVars, msg_in, data>>

(* The owner of a lock once thread t has released it. *)
Unlocked(lock, t) == IF lock = t THEN None ELSE lock

(* The call is over: what it returned, or that it threw. *)
Return(c, value) ==
  /\ pc' = [pc EXCEPT ![c] = "idle"]
  /\ ret' = [ret EXCEPT ![c] = value]
  /\ UNCHANGED <<req, retry, calls>>

FindSync(c) ==
  /\ pc[c] = "find"
  /\ IF sync = "live"
       THEN /\ Goto(c, "find", "lockClients")
            /\ UNCHANGED <<req, retry, ret, calls>>
       ELSE Return(c, "false")
  /\ UNCHANGED <<serverVars, lockVars, msg_in, data, ghostVars>>

(* A destroyed mutex no longer excludes anyone: its memory is returned to  *)
(* the segment, where zero_free_memory clears it.                          *)
Free(lock) == lock = None \/ sync = "destroyed"

LockClients(c) ==
  /\ Free(mutex)
  /\ mutex' = c
  /\ Goto(c, "lockClients", "construct")
  /\ UNCHANGED <<serverVars, mutex_cond, msg_in, data, ghostVars,
                 req, retry, ret, calls>>

Construct(c) ==
  /\ ~Present
  /\ Goto(c, "construct", "setType")
  /\ data' = [type |-> "Zero", payload |-> None, owner |-> c]
  /\ UNCHANGED <<serverVars, lockVars, msg_in, ghostVars,
                 req, retry, ret, calls>>

(* A CivMsg that an interrupted call left behind makes construct throw;    *)
(* lock_clients is released on the way out.                                *)
ConstructThrows(c) ==
  /\ pc[c] = "construct"
  /\ Present
  /\ mutex' = Unlocked(mutex, c)
  /\ Return(c, "exception")
  /\ UNCHANGED <<serverVars, mutex_cond, msg_in, data, ghostVars>>

(* The type and the payload are written before mutex_cond is taken. *)
SetType(c) ==
  /\ Goto(c, "setType", "setPayload")
  /\ data' = [data EXCEPT !.type = req[c]]
  /\ UNCHANGED <<serverVars, lockVars, msg_in, ghostVars,
                 req, retry, ret, calls>>

SetPayload(c) ==
  /\ Goto(c, "setPayload", "lockCond")
  /\ data' = [data EXCEPT !.payload = c]
  /\ UNCHANGED <<serverVars, lockVars, msg_in, ghostVars,
                 req, retry, ret, calls>>

LockCond(c) ==
  /\ Free(mutex_cond)
  /\ mutex_cond' = c
  /\ Goto(c, "lockCond", "loop")
  /\ NotifyServer
  /\ msg_in' = TRUE
  /\ UNCHANGED <<mutex, data, ghostVars, named, sync, stop_server,
                 signalled, late, req, retry, ret, calls>>

(* Mutant: the bound of the retries is off by one. *)
LoopOneRetryMore(c) ==
  /\ pc[c] = "loop"
  /\ IF msg_in /\ retry[c] <= MaxRetry
       THEN /\ Goto(c, "loop", "waitC")
            /\ mutex_cond' = Unlocked(mutex_cond, c)
       ELSE /\ Goto(c, "loop", "result")
            /\ UNCHANGED mutex_cond
  /\ UNCHANGED <<serverVars, mutex, msg_in, data, ghostVars,
                 req, retry, ret, calls>>

(* The head of the while loop; wait_for releases mutex_cond. *)
Loop(c) ==
  /\ pc[c] = "loop"
  /\ IF msg_in /\ retry[c] < MaxRetry
       THEN /\ Goto(c, "loop", "waitC")
            /\ mutex_cond' = Unlocked(mutex_cond, c)
       ELSE /\ Goto(c, "loop", "result")
            /\ UNCHANGED mutex_cond
  /\ UNCHANGED <<serverVars, mutex, msg_in, data, ghostVars,
                 req, retry, ret, calls>>

(* One second has passed without a notification. *)
Timeout(c) ==
  /\ Goto(c, "waitC", "timedoutC")
  /\ UNCHANGED <<serverVars, lockVars, msg_in, data, ghostVars,
                 req, retry, ret, calls>>

SpuriousClient(c) ==
  /\ SpuriousWakeups
  /\ Goto(c, "waitC", "wokenC")
  /\ UNCHANGED <<serverVars, lockVars, msg_in, data, ghostVars,
                 req, retry, ret, calls>>

(* Mutant: the wait returns without the mutex. *)
RelockWithoutMutex(c) ==
  /\ TRUE
  /\ mutex_cond' = c
  /\ \/ /\ Goto(c, "wokenC", "result")
        /\ UNCHANGED retry
     \/ /\ Goto(c, "timedoutC", "loop")
        /\ retry' = [retry EXCEPT ![c] = @ + 1]
  /\ UNCHANGED <<serverVars, mutex, msg_in, data, ghostVars,
                 req, ret, calls>>

(* Mutant: a timeout is not counted. *)
RelockKeepsCount(c) ==
  /\ Free(mutex_cond)
  /\ mutex_cond' = c
  /\ Goto(c, "wokenC", "result") \/ Goto(c, "timedoutC", "loop")
  /\ UNCHANGED <<serverVars, mutex, msg_in, data, ghostVars,
                 req, retry, ret, calls>>

(* wait_for takes mutex_cond again and reports whether it timed out. *)
Relock(c) ==
  /\ Free(mutex_cond)
  /\ mutex_cond' = c
  /\ \/ /\ Goto(c, "wokenC", "result")
        /\ UNCHANGED retry
     \/ /\ Goto(c, "timedoutC", "loop")
        /\ retry' = [retry EXCEPT ![c] = @ + 1]
  /\ UNCHANGED <<serverVars, mutex, msg_in, data, ghostVars,
                 req, ret, calls>>

(* Mutant: anything but an explicit failure is a success. *)
ResultNotFail(c) ==
  /\ pc[c] = "result"
  /\ Return(c, IF retry[c] < MaxRetry /\ data.type # "RespondFail"
                 THEN "true" ELSE "false")
  /\ data' = NoData
  /\ mutex_cond' = Unlocked(mutex_cond, c)
  /\ mutex' = Unlocked(mutex, c)
  /\ UNCHANGED <<serverVars, msg_in, ghostVars>>

(* The answer is read, the CivMsg destroyed, both locks released. *)
Result(c) ==
  /\ pc[c] = "result"
  /\ Return(c, IF retry[c] < MaxRetry /\ data.type = "RespondSuccess"
                 THEN "true" ELSE "false")
  /\ data' = NoData
  /\ mutex_cond' = Unlocked(mutex_cond, c)
  /\ mutex' = Unlocked(mutex, c)
  /\ UNCHANGED <<serverVars, msg_in, ghostVars>>

(* On a destroyed sync block, taking a lock may fail: scoped_lock throws   *)
(* and the CivMsg stays behind; wait_for returns without the lock and      *)
(* without having timed out.                                               *)
LockThrows(c) ==
  /\ sync = "destroyed"
  /\ pc[c] \in {"lockClients", "lockCond"}
  /\ mutex' = Unlocked(mutex, c)
  /\ Return(c, "exception")
  /\ UNCHANGED <<serverVars, mutex_cond, msg_in, data, ghostVars>>

RelockInvalid(c) ==
  /\ sync = "destroyed"
  /\ pc[c] \in {"wokenC", "timedoutC"}
  /\ pc' = [pc EXCEPT ![c] = "result"]
  /\ UNCHANGED <<serverVars, lockVars, msg_in, data, ghostVars,
                 req, retry, ret, calls>>

(* The client is killed in the middle of the call (Ctrl-C): nothing in the *)
(* segment is released.                                                    *)
Crash(c) ==
  /\ pc[c] \notin {"idle", "dead"}
  /\ Cardinality({d \in Clients : pc[d] = "dead"}) < MaxCrashes
  /\ pc' = [pc EXCEPT ![c] = "dead"]
  /\ UNCHANGED <<serverVars, lockVars, msg_in, data, ghostVars,
                 req, retry, ret, calls>>

-----------------------------------------------------------------------------
(* Server::Start *)

ServerGoto(from, to) ==
  /\ spc = from
  /\ spc' = to

(* Signal handlers and the startup listener are installed, an old segment  *)
(* is removed and a new one created.                                       *)
CreateSegment ==
  /\ ServerGoto("boot", "construct")
  /\ named' = TRUE
  /\ UNCHANGED <<sync, stop_server, signalled, late, clientVars, lockVars,
                 msg_in, data, ghostVars>>

ConstructSync ==
  /\ ServerGoto("construct", "top")
  /\ sync' = "live"
  /\ msg_in' = FALSE
  /\ UNCHANGED <<named, stop_server, signalled, late, clientVars, lockVars,
                 data, ghostVars>>

(* Mutant: the loop does not look at stop_server_. *)
TestStopNever ==
  /\ ServerGoto("top", "lock")
  /\ UNCHANGED <<named, sync, stop_server, signalled, late, clientVars,
                 lockVars, msg_in, data, ghostVars>>

(* while (!stop_server_) *)
TestStop ==
  /\ ServerGoto("top", IF stop_server THEN "exit" ELSE "lock")
  /\ UNCHANGED <<named, sync, stop_server, signalled, late, clientVars,
                 lockVars, msg_in, data, ghostVars>>

(* mutex_cond is taken; unless a message is announced, cond_s.wait gives   *)
(* it back at once and blocks.  The test is an "if": whatever ends the     *)
(* wait leads to the dispatch.                                             *)
LockServer ==
  /\ mutex_cond = None
  /\ ServerGoto("lock", IF msg_in THEN "dispatch" ELSE "waitS")
  /\ mutex_cond' = IF msg_in THEN Server ELSE None
  /\ UNCHANGED <<named, sync, stop_server, signalled, late, clientVars,
                 mutex, msg_in, data, ghostVars>>

SpuriousServer ==
  /\ SpuriousWakeups
  /\ ServerGoto("waitS", "wokenS")
  /\ UNCHANGED <<named, sync, stop_server, signalled, late, clientVars,
                 lockVars, msg_in, data, ghostVars>>

RelockServer ==
  /\ mutex_cond = None
  /\ mutex_cond' = Server
  /\ ServerGoto("wokenS", "dispatch")
  /\ UNCHANGED <<named, sync, stop_server, signalled, late, clientVars,
                 mutex, msg_in, data, ghostVars>>

(* The call whose CivMsg is in the mailbox has its request executed. *)
Execute(result) ==
  /\ executed' = [executed EXCEPT ![data.owner] = @ + 1]
  /\ outcome' = [outcome EXCEPT ![data.owner] = result]
  /\ late' = IF stop_server THEN late + 1 ELSE late

(* No CivMsg: "continue" releases mutex_cond and leaves msg_in alone. *)
DispatchNothing ==
  /\ ~Present
  /\ ServerGoto("dispatch", "top")
  /\ mutex_cond' = None
  /\ UNCHANGED <<named, sync, stop_server, signalled, late, clientVars,
                 mutex, msg_in, data, ghostVars>>

(* Mutant: the request is answered but stop_server_ not set. *)
DispatchStopForgets ==
  /\ data.type = "StopServer"
  /\ ServerGoto("dispatch", "reply")
  /\ UNCHANGED stop_server
  /\ data' = [data EXCEPT !.type = "RespondSuccess"]
  /\ Execute("success")
  /\ UNCHANGED <<named, sync, signalled, clientVars, lockVars, msg_in>>

DispatchStop ==
  /\ data.type = "StopServer"
  /\ ServerGoto("dispatch", "reply")
  /\ stop_server' = TRUE
  /\ data' = [data EXCEPT !.type = "RespondSuccess"]
  /\ Execute("success")
  /\ UNCHANGED <<named, sync, signalled, clientVars, lockVars, msg_in>>

DispatchVm ==
  /\ data.type = "Vm"
  /\ ServerGoto("dispatch", "handling")
  /\ UNCHANGED <<named, sync, stop_server, signalled, late, clientVars,
                 lockVars, msg_in, data, ghostVars>>

(* kCivMsgTest and the default case change nothing. *)
DispatchOther ==
  /\ data.type \in {"Test", "Zero"} \cup Responses
  /\ ServerGoto("dispatch", "reply")
  /\ UNCHANGED <<named, sync, stop_server, signalled, late, clientVars,
                 lockVars, msg_in, data, ghostVars>>

(* Mutant: the answer does not replace the request. *)
HandlerKeepsRequest(result) ==
  /\ data.payload # None
  /\ ServerGoto("handling", "reply")
  /\ UNCHANGED data
  /\ Execute(result)
  /\ UNCHANGED <<named, sync, stop_server, signalled, clientVars, lockVars,
                 msg_in>>

(* A handler of a VM request ends.  It runs with mutex_cond held.  It      *)
(* begins by opening the client's segment named in the payload.            *)
HandlerReturns(result) ==
  /\ data.payload # None
  /\ ServerGoto("handling", "reply")
  /\ data' = [data EXCEPT !.type = IF result = "success"
                                     THEN "RespondSuccess"
                                     ELSE "RespondFail"]
  /\ Execute(result)
  /\ UNCHANGED <<named, sync, stop_server, signalled, clientVars, lockVars,
                 msg_in>>

(* A handler throws: the payload names no segment, or the work itself      *)
(* throws.  The lock is released, the segment removed, the server ends;    *)
(* the sync block is left as it is.                                        *)
HandlerThrows ==
  /\ ServerGoto("handling", "gone")
  /\ mutex_cond' = None
  /\ named' = FALSE
  /\ UNCHANGED <<sync, stop_server, signalled, late, clientVars, mutex,
                 msg_in, data, ghostVars>>

(* msg_in is cleared and the client waiting on cond_c, if any, notified;   *)
(* the end of the iteration releases mutex_cond.                           *)
Reply ==
  /\ ServerGoto("reply", "top")
  /\ msg_in' = FALSE
  /\ pc' = [c \in Clients |-> IF pc[c] = "waitC" THEN "wokenC" ELSE pc[c]]
  /\ mutex_cond' = None
  /\ UNCHANGED <<named, sync, stop_server, signalled, late, mutex, data,
                 ghostVars, req, retry, ret, calls>>

DestroySync ==
  /\ ServerGoto("exit", "remove")
  /\ sync' = "destroyed"
  /\ UNCHANGED <<named, stop_server, signalled, late, clientVars, lockVars,
                 msg_in, data, ghostVars>>

RemoveSegment ==
  /\ ServerGoto("remove", "gone")
  /\ named' = FALSE
  /\ UNCHANGED <<sync, stop_server, signalled, late, clientVars, lockVars,
                 msg_in, data, ghostVars>>

(* HandleSIG runs Server::Stop: it takes no lock, so its notification is   *)
(* lost unless the server is already blocked on cond_s.                    *)
Signal ==
  /\ ~signalled
  /\ sync = "live"
  /\ spc \notin {"remove", "gone"}
  /\ signalled' = TRUE
  /\ stop_server' = TRUE
  /\ NotifyServer
  /\ UNCHANGED <<named, sync, late, clientVars, lockVars, msg_in, data,
                 ghostVars>>

(* Before the sync block exists, Stop dereferences a null sync_: the       *)
(* server dies and its segment, if created, keeps its name.                *)
SignalTooEarly ==
  /\ sync = "none"
  /\ spc # "gone"
  /\ signalled' = TRUE
  /\ stop_server' = TRUE
  /\ spc' = "gone"
  /\ UNCHANGED <<named, sync, late, clientVars, lockVars, msg_in, data,
                 ghostVars>>

-----------------------------------------------------------------------------
ClientStep(c) ==
  \/ FindSync(c) \/ LockClients(c) \/ Construct(c) \/ ConstructThrows(c)
  \/ SetType(c) \/ SetPayload(c) \/ LockCond(c) \/ Loop(c) \/ Timeout(c)
  \/ Relock(c) \/ Result(c) \/ LockThrows(c) \/ RelockInvalid(c)

ServerStep ==
  \/ CreateSegment \/ ConstructSync \/ TestStop \/ LockServer
  \/ RelockServer \/ DispatchNothing \/ DispatchStop \/ DispatchVm
  \/ DispatchOther \/ Reply \/ DestroySync \/ RemoveSegment
  \/ HandlerThrows
  \/ \E result \in {"success", "fail"} : HandlerReturns(result)

(* What the environment may do at any time, and need not do. *)
Environment ==
  \/ Signal \/ SignalTooEarly \/ SpuriousServer
  \/ \E c \in Clients :
       Crash(c) \/ SpuriousClient(c) \/ \E t \in Requests : Call(c, t)

Next == ServerStep \/ Environment \/ \E c \in Clients : ClientStep(c)

Spec == Init /\ [][Next]_vars

(* Fairness.  Threads run, handlers and one-second waits end, and a thread *)
(* that finds a lock free again and again gets it in the end.              *)
ClientFairness(c) ==
  /\ WF_vars(ClientStep(c))
  /\ SF_vars(LockClients(c)) /\ SF_vars(LockCond(c)) /\ SF_vars(Relock(c))

ServerFairness ==
  WF_vars(ServerStep) /\ SF_vars(LockServer) /\ SF_vars(RelockServer)

FairSpec == Spec /\ ServerFairness /\ \A c \in Clients : ClientFairness(c)

-----------------------------------------------------------------------------
(* Properties *)

TypeOK ==
  /\ named \in BOOLEAN
  /\ sync \in {"none", "live", "destroyed"}
  /\ mutex \in Clients \cup {None}
  /\ mutex_cond \in Clients \cup {Server, None}
  /\ msg_in \in BOOLEAN
  /\ data \in CivMsg \cup {NoData}
  /\ stop_server \in BOOLEAN
  /\ spc \in ServerPoint
  /\ pc \in [Clients -> ClientPoint]
  /\ req \in [Clients -> Requests]
  /\ retry \in [Clients -> 0..MaxRetry]
  /\ ret \in [Clients -> {"none", "true", "false", "exception"}]
  /\ calls \in [Clients -> 0..MaxCalls]
  /\ signalled \in BOOLEAN
  /\ executed \in [Clients -> Nat]
  /\ outcome \in [Clients -> {"none", "success", "fail"}]
  /\ late \in Nat

(* A request is executed at most once per call, although the server may    *)
(* find the same CivMsg in the mailbox several times: it can be woken      *)
(* before the message is announced, and again by the announcement.         *)
AtMostOnce == \A c \in Clients : executed[c] <= 1

(* Notify returns true only when the handler of this very call succeeded.  *)
(* It returns false for a request that succeeded only when it gave up      *)
(* after kMaxRetryCount waits.                                             *)
ReplyHonest ==
  \A c \in Clients :
    /\ ret[c] = "true" => outcome[c] = "success"
    /\ ret[c] = "false" /\ outcome[c] = "success" => retry[c] = MaxRetry

(* While a handler of the server runs, the CivMsg it points into exists:   *)
(* the client of the call destroys it only with mutex_cond held.           *)
HandlerDataLive == spc \in {"handling", "reply"} => Present

(* Once stop_server_ is set, by a request or by a signal, the server       *)
(* executes at most one more request.                                      *)
StopsSoon == late <= 1

(* Every call of Notify returns unless the server destroyed the sync block *)
(* under it: with a server that runs, that has ended on an exception, or   *)
(* that leaves msg_in set and loops on an empty mailbox.                   *)
NotifyReturns ==
  \A c \in Clients : pc[c] # "idle" ~> pc[c] = "idle" \/ sync = "destroyed"

(* A StopServer request that was executed ends the server. *)
StopEndsServer ==
  (\E c \in Clients : req[c] = "StopServer" /\ executed[c] > 0)
    ~> spc = "gone"

(* The mailbox implements at-most-once calls. *)
Standing(c) == IF pc[c] = "idle" THEN "idle"
               ELSE IF executed[c] = 0 THEN "open" ELSE outcome[c]

Abstract == INSTANCE Rpc WITH call <- [c \in Clients |-> Standing(c)],
                              asked <- req

ImplementsRpc == Abstract!Spec
=============================================================================

---------------------------- MODULE ServerLife -----------------------------
(***************************************************************************)
(* The life of the vm-manager server as the command line sees it           *)
(* (vm_manager.cc): commands find the server by opening the shared memory  *)
(* segment "CivServerShm", start one when there is none, and stop it.      *)
(* Server::Start (services/server.cc) removes a segment of that name,      *)
(* creates its own, serves, and removes the name again when it leaves.     *)
(* What happens inside one Notify is the subject of module Mailbox.        *)
(***************************************************************************)
EXTENDS Naturals, FiniteSets

CONSTANTS
  Procs,       \* the commands that are run, and the servers they launch
  None,        \* no segment
  Command,     \* what each command asks for
  MaxWait,     \* polls of a command that launched a server (100 in the code)
  MaxKills,    \* bound on the servers that are killed
  Serial       \* whether a server is launched only when no other one is
               \* between the test of IsServerRunning and its segment

ASSUME CommandAssumption ==
  /\ None \notin Procs
  /\ Command \in [Procs -> {"start-server", "stop-server", "guest"}]
  /\ MaxWait \in Nat /\ MaxKills \in Nat /\ Serial \in BOOLEAN

VARIABLES
  shm,         \* the server whose segment the name "CivServerShm" refers to
  srv,         \* program point of the server launched by each command
  pc,          \* program point of each command
  conn,        \* the server whose segment the Client of each command opened
  wait_cnt,    \* polls made
  result,      \* what each command reported
  kills        \* servers killed

vars == <<shm, srv, pc, conn, wait_cnt, result, kills>>

Init ==
  /\ shm = None
  /\ srv = [p \in Procs |-> "none"]
  /\ pc = [p \in Procs |-> "begin"]
  /\ conn = [p \in Procs |-> None]
  /\ wait_cnt = [p \in Procs |-> 0]
  /\ result = [p \in Procs |-> "none"]
  /\ kills = 0

-----------------------------------------------------------------------------
(* The commands *)

Goto(p, from, to) ==
  /\ pc[p] = from
  /\ pc' = [pc EXCEPT ![p] = to]
  /\ UNCHANGED result

Return(p, from, what) ==
  /\ pc[p] = from
  /\ pc' = [pc EXCEPT ![p] = "returned"]
  /\ result' = [result EXCEPT ![p] = what]

(* Mutant: no server is ever found. *)
IsServerRunningNever(p) == FALSE

(* IsServerRunning: the constructor of Client opens the segment of the     *)
(* server, and creates one named after the process: it throws when the     *)
(* process has a Client already.  The answer to kCivMsgTest is ignored.    *)
IsServerRunning(p) == shm # None /\ conn[p] = None

MayLaunch ==
  Serial => \A s \in Procs : srv[s] \notin {"daemonize", "remove", "create"}

(* StartServer: without a server, the process or its daemon becomes one,   *)
(* unless the first fork fails.                                            *)
StartServer(p) ==
  /\ Command[p] = "start-server"
  /\ MayLaunch
  /\ IF IsServerRunning(p)
       THEN Return(p, "begin", "already") /\ UNCHANGED srv
       ELSE \/ Return(p, "begin", "failed") /\ UNCHANGED srv
            \/ /\ Return(p, "begin", "started")
               /\ srv' = [srv EXCEPT ![p] = "daemonize"]
  /\ UNCHANGED <<shm, conn, wait_cnt, kills>>

(* ParseOptions: a command about guests first looks for the server, *)
FindServer(p) ==
  /\ Command[p] = "guest"
  /\ Goto(p, "begin", IF IsServerRunning(p) THEN "check" ELSE "spawn")
  /\ UNCHANGED <<shm, srv, conn, wait_cnt, kills>>

(* runs "--start-server --daemon" when there is none, and gives up when    *)
(* that command fails because it found one or could not fork,              *)
SpawnServer(p) ==
  /\ MayLaunch
  /\ IF IsServerRunning(p)
       THEN Return(p, "spawn", "failed to start server") /\ UNCHANGED srv
       ELSE \/ Return(p, "spawn", "failed to start server") /\ UNCHANGED srv
            \/ /\ Goto(p, "spawn", "poll")
               /\ srv' = [srv EXCEPT ![p] = "daemonize"]
  /\ UNCHANGED <<shm, conn, wait_cnt, kills>>

(* Mutant: the number of polls is not bounded. *)
PollForever(p) ==
  /\ Goto(p, "poll", IF IsServerRunning(p) THEN "check" ELSE "poll")
  /\ UNCHANGED <<shm, srv, conn, wait_cnt, kills>>

(* Mutant: one more poll is allowed. *)
PollOnceMore(p) ==
  /\ IF IsServerRunning(p) THEN Goto(p, "poll", "check")
     ELSE IF wait_cnt[p] > MaxWait + 1
       THEN Return(p, "poll", "cannot start server")
       ELSE Goto(p, "poll", "poll")
  /\ wait_cnt' = IF IsServerRunning(p) THEN wait_cnt
                 ELSE [wait_cnt EXCEPT ![p] = @ + 1]
  /\ UNCHANGED <<shm, srv, conn, kills>>

(* and polls for it. *)
Poll(p) ==
  /\ IF IsServerRunning(p) THEN Goto(p, "poll", "check")
     ELSE IF wait_cnt[p] > MaxWait
       THEN Return(p, "poll", "cannot start server")
       ELSE Goto(p, "poll", "poll")
  /\ wait_cnt' = IF IsServerRunning(p) THEN wait_cnt
                 ELSE [wait_cnt EXCEPT ![p] = @ + 1]
  /\ UNCHANGED <<shm, srv, conn, kills>>

(* Commands without a request need the server no more: create, delete,     *)
(* flash and unknown ones, and StartGuest without a configuration file.    *)
Local(p) ==
  /\ Command[p] = "guest"
  /\ \E from \in {"check", "open"} : Return(p, from, "no request")
  /\ UNCHANGED <<shm, srv, conn, wait_cnt, kills>>

(* ListGuest, StartGuest, StopGuest, GetGuestCid and StopServer test once  *)
(* more, *)
Check(p) ==
  /\ \/ pc[p] = "check"
     \/ pc[p] = "begin" /\ Command[p] = "stop-server"
  /\ IF IsServerRunning(p) THEN Goto(p, pc[p], "open")
                           ELSE Return(p, pc[p], "server is not running")
  /\ UNCHANGED <<shm, srv, conn, wait_cnt, kills>>

(* construct a Client, which throws when the segment has gone, *)
Open(p) ==
  /\ IF shm = None
       THEN Return(p, "open", "exception") /\ UNCHANGED conn
       ELSE Goto(p, "open", "notify") /\ conn' = [conn EXCEPT ![p] = shm]
  /\ UNCHANGED <<shm, srv, wait_cnt, kills>>

(* The segment that the command opened has a server in its loop. *)
Served(p) == conn[p] # None /\ srv[conn[p]] = "serve"

(* and call Notify.  The answer comes from a server in its loop; *)
NotifyGuest(p) ==
  /\ Command[p] = "guest"
  /\ Served(p)
  /\ Return(p, "notify", "done")
  /\ UNCHANGED <<shm, srv, conn, wait_cnt, kills>>

(* Mutant: the handler answers and forgets to set stop_server_. *)
NotifyStopIgnored(p) ==
  /\ Command[p] = "stop-server"
  /\ Served(p)
  /\ Goto(p, "notify", "recheck")
  /\ UNCHANGED <<shm, srv, conn, wait_cnt, kills>>

NotifyStop(p) ==
  /\ Command[p] = "stop-server"
  /\ Served(p)
  /\ Goto(p, "notify", "recheck")
  /\ srv' = [srv EXCEPT ![conn[p]] = "destroy"]
  /\ UNCHANGED <<shm, conn, wait_cnt, kills>>

(* there is none, or it comes too late (and the request was served).       *)
NotifyFails(p) ==
  /\ Return(p, "notify", "failed")
  /\ \/ UNCHANGED srv
     \/ /\ Command[p] = "stop-server" /\ Served(p)
        /\ srv' = [srv EXCEPT ![conn[p]] = "destroy"]
  /\ UNCHANGED <<shm, conn, wait_cnt, kills>>

(* StopServer tests whether the server has gone while it has a Client.     *)
StopRecheck(p) ==
  /\ Return(p, "recheck", IF IsServerRunning(p) THEN "failed" ELSE "stopped")
  /\ UNCHANGED <<shm, srv, conn, wait_cnt, kills>>

-----------------------------------------------------------------------------
(* Server::Start *)

ServerGoto(s, from, to) ==
  /\ srv[s] = from
  /\ srv' = [srv EXCEPT ![s] = to]
  /\ UNCHANGED <<pc, conn, wait_cnt, result, kills>>

(* Daemonize: the command has returned when the second fork, or a step     *)
(* after it, fails; nobody is told.                                        *)
Daemonize(s) ==
  /\ \E to \in {"remove", "dead"} : ServerGoto(s, "daemonize", to)
  /\ UNCHANGED shm

(* The constructor of shm_remove. *)
Remove(s) == ServerGoto(s, "remove", "create") /\ shm' = None

(* create_only throws when another server was faster; the catch block is   *)
(* reached after the destructor of shm_remove.                             *)
Create(s) ==
  /\ ServerGoto(s, "create", IF shm = None THEN "construct" ELSE "exit")
  /\ shm' = IF shm = None THEN s ELSE shm

Construct(s) == ServerGoto(s, "construct", "serve") /\ UNCHANGED shm

(* The CivMsgSync is destroyed after the loop. *)
Destroy(s) == ServerGoto(s, "destroy", "exit") /\ UNCHANGED shm

(* Mutant: the loop goes on after the name was removed. *)
ExitKeepsServing(s) == ServerGoto(s, "exit", "serve") /\ shm' = None

(* The destructor of shm_remove removes the name, whoever it belongs to.   *)
Exit(s) == ServerGoto(s, "exit", "gone") /\ shm' = None

(* HandleSIG: the loop is left; before sync_ is set the handler follows a  *)
(* null pointer and the process dies.                                      *)
Signal(s) ==
  /\ \/ ServerGoto(s, "serve", "destroy")
     \/ \E early \in {"daemonize", "remove", "create", "construct"} :
          ServerGoto(s, early, "dead")
  /\ UNCHANGED shm

(* The server is killed: its segment stays. *)
Kill(s) ==
  /\ kills < MaxKills
  /\ srv[s] \notin {"none", "gone", "dead"}
  /\ srv' = [srv EXCEPT ![s] = "dead"]
  /\ kills' = kills + 1
  /\ UNCHANGED <<shm, pc, conn, wait_cnt, result>>

-----------------------------------------------------------------------------
CommandStep(p) ==
  \/ StartServer(p) \/ FindServer(p) \/ SpawnServer(p) \/ Poll(p) \/ Local(p)
  \/ Check(p) \/ Open(p) \/ NotifyGuest(p) \/ NotifyStop(p) \/ NotifyFails(p)
  \/ StopRecheck(p)

ServerStep(s) ==
  \/ Daemonize(s) \/ Remove(s) \/ Create(s) \/ Construct(s)
  \/ Destroy(s) \/ Exit(s)

Next == \E p \in Procs : CommandStep(p) \/ ServerStep(p) \/ Signal(p) \/ Kill(p)

Spec == Init /\ [][Next]_vars

(* Commands and servers run on; nobody has to signal or kill a server.     *)
FairSpec ==
  Spec /\ \A p \in Procs : WF_vars(CommandStep(p)) /\ WF_vars(ServerStep(p))

-----------------------------------------------------------------------------
(* Every variable has its type; a command gives up after MaxWait + 2 polls *)
(* of the loop in ParseOptions.                                            *)
TypeOK ==
  /\ shm \in Procs \cup {None}
  /\ srv \in [Procs -> {"none", "daemonize", "remove", "create", "construct", "serve",
                        "destroy", "exit", "gone", "dead"}]
  /\ pc \in [Procs -> {"begin", "spawn", "poll", "check", "open", "notify",
                       "recheck", "returned"}]
  /\ conn \in [Procs -> Procs \cup {None}]
  /\ wait_cnt \in [Procs -> 0..(MaxWait + 2)]
  /\ result \in [Procs -> {"none", "already", "started", "stopped", "done",
                           "failed", "exception", "failed to start server", "no request",
                           "cannot start server", "server is not running"}]
  /\ kills \in 0..MaxKills

(* At most one server has a CivMsgSync of its own, however commands that   *)
(* start and stop servers, signals and kills follow one another.           *)
OneServer ==
  \A s, t \in Procs :
    srv[s] \in {"construct", "serve", "destroy"}
      /\ srv[t] \in {"construct", "serve", "destroy"} => s = t

(* A server that serves can be reached: the name refers to its segment,    *)
(* although every other server removes the name when it starts and leaves. *)
Reachable == \A s \in Procs : srv[s] = "serve" => shm = s

(* Every command returns, whatever becomes of the servers (the poll loop   *)
(* of ParseOptions is bounded).                                            *)
CommandReturns == \A p \in Procs : pc[p] = "begin" ~> pc[p] = "returned"

(* A server that StopServer reported stopped leaves its loop and is gone,  *)
(* or was killed (the kCiVMsgStopServer case of Server::Start).            *)
StopEnds ==
  \A p, s \in Procs :
    result[p] = "stopped" /\ conn[p] = s ~> srv[s] \in {"gone", "dead"}
=============================================================================

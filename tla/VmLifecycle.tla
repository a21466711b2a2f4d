---------------------------- MODULE VmLifecycle ----------------------------
(***************************************************************************)
(* The life of the virtual machines inside the server process: the         *)
(* registry vmis_ and the request handlers of the main thread, one detached*)
(* VmThread per machine, the startup listener that the guests call, the    *)
(* VmBuilderQemu objects and the pool of vsock context identifiers         *)
(* (services/server.cc, services/startup_listener_impl.cc,                 *)
(* guest/vm_builder_qemu.cc, guest/vm_process.cc).                         *)
(*                                                                         *)
(* The main thread handles one request at a time.  It reads and extends    *)
(* vmis_ without a lock; only DeleteVmInstance takes vmis_mutex_.          *)
(***************************************************************************)
EXTENDS CidPool, SequencesExt

CONSTANTS
  Names,           \* names of machines in the configuration files
  StrCids,         \* values of the option vsock_cid: <<>> or <<number>>
  MaxBuilds,       \* bound on the VmBuilderQemu objects put into vmis_
  MaxWait,         \* rounds of WaitVmReady, 200 in the code
  StopRequests,    \* whether clients ask to stop machines
  StubbornGuest    \* whether qemu may survive SIGTERM for ten seconds

ASSUME ConfigAssumption ==
  /\ \A s \in StrCids : s \in Seq(Nat) /\ Len(s) <= 1
  /\ "" \notin Names
  /\ MaxBuilds \in Nat /\ MaxWait \in Nat \ {0}
  /\ StopRequests \in BOOLEAN /\ StubbornGuest \in BOOLEAN

Builders == 1..MaxBuilds
Null == 0                  \* a null pointer, no builder
Pointers == {Null} \cup Builders

VARIABLES
  (* the VmBuilderQemu objects *)
  made,       \* how many were put into vmis_ so far
  heap,       \* "fresh", "alive", "dying" (in its destructor) or "freed"
  name, cid,  \* name_ and vsock_cid_
  waits,      \* the option wait_ready is "true"
  state,      \* state_
  ready,      \* vm_ready_latch_ has been counted down
  stopping,   \* the builders whose stopvm_mutex_ is held
  (* their main processes *)
  proc,       \* the qemu process: "none", "running" or "exited"
  child,      \* the monitor thread has stored the child in c_
  mon,        \* mon_ is not null
  said,       \* the guest has called VmReady
  (* the server *)
  vmis, vmis_mutex,      \* the vector, and the thread that holds the mutex
  victim,                \* the builder the holder of vmis_mutex is erasing
  bs,                    \* VsockCidPool::bs_
  pending, lpc, lcid, target, \* pending_vms_ and the VmReady in progress
  mpc, mname, mcfg, midx, mvb, \* the main thread and its local variables
  tpc, rounds, latch,    \* the VmThreads; latch is notify_cont
  (* history *)
  verdict,               \* what StartVm has reported about each builder
  stopped                \* the cids that a stop request has released

builderVars  == <<made, heap, name, cid, waits>>
readyVars    == <<state, ready>>
procVars     == <<proc, child, mon>>
registryVars == <<vmis, vmis_mutex, victim>>
listenerVars == <<pending, lpc, lcid, target>>
mainVars     == <<mpc, mname, mcfg, midx, mvb>>
mainLocals   == <<mname, mcfg, midx, mvb>>
threadVars   == <<tpc, rounds, latch>>
ghostVars    == <<verdict, stopped>>
vars == <<builderVars, readyVars, stopping, procVars, said, registryVars, bs,
          listenerVars, mainVars, threadVars, ghostVars>>

(* What a step leaves alone that only moves the main thread, a VmThread or *)
(* a qemu process.                                                         *)
objectVars == <<builderVars, readyVars, stopping, said, registryVars, bs,
                listenerVars>>
notMain    == <<objectVars, procVars, threadVars>>
notThread  == <<objectVars, procVars, mainVars, ghostVars>>
notProc    == <<objectVars, mainVars, threadVars, ghostVars>>

NoName == ""
NoConfig == [str_cid |-> <<>>, wait_ready |-> FALSE]

Init ==
  /\ made = 0
  /\ heap = [b \in Builders |-> "fresh"]
  /\ name = [b \in Builders |-> NoName]
  /\ cid = [b \in Builders |-> 0]
  /\ waits = [b \in Builders |-> FALSE]
  /\ state = [b \in Builders |-> "Empty"]
  /\ ready = [b \in Builders |-> FALSE]
  /\ stopping = {}
  /\ proc = [b \in Builders |-> "none"]
  /\ child = [b \in Builders |-> FALSE]
  /\ mon = [b \in Builders |-> FALSE]
  /\ said = [b \in Builders |-> FALSE]
  /\ vmis = <<>> /\ vmis_mutex = Null /\ victim = Null
  /\ bs = AllFree
  /\ pending = [c \in AllFree |-> Null]
  /\ lpc = "idle" /\ lcid = 0 /\ target = Null
  /\ mpc = "idle" /\ mname = NoName
  /\ mcfg = NoConfig
  /\ midx = 0 /\ mvb = Null
  /\ tpc = [b \in Builders |-> "none"]
  /\ rounds = [b \in Builders |-> 0]
  /\ latch = [b \in Builders |-> 0]
  /\ verdict = [b \in Builders |-> "none"]
  /\ stopped = {}

-----------------------------------------------------------------------------
(* VmProcSimple of the main process *)

(* Running(): c_ is stored and its process has not ended. *)
Running(b) == child[b] /\ proc[b] = "running"

(* Stop(): without a monitor thread, a stored child or a running process   *)
(* nothing happens; otherwise SIGTERM is sent, the monitor thread is       *)
(* joined for at most ten seconds and mon_ is reset.                       *)
StopProc(b) ==
  IF mon[b] /\ Running(b)
    THEN /\ mon' = [mon EXCEPT ![b] = FALSE]
         /\ \/ proc' = [proc EXCEPT ![b] = "exited"]
            \/ StubbornGuest /\ UNCHANGED proc
         /\ UNCHANGED child
    ELSE UNCHANGED procVars

(* The monitor thread stores the child in c_, after the latch that lets    *)
(* Run() return.                                                           *)
StoreChild(b) ==
  /\ proc[b] # "none" /\ ~child[b] /\ heap[b] # "freed"
  /\ child' = [child EXCEPT ![b] = TRUE]
  /\ UNCHANGED <<notProc, proc, mon>>

(* The qemu process ends on its own: power off, crash, bad arguments. *)
Exit(b) ==
  /\ proc[b] = "running"
  /\ proc' = [proc EXCEPT ![b] = "exited"]
  /\ UNCHANGED <<notProc, child, mon>>

-----------------------------------------------------------------------------
(* The registry *)

(* FindVmInstance(n): the first element with the name, 0 for "not found".  *)
(* A null element stops the search as well: GetName() is called on it.     *)
FindVmInstance(n) ==
  SelectInSeq(vmis, LAMBDA b : b = Null \/ name[b] = n)

(* vmis_[i] can be dereferenced. *)
Valid(i) == i \in DOMAIN vmis /\ vmis[i] # Null

(* The search of FindVmInstance(n) runs into a null element. *)
FindFaults(n) ==
  LET i == FindVmInstance(n) IN i # 0 /\ ~Valid(i)

MainGoto(from, to) ==
  /\ mpc = from
  /\ mpc' = to

(* The handler returns to the loop of Server::Start. *)
MainReturn(from) ==
  /\ MainGoto(from, "idle")
  /\ mname' = NoName /\ mcfg' = NoConfig
  /\ midx' = 0 /\ mvb' = Null

(* The process dies: an invalid dereference in the main thread, or an      *)
(* exception that a thread does not catch.                                 *)
Fault ==
  /\ mpc' = "crashed"
  /\ UNCHANGED <<notMain, mainLocals, ghostVars>>

(* Mutant: a running machine can be started again. *)
StartVmTwice(n, str_cid, wait_ready) ==
  /\ mpc = "idle" /\ made < MaxBuilds
  /\ mpc' = "build"
  /\ mname' = n
  /\ mcfg' = [str_cid |-> str_cid, wait_ready |-> wait_ready]
  /\ UNCHANGED <<notMain, midx, mvb, ghostVars>>

(* Server::StartVm.  Requests that fail before the search (no path, bad    *)
(* file, empty name) change nothing.                                       *)
StartVm(n, str_cid, wait_ready) ==
  /\ mpc = "idle" /\ made < MaxBuilds
  /\ FindVmInstance(n) = 0
  /\ mpc' = "build"
  /\ mname' = n
  /\ mcfg' = [str_cid |-> str_cid, wait_ready |-> wait_ready]
  /\ UNCHANGED <<notMain, midx, mvb, ghostVars>>

(* BuildVmArgs fails: the new builder is destroyed, which gives back the   *)
(* cid if it had one.                                                      *)
BuildFails ==
  /\ MainReturn("build")
  /\ UNCHANGED <<notMain, ghostVars>>

(* BuildVmArgs succeeds with a cid; the builder is appended to vmis_, the  *)
(* latch set to 1 or 2, the VmThread started, and the main thread waits.   *)
BuildAndInsert ==
  LET b == made + 1
      c == Acquire(bs, mcfg.str_cid)
  IN  /\ MainGoto("build", "start_wait")
      /\ c # 0
      /\ Null \notin ToSet(vmis)
      /\ bs' = bs \ {c}
      /\ made' = b
      /\ heap' = [heap EXCEPT ![b] = "alive"]
      /\ name' = [name EXCEPT ![b] = mname]
      /\ cid' = [cid EXCEPT ![b] = c]
      /\ waits' = [waits EXCEPT ![b] = mcfg.wait_ready]
      /\ state' = [state EXCEPT ![b] = "Created"]
      /\ vmis' = Append(vmis, b)
      /\ latch' = [latch EXCEPT ![b] = IF mcfg.wait_ready THEN 2 ELSE 1]
      /\ tpc' = [tpc EXCEPT ![b] = "start"]
      /\ mvb' = b
      /\ UNCHANGED <<procVars, listenerVars, ready, stopping, said, vmis_mutex,
                     victim, mname, mcfg, midx, rounds, ghostVars>>

(* The append meets an erase in progress: with a null element inside, or   *)
(* while the slot behind the last element is still being destroyed.        *)
InsertFaults ==
  /\ mpc = "build"
  /\ Acquire(bs, mcfg.str_cid) # 0
  /\ vmis_mutex # Null
  /\ Fault

(* Mutant: the first count ends the wait. *)
StartWaitFirst ==
  /\ MainGoto("start_wait", "start_read")
  /\ latch[mvb] <= 1
  /\ UNCHANGED <<notMain, mainLocals, ghostVars>>

(* notify_cont.wait() *)
StartWait ==
  /\ MainGoto("start_wait", "start_read")
  /\ latch[mvb] = 0
  /\ UNCHANGED <<notMain, mainLocals, ghostVars>>

(* vb->GetState() == kVmRunning; vb may be freed already, and then any     *)
(* value can be read.                                                      *)
StartReply(answer) ==
  /\ MainReturn("start_read")
  /\ heap[mvb] # "freed" =>
       answer = IF state[mvb] = "Running" THEN "ok" ELSE "failed"
  /\ verdict' = [verdict EXCEPT ![mvb] = answer]
  /\ UNCHANGED <<notMain, stopped>>

(* Server::StopVm: the index is searched once and used until the end. *)
StopVm(n) ==
  /\ StopRequests
  /\ mpc = "idle"
  /\ FindVmInstance(n) # 0 /\ ~FindFaults(n)
  /\ mpc' = "stop_cid"
  /\ mname' = n
  /\ midx' = FindVmInstance(n)
  /\ UNCHANGED <<notMain, mcfg, mvb, ghostVars>>

(* vmis_[id]->GetCid() is the address of the guest to shut down. *)
StopAddress ==
  /\ MainGoto("stop_cid", "stop_rpc")
  /\ Valid(midx)
  /\ mvb' = vmis[midx]
  /\ UNCHANGED <<notMain, mname, mcfg, midx, ghostVars>>

(* The guest at that address answers; it powers off later, by Exit. *)
ShutdownAnswered ==
  /\ MainReturn("stop_rpc")
  /\ \E g \in Builders : proc[g] = "running" /\ cid[g] = cid[mvb]
  /\ UNCHANGED <<notMain, ghostVars>>

(* The guest is gone, not up yet or not answering: vmis_[id]->StopVm(). *)
ShutdownFails ==
  /\ MainGoto("stop_rpc", "stop_lock")
  /\ Valid(midx)
  /\ mvb' = vmis[midx]
  /\ UNCHANGED <<notMain, mname, mcfg, midx, ghostVars>>

(* VmBuilderQemu::StopVm takes stopvm_mutex_ and stops the process ... *)
StopLock ==
  /\ MainGoto("stop_lock", "stop_release")
  /\ heap[mvb] # "freed" /\ mvb \notin stopping
  /\ stopping' = stopping \cup {mvb}
  /\ StopProc(mvb)
  /\ UNCHANGED <<builderVars, readyVars, registryVars, listenerVars,
                 mainLocals, threadVars, said, bs, ghostVars>>

(* ... then releases the cid, which the builder keeps in vsock_cid_. *)
StopRelease ==
  /\ MainReturn("stop_release")
  /\ bs' = ReleaseCid(bs, cid[mvb])
  /\ stopping' = stopping \ {mvb}
  /\ stopped' = stopped \cup {cid[mvb]}
  /\ UNCHANGED <<builderVars, readyVars, procVars, registryVars, listenerVars,
                 threadVars, said, verdict>>

(* Server::GetVmInfo: the index is searched, then used. *)
GetVmInfo(n) ==
  /\ mpc = "idle"
  /\ FindVmInstance(n) # 0 /\ ~FindFaults(n)
  /\ mpc' = "info"
  /\ mname' = n
  /\ midx' = FindVmInstance(n)
  /\ UNCHANGED <<notMain, mcfg, mvb, ghostVars>>

InfoRead ==
  /\ MainGoto("info", "info_reply")
  /\ Valid(midx)
  /\ mvb' = vmis[midx]
  /\ UNCHANGED <<notMain, mname, mcfg, midx, ghostVars>>

InfoReply ==
  /\ MainReturn("info_reply")
  /\ UNCHANGED <<notMain, ghostVars>>

(* A handler dereferences a null, vanished or freed builder: a null one in *)
(* the walk of ListVm over vmis_ (or in the search of another request), at *)
(* an index that is stale, or in the lock of a destroyed builder.          *)
MainFaults ==
  /\ \/ mpc = "idle" /\ Null \in ToSet(vmis)
     \/ mpc \in {"stop_cid", "stop_rpc", "info"} /\ ~Valid(midx)
     \/ mpc = "stop_lock" /\ heap[mvb] = "freed"
  /\ Fault

MainStep ==
  \/ \E n \in Names, str_cid \in StrCids, wait_ready \in BOOLEAN :
       StartVm(n, str_cid, wait_ready)
  \/ \E n \in Names : StopVm(n) \/ GetVmInfo(n)
  \/ \E answer \in {"ok", "failed"} : StartReply(answer)
  \/ BuildFails \/ BuildAndInsert \/ InsertFaults \/ StartWait
  \/ StopAddress \/ ShutdownAnswered \/ ShutdownFails \/ StopLock
  \/ StopRelease \/ InfoRead \/ InfoReply \/ MainFaults

-----------------------------------------------------------------------------
(* Server::VmThread, one for each builder b *)

Goto(b, from, to) ==
  /\ tpc[b] = from
  /\ tpc' = [tpc EXCEPT ![b] = to]

(* vb->StartVm(): Run() starts the monitor thread and returns once the     *)
(* process is started, or could not be.                                    *)
ThreadStart(b) ==
  /\ Goto(b, "start", "count")
  /\ mon' = [mon EXCEPT ![b] = TRUE]
  /\ \E outcome \in {"running", "exited"} :
       proc' = [proc EXCEPT ![b] = outcome]
  /\ state' = [state EXCEPT ![b] = "Booting"]
  /\ UNCHANGED <<builderVars, registryVars, listenerVars, mainVars, ready,
                 stopping, child, said, bs, rounds, latch, ghostVars>>

(* Run() of the rpmb co-process throws when the process that initialises   *)
(* its data cannot be started; VmThread catches nothing, so the exception  *)
(* ends the server.                                                        *)
StartThrows(b) ==
  /\ tpc[b] = "start"
  /\ Fault

CountDown(b) == latch' = [latch EXCEPT ![b] = @ - 1]

(* The first try_count_down: it reaches zero unless the client waits until *)
(* the machine is ready.                                                   *)
FirstCount(b) ==
  /\ Goto(b, "count", IF latch[b] = 1 THEN "set_ready" ELSE "add_pending")
  /\ CountDown(b)
  /\ UNCHANGED <<notThread, rounds>>

(* vb->SetVmReady() in the thread itself. *)
SetReady(b) ==
  /\ Goto(b, "set_ready", "join")
  /\ ready' = [ready EXCEPT ![b] = TRUE]
  /\ state' = [state EXCEPT ![b] = "Running"]
  /\ UNCHANGED <<builderVars, procVars, registryVars, listenerVars, mainVars,
                 stopping, said, bs, rounds, latch, ghostVars>>

(* Mutant: the map is changed without vm_lock_. *)
AddPendingUnlocked(b) ==
  /\ Goto(b, "add_pending", "wait_check")
  /\ pending' = [pending EXCEPT ![cid[b]] = b]
  /\ UNCHANGED <<builderVars, readyVars, procVars, registryVars, mainVars,
                 stopping, said, bs, lpc, lcid, target, rounds, latch,
                 ghostVars>>

(* AddPendingVM, under vm_lock_: an older entry of the cid is replaced. *)
AddPendingVM(b) ==
  /\ lpc = "idle"
  /\ Goto(b, "add_pending", "wait_check")
  /\ pending' = [pending EXCEPT ![cid[b]] = b]
  /\ UNCHANGED <<builderVars, readyVars, procVars, registryVars, mainVars,
                 stopping, said, bs, lpc, lcid, target, rounds, latch,
                 ghostVars>>

(* Mutant: a machine that died is not deleted. *)
WaitCheckLeaves(b) ==
  /\ Goto(b, "wait_check", IF Running(b) THEN "wait_latch" ELSE "count_fail")
  /\ UNCHANGED <<notThread, rounds, latch>>

(* WaitVmReady: each round asks Running() ... *)
WaitCheck(b) ==
  /\ Goto(b, "wait_check", IF Running(b) THEN "wait_latch" ELSE "del_fail")
  /\ UNCHANGED <<notThread, rounds, latch>>

(* Mutant: the bound of the rounds is off by one. *)
WaitLatchOneMore(b) ==
  /\ Goto(b, "wait_latch",
          IF state[b] = "Running" THEN "count_ok"
          ELSE IF rounds[b] < MaxWait THEN "wait_check" ELSE "del_fail")
  /\ rounds' = [rounds EXCEPT ![b] = @ + 1]
  /\ UNCHANGED <<notThread, latch>>

(* ... then waits for vm_ready_latch_ or one second, and looks at state_,  *)
(* which SetVmReady writes after the latch.                                *)
WaitLatch(b) ==
  /\ Goto(b, "wait_latch",
          IF state[b] = "Running" THEN "count_ok"
          ELSE IF rounds[b] + 1 < MaxWait THEN "wait_check" ELSE "del_fail")
  /\ rounds' = [rounds EXCEPT ![b] = @ + 1]
  /\ UNCHANGED <<notThread, latch>>

(* Mutant: a failed wait leaves the latch alone. *)
SecondCountOnlyReady(b) ==
  /\ Goto(b, "count_ok", "join")
  /\ CountDown(b)
  /\ UNCHANGED <<notThread, rounds>>

(* The second try_count_down, of a machine that is ready, and of one that  *)
(* failed: there vb is deleted before.                                     *)
SecondCount(b) ==
  /\ \/ Goto(b, "count_ok", "join")
     \/ Goto(b, "count_fail", "done")
  /\ CountDown(b)
  /\ UNCHANGED <<notThread, rounds>>

(* Mutant: a stopped machine is not deleted. *)
JoinReturnsEarly(b) ==
  /\ Goto(b, "join", IF mon[b] THEN "joining" ELSE "done")
  /\ UNCHANGED <<notThread, rounds, latch>>

(* WaitVmExit: Join returns at once when mon_ was reset, otherwise when    *)
(* the monitor thread ends, which is when the process has ended.           *)
Join(b) ==
  /\ Goto(b, "join", IF mon[b] THEN "joining" ELSE "del")
  /\ UNCHANGED <<notThread, rounds, latch>>

Joined(b) ==
  /\ proc[b] = "exited"
  /\ Goto(b, "joining", "del")
  /\ UNCHANGED <<notThread, rounds, latch>>

(* DeleteVmInstance takes vmis_mutex_, searches by name and erases.  The   *)
(* erase moves the next element into the place of the victim, whose        *)
(* destructor runs before the elements behind it move up; the last element *)
(* is cut off before it is destroyed.                                      *)
EraseBegin(b) ==
  LET i == FindVmInstance(name[b])
  IN  /\ vmis_mutex = Null
      /\ tpc[b] \in {"del", "del_fail"}
      /\ IF i = 0
           THEN /\ tpc' = [tpc EXCEPT ![b] = IF @ = "del" THEN "done" ELSE "count_fail"]
                /\ UNCHANGED <<registryVars, heap>>
           ELSE /\ tpc' = [tpc EXCEPT ![b] = IF @ = "del" THEN "erase" ELSE "erase_fail"]
                /\ vmis_mutex' = b
                /\ victim' = vmis[i]
                /\ heap' = [heap EXCEPT ![vmis[i]] = "dying"]
                /\ vmis' = IF i < Len(vmis)
                             THEN [vmis EXCEPT ![i] = vmis[i + 1], ![i + 1] = Null]
                             ELSE SubSeq(vmis, 1, i - 1)
      /\ UNCHANGED <<readyVars, procVars, listenerVars, mainVars, made, name,
                     cid, waits, stopping, said, bs, rounds, latch, ghostVars>>

(* ~VmBuilderQemu runs StopVm: stopvm_mutex_ is taken, the process stopped *)
DestroyLock(b) ==
  /\ vmis_mutex = b /\ victim \notin stopping
  /\ tpc[b] \in {"erase", "erase_fail"}
  /\ tpc' = [tpc EXCEPT ![b] = IF @ = "erase" THEN "free" ELSE "free_fail"]
  /\ stopping' = stopping \cup {victim}
  /\ StopProc(victim)
  /\ UNCHANGED <<builderVars, readyVars, registryVars, listenerVars, mainVars,
                 said, bs, rounds, latch, ghostVars>>

(* Mutant: the destructor forgets the cid. *)
DestroyKeepsCid(b) ==
  /\ vmis_mutex = b
  /\ tpc[b] \in {"free", "free_fail"}
  /\ tpc' = [tpc EXCEPT ![b] = IF @ = "free" THEN "done" ELSE "count_fail"]
  /\ UNCHANGED bs
  /\ stopping' = stopping \ {victim}
  /\ StopProc(victim)
  /\ heap' = [heap EXCEPT ![victim] = "freed"]
  /\ vmis' = RemoveFirst(vmis, Null)
  /\ vmis_mutex' = Null /\ victim' = Null
  /\ UNCHANGED <<readyVars, listenerVars, mainVars, made, name, cid, waits,
                 said, rounds, latch, ghostVars>>

(* and the cid released, a second time if the main thread did it before;   *)
(* the members are destroyed (~VmProcSimple stops the process once more),  *)
(* the erase is completed and vmis_mutex_ released.                        *)
DestroyRelease(b) ==
  /\ vmis_mutex = b
  /\ tpc[b] \in {"free", "free_fail"}
  /\ tpc' = [tpc EXCEPT ![b] = IF @ = "free" THEN "done" ELSE "count_fail"]
  /\ bs' = ReleaseCid(bs, cid[victim])
  /\ stopping' = stopping \ {victim}
  /\ StopProc(victim)
  /\ heap' = [heap EXCEPT ![victim] = "freed"]
  /\ vmis' = RemoveFirst(vmis, Null)
  /\ vmis_mutex' = Null /\ victim' = Null
  /\ UNCHANGED <<readyVars, listenerVars, mainVars, made, name, cid, waits,
                 said, rounds, latch, ghostVars>>

ThreadStep(b) ==
  \/ ThreadStart(b) \/ StartThrows(b) \/ FirstCount(b) \/ SetReady(b) \/ AddPendingVM(b)
  \/ WaitCheck(b) \/ WaitLatch(b) \/ SecondCount(b) \/ Join(b)
  \/ Joined(b) \/ EraseBegin(b) \/ DestroyLock(b) \/ DestroyRelease(b)

-----------------------------------------------------------------------------
(* StartupListenerImpl::VmReady, called once by the guest of builder b *)

(* The vhost driver lets only one running process have a cid: the one that *)
(* asked first.                                                            *)
HasAddress(b) ==
  /\ proc[b] = "running"
  /\ \A g \in 1..(b - 1) : proc[g] = "running" => cid[g] # cid[b]

VmReady(b) ==
  /\ HasAddress(b) /\ ~said[b]
  /\ lpc = "idle"
  /\ said' = [said EXCEPT ![b] = TRUE]
  /\ IF pending[cid[b]] = Null
       THEN UNCHANGED listenerVars          \* "VM is unknown"
       ELSE /\ lpc' = "count"
            /\ lcid' = cid[b]
            /\ target' = pending[cid[b]]
            /\ UNCHANGED pending
  /\ UNCHANGED <<builderVars, readyVars, procVars, registryVars, mainVars,
                 threadVars, stopping, bs, ghostVars>>

(* The callback runs SetVmReady on the builder it captured.  When that one *)
(* is freed, its memory may belong to a builder made later.                *)
Written ==
  IF heap[target] # "freed" THEN {target}
  ELSE {Null} \cup {b \in Builders : b > target /\ heap[b] = "alive"}

CallbackCount ==
  /\ lpc = "count"
  /\ \E w \in Written :
       /\ target' = w
       /\ ready' = IF w = Null THEN ready ELSE [ready EXCEPT ![w] = TRUE]
       /\ lpc' = IF w = Null THEN "erase" ELSE "state"
  /\ UNCHANGED <<builderVars, procVars, registryVars, mainVars, threadVars,
                 state, stopping, said, bs, pending, lcid, ghostVars>>

CallbackState ==
  /\ lpc = "state"
  /\ lpc' = "erase"
  /\ state' = [state EXCEPT ![target] = "Running"]
  /\ UNCHANGED <<builderVars, procVars, registryVars, mainVars, threadVars,
                 ready, stopping, said, bs, pending, lcid, target, ghostVars>>

(* pending_vms_.erase, and vm_lock_ is released. *)
ErasePending ==
  /\ lpc = "erase"
  /\ lpc' = "idle"
  /\ pending' = [pending EXCEPT ![lcid] = Null]
  /\ target' = Null /\ lcid' = 0
  /\ UNCHANGED <<builderVars, readyVars, procVars, registryVars, mainVars,
                 threadVars, stopping, said, bs, ghostVars>>

ListenerStep == CallbackCount \/ CallbackState \/ ErasePending

-----------------------------------------------------------------------------
(* A crashed process takes no further step. *)
Next ==
  /\ mpc # "crashed"
  /\ \/ MainStep
     \/ ListenerStep
     \/ \E b \in Builders :
          ThreadStep(b) \/ StoreChild(b) \/ Exit(b) \/ VmReady(b)

Spec == Init /\ [][Next]_vars

-----------------------------------------------------------------------------
MainPoint == {"idle", "build", "start_wait", "start_read", "stop_cid",
              "stop_rpc", "stop_lock", "stop_release", "info", "info_reply",
              "crashed"}
ThreadPoint == {"none", "start", "count", "set_ready", "add_pending",
                "wait_check", "wait_latch", "count_ok", "count_fail", "join",
                "joining", "del", "del_fail", "erase", "erase_fail", "free",
                "free_fail", "done"}

(* Every variable has its type; a thread makes at most MaxWait rounds of   *)
(* WaitVmReady, and the latch of StartVm is counted down at most twice.    *)
TypeOK ==
  /\ made \in 0..MaxBuilds
  /\ heap \in [Builders -> {"fresh", "alive", "dying", "freed"}]
  /\ name \in [Builders -> Names \cup {NoName}]
  /\ cid \in [Builders -> {0} \cup GuestCids]
  /\ waits \in [Builders -> BOOLEAN]
  /\ state \in [Builders -> {"Empty", "Created", "Booting", "Running"}]
  /\ ready \in [Builders -> BOOLEAN]
  /\ stopping \subseteq Builders
  /\ proc \in [Builders -> {"none", "running", "exited"}]
  /\ child \in [Builders -> BOOLEAN]
  /\ mon \in [Builders -> BOOLEAN]
  /\ said \in [Builders -> BOOLEAN]
  /\ vmis \in Seq(Pointers)
  /\ vmis_mutex \in Pointers /\ victim \in Pointers
  /\ bs \subseteq AllFree
  /\ pending \in [AllFree -> Pointers]
  /\ lpc \in {"idle", "count", "state", "erase"}
  /\ lcid \in AllFree /\ target \in Pointers
  /\ mpc \in MainPoint /\ mname \in Names \cup {NoName}
  /\ mcfg \in [str_cid : {<<>>} \cup StrCids, wait_ready : BOOLEAN]
  /\ midx \in Nat /\ mvb \in Pointers
  /\ tpc \in [Builders -> ThreadPoint]
  /\ rounds \in [Builders -> 0..MaxWait]
  /\ latch \in [Builders -> 0..2]
  /\ verdict \in [Builders -> {"none", "ok", "failed"}]
  /\ stopped \subseteq GuestCids

Live(b) == heap[b] \in {"alive", "dying"}

(* The threads that still use notify_cont, a local variable of StartVm. *)
CountsLater == {"start", "count", "add_pending", "wait_check", "wait_latch",
                "count_ok", "del_fail", "erase_fail", "free_fail",
                "count_fail"}

(* notify_cont lives on the stack of StartVm: as long as a VmThread will   *)
(* still count it down, the main thread has not returned from waiting on   *)
(* this very latch.                                                        *)
LatchInScope ==
  \A b \in Builders : tpc[b] \in CountsLater =>
    /\ latch[b] > 0
    /\ mpc = "crashed" \/ (mpc = "start_wait" /\ mvb = b)

(* The threads whose builder has not been erased yet. *)
Owning == {"start", "count", "set_ready", "add_pending", "wait_check",
           "wait_latch", "count_ok", "join", "joining", "del", "del_fail"}

(* vmis_ never holds two machines of one name, the machine of a VmThread   *)
(* stays in it until this thread erases it, and DeleteVmInstance, which    *)
(* searches by name, erases the machine of the calling thread.             *)
RegistryOwned ==
  /\ \A i, j \in DOMAIN vmis :
       i # j /\ vmis[i] # Null /\ vmis[j] # Null => name[vmis[i]] # name[vmis[j]]
  /\ \A b \in Builders :
       tpc[b] \in Owning => b \in ToSet(vmis) /\ heap[b] = "alive"
  /\ vmis_mutex = victim

(* Every identifier of the pool is free or belongs to a builder: no path   *)
(* through a failed start, a stop or an exit loses one.                    *)
NoCidLeak ==
  \A c \in GuestCids : c \in bs \/ \E b \in Builders : Live(b) /\ cid[b] = c

(* Builder b is the only one with its identifier, which is not free.       *)
SoleOwner(b) ==
  /\ cid[b] \notin bs
  /\ \A a \in Builders \ {b} : Live(a) => cid[a] # cid[b]

(* Two builders never hold the same identifier, and one that is held is    *)
(* not free in the pool.                                                   *)
CidExclusive ==
  \A b \in Builders : heap[b] = "alive" => SoleOwner(b)

(* It is so for every identifier that no stop request has released, which  *)
(* the builder keeps in vsock_cid_: neither a failed start nor an exit nor *)
(* an explicit vsock_cid makes two machines share one (BuildVsockCmd,      *)
(* StopVm).                                                                *)
CidExclusiveUnlessStopped ==
  \A b \in Builders :
    heap[b] = "alive" /\ cid[b] \notin stopped => SoleOwner(b)

(* While a thread waits until its guest is ready, the listener still has   *)
(* the entry that makes this very machine ready, or has used it: no later  *)
(* machine takes the entry over, and the report of the guest is not lost   *)
(* between the latch, the state and the erased entry.                      *)
ReadyNotLost ==
  \A b \in Builders :
    tpc[b] \in {"wait_check", "wait_latch"} /\ cid[b] \notin stopped =>
      \/ pending[cid[b]] = b
      \/ pending[cid[b]] = Null /\ ready[b] /\ state[b] = "Running"

(* When a start with wait_ready fails, the machine has been erased from    *)
(* vmis_, destroyed and its cid is free or in use by a later one.          *)
WaitFailureCleansUp ==
  \A b \in Builders : waits[b] /\ verdict[b] = "failed" =>
    heap[b] = "freed" /\ b \notin ToSet(vmis)

(* A start with wait_ready succeeds only when the guest reported that it   *)
(* is ready.                                                               *)
WaitReadyHonest ==
  \A b \in Builders : waits[b] /\ verdict[b] = "ok" => said[b]

(* The handlers of StopVm and GetVmInfo act on the machine that the client *)
(* named.                                                                  *)
RightVm ==
  mpc \in {"stop_rpc", "stop_lock", "stop_release", "info_reply"} =>
    name[mvb] = mname

-----------------------------------------------------------------------------
(* Scheduling: every thread of the server that can step does so.  Nothing  *)
(* is assumed of the guests: qemu may run forever, never call VmReady and  *)
(* never answer the Shutdown call, which has no deadline.                  *)
Fairness ==
  /\ WF_vars(BuildFails \/ BuildAndInsert)
  /\ WF_vars(StartWait)
  /\ WF_vars(\E answer \in {"ok", "failed"} : StartReply(answer))
  /\ WF_vars(StopAddress) /\ WF_vars(StopLock) /\ WF_vars(StopRelease)
  /\ WF_vars(InfoRead) /\ WF_vars(InfoReply)
  /\ WF_vars(ListenerStep)
  /\ \A b \in Builders : WF_vars(ThreadStep(b)) /\ WF_vars(StoreChild(b))

FairSpec == Spec /\ Fairness

(* Every start request is answered, whatever the guest does: WaitVmReady   *)
(* is bounded and VmThread counts the latch down on each of its paths,     *)
(* unless the server has crashed.                                          *)
StartAnswered ==
  mpc \in {"build", "start_wait"} ~> mpc \in {"idle", "crashed"}

(* When qemu has ended, by itself or by a stop, its builder is destroyed   *)
(* and its cid given back, unless the server has crashed.                  *)
ExitReaped ==
  \A b \in Builders : proc[b] = "exited" ~> heap[b] = "freed" \/ mpc = "crashed"
=============================================================================

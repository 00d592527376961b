---------------------------- MODULE ProcMonitor ----------------------------
(***************************************************************************)
(* The controller (controller/procmonitor.cpp, defaultctl.cpp) and the     *)
(* processes it starts, counts and kills: proxies and workers, which it    *)
(* knows only by the heartbeats they send over one SysV message queue      *)
(* (comm/cprocmon.cpp, netcomm/cmqcommu.cpp).                              *)
(*                                                                         *)
(* Time passes in units of five seconds, the period of the heartbeat and   *)
(* of the controller's sleep.  The code compares timestamps only with now, *)
(* so the model keeps ages, capped just above what they are compared with. *)
(***************************************************************************)
EXTENDS Integers, Sequences, FiniteSets, SequencesExt

CONSTANTS
  Pids,            \* process ids; an id may be used again once forgotten
  MinProc,         \* minprocnum and maxprocnum of each group, in the order
  MaxProc,         \*   of procgroup: the proxies, the workers
  MaxQueue,        \* messages the queue holds
  HeartbeatEvery,  \* lastmontime + 5 seconds
  DeadAfter,       \* silent for more than 20 seconds
  LoopTime,        \* a process passes its loop's end this much late at most
  StartTime,       \* from fork to the loop at most
  CycleTime,       \* from one doCheck of the controller to its next at most
  FaultKinds,      \* which of the faults below may happen
  MaxFaults,       \* bound: faults
  MaxStarts        \* bound: starts of the controller

Groups == 1 .. Len(MinProc)

AllFaults == {"crash", "hang", "byHand", "quit", "ctlCrash"}

ASSUME MonitorAssumption ==
  /\ FaultKinds \subseteq AllFaults
  /\ MinProc \in Seq(Nat)
  /\ MaxProc \in Seq(Nat)
  /\ Len(MaxProc) = Len(MinProc)
  /\ \A g \in Groups : MinProc[g] <= MaxProc[g]
  /\ {MaxQueue, HeartbeatEvery, DeadAfter, LoopTime, StartTime, CycleTime,
      MaxFaults, MaxStarts} \subseteq Nat

VARIABLES
  proc,      \* what each process is, and its locals
  queue,     \* the heartbeat queue
  proclist,  \* procgroup[g].proclist: the processes heard of, in order
  events,    \* what doCheck found and doEvent has yet to do
  ctl,       \* where the controller is
  faults,    \* history: faults so far
  starts     \* history: starts of the controller so far

vars == <<proc, queue, proclist, events, ctl, faults, starts>>

(* The sockets a proxy listens on: TCP port 8881, UDP port 8882.           *)
Ports == {"tcp", "udp"}

NoProc == [st |-> "none", grp |-> 0, mq |-> FALSE, ports |-> {}, flag |-> FALSE,
           age |-> 0, missed |-> FALSE]
EmptyGroups == [g \in Groups |-> <<>>]
Stopped == [pc |-> "down", age |-> 0, n |-> 0, todo |-> <<>>, quit |-> FALSE]

Init ==
  /\ proc = [p \in Pids |-> NoProc]
  /\ queue = <<>>
  /\ proclist = EmptyGroups
  /\ events = <<>>
  /\ ctl = Stopped
  /\ faults = 0
  /\ starts = 0

Alive(p) == proc[p].st # "none"
Listed(g) == {proclist[g][i].pid : i \in DOMAIN proclist[g]}

(* Ids of no process, in no message, list or event: fork may return one.   *)
Unused ==
  {p \in Pids : /\ ~Alive(p)
                /\ \A i \in DOMAIN queue : queue[i].pid # p
                /\ \A g \in Groups : p \notin Listed(g)
                /\ \A i \in DOMAIN events : events[i].pid # p
                /\ \A i \in DOMAIN ctl.todo : ctl.todo[i] # p}

(* A process of group g is forked.                                         *)
Fork(p, g) ==
  /\ p \in Unused
  /\ proc' = [proc EXCEPT ![p] = [NoProc EXCEPT !.st = "starting", !.grp = g]]

-----------------------------------------------------------------------------
(* The processes.                                                          *)

(* The queue is opened, and created if need be.                            *)
OpenQueue(r) == [r EXCEPT !.mq = TRUE]

(* bind and listen fail while another socket listens on the port; with     *)
(* SO_REUSEADDR one that is closed does not count.                         *)
Free(port) == \A q \in Pids : port \notin proc[q].ports

(* A proxy whose bind failed goes on without the socket: nobody looks at   *)
(* what init returned.                                                     *)
Listen(r) == IF Free("tcp") THEN [r EXCEPT !.ports = @ \cup {"tcp"}] ELSE r
ListenUdp(r) == IF Free("udp") THEN [r EXCEPT !.ports = @ \cup {"udp"}] ELSE r

(* realrun up to its loop.  The first heartbeat is due at once             *)
(* (lastmontime = time(NULL) - 5).                                         *)
Enter(r) == [r EXCEPT !.st = "running", !.age = HeartbeatEvery]

StartProxy(p) ==
  /\ proc[p].grp = 1
  /\ \/ /\ proc[p].st = "starting"
        /\ proc' = [proc EXCEPT ![p] = [Listen(OpenQueue(@)) EXCEPT !.st = "binding"]]
     \/ /\ proc[p].st = "binding"
        /\ proc' = [proc EXCEPT ![p] = Enter(ListenUdp(@))]
  /\ UNCHANGED <<queue, proclist, events, ctl, faults, starts>>

StartWorker(p) ==
  /\ proc[p].grp # 1
  /\ proc[p].st = "starting"
  /\ proc' = [proc EXCEPT ![p] = Enter(OpenQueue(@))]
  /\ UNCHANGED <<queue, proclist, events, ctl, faults, starts>>

(* A heartbeat.  msgsnd with IPC_NOWAIT: it is lost when the queue is      *)
(* full, or was removed after this process opened it.                      *)
Beat(p) == [grp |-> proc[p].grp, pid |-> p, age |-> 0]
Lost(p) == ~proc[p].mq \/ Len(queue) >= MaxQueue
Sent(p) == IF Lost(p) THEN queue ELSE Append(queue, Beat(p))

(* The end of the loop of realrun: the heartbeat if it is due, and then    *)
(* the test of the flag that SIGUSR1 sets.                                 *)
Loop(p) ==
  LET due == proc[p].age >= HeartbeatEvery
  IN  /\ proc[p].st = "running"
      /\ due \/ proc[p].flag
      /\ queue' = IF due THEN Sent(p) ELSE queue
      /\ proc' = [proc EXCEPT ![p] =
                    IF proc[p].flag THEN NoProc
                    ELSE [@ EXCEPT !.age = 0, !.missed = proc[p].missed \/ Lost(p)]]
      /\ UNCHANGED <<proclist, events, ctl, faults, starts>>

Fault(kind) ==
  /\ kind \in FaultKinds
  /\ faults < MaxFaults
  /\ faults' = faults + 1

(* A process ends outside its loop.                                        *)
Crash(p) ==
  /\ Fault("crash")
  /\ Alive(p)
  /\ proc' = [proc EXCEPT ![p] = NoProc]
  /\ UNCHANGED <<queue, proclist, events, ctl, starts>>

(* A process hangs, in a call of the plugin for instance, and may go on.   *)
Hang(p) ==
  /\ Fault("hang")
  /\ proc[p].st = "running"
  /\ proc' = [proc EXCEPT ![p].st = "hung", ![p].missed = TRUE]
  /\ UNCHANGED <<queue, proclist, events, ctl, starts>>

Resume(p) ==
  /\ proc[p].st = "hung"
  /\ proc' = [proc EXCEPT ![p].st = "running"]
  /\ UNCHANGED <<queue, proclist, events, ctl, faults, starts>>

(* Somebody starts a process by hand, as in buglist/buglist.txt.           *)
StartByHand(p, g) ==
  /\ Fault("byHand")
  /\ Fork(p, g)
  /\ UNCHANGED <<queue, proclist, events, ctl, starts>>

-----------------------------------------------------------------------------
(* The controller.                                                         *)

At(pc) == ctl.pc = pc
Goto(pc) == ctl' = [ctl EXCEPT !.pc = pc]

(* initconf: the groups are empty, ipcrm removes the queue under those who *)
(* have it open (unless that command fails), and what is left in the queue *)
(* is thrown away.                                                         *)
CtlStart ==
  /\ At("down")
  /\ starts < MaxStarts
  /\ starts' = starts + 1
  /\ proclist' = EmptyGroups
  /\ events' = <<>>
  /\ queue' = <<>>
  /\ \/ proc' = [p \in Pids |-> [proc[p] EXCEPT !.mq = FALSE]]
     \/ UNCHANGED proc
  /\ ctl' = [Stopped EXCEPT !.pc = "recv"]
  /\ UNCHANGED faults

(* A heartbeat is handled: findProc, then a new timestamp or addProc.      *)
Known(m) == m.pid \in Listed(m.grp)

(* Fault: the timestamp of a process that is listed stays as it was.       *)
MutRefreshed(list, m) == list
Refreshed(list, m) ==
  [i \in DOMAIN list |->
     IF list[i].pid = m.pid THEN [list[i] EXCEPT !.age = m.age] ELSE list[i]]

(* addProc adds at the end of the list.                                    *)
CProc(procid, timestamp) == [pid |-> procid, age |-> timestamp]
Added(list, m) == Append(list, CProc(m.pid, m.age))

(* Fault: every heartbeat is added to the list.                            *)
MutHeard(m) == proclist' = [proclist EXCEPT ![m.grp] = Added(@, m)]

Heard(m) ==
  proclist' =
    [proclist EXCEPT ![m.grp] = IF Known(m) THEN Refreshed(@, m) ELSE Added(@, m)]

(* Those of a list that are to be kept, in their order.                    *)
Only(list, keep) ==
  FlattenSeq([i \in DOMAIN list |->
                IF list[i] \in keep THEN <<list[i]>> ELSE <<>>])

(* delProc removes every entry of the process.                             *)
Forget(g, p) == Only(proclist[g], {e \in ToSet(proclist[g]) : e.pid # p})

(* doRecv(0) takes the messages in order until there is none.              *)
CtlRecv ==
  /\ At("recv")
  /\ IF queue = <<>>
     THEN Goto("check") /\ UNCHANGED <<queue, proclist>>
     ELSE /\ Heard(Head(queue))
          /\ queue' = Tail(queue)
          /\ UNCHANGED ctl
  /\ UNCHANGED <<proc, events, faults, starts>>

(* doCheck: too few or too many of a group, then each one that is silent.  *)
Event(kind, g, p) == [kind |-> kind, grp |-> g, pid |-> p]

Found(g) ==
  LET list == proclist[g]
      silent == Only(list, {e \in ToSet(list) : e.age > DeadAfter})
  IN  (IF Len(list) < MinProc[g] THEN <<Event("down", g, 0)>>
       ELSE IF Len(list) > MaxProc[g] THEN <<Event("up", g, 0)>> ELSE <<>>)
      \o [i \in DOMAIN silent |-> Event("dead", g, silent[i].pid)]

CtlCheck ==
  /\ At("check")
  /\ events' = FlattenSeq([g \in Groups |-> Found(g)])
  /\ Goto("event")
  /\ UNCHANGED <<proc, queue, proclist, faults, starts>>

(* doEvent.  An event is dropped from events when all of it is done.       *)
Is(kind) == At("event") /\ events # <<>> /\ Head(events).kind = kind
Done == events' = Tail(events)

(* PROCDOWN: as many as are missing by now are started, one after another. *)
CtlDown ==
  LET g == Head(events).grp
  IN  /\ Is("down")
      /\ ctl' = [ctl EXCEPT !.pc = "spawn", !.n = MinProc[g] - Len(proclist[g])]
      /\ UNCHANGED <<proc, queue, proclist, events, faults, starts>>

CtlSpawn(p) ==
  /\ At("spawn")
  /\ ctl.n > 0
  /\ Fork(p, Head(events).grp)
  /\ ctl' = [ctl EXCEPT !.n = @ - 1]
  /\ UNCHANGED <<queue, proclist, events, faults, starts>>

CtlSpawned ==
  /\ At("spawn")
  /\ ctl.n <= 0
  /\ Done
  /\ Goto("event")
  /\ UNCHANGED <<proc, queue, proclist, faults, starts>>

(* PROCUP: those after the first maxprocnum of the list are to go.         *)
CtlUp ==
  LET g == Head(events).grp
      list == proclist[g]
  IN  /\ Is("up")
      /\ ctl' = [ctl EXCEPT !.pc = "kill",
                   !.todo = [i \in 1 .. Len(list) - MaxProc[g] |->
                               list[MaxProc[g] + i].pid]]
      /\ UNCHANGED <<proc, queue, proclist, events, faults, starts>>

(* kill(SIGUSR1) and delProc.                                              *)
CtlKill ==
  LET p == Head(ctl.todo)
      g == Head(events).grp
  IN  /\ At("kill")
      /\ ctl.todo # <<>>
      /\ proc' = [proc EXCEPT ![p].flag = Alive(p)]
      /\ proclist' = [proclist EXCEPT ![g] = Forget(g, p)]
      /\ Goto("reap")
      /\ UNCHANGED <<queue, events, faults, starts>>

CtlKilled ==
  /\ At("kill")
  /\ ctl.todo = <<>>
  /\ Done
  /\ Goto("event")
  /\ UNCHANGED <<proc, queue, proclist, faults, starts>>

(* doRecv(procid) takes the first message of that process.                 *)
FromQueue(p) == {i \in DOMAIN queue : queue[i].pid = p}
TakeFrom(p) ==
  LET i == CHOOSE j \in FromQueue(p) : \A k \in FromQueue(p) : j <= k
  IN  Heard(queue[i]) /\ queue' = RemoveAt(queue, i)

(* After a usleep, doRecv(procid): a heartbeat of the process just deleted *)
(* adds it to the list again.                                              *)
CtlReap ==
  LET p == Head(ctl.todo)
  IN  /\ At("reap")
      /\ IF FromQueue(p) # {}
         THEN TakeFrom(p) /\ UNCHANGED ctl
         ELSE /\ ctl' = [ctl EXCEPT !.pc = "kill", !.todo = Tail(@)]
              /\ UNCHANGED <<queue, proclist>>
      /\ UNCHANGED <<proc, events, faults, starts>>

(* PROCDEAD: kill(SIGKILL), then doRecv(procid), then delProc.             *)
CtlDead ==
  LET p == Head(events).pid
  IN  /\ Is("dead")
      /\ proc' = [proc EXCEPT ![p] = NoProc]
      /\ Goto("bury")
      /\ UNCHANGED <<queue, proclist, events, faults, starts>>

(* Fault: the dead process is not deleted from the list.                   *)
MutBury ==
  LET p == Head(events).pid
  IN  /\ At("bury")
      /\ IF FromQueue(p) # {}
         THEN TakeFrom(p) /\ UNCHANGED <<events, ctl>>
         ELSE Done /\ Goto("event") /\ UNCHANGED <<queue, proclist>>
      /\ UNCHANGED <<proc, faults, starts>>

CtlBury ==
  LET p == Head(events).pid
      g == Head(events).grp
  IN  /\ At("bury")
      /\ IF FromQueue(p) # {}
         THEN TakeFrom(p) /\ UNCHANGED <<events, ctl>>
         ELSE /\ proclist' = [proclist EXCEPT ![g] = Forget(g, p)]
              /\ Done
              /\ Goto("event")
              /\ UNCHANGED queue
      /\ UNCHANGED <<proc, faults, starts>>

(* run returns; sleep(5).                                                  *)
CtlSleep ==
  /\ At("event")
  /\ events = <<>>
  /\ ctl' = [ctl EXCEPT !.pc = "sleep", !.age = 0]
  /\ UNCHANGED <<proc, queue, proclist, events, faults, starts>>

(* killallproc: everybody on the lists is told to quit.                    *)
KillAll ==
  proc' = [p \in Pids |->
             IF Alive(p) /\ \E g \in Groups : p \in Listed(g)
             THEN [proc[p] EXCEPT !.flag = TRUE] ELSE proc[p]]

(* The sleep ends, early if a signal came; killallproc if it was SIGUSR1.  *)
CtlWake ==
  /\ At("sleep")
  /\ ctl.age >= 1 \/ ctl.quit
  /\ IF ctl.quit
     THEN KillAll /\ ctl' = Stopped
     ELSE UNCHANGED proc /\ Goto("recv")
  /\ UNCHANGED <<queue, proclist, events, faults, starts>>

(* stop.sh sends SIGUSR1 to the controller; or it is killed.               *)
CtlQuit ==
  /\ Fault("quit")
  /\ ~At("down")
  /\ ctl' = [ctl EXCEPT !.quit = TRUE]
  /\ UNCHANGED <<proc, queue, proclist, events, starts>>

CtlCrash ==
  /\ Fault("ctlCrash")
  /\ ~At("down")
  /\ ctl' = Stopped
  /\ UNCHANGED <<proc, queue, proclist, events, starts>>

-----------------------------------------------------------------------------
(* Five seconds pass, unless that makes a process that is neither hung nor *)
(* dead, or the controller, later than its loop allows.                    *)
Older(age, cap) == IF age < cap THEN age + 1 ELSE cap

Tick ==
  /\ \A p \in Pids :
       /\ proc[p].st = "running" => proc[p].age < HeartbeatEvery + LoopTime
       /\ proc[p].st \in {"starting", "binding"} => proc[p].age < StartTime
  /\ ~At("down") => ctl.age < CycleTime
  /\ proc' = [p \in Pids |->
       IF Alive(p)
       THEN [proc[p] EXCEPT !.age = Older(@, HeartbeatEvery + LoopTime)]
       ELSE proc[p]]
  /\ queue' = [i \in DOMAIN queue |->
       [queue[i] EXCEPT !.age = Older(@, DeadAfter + 1)]]
  /\ proclist' = [g \in Groups |-> [i \in DOMAIN proclist[g] |->
       [proclist[g][i] EXCEPT !.age = Older(@, DeadAfter + 1)]]]
  /\ ctl' = [ctl EXCEPT !.age = IF At("down") THEN 0 ELSE @ + 1]
  /\ UNCHANGED <<events, faults, starts>>

Controller ==
  \/ CtlStart \/ CtlRecv \/ CtlCheck
  \/ CtlDown \/ CtlSpawned \/ \E p \in Pids : CtlSpawn(p)
  \/ CtlUp \/ CtlKill \/ CtlKilled \/ CtlReap
  \/ CtlDead \/ CtlBury \/ CtlSleep \/ CtlWake

Process(p) == StartProxy(p) \/ StartWorker(p) \/ Loop(p)

Environment ==
  \/ CtlQuit \/ CtlCrash
  \/ \E p \in Pids : \/ Crash(p) \/ Hang(p) \/ Resume(p)
                     \/ \E g \in Groups : StartByHand(p, g)

Next ==
  \/ Tick
  \/ Controller
  \/ \E p \in Pids : Process(p)
  \/ Environment

Spec == Init /\ [][Next]_vars

(* The loops go on and time passes; a hung process need not resume.        *)
Fairness == /\ WF_vars(Tick)
            /\ WF_vars(Controller)
            /\ \A p \in Pids : WF_vars(Process(p))

FairSpec == Spec /\ Fairness

-----------------------------------------------------------------------------
(* Properties.                                                             *)

Procs == [st : {"none", "starting", "binding", "running", "hung"},
          grp : {0} \cup Groups, mq : BOOLEAN, ports : SUBSET Ports,
          flag : BOOLEAN, age : 0 .. HeartbeatEvery + LoopTime, missed : BOOLEAN]
Beats == [grp : Groups, pid : Pids, age : 0 .. DeadAfter + 1]
Entry == [pid : Pids, age : 0 .. DeadAfter + 1]
Events == [kind : {"down", "up", "dead"}, grp : Groups, pid : {0} \cup Pids]
Controllers == [pc : {"down", "recv", "check", "event", "spawn", "kill", "reap",
                      "bury", "sleep"},
                age : Nat, n : Int, todo : Seq(Pids), quit : BOOLEAN]

(* Every variable has its type; a process is listed once and in its group. *)
TypeOK ==
  /\ proc \in [Pids -> Procs]
  /\ queue \in Seq(Beats) /\ Len(queue) <= MaxQueue
  /\ proclist \in [Groups -> Seq(Entry)]
  /\ \A g \in Groups : IsInjective([i \in DOMAIN proclist[g] |-> proclist[g][i].pid])
  /\ \A g \in Groups : \A p \in Listed(g) : Alive(p) => proc[p].grp = g
  /\ events \in Seq(Events)
  /\ ctl \in Controllers
  /\ faults \in 0 .. MaxFaults
  /\ starts \in 0 .. MaxStarts

(* SIGKILL falls only on a process that hung or whose heartbeat was lost:  *)
(* the others reach the list soon enough, whatever the order of loops,     *)
(* messages and checks (procmonitor.cpp:207, defaultctl.cpp:26,            *)
(* defaultproxy.cpp:63).                                                   *)
OnlySilentKilled ==
  [][\A p \in Pids :
       At("event") /\ ctl'.pc = "bury" /\ p = Head(events).pid
         => proc[p].missed \/ ~Alive(p)]_vars

(* A crash, a hang or a start by hand is made good: with a controller that *)
(* stays up, every group comes to have as many processes as it should, and *)
(* the controller's list to be the processes that run (README.md:6).  Not  *)
(* so with a process that opened a queue the controller then removed.      *)
Settled(g) ==
  LET up == {p \in Pids : proc[p].st = "running" /\ proc[p].grp = g}
  IN  /\ Cardinality(up) \in MinProc[g] .. MaxProc[g]
      /\ Listed(g) = up
NoOrphan == \A p \in Pids : proc[p].st \in {"running", "hung"} => proc[p].mq
Converges ==
  <>[]~At("down") /\ []NoOrphan => <>[](\A g \in Groups : Settled(g))

(* A proxy too many is told to quit only if it is not the one that listens *)
(* (buglist/buglist.txt:5-10: the new one has a bind error, and the one    *)
(* that is usable is to be kept).                                          *)
UsableKept ==
  [][At("kill") /\ ctl'.pc = "reap" => proc[Head(ctl.todo)].ports = {}]_vars
=============================================================================

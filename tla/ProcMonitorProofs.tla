------------------------- MODULE ProcMonitorProofs -------------------------
(* Of the controller and its processes, for any number of ids, groups and  *)
(* messages in the queue and any timing: types, and, if the controller     *)
(* waits long enough for a heartbeat, that it kills only who was silent.   *)
EXTENDS ProcMonitor, Lemmas, SequenceTheorems

LEMMA Selected ==
  ASSUME NEW T, NEW list \in Seq(T), NEW keep
  PROVE  /\ Only(list, keep) \in Seq(T)
         /\ ToSet(Only(list, keep)) = ToSet(list) \cap keep
         /\ Once(list) => Once(Only(list, keep))
<1> DEFINE s == [i \in DOMAIN list |-> IF list[i] \in keep THEN <<list[i]>> ELSE <<>>]
<1>1. /\ \A x \in T : <<x>> \in Seq(T) /\ ToSet(<<x>>) = {x} /\ Once(<<x>>)
      /\ <<>> \in Seq(T) /\ ToSet(<<>>) = {} /\ Once(<<>>)
  <2>1. ASSUME NEW x \in T PROVE <<x>> \in Seq(T) /\ DOMAIN <<x>> = {1} /\ <<x>>[1] = x
    OBVIOUS
  <2> QED
    BY <2>1 DEF ToSet, Once
<1>2. /\ DOMAIN s = DOMAIN list
      /\ \A i \in DOMAIN list : list[i] \in T
      /\ \A i \in DOMAIN list : list[i] \in keep => s[i] = <<list[i]>>
      /\ \A i \in DOMAIN list : list[i] \notin keep => s[i] = <<>>
  OBVIOUS
<1>3. s \in Seq(Seq(T))
  <2>1. /\ DOMAIN list = 1 .. Len(list) /\ Len(list) \in Nat
        /\ \A i \in DOMAIN list : s[i] \in Seq(T)
    BY <1>1, <1>2
  <2> QED
    BY <2>1
<1>4. Only(list, keep) = FlattenSeq(s)
  BY DEF Only
<1> HIDE DEF s
<1>10. ASSUME NEW i \in DOMAIN s
       PROVE  Once(s[i]) /\ \A x : x \in ToSet(s[i]) <=> x = list[i] /\ x \in keep
  <2>1. list[i] \in T
    BY <1>2
  <2>2. CASE list[i] \in keep
    <3>1. ToSet(<<list[i]>>) = {list[i]} /\ Once(<<list[i]>>)
      BY <1>1, <2>1
    <3>2. s[i] = <<list[i]>>
      BY <1>2, <1>10, <2>2, Zenon
    <3> QED
      BY <2>2, <3>1, <3>2
  <2>3. CASE list[i] \notin keep
    <3>1. s[i] = <<>>
      BY <1>2, <1>10, <2>3, Zenon
    <3> QED
      BY <1>1, <2>3, <3>1
  <2> QED
    BY <2>2, <2>3
<1>5. \A i \in DOMAIN s : Once(s[i])
  BY <1>10
<1>6. \A i \in DOMAIN s : \A x : x \in ToSet(s[i]) <=> x = list[i] /\ x \in keep
  BY <1>10
<1>7. Once(list) =>
        \A i, j \in DOMAIN s : i # j => ToSet(s[i]) \cap ToSet(s[j]) = {}
  BY <1>2, <1>6 DEF Once
<1>8. /\ FlattenSeq(s) \in Seq(T)
      /\ \A x : x \in ToSet(FlattenSeq(s)) <=> \E i \in DOMAIN s : x \in ToSet(s[i])
      /\ Once(list) => Once(FlattenSeq(s))
  BY <1>3, <1>5, <1>7, Flattened
<1>9. \A x : x \in ToSet(list) <=> \E i \in DOMAIN list : x = list[i]
  BY DEF ToSet
<1> QED
  BY <1>2, <1>4, <1>6, <1>8, <1>9

-----------------------------------------------------------------------------
(* The inductive invariant: types, where a process has left traces, and    *)
(* where the controller is.                                                *)
Early == {"starting", "binding"}
Mail(p) == {queue[i].grp : i \in FromQueue(p)}
Traces(p) == Mail(p) \cup {g \in Groups : p \in Listed(g)}

(* A process is heard of under its own group, once it runs.                *)
Owned ==
  \A p \in Pids : /\ Alive(p) => proc[p].grp \in Groups
                  /\ Alive(p) => Traces(p) \subseteq {proc[p].grp}
                  /\ proc[p].st \in Early => Traces(p) = {}
HungMissed == \A p \in Pids : proc[p].st = "hung" => proc[p].missed
Distinct(list) == \A i, j \in DOMAIN list : list[i].pid = list[j].pid => i = j
Lists ==
  /\ proclist \in [Groups -> Seq(Entry)]
  /\ \A g \in Groups : Distinct(proclist[g])
Queue == queue \in Seq(Beats) /\ Len(queue) <= MaxQueue
Control ==
  /\ ctl \in Controllers /\ ctl.age <= CycleTime
  /\ events \in Seq(Events)
  /\ ctl.pc \in {"spawn", "kill", "reap", "bury"} => events # <<>>
  /\ ctl.pc = "bury" => Head(events).kind = "dead"
  /\ ctl.pc = "reap" => ctl.todo # <<>>
Counts == faults \in 0 .. MaxFaults /\ starts \in 0 .. MaxStarts

MonitorInv ==
  /\ proc \in [Pids -> Procs] /\ Owned /\ HungMissed
  /\ Queue /\ Lists /\ Control /\ Counts

LEMMA Sizes ==
  /\ Len(MinProc) \in Nat
  /\ \A g \in Groups : MinProc[g] \in Nat /\ MaxProc[g] \in Nat
  /\ MaxQueue \in Nat /\ HeartbeatEvery \in Nat /\ DeadAfter \in Nat
  /\ LoopTime \in Nat /\ StartTime \in Nat /\ CycleTime \in Nat
  /\ MaxFaults \in Nat /\ MaxStarts \in Nat
<1>1. \A g \in Groups : g \in 1 .. Len(MinProc) /\ g \in 1 .. Len(MaxProc)
  BY MonitorAssumption DEF Groups
<1> QED
  BY <1>1, MonitorAssumption, SMTT(20)

-----------------------------------------------------------------------------
(* The lists.                                                              *)
Entries(g) == ToSet(proclist[g])

LEMMA EntryType ==
  ASSUME Lists, NEW g \in Groups
  PROVE  /\ proclist[g] \in Seq(Entry) /\ Distinct(proclist[g])
         /\ Entries(g) \subseteq Entry
         /\ \A p : p \in Listed(g) <=> \E e \in Entries(g) : e.pid = p
         /\ Listed(g) \subseteq Pids
<1>1. proclist[g] \in Seq(Entry) /\ Distinct(proclist[g])
  BY DEF Lists
<1>2. \A p : p \in Listed(g) <=> \E e \in Entries(g) : e.pid = p
  BY DEF Listed, Entries, ToSet
<1>3. Entries(g) \subseteq Entry
  BY <1>1 DEF Entries, ToSet
<1> QED
  BY <1>1, <1>2, <1>3 DEF Entry

LEMMA MonitorInvTypes == MonitorInv => TypeOK
<1> SUFFICES ASSUME MonitorInv PROVE TypeOK
  OBVIOUS
<1>1. ASSUME NEW g \in Groups
      PROVE  IsInjective([i \in DOMAIN proclist[g] |-> proclist[g][i].pid])
  <2>1. Distinct(proclist[g])
    BY DEF MonitorInv, Lists
  <2> QED
    BY <2>1 DEF Distinct, IsInjective
<1>2. ASSUME NEW g \in Groups, NEW p \in Listed(g), Alive(p)
      PROVE  proc[p].grp = g
  <2>1. p \in Pids
    BY EntryType DEF MonitorInv
  <2>2. g \in Traces(p)
    BY DEF Traces
  <2>3. Traces(p) \subseteq {proc[p].grp}
    BY <1>2, <2>1 DEF MonitorInv, Owned
  <2> QED
    BY <2>2, <2>3
<1> QED
  BY <1>1, <1>2 DEF MonitorInv, TypeOK, Queue, Lists, Control, Counts

LEMMA RefreshedRight ==
  ASSUME NEW list \in Seq(Entry), Distinct(list), NEW m \in Beats,
         \E e \in ToSet(list) : e.pid = m.pid
  PROVE  /\ Refreshed(list, m) \in Seq(Entry) /\ Distinct(Refreshed(list, m))
         /\ \A e : e \in ToSet(Refreshed(list, m)) <=>
                     \/ e = CProc(m.pid, m.age)
                     \/ e \in ToSet(list) /\ e.pid # m.pid
<1> DEFINE new == Refreshed(list, m)
           e0 == CProc(m.pid, m.age)
<1>0. e0 \in Entry /\ e0.pid = m.pid
  BY DEF CProc, Entry, Beats
<1>1. ASSUME NEW i \in DOMAIN list
      PROVE  /\ list[i] \in Entry
             /\ list[i].pid = m.pid => new[i] = e0
             /\ list[i].pid # m.pid => new[i] = list[i]
  <2>1. list[i] \in Entry
    OBVIOUS
  <2>2. list[i].pid = m.pid => [list[i] EXCEPT !.age = m.age] = e0
    BY <2>1 DEF Entry, CProc
  <2> QED
    BY <2>1, <2>2 DEF Refreshed
<1>2. DOMAIN new = DOMAIN list
  BY DEF Refreshed
<1>3. DOMAIN list = 1 .. Len(list) /\ Len(list) \in Nat
  OBVIOUS
<1> HIDE DEF new, e0
<1>4. \A i \in DOMAIN list : new[i] \in Entry /\ new[i].pid = list[i].pid
  BY <1>0, <1>1
<1>5. new \in Seq(Entry)
  <2>1. new = [i \in 1 .. Len(list) |-> new[i]]
    BY <1>2, <1>3 DEF new, Refreshed
  <2> QED
    BY <1>3, <1>4, <2>1
<1>6. Distinct(new)
  BY <1>2, <1>4 DEF Distinct
<1>7. PICK k \in DOMAIN list : list[k].pid = m.pid
  BY DEF ToSet
<1>8. \A e : e \in ToSet(new) <=> \E i \in DOMAIN list : e = new[i]
  BY <1>2 DEF ToSet
<1>9. \A e : e \in ToSet(list) <=> \E i \in DOMAIN list : e = list[i]
  BY DEF ToSet
<1>10. ASSUME NEW e
       PROVE  e \in ToSet(new) <=> e = e0 \/ (e \in ToSet(list) /\ e.pid # m.pid)
  <2>1. ASSUME NEW i \in DOMAIN list, e = new[i]
        PROVE  e = e0 \/ (e \in ToSet(list) /\ e.pid # m.pid)
    BY <1>1, <1>9, <2>1
  <2>2. e = e0 => e = new[k]
    BY <1>1, <1>7
  <2>3. ASSUME NEW i \in DOMAIN list, e = list[i], e.pid # m.pid PROVE e = new[i]
    BY <1>1, <2>3
  <2>4. e \in ToSet(new) => e = e0 \/ (e \in ToSet(list) /\ e.pid # m.pid)
    BY <1>8, <2>1
  <2>5. e = e0 => e \in ToSet(new)
    BY <1>7, <1>8, <2>2
  <2>6. e \in ToSet(list) /\ e.pid # m.pid => e \in ToSet(new)
    BY <1>8, <1>9, <2>3
  <2> QED
    BY <2>4, <2>5, <2>6
<1> QED
  BY <1>5, <1>6, <1>10, Zenon DEF new, e0

LEMMA AddedRight ==
  ASSUME NEW list \in Seq(Entry), Distinct(list), NEW m \in Beats,
         ~ \E e \in ToSet(list) : e.pid = m.pid
  PROVE  /\ Added(list, m) \in Seq(Entry) /\ Distinct(Added(list, m))
         /\ \A e : e \in ToSet(Added(list, m)) <=>
                     \/ e = CProc(m.pid, m.age)
                     \/ e \in ToSet(list) /\ e.pid # m.pid
<1> DEFINE e0 == CProc(m.pid, m.age)
           n == Len(list)
           new == Append(list, e0)
<1>0. e0 \in Entry /\ e0.pid = m.pid
  BY DEF CProc, Entry, Beats
<1>1. Added(list, m) = new
  BY DEF Added
<1> HIDE DEF e0
<1>2. /\ n \in Nat /\ DOMAIN list = 1 .. n
      /\ new \in Seq(Entry) /\ DOMAIN new = 1 .. n + 1
      /\ new[n + 1] = e0 /\ \A i \in 1 .. n : new[i] = list[i]
  BY <1>0
<1> HIDE DEF new, n
<1>3. \A i \in 1 .. n + 1 : i \in 1 .. n \/ i = n + 1
  BY <1>2
<1>4. 1 .. n \subseteq 1 .. n + 1 /\ n + 1 \in 1 .. n + 1
  BY <1>2
<1>5. \A i \in 1 .. n : list[i].pid # m.pid
  BY <1>2 DEF ToSet
<1>6. Distinct(new)
  <2> SUFFICES ASSUME NEW i \in 1 .. n + 1, NEW j \in 1 .. n + 1,
                      new[i].pid = new[j].pid
               PROVE  i = j
    BY <1>2 DEF Distinct
  <2>1. CASE i \in 1 .. n /\ j \in 1 .. n
    BY <1>2, <2>1 DEF Distinct
  <2> QED
    BY <1>0, <1>2, <1>3, <1>5, <2>1
<1>7. \A e : e \in ToSet(new) <=> \E i \in 1 .. n + 1 : e = new[i]
  BY <1>2 DEF ToSet
<1>8. \A e : e \in ToSet(list) <=> \E i \in 1 .. n : e = list[i]
  BY <1>2 DEF ToSet
<1>9. \A e : e \in ToSet(new) <=> e = e0 \/ (e \in ToSet(list) /\ e.pid # m.pid)
  BY <1>2, <1>3, <1>4, <1>5, <1>7, <1>8
<1> QED
  BY <1>1, <1>2, <1>6, <1>9 DEF e0

(* A heartbeat is entered in its group, in place of what was known before. *)
LEMMA HeardRight ==
  ASSUME Lists, NEW m \in Beats, Heard(m)
  PROVE  /\ Lists'
         /\ \A g \in Groups : g # m.grp => proclist'[g] = proclist[g]
         /\ \A e : e \in Entries(m.grp)' <=> \/ e = CProc(m.pid, m.age)
                                             \/ e \in Entries(m.grp) /\ e.pid # m.pid
         /\ CProc(m.pid, m.age) \in Entry /\ m.grp \in Groups /\ m.pid \in Pids
<1> DEFINE g == m.grp
           list == proclist[g]
           new == IF Known(m) THEN Refreshed(list, m) ELSE Added(list, m)
<1>1. g \in Groups /\ m.pid \in Pids /\ CProc(m.pid, m.age) \in Entry
  BY DEF Beats, CProc, Entry
<1>2. /\ list \in Seq(Entry) /\ Distinct(list)
      /\ Known(m) <=> \E e \in ToSet(list) : e.pid = m.pid
  BY <1>1, EntryType DEF Known, Entries
<1>3. /\ new \in Seq(Entry) /\ Distinct(new)
      /\ \A e : e \in ToSet(new) <=> \/ e = CProc(m.pid, m.age)
                                     \/ e \in ToSet(list) /\ e.pid # m.pid
  <2>1. CASE Known(m)
    BY <1>2, <2>1, RefreshedRight
  <2>2. CASE ~Known(m)
    BY <1>2, <2>2, AddedRight
  <2> QED
    BY <2>1, <2>2
<1>4. proclist' = [proclist EXCEPT ![g] = new]
  BY DEF Heard
<1> HIDE DEF new
<1>5. /\ proclist' \in [Groups -> Seq(Entry)] /\ proclist'[g] = new
      /\ \A h \in Groups : h # g => proclist'[h] = proclist[h]
  BY <1>1, <1>3, <1>4 DEF Lists
<1>6. Lists'
  BY <1>3, <1>5 DEF Lists
<1> QED
  BY <1>1, <1>3, <1>5, <1>6 DEF Entries

(* A process is removed from the list of a group.                          *)
LEMMA ForgetRight ==
  ASSUME Lists, NEW g \in Groups, NEW p,
         proclist' = [proclist EXCEPT ![g] = Forget(g, p)]
  PROVE  /\ Lists'
         /\ \A h \in Groups : h # g => proclist'[h] = proclist[h]
         /\ \A e : e \in Entries(g)' <=> e \in Entries(g) /\ e.pid # p
<1> DEFINE list == proclist[g]
           keep == {e \in ToSet(list) : e.pid # p}
           new == Only(list, keep)
<1>1. list \in Seq(Entry) /\ Distinct(list)
  BY EntryType
<1>2. Once(list)
  BY <1>1 DEF Distinct, Once
<1>3. new \in Seq(Entry) /\ ToSet(new) = ToSet(list) \cap keep /\ Once(new)
  BY <1>1, <1>2, Selected
<1>4. proclist' = [proclist EXCEPT ![g] = new]
  BY DEF Forget
<1> HIDE DEF new
<1>5. Distinct(new)
  <2> SUFFICES ASSUME NEW i \in DOMAIN new, NEW j \in DOMAIN new,
                      new[i].pid = new[j].pid
               PROVE  i = j
    BY DEF Distinct
  <2>1. new[i] \in ToSet(list) /\ new[j] \in ToSet(list)
    BY <1>3 DEF ToSet
  <2>2. new[i] = new[j]
    BY <1>1, <2>1 DEF ToSet, Distinct
  <2> QED
    BY <1>3, <2>2 DEF Once
<1>6. /\ proclist' \in [Groups -> Seq(Entry)] /\ proclist'[g] = new
      /\ \A h \in Groups : h # g => proclist'[h] = proclist[h]
  BY <1>3, <1>4 DEF Lists
<1>7. Lists'
  BY <1>5, <1>6 DEF Lists
<1> QED
  BY <1>3, <1>6, <1>7 DEF Entries

-----------------------------------------------------------------------------
(* What a step does to a process: a new one is of an id that was unused;   *)
(* another stays in its group, and what it missed it has missed.           *)
Sound(p) == proc[p].st = "running" /\ ~proc[p].missed
Born(p) ==
  /\ p \in Unused
  /\ proc'[p].st = "starting" /\ proc'[p].grp \in Groups
Goes(p) ==
  /\ Alive(p)
  /\ proc'[p].grp = proc[p].grp
  /\ proc[p].missed => proc'[p].missed
  /\ proc'[p].st = "hung" => proc'[p].missed
  /\ proc'[p].st \in Early => proc[p].st \in Early
Lives(p) == Alive(p)' => Born(p) \/ Goes(p)
(* Nor does it grow older or send a heartbeat.                             *)
Steady(p) ==
  Sound(p)' => proc[p].st \in Early \/ (Sound(p) /\ proc'[p].age = proc[p].age)
Living == proc' \in [Pids -> Procs] /\ \A p \in Pids : Lives(p) /\ Steady(p)

LEMMA NoProcType == NoProc \in Procs /\ NoProc.st = "none" /\ NoProc.missed = FALSE
BY Sizes DEF NoProc, Procs

(* A step that changes one process only.                                   *)
LEMMA OneLives ==
  ASSUME proc \in [Pids -> Procs], HungMissed, NEW p \in Pids, NEW r \in Procs,
         proc' = [proc EXCEPT ![p] = r],
         Lives(p), Steady(p)
  PROVE  Living
<1>1. proc' \in [Pids -> Procs]
  OBVIOUS
<1>2. ASSUME NEW q \in Pids, q # p PROVE Lives(q) /\ Steady(q)
  <2>1. proc'[q] = proc[q]
    BY <1>2
  <2>2. proc[q].st = "hung" => proc[q].missed
    BY DEF HungMissed
  <2> QED
    BY <2>1, <2>2 DEF Lives, Goes, Steady, Sound, Alive
<1> QED
  BY <1>1, <1>2 DEF Living

LEMMA SameLives ==
  ASSUME proc \in [Pids -> Procs], HungMissed, UNCHANGED proc
  PROVE  Living
<1> SUFFICES ASSUME NEW p \in Pids PROVE Lives(p) /\ Steady(p)
  BY DEF Living
<1>1. proc[p].st = "hung" => proc[p].missed
  BY DEF HungMissed
<1> QED
  BY <1>1 DEF Lives, Goes, Steady, Sound, Alive

LEMMA EndLives ==
  ASSUME proc \in [Pids -> Procs], HungMissed, NEW p \in Pids,
         proc' = [proc EXCEPT ![p] = NoProc]
  PROVE  Living
<1>1. proc'[p] = NoProc
  OBVIOUS
<1>2. Lives(p) /\ Steady(p)
  BY <1>1, NoProcType DEF Lives, Steady, Sound, Alive
<1> QED
  BY <1>2, NoProcType, OneLives

LEMMA ForkLives ==
  ASSUME proc \in [Pids -> Procs], HungMissed, NEW p \in Pids, NEW g \in Groups,
         Fork(p, g)
  PROVE  Living
<1> DEFINE r == [NoProc EXCEPT !.st = "starting", !.grp = g]
<1>1. r \in Procs /\ r.st = "starting" /\ r.grp = g
  BY NoProcType DEF Procs
<1>2. proc' = [proc EXCEPT ![p] = r] /\ p \in Unused
  BY DEF Fork
<1> HIDE DEF r
<1>3. proc'[p] = r
  BY <1>2
<1>4. Lives(p) /\ Steady(p)
  BY <1>1, <1>2, <1>3 DEF Lives, Born, Steady, Sound, Alive
<1> QED
  BY <1>1, <1>2, <1>4, OneLives

(* A process before its loop: only st, mq, ports and age change.           *)
LEMMA StartLives ==
  ASSUME proc \in [Pids -> Procs], HungMissed, NEW p \in Pids, NEW r \in Procs,
         proc' = [proc EXCEPT ![p] = r], proc[p].st \in Early,
         r.st \in {"binding", "running"}, r.grp = proc[p].grp,
         r.missed = proc[p].missed
  PROVE  Living
<1>1. proc'[p] = r
  OBVIOUS
<1>2. Lives(p) /\ Steady(p)
  BY <1>1 DEF Lives, Goes, Steady, Sound, Alive, Early
<1> QED
  BY <1>2, OneLives

LEMMA EnterRight ==
  ASSUME NEW c \in Procs
  PROVE  /\ Enter(c) \in Procs /\ Enter(c).st = "running"
         /\ Enter(c).grp = c.grp /\ Enter(c).missed = c.missed
<1>1. HeartbeatEvery \in 0 .. HeartbeatEvery + LoopTime
  BY Sizes
<1> QED
  BY <1>1 DEF Enter, Procs

LEMMA StartProxyLives ==
  ASSUME proc \in [Pids -> Procs], HungMissed, NEW p \in Pids, StartProxy(p)
  PROVE  Living
<1> DEFINE old == proc[p]
           a == [Listen(OpenQueue(old)) EXCEPT !.st = "binding"]
           b == Enter(ListenUdp(old))
<1>1. old \in Procs
  OBVIOUS
<1> HIDE DEF old
<1>2. /\ a \in Procs /\ a.st = "binding" /\ a.grp = old.grp /\ a.missed = old.missed
  <2>1. OpenQueue(old) \in Procs /\ OpenQueue(old).grp = old.grp
        /\ OpenQueue(old).missed = old.missed
    BY <1>1 DEF OpenQueue, Procs
  <2> DEFINE c == OpenQueue(old)
  <2> HIDE DEF c
  <2>2. ASSUME c \in Procs
        PROVE  Listen(c) \in Procs /\ Listen(c).grp = c.grp
               /\ Listen(c).missed = c.missed
    BY <2>2 DEF Listen, Procs, Ports
  <2> DEFINE d == Listen(c)
  <2> HIDE DEF d
  <2>3. ASSUME d \in Procs
        PROVE  LET e == [d EXCEPT !.st = "binding"]
               IN  e \in Procs /\ e.st = "binding" /\ e.grp = d.grp
                   /\ e.missed = d.missed
    BY <2>3 DEF Procs
  <2> QED
    BY <2>1, <2>2, <2>3 DEF c, d
<1>3. b \in Procs /\ b.st = "running" /\ b.grp = old.grp /\ b.missed = old.missed
  <2>1. ListenUdp(old) \in Procs /\ ListenUdp(old).grp = old.grp
        /\ ListenUdp(old).missed = old.missed
    BY <1>1 DEF ListenUdp, Procs, Ports
  <2> DEFINE c == ListenUdp(old)
  <2> HIDE DEF c
  <2> QED
    BY <2>1, EnterRight DEF c
<1> HIDE DEF a, b
<1>4. \/ proc' = [proc EXCEPT ![p] = a] /\ proc[p].st = "starting"
      \/ proc' = [proc EXCEPT ![p] = b] /\ proc[p].st = "binding"
  BY DEF StartProxy, a, b, old
<1>5. ASSUME proc' = [proc EXCEPT ![p] = a], proc[p].st = "starting"
      PROVE  Living
  BY <1>2, <1>5, StartLives DEF old, Early
<1>6. ASSUME proc' = [proc EXCEPT ![p] = b], proc[p].st = "binding"
      PROVE  Living
  BY <1>3, <1>6, StartLives DEF old, Early
<1> QED
  BY <1>4, <1>5, <1>6

LEMMA StartWorkerLives ==
  ASSUME proc \in [Pids -> Procs], HungMissed, NEW p \in Pids, StartWorker(p)
  PROVE  Living
<1> DEFINE old == proc[p]
           b == Enter(OpenQueue(old))
<1>1. old \in Procs
  OBVIOUS
<1> HIDE DEF old
<1>2. b \in Procs /\ b.st = "running" /\ b.grp = old.grp /\ b.missed = old.missed
  <2>1. OpenQueue(old) \in Procs /\ OpenQueue(old).grp = old.grp
        /\ OpenQueue(old).missed = old.missed
    BY <1>1 DEF OpenQueue, Procs
  <2> DEFINE c == OpenQueue(old)
  <2> HIDE DEF c
  <2> QED
    BY <2>1, EnterRight DEF c
<1> HIDE DEF b
<1>3. proc' = [proc EXCEPT ![p] = b] /\ proc[p].st = "starting"
  BY DEF StartWorker, b, old
<1> QED
  BY <1>2, <1>3, StartLives DEF old, Early

LEMMA HangLives ==
  ASSUME proc \in [Pids -> Procs], HungMissed, NEW p \in Pids, Hang(p)
  PROVE  Living
<1> DEFINE r == [proc[p] EXCEPT !.st = "hung", !.missed = TRUE]
<1>1. r \in Procs /\ r.st = "hung" /\ r.grp = proc[p].grp /\ r.missed
  BY DEF Procs
<1>2. proc' = [proc EXCEPT ![p] = r] /\ proc[p].st = "running"
  BY DEF Hang
<1> HIDE DEF r
<1>3. proc'[p] = r
  BY <1>2
<1>4. Lives(p) /\ Steady(p)
  BY <1>1, <1>2, <1>3 DEF Lives, Goes, Steady, Sound, Alive, Early
<1> QED
  BY <1>1, <1>2, <1>4, OneLives

LEMMA ResumeLives ==
  ASSUME proc \in [Pids -> Procs], HungMissed, NEW p \in Pids, Resume(p)
  PROVE  Living
<1> DEFINE r == [proc[p] EXCEPT !.st = "running"]
<1>1. r \in Procs /\ r.st = "running" /\ r.grp = proc[p].grp
      /\ r.missed = proc[p].missed
  BY DEF Procs
<1>2. proc' = [proc EXCEPT ![p] = r] /\ proc[p].st = "hung" /\ proc[p].missed
  BY DEF Resume, HungMissed
<1> HIDE DEF r
<1>3. proc'[p] = r
  BY <1>2
<1>4. Lives(p) /\ Steady(p)
  BY <1>1, <1>2, <1>3 DEF Lives, Goes, Steady, Sound, Alive, Early
<1> QED
  BY <1>1, <1>2, <1>4, OneLives

(* Only mq and flag change.                                                *)
LEMMA ToldLives ==
  ASSUME proc \in [Pids -> Procs], HungMissed,
         proc' \in [Pids -> Procs],
         \A p \in Pids : /\ proc'[p].st = proc[p].st /\ proc'[p].grp = proc[p].grp
                         /\ proc'[p].missed = proc[p].missed
                         /\ proc'[p].age = proc[p].age
  PROVE  Living
<1> SUFFICES ASSUME NEW p \in Pids PROVE Lives(p) /\ Steady(p)
  BY DEF Living
<1>1. proc[p].st = "hung" => proc[p].missed
  BY DEF HungMissed
<1>2. /\ proc'[p].st = proc[p].st /\ proc'[p].grp = proc[p].grp
      /\ proc'[p].missed = proc[p].missed /\ proc'[p].age = proc[p].age
  OBVIOUS
<1> QED
  BY <1>1, <1>2 DEF Lives, Goes, Steady, Sound, Alive

LEMMA KillAllLives ==
  ASSUME proc \in [Pids -> Procs], HungMissed, KillAll
  PROVE  Living
<1>1. ASSUME NEW r \in Procs
      PROVE  LET s == [r EXCEPT !.flag = TRUE]
             IN  s \in Procs /\ s.st = r.st /\ s.grp = r.grp
                 /\ s.missed = r.missed /\ s.age = r.age
  BY <1>1 DEF Procs
<1>2. ASSUME NEW p \in Pids
      PROVE  proc'[p] = [proc[p] EXCEPT !.flag = TRUE] \/ proc'[p] = proc[p]
  BY DEF KillAll
<1>3. proc[CHOOSE p \in Pids : TRUE] = proc[CHOOSE p \in Pids : TRUE]
  OBVIOUS
<1>4. DOMAIN proc' = Pids /\ proc' = [p \in Pids |-> proc'[p]]
  BY DEF KillAll
<1>5. ASSUME NEW p \in Pids
      PROVE  /\ proc'[p] \in Procs
             /\ proc'[p].st = proc[p].st /\ proc'[p].grp = proc[p].grp
             /\ proc'[p].missed = proc[p].missed /\ proc'[p].age = proc[p].age
  <2>1. proc[p] \in Procs
    OBVIOUS
  <2> QED
    BY <1>1, <1>2, <2>1
<1>6. proc' \in [Pids -> Procs]
  BY <1>4, <1>5
<1> QED
  BY <1>5, <1>6, ToldLives

LEMMA KillLives ==
  ASSUME proc \in [Pids -> Procs], HungMissed, NEW q \in Pids,
         proc' = [proc EXCEPT ![q].flag = Alive(q)]
  PROVE  Living
<1> DEFINE r == [proc[q] EXCEPT !.flag = Alive(q)]
<1>1. Alive(q) \in BOOLEAN
  BY DEF Alive
<1>2. r \in Procs /\ r.st = proc[q].st /\ r.grp = proc[q].grp
      /\ r.missed = proc[q].missed /\ r.age = proc[q].age
  BY <1>1 DEF Procs
<1>3. proc' = [proc EXCEPT ![q] = r]
  OBVIOUS
<1> HIDE DEF r
<1>4. proc' \in [Pids -> Procs]
  BY <1>2, <1>3
<1>5. ASSUME NEW p \in Pids
      PROVE  /\ proc'[p].st = proc[p].st /\ proc'[p].grp = proc[p].grp
             /\ proc'[p].missed = proc[p].missed /\ proc'[p].age = proc[p].age
  <2>1. CASE p = q
    <3>1. proc'[p] = r
      BY <1>3, <2>1
    <3> QED
      BY <1>2, <2>1, <3>1
  <2>2. CASE p # q
    BY <1>3, <2>2
  <2> QED
    BY <2>1, <2>2
<1> QED
  BY <1>4, <1>5, ToldLives

LEMMA RemovedLives ==
  ASSUME proc \in [Pids -> Procs], HungMissed,
         proc' = [p \in Pids |-> [proc[p] EXCEPT !.mq = FALSE]]
  PROVE  Living
<1>1. ASSUME NEW r \in Procs
      PROVE  LET s == [r EXCEPT !.mq = FALSE]
             IN  s \in Procs /\ s.st = r.st /\ s.grp = r.grp
                 /\ s.missed = r.missed /\ s.age = r.age
  BY <1>1 DEF Procs
<1>2. ASSUME NEW p \in Pids
      PROVE  /\ proc'[p] \in Procs
             /\ proc'[p].st = proc[p].st /\ proc'[p].grp = proc[p].grp
             /\ proc'[p].missed = proc[p].missed /\ proc'[p].age = proc[p].age
  <2>1. proc[p] \in Procs
    OBVIOUS
  <2>2. proc'[p] = [proc[p] EXCEPT !.mq = FALSE]
    OBVIOUS
  <2> QED
    BY <1>1, <2>1, <2>2
<1>3. proc' \in [Pids -> Procs]
  BY <1>2
<1> QED
  BY <1>2, <1>3, ToldLives

-----------------------------------------------------------------------------
(* A message is taken from the queue and entered: the first of all, or the *)
(* first of one process.                                                   *)
Taken(i) ==
  /\ i \in DOMAIN queue
  /\ Heard(queue[i])
  /\ queue' \in Seq(Beats)
  /\ Len(queue') = Len(queue) - 1
  /\ \A j \in DOMAIN queue' : queue'[j] = queue[IF j < i THEN j ELSE j + 1]
  /\ \A j \in FromQueue(queue[i].pid) : i <= j

LEMMA HeadTaken ==
  ASSUME Queue, queue # <<>>, Heard(Head(queue)), queue' = Tail(queue)
  PROVE  Taken(1)
<1>1. /\ queue \in Seq(Beats) /\ Len(queue) \in Nat /\ Len(queue) # 0
      /\ DOMAIN queue = 1 .. Len(queue) /\ Head(queue) = queue[1]
  BY DEF Queue
<1>2. /\ Tail(queue) \in Seq(Beats) /\ Len(Tail(queue)) = Len(queue) - 1
      /\ \A j \in DOMAIN Tail(queue) : j \in Nat /\ j >= 1
                                       /\ Tail(queue)[j] = queue[j + 1]
  BY <1>1
<1>3. \A j \in DOMAIN queue' : (IF j < 1 THEN j ELSE j + 1) = j + 1
  BY <1>2
<1> QED
  BY <1>1, <1>2, <1>3 DEF Taken, FromQueue

LEMMA TakeFromTaken ==
  ASSUME Queue, NEW p, FromQueue(p) # {}, TakeFrom(p)
  PROVE  \E i \in FromQueue(p) : Taken(i)
<1> DEFINE i == CHOOSE j \in FromQueue(p) : \A k \in FromQueue(p) : j <= k
           n == Len(queue)
<1>1. /\ queue \in Seq(Beats) /\ n \in Nat /\ DOMAIN queue = 1 .. n
  BY DEF Queue
<1>2. FromQueue(p) \in SUBSET Nat
  BY <1>1 DEF FromQueue
<1>3. i \in FromQueue(p) /\ \A k \in FromQueue(p) : i <= k
  BY <1>2, LeastOf
<1>4. Heard(queue[i]) /\ queue' = RemoveAt(queue, i)
  BY DEF TakeFrom
<1> HIDE DEF i
<1>5. i \in 1 .. n /\ queue[i].pid = p
  BY <1>1, <1>3 DEF FromQueue
<1> DEFINE a == SubSeq(queue, 1, i - 1)
           b == SubSeq(queue, i + 1, n)
<1>6. /\ a \in Seq(Beats) /\ Len(a) = i - 1
      /\ \A j \in 1 .. i - 1 : a[j] = queue[j]
  BY <1>1, <1>5
<1>7. /\ b \in Seq(Beats) /\ Len(b) = n - i
      /\ \A j \in 1 .. n - i : b[j] = queue[i + j]
  <2>1. i + 1 \in Int /\ n \in Int /\ \A j \in i + 1 .. n : queue[j] \in Beats
    BY <1>1, <1>5
  <2>2. /\ b \in Seq(Beats) /\ Len(b) = IF i + 1 <= n THEN n - (i + 1) + 1 ELSE 0
        /\ \A j \in 1 .. n - (i + 1) + 1 : b[j] = queue[(i + 1) + j - 1]
    BY <2>1, SubSeqProperties
  <2>3. ASSUME NEW j \in 1 .. n - i
        PROVE  j \in 1 .. n - (i + 1) + 1 /\ (i + 1) + j - 1 = i + j
    BY <1>1, <1>5
  <2> HIDE DEF b
  <2>4. Len(b) = n - i
    BY <1>1, <1>5, <2>2
  <2> QED
    BY <2>2, <2>3, <2>4
<1>8. queue' = a \o b
  BY <1>4 DEF RemoveAt
<1> HIDE DEF a, b
<1>9. /\ queue' \in Seq(Beats) /\ Len(queue') = n - 1
      /\ DOMAIN queue' = 1 .. n - 1
  <2>1. a \o b \in Seq(Beats) /\ Len(a \o b) = Len(a) + Len(b)
    BY <1>6, <1>7
  <2>2. Len(a) + Len(b) = n - 1
    BY <1>1, <1>5, <1>6, <1>7
  <2> QED
    BY <1>8, <2>1, <2>2
<1>10. ASSUME NEW j \in 1 .. n - 1
       PROVE  queue'[j] = queue[IF j < i THEN j ELSE j + 1]
  <2>1. CASE j < i
    BY <1>1, <1>5, <1>6, <1>7, <1>8, <2>1
  <2>2. CASE ~(j < i)
    <3>1. (a \o b)[j] = b[j - (i - 1)]
      BY <1>1, <1>5, <1>6, <1>7, <2>2
    <3>2. j - (i - 1) \in 1 .. n - i /\ i + (j - (i - 1)) = j + 1
      BY <1>1, <1>5, <2>2
    <3> QED
      BY <1>7, <1>8, <2>2, <3>1, <3>2
  <2> QED
    BY <2>1, <2>2
<1> QED
  BY <1>1, <1>3, <1>4, <1>5, <1>9, <1>10 DEF Taken

(* Nobody leaves more traces than before.                                  *)
Fewer == \A p : Traces(p)' \subseteq Traces(p)

LEMMA SameFewer ==
  ASSUME UNCHANGED <<queue, proclist>>
  PROVE  Fewer
BY DEF Fewer, Traces, Mail, FromQueue, Listed

LEMMA TakenFewer ==
  ASSUME Queue, Lists, NEW i, Taken(i)
  PROVE  Fewer /\ Queue' /\ Lists'
<1> DEFINE n == Len(queue)
<1>1. /\ queue \in Seq(Beats) /\ n \in Nat /\ n <= MaxQueue /\ DOMAIN queue = 1 .. n
      /\ i \in 1 .. n
  BY DEF Queue, Taken
<1>2. PICK m \in Beats : m = queue[i]
  BY <1>1
<1>3. /\ queue' \in Seq(Beats) /\ Len(queue') = n - 1 /\ DOMAIN queue' = 1 .. n - 1
      /\ \A j \in DOMAIN queue' : queue'[j] = queue[IF j < i THEN j ELSE j + 1]
  BY <1>1 DEF Taken
<1>4. /\ Lists'
      /\ \A g \in Groups : g # m.grp => proclist'[g] = proclist[g]
      /\ \A e : e \in Entries(m.grp)' <=> \/ e = CProc(m.pid, m.age)
                                          \/ e \in Entries(m.grp) /\ e.pid # m.pid
      /\ m.grp \in Groups
  <2>1. Heard(m)
    BY <1>2 DEF Taken
  <2> QED
    BY <2>1, HeardRight
<1>5. Queue'
  BY <1>1, <1>3, Sizes DEF Queue
<1>6. ASSUME NEW p PROVE Mail(p)' \subseteq Mail(p)
  <2> SUFFICES ASSUME NEW j \in 1 .. n - 1, queue'[j].pid = p
               PROVE  queue'[j].grp \in Mail(p)
    BY <1>3 DEF Mail, FromQueue
  <2> DEFINE k == IF j < i THEN j ELSE j + 1
  <2>1. k \in 1 .. n
    BY <1>1
  <2>3. queue'[j] = queue[k]
    BY <1>3, Zenon
  <2> HIDE DEF k
  <2> QED
    BY <1>1, <2>1, <2>3 DEF Mail, FromQueue
<1>7. m.grp \in Mail(m.pid)
  BY <1>1, <1>2 DEF Mail, FromQueue
<1>8. ASSUME NEW p, NEW g \in Groups, p \in Listed(g)'
      PROVE  g \in Traces(p)
  <2>1. CASE g # m.grp
    BY <1>4, <1>8, <2>1 DEF Listed, Traces
  <2>2. CASE g = m.grp
    <3>1. PICK e \in Entries(g)' : e.pid = p
      BY <1>8 DEF Listed, Entries, ToSet
    <3>2. CASE e = CProc(m.pid, m.age)
      BY <1>7, <2>2, <3>1, <3>2 DEF CProc, Traces
    <3>3. CASE e \in Entries(g)
      BY <3>1, <3>3, EntryType DEF Traces
    <3>4. e = CProc(m.pid, m.age) \/ e \in Entries(g)
      BY <1>4, <2>2, <3>1
    <3> QED
      BY <3>2, <3>3, <3>4
  <2> QED
    BY <2>1, <2>2
<1> QED
  BY <1>4, <1>5, <1>6, <1>8 DEF Fewer, Traces

LEMMA ForgetFewer ==
  ASSUME Lists, Queue, NEW h \in Groups, NEW q, UNCHANGED queue,
         proclist' = [proclist EXCEPT ![h] = Forget(h, q)]
  PROVE  Fewer /\ Queue' /\ Lists'
<1>1. /\ Lists' /\ \A g \in Groups : g # h => proclist'[g] = proclist[g]
      /\ \A e : e \in Entries(h)' <=> e \in Entries(h) /\ e.pid # q
  BY ForgetRight
<1>2. ASSUME NEW p, NEW g \in Groups, p \in Listed(g)' PROVE p \in Listed(g)
  <2>1. CASE g # h
    BY <1>1, <1>2, <2>1 DEF Listed
  <2>2. CASE g = h
    <3>1. PICK e \in Entries(g)' : e.pid = p
      BY <1>2 DEF Listed, Entries, ToSet
    <3> QED
      BY <1>1, <2>2, <3>1, EntryType
  <2> QED
    BY <2>1, <2>2
<1>3. \A p : Mail(p)' = Mail(p)
  BY DEF Mail, FromQueue
<1> QED
  BY <1>1, <1>2, <1>3 DEF Fewer, Traces, Queue

LEMMA NoneFewer ==
  ASSUME queue' = <<>>, proclist' = EmptyGroups
  PROVE  Fewer /\ Queue' /\ Lists'
<1>1. \A g \in Groups : proclist'[g] = <<>>
  BY DEF EmptyGroups
<1>2. \A p : FromQueue(p)' = {}
  BY DEF FromQueue
<1>3. \A g \in Groups : Listed(g)' = {}
  BY <1>1 DEF Listed
<1>4. Fewer
  BY <1>2, <1>3 DEF Fewer, Traces, Mail
<1>5. Queue'
  BY Sizes DEF Queue
<1>6. Lists'
  BY <1>1 DEF Lists, EmptyGroups, Distinct
<1> QED
  BY <1>4, <1>5, <1>6

LEMMA OwnedKept ==
  ASSUME Owned, HungMissed, Living, Fewer
  PROVE  proc' \in [Pids -> Procs] /\ Owned' /\ HungMissed'
<1>1. ASSUME NEW p \in Pids
      PROVE  /\ (Alive(p) => proc[p].grp \in Groups)'
             /\ (Alive(p) => Traces(p) \subseteq {proc[p].grp})'
             /\ (proc[p].st \in Early => Traces(p) = {})'
             /\ (proc[p].st = "hung" => proc[p].missed)'
  <2>1. Traces(p)' \subseteq Traces(p)
    BY DEF Fewer
  <2>2. CASE ~Alive(p)'
    BY <2>2 DEF Alive, Early
  <2>3. CASE Born(p)
    <3>1. Traces(p) = {}
      BY <2>3 DEF Born, Unused, Traces, Mail, FromQueue
    <3> QED
      BY <2>1, <2>3, <3>1 DEF Born
  <2>4. CASE Goes(p)
    <3>1. /\ proc[p].grp \in Groups /\ Traces(p) \subseteq {proc[p].grp}
          /\ proc[p].st \in Early => Traces(p) = {}
      BY <2>4 DEF Owned, Goes
    <3>2. proc'[p].grp = proc[p].grp
      BY <2>4 DEF Goes
    <3>3. /\ proc'[p].st \in Early => proc[p].st \in Early
          /\ proc'[p].st = "hung" => proc'[p].missed
      BY <2>4 DEF Goes
    <3> DEFINE T == Traces(p)
    <3> HIDE DEF T
    <3>4. T' \subseteq T
      BY <2>1 DEF T
    <3>5. /\ proc[p].grp \in Groups /\ T \subseteq {proc[p].grp}
          /\ proc[p].st \in Early => T = {}
      BY <3>1 DEF T
    <3>6. T' \subseteq {proc'[p].grp} /\ proc'[p].grp \in Groups
      BY <3>2, <3>4, <3>5
    <3>7. proc'[p].st \in Early => T' = {}
      BY <3>3, <3>4, <3>5
    <3> QED
      BY <3>3, <3>6, <3>7 DEF T
  <2>5. Lives(p)
    BY DEF Living
  <2> QED
    BY <2>2, <2>3, <2>4, <2>5 DEF Lives
<1> QED
  BY <1>1 DEF Living, Owned, HungMissed

-----------------------------------------------------------------------------
(* The steps that send nothing and in which no time passes.                *)
Removed(g, q) == UNCHANGED queue /\ proclist' = [proclist EXCEPT ![g] = Forget(g, q)]
Gentle ==
  \/ UNCHANGED <<queue, proclist>>
  \/ \E i : Taken(i)
  \/ \E g \in Groups, q \in {0} \cup Pids : Removed(g, q)
  \/ queue' = <<>> /\ proclist' = EmptyGroups
Ordinary == Living /\ Gentle /\ Control' /\ Counts'

LEMMA OrdinaryInv == MonitorInv /\ Ordinary => MonitorInv'
<1> SUFFICES ASSUME MonitorInv, Ordinary PROVE MonitorInv'
  OBVIOUS
<1> USE DEF MonitorInv, Ordinary
<1>1. CASE UNCHANGED <<queue, proclist>>
  <2>1. Queue' /\ Lists'
    BY <1>1 DEF Queue, Lists, Distinct
  <2> QED
    BY <1>1, <2>1, SameFewer, OwnedKept
<1>2. ASSUME NEW i, Taken(i) PROVE MonitorInv'
  BY <1>2, TakenFewer, OwnedKept
<1>3. ASSUME NEW g \in Groups, NEW q, Removed(g, q) PROVE MonitorInv'
  <2>1. Fewer /\ Queue' /\ Lists'
    BY <1>3, ForgetFewer DEF Removed
  <2> QED
    BY <2>1, OwnedKept
<1>4. CASE queue' = <<>> /\ proclist' = EmptyGroups
  BY <1>4, NoneFewer, OwnedKept
<1> QED
  BY <1>1, <1>2, <1>3, <1>4 DEF Gentle

Places == {"down", "recv", "check", "event", "spawn", "kill", "reap", "bury", "sleep"}

LEMMA GotoRight ==
  ASSUME NEW pc \in Places, ctl \in Controllers, Goto(pc)
  PROVE  /\ ctl' \in Controllers /\ ctl'.pc = pc /\ ctl'.age = ctl.age
         /\ ctl'.todo = ctl.todo
BY DEF Goto, Controllers, Places

LEMMA StoppedRight ==
  /\ Stopped \in Controllers /\ Stopped.pc = "down" /\ Stopped.age = 0
  /\ [Stopped EXCEPT !.pc = "recv"] \in Controllers
  /\ [Stopped EXCEPT !.pc = "recv"].pc = "recv"
  /\ [Stopped EXCEPT !.pc = "recv"].age = 0
<1>1. <<>> \in Seq(Pids)
  OBVIOUS
<1>2. Stopped \in Controllers /\ Stopped.pc = "down" /\ Stopped.age = 0
  BY <1>1 DEF Stopped, Controllers
<1> HIDE DEF Stopped
<1>3. ASSUME NEW c \in Controllers
      PROVE  LET d == [c EXCEPT !.pc = "recv"]
             IN  d \in Controllers /\ d.pc = "recv" /\ d.age = c.age
  BY DEF Controllers
<1> QED
  BY <1>2, <1>3

LEMMA CountsSame == Counts /\ UNCHANGED <<faults, starts>> => Counts'
BY DEF Counts

LEMMA CountsFault == ASSUME Counts, NEW k, Fault(k), UNCHANGED starts PROVE Counts'
BY Sizes DEF Counts, Fault

LEMMA ControlSame == Control /\ UNCHANGED <<ctl, events>> => Control'
BY DEF Control, Controllers

LEMMA HeadEvent ==
  ASSUME Control, events # <<>>
  PROVE  /\ Head(events) \in Events /\ Tail(events) \in Seq(Events)
         /\ Head(events).grp \in Groups
         /\ Head(events).pid \in {0} \cup Pids
<1>1. Head(events) \in Events /\ Tail(events) \in Seq(Events)
  BY DEF Control
<1> QED
  BY <1>1 DEF Events

LEMMA HeadTodo ==
  ASSUME Control, ctl.todo # <<>>
  PROVE  Head(ctl.todo) \in Pids /\ Tail(ctl.todo) \in Seq(Pids)
<1>1. ctl.todo \in Seq(Pids)
  BY DEF Control, Controllers
<1> QED
  BY <1>1

LEMMA InitMonitor == Init => MonitorInv
<1> SUFFICES ASSUME Init PROVE MonitorInv
  OBVIOUS
<1>1. proc \in [Pids -> Procs] /\ \A p \in Pids : proc[p].st = "none"
  BY NoProcType DEF Init
<1>2. Owned /\ HungMissed
  BY <1>1 DEF Owned, HungMissed, Alive, Early
<1>3. Queue
  BY Sizes DEF Queue, Init
<1>4. Lists
  BY DEF Lists, Init, EmptyGroups, Distinct
<1>5. Control
  <2>1. events = <<>> /\ events \in Seq(Events) /\ ctl = Stopped
    BY DEF Init
  <2> QED
    BY <2>1, StoppedRight, Sizes DEF Control
<1>6. Counts
  BY Sizes DEF Counts, Init
<1> QED
  BY <1>1, <1>2, <1>3, <1>4, <1>5, <1>6 DEF MonitorInv

-----------------------------------------------------------------------------
(* The controller's steps.                                                 *)
LEMMA CtlStartStep == MonitorInv /\ CtlStart => Ordinary
<1> SUFFICES ASSUME MonitorInv, CtlStart PROVE Ordinary
  OBVIOUS
<1> USE DEF MonitorInv
<1>1. Living
  BY RemovedLives, SameLives DEF CtlStart
<1>2. Gentle
  BY DEF CtlStart, Gentle
<1>3. Control'
  <2>1. ctl' = [Stopped EXCEPT !.pc = "recv"] /\ events' = <<>>
    BY DEF CtlStart
  <2>2. events' \in Seq(Events)
    BY <2>1
  <2> QED
    BY <2>1, <2>2, StoppedRight, Sizes DEF Control
<1>4. Counts'
  BY Sizes DEF CtlStart, Counts
<1> QED
  BY <1>1, <1>2, <1>3, <1>4 DEF Ordinary

(* A step that only moves the controller on.                               *)
LEMMA MovesOn ==
  ASSUME MonitorInv, NEW pc \in Places \ {"spawn", "kill", "reap", "bury"},
         Goto(pc), events' \in Seq(Events)
  PROVE  Control'
<1>1. /\ ctl' \in Controllers /\ ctl'.pc = pc /\ ctl'.age = ctl.age
  BY GotoRight DEF MonitorInv, Control
<1> QED
  BY <1>1 DEF MonitorInv, Control

LEMMA CtlRecvStep == MonitorInv /\ CtlRecv => Ordinary
<1> SUFFICES ASSUME MonitorInv, CtlRecv PROVE Ordinary
  OBVIOUS
<1>1. Living /\ Counts'
  BY SameLives, CountsSame DEF MonitorInv, CtlRecv
<1>2. CASE queue = <<>>
  <2>1. Goto("check") /\ UNCHANGED <<queue, proclist, events>>
    BY <1>2 DEF CtlRecv
  <2>2. Control'
    BY <2>1, MovesOn DEF MonitorInv, Control, Places
  <2> QED
    BY <1>1, <2>1, <2>2 DEF Ordinary, Gentle
<1>3. CASE queue # <<>>
  <2>1. Heard(Head(queue)) /\ queue' = Tail(queue) /\ UNCHANGED <<ctl, events>>
    BY <1>3 DEF CtlRecv
  <2>2. Taken(1)
    BY <1>3, <2>1, HeadTaken DEF MonitorInv
  <2>3. Control'
    BY <2>1, ControlSame DEF MonitorInv
  <2> QED
    BY <1>1, <2>2, <2>3 DEF Ordinary, Gentle
<1> QED
  BY <1>2, <1>3

LEMMA EventType ==
  ASSUME NEW kind \in {"down", "up", "dead"}, NEW g \in Groups,
         NEW p \in {0} \cup Pids
  PROVE  Event(kind, g, p) \in Events
BY DEF Event, Events

(* What doCheck finds of one group.                                        *)
LEMMA FoundRight ==
  ASSUME Lists, NEW g \in Groups
  PROVE  /\ Found(g) \in Seq(Events)
         /\ \A v \in ToSet(Found(g)) :
              v.kind = "dead" =>
                \E e \in Entries(g) : v.pid = e.pid /\ e.age > DeadAfter
<1> DEFINE list == proclist[g]
           keep == {e \in ToSet(list) : e.age > DeadAfter}
           silent == Only(list, keep)
           a == IF Len(list) < MinProc[g] THEN <<Event("down", g, 0)>>
                ELSE IF Len(list) > MaxProc[g] THEN <<Event("up", g, 0)>> ELSE <<>>
           b == [i \in DOMAIN silent |-> Event("dead", g, silent[i].pid)]
<1>1. list \in Seq(Entry)
  BY EntryType
<1>2. silent \in Seq(Entry) /\ ToSet(silent) = ToSet(list) \cap keep
  BY <1>1, Selected
<1>3. Found(g) = a \o b
  BY DEF Found
<1>4. a \in Seq(Events) /\ \A v \in ToSet(a) : v.kind # "dead"
  <2>1. ASSUME NEW kind \in {"down", "up"}
        PROVE  LET s == <<Event(kind, g, 0)>>
               IN  s \in Seq(Events) /\ \A v \in ToSet(s) : v.kind # "dead"
    <3>1. Event(kind, g, 0) \in Events /\ Event(kind, g, 0).kind = kind
      BY EventType DEF Event
    <3> DEFINE v0 == Event(kind, g, 0)
    <3> HIDE DEF v0
    <3>2. ASSUME v0 \in Events
          PROVE  <<v0>> \in Seq(Events) /\ \A v \in ToSet(<<v0>>) : v = v0
      BY <3>2 DEF ToSet
    <3> QED
      BY <3>1, <3>2 DEF v0
  <2>2. <<>> \in Seq(Events) /\ \A v \in ToSet(<<>>) : v.kind # "dead"
    BY DEF ToSet
  <2>3. \/ a = <<Event("down", g, 0)>> \/ a = <<Event("up", g, 0)>> \/ a = <<>>
    OBVIOUS
  <2> HIDE DEF a
  <2> QED
    BY <2>1, <2>2, <2>3
<1> HIDE DEF a, silent
<1>5. \A i \in DOMAIN silent : silent[i] \in Entry /\ silent[i].pid \in Pids
                               /\ silent[i] \in ToSet(list) \cap keep
  <2>1. \A i \in DOMAIN silent : silent[i] \in ToSet(silent)
    BY DEF ToSet
  <2>2. \A i \in DOMAIN silent : silent[i] \in Entry
    BY <1>2
  <2> QED
    BY <1>2, <2>1, <2>2 DEF Entry
<1>6. \A i \in DOMAIN silent : b[i] \in Events /\ b[i].pid = silent[i].pid
  <2> SUFFICES ASSUME NEW i \in DOMAIN silent
               PROVE  b[i] \in Events /\ b[i].pid = silent[i].pid
    OBVIOUS
  <2>1. b[i] = Event("dead", g, silent[i].pid)
    OBVIOUS
  <2>2. Event("dead", g, silent[i].pid).pid = silent[i].pid
    BY DEF Event
  <2> QED
    BY <1>5, <2>1, <2>2, EventType
<1>7. b \in Seq(Events) /\ DOMAIN b = DOMAIN silent
  <2>1. DOMAIN silent = 1 .. Len(silent) /\ Len(silent) \in Nat
    BY <1>2
  <2> QED
    BY <1>6, <2>1
<1>8. \A v \in ToSet(b) : \E e \in Entries(g) : v.pid = e.pid /\ e.age > DeadAfter
  BY <1>5, <1>6, <1>7 DEF ToSet, Entries
<1> HIDE DEF b
<1>9. a \o b \in Seq(Events) /\ ToSet(a \o b) = ToSet(a) \cup ToSet(b)
  BY <1>4, <1>7, Concatenated
<1> QED
  BY <1>3, <1>4, <1>8, <1>9

LEMMA CheckRight ==
  ASSUME Lists, CtlCheck
  PROVE  /\ events' \in Seq(Events)
         /\ \A v \in ToSet(events') :
              v.kind = "dead" =>
                \E g \in Groups : \E e \in Entries(g) :
                  v.pid = e.pid /\ e.age > DeadAfter
<1> DEFINE s == [g \in Groups |-> Found(g)]
<1>1. s \in Seq(Seq(Events)) /\ DOMAIN s = Groups
  <2>1. Groups = 1 .. Len(MinProc) /\ Len(MinProc) \in Nat
    BY Sizes DEF Groups
  <2>2. \A g \in Groups : Found(g) \in Seq(Events)
    BY FoundRight
  <2> QED
    BY <2>1, <2>2
<1>2. \A g \in Groups : s[g] = Found(g)
  OBVIOUS
<1>3. events' = FlattenSeq(s)
  BY DEF CtlCheck
<1> HIDE DEF s
<1>4. /\ FlattenSeq(s) \in Seq(Events)
      /\ \A x : x \in ToSet(FlattenSeq(s)) <=> \E g \in DOMAIN s : x \in ToSet(s[g])
  BY <1>1, Flattened
<1>5. ASSUME NEW v \in ToSet(events'), v.kind = "dead"
      PROVE  \E g \in Groups : \E e \in Entries(g) : v.pid = e.pid /\ e.age > DeadAfter
  <2>1. PICK g \in Groups : v \in ToSet(s[g])
    BY <1>1, <1>3, <1>4, <1>5
  <2>2. v \in ToSet(Found(g))
    BY <1>2, <2>1
  <2>3. \E e \in Entries(g) : v.pid = e.pid /\ e.age > DeadAfter
    BY <1>5, <2>2, FoundRight
  <2> QED
    BY <2>3
<1> QED
  BY <1>3, <1>4, <1>5

LEMMA CtlCheckStep == MonitorInv /\ CtlCheck => Ordinary
<1> SUFFICES ASSUME MonitorInv, CtlCheck PROVE Ordinary
  OBVIOUS
<1>1. Living /\ Counts'
  BY SameLives, CountsSame DEF MonitorInv, CtlCheck
<1>2. Gentle
  BY DEF CtlCheck, Gentle
<1>3. Goto("event") /\ events' \in Seq(Events)
  BY CheckRight DEF MonitorInv, CtlCheck
<1>4. Control'
  BY <1>3, MovesOn DEF Places
<1> QED
  BY <1>1, <1>2, <1>4 DEF Ordinary

LEMMA CtlDownStep == MonitorInv /\ CtlDown => Ordinary
<1> SUFFICES ASSUME MonitorInv, CtlDown PROVE Ordinary
  OBVIOUS
<1>1. Living /\ Counts' /\ Gentle
  BY SameLives, CountsSame DEF MonitorInv, CtlDown, Gentle
<1> DEFINE k == MinProc[Head(events).grp] - Len(proclist[Head(events).grp])
<1>2. events # <<>> /\ UNCHANGED events /\ ctl' = [ctl EXCEPT !.pc = "spawn", !.n = k]
  BY DEF CtlDown, Is
<1>3. k \in Int
  <2>1. Head(events).grp \in Groups
    BY <1>2, HeadEvent DEF MonitorInv
  <2>2. MinProc[Head(events).grp] \in Nat
    BY <2>1, Sizes
  <2>3. proclist[Head(events).grp] \in Seq(Entry)
    BY <2>1, EntryType DEF MonitorInv
  <2> QED
    BY <2>2, <2>3
<1> HIDE DEF k
<1>4. ctl \in Controllers /\ ctl.age <= CycleTime
  BY DEF MonitorInv, Control
<1>5. ctl' \in Controllers /\ ctl'.pc = "spawn" /\ ctl'.age = ctl.age
  BY <1>2, <1>3, <1>4 DEF Controllers
<1>6. Control'
  BY <1>2, <1>4, <1>5 DEF MonitorInv, Control
<1> QED
  BY <1>1, <1>6 DEF Ordinary

LEMMA CtlSpawnStep == MonitorInv /\ (\E p \in Pids : CtlSpawn(p)) => Ordinary
<1> SUFFICES ASSUME MonitorInv, NEW p \in Pids, CtlSpawn(p) PROVE Ordinary
  OBVIOUS
<1>0. ctl.pc = "spawn" /\ events # <<>>
  BY DEF CtlSpawn, At, MonitorInv, Control
<1>1. PICK g \in Groups : g = Head(events).grp
  BY <1>0, HeadEvent DEF MonitorInv
<1>2. Living
  <2>1. Fork(p, g)
    BY <1>1 DEF CtlSpawn
  <2> QED
    BY <2>1, ForkLives DEF MonitorInv
<1>3. Counts' /\ Gentle
  BY CountsSame DEF MonitorInv, CtlSpawn, Gentle
<1>4. Control'
  <2>1. ctl \in Controllers /\ ctl' = [ctl EXCEPT !.n = ctl.n - 1] /\ UNCHANGED events
    BY DEF CtlSpawn, MonitorInv, Control
  <2>2. ctl' \in Controllers /\ ctl'.pc = "spawn" /\ ctl'.age = ctl.age
    BY <1>0, <2>1 DEF Controllers
  <2> QED
    BY <1>0, <2>1, <2>2 DEF MonitorInv, Control
<1> QED
  BY <1>2, <1>3, <1>4 DEF Ordinary

LEMMA CtlSpawnedStep == MonitorInv /\ CtlSpawned => Ordinary
<1> SUFFICES ASSUME MonitorInv, CtlSpawned PROVE Ordinary
  OBVIOUS
<1>1. Living /\ Counts' /\ Gentle
  BY SameLives, CountsSame DEF MonitorInv, CtlSpawned, Gentle
<1>2. events # <<>> /\ events' = Tail(events) /\ Goto("event")
  BY DEF CtlSpawned, Done, At, MonitorInv, Control
<1>3. Control'
  BY <1>2, HeadEvent, MovesOn DEF MonitorInv, Places
<1> QED
  BY <1>1, <1>3 DEF Ordinary

LEMMA CtlUpStep == MonitorInv /\ CtlUp => Ordinary
<1> SUFFICES ASSUME MonitorInv, CtlUp PROVE Ordinary
  OBVIOUS
<1>1. Living /\ Counts' /\ Gentle
  BY SameLives, CountsSame DEF MonitorInv, CtlUp, Gentle
<1>2. events # <<>> /\ UNCHANGED events
  BY DEF CtlUp, Is
<1>3. PICK g \in Groups : g = Head(events).grp
  BY <1>2, HeadEvent DEF MonitorInv
<1> DEFINE list == proclist[g]
           m == MaxProc[g]
           todo == [i \in 1 .. Len(list) - m |-> list[m + i].pid]
<1>4. ctl' = [ctl EXCEPT !.pc = "kill", !.todo = todo]
  BY <1>3 DEF CtlUp
<1>5. todo \in Seq(Pids)
  <2>1. list \in Seq(Entry) /\ m \in Nat
    BY EntryType, Sizes DEF MonitorInv
  <2> HIDE DEF list, m
  <2>2. ASSUME NEW i \in 1 .. Len(list) - m PROVE todo[i] \in Pids
    <3>1. m + i \in 1 .. Len(list)
      BY <2>1
    <3>2. list[m + i] \in Entry
      BY <2>1, <3>1
    <3> QED
      BY <3>2 DEF Entry
  <2>3. \E k \in Nat : 1 .. Len(list) - m = 1 .. k
    <3>1. CASE Len(list) >= m
      BY <2>1, <3>1
    <3>2. CASE Len(list) < m
      <4>1. 1 .. Len(list) - m = 1 .. 0
        BY <2>1, <3>2
      <4> QED
        BY <4>1
    <3> QED
      BY <2>1, <3>1, <3>2
  <2>4. PICK k \in Nat : 1 .. Len(list) - m = 1 .. k
    BY <2>3
  <2>5. todo = [i \in 1 .. k |-> todo[i]] /\ \A i \in 1 .. k : todo[i] \in Pids
    BY <2>2, <2>4
  <2> HIDE DEF todo
  <2> QED
    BY <2>5
<1> HIDE DEF todo
<1>6. ctl \in Controllers /\ ctl.age <= CycleTime
  BY DEF MonitorInv, Control
<1>7. ctl' \in Controllers /\ ctl'.pc = "kill" /\ ctl'.age = ctl.age
  BY <1>4, <1>5, <1>6 DEF Controllers
<1>8. Control'
  BY <1>2, <1>6, <1>7 DEF MonitorInv, Control
<1> QED
  BY <1>1, <1>8 DEF Ordinary

LEMMA CtlKillStep == MonitorInv /\ CtlKill => Ordinary
<1> SUFFICES ASSUME MonitorInv, CtlKill PROVE Ordinary
  OBVIOUS
<1>0. ctl.pc = "kill" /\ events # <<>> /\ ctl.todo # <<>>
  BY DEF CtlKill, At, MonitorInv, Control
<1>1. PICK g \in Groups : g = Head(events).grp
  BY <1>0, HeadEvent DEF MonitorInv
<1>2. PICK p \in Pids : p = Head(ctl.todo)
  BY <1>0, HeadTodo DEF MonitorInv
<1>3. Living
  <2>1. proc' = [proc EXCEPT ![p].flag = Alive(p)]
    BY <1>2 DEF CtlKill
  <2> QED
    BY <2>1, KillLives DEF MonitorInv
<1>4. Gentle
  <2>1. Removed(g, p)
    BY <1>1, <1>2 DEF CtlKill, Removed
  <2> QED
    BY <2>1 DEF Gentle
<1>5. Counts'
  BY CountsSame DEF MonitorInv, CtlKill
<1>6. Control'
  <2>1. ctl \in Controllers /\ Goto("reap") /\ UNCHANGED events
    BY DEF CtlKill, MonitorInv, Control
  <2>2. /\ ctl' \in Controllers /\ ctl'.pc = "reap" /\ ctl'.age = ctl.age
        /\ ctl'.todo = ctl.todo
    BY <2>1, GotoRight DEF Places
  <2> QED
    BY <1>0, <2>1, <2>2 DEF MonitorInv, Control
<1> QED
  BY <1>3, <1>4, <1>5, <1>6 DEF Ordinary

LEMMA CtlKilledStep == MonitorInv /\ CtlKilled => Ordinary
<1> SUFFICES ASSUME MonitorInv, CtlKilled PROVE Ordinary
  OBVIOUS
<1>1. Living /\ Counts' /\ Gentle
  BY SameLives, CountsSame DEF MonitorInv, CtlKilled, Gentle
<1>2. events # <<>> /\ events' = Tail(events) /\ Goto("event")
  BY DEF CtlKilled, Done, At, MonitorInv, Control
<1>3. Control'
  BY <1>2, HeadEvent, MovesOn DEF MonitorInv, Places
<1> QED
  BY <1>1, <1>3 DEF Ordinary

LEMMA CtlReapStep == MonitorInv /\ CtlReap => Ordinary
<1> SUFFICES ASSUME MonitorInv, CtlReap PROVE Ordinary
  OBVIOUS
<1>0. ctl.pc = "reap" /\ events # <<>> /\ ctl.todo # <<>> /\ UNCHANGED events
  BY DEF CtlReap, At, MonitorInv, Control
<1>1. PICK p \in Pids : p = Head(ctl.todo)
  BY <1>0, HeadTodo DEF MonitorInv
<1>2. Living /\ Counts'
  BY SameLives, CountsSame DEF MonitorInv, CtlReap
<1>3. CASE FromQueue(p) # {}
  <2>1. TakeFrom(p) /\ UNCHANGED ctl
    BY <1>1, <1>3 DEF CtlReap
  <2>2. \E i : Taken(i)
    BY <1>3, <2>1, TakeFromTaken DEF MonitorInv
  <2>3. Control'
    BY <1>0, <2>1, ControlSame DEF MonitorInv
  <2> QED
    BY <1>2, <2>2, <2>3 DEF Ordinary, Gentle
<1>4. CASE FromQueue(p) = {}
  <2>1. /\ ctl' = [ctl EXCEPT !.pc = "kill", !.todo = Tail(ctl.todo)]
        /\ UNCHANGED <<queue, proclist>>
    BY <1>1, <1>4 DEF CtlReap
  <2>2. Tail(ctl.todo) \in Seq(Pids) /\ ctl \in Controllers /\ ctl.age <= CycleTime
    BY <1>0, HeadTodo DEF MonitorInv, Control
  <2>3. ctl' \in Controllers /\ ctl'.pc = "kill" /\ ctl'.age = ctl.age
    BY <2>1, <2>2 DEF Controllers
  <2>4. Control'
    BY <1>0, <2>2, <2>3 DEF MonitorInv, Control
  <2> QED
    BY <1>2, <2>1, <2>4 DEF Ordinary, Gentle
<1> QED
  BY <1>3, <1>4

LEMMA CtlDeadStep == MonitorInv /\ CtlDead => Ordinary
<1> SUFFICES ASSUME MonitorInv, CtlDead PROVE Ordinary
  OBVIOUS
<1>0. /\ events # <<>> /\ Head(events).kind = "dead" /\ UNCHANGED events
      /\ Goto("bury") /\ proc' = [proc EXCEPT ![Head(events).pid] = NoProc]
  BY DEF CtlDead, Is
<1>1. Living
  <2>1. CASE Head(events).pid \in Pids
    <3>1. PICK p \in Pids : p = Head(events).pid
      BY <2>1
    <3>2. proc' = [proc EXCEPT ![p] = NoProc]
      BY <1>0, <3>1
    <3> QED
      BY <3>2, EndLives DEF MonitorInv
  <2>2. CASE Head(events).pid \notin Pids
    <3>1. proc' = proc
      BY <1>0, <2>2 DEF MonitorInv
    <3> QED
      BY <3>1, SameLives DEF MonitorInv
  <2> QED
    BY <2>1, <2>2
<1>2. Counts' /\ Gentle
  BY CountsSame DEF MonitorInv, CtlDead, Gentle
<1>3. Control'
  <2>1. ctl \in Controllers /\ ctl.age <= CycleTime
    BY DEF MonitorInv, Control
  <2>2. ctl' \in Controllers /\ ctl'.pc = "bury" /\ ctl'.age = ctl.age
    BY <1>0, <2>1, GotoRight DEF Places
  <2> QED
    BY <1>0, <2>1, <2>2 DEF MonitorInv, Control
<1> QED
  BY <1>1, <1>2, <1>3 DEF Ordinary

LEMMA CtlBuryStep == MonitorInv /\ CtlBury => Ordinary
<1> SUFFICES ASSUME MonitorInv, CtlBury PROVE Ordinary
  OBVIOUS
<1>0. ctl.pc = "bury" /\ events # <<>>
  BY DEF CtlBury, At, MonitorInv, Control
<1>1. PICK p \in {0} \cup Pids : p = Head(events).pid
  BY <1>0, HeadEvent DEF MonitorInv
<1>2. PICK g \in Groups : g = Head(events).grp
  BY <1>0, HeadEvent DEF MonitorInv
<1>3. Living /\ Counts'
  BY SameLives, CountsSame DEF MonitorInv, CtlBury
<1>4. CASE FromQueue(p) # {}
  <2>1. TakeFrom(p) /\ UNCHANGED <<ctl, events>>
    BY <1>1, <1>4 DEF CtlBury
  <2>2. \E i : Taken(i)
    BY <1>4, <2>1, TakeFromTaken DEF MonitorInv
  <2>3. Control'
    BY <2>1, ControlSame DEF MonitorInv
  <2> QED
    BY <1>3, <2>2, <2>3 DEF Ordinary, Gentle
<1>5. CASE FromQueue(p) = {}
  <2>1. Removed(g, p) /\ events' = Tail(events) /\ Goto("event")
    BY <1>1, <1>2, <1>5 DEF CtlBury, Removed, Done
  <2>2. Gentle
    BY <2>1 DEF Gentle
  <2>3. Control'
    BY <1>0, <2>1, HeadEvent, MovesOn DEF MonitorInv, Places
  <2> QED
    BY <1>3, <2>2, <2>3 DEF Ordinary
<1> QED
  BY <1>4, <1>5

LEMMA CtlSleepStep == MonitorInv /\ CtlSleep => Ordinary
<1> SUFFICES ASSUME MonitorInv, CtlSleep PROVE Ordinary
  OBVIOUS
<1>1. Living /\ Counts' /\ Gentle
  BY SameLives, CountsSame DEF MonitorInv, CtlSleep, Gentle
<1>2. ctl \in Controllers /\ events \in Seq(Events) /\ UNCHANGED events
      /\ ctl' = [ctl EXCEPT !.pc = "sleep", !.age = 0]
  BY DEF CtlSleep, MonitorInv, Control
<1>3. ctl' \in Controllers /\ ctl'.pc = "sleep" /\ ctl'.age = 0
  BY <1>2 DEF Controllers
<1>4. Control'
  BY <1>2, <1>3, Sizes DEF Control
<1> QED
  BY <1>1, <1>4 DEF Ordinary

LEMMA StoppedStep ==
  ASSUME MonitorInv, UNCHANGED events, ctl' = Stopped
  PROVE  Control'
<1>1. ctl' \in Controllers /\ ctl'.pc = "down" /\ ctl'.age = 0
  BY StoppedRight
<1> QED
  BY <1>1, Sizes DEF MonitorInv, Control

LEMMA CtlWakeStep == MonitorInv /\ CtlWake => Ordinary
<1> SUFFICES ASSUME MonitorInv, CtlWake PROVE Ordinary
  OBVIOUS
<1>1. Counts' /\ Gentle /\ UNCHANGED events
  BY CountsSame DEF MonitorInv, CtlWake, Gentle
<1>2. CASE KillAll /\ ctl' = Stopped
  BY <1>1, <1>2, KillAllLives, StoppedStep DEF Ordinary, MonitorInv
<1>3. CASE UNCHANGED proc /\ Goto("recv")
  <2>1. Living
    BY <1>3, SameLives DEF MonitorInv
  <2>2. events' \in Seq(Events)
    BY <1>1 DEF MonitorInv, Control
  <2>3. Control'
    BY <1>3, <2>2, MovesOn DEF Places
  <2> QED
    BY <1>1, <2>1, <2>3 DEF Ordinary
<1> QED
  BY <1>2, <1>3 DEF CtlWake

LEMMA CtlQuitStep == MonitorInv /\ CtlQuit => Ordinary
<1> SUFFICES ASSUME MonitorInv, CtlQuit PROVE Ordinary
  OBVIOUS
<1>1. Living /\ Counts' /\ Gentle
  BY SameLives, CountsFault DEF MonitorInv, CtlQuit, Gentle
<1>2. ctl \in Controllers /\ UNCHANGED events /\ ctl' = [ctl EXCEPT !.quit = TRUE]
  BY DEF CtlQuit, MonitorInv, Control
<1>3. /\ ctl' \in Controllers /\ ctl'.pc = ctl.pc /\ ctl'.age = ctl.age
      /\ ctl'.todo = ctl.todo
  BY <1>2 DEF Controllers
<1>4. Control'
  BY <1>2, <1>3 DEF MonitorInv, Control
<1> QED
  BY <1>1, <1>4 DEF Ordinary

LEMMA CtlCrashStep == MonitorInv /\ CtlCrash => Ordinary
<1> SUFFICES ASSUME MonitorInv, CtlCrash PROVE Ordinary
  OBVIOUS
<1>1. Living /\ Counts' /\ Gentle
  BY SameLives, CountsFault DEF MonitorInv, CtlCrash, Gentle
<1>2. Control'
  BY StoppedStep DEF CtlCrash
<1> QED
  BY <1>1, <1>2 DEF Ordinary

LEMMA ControllerStep == MonitorInv /\ Controller => Ordinary
BY CtlStartStep, CtlRecvStep, CtlCheckStep, CtlDownStep, CtlSpawnStep, CtlSpawnedStep,
   CtlUpStep, CtlKillStep, CtlKilledStep, CtlReapStep, CtlDeadStep, CtlBuryStep,
   CtlSleepStep, CtlWakeStep DEF Controller

-----------------------------------------------------------------------------
(* The processes' steps.                                                   *)
LEMMA StartsStep ==
  ASSUME MonitorInv, NEW p \in Pids, StartProxy(p) \/ StartWorker(p)
  PROVE  Ordinary
<1>1. Living
  BY StartProxyLives, StartWorkerLives DEF MonitorInv
<1>2. UNCHANGED <<queue, proclist, events, ctl, faults, starts>>
  BY DEF StartProxy, StartWorker
<1>3. Control' /\ Counts' /\ Gentle
  BY <1>2, ControlSame, CountsSame DEF MonitorInv, Gentle
<1> QED
  BY <1>1, <1>3 DEF Ordinary

LEMMA EnvironmentStep == MonitorInv /\ Environment => Ordinary
<1> SUFFICES ASSUME MonitorInv, Environment PROVE Ordinary
  OBVIOUS
<1>1. ASSUME NEW p \in Pids, Crash(p) PROVE Ordinary
  <2>1. Living
    BY <1>1, EndLives DEF Crash, MonitorInv
  <2>2. Control' /\ Counts' /\ Gentle
    BY <1>1, ControlSame, CountsFault DEF MonitorInv, Crash, Gentle
  <2> QED
    BY <2>1, <2>2 DEF Ordinary
<1>2. ASSUME NEW p \in Pids, Hang(p) PROVE Ordinary
  <2>1. Living
    BY <1>2, HangLives DEF MonitorInv
  <2>2. Control' /\ Counts' /\ Gentle
    BY <1>2, ControlSame, CountsFault DEF MonitorInv, Hang, Gentle
  <2> QED
    BY <2>1, <2>2 DEF Ordinary
<1>3. ASSUME NEW p \in Pids, Resume(p) PROVE Ordinary
  <2>1. Living
    BY <1>3, ResumeLives DEF MonitorInv
  <2>2. Control' /\ Counts' /\ Gentle
    BY <1>3, ControlSame, CountsSame DEF MonitorInv, Resume, Gentle
  <2> QED
    BY <2>1, <2>2 DEF Ordinary
<1>4. ASSUME NEW p \in Pids, NEW g \in Groups, StartByHand(p, g) PROVE Ordinary
  <2>1. Living
    BY <1>4, ForkLives DEF MonitorInv, StartByHand
  <2>2. Control' /\ Counts' /\ Gentle
    BY <1>4, ControlSame, CountsFault DEF MonitorInv, StartByHand, Gentle
  <2> QED
    BY <2>1, <2>2 DEF Ordinary
<1> QED
  BY <1>1, <1>2, <1>3, <1>4, CtlQuitStep, CtlCrashStep DEF Environment

LEMMA BeatType ==
  ASSUME NEW p \in Pids, proc[p].grp \in Groups
  PROVE  Beat(p) \in Beats /\ Beat(p).pid = p /\ Beat(p).grp = proc[p].grp
         /\ Beat(p).age = 0
<1>1. 0 \in 0 .. DeadAfter + 1
  BY Sizes
<1> QED
  BY <1>1 DEF Beat, Beats

(* What the end of the loop does to the process and to the queue.          *)
LoopEnds(p) == proc' = [proc EXCEPT ![p] = NoProc]
After(p) == [proc[p] EXCEPT !.age = 0, !.missed = proc[p].missed \/ Lost(p)]
LoopBeats(p) ==
  /\ queue' = Sent(p)
  /\ proc' = [proc EXCEPT ![p] = After(p)]
  /\ ~proc[p].flag

LEMMA LoopRight ==
  ASSUME NEW p \in Pids, Loop(p)
  PROVE  /\ proc[p].st = "running" /\ (LoopEnds(p) \/ LoopBeats(p))
         /\ queue' = queue \/ queue' = Sent(p)
         /\ UNCHANGED <<proclist, events, ctl, faults, starts>>
<1>1. CASE proc[p].flag
  <2>1. LoopEnds(p)
    BY <1>1, Zenon DEF Loop, LoopEnds
  <2> QED
    BY <2>1, Zenon DEF Loop
<1>2. CASE ~proc[p].flag
  <2>1. proc[p].age >= HeartbeatEvery
    BY <1>2, Zenon DEF Loop
  <2>2. queue' = Sent(p)
    BY <2>1, Zenon DEF Loop
  <2> DEFINE x == IF proc[p].flag THEN NoProc ELSE After(p)
  <2>3. proc' = [proc EXCEPT ![p] = x]
    BY DEF Loop, After
  <2>5. x = After(p)
    BY <1>2
  <2> HIDE DEF x
  <2>4. LoopBeats(p)
    BY <1>2, <2>2, <2>3, <2>5 DEF LoopBeats
  <2> QED
    BY <2>2, <2>4, Zenon DEF Loop
<1> QED
  BY <1>1, <1>2

LEMMA LoopProc ==
  ASSUME MonitorInv, NEW p \in Pids, Loop(p)
  PROVE  /\ proc' \in [Pids -> Procs]
         /\ \A q \in Pids \ {p} : proc'[q] = proc[q]
         /\ Lives(p)
         /\ Sound(p)' => /\ Sound(p) /\ proc'[p].age = 0
                         /\ queue' = Append(queue, Beat(p))
         /\ ~Alive(p)' \/ (proc'[p].st = "running" /\ proc'[p].grp = proc[p].grp)
<1>0. proc \in [Pids -> Procs] /\ proc[p].st = "running"
  BY LoopRight DEF MonitorInv
<1>1. CASE LoopEnds(p)
  <2>1. proc' = [proc EXCEPT ![p] = NoProc]
    BY <1>1 DEF LoopEnds
  <2>2. proc' \in [Pids -> Procs] /\ proc'[p] = NoProc
        /\ \A q \in Pids \ {p} : proc'[q] = proc[q]
    BY <1>0, <2>1, NoProcType
  <2> QED
    BY <2>2, NoProcType DEF Lives, Sound, Alive
<1>2. CASE LoopBeats(p)
  <2> DEFINE late == proc[p].missed \/ Lost(p)
             r == After(p)
  <2>1. late \in BOOLEAN
    BY <1>0 DEF Procs
  <2>2. late = FALSE => ~proc[p].missed /\ queue' = Append(queue, Beat(p))
    BY <1>2 DEF LoopBeats, Sent
  <2>3. proc[p].missed => late = TRUE
    BY <2>1
  <2>4. proc' = [proc EXCEPT ![p] = r]
    BY <1>2 DEF LoopBeats
  <2> HIDE DEF late
  <2>5. r \in Procs /\ r.st = "running" /\ r.grp = proc[p].grp /\ r.age = 0
        /\ r.missed = late
    <3>1. 0 \in 0 .. HeartbeatEvery + LoopTime
      BY Sizes
    <3>2. r = [proc[p] EXCEPT !.age = 0, !.missed = late]
      BY DEF After, late
    <3> QED
      BY <1>0, <2>1, <3>1, <3>2 DEF Procs
  <2> HIDE DEF r
  <2>6. proc' \in [Pids -> Procs] /\ proc'[p] = r
        /\ \A q \in Pids \ {p} : proc'[q] = proc[q]
    BY <1>0, <2>4, <2>5
  <2>7. Lives(p)
    BY <1>0, <2>3, <2>5, <2>6 DEF Lives, Goes, Alive, Early
  <2>8. Sound(p)' => /\ Sound(p) /\ proc'[p].age = 0
                     /\ queue' = Append(queue, Beat(p))
    BY <1>0, <2>1, <2>2, <2>5, <2>6 DEF Sound
  <2> QED
    BY <2>5, <2>6, <2>7, <2>8
<1> QED
  BY <1>1, <1>2, LoopRight

LEMMA SentRight ==
  ASSUME MonitorInv, NEW p \in Pids, proc[p].st = "running",
         queue' = queue \/ queue' = Sent(p)
  PROVE  /\ Queue'
         /\ \A q : Mail(q)' \subseteq Mail(q) \cup (IF q = p THEN {proc[p].grp} ELSE {})
<1>1. queue \in Seq(Beats) /\ Len(queue) \in Nat /\ Len(queue) <= MaxQueue
      /\ MaxQueue \in Nat
  BY Sizes DEF MonitorInv, Queue
<1>2. proc[p].grp \in Groups
  BY DEF MonitorInv, Owned, Alive
<1>3. CASE queue' = queue
  BY <1>1, <1>3 DEF Queue, Mail, FromQueue
<1>4. CASE queue' # queue
  <2>1. queue' = Append(queue, Beat(p)) /\ Len(queue) < MaxQueue
    BY <1>1, <1>4 DEF Sent, Lost
  <2>2. PICK m \in Beats : m = Beat(p) /\ m.pid = p /\ m.grp = proc[p].grp
    BY <1>2, BeatType
  <2> DEFINE n == Len(queue)
  <2>3. /\ queue' \in Seq(Beats) /\ Len(queue') = n + 1 /\ DOMAIN queue' = 1 .. n + 1
        /\ queue'[n + 1] = m /\ \A i \in 1 .. n : queue'[i] = queue[i]
        /\ DOMAIN queue = 1 .. n
    BY <1>1, <2>1, <2>2
  <2>4. Queue'
    <3>1. n + 1 <= MaxQueue
      BY <1>1, <2>1
    <3> QED
      BY <2>3, <3>1 DEF Queue
  <2>5. \A i \in 1 .. n + 1 : i \in 1 .. n \/ i = n + 1
    BY <1>1
  <2>6. ASSUME NEW q, NEW g \in Mail(q)', g \notin Mail(q)
        PROVE  q = p /\ g = proc[p].grp
    <3>1. PICK i \in 1 .. n + 1 : queue'[i].pid = q /\ queue'[i].grp = g
      BY <2>3, <2>6 DEF Mail, FromQueue
    <3>2. i \notin 1 .. n
      BY <2>3, <2>6, <3>1 DEF Mail, FromQueue
    <3> QED
      BY <2>2, <2>3, <2>5, <3>1, <3>2
  <2> QED
    BY <2>4, <2>6
<1> QED
  BY <1>3, <1>4

LEMMA LoopStep == ASSUME MonitorInv, NEW p \in Pids, Loop(p) PROVE MonitorInv'
<1>1. /\ proc' \in [Pids -> Procs]
      /\ \A q \in Pids \ {p} : proc'[q] = proc[q]
      /\ ~Alive(p)' \/ (proc'[p].st = "running" /\ proc'[p].grp = proc[p].grp)
  BY LoopProc
<1>2. /\ proc[p].st = "running" /\ (queue' = queue \/ queue' = Sent(p))
      /\ UNCHANGED <<proclist, events, ctl, faults, starts>>
  BY LoopRight
<1>3. /\ Queue'
      /\ \A q : Mail(q)' \subseteq Mail(q) \cup (IF q = p THEN {proc[p].grp} ELSE {})
  BY <1>2, SentRight
<1>4. Control' /\ Counts'
  BY <1>2, ControlSame, CountsSame DEF MonitorInv
<1>5. Lists'
  BY <1>2 DEF MonitorInv, Lists, Distinct
<1>6. ASSUME NEW q
      PROVE  Traces(q)' \subseteq Traces(q) \cup (IF q = p THEN {proc[p].grp} ELSE {})
  <2>1. \A g \in Groups : q \in Listed(g)' <=> q \in Listed(g)
    BY <1>2 DEF Listed
  <2>2. Mail(q)' \subseteq Mail(q) \cup (IF q = p THEN {proc[p].grp} ELSE {})
    BY <1>3
  <2> QED
    BY <2>1, <2>2 DEF Traces
<1>7. ASSUME NEW q \in Pids, q # p
      PROVE  /\ (Alive(q) => proc[q].grp \in Groups)'
             /\ (Alive(q) => Traces(q) \subseteq {proc[q].grp})'
             /\ (proc[q].st \in Early => Traces(q) = {})'
             /\ (proc[q].st = "hung" => proc[q].missed)'
  <2>1. proc'[q] = proc[q] /\ Traces(q)' \subseteq Traces(q)
    BY <1>1, <1>6, <1>7
  <2>2. /\ Alive(q) => proc[q].grp \in Groups
        /\ Alive(q) => Traces(q) \subseteq {proc[q].grp}
        /\ proc[q].st \in Early => Traces(q) = {}
        /\ proc[q].st = "hung" => proc[q].missed
    BY DEF MonitorInv, Owned, HungMissed
  <2> DEFINE T == Traces(q)
  <2> HIDE DEF T
  <2>3. T' \subseteq T
    BY <2>1 DEF T
  <2>4. /\ Alive(q) => T \subseteq {proc[q].grp}
        /\ proc[q].st \in Early => T = {}
    BY <2>2 DEF T
  <2>5. /\ (Alive(q) => T \subseteq {proc[q].grp})'
        /\ (proc[q].st \in Early => T = {})'
    BY <2>1, <2>3, <2>4 DEF Alive
  <2> QED
    BY <2>1, <2>2, <2>5 DEF Alive, T
<1>8. /\ (Alive(p) => proc[p].grp \in Groups)'
      /\ (Alive(p) => Traces(p) \subseteq {proc[p].grp})'
      /\ (proc[p].st \in Early => Traces(p) = {})'
      /\ (proc[p].st = "hung" => proc[p].missed)'
  <2>1. CASE ~Alive(p)'
    BY <2>1 DEF Alive, Early
  <2>2. CASE proc'[p].st = "running" /\ proc'[p].grp = proc[p].grp
    <3>1. proc[p].grp \in Groups /\ Traces(p) \subseteq {proc[p].grp}
      BY <1>2 DEF MonitorInv, Owned, Alive
    <3>2. Traces(p)' \subseteq {proc[p].grp}
      BY <1>6, <3>1
    <3> QED
      BY <2>2, <3>1, <3>2 DEF Early
  <2> QED
    BY <1>1, <2>1, <2>2
<1>9. Owned' /\ HungMissed'
  BY <1>7, <1>8 DEF Owned, HungMissed
<1> QED
  BY <1>1, <1>3, <1>4, <1>5, <1>9 DEF MonitorInv

-----------------------------------------------------------------------------
(* Time passes.                                                            *)
LEMMA OlderRight ==
  ASSUME NEW cap \in Nat, NEW age \in 0 .. cap
  PROVE  Older(age, cap) \in 0 .. cap /\ Older(age, cap) <= age + 1
         /\ (age < cap => Older(age, cap) = age + 1)
BY DEF Older

LEMMA TickRight ==
  ASSUME MonitorInv, Tick
  PROVE  /\ proc' \in [Pids -> Procs]
         /\ \A p \in Pids : /\ proc'[p].st = proc[p].st /\ proc'[p].grp = proc[p].grp
                            /\ proc'[p].missed = proc[p].missed
                            /\ proc[p].st = "running" =>
                                 /\ proc[p].age < HeartbeatEvery + LoopTime
                                 /\ proc'[p].age = proc[p].age + 1
         /\ queue' \in Seq(Beats) /\ Len(queue') = Len(queue)
         /\ \A i \in DOMAIN queue : /\ queue'[i].pid = queue[i].pid
                                    /\ queue'[i].grp = queue[i].grp
                                    /\ queue'[i].age = Older(queue[i].age, DeadAfter + 1)
         /\ proclist' \in [Groups -> Seq(Entry)]
         /\ \A g \in Groups :
              /\ DOMAIN proclist'[g] = DOMAIN proclist[g]
              /\ \A i \in DOMAIN proclist[g] :
                   /\ proclist'[g][i].pid = proclist[g][i].pid
                   /\ proclist'[g][i].age = Older(proclist[g][i].age, DeadAfter + 1)
         /\ ctl' \in Controllers /\ ctl'.pc = ctl.pc /\ ctl'.todo = ctl.todo
         /\ ctl'.age <= CycleTime
         /\ ctl.pc # "down" => ctl'.age = ctl.age + 1
         /\ UNCHANGED <<events, faults, starts>>
<1> DEFINE cap == HeartbeatEvery + LoopTime
           end == DeadAfter + 1
<1>0. cap \in Nat /\ end \in Nat /\ CycleTime \in Nat
  BY Sizes
<1>1. ASSUME NEW p \in Pids
      PROVE  /\ proc'[p] \in Procs
             /\ proc'[p].st = proc[p].st /\ proc'[p].grp = proc[p].grp
             /\ proc'[p].missed = proc[p].missed
             /\ proc[p].st = "running" => /\ proc[p].age < cap
                                          /\ proc'[p].age = proc[p].age + 1
  <2>1. proc[p] \in Procs
    BY DEF MonitorInv
  <2>2. proc[p].age \in 0 .. cap
    BY <2>1 DEF Procs
  <2> DEFINE k == Older(proc[p].age, cap)
             r == [proc[p] EXCEPT !.age = k]
  <2>3. k \in 0 .. cap /\ (proc[p].age < cap => k = proc[p].age + 1)
    BY <1>0, <2>2, OlderRight
  <2>4. proc'[p] = IF Alive(p) THEN r ELSE proc[p]
    BY DEF Tick
  <2> HIDE DEF k
  <2>5. r \in Procs /\ r.st = proc[p].st /\ r.grp = proc[p].grp
        /\ r.missed = proc[p].missed /\ r.age = k
    BY <2>1, <2>3 DEF Procs
  <2> HIDE DEF r
  <2>6. proc[p].st = "running" => proc[p].age < cap /\ Alive(p)
    BY DEF Tick, Alive
  <2> HIDE DEF cap
  <2> QED
    BY <2>1, <2>3, <2>4, <2>5, <2>6
<1>2. proc' \in [Pids -> Procs]
  <2>1. proc' = [p \in Pids |-> proc'[p]]
    BY DEF Tick
  <2> QED
    BY <1>1, <2>1
<1>3. ASSUME NEW m \in Beats
      PROVE  LET r == [m EXCEPT !.age = Older(m.age, end)]
             IN  r \in Beats /\ r.pid = m.pid /\ r.grp = m.grp
                 /\ r.age = Older(m.age, end)
  <2>1. Older(m.age, end) \in 0 .. end
    BY <1>0, OlderRight DEF Beats
  <2> DEFINE k == Older(m.age, end)
  <2> HIDE DEF k
  <2>2. ASSUME k \in 0 .. end
        PROVE  LET r == [m EXCEPT !.age = k]
               IN  r \in Beats /\ r.pid = m.pid /\ r.grp = m.grp /\ r.age = k
    BY <2>2 DEF Beats
  <2> QED
    BY <2>1, <2>2 DEF k
<1>4. ASSUME NEW e \in Entry
      PROVE  LET r == [e EXCEPT !.age = Older(e.age, end)]
             IN  r \in Entry /\ r.pid = e.pid /\ r.age = Older(e.age, end)
  <2>1. Older(e.age, end) \in 0 .. end
    BY <1>0, OlderRight DEF Entry
  <2> DEFINE k == Older(e.age, end)
  <2> HIDE DEF k
  <2>2. ASSUME k \in 0 .. end
        PROVE  LET r == [e EXCEPT !.age = k]
               IN  r \in Entry /\ r.pid = e.pid /\ r.age = k
    BY <2>2 DEF Entry
  <2> QED
    BY <2>1, <2>2 DEF k
<1>5. /\ queue \in Seq(Beats) /\ DOMAIN queue = 1 .. Len(queue) /\ Len(queue) \in Nat
      /\ queue' = [i \in DOMAIN queue |->
                     [queue[i] EXCEPT !.age = Older(queue[i].age, end)]]
  BY DEF MonitorInv, Queue, Tick
<1>6. ASSUME NEW i \in DOMAIN queue
      PROVE  /\ queue'[i] \in Beats
             /\ queue'[i].pid = queue[i].pid /\ queue'[i].grp = queue[i].grp
             /\ queue'[i].age = Older(queue[i].age, end)
  <2>1. queue[i] \in Beats
    BY <1>5
  <2>2. queue'[i] = [queue[i] EXCEPT !.age = Older(queue[i].age, end)]
    BY <1>5, Zenon
  <2> HIDE DEF end
  <2> QED
    BY <1>3, <2>1, <2>2
<1>7. queue' \in Seq(Beats) /\ Len(queue') = Len(queue)
  <2>1. queue' = [i \in 1 .. Len(queue) |-> queue'[i]]
    BY <1>5
  <2>2. \A i \in 1 .. Len(queue) : queue'[i] \in Beats
    BY <1>5, <1>6
  <2> QED
    BY <1>5, <2>1, <2>2
<1>8. ASSUME NEW g \in Groups
      PROVE  /\ proclist'[g] \in Seq(Entry)
             /\ DOMAIN proclist'[g] = DOMAIN proclist[g]
             /\ \A i \in DOMAIN proclist[g] :
                  /\ proclist'[g][i].pid = proclist[g][i].pid
                  /\ proclist'[g][i].age = Older(proclist[g][i].age, end)
  <2> DEFINE list == proclist[g]
             new == proclist'[g]
  <2>1. /\ list \in Seq(Entry) /\ DOMAIN list = 1 .. Len(list) /\ Len(list) \in Nat
    BY EntryType DEF MonitorInv
  <2>2. new = [i \in DOMAIN list |-> [list[i] EXCEPT !.age = Older(list[i].age, end)]]
    BY DEF Tick
  <2> HIDE DEF list, new, end
  <2>3. ASSUME NEW i \in DOMAIN list
        PROVE  /\ new[i] \in Entry /\ new[i].pid = list[i].pid
               /\ new[i].age = Older(list[i].age, end)
    <3>1. list[i] \in Entry
      BY <2>1
    <3>2. new[i] = [list[i] EXCEPT !.age = Older(list[i].age, end)]
      BY <2>2, Zenon
    <3> QED
      BY <1>4, <3>1, <3>2
  <2>4. new = [i \in 1 .. Len(list) |-> new[i]] /\ DOMAIN new = DOMAIN list
    BY <2>1, <2>2
  <2>5. new \in Seq(Entry)
    BY <2>1, <2>3, <2>4
  <2> QED
    BY <2>3, <2>4, <2>5 DEF list, new
<1>9. proclist' \in [Groups -> Seq(Entry)]
  <2>1. proclist' = [g \in Groups |-> proclist'[g]]
    BY DEF Tick
  <2> QED
    BY <1>8, <2>1
<1>10. /\ ctl' \in Controllers /\ ctl'.pc = ctl.pc /\ ctl'.todo = ctl.todo
       /\ ctl'.age <= CycleTime
       /\ ctl.pc # "down" => ctl'.age = ctl.age + 1
  <2> DEFINE k == IF At("down") THEN 0 ELSE ctl.age + 1
  <2>1. ctl \in Controllers /\ ctl.age \in Nat
    BY DEF MonitorInv, Control, Controllers
  <2>2. k \in Nat /\ k <= CycleTime /\ (ctl.pc # "down" => k = ctl.age + 1)
    BY <1>0, <2>1 DEF Tick, At
  <2>3. ctl' = [ctl EXCEPT !.age = k]
    BY DEF Tick
  <2> HIDE DEF k
  <2> QED
    BY <2>1, <2>2, <2>3 DEF Controllers
<1>11. UNCHANGED <<events, faults, starts>>
  BY DEF Tick
<1> QED
  BY <1>1, <1>2, <1>6, <1>7, <1>8, <1>9, <1>10, <1>11

LEMMA TickStep == MonitorInv /\ Tick => MonitorInv'
<1> SUFFICES ASSUME MonitorInv, Tick PROVE MonitorInv'
  OBVIOUS
<1> DEFINE SameProc(p) == /\ proc'[p].st = proc[p].st /\ proc'[p].grp = proc[p].grp
                          /\ proc'[p].missed = proc[p].missed
<1>1. proc' \in [Pids -> Procs] /\ \A p \in Pids : SameProc(p)
  BY TickRight
<1>2. /\ queue' \in Seq(Beats) /\ Len(queue') = Len(queue)
      /\ \A i \in DOMAIN queue : /\ queue'[i].pid = queue[i].pid
                                 /\ queue'[i].grp = queue[i].grp
  BY TickRight
<1>3. /\ proclist' \in [Groups -> Seq(Entry)]
      /\ \A g \in Groups :
           /\ DOMAIN proclist'[g] = DOMAIN proclist[g]
           /\ \A i \in DOMAIN proclist[g] : proclist'[g][i].pid = proclist[g][i].pid
  BY TickRight
<1>4. /\ ctl' \in Controllers /\ ctl'.pc = ctl.pc /\ ctl'.todo = ctl.todo
      /\ ctl'.age <= CycleTime
      /\ UNCHANGED <<events, faults, starts>>
  BY TickRight
<1>5. Queue'
  BY <1>2 DEF MonitorInv, Queue
<1>6. Lists'
  BY <1>3 DEF MonitorInv, Lists, Distinct
<1>7. Control' /\ Counts'
  BY <1>4, CountsSame DEF MonitorInv, Control
<1>8. \A p : Traces(p)' = Traces(p)
  <2> SUFFICES ASSUME NEW p PROVE Traces(p)' = Traces(p)
    OBVIOUS
  <2>1. DOMAIN queue' = DOMAIN queue
    BY <1>2 DEF MonitorInv, Queue
  <2>2. FromQueue(p)' = FromQueue(p)
    BY <1>2, <2>1 DEF FromQueue
  <2>3. \A i \in FromQueue(p) : queue'[i].grp = queue[i].grp
    BY <1>2 DEF FromQueue
  <2>4. Mail(p)' = Mail(p)
    BY <2>2, <2>3 DEF Mail
  <2>5. \A g \in Groups : Listed(g)' = Listed(g)
    BY <1>3 DEF Listed
  <2> QED
    BY <2>4, <2>5 DEF Traces
<1>9. ASSUME NEW p \in Pids
      PROVE  /\ (Alive(p) => proc[p].grp \in Groups)'
             /\ (Alive(p) => Traces(p) \subseteq {proc[p].grp})'
             /\ (proc[p].st \in Early => Traces(p) = {})'
             /\ (proc[p].st = "hung" => proc[p].missed)'
  <2>1. SameProc(p) /\ Traces(p)' = Traces(p)
    BY <1>1, <1>8
  <2>2. /\ Alive(p) => proc[p].grp \in Groups
        /\ Alive(p) => Traces(p) \subseteq {proc[p].grp}
        /\ proc[p].st \in Early => Traces(p) = {}
        /\ proc[p].st = "hung" => proc[p].missed
    BY DEF MonitorInv, Owned, HungMissed
  <2> QED
    BY <2>1, <2>2 DEF Alive
<1>10. Owned' /\ HungMissed'
  BY <1>9 DEF Owned, HungMissed
<1> QED
  BY <1>1, <1>5, <1>6, <1>7, <1>10 DEF MonitorInv

-----------------------------------------------------------------------------
LEMMA StillInv == MonitorInv /\ UNCHANGED vars => MonitorInv'
<1> SUFFICES ASSUME MonitorInv, UNCHANGED vars PROVE MonitorInv'
  OBVIOUS
<1>1. Ordinary
  BY SameLives, ControlSame, CountsSame DEF Ordinary, Gentle, MonitorInv, vars
<1> QED
  BY <1>1, OrdinaryInv

LEMMA MonitorInvStep == MonitorInv /\ [Next]_vars => MonitorInv'
BY TickStep, ControllerStep, EnvironmentStep, StartsStep, LoopStep, OrdinaryInv, StillInv
   DEF Next, Process

LEMMA AlwaysMonitor == Spec => []MonitorInv
BY InitMonitor, MonitorInvStep, PTL DEF Spec

(* Every variable keeps its type, a process is listed once, and only under *)
(* the group it belongs to, whatever is started, lost, killed or removed.  *)
THEOREM MonitorTypes == Spec => []TypeOK
BY AlwaysMonitor, MonitorInvTypes, PTL

-----------------------------------------------------------------------------
(* Who is killed.  A process that is well shows its age in its last        *)
(* message, or, once that is taken, in its entry.                          *)
LastOf(p) == {i \in FromQueue(p) : \A j \in FromQueue(p) : j <= i}
FreshAt(p) ==
  /\ \A i \in LastOf(p) : queue[i].age = proc[p].age
  /\ FromQueue(p) = {} =>
       \A g \in Groups : \A e \in Entries(g) : e.pid = p => e.age = proc[p].age
Fresh == \A p \in Pids : Sound(p) => FreshAt(p)

(* Once the queue was found empty, nobody's entry is older than that.      *)
Drained ==
  At("check") =>
    \A g \in Groups : \A e \in Entries(g) :
      Sound(e.pid) => e.age <= HeartbeatEvery + LoopTime + ctl.age

Condemned ==
  \A v \in ToSet(events) :
    v.kind = "dead" => v.pid \in Pids /\ (Alive(v.pid) => proc[v.pid].missed)

SilenceInv == MonitorInv /\ Fresh /\ Drained /\ Condemned

(* The controller waits longer than a heartbeat can be on its way.         *)
Patient == HeartbeatEvery + LoopTime + CycleTime <= DeadAfter

LEMMA NoTraces ==
  ASSUME NEW p, Traces(p) = {}
  PROVE  FromQueue(p) = {} /\ \A g \in Groups : \A e \in Entries(g) : e.pid # p
<1>1. Mail(p) = {} /\ \A g \in Groups : p \notin Listed(g)
  BY DEF Traces
<1>2. FromQueue(p) = {}
  BY <1>1 DEF Mail
<1>3. ASSUME NEW g \in Groups, NEW e \in Entries(g) PROVE e.pid # p
  BY <1>1, <1>3 DEF Entries, Listed, ToSet
<1> QED
  BY <1>2, <1>3

(* Taking a message leaves the last of each process the last.              *)
LEMMA TakenLast ==
  ASSUME Queue, NEW i, Taken(i), NEW p, NEW l \in LastOf(p)'
  PROVE  \E k \in LastOf(p) : queue[k] = queue'[l]
<1> DEFINE n == Len(queue)
           S(j) == IF j < i THEN j ELSE j + 1
<1>1. /\ queue \in Seq(Beats) /\ n \in Nat /\ DOMAIN queue = 1 .. n
      /\ i \in 1 .. n /\ i \in DOMAIN queue
  BY DEF Queue, Taken
<1>2. /\ Len(queue') = n - 1 /\ queue' \in Seq(Beats) /\ DOMAIN queue' = 1 .. n - 1
      /\ \A j \in DOMAIN queue' : queue'[j] = queue[S(j)]
  BY <1>1 DEF Taken
<1>3. l \in 1 .. n - 1 /\ queue'[l].pid = p
  BY <1>2 DEF LastOf, FromQueue
<1>4. S(l) \in 1 .. n
  BY <1>1, <1>3
<1>5. queue'[l] = queue[S(l)]
  BY <1>2, <1>3
<1>6. S(l) \in FromQueue(p)
  <2> HIDE DEF S
  <2> QED
    BY <1>1, <1>3, <1>4, <1>5 DEF FromQueue
<1>7. ASSUME NEW k \in FromQueue(p) PROVE k <= S(l)
  <2>1. k \in 1 .. n /\ queue[k].pid = p
    BY <1>1 DEF FromQueue
  <2>2. CASE k = i
    <3>1. S(l) \in FromQueue(queue[i].pid)
      BY <1>6, <2>1, <2>2
    <3> HIDE DEF S
    <3> QED
      BY <2>2, <3>1 DEF Taken
  <2>3. CASE k # i
    <3> DEFINE j == IF k < i THEN k ELSE k - 1
    <3>1. j \in 1 .. n - 1 /\ S(j) = k
      BY <1>1, <2>1, <2>3
    <3> HIDE DEF j
    <3>2. queue'[j] = queue[k]
      <4> HIDE DEF S
      <4> QED
        BY <1>2, <3>1
    <3>3. j \in FromQueue(p)'
      BY <1>2, <2>1, <3>1, <3>2 DEF FromQueue
    <3>4. j <= l
      BY <3>3 DEF LastOf
    <3> QED
      BY <1>1, <1>3, <3>1, <3>4
  <2> QED
    BY <2>2, <2>3
<1>8. S(l) \in LastOf(p)
  <2> HIDE DEF S
  <2> QED
    BY <1>6, <1>7 DEF LastOf
<1> HIDE DEF S
<1> QED
  BY <1>5, <1>8

(* And what is gone from the queue was the last of its process.            *)
LEMMA TakenAll ==
  ASSUME Queue, NEW i, Taken(i), NEW p, FromQueue(p)' = {}
  PROVE  FromQueue(p) \subseteq {i}
<1> DEFINE n == Len(queue)
           S(j) == IF j < i THEN j ELSE j + 1
<1>1. /\ queue \in Seq(Beats) /\ n \in Nat /\ DOMAIN queue = 1 .. n /\ i \in 1 .. n
  BY DEF Queue, Taken
<1>2. /\ DOMAIN queue' = 1 .. n - 1
      /\ \A j \in DOMAIN queue' : queue'[j] = queue[S(j)]
  BY <1>1 DEF Taken
<1> SUFFICES ASSUME NEW k \in FromQueue(p), k # i PROVE FALSE
  OBVIOUS
<1>3. k \in 1 .. n /\ queue[k].pid = p
  BY <1>1 DEF FromQueue
<1> DEFINE j == IF k < i THEN k ELSE k - 1
<1>4. j \in 1 .. n - 1 /\ S(j) = k
  BY <1>1, <1>3
<1> HIDE DEF j, S
<1>5. queue'[j] = queue[k]
  BY <1>2, <1>4
<1> QED
  BY <1>2, <1>3, <1>4, <1>5 DEF FromQueue

LEMMA TakenFresh ==
  ASSUME MonitorInv, NEW i, Taken(i), NEW p \in Pids, Alive(p), FreshAt(p),
         proc'[p].age = proc[p].age
  PROVE  FreshAt(p)'
<1>0. Queue /\ Lists /\ Traces(p) \subseteq {proc[p].grp}
  BY DEF MonitorInv, Owned
<1>1. i \in DOMAIN queue /\ queue \in Seq(Beats)
  BY <1>0 DEF Queue, Taken
<1>2. PICK m \in Beats : m = queue[i]
  BY <1>1
<1>3. /\ \A g \in Groups : g # m.grp => proclist'[g] = proclist[g]
      /\ \A e : e \in Entries(m.grp)' <=> \/ e = CProc(m.pid, m.age)
                                          \/ e \in Entries(m.grp) /\ e.pid # m.pid
      /\ m.grp \in Groups
  <2>1. Heard(m)
    BY <1>2 DEF Taken
  <2> QED
    BY <1>0, <2>1, HeardRight
<1>4. ASSUME NEW l \in LastOf(p)' PROVE queue'[l].age = proc'[p].age
  <2>1. \E k \in LastOf(p) : queue[k] = queue'[l]
    BY <1>0, TakenLast
  <2> QED
    BY <2>1 DEF FreshAt
<1>5. ASSUME FromQueue(p)' = {}, NEW g \in Groups, NEW e \in Entries(g)', e.pid = p
      PROVE  e.age = proc'[p].age
  <2>1. FromQueue(p) \subseteq {i}
    BY <1>0, <1>5, TakenAll
  <2>2. CASE m.pid # p
    <3>1. FromQueue(p) = {}
      BY <1>2, <2>1, <2>2 DEF FromQueue
    <3>2. e \in Entries(g)
      <4>1. CASE g = m.grp
        BY <1>3, <1>5, <2>2, <4>1 DEF CProc
      <4>2. CASE g # m.grp
        BY <1>3, <4>2 DEF Entries
      <4> QED
        BY <4>1, <4>2
    <3> QED
      BY <1>5, <3>1, <3>2 DEF FreshAt
  <2>3. CASE m.pid = p
    <3>1. i \in FromQueue(p)
      BY <1>1, <1>2, <2>3 DEF FromQueue
    <3>2. i \in LastOf(p)
      <4>1. i <= i
        BY <1>1
      <4> QED
        BY <2>1, <3>1, <4>1 DEF LastOf
    <3>3. m.age = proc[p].age
      BY <1>2, <3>2 DEF FreshAt
    <3>4. CASE g = m.grp
      BY <1>3, <1>5, <2>3, <3>3, <3>4 DEF CProc
    <3>5. CASE g # m.grp
      <4>1. e \in Entries(g)
        BY <1>3, <3>5 DEF Entries
      <4>2. g \in Traces(p)
        BY <1>0, <1>5, <4>1, EntryType DEF Traces
      <4>3. m.grp \in Traces(p)
        BY <1>2, <3>1 DEF Traces, Mail
      <4> QED
        BY <1>0, <3>5, <4>2, <4>3
    <3> QED
      BY <3>4, <3>5
  <2> QED
    BY <2>2, <2>3
<1> QED
  BY <1>4, <1>5 DEF FreshAt

LEMMA OrdinaryFresh == MonitorInv /\ Fresh /\ Ordinary => Fresh'
<1> SUFFICES ASSUME MonitorInv, Fresh, Ordinary, NEW p \in Pids, Sound(p)'
             PROVE  FreshAt(p)'
  BY DEF Fresh
<1>0. Queue /\ Lists
  BY DEF MonitorInv
<1>1. CASE proc[p].st \in Early
  <2>1. Traces(p) = {}
    BY <1>1 DEF MonitorInv, Owned
  <2>2. Fewer
    BY <1>0, SameFewer, TakenFewer, ForgetFewer, NoneFewer
       DEF Ordinary, Gentle, Removed
  <2>3. (Traces(p) = {})'
    BY <2>1, <2>2 DEF Fewer
  <2>4. (FromQueue(p) = {})' /\ (\A g \in Groups : \A e \in Entries(g) : e.pid # p)'
    <3>1. (Mail(p) = {} /\ \A g \in Groups : p \notin Listed(g))'
      BY <2>3 DEF Traces
    <3>2. (FromQueue(p) = {})'
      BY <3>1 DEF Mail
    <3> QED
      BY <3>1, <3>2 DEF Entries, Listed, ToSet
  <2> QED
    BY <2>4 DEF FreshAt, LastOf
<1>2. CASE proc[p].st \notin Early
  <2>1. Sound(p) /\ proc'[p].age = proc[p].age
    BY <1>2 DEF Ordinary, Living, Steady
  <2>2. FreshAt(p) /\ Alive(p)
    BY <2>1 DEF Fresh, Sound, Alive
  <2>3. CASE UNCHANGED <<queue, proclist>>
    BY <2>1, <2>2, <2>3 DEF FreshAt, LastOf, FromQueue, Entries
  <2>4. ASSUME NEW i, Taken(i) PROVE FreshAt(p)'
    BY <2>1, <2>2, <2>4, TakenFresh
  <2>5. ASSUME NEW h \in Groups, NEW q, Removed(h, q) PROVE FreshAt(p)'
    <3>1. /\ \A g \in Groups : g # h => proclist'[g] = proclist[g]
          /\ \A e : e \in Entries(h)' <=> e \in Entries(h) /\ e.pid # q
      BY <1>0, <2>5, ForgetRight DEF Removed
    <3>2. \A g \in Groups : \A e \in Entries(g)' : e \in Entries(g)
      <4> SUFFICES ASSUME NEW g \in Groups, NEW e \in Entries(g)'
                   PROVE  e \in Entries(g)
        OBVIOUS
      <4> QED
        BY <3>1 DEF Entries
    <3>3. UNCHANGED queue
      BY <2>5 DEF Removed
    <3>4. FromQueue(p)' = FromQueue(p) /\ LastOf(p)' = LastOf(p)
      BY <3>3 DEF FromQueue, LastOf
    <3> QED
      BY <2>1, <2>2, <3>2, <3>3, <3>4 DEF FreshAt
  <2>6. CASE queue' = <<>> /\ proclist' = EmptyGroups
    <3>1. FromQueue(p)' = {}
      BY <2>6 DEF FromQueue
    <3>2. \A g \in Groups : Entries(g)' = {}
      BY <2>6 DEF Entries, EmptyGroups, ToSet
    <3> QED
      BY <3>1, <3>2 DEF FreshAt, LastOf
  <2> QED
    BY <2>3, <2>4, <2>5, <2>6 DEF Ordinary, Gentle
<1> QED
  BY <1>1, <1>2

LEMMA LoopFresh == ASSUME MonitorInv, Fresh, NEW p \in Pids, Loop(p) PROVE Fresh'
<1>1. /\ \A q \in Pids \ {p} : proc'[q] = proc[q]
      /\ Sound(p)' => /\ Sound(p) /\ proc'[p].age = 0
                      /\ queue' = Append(queue, Beat(p))
  BY LoopProc
<1>2. /\ proc[p].st = "running" /\ (queue' = queue \/ queue' = Sent(p))
      /\ UNCHANGED proclist
  BY LoopRight
<1>3. /\ queue \in Seq(Beats) /\ DOMAIN queue = 1 .. Len(queue) /\ Len(queue) \in Nat
      /\ proc[p].grp \in Groups
  BY <1>2 DEF MonitorInv, Queue, Owned, Alive
<1>4. PICK m \in Beats : m = Beat(p) /\ m.pid = p /\ m.age = 0
  BY <1>3, BeatType
<1> DEFINE n == Len(queue)
<1>5. queue' = queue \/ queue' = Append(queue, m)
  BY <1>2, <1>4 DEF Sent
<1>6. ASSUME queue' = Append(queue, m)
      PROVE  /\ DOMAIN queue' = 1 .. n + 1 /\ queue'[n + 1] = m
             /\ \A i \in 1 .. n : queue'[i] = queue[i]
             /\ \A i \in 1 .. n + 1 : i \in 1 .. n \/ i = n + 1
  BY <1>3, <1>6
<1>7. ASSUME NEW q \in Pids, q # p, Sound(q)' PROVE FreshAt(q)'
  <2>1. proc'[q] = proc[q] /\ FreshAt(q)
    BY <1>1, <1>7 DEF Sound, Fresh
  <2>2. /\ FromQueue(q)' = FromQueue(q)
        /\ \A i \in FromQueue(q) : queue'[i] = queue[i]
    <3>1. CASE queue' = queue
      BY <3>1 DEF FromQueue
    <3>2. CASE queue' = Append(queue, m)
      <4> HIDE DEF n
      <4>1. n \in Nat /\ DOMAIN queue = 1 .. n
        BY <1>3 DEF n
      <4>2. 1 .. n \subseteq 1 .. n + 1
        BY <4>1
      <4> QED
        BY <1>4, <1>6, <1>7, <3>2, <4>1, <4>2 DEF FromQueue
    <3> QED
      BY <1>5, <3>1, <3>2
  <2>3. LastOf(q)' = LastOf(q) /\ LastOf(q) \subseteq FromQueue(q)
    BY <2>2 DEF LastOf
  <2>4. \A i \in LastOf(q) : queue'[i].age = proc'[q].age
    BY <2>1, <2>2, <2>3 DEF FreshAt
  <2>5. FromQueue(q) = {} =>
          \A g \in Groups : \A e \in Entries(g)' : e.pid = q => e.age = proc'[q].age
    BY <1>2, <2>1 DEF FreshAt, Entries
  <2> QED
    BY <2>2, <2>3, <2>4, <2>5 DEF FreshAt
<1>8. ASSUME Sound(p)' PROVE FreshAt(p)'
  <2>1. proc'[p].age = 0 /\ queue' = Append(queue, m)
    BY <1>1, <1>4, <1>8
  <2>2. n + 1 \in FromQueue(p)' /\ \A i \in FromQueue(p)' : i \in 1 .. n + 1
    <3>1. n + 1 \in 1 .. n + 1
      BY <1>3
    <3> QED
      BY <1>4, <1>6, <2>1, <3>1 DEF FromQueue
  <2>3. \A i \in LastOf(p)' : i = n + 1
    <3> SUFFICES ASSUME NEW i \in LastOf(p)' PROVE i = n + 1
      OBVIOUS
    <3>1. i \in 1 .. n + 1 /\ n + 1 <= i
      BY <2>2 DEF LastOf
    <3> QED
      BY <1>3, <3>1
  <2>4. queue'[n + 1].age = 0
    BY <1>4, <1>6, <2>1
  <2> HIDE DEF n
  <2> QED
    BY <2>1, <2>2, <2>3, <2>4 DEF FreshAt
<1> QED
  BY <1>7, <1>8 DEF Fresh

LEMMA TickFresh == ASSUME MonitorInv, Fresh, Patient, Tick PROVE Fresh'
<1> SUFFICES ASSUME NEW p \in Pids, Sound(p)' PROVE FreshAt(p)'
  BY DEF Fresh
<1>1. /\ proc'[p].st = proc[p].st /\ proc'[p].missed = proc[p].missed
      /\ proc[p].st = "running" =>
           proc[p].age < HeartbeatEvery + LoopTime /\ proc'[p].age = proc[p].age + 1
  BY TickRight
<1>2. Sound(p) /\ FreshAt(p) /\ proc'[p].age = proc[p].age + 1
      /\ proc[p].age < HeartbeatEvery + LoopTime
  BY <1>1 DEF Sound, Fresh
<1>3. proc[p].age \in Nat
  <2>1. proc[p] \in Procs
    BY DEF MonitorInv
  <2> QED
    BY <2>1 DEF Procs
<1>4. Older(proc[p].age, DeadAfter + 1) = proc[p].age + 1
  BY <1>2, <1>3, Sizes DEF Older, Patient
<1>5. /\ queue \in Seq(Beats) /\ queue' \in Seq(Beats) /\ Len(queue') = Len(queue)
      /\ \A i \in DOMAIN queue : /\ queue'[i].pid = queue[i].pid
                                 /\ queue'[i].age = Older(queue[i].age, DeadAfter + 1)
  BY TickRight DEF MonitorInv, Queue
<1>6. DOMAIN queue' = DOMAIN queue
  BY <1>5
<1>7. FromQueue(p)' = FromQueue(p)
  BY <1>5, <1>6 DEF FromQueue
<1>8. LastOf(p)' = LastOf(p) /\ LastOf(p) \subseteq DOMAIN queue
  BY <1>7 DEF LastOf, FromQueue
<1>9. ASSUME NEW i \in LastOf(p) PROVE queue'[i].age = proc'[p].age
  <2>1. queue[i].age = proc[p].age
    BY <1>2 DEF FreshAt
  <2>2. queue'[i].age = Older(queue[i].age, DeadAfter + 1)
    BY <1>5, <1>8
  <2> QED
    BY <1>2, <1>4, <2>1, <2>2
<1>10. ASSUME FromQueue(p) = {}, NEW g \in Groups, NEW e \in Entries(g)', e.pid = p
       PROVE  e.age = proc'[p].age
  <2>1. /\ DOMAIN proclist'[g] = DOMAIN proclist[g]
        /\ \A i \in DOMAIN proclist[g] :
             /\ proclist'[g][i].pid = proclist[g][i].pid
             /\ proclist'[g][i].age = Older(proclist[g][i].age, DeadAfter + 1)
    BY TickRight
  <2>2. PICK i \in DOMAIN proclist[g] : e = proclist'[g][i]
    BY <1>10, <2>1 DEF Entries, ToSet
  <2>3. proclist[g][i].pid = p /\ e.age = Older(proclist[g][i].age, DeadAfter + 1)
    BY <1>10, <2>1, <2>2
  <2>4. proclist[g][i] \in Entries(g)
    BY DEF Entries, ToSet
  <2>5. proclist[g][i].age = proc[p].age
    BY <1>2, <1>10, <2>3, <2>4 DEF FreshAt
  <2> QED
    BY <1>2, <1>4, <2>3, <2>5
<1> QED
  BY <1>7, <1>8, <1>9, <1>10 DEF FreshAt

(* Only doRecv's last look at the queue brings the controller to doCheck.  *)
Stays == At("check") /\ ctl'.age = ctl.age /\ UNCHANGED proclist
Empties == queue = <<>> /\ UNCHANGED <<queue, proclist, proc>> /\ ctl'.age = ctl.age

LEMMA GoneElsewhere ==
  ASSUME MonitorInv, NEW pc \in Places \ {"check"}, Goto(pc)
  PROVE  ~At("check")'
BY GotoRight DEF MonitorInv, Control, At

LEMMA ToCheck ==
  ASSUME MonitorInv, Controller \/ Environment \/ \E p \in Pids : Process(p),
         At("check")'
  PROVE  Stays \/ Empties
<1>1. ctl \in Controllers
  BY DEF MonitorInv, Control
<1>2. CASE CtlStart \/ CtlCrash \/ CtlWake \/ CtlCheck \/ CtlSpawned \/ CtlKill
           \/ CtlKilled \/ CtlDead \/ CtlBury
  <2>1. CASE ctl' = Stopped \/ ctl' = [Stopped EXCEPT !.pc = "recv"]
    BY <2>1, StoppedRight DEF At
  <2>2. CASE UNCHANGED ctl /\ At("bury")
    BY <2>2 DEF At
  <2>3. ASSUME NEW pc \in Places \ {"check"}, Goto(pc) PROVE FALSE
    BY <2>3, GoneElsewhere
  <2>4. CASE Goto("recv") \/ Goto("event") \/ Goto("reap") \/ Goto("bury")
    <3>1. {"recv", "event", "reap", "bury"} \subseteq Places \ {"check"}
      BY DEF Places
    <3> QED
      BY <2>3, <2>4, <3>1
  <2> QED
    BY <1>2, <2>1, <2>2, <2>4
       DEF CtlStart, CtlCrash, CtlWake, CtlCheck, CtlSpawned, CtlKill, CtlKilled,
           CtlDead, CtlBury
<1>3. CASE CtlDown \/ CtlUp \/ CtlSleep \/ \E p \in Pids : CtlSpawn(p)
  <2>1. ASSUME NEW k, ctl' = [ctl EXCEPT !.pc = "spawn", !.n = k] PROVE FALSE
    BY <1>1, <2>1 DEF At, Controllers
  <2>2. ASSUME NEW k, ctl' = [ctl EXCEPT !.pc = "kill", !.todo = k] PROVE FALSE
    BY <1>1, <2>2 DEF At, Controllers
  <2>3. ASSUME ctl' = [ctl EXCEPT !.pc = "sleep", !.age = 0] PROVE FALSE
    BY <1>1, <2>3 DEF At, Controllers
  <2>4. ASSUME NEW k, ctl' = [ctl EXCEPT !.n = k], At("spawn") PROVE FALSE
    BY <1>1, <2>4 DEF At, Controllers
  <2> QED
    BY <1>3, <2>1, <2>2, <2>3, <2>4 DEF CtlDown, CtlUp, CtlSleep, CtlSpawn
<1>4. CASE CtlReap
  <2>1. ASSUME ctl' = [ctl EXCEPT !.pc = "kill", !.todo = Tail(ctl.todo)] PROVE FALSE
    BY <1>1, <2>1 DEF At, Controllers
  <2> QED
    BY <1>4, <2>1 DEF CtlReap, At
<1>5. CASE CtlRecv
  <2>1. CASE queue = <<>>
    <3>1. Goto("check") /\ UNCHANGED <<queue, proclist, proc>>
      BY <1>5, <2>1 DEF CtlRecv
    <3> QED
      BY <1>1, <2>1, <3>1, GotoRight DEF Empties, Places
  <2>2. CASE queue # <<>>
    BY <1>5, <2>2 DEF CtlRecv, At
  <2> QED
    BY <2>1, <2>2
<1>6. CASE CtlQuit
  <2>1. ctl' = [ctl EXCEPT !.quit = TRUE] /\ UNCHANGED proclist
    BY <1>6 DEF CtlQuit
  <2>2. ctl'.pc = ctl.pc /\ ctl'.age = ctl.age
    BY <1>1, <2>1 DEF Controllers
  <2> QED
    BY <2>1, <2>2 DEF Stays, At
<1>7. CASE UNCHANGED <<ctl, proclist>>
  BY <1>7 DEF Stays, At
<1> QED
  BY <1>2, <1>3, <1>4, <1>5, <1>6, <1>7
     DEF Controller, Environment, Process, Crash, Hang, Resume, StartByHand,
         StartProxy, StartWorker, Loop

(* A process that is well after a step was well before, or not yet known.  *)
LEMMA WellBefore ==
  ASSUME MonitorInv, NEW p \in Pids, Sound(p)',
         Living \/ \E q \in Pids : Loop(q)
  PROVE  Traces(p) = {} \/ Sound(p)
<1>1. CASE Living
  BY <1>1 DEF Living, Steady, MonitorInv, Owned
<1>2. ASSUME NEW q \in Pids, Loop(q) PROVE Sound(p)
  <2>1. CASE p = q
    BY <1>2, <2>1, LoopProc
  <2>2. CASE p # q
    <3>1. proc'[p] = proc[p]
      BY <1>2, <2>2, LoopProc
    <3> QED
      BY <3>1 DEF Sound
  <2> QED
    BY <2>1, <2>2
<1> QED
  BY <1>1, <1>2

LEMMA StepDrained ==
  ASSUME MonitorInv, Fresh, Drained, MonitorInv',
         Controller \/ Environment \/ \E p \in Pids : Process(p)
  PROVE  Drained'
<1> SUFFICES ASSUME At("check")', NEW g \in Groups, NEW e \in Entries(g)',
                    Sound(e.pid)'
             PROVE  e.age <= HeartbeatEvery + LoopTime + ctl'.age
  BY DEF Drained
<1>1. Living \/ \E q \in Pids : Loop(q)
  BY ControllerStep, EnvironmentStep, StartsStep DEF Ordinary, Process
<1>2. Stays \/ Empties
  BY ToCheck
<1>3. e \in Entries(g)
  BY <1>2 DEF Stays, Empties, Entries
<1>4. e \in Entry /\ e.pid \in Pids
  BY <1>3, EntryType DEF MonitorInv, Entry
<1>5. g \in Traces(e.pid)
  BY <1>3, EntryType DEF MonitorInv, Traces
<1>6. PICK p \in Pids : p = e.pid
  BY <1>4
<1>7. Sound(p)
  BY <1>1, <1>5, <1>6, WellBefore
<1>8. CASE Stays
  BY <1>3, <1>6, <1>7, <1>8 DEF Stays, Drained
<1>9. CASE Empties
  <2>1. FromQueue(p) = {}
    BY <1>9 DEF Empties, FromQueue
  <2>2. e.age = proc[p].age
    BY <1>3, <1>6, <1>7, <2>1 DEF Fresh, FreshAt
  <2>3. proc[p] \in Procs /\ ctl' \in Controllers
    BY DEF MonitorInv, Control
  <2>4. proc[p].age \in 0 .. HeartbeatEvery + LoopTime /\ ctl'.age \in Nat
    BY <2>3 DEF Procs, Controllers
  <2> QED
    BY <2>2, <2>4, Sizes
<1> QED
  BY <1>2, <1>8, <1>9

LEMMA TickDrained == ASSUME MonitorInv, Drained, Tick PROVE Drained'
<1> SUFFICES ASSUME At("check")', NEW g \in Groups, NEW e \in Entries(g)',
                    Sound(e.pid)'
             PROVE  e.age <= HeartbeatEvery + LoopTime + ctl'.age
  BY DEF Drained
<1>1. ctl'.pc = ctl.pc /\ (ctl.pc # "down" => ctl'.age = ctl.age + 1)
  BY TickRight
<1>2. At("check") /\ ctl'.age = ctl.age + 1 /\ ctl.age \in Nat
  BY <1>1 DEF At, MonitorInv, Control, Controllers
<1>3. /\ DOMAIN proclist'[g] = DOMAIN proclist[g]
      /\ \A i \in DOMAIN proclist[g] :
           /\ proclist'[g][i].pid = proclist[g][i].pid
           /\ proclist'[g][i].age = Older(proclist[g][i].age, DeadAfter + 1)
  BY TickRight
<1>4. PICK i \in DOMAIN proclist[g] : e = proclist'[g][i]
  BY <1>3 DEF Entries, ToSet
<1>5. PICK d \in Entries(g) : d = proclist[g][i]
  BY DEF Entries, ToSet
<1>6. d \in Entry /\ d.pid = e.pid /\ e.age = Older(d.age, DeadAfter + 1)
  BY <1>3, <1>4, <1>5, EntryType DEF MonitorInv
<1>7. d.pid \in Pids /\ d.age \in 0 .. DeadAfter + 1
  BY <1>6 DEF Entry
<1>8. Sound(d.pid)
  <2>1. PICK p \in Pids : p = d.pid
    BY <1>7
  <2>2. proc'[p].st = proc[p].st /\ proc'[p].missed = proc[p].missed
    BY TickRight
  <2> QED
    BY <1>6, <2>1, <2>2 DEF Sound
<1>9. d.age <= HeartbeatEvery + LoopTime + ctl.age
  BY <1>2, <1>5, <1>8 DEF Drained
<1>10. e.age <= d.age + 1 /\ e.age \in Nat
  <2>1. DeadAfter + 1 \in Nat
    BY Sizes
  <2>2. Older(d.age, DeadAfter + 1) \in 0 .. DeadAfter + 1
        /\ Older(d.age, DeadAfter + 1) <= d.age + 1
    BY <1>7, <2>1, OlderRight
  <2> QED
    BY <1>6, <2>1, <2>2
<1> QED
  BY <1>2, <1>7, <1>9, <1>10, Sizes, SMTT(20)

(* The events only grow less, but for doCheck.                             *)
LEMMA EventsLess ==
  ASSUME MonitorInv,
         Controller \/ Environment \/ \E p \in Pids : Process(p), ~CtlCheck
  PROVE  ToSet(events') \subseteq ToSet(events)
<1>1. ASSUME events' = Tail(events), events # <<>>
      PROVE  ToSet(events') \subseteq ToSet(events)
  <2>1. events \in Seq(Events)
    BY DEF MonitorInv, Control
  <2>2. \A i \in DOMAIN events' : i + 1 \in DOMAIN events /\ events'[i] = events[i + 1]
    BY <1>1, <2>1
  <2> QED
    BY <2>2 DEF ToSet
<1>2. ASSUME events' = <<>> PROVE ToSet(events') \subseteq ToSet(events)
  BY <1>2 DEF ToSet
<1>3. CASE CtlSpawned \/ CtlKilled \/ CtlBury
  <2>1. events # <<>>
    BY <1>3 DEF CtlSpawned, CtlKilled, CtlBury, At, MonitorInv, Control
  <2>2. events' = Tail(events) \/ UNCHANGED events
    BY <1>3 DEF CtlSpawned, CtlKilled, CtlBury, Done
  <2> QED
    BY <1>1, <2>1, <2>2
<1>4. CASE CtlStart
  BY <1>2, <1>4 DEF CtlStart
<1>5. CASE UNCHANGED events
  BY <1>5
<1> QED
  BY <1>3, <1>4, <1>5
     DEF Controller, Environment, Process, CtlRecv, CtlDown, CtlSpawn, CtlUp, CtlKill,
         CtlReap, CtlDead, CtlSleep, CtlWake, CtlQuit, CtlCrash, Crash, Hang, Resume,
         StartByHand, StartProxy, StartWorker, Loop

LEMMA StepCondemned ==
  ASSUME MonitorInv, Condemned,
         Controller \/ Environment \/ \E p \in Pids : Process(p), ~CtlCheck
  PROVE  Condemned'
<1> SUFFICES ASSUME NEW v \in ToSet(events'), v.kind = "dead"
             PROVE  v.pid \in Pids /\ (Alive(v.pid)' => proc'[v.pid].missed)
  BY DEF Condemned
<1>1. v \in ToSet(events)
  BY EventsLess
<1>2. PICK p \in Pids : p = v.pid
  BY <1>1 DEF Condemned
<1>3. Alive(p) => proc[p].missed
  BY <1>1, <1>2 DEF Condemned
<1>4. p \notin Unused
  BY <1>1, <1>2 DEF Unused, ToSet
<1>5. Living \/ \E q \in Pids : Loop(q)
  BY ControllerStep, EnvironmentStep, StartsStep DEF Ordinary, Process
<1>6. Lives(p) \/ proc'[p] = proc[p]
  BY <1>5, LoopProc DEF Living
<1>7. CASE Lives(p)
  BY <1>3, <1>4, <1>7, <1>2 DEF Lives, Born, Goes
<1>8. CASE proc'[p] = proc[p]
  BY <1>2, <1>3, <1>8 DEF Alive
<1> QED
  BY <1>6, <1>7, <1>8

LEMMA CheckCondemned ==
  ASSUME MonitorInv, Drained, Patient, CtlCheck
  PROVE  Condemned'
<1> SUFFICES ASSUME NEW v \in ToSet(events'), v.kind = "dead"
             PROVE  v.pid \in Pids /\ (Alive(v.pid)' => proc'[v.pid].missed)
  BY DEF Condemned
<1>1. PICK g \in Groups : \E e \in Entries(g) : v.pid = e.pid /\ e.age > DeadAfter
  BY CheckRight DEF MonitorInv
<1>2. PICK e \in Entries(g) : v.pid = e.pid /\ e.age > DeadAfter
  BY <1>1
<1>3. e \in Entry /\ g \in Traces(e.pid)
  BY <1>2, EntryType DEF MonitorInv, Traces
<1>4. e.age \in 0 .. DeadAfter + 1 /\ e.pid \in Pids
  BY <1>3 DEF Entry
<1>5. PICK p \in Pids : p = v.pid
  BY <1>2, <1>4
<1>6. ASSUME Alive(p), ~proc[p].missed PROVE FALSE
  <2>1. proc[p] \in Procs /\ proc[p].st \notin Early /\ proc[p].st # "hung"
    BY <1>2, <1>3, <1>5, <1>6 DEF MonitorInv, Owned, HungMissed
  <2>2. Sound(p)
    BY <1>6, <2>1 DEF Sound, Alive, Procs, Early
  <2>3. e.age <= HeartbeatEvery + LoopTime + ctl.age
    BY <1>2, <1>5, <2>2 DEF Drained, CtlCheck
  <2>4. ctl.age \in Nat /\ ctl.age <= CycleTime
    BY DEF MonitorInv, Control, Controllers
  <2> QED
    BY <1>2, <1>4, <2>3, <2>4, Sizes DEF Patient
<1>7. UNCHANGED proc
  BY DEF CtlCheck
<1> QED
  BY <1>5, <1>6, <1>7 DEF Alive

LEMMA TickCondemned == ASSUME MonitorInv, Condemned, Tick PROVE Condemned'
<1> SUFFICES ASSUME NEW v \in ToSet(events'), v.kind = "dead"
             PROVE  v.pid \in Pids /\ (Alive(v.pid)' => proc'[v.pid].missed)
  BY DEF Condemned
<1>1. v \in ToSet(events)
  BY TickRight
<1>2. PICK p \in Pids : p = v.pid
  BY <1>1 DEF Condemned
<1>3. Alive(p) => proc[p].missed
  BY <1>1, <1>2 DEF Condemned
<1>4. proc'[p].st = proc[p].st /\ proc'[p].missed = proc[p].missed
  BY TickRight
<1> QED
  BY <1>2, <1>3, <1>4 DEF Alive

-----------------------------------------------------------------------------
LEMMA InitSilence == Init => SilenceInv
<1> SUFFICES ASSUME Init PROVE SilenceInv
  OBVIOUS
<1>1. MonitorInv
  BY InitMonitor
<1>2. Fresh
  BY NoProcType DEF Init, Fresh, Sound
<1>3. Drained
  BY StoppedRight DEF Init, Drained, At
<1>4. Condemned
  BY DEF Init, Condemned, ToSet
<1> QED
  BY <1>1, <1>2, <1>3, <1>4 DEF SilenceInv

LEMMA SilenceInvStep == ASSUME Patient, SilenceInv, [Next]_vars PROVE SilenceInv'
<1> USE DEF SilenceInv
<1>1. MonitorInv'
  BY MonitorInvStep
<1>2. CASE Tick
  BY <1>1, <1>2, TickFresh, TickDrained, TickCondemned
<1>3. CASE Controller \/ Environment \/ \E p \in Pids : Process(p)
  <2>1. Fresh'
    <3>1. Ordinary \/ \E p \in Pids : Loop(p)
      BY <1>3, ControllerStep, EnvironmentStep, StartsStep DEF Process
    <3> QED
      BY <3>1, OrdinaryFresh, LoopFresh
  <2>2. Drained'
    BY <1>1, <1>3, StepDrained
  <2>3. Condemned'
    BY <1>3, StepCondemned, CheckCondemned
  <2> QED
    BY <1>1, <2>1, <2>2, <2>3
<1>4. CASE UNCHANGED vars
  <2>1. Fresh'
    BY <1>4 DEF vars, Fresh, Sound, FreshAt, LastOf, FromQueue, Entries
  <2>2. Drained' /\ Condemned'
    BY <1>4 DEF vars, Drained, Condemned, At, Entries, Sound, Alive
  <2> QED
    BY <1>1, <2>1, <2>2
<1> QED
  BY <1>2, <1>3, <1>4 DEF Next

LEMMA KillsOnlySilent ==
  ASSUME SilenceInv, MonitorInv', [Next]_vars
  PROVE  [\A p \in Pids :
            At("event") /\ ctl'.pc = "bury" /\ p = Head(events).pid
              => proc[p].missed \/ ~Alive(p)]_vars
<1> SUFFICES ASSUME Next, At("event"), ctl'.pc = "bury", NEW p \in Pids,
                    p = Head(events).pid
             PROVE  proc[p].missed \/ ~Alive(p)
  OBVIOUS
<1>1. events' # <<>> /\ Head(events').kind = "dead"
  BY DEF MonitorInv, Control
<1>2. UNCHANGED events
  <2>1. ~(CtlStart \/ CtlCheck \/ CtlSpawned \/ CtlKilled \/ CtlBury)
    BY DEF CtlStart, CtlCheck, CtlSpawned, CtlKilled, CtlBury, At
  <2> QED
    BY <2>1
       DEF Next, Tick, Controller, Environment, Process, CtlRecv, CtlDown, CtlSpawn,
           CtlUp, CtlKill, CtlReap, CtlDead, CtlSleep, CtlWake, CtlQuit, CtlCrash,
           Crash, Hang, Resume, StartByHand, StartProxy, StartWorker, Loop
<1>3. events \in Seq(Events)
  BY DEF SilenceInv, MonitorInv, Control
<1>4. Head(events) \in ToSet(events)
  BY <1>1, <1>2, <1>3 DEF ToSet
<1> QED
  BY <1>1, <1>2, <1>4 DEF SilenceInv, Condemned

(* If heartbeats are due, sent and looked for within the time the          *)
(* controller waits, SIGKILL falls only on a process that hung or whose    *)
(* heartbeat was lost, with any number of processes, any order of loops,   *)
(* messages and checks, and any reuse of process ids.                      *)
THEOREM OnlySilentAreKilled ==
  ASSUME Patient
  PROVE  Spec => OnlySilentKilled
<1>1. Init => SilenceInv
  BY InitSilence
<1>2. SilenceInv /\ [Next]_vars => SilenceInv'
  BY SilenceInvStep
<1>3. SilenceInv /\ SilenceInv' /\ [Next]_vars =>
        [\A p \in Pids :
           At("event") /\ ctl'.pc = "bury" /\ p = Head(events).pid
             => proc[p].missed \/ ~Alive(p)]_vars
  BY KillsOnlySilent DEF SilenceInv
<1> QED
  BY <1>1, <1>2, <1>3, PTL DEF Spec, OnlySilentKilled
=============================================================================

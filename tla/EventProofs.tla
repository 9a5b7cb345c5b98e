---------------------------- MODULE EventProofs -----------------------------
(***************************************************************************)
(* Three parts that wait for events: the UDP relay, the loop of libev and  *)
(* ss-manager.                                                             *)
(*                                                                         *)
(* The lifetimes of the relay's associations, for any number of them and   *)
(* any datagrams.  An association on its own satisfies RemoteInv: only an  *)
(* open one has a timer or reads, so that none is shut down twice, and its *)
(* count is that of the handles still closing.  RelayInv adds that the set *)
(* of connections is exact while the relay is open.                        *)
(*                                                                         *)
(* The manager: it forgets no server it started, for any set of ports, of  *)
(* process ids and of options, as long as the pid files can be written.    *)
(* The invariant adds to NoOrphans what its steps need: the pid files and  *)
(* the table are defined for every port, an entry of the table carries a   *)
(* password (so the statistics cannot make it look empty), a process that  *)
(* is alive serves a port, and a running manager has not exited cleanly.   *)
(*                                                                         *)
(* The wake-ups of the libev loop that it and the other programs wait in:  *)
(* none is lost, for any number of threads, asyncs and signals.  The       *)
(* invariant follows a send from the flag of its item to the callback: an  *)
(* item that is owed is known to the loop or marked by a flag (OwedKnown), *)
(* a flag that is set has something that will make the loop look at it     *)
(* (Noticed), and where the loop has decided to wait, the bit              *)
(* pipe_write_skipped is not what it relies on (SkipIsNoticed).            *)
(***************************************************************************)
EXTENDS UdpRelay, Manager, EvWake, TLAPS, FiniteSetTheorems

-----------------------------------------------------------------------------
(* The wake-ups of a loop. *)

Stages == {"idle", "test", "flag", "skip", "wanted", "unskip", "write"}
Places == {"top", "want", "decide", "poll", "unwant", "skipped", "invoke",
           "cb_unskip", "sig_pending", "async_pending", "each"}

(* The types, but for the Boolean flags: their values do not matter.       *)
WakeType ==
    /\ wkPc \in Places
    /\ DOMAIN wkSender = Senders
    /\ \A t \in Senders : /\ DOMAIN wkSender[t] = {"at", "item"}
                          /\ wkSender[t] = [at |-> wkSender[t].at, item |-> wkSender[t].item]
                          /\ wkSender[t].at \in Stages
                          /\ wkSender[t].at # "idle" => wkSender[t].item \in Items
    /\ wkOwed \subseteq Items
    /\ wkTodo \subseteq Items
    /\ wkFlags \subseteq {"sig_pending", "async_pending"}

Sending(t, at) == wkSender[t].at \in at

(* pipecb looks at the items of one flag at a time.                        *)
TodoOfOneFlag ==
    /\ wkPc # "each" => wkTodo = {}
    /\ \A i, j \in wkTodo : Flag(i) = Flag(j)

(* What will still make the loop look at the flag.                         *)
Noticed(flag) ==
    \/ postfork \/ pipe_write_skipped \/ wkPipe \/ "pipe_w" \in wkDue
    \/ wkPc \in {"cb_unskip", "sig_pending"}
    \/ flag = "async_pending" /\ wkPc = "async_pending"
    \/ flag = "async_pending" /\ \E i \in wkTodo : Flag(i) = "sig_pending"
    \/ \E t \in Senders : Sending(t, {"skip", "unskip", "write"})

FlagsNoticed == \A flag \in wkFlags : Noticed(flag)

(* Where the loop has got to with an item.                                 *)
Known(i) ==
    \/ i \in wkDue
    \/ /\ i \in wkSent
       /\ \/ i \in wkTodo
          \/ Flag(i) \in wkFlags
          \/ \E t \in Senders : Sending(t, {"test", "flag"}) /\ wkSender[t].item = i

OwedKnown == \A i \in wkOwed : Known(i)

(* The loop asks for a wake-up before it decides to wait; a bit set later  *)
(* is the work of a sender that will see the wish and write the pipe.      *)
SkipIsNoticed ==
    /\ wkPc \in {"decide", "poll", "unwant"} => pipe_write_wanted
    /\ wkPc = "poll" /\ wkWait /\ pipe_write_skipped =>
          \E t \in Senders : Sending(t, {"wanted", "unskip"})

(* Callbacks that are due run before the loop waits; a fork is noticed at  *)
(* the top.                                                                *)
NothingDue ==
    /\ wkPc \in {"top", "want", "decide", "poll", "unwant"} => wkDue \subseteq {"pipe_w"}
    /\ postfork => wkPc = "top"

WakeInv ==
    /\ WakeType /\ TodoOfOneFlag /\ FlagsNoticed /\ OwedKnown
    /\ SkipIsNoticed /\ NothingDue

WakeSpec == WakeInit /\ [][WakeNext]_wakeVars

-----------------------------------------------------------------------------
(* WakeInv implies what is to be shown: where the loop waits on an empty   *)
(* pipe and no send is under way, what is owed has its flag set, and what  *)
(* is left of Noticed is the event of pipe_w.                              *)
LEMMA InvGivesWakeup == WakeInv => NoLostWakeup
<1> SUFFICES ASSUME WakeInv, wkPc = "poll", wkWait, ~wkPipe,
                    \A t \in Senders : wkSender[t] = SenderIdle,
                    NEW i \in wkOwed
             PROVE  "pipe_w" \in wkDue
  BY DEF NoLostWakeup
<1>1. \A t \in Senders : wkSender[t].at = "idle"
  <2>1. SenderIdle.at = "idle"
    BY DEF SenderIdle
  <2>2. QED
    BY <2>1, Zenon
<1>2. ~pipe_write_skipped
  BY <1>1 DEF WakeInv, SkipIsNoticed, Sending
<1>3. i \in wkDue => i = "pipe_w"
  BY DEF WakeInv, NothingDue
<1>4. CASE i \notin wkDue
  <2>1. Flag(i) \in wkFlags
    BY <1>1, <1>4 DEF WakeInv, OwedKnown, Known, TodoOfOneFlag, Sending
  <2>2. Noticed(Flag(i))
    BY <2>1 DEF WakeInv, FlagsNoticed
  <2>3. QED
    BY <1>1, <1>2, <2>2 DEF WakeInv, Noticed, TodoOfOneFlag, NothingDue, Sending
<1>5. QED
  BY <1>3, <1>4

LEMMA WakeInvInit == WakeInit => WakeInv
BY SMTT(30) DEF WakeInit, WakeInv, WakeType, Stages, Places, TodoOfOneFlag, FlagsNoticed,
       OwedKnown, SkipIsNoticed, NothingDue, SenderIdle, Items

(* A send: its own stage takes the place of what it takes away.  SetFlag   *)
(* leaves the sender at "skip"; ClearSkipped at "write", which SetSkipped  *)
(* and the wish of the loop made certain.                                  *)
LEMMA SenderKeeps ==
    ASSUME WakeInv, NEW t \in Senders,
           SenderStep(t) \/ \E i \in Items : SendStart(t, i)
    PROVE  WakeInv'
<1> USE DEF WakeInv, WakeType, Stages, Places, TodoOfOneFlag, FlagsNoticed, Noticed,
            OwedKnown, Known, SkipIsNoticed, NothingDue, Sending, Flag, Items,
            SenderIdle, Step, loopPart
<1>1. ASSUME NEW i \in Items, SendStart(t, i) PROVE WakeInv'
  BY <1>1, SMTT(30) DEF SendStart
<1>2. CASE TestFlag(t)
  BY <1>2, SMTT(30) DEF TestFlag
<1>3. CASE SetFlag(t)
  BY <1>3, SMTT(30) DEF SetFlag
<1>4. CASE SetSkipped(t)
  BY <1>4, SMTT(30) DEF SetSkipped
<1>5. CASE TestWanted(t)
  BY <1>5, SMTT(30) DEF TestWanted
<1>6. CASE ClearSkipped(t)
  BY <1>6, SMTT(30) DEF ClearSkipped
<1>7. CASE WritePipe(t)
  BY <1>7, SMTT(30) DEF WritePipe
<1>8. QED
  BY <1>1, <1>2, <1>3, <1>4, <1>5, <1>6, <1>7, Zenon DEF SenderStep

(* The flag is cleared where pipecb takes on its items; the flag of the    *)
(* asyncs is looked at after that of the signals.                          *)
LEMMA CbFlagKeeps ==
    ASSUME WakeInv, NEW flag \in {"sig_pending", "async_pending"}, CbFlag(flag)
    PROVE  WakeInv'
<1> DEFINE items == IF flag \in wkFlags THEN {i \in Items : Flag(i) = flag} ELSE {}
<1>1. /\ wkPc = flag /\ wkTodo = {}
      /\ wkFlags' = wkFlags \ {flag} /\ wkTodo' = items
      /\ wkPc' = IF items = {} THEN AfterFlag(flag) ELSE "each"
      /\ UNCHANGED <<wkDue, wkPipe, pipe_write_skipped, wkSent, postfork, wkSender, wkOwed>>
  BY DEF CbFlag, sendPart, WakeInv, TodoOfOneFlag
<1>2. \A i \in items : i \in Items /\ Flag(i) = flag
  OBVIOUS
<1>3. \A i \in Items : flag \in wkFlags /\ Flag(i) = flag => i \in items
  OBVIOUS
<1> HIDE DEF items
<1>4. WakeType'
  BY <1>1, <1>2 DEF WakeInv, WakeType, Places, AfterFlag
<1>5. TodoOfOneFlag'
  BY <1>1, <1>2 DEF TodoOfOneFlag, Flag
<1>6. FlagsNoticed'
  <2> SUFFICES ASSUME NEW f \in wkFlags, f # flag, Noticed(f) PROVE Noticed(f)'
    BY <1>1 DEF FlagsNoticed, WakeInv
  <2>1. CASE flag = "async_pending"
    BY <1>1, <2>1 DEF Noticed, Sending
  <2>2. CASE flag = "sig_pending" /\ f = "async_pending"
    BY <1>1, <1>2, <2>2 DEF Noticed, AfterFlag
  <2>3. QED
    BY <2>1, <2>2, Zenon DEF WakeInv, WakeType
<1>7. OwedKnown'
  BY <1>1, <1>3 DEF WakeInv, WakeType, OwedKnown, Known, Sending
<1>8. SkipIsNoticed' /\ NothingDue'
  BY <1>1 DEF WakeInv, SkipIsNoticed, NothingDue, AfterFlag
<1>9. QED
  BY <1>4, <1>5, <1>6, <1>7, <1>8 DEF WakeInv

(* The loop: it decides to wait only on a bit that is not set, and what it *)
(* takes from the pipe, from pipe_w or from the bit it goes on to look at. *)
LEMMA LoopKeeps ==
    ASSUME WakeInv, LoopStep
    PROVE  WakeInv'
<1>1. CASE Decide
  <2>1. wkPc' = "poll" /\ wkWait' = ~pipe_write_skipped /\ UNCHANGED pipe_write_skipped
    BY <1>1 DEF Decide
  <2>2. ~(wkWait' /\ pipe_write_skipped')
    BY <2>1, Zenon
  <2>3. SkipIsNoticed'
    BY <1>1, <2>2 DEF Decide, WakeInv, SkipIsNoticed
  <2>4. WakeType' /\ TodoOfOneFlag' /\ FlagsNoticed' /\ OwedKnown' /\ NothingDue'
    BY <1>1, SMTT(30) DEF Decide, sendPart, WakeInv, WakeType, Places, TodoOfOneFlag,
        FlagsNoticed, Noticed, OwedKnown, Known, NothingDue, Sending
  <2>5. QED
    BY <2>3, <2>4 DEF WakeInv
<1>2. CASE \E flag \in {"sig_pending", "async_pending"} : CbFlag(flag)
  BY <1>2, CbFlagKeeps
<1> USE WakeAssumption
    DEF WakeInv, WakeType, Places, TodoOfOneFlag, FlagsNoticed, Noticed,
        OwedKnown, Known, SkipIsNoticed, NothingDue, Sending, sendPart
<1>3. CASE RunTop
  BY <1>3, SMTT(30) DEF RunTop
<1>4. CASE Want
  BY <1>4, SMTT(30) DEF Want
<1>5. CASE PollWoken
  BY <1>5, SMTT(30) DEF PollWoken
<1>6. CASE PollTimeout
  BY <1>6, SMTT(30) DEF PollTimeout
<1>7. CASE Unwant
  BY <1>7, SMTT(30) DEF Unwant
<1>8. CASE TestSkipped
  BY <1>8, SMTT(30) DEF TestSkipped
<1>9. CASE InvokePipe
  BY <1>9, SMTT(30) DEF InvokePipe
<1>10. ASSUME NEW i \in Items, InvokeItem(i) PROVE WakeInv'
  BY <1>10, SMTT(30) DEF InvokeItem
<1>11. CASE InvokeEnd
  BY <1>11, SMTT(30) DEF InvokeEnd
<1>12. CASE CbUnskip
  BY <1>12, SMTT(30) DEF CbUnskip
<1>13. ASSUME NEW i \in Items, CbItem(i) PROVE WakeInv'
  BY <1>13, SMTT(30) DEF CbItem, AfterFlag, Flag
<1>14. QED
  BY <1>1, <1>2, <1>3, <1>4, <1>5, <1>6, <1>7, <1>8, <1>9, <1>10, <1>11, <1>12, <1>13,
    Zenon DEF LoopStep

(* The sends that a fork cuts short are no longer owed, and the child looks *)
(* at everything once.                                                      *)
LEMMA ForkKeeps == WakeInv /\ Fork => WakeInv'
BY SMTT(30) DEF Fork, WakeInv, WakeType, Stages, Places, TodoOfOneFlag, FlagsNoticed,
    Noticed, OwedKnown, Known, SkipIsNoticed, NothingDue, Sending, SenderIdle, Items

(* WakeInv holds in every state of a loop and its senders.                 *)
THEOREM WakeInvariant == WakeSpec => []WakeInv
<1>1. ASSUME WakeInv, [WakeNext]_wakeVars PROVE WakeInv'
  <2>1. CASE WakeNext
    BY <1>1, <2>1, SenderKeeps, LoopKeeps, ForkKeeps DEF WakeNext
  <2>2. CASE UNCHANGED wakeVars
    BY <1>1, <2>2 DEF wakeVars, WakeInv, WakeType, TodoOfOneFlag, FlagsNoticed, Noticed,
        OwedKnown, Known, SkipIsNoticed, NothingDue, Sending
  <2>3. QED
    BY <1>1, <2>1, <2>2
<1>2. QED
  BY <1>1, WakeInvInit, PTL DEF WakeSpec

(* However many threads send and signals arrive, and wherever the process  *)
(* forks, the loop never blocks on an empty pipe while a finished send is  *)
(* undelivered and unnoticed (evpipe_write and ev_run, ev.c).              *)
THEOREM WakeupsNeverLost == WakeSpec => []NoLostWakeup
BY WakeInvariant, InvGivesWakeup, PTL

-----------------------------------------------------------------------------
(* The servers of ss-manager. *)

ManagerSpec == ManagerInit /\ [][ManagerNext]_managerVars

IsProc(r) ==
    /\ DOMAIN r = {"st", "port", "password", "given", "sig", "traffic"}
    /\ r.st # "dead" => r.port \in Ports

IsEntry(e) == e = NoServer \/ (DOMAIN e = {"password", "traffic"} /\ e.password \in Passwords)

IsManager(m) ==
    /\ DOMAIN m = {"up", "clean", "given", "table", "conf", "pidf", "proc"}
    /\ DOMAIN m.table = Ports /\ DOMAIN m.conf = Ports
    /\ DOMAIN m.pidf = Ports /\ DOMAIN m.proc = Pids
    /\ \A port \in Ports : IsEntry(m.table[port])
    /\ \A p \in Pids : IsProc(m.proc[p])

(* A process that is alive and has not been told to end. *)
Untold(m, p) == m.proc[p].st # "dead" /\ ~m.proc[p].sig

NoneForgotten(m) ==
    \A p \in Pids : Untold(m, p) =>
        /\ m.pidf[m.proc[p].port] = p
        /\ m.up => m.table[m.proc[p].port] # NoServer
        /\ ~(~m.up /\ m.clean)

ServersInv(m) ==
    /\ IsManager(m)
    /\ NoneForgotten(m)
    /\ m.up => ~m.clean

(* Every process of the port has been told to end. *)
Told(m, port) == \A p \in Pids : Untold(m, p) => m.proc[p].port # port

ManagerInv ==
    /\ ServersInv(mg)
    /\ \A d \in mgMail : d.port \in Ports

(* The invariant contains the property. *)
LEMMA InvGivesNoOrphans == ManagerInv => NoOrphans
  BY DEF ManagerInv, ServersInv, NoneForgotten, NoOrphans, Untold, Live

(* No process yet. *)
LEMMA ManagerInvInit == ManagerInit => ManagerInv
  BY DEF ManagerInit, ManagerInv, ServersInv, IsManager, NoneForgotten, Untold, IsProc, IsEntry,
         NoProc, NoServer

(* A signal changes nothing but that the processes named are told to end. *)
LEMMA SignalTells ==
    ASSUME NEW m, IsManager(m), NEW pids
    PROVE  LET n == Signal(m, pids) IN
           /\ IsManager(n)
           /\ n.up = m.up /\ n.clean = m.clean /\ n.given = m.given
           /\ n.table = m.table /\ n.conf = m.conf /\ n.pidf = m.pidf
           /\ \A p \in Pids : n.proc[p].port = m.proc[p].port
           /\ \A p \in Pids : Untold(n, p) <=> Untold(m, p) /\ p \notin pids
  <1> DEFINE n == Signal(m, pids)
  <1>1. /\ DOMAIN n = {"up", "clean", "given", "table", "conf", "pidf", "proc"}
        /\ n.up = m.up /\ n.clean = m.clean /\ n.given = m.given
        /\ n.table = m.table /\ n.conf = m.conf /\ n.pidf = m.pidf
        /\ n.proc = [p \in Pids |->
             IF p \in pids /\ m.proc[p].st # "dead" THEN [m.proc[p] EXCEPT !.sig = TRUE]
             ELSE m.proc[p]]
    BY DEF IsManager, Signal
  <1>2. ASSUME NEW p \in Pids
        PROVE  /\ IsProc(n.proc[p])
               /\ n.proc[p].port = m.proc[p].port
               /\ Untold(n, p) <=> Untold(m, p) /\ p \notin pids
    <2>1. IsProc(m.proc[p])
      BY DEF IsManager
    <2>2. CASE p \in pids /\ m.proc[p].st # "dead"
      <3>1. n.proc[p] = [m.proc[p] EXCEPT !.sig = TRUE]
        BY <1>1, <2>2
      <3> QED
        BY <3>1, <2>1, <2>2 DEF IsProc, Untold
    <2>3. CASE ~(p \in pids /\ m.proc[p].st # "dead")
      <3>1. n.proc[p] = m.proc[p]
        BY <1>1, <2>3
      <3> QED
        BY <3>1, <2>1, <2>3 DEF Untold
    <2> QED
      BY <2>2, <2>3
  <1> QED
    BY <1>1, <1>2, Zenon DEF IsManager

(* Removing a port leaves no process of it that was not told. *)
LEMMA RemoveTells ==
    ASSUME NEW m, ServersInv(m), NEW port \in Ports
    PROVE  /\ ServersInv(remove_server(m, port))
           /\ remove_server(m, port).up = m.up /\ remove_server(m, port).clean = m.clean
           /\ Told(remove_server(m, port), port)
  <1> DEFINE t == [m EXCEPT !.table[port] = NoServer]
             told == {t.pidf[x] : x \in {port}}
             n == remove_server(m, port)
  <1>1. /\ IsManager(t) /\ t.up = m.up /\ t.clean = m.clean
        /\ t.pidf = m.pidf /\ t.proc = m.proc
        /\ \A x \in Ports : x # port => t.table[x] = m.table[x]
    BY DEF ServersInv, IsManager, IsEntry
  <1>2. n = Signal(t, told) /\ told = {m.pidf[port]}
    BY <1>1 DEF remove_server, stop_server
  <1> HIDE DEF n, t, told
  <1>3. /\ IsManager(n)
        /\ n.up = t.up /\ n.clean = t.clean /\ n.table = t.table /\ n.pidf = t.pidf
        /\ \A p \in Pids : n.proc[p].port = t.proc[p].port
        /\ \A p \in Pids : Untold(n, p) <=> Untold(t, p) /\ p \notin told
    <2>1. LET k == Signal(t, told) IN
          /\ IsManager(k)
          /\ k.up = t.up /\ k.clean = t.clean /\ k.table = t.table /\ k.pidf = t.pidf
          /\ \A p \in Pids : k.proc[p].port = t.proc[p].port
          /\ \A p \in Pids : Untold(k, p) <=> Untold(t, p) /\ p \notin told
      BY <1>1, SignalTells
    <2> QED
      BY <2>1, <1>2, Zenon
  <1>4. ASSUME NEW p \in Pids, Untold(n, p)
        PROVE  Untold(m, p) /\ n.proc[p].port = m.proc[p].port /\ m.proc[p].port # port
    <2>1. Untold(t, p) /\ p \notin told /\ n.proc[p].port = t.proc[p].port
      BY <1>3, <1>4
    <2>2. Untold(m, p) /\ n.proc[p].port = m.proc[p].port /\ p # m.pidf[port]
      BY <1>1, <1>2, <2>1 DEF Untold
    <2>3. m.pidf[m.proc[p].port] = p
      BY <2>2 DEF ServersInv, NoneForgotten
    <2> QED
      BY <2>2, <2>3
  <1>5. \A p \in Pids : Untold(n, p) => m.proc[p].port \in Ports
    BY <1>4 DEF ServersInv, IsManager, IsProc, Untold
  <1>6. NoneForgotten(n)
    BY <1>1, <1>3, <1>4, <1>5 DEF NoneForgotten, ServersInv
  <1>7. ServersInv(n) /\ n.up = m.up /\ n.clean = m.clean /\ Told(n, port)
    BY <1>1, <1>3, <1>4, <1>6, Zenon DEF ServersInv, Told
  <1> QED
    BY <1>7 DEF n

(* The server started is the one the port's pid file names. *)
LEMMA AddKeeps ==
    ASSUME "pidfile" \notin Failing, NEW fails \in SUBSET Failing,
           NEW m, ServersInv(m), m.up, NEW port \in Ports, Told(m, port),
           NEW password \in Passwords,
           NEW r \in add_server(m, port, password, fails)
    PROVE  ServersInv(r) /\ r.up /\ r.clean = m.clean
  <1> DEFINE c == build_config(m, port, password, "config" \notin fails)
             n == [c EXCEPT !.table[port] = [password |-> password, traffic |-> 0]]
             free == {p \in Pids : n.proc[p].st = "dead"}
  <1>1. /\ IsManager(c) /\ c.up = m.up /\ c.clean = m.clean /\ c.table = m.table
        /\ c.pidf = m.pidf /\ c.proc = m.proc
    BY Zenon DEF ServersInv, IsManager, build_config
  <1>e. IsEntry([password |-> password, traffic |-> 0]) /\ [password |-> password, traffic |-> 0] # NoServer
    BY ManagerAssumption, Zenon DEF IsEntry, NoServer
  <1> HIDE DEF c
  <1>2. /\ IsManager(n) /\ n.up = m.up /\ n.clean = m.clean
        /\ n.pidf = m.pidf /\ n.proc = m.proc
        /\ n.table[port] # NoServer
        /\ \A x \in Ports : x # port => n.table[x] = m.table[x]
    BY <1>1, <1>e, Zenon DEF IsManager
  <1>3. r = n \/ \E pid \in free : r = daemonize(n, port, pid, TRUE)
    BY Zenon DEF add_server, c
  <1> HIDE DEF n
  <1>4. ServersInv(n) /\ Told(n, port)
    <2>1. ASSUME NEW p \in Pids, Untold(n, p)
          PROVE  /\ n.pidf[n.proc[p].port] = p /\ n.proc[p].port # port
                 /\ n.table[n.proc[p].port] # NoServer
      <3>1. n.proc[p] = m.proc[p] /\ Untold(m, p)
        BY <2>1, <1>2, Zenon DEF Untold
      <3>2. /\ m.pidf[m.proc[p].port] = p /\ m.table[m.proc[p].port] # NoServer
            /\ m.proc[p].port \in Ports /\ m.proc[p].port # port
        BY <3>1, Zenon DEF ServersInv, NoneForgotten, Told, IsManager, IsProc, Untold
      <3> QED
        BY <3>1, <3>2, <1>2, Zenon
    <2> QED
      BY <2>1, <1>2, Zenon DEF ServersInv, NoneForgotten, Told
  <1>5. ASSUME NEW pid \in free, r = daemonize(n, port, pid, TRUE)
        PROVE  ServersInv(r) /\ r.up /\ r.clean = m.clean
    <2> DEFINE s == ServerMain(n, port)
    <2>p. pid \in Pids
      BY DEF free
    <2>d. /\ DOMAIN n.pidf = Ports /\ DOMAIN n.proc = Pids
          /\ \A x \in Ports : IsEntry(n.table[x])
          /\ \A p \in Pids : IsProc(n.proc[p])
          /\ DOMAIN n.table = Ports /\ DOMAIN n.conf = Ports
          /\ DOMAIN n = {"up", "clean", "given", "table", "conf", "pidf", "proc"}
      BY <1>2, Zenon DEF IsManager
    <2> HIDE DEF free
    <2>1. /\ DOMAIN s = {"st", "port", "password", "given", "sig", "traffic"}
          /\ s.st # "dead" /\ s.port = port /\ s.sig = FALSE
      BY DEF ServerMain, NoProc
    <2> HIDE DEF s
    <2>2. r = [[n EXCEPT !.proc[pid] = s] EXCEPT !.pidf[port] = pid]
      BY <1>5 DEF daemonize, s
    <2>3. /\ DOMAIN r = DOMAIN n /\ r.up = n.up /\ r.clean = n.clean /\ r.table = n.table
          /\ r.conf = n.conf
          /\ r.pidf = [n.pidf EXCEPT ![port] = pid]
          /\ r.proc = [n.proc EXCEPT ![pid] = s]
      BY <2>2, <1>2, Zenon DEF IsManager
    <2>4. /\ DOMAIN r.pidf = Ports /\ DOMAIN r.proc = Pids
          /\ r.proc[pid] = s /\ r.pidf[port] = pid
          /\ \A p \in Pids : p # pid => r.proc[p] = n.proc[p]
          /\ \A x \in Ports : x # port => r.pidf[x] = n.pidf[x]
      BY <2>p, <2>d, <2>3
    <2>5. IsManager(r)
      <3>1. IsProc(s)
        BY <2>1 DEF IsProc
      <3>2. ASSUME NEW p \in Pids PROVE IsProc(r.proc[p])
        <4>1. r.proc[p] = IF p = pid THEN s ELSE n.proc[p]
          BY <2>4, Zenon
        <4> QED
          BY <4>1, <3>1, <2>d, Zenon
      <3> QED
        BY <3>2, <2>d, <2>3, <2>4, Zenon DEF IsManager
    <2>6. NoneForgotten(r)
      <3>1. /\ \A p \in Pids : Untold(n, p) => /\ n.pidf[n.proc[p].port] = p
                                            /\ n.table[n.proc[p].port] # NoServer
                                            /\ n.proc[p].port \in Ports
                                            /\ n.proc[p].port # port
            /\ r.up
        <4>1. r.up /\ n.up /\ NoneForgotten(n)
          BY <2>3, <1>2, <1>4, Zenon DEF ServersInv
        <4>2. ASSUME NEW p \in Pids, Untold(n, p)
              PROVE  n.proc[p].port \in Ports /\ n.proc[p].port # port
          BY <4>2, <2>d, <1>4, Zenon DEF Told, Untold, IsProc
        <4> QED
          BY <4>1, <4>2, Zenon DEF NoneForgotten
      <3>2. ASSUME NEW p \in Pids, Untold(r, p)
            PROVE  r.pidf[r.proc[p].port] = p /\ r.table[r.proc[p].port] # NoServer
        <4>1. CASE p = pid
          BY <4>1, <2>1, <2>3, <2>4, <1>2, Zenon
        <4>2. CASE p # pid
          <5>1. r.proc[p] = n.proc[p] /\ Untold(n, p)
            BY <4>2, <3>2, <2>4, Zenon DEF Untold
          <5> QED
            <6>1. /\ n.pidf[n.proc[p].port] = p /\ n.table[n.proc[p].port] # NoServer
                  /\ r.pidf[n.proc[p].port] = n.pidf[n.proc[p].port]
              BY <5>1, <3>1, <2>4, Zenon
            <6> QED
              BY <6>1, <5>1, <2>3, Zenon
        <4> QED
          BY <4>1, <4>2, Zenon
      <3> QED
        BY <3>1, <3>2, Zenon DEF NoneForgotten
    <2> QED
      BY <2>3, <2>5, <2>6, <1>2, <1>4, Zenon DEF ServersInv
  <1> QED
    BY <1>2, <1>3, <1>4, <1>5, Zenon

(* A new manager: every pid file left behind is followed, and removed. *)
LEMMA MainKeeps ==
    ASSUME "pidfile" \notin Failing, ServersInv(mg), main
    PROVE  ServersInv(mg')
  <1>1. PICK cmd, conf \in SUBSET Options, fails \in SUBSET Failing, bound \in BOOLEAN,
             port \in Ports \cup {"none"}, password \in Passwords :
          \E n \in ConfServers([kill_server(mg, Ports) EXCEPT !.up = TRUE, !.clean = FALSE,
                                  !.given = Merged(cmd, conf),
                                  !.table = [x \in Ports |-> NoServer]],
                               port, password, fails) :
             mg' = create_server_socket(n, bound)
    BY Zenon DEF main
  <1> DEFINE told == {mg.pidf[x] : x \in Ports}
             k == Signal(mg, told)
             given == Merged(cmd, conf)
             m == [kill_server(mg, Ports) EXCEPT !.up = TRUE, !.clean = FALSE,
                     !.given = given, !.table = [x \in Ports |-> NoServer]]
  <1>2. PICK n \in ConfServers(m, port, password, fails) : mg' = create_server_socket(n, bound)
    BY <1>1
  <1>3. /\ IsManager(k) /\ \A p \in Pids : ~Untold(k, p)
    <2>1. /\ IsManager(k)
          /\ \A p \in Pids : Untold(k, p) <=> Untold(mg, p) /\ p \notin told
      <3> HIDE DEF told
      <3> QED
        BY SignalTells DEF ServersInv
    <2>2. \A p \in Pids : Untold(mg, p) => p \in told
      BY DEF ServersInv, NoneForgotten, IsManager, IsProc, Untold
    <2> QED
      BY <2>1, <2>2
  <1>4. kill_server(mg, Ports) =
          [k EXCEPT !.pidf = [x \in Ports |-> IF x \in Ports THEN 0 ELSE mg.pidf[x]]]
    BY DEF kill_server, stop_server
  <1> HIDE DEF k, given
  <1>5. /\ IsManager(m) /\ m.up = TRUE /\ m.clean = FALSE
        /\ m.proc = k.proc
    BY <1>3, <1>4, SMTT(30) DEF IsManager, IsEntry
  <1> HIDE DEF m
  <1>6. ServersInv(m) /\ (\A x \in Ports : Told(m, x))
    BY <1>3, <1>5, Zenon DEF ServersInv, NoneForgotten, Untold, Told
  <1>7. ServersInv(n) /\ n.up /\ n.clean = FALSE
    <2>1. CASE port = "none"
      BY <1>2, <1>5, <1>6, <2>1, Zenon DEF ConfServers
    <2>2. CASE port # "none"
      BY <1>2, <1>5, <1>6, <2>2, AddKeeps DEF ConfServers
    <2> QED
      BY <2>1, <2>2, ZenonT(30)
  <1>8. CASE bound
    BY <1>2, <1>7, <1>8, SMTT(30) DEF create_server_socket
  <1>9. CASE ~bound
    <2>1. mg' = [n EXCEPT !.up = FALSE, !.table = [x \in Ports |-> NoServer]]
      BY <1>2, <1>9, SMTT(30) DEF create_server_socket
    <2> QED
      BY <2>1, <1>7 DEF ServersInv, IsManager, IsEntry, NoneForgotten, Untold
  <1> QED
    BY <1>8, <1>9

(* An orderly exit follows the pid files of the ports in the table, and    *)
(* every process not yet told is there.                                    *)
LEMMA ExitKeeps ==
    ASSUME ServersInv(mg), GracefulExit
    PROVE  ServersInv(mg')
  <1> DEFINE told == {mg.pidf[x] : x \in PortsServed(mg)}
             k == Signal(mg, told)
  <1>1. /\ IsManager(k)
        /\ \A p \in Pids : Untold(k, p) <=> Untold(mg, p) /\ p \notin told
    <2> HIDE DEF told
    <2> QED
      BY SignalTells DEF ServersInv
  <1>2. \A p \in Pids : Untold(mg, p) => p \in told
    BY DEF ServersInv, NoneForgotten, IsManager, IsProc, Untold, PortsServed, GracefulExit
  <1>3. mg' = [k EXCEPT !.up = FALSE, !.clean = TRUE, !.table = [x \in Ports |-> NoServer]]
    BY DEF GracefulExit, stop_server
  <1> HIDE DEF k
  <1>4. IsManager(mg') /\ mg'.proc = k.proc /\ mg'.up = FALSE
    BY <1>1, <1>3, SMTT(30) DEF IsManager, IsEntry
  <1> QED
    BY <1>1, <1>2, <1>4, Zenon DEF ServersInv, NoneForgotten, Untold

(* A process that ends, or goes on under its port and its orders. *)
LEMMA ProcStep ==
    ASSUME ManagerInv, NEW p \in Pids, NEW r, IsProc(r),
           mg' = [mg EXCEPT !.proc[p] = r], mgMail' = mgMail,
           \/ r.st = "dead"
           \/ mg.proc[p].st # "dead" /\ r.sig = mg.proc[p].sig /\ r.port = mg.proc[p].port
    PROVE  ManagerInv'
  BY SMTT(30) DEF ManagerInv, ServersInv, IsManager, NoneForgotten, Untold, IsProc

(* What the servers do, and the statistics, take no entry away. *)
LEMMA ServersKeep ==
    ASSUME ManagerInv,
           \/ ManagerDies \/ StatCommand \/ MailLost
           \/ \E p \in Pids : create_and_bind(p) \/ signal_cb(p) \/ stat_update_cb(p)
    PROVE  ManagerInv'
  <1> USE DEF ManagerInv, ServersInv
  <1>1. CASE ManagerDies
    BY <1>1, SMTT(30) DEF ManagerDies, IsManager, NoneForgotten, Untold, IsEntry
  <1>2. CASE StatCommand
    <2>1. PICK d \in mgMail : mg' = update_stat(mg, d.port, d.traffic) /\ mgMail' = mgMail \ {d}
      BY <1>2 DEF StatCommand
    <2>2. CASE mg.table[d.port] = NoServer
      BY <2>1, <2>2 DEF update_stat, IsManager, NoneForgotten, Untold
    <2>3. CASE mg.table[d.port] # NoServer
      <3> DEFINE e == [mg.table[d.port] EXCEPT !.traffic = d.traffic]
      <3>1. mg' = [mg EXCEPT !.table[d.port] = e]
        BY <2>1, <2>3 DEF update_stat
      <3>2. IsEntry(e) /\ e # NoServer
        BY <2>3, ManagerAssumption, SMTT(30) DEF IsManager, IsEntry, NoServer
      <3> HIDE DEF e
      <3> QED
        BY <2>1, <3>1, <3>2 DEF IsManager, NoneForgotten, Untold
    <2> QED
      BY <2>2, <2>3
  <1>3. CASE MailLost
    BY <1>3, Zenon DEF MailLost, IsManager, NoneForgotten, Untold
  <1>4. ASSUME NEW p \in Pids, create_and_bind(p) \/ signal_cb(p)
        PROVE  ManagerInv'
    <2>1. CASE mg' = [mg EXCEPT !.proc[p] = NoProc] /\ mgMail' = mgMail
      BY <2>1, ProcStep, ZenonT(30) DEF NoProc, IsProc
    <2>2. CASE /\ mg' = [mg EXCEPT !.proc[p] = [mg.proc[p] EXCEPT !.st = "running"]]
               /\ mgMail' = mgMail /\ mg.proc[p].st # "dead"
      <3> DEFINE r == [mg.proc[p] EXCEPT !.st = "running"]
      <3>1. IsProc(r) /\ r.sig = mg.proc[p].sig /\ r.port = mg.proc[p].port
        BY <2>2 DEF IsManager, IsProc
      <3> HIDE DEF r
      <3>2. mg' = [mg EXCEPT !.proc[p] = r]
        BY <2>2 DEF r
      <3> QED
        BY <2>2, <3>1, <3>2, ProcStep
    <2> QED
      BY <1>4, <2>1, <2>2 DEF create_and_bind, signal_cb, Live
  <1>5. ASSUME NEW p \in Pids, stat_update_cb(p)
        PROVE  ManagerInv'
    <2> DEFINE r == [mg.proc[p] EXCEPT !.traffic = mg.proc[p].traffic + 1]
    <2>1. /\ mg' = [mg EXCEPT !.proc[p] = r]
          /\ mgMail' = mgMail \cup {[port |-> mg.proc[p].port, traffic |-> mg'.proc[p].traffic]}
          /\ mg.proc[p].st # "dead"
      BY <1>5 DEF stat_update_cb
    <2>2. /\ IsProc(r) /\ r.st = mg.proc[p].st /\ r.sig = mg.proc[p].sig
          /\ r.port = mg.proc[p].port /\ mg.proc[p].port \in Ports
      BY <2>1, SMTT(30) DEF IsManager, IsProc
    <2> HIDE DEF r
    <2>3. ServersInv(mg)'
      BY <2>1, <2>2 DEF IsManager, NoneForgotten, Untold
    <2>4. \A d \in mgMail' : d.port \in Ports
      BY <2>1, <2>2
    <2> QED
      BY <2>3, <2>4, ZenonT(30)
  <1> QED
    BY <1>1, <1>2, <1>3, <1>4, <1>5

(* Every step keeps the invariant. *)
LEMMA ManagerInvNext ==
    ASSUME "pidfile" \notin Failing
    PROVE  ManagerInv /\ [ManagerNext]_managerVars => ManagerInv'
  <1> SUFFICES ASSUME ManagerInv, [ManagerNext]_managerVars
               PROVE  ManagerInv'
    BY SMTT(30)
  <1>1. CASE main
    BY <1>1, MainKeeps, Zenon DEF ManagerInv, main
  <1>2. CASE GracefulExit
    BY <1>2, ExitKeeps DEF ManagerInv, GracefulExit
  <1>3. ASSUME NEW port \in Ports, AddCommand(port)
        PROVE  ManagerInv'
    <2> DEFINE n == remove_server(mg, port)
    <2>1. PICK password \in Passwords, fails \in SUBSET Failing :
            mg' \in add_server(n, port, password, fails)
      BY <1>3 DEF AddCommand
    <2>2. ServersInv(n) /\ n.up = mg.up /\ Told(n, port)
      BY RemoveTells DEF ManagerInv
    <2>3. mg.up /\ mgMail' = mgMail
      BY <1>3, SMTT(30) DEF AddCommand
    <2> HIDE DEF n
    <2>4. ServersInv(mg')
      BY <2>1, <2>2, <2>3, AddKeeps, Zenon
    <2> QED
      BY <2>3, <2>4 DEF ManagerInv
  <1>4. ASSUME NEW port \in Ports, RemoveCommand(port)
        PROVE  ManagerInv'
    BY <1>4, RemoveTells DEF RemoveCommand, ManagerInv
  <1>5. CASE \/ ManagerDies \/ StatCommand \/ MailLost
             \/ \E p \in Pids : create_and_bind(p) \/ signal_cb(p) \/ stat_update_cb(p)
    BY <1>5, ServersKeep
  <1>6. CASE UNCHANGED managerVars
    BY <1>6, Zenon DEF managerVars, ManagerInv, ServersInv, IsManager, NoneForgotten, Untold
  <1> QED
    BY <1>1, <1>2, <1>3, <1>4, <1>5, <1>6 DEF ManagerNext

(* The invariant holds throughout: every process that is alive and was not *)
(* told to end is named by the pid file of its port (manager.c:304, :361,  *)
(* :865-882).                                                              *)
THEOREM ManagerInvariant ==
    ASSUME "pidfile" \notin Failing
    PROVE  ManagerSpec => []ManagerInv
  BY ManagerInvInit, ManagerInvNext, PTL DEF ManagerSpec

(* ss-manager forgets no server: whatever commands, crashes, restarts and  *)
(* reuses of pids there are, if the pid files can be written.              *)
THEOREM ServersNeverForgotten ==
    ASSUME "pidfile" \notin Failing
    PROVE  ManagerSpec => []NoOrphans
  BY ManagerInvariant, InvGivesNoOrphans, PTL

-----------------------------------------------------------------------------
(* The associations of the UDP relay. *)

RemoteInv(s) ==
    /\ IsRemote(s)
    /\ s.ref_count = Cardinality(s.closing)
    /\ s.phase = "closing" <=> s.closing # {}
    /\ s.timer => s.phase = "open"
    /\ s.recv => s.phase = "open"
    /\ s.header <= s.room

RelayInv ==
    /\ DOMAIN remotes = Remotes
    /\ \A r \in Remotes : RemoteInv(remotes[r])
    /\ connections \subseteq Remotes
    /\ server \in {"open", "closing", "freed"}
    /\ Running /\ server = "open" =>
          connections = {r \in Remotes : remotes[r].phase = "open"}

-----------------------------------------------------------------------------
(* How many handles are still closing. *)
LEMMA HandleCounts ==
    /\ Cardinality({}) = 0
    /\ Cardinality(Handles) = 2
    /\ \A h \in Handles : Cardinality({h}) = 1
    /\ \A c \in SUBSET Handles : \A h \in c :
          Cardinality(c \ {h}) = Cardinality(c) - 1
    /\ \A c \in SUBSET Handles : Cardinality(c) <= 1 => c = {} \/ \E h \in Handles : c = {h}
<1>1. Cardinality({}) = 0 /\ \A h \in Handles : Cardinality({h}) = 1
  BY FS_EmptySet, FS_Singleton, Zenon
<1>2. Cardinality(Handles) = 2
  <2>1. IsFiniteSet({"timer"}) /\ Cardinality({"timer"}) = 1
    BY FS_Singleton, Zenon
  <2>2. Handles = {"timer"} \cup {"udp"} /\ "udp" \notin {"timer"}
    BY DEF Handles
  <2>3. QED
    BY <2>1, <2>2, FS_AddElement
<1>3. \A c \in SUBSET Handles : c \in {{}, {"timer"}, {"udp"}, Handles}
  BY Zenon DEF Handles
<1>4. \A c \in SUBSET Handles : \A h \in c : Cardinality(c \ {h}) = Cardinality(c) - 1
  <2> SUFFICES ASSUME NEW c \in SUBSET Handles, NEW h \in c
               PROVE  Cardinality(c \ {h}) = Cardinality(c) - 1
    BY Zenon
  <2>1. CASE c = Handles
    <3>1. \E k \in Handles : c \ {h} = {k}
      BY <2>1 DEF Handles
    <3>2. QED
      BY <1>1, <1>2, <2>1, <3>1
  <2>2. CASE c = {h}
    <3>1. c \ {h} = {}
      BY <2>2
    <3>2. QED
      BY <1>1, <2>2, <3>1
  <2>3. QED
    BY <1>3, <2>1, <2>2 DEF Handles
<1>5. \A c \in SUBSET Handles : Cardinality(c) <= 1 => c = {} \/ \E h \in Handles : c = {h}
  BY <1>2, <1>3 DEF Handles
<1>6. QED
  BY <1>1, <1>2, <1>4, <1>5

(* A datagram that is not dropped holds the whole header: one shorter than *)
(* the three bytes before it, whose length wraps around, has no type.      *)
LEMMA HeaderFits ==
    ASSUME NEW p \in Packets, ~Dropped(p)
    PROVE  /\ p.len \in 3..PacketSize
           /\ udprelay_parse_header(p) \in 0..(p.len - 3)
<1>1. p.len \in Nat /\ p.atyp \in Nat /\ p.name_len \in Nat /\ PacketSize \in Nat
  BY PacketsAssumption
<1>2. CASE p.len <= 3
  <2>1. addr_type(p) = 0
    BY <1>1, <1>2 DEF addr_type
  <2>2. udprelay_parse_header(p) = 0
    BY <2>1 DEF udprelay_parse_header
  <2>3. QED
    BY <2>2 DEF Dropped
<1>3. CASE p.len > 3
  <2>1. buf_len(p) = p.len - 3 /\ name_len(p) \in Nat
    BY <1>1, <1>3 DEF buf_len, name_len
  <2>2. udprelay_parse_header(p) \in 0..(p.len - 3)
    BY <1>1, <1>3, <2>1 DEF udprelay_parse_header
  <2>3. QED
    BY <1>1, <1>3, <2>2 DEF Dropped
<1>4. QED
  BY <1>1, <1>2, <1>3

(* An open association that is shut down closes both its handles. *)
LEMMA ShutKeeps ==
    ASSUME NEW s, RemoteInv(s), s.phase = "open"
    PROVE  RemoteInv(Shut(s)) /\ Shut(s).phase = "closing"
<1>1. s.closing = {} /\ s.ref_count = 0
  BY HandleCounts, Zenon DEF RemoteInv
<1>2. /\ Shut(s).phase = "closing" /\ Shut(s).timer = FALSE /\ Shut(s).recv = FALSE
      /\ Shut(s).ref_count = 2 /\ Shut(s).closing = Handles
      /\ Shut(s).header = s.header /\ Shut(s).room = s.room
  BY <1>1 DEF Shut, RemoteInv, IsRemote
<1>3. IsRemote(Shut(s))
  BY <1>1 DEF Shut, RemoteInv, IsRemote
<1>4. QED
  BY <1>2, <1>3, HandleCounts DEF RemoteInv, Handles

LEMMA NewRemote ==
    ASSUME NEW p \in Packets, ~Dropped(p), NEW bound \in BOOLEAN, NEW s,
           s = IF bound
               THEN [NoRemote EXCEPT !.phase = "open", !.timer = TRUE, !.recv = TRUE,
                                     !.header = udprelay_parse_header(p),
                                     !.room = p.len - 3]
               ELSE [NoRemote EXCEPT !.phase = "leaked"]
    PROVE  RemoteInv(s) /\ s.phase = IF bound THEN "open" ELSE "leaked"
<1>1. p.len - 3 \in 0..PacketSize /\ udprelay_parse_header(p) \in 0..(p.len - 3)
  BY HeaderFits, PacketsAssumption
<1>2. udprelay_parse_header(p) \in 0..PacketSize /\ PacketSize \in Nat
  BY <1>1, PacketsAssumption
<1>3. IsRemote(s)
  BY <1>1, <1>2 DEF IsRemote, NoRemote
<1>4. QED
  BY <1>1, <1>2, <1>3, HandleCounts DEF RemoteInv, NoRemote

LEMMA HandleCloses ==
    ASSUME NEW s, RemoteInv(s), NEW h \in s.closing, NEW u,
           u = [s EXCEPT !.closing = @ \ {h}, !.ref_count = @ - 1,
                         !.phase = IF s.ref_count <= 1 THEN "freed" ELSE @]
    PROVE  RemoteInv(u) /\ u.phase # "open"
<1>1. /\ s.closing \in SUBSET Handles /\ s.ref_count \in 0..2 /\ s.phase = "closing"
      /\ s.ref_count = Cardinality(s.closing)
  BY DEF RemoteInv, IsRemote
<1>2. Cardinality(s.closing \ {h}) = s.ref_count - 1
  BY <1>1, HandleCounts
<1>3. s.ref_count <= 1 <=> s.closing \ {h} = {}
  <2>1. s.ref_count <= 1 => s.closing \ {h} = {}
    BY <1>1, HandleCounts
  <2>2. s.closing \ {h} = {} => s.ref_count <= 1
    <3>1. s.closing \ {h} = {} => s.closing = {h}
      OBVIOUS
    <3>2. QED
      BY <1>1, <3>1, HandleCounts
  <2>3. QED
    BY <2>1, <2>2
<1>4. s.ref_count >= 1
  BY <1>1, <1>2, <1>3, HandleCounts
<1>5. /\ u.closing = s.closing \ {h} /\ u.ref_count = s.ref_count - 1
      /\ u.phase = IF s.ref_count <= 1 THEN "freed" ELSE "closing"
      /\ u.timer = s.timer /\ u.recv = s.recv /\ u.header = s.header /\ u.room = s.room
  BY <1>1 DEF RemoteInv, IsRemote
<1>6. IsRemote(u)
  BY <1>1, <1>4 DEF RemoteInv, IsRemote
<1>7. QED
  BY <1>1, <1>2, <1>3, <1>5, <1>6 DEF RemoteInv

-----------------------------------------------------------------------------
LEMMA RelayInvInit == Init => RelayInv
<1>1. RemoteInv(NoRemote) /\ NoRemote.phase = "none"
  <2>1. IsRemote(NoRemote)
    BY PacketsAssumption DEF IsRemote, NoRemote
  <2>2. QED
    BY <2>1, HandleCounts DEF RemoteInv, NoRemote
<1>2. QED
  BY <1>1 DEF Init, RelayInv

(* Only an open association is shut down; it leaves the set in the same    *)
(* step, whether an answer, its timeout or the empty read after an answer  *)
(* ends it.                                                                *)
LEMMA ShutdownKeeps ==
    ASSUME RelayInv, Running, NEW r \in Remotes, remotes[r].phase = "open",
           udp_remote_shutdown(r), UNCHANGED server
    PROVE  RelayInv'
<1>1. RemoteInv(Shut(remotes[r])) /\ Shut(remotes[r]).phase = "closing"
  BY ShutKeeps DEF RelayInv
<1>2. /\ DOMAIN remotes' = Remotes
      /\ remotes'[r] = Shut(remotes[r])
      /\ \A q \in Remotes \ {r} : remotes'[q] = remotes[q]
      /\ connections' = connections \ {r}
  BY DEF udp_remote_shutdown, RelayInv
<1>3. Running' => Running
  BY DEF Running
<1>4. QED
  BY <1>1, <1>2, <1>3 DEF RelayInv

LEMMA RelayInvNext ==
    ASSUME RelayInv, [Next]_vars
    PROVE  RelayInv'
<1>1. ASSUME NEW r \in Remotes, NEW p \in Packets, NEW bound \in BOOLEAN,
             udp_listener_recv_cb(r, p, bound)
      PROVE  RelayInv'
  <2>1. /\ RemoteInv(remotes'[r])
        /\ remotes'[r].phase = IF bound THEN "open" ELSE "leaked"
        /\ DOMAIN remotes' = Remotes
        /\ \A q \in Remotes \ {r} : remotes'[q] = remotes[q]
    BY <1>1, NewRemote, ZenonT(30) DEF udp_listener_recv_cb, RelayInv
  <2>2. /\ server = "open" /\ server' = "open" /\ remotes[r].phase = "none"
        /\ connections' = IF bound THEN connections \cup {r} ELSE connections
        /\ Running /\ Running'
    BY <1>1 DEF udp_listener_recv_cb, Running
  <2>3. connections' = {q \in Remotes : remotes'[q].phase = "open"}
    <3>1. CASE bound = TRUE
      BY <2>1, <2>2, <3>1 DEF RelayInv
    <3>2. CASE bound = FALSE
      BY <2>1, <2>2, <3>2 DEF RelayInv
    <3>3. QED
      BY <3>1, <3>2, Zenon
  <2>4. QED
    BY <2>1, <2>2, <2>3 DEF RelayInv
<1>2. ASSUME NEW r \in Remotes, NEW s, RemoteInv(s), s.phase = remotes[r].phase,
             remotes' = [remotes EXCEPT ![r] = s],
             UNCHANGED <<connections, failed, server>>
      PROVE  RelayInv'
  BY <1>2 DEF RelayInv, Running
<1>3. ASSUME NEW r \in Remotes, NEW answer \in Answers, udp_remote_recv_cb(r, answer)
      PROVE  RelayInv'
  <2>1. Running /\ remotes[r].phase = "open" /\ UNCHANGED server
    BY <1>3 DEF udp_remote_recv_cb, RelayInv, RemoteInv
  <2>2. CASE answer = "error"
    BY <1>3, <2>2 DEF udp_remote_recv_cb, RelayInv, Running
  <2>3. CASE answer = "plugin_refused" /\ server # "freed"
    <3> DEFINE s == [remotes[r] EXCEPT !.timer = FALSE, !.again = TRUE]
    <3>1. RemoteInv(s) /\ s.phase = remotes[r].phase
      BY DEF RelayInv, RemoteInv, IsRemote
    <3>2. remotes' = [remotes EXCEPT ![r] = s] /\ UNCHANGED <<connections, failed, server>>
      BY <1>3, <2>3, Zenon DEF udp_remote_recv_cb, RelayInv
    <3>3. QED
      BY <1>2, <3>1, <3>2, Zenon
  <2>4. CASE answer # "error" /\ ~(answer = "plugin_refused" /\ server # "freed")
    <3>1. udp_remote_shutdown(r)
      BY <1>3, <2>4 DEF udp_remote_recv_cb
    <3>2. QED
      BY <2>1, <3>1, ShutdownKeeps
  <2>5. QED
    BY <2>2, <2>3, <2>4
<1>4. ASSUME NEW r \in Remotes, RecvAgain(r)
      PROVE  RelayInv'
  <2>1. Running /\ remotes[r].phase = "open" /\ UNCHANGED server
    BY <1>4 DEF RecvAgain, RelayInv, RemoteInv
  <2>2. CASE HasIv \/ server = "freed"
    BY <1>4, <2>1, <2>2, ShutdownKeeps DEF RecvAgain
  <2>3. CASE ~(HasIv \/ server = "freed")
    <3> DEFINE s == [remotes[r] EXCEPT !.again = FALSE]
    <3>1. RemoteInv(s) /\ s.phase = remotes[r].phase
      BY DEF RelayInv, RemoteInv, IsRemote
    <3>2. remotes' = [remotes EXCEPT ![r] = s] /\ UNCHANGED <<connections, failed, server>>
      BY <1>4, <2>3 DEF RecvAgain, RelayInv
    <3>3. QED
      BY <1>2, <3>1, <3>2, Zenon
  <2>4. QED
    BY <2>2, <2>3
<1>5. ASSUME NEW r \in Remotes, udp_remote_timeout_cb(r)
      PROVE  RelayInv'
  BY <1>5, ShutdownKeeps, Zenon DEF udp_remote_timeout_cb, RelayInv, RemoteInv
<1>6. ASSUME NEW r \in Remotes, NEW h \in Handles, udp_remote_close_done_cb(r, h)
      PROVE  RelayInv'
  <2> DEFINE s == remotes[r]
             u == [s EXCEPT !.closing = @ \ {h}, !.ref_count = @ - 1,
                            !.phase = IF s.ref_count <= 1 THEN "freed" ELSE @]
  <2>1. RemoteInv(s) /\ h \in s.closing /\ s.phase # "open"
    BY <1>6, SMTT(30) DEF udp_remote_close_done_cb, RelayInv, RemoteInv
  <2>2. RemoteInv(u) /\ u.phase # "open"
    BY <2>1, HandleCloses, ZenonT(30)
  <2>3. remotes' = [remotes EXCEPT ![r] = u] /\ UNCHANGED <<connections, failed, server>>
    BY <1>6, ZenonT(30) DEF udp_remote_close_done_cb, RelayInv
  <2> HIDE DEF u
  <2>4. QED
    BY <2>1, <2>2, <2>3 DEF RelayInv, Running
<1>7. ASSUME NEW reached \in SUBSET connections, udprelay_shutdown(reached)
      PROVE  RelayInv'
  <2>1. \A r \in reached : RemoteInv(Shut(remotes[r]))
    BY <1>7, ShutKeeps DEF udprelay_shutdown, RelayInv
  <2>2. QED
    BY <1>7, <2>1 DEF udprelay_shutdown, RelayInv
<1>8. CASE ShutdownCrash \/ udp_local_listener_close_done_cb \/ LoopExit \/ UNCHANGED vars
  BY <1>8 DEF ShutdownCrash, udp_local_listener_close_done_cb, LoopExit, vars,
      RelayInv, Running
<1>9. QED
  BY <1>1, <1>3, <1>4, <1>5, <1>6, <1>7, <1>8 DEF Next

(* RelayInv holds in every state, for any associations and datagrams.      *)
THEOREM RelayInvariant == Spec => []RelayInv
BY RelayInvInit, RelayInvNext, PTL DEF Spec

(* While the relay is open its set of connections holds exactly the open   *)
(* associations, and each is freed with its second close, no earlier and   *)
(* no later (udp_remote_shutdown, udp_remote_close_done_cb).               *)
THEOREM ConnectionsAreExact == Spec => []ConnectionsExact
<1>1. RelayInv => ConnectionsExact
  BY DEF RelayInv, ConnectionsExact, TypeOK, RemoteInv
<1>2. QED
  BY <1>1, RelayInvariant, PTL

(* Whatever the datagram, the header that is copied from it lies inside it *)
(* (udp_listener_recv_cb, udprelay_parse_header).                          *)
THEOREM HeaderAlwaysInPacket == Spec => []HeaderInPacket
<1>1. RelayInv => HeaderInPacket
  BY DEF RelayInv, HeaderInPacket, RemoteInv
<1>2. QED
  BY <1>1, RelayInvariant, PTL
=============================================================================

------------------------------ MODULE Manager ------------------------------
(***************************************************************************)
(* ss-manager (manager.c) and the ss-server processes it starts: each has  *)
(* a port in the manager's table, a configuration file and a pid file in   *)
(* the working directory.  A server is started through system() and        *)
(* daemonize, is stopped by a SIGTERM to the pid of its file, and reports  *)
(* its traffic in datagrams that may be late or lost.  Manager and servers *)
(* may crash; the pid of a dead process is used again.                     *)
(***************************************************************************)
EXTENDS Integers, Sequences, FiniteSets

CONSTANTS
    Ports, Passwords,
    Options,      \* options of ss-manager that are also options of ss-server
    Mergeable,    \* those the configuration file may give as well
    Pids,         \* process ids for servers (bound: servers alive at a time)
    MaxTraffic,   \* bound: traffic a server counts up to
    PingRoom,     \* entries that fill half of the ping buffer
    Failing       \* subset of "config", "system", "pidfile"

ASSUME ManagerAssumption ==
    /\ Mergeable \subseteq Options
    /\ Failing \subseteq {"config", "system", "pidfile"}
    /\ PingRoom \in Nat /\ MaxTraffic \in Nat
    /\ "none" \notin Ports /\ "none" \notin Passwords
    /\ 0 \notin Pids

VARIABLES
    mg,        \* the manager: table, files and processes
    mgMail     \* stat datagrams on their way

managerVars == <<mg, mgMail>>

NoServer == [password |-> "none", traffic |-> 0]
NoProc == [st |-> "dead", port |-> "none", password |-> "none", given |-> {},
           sig |-> FALSE, traffic |-> 0]

Live(p) == mg.proc[p].st # "dead"
PortsServed(m) == {port \in Ports : m.table[port] # NoServer}

ManagerInit ==
    /\ mg = [up |-> FALSE, clean |-> TRUE, given |-> {},
             table |-> [port \in Ports |-> NoServer],
             conf |-> [port \in Ports |-> "none"],
             pidf |-> [port \in Ports |-> 0],
             proc |-> [p \in Pids |-> NoProc]]
    /\ mgMail = {}

-----------------------------------------------------------------------------
(* Starting and stopping a server *)

(* A file that cannot be opened is left as it was. *)
build_config(m, port, password, opened) ==
    IF opened THEN [m EXCEPT !.conf[port] = password] ELSE m

(* The options the command line hands on: all but the interface. *)
construct_command_line(given) == given \ {"iface"}

(* main of ss-server: without -f the password comes from the file. *)
ServerMain(m, port) ==
    [NoProc EXCEPT !.st = "starting", !.port = port, !.password = m.conf[port],
                   !.given = construct_command_line(m.given)]

(* The parent writes the pid file, unless that fails, and the child goes   *)
(* on in any case.                                                         *)
daemonize(m, port, pid, written) ==
    LET n == [m EXCEPT !.proc[pid] = ServerMain(m, port)] IN
    IF written THEN [n EXCEPT !.pidf[port] = pid] ELSE n

(* The command may not run, and a server without a configuration file ends *)
(* before it becomes a daemon.                                             *)
add_server(m, port, password, fails) ==
    LET n == [build_config(m, port, password, "config" \notin fails)
                EXCEPT !.table[port] = [password |-> password, traffic |-> 0]]
        free == {p \in Pids : n.proc[p].st = "dead"}
    IN  IF "system" \in fails \/ free = {} \/ n.conf[port] = "none" THEN {n}
        ELSE {daemonize(n, port, pid, "pidfile" \notin fails) : pid \in free}

(* SIGTERM reaches whatever process has the pid now. *)
Signal(m, pids) ==
    [m EXCEPT !.proc = [p \in Pids |->
        IF p \in pids /\ m.proc[p].st # "dead" THEN [m.proc[p] EXCEPT !.sig = TRUE]
        ELSE m.proc[p]]]

stop_server(m, ports) == Signal(m, {m.pidf[port] : port \in ports})

kill_server(m, ports) ==
    [stop_server(m, ports) EXCEPT
        !.pidf = [port \in Ports |-> IF port \in ports THEN 0 ELSE m.pidf[port]]]

remove_server(m, port) ==
    stop_server([m EXCEPT !.table[port] = NoServer], {port})

-----------------------------------------------------------------------------
(* main *)

(* Options: command line, then configuration file, then defaults. *)
Merged(cmd, conf) == cmd \cup (conf \cap Mergeable)

(* The servers of the configuration. *)
ConfServers(m, port, password, fails) ==
    IF port = "none" THEN {m} ELSE add_server(m, port, password, fails)

(* A manager that cannot bind its socket exits, its servers started. *)
create_server_socket(m, bound) ==
    IF bound THEN m
    ELSE [m EXCEPT !.up = FALSE, !.table = [port \in Ports |-> NoServer]]

(* Servers of earlier runs are killed, those of the configuration started. *)
main ==
    /\ ~mg.up
    /\ \E cmd, conf \in SUBSET Options, fails \in SUBSET Failing, bound \in BOOLEAN,
          port \in Ports \cup {"none"}, password \in Passwords :
        LET m == [kill_server(mg, Ports) EXCEPT !.up = TRUE, !.clean = FALSE,
                     !.given = Merged(cmd, conf),
                     !.table = [x \in Ports |-> NoServer]]
        IN  \E n \in ConfServers(m, port, password, fails) :
                mg' = create_server_socket(n, bound)
    /\ UNCHANGED mgMail

(* SIGINT or SIGTERM: the servers of the table are stopped. *)
GracefulExit ==
    /\ mg.up
    /\ mg' = [stop_server(mg, PortsServed(mg)) EXCEPT
                 !.up = FALSE, !.clean = TRUE,
                 !.table = [port \in Ports |-> NoServer]]
    /\ UNCHANGED mgMail

ManagerDies ==
    /\ mg.up
    /\ mg' = [mg EXCEPT !.up = FALSE, !.table = [port \in Ports |-> NoServer]]
    /\ UNCHANGED mgMail

-----------------------------------------------------------------------------
(* manager_recv_cb, one action for each command.  A command without data,  *)
(* without a port or, for add, without a password is answered with err,    *)
(* and changes nothing; neither does ping.                                 *)

AddWithoutRemove(port) ==   \* mutant: the old server is not removed first
    /\ mg.up
    /\ \E password \in Passwords, fails \in SUBSET Failing :
        mg' \in add_server(mg, port, password, fails)
    /\ UNCHANGED mgMail

AddCommand(port) ==
    /\ mg.up
    /\ \E password \in Passwords, fails \in SUBSET Failing :
        mg' \in add_server(remove_server(mg, port), port, password, fails)
    /\ UNCHANGED mgMail

RemoveCommand(port) ==
    /\ mg.up
    /\ mg' = remove_server(mg, port)
    /\ UNCHANGED mgMail

update_stat(m, port, traffic) ==
    IF m.table[port] = NoServer THEN m ELSE [m EXCEPT !.table[port].traffic = traffic]

StatCommand ==
    /\ mg.up
    /\ \E d \in mgMail :
        /\ mg' = update_stat(mg, d.port, d.traffic)
        /\ mgMail' = mgMail \ {d}

(* The entry that finds the buffer half full is not written, and what      *)
(* follows goes into a buffer without the head.                            *)
PingMessages(ports) ==
    LET put[n \in 0..Len(ports)] ==
            IF n = 0 THEN [out |-> <<>>, buf |-> [head |-> TRUE, ports |-> <<>>]]
            ELSE IF Len(put[n - 1].buf.ports) > PingRoom
            THEN [out |-> Append(put[n - 1].out, put[n - 1].buf),
                  buf |-> [head |-> FALSE, ports |-> <<>>]]
            ELSE [put[n - 1] EXCEPT !.buf.ports = Append(@, ports[n])]
        last == put[Len(ports)]
    IN  Append(last.out, last.buf)

-----------------------------------------------------------------------------
(* The servers *)

(* It binds (beside an older server: the port is shared) and runs, or ends.*)
create_and_bind(p) ==
    /\ mg.proc[p].st = "starting"
    /\ \E st \in {"running", "dead"} :
        mg' = [mg EXCEPT !.proc[p] = IF st = "dead" THEN NoProc ELSE [@ EXCEPT !.st = st]]
    /\ UNCHANGED mgMail

(* SIGTERM ends the loop of ss-server; a crash may end it at any time. *)
signal_cb(p) ==
    /\ Live(p)
    /\ mg' = [mg EXCEPT !.proc[p] = NoProc]
    /\ UNCHANGED mgMail

stat_update_cb(p) ==
    /\ mg.proc[p].st = "running" /\ mg.proc[p].traffic < MaxTraffic
    /\ mg' = [mg EXCEPT !.proc[p].traffic = @ + 1]
    /\ mgMail' = mgMail \cup {[port |-> mg.proc[p].port, traffic |-> mg'.proc[p].traffic]}

MailLost ==
    /\ \E d \in mgMail : mgMail' = mgMail \ {d}
    /\ UNCHANGED mg

ManagerNext ==
    \/ main \/ GracefulExit \/ ManagerDies
    \/ \E port \in Ports : AddCommand(port) \/ RemoveCommand(port)
    \/ StatCommand \/ MailLost
    \/ \E p \in Pids : create_and_bind(p) \/ signal_cb(p) \/ stat_update_cb(p)

-----------------------------------------------------------------------------
(* No server is forgotten: a process that has not been told to end is the  *)
(* one its port's pid file names, so at most one for a port; while the     *)
(* manager runs its port is in the table; and after a graceful exit there  *)
(* is none.  This holds across add over add, remove, crashes of both       *)
(* sides, restarts, pid files of dead processes and pids used again.       *)
NoOrphans ==
    \A p \in Pids :
        Live(p) /\ ~mg.proc[p].sig =>
            /\ mg.pidf[mg.proc[p].port] = p
            /\ mg.up => mg.table[mg.proc[p].port] # NoServer
            /\ ~(~mg.up /\ mg.clean)

(* A running server got every option the manager was given:                *)
(* "Arguments for ss-server will be passed to generated ss-server          *)
(* process(es) respectively" (ss-manager.asciidoc).                        *)
OptionsPassed ==
    \A p \in Pids :
        mg.up /\ Live(p) /\ ~mg.proc[p].sig => mg.proc[p].given = mg.given

(* A ping is answered with the statistics of every port in the table, each *)
(* datagram as "stat: {...}" (ss-manager.asciidoc), in whatever order the  *)
(* table is iterated.                                                      *)
PingComplete ==
    \A order \in [1..Cardinality(PortsServed(mg)) -> PortsServed(mg)] :
        {order[i] : i \in DOMAIN order} = PortsServed(mg) =>
            LET answer == PingMessages(order) IN
            /\ \A i \in DOMAIN answer : answer[i].head
            /\ UNION {{answer[i].ports[j] : j \in DOMAIN answer[i].ports} : i \in DOMAIN answer}
                 = PortsServed(mg)
=============================================================================

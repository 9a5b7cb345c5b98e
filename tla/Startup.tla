------------------------------ MODULE Startup ------------------------------
(***************************************************************************)
(* How the option-driven programs come up and go down: the main functions  *)
(* of ss-server (server.c), ss-local (local.c), ss-redir (redir.c) and      *)
(* ss-tunnel (tunnel-back.c), with the JSON configuration of jconf.c.       *)
(*                                                                         *)
(* A setting's value is a token saying where the text came from: "c" the    *)
(* command line, "f" the configuration file, "d" the built-in default.      *)
(* Members of the file are read in the order they are written.              *)
(***************************************************************************)
EXTENDS Naturals, Sequences
LOCAL INSTANCE SequencesExt
LOCAL INSTANCE FiniteSetsExt

CONSTANTS
    Programs,       \* the programs explored
    CmdSettings,    \* the sets of settings a command line may give
    CmdHosts,       \* how many -s options it may carry
    Members,        \* the members a configuration file may have
    MaxMembers,     \* bound: members in one file
    MaxRemote,      \* MAX_REMOTE_NUM
    MaxDns          \* MAX_DNS_NUM

VARIABLE boot       \* the one process that starts

startVars == <<boot>>

Unset == "-"
LegacyKeys == {"remote_port", "local_addr", "local_port", "password",
               "protocol", "method"}
GeneralKeys == {"timeout", "user", "tunnel"}
SettingKeys == LegacyKeys \cup GeneralKeys
Modes == {"tcp_only", "tcp_and_udp", "udp_only"}

\* "[a:b]:port", "a:port", ... as the tokens strchr and strlen tell apart.
AddressText == [host        |-> <<"h">>,
                host_port   |-> <<"h", ":", "p">>,
                ip6         |-> <<"6", ":", ":", "6">>,
                ip6_bracket |-> <<"[", "6", ":", ":", "6", "]">>,
                ip6_port    |-> <<"[", "6", ":", ":", "6", "]", ":", "p">>]

\* cork_ip_init takes a bare address and nothing else.
IsIp(str) == str = AddressText.ip6

parse_addr(str) ==
    LET colons == {i \in DOMAIN str : str[i] = ":"}
        ipv6 == Len(SelectSeq(str, LAMBDA c : c = ":")) > 1
        last == IF colons = {} THEN 0 ELSE Max(colons)
        ret == IF ipv6 /\ str[last - 1] # "]" THEN 0 ELSE last
    IN CASE IsIp(str) -> [host |-> str, port |-> Unset]
         [] ~IsIp(str) /\ ret = 0 ->
              [host |-> IF ipv6 THEN SubSeq(str, 2, Len(str) - 1) ELSE str,
               port |-> Unset]
         [] ~IsIp(str) /\ ret # 0 ->
              [host |-> SubSeq(str, IF ipv6 THEN 2 ELSE 1,
                               IF ipv6 THEN ret - 2 ELSE ret - 1),
               port |-> str[ret + 1]]

--------------------------------------------------------------------------
(* jconf.c *)

\* A member is its name, the kind of its value ("text", "list", "bad") and,
\* for the servers it names, the shape of their addresses and their number.
NoConf == [ver |-> "legacy", hosts |-> <<>>, mode |-> "tcp_only",
           val |-> [k \in SettingKeys |-> Unset],
           dns |-> 0, servers |-> 0, failed |-> FALSE]

\* Only a string, a number or null becomes text.
to_string(conf, m, read) ==
    IF m.kind = "text" THEN read ELSE [conf EXCEPT !.failed = TRUE]

\* A list is parsed address by address; a single string is taken as it is.
ReadServer(conf, m) ==
    CASE m.kind = "list" ->
           [conf EXCEPT !.hosts = [i \in 1 .. Min({m.n, MaxRemote}) |->
                                     parse_addr(AddressText[m.val])]]
      [] m.kind = "text" ->
           [conf EXCEPT !.hosts = <<[host |-> AddressText[m.val],
                                     port |-> Unset]>>]
      [] m.kind = "bad" -> conf

\* The legacy servers and the new ones share one union: it is cleared.
ReadServers(conf, m) ==
    [conf EXCEPT !.ver = "servers", !.hosts = <<>>,
                 !.val = [k \in SettingKeys |->
                            IF k \in LegacyKeys THEN Unset ELSE @[k]],
                 !.servers = IF m.kind = "list" THEN Min({m.n, MaxRemote})
                             ELSE 0]

ReadGeneral(conf, m) ==
    CASE m.name \in GeneralKeys ->
           to_string(conf, m, [conf EXCEPT !.val[m.name] = "f"])
      [] m.name = "nameserver" ->
           to_string(conf, m, [conf EXCEPT !.dns = 1])
      [] m.name = "mode" ->
           to_string(conf, m, IF m.val \in Modes
                              THEN [conf EXCEPT !.mode = m.val] ELSE conf)

\* A member met after "servers" matches nothing.
ReadMember(conf, m) ==
    CASE conf.failed \/ conf.ver # "legacy" -> conf
      [] conf.ver = "legacy" /\ ~conf.failed ->
           CASE m.name = "server" -> ReadServer(conf, m)
             [] m.name = "servers" -> ReadServers(conf, m)
             [] m.name \in LegacyKeys ->
                  to_string(conf, m, [conf EXCEPT !.val[m.name] =
                                        IF m.val = "verify_sha1"
                                        THEN m.val ELSE "f"])
             [] OTHER -> ReadGeneral(conf, m)

\* A file that cannot be read or parsed is fatal too.
read_jconf(file) == FoldLeft(ReadMember, NoConf, file)

--------------------------------------------------------------------------
(* The command line and the file become settings. *)

NoCmd == [opts |-> [k \in SettingKeys |-> Unset], hosts |-> <<>>,
          mode |-> "tcp_only", dns |-> 0]

\* The settings each program's getopt_long accepts.
server_options == {"remote_port", "password", "method", "timeout", "user"}
local_options == SettingKeys
redir_options == SettingKeys \ {"tunnel"}
tunnel_options == SettingKeys

OptionsOf(p) ==
    CASE p = "server" -> server_options [] p = "local" -> local_options
      [] p = "redir" -> redir_options   [] p = "tunnel" -> tunnel_options

Or(a, b) == IF a = Unset THEN b ELSE a

\* Each setting the command line left out, from the file.
Filled(set, conf, keys) ==
    [set EXCEPT !.opts = [k \in SettingKeys |->
                            IF k \in keys THEN Or(@[k], conf.val[k])
                            ELSE @[k]]]
WithHosts(set, conf) ==
    IF set.hosts = <<>> THEN [set EXCEPT !.hosts = conf.hosts] ELSE set
ModeFromFile(set, conf) ==   \* mutant: the file's mode always wins
    [set EXCEPT !.mode = conf.mode]
WithMode(set, conf) ==
    IF set.mode = "tcp_only" THEN [set EXCEPT !.mode = conf.mode] ELSE set

\* The name server of the file joins those of the command line.
server_config(set, conf) ==
    LET taken == WithMode(WithHosts(Filled(set, conf, server_options), conf),
                          conf)
    IN [taken EXCEPT
         !.dns = @ + conf.dns,
         !.hosts = [i \in DOMAIN @ |-> [@[i] EXCEPT !.port = Unset]]]

local_config(set, conf) ==
    LET legacy == IF conf.ver = "legacy"
                  THEN WithHosts(Filled(set, conf, LegacyKeys), conf) ELSE set
    IN WithMode(Filled(legacy, conf, GeneralKeys), conf)

redir_config(set, conf) ==
    LET legacy == IF conf.ver = "legacy"
                  THEN WithHosts(Filled(set, conf, LegacyKeys), conf) ELSE set
    IN Filled(legacy, conf, {"timeout", "user"})

tunnel_config(set, conf) ==
    WithMode(WithHosts(Filled(set, conf, SettingKeys), conf), conf)

\* What must be known, and the defaults of the rest.
Given(set, keys) == \A k \in keys : set.opts[k] # Unset
Defaults(set, keys) ==
    [set EXCEPT !.opts = [k \in SettingKeys |->
        IF k = "protocol" /\ @[k] = "verify_sha1" THEN Unset
        ELSE IF k \in keys THEN Or(@[k], "d") ELSE @[k]]]

NoHost == <<[host |-> <<>>, port |-> Unset]>>

server_defaults(set) ==
    IF Given(set, {"remote_port", "password"})
    THEN {Defaults([set EXCEPT !.hosts = IF @ = <<>> THEN NoHost ELSE @],
                   {"method", "timeout"})}
    ELSE {}
local_defaults(set) ==
    IF set.hosts # <<>> /\ Given(set, {"remote_port", "password", "local_port"})
    THEN {Defaults(set, {"method", "timeout", "local_addr"})} ELSE {}
redir_defaults(set) ==
    IF set.hosts # <<>> /\ Given(set, {"remote_port", "password", "local_port"})
    THEN {Defaults(set, {"method", "timeout", "local_addr"})} ELSE {}
tunnel_defaults(set) ==
    IF /\ set.hosts # <<>>
       /\ Given(set, {"remote_port", "password", "local_port", "tunnel"})
    THEN {Defaults(set, {"method", "timeout", "local_addr"})} ELSE {}

\* The settings main goes on with: none when it prints its usage and exits.
SettingsOf(p, cmd, conf) ==
    IF conf.failed THEN {}
    ELSE CASE p = "server" -> server_defaults(server_config(cmd, conf))
           [] p = "local" -> local_defaults(local_config(cmd, conf))
           [] p = "redir" -> redir_defaults(redir_config(cmd, conf))
           [] p = "tunnel" -> tunnel_defaults(tunnel_config(cmd, conf))

--------------------------------------------------------------------------
(* The process. *)

NothingUp == [tcp |-> {}, udp |-> {}, remotes |-> <<>>, signals |-> FALSE,
              timers |-> FALSE, resolver |-> FALSE, user |-> Unset]

Files == UNION {[1 .. n -> Members] : n \in 0 .. MaxMembers}
Distinct(file) == \A i, j \in DOMAIN file :
                      file[i].name = file[j].name => i = j

StartInit ==
    \E p \in Programs :
        boot = [prog |-> p, pc |-> "options", cmd |-> NoCmd, file |-> <<>>,
                set |-> NoCmd, new |-> 0, up |-> NothingUp]

Exit == boot' = [boot EXCEPT !.pc = "failed", !.up = NothingUp]

\* getopt_long: an unknown option ends main; hosts past the limit are lost.
getopt ==
    /\ boot.pc = "options"
    /\ \/ /\ boot.prog = "server" \* a letter of another program
          /\ \E given \in CmdSettings : ~(given \subseteq server_options)
          /\ Exit
       \/ \E given \in CmdSettings, n \in CmdHosts, m \in Modes,
             d \in IF boot.prog = "server" THEN {0, MaxDns + 1} ELSE {0} :
            /\ given \subseteq OptionsOf(boot.prog)
            /\ boot' = [boot EXCEPT !.pc = "config", !.cmd =
                 [opts |-> [k \in SettingKeys |->
                              IF k \in given THEN "c" ELSE Unset],
                  hosts |-> [i \in 1 .. Min({n, MaxRemote}) |->
                               [host |-> <<"c">>, port |-> Unset]],
                  mode |-> m, dns |-> Min({d, MaxDns})]]

\* read_jconf when -c, or no argument at all, names a file; then the checks.
Configure ==
    /\ boot.pc = "config"
    /\ \E file \in {f \in Files : Distinct(f)} :
         LET conf == read_jconf(file)
             sets == SettingsOf(boot.prog, boot.cmd, conf)
         IN IF sets = {} THEN boot' = [boot EXCEPT !.pc = "failed",
                                                   !.file = file]
            ELSE \E s \in sets :
                   boot' = [boot EXCEPT !.pc = "setup", !.file = file,
                                        !.set = s, !.new = conf.servers]

\* A host is used with its own port when it has one.
Remote(set, h) == [host |-> h.host, port |-> Or(h.port, set.opts.remote_port)]

server_setup ==
    boot' = [boot EXCEPT !.pc = "listen", !.up.signals = TRUE,
                         !.up.resolver = TRUE]

\* Only the first host is kept, with the port of -p.
local_setup ==
    boot' = [boot EXCEPT !.pc = "listen", !.up.signals = TRUE,
               !.up.remotes = <<[host |-> boot.set.hosts[1].host,
                                 port |-> boot.set.opts.remote_port]>>]

\* With "servers" in the file these replace the hosts of the command line.
redir_setup ==
    LET new == read_jconf(boot.file).ver = "servers"
    IN boot' = [boot EXCEPT !.pc = "listen", !.up.signals = TRUE,
         !.up.remotes = IF new
           THEN [i \in 1 .. boot.new |-> [host |-> <<"f">>, port |-> "f"]]
           ELSE [i \in DOMAIN boot.set.hosts |->
                   Remote(boot.set, boot.set.hosts[i])]]

\* An address without a port ends ss-tunnel.
tunnel_setup(addr) ==
    IF parse_addr(addr).port = Unset THEN Exit
    ELSE boot' = [boot EXCEPT !.pc = "listen", !.up.signals = TRUE,
           !.up.remotes = [i \in DOMAIN boot.set.hosts |->
                             Remote(boot.set, boot.set.hosts[i])]]

\* Daemonising, resolving a host or a cipher may each end main here.
Setup ==
    /\ boot.pc = "setup"
    /\ \/ Exit
       \/ boot.prog = "server" /\ server_setup
       \/ boot.prog = "local" /\ local_setup
       \/ boot.prog = "redir" /\ redir_setup
       \/ /\ boot.prog = "tunnel"
          /\ \E shape \in DOMAIN AddressText : tunnel_setup(AddressText[shape])

\* One host at a time, the last one first.
server_listen ==
    LET left == boot.set.hosts
        i == Len(left)
        tcp == IF boot.set.mode # "udp_only" THEN {i} ELSE {}
        udp == IF boot.set.mode # "tcp_only" THEN {i} ELSE {}
        up == [boot.up EXCEPT !.tcp = @ \cup tcp, !.udp = @ \cup udp]
    IN boot' = IF i > 1
               THEN [boot EXCEPT !.set.hosts = Front(left), !.up = up]
               ELSE [boot EXCEPT !.set.hosts = Front(left), !.pc = "user",
                                 !.up = [up EXCEPT !.timers = TRUE]]

\* ss-local listens on TCP whatever the mode.
local_listen ==
    boot' = [boot EXCEPT !.pc = "running", !.up.tcp = {1},
                         !.up.udp = IF boot.set.mode # "tcp_only" THEN {1}
                                    ELSE {}]

redir_listen ==
    boot' = [boot EXCEPT !.pc = "user",
               !.up.tcp = IF boot.set.mode # "udp_only" THEN {1} ELSE {},
               !.up.udp = IF boot.set.mode # "tcp_only" THEN {1} ELSE {}]

tunnel_listen ==
    boot' = [boot EXCEPT !.pc = "user",
               !.up.tcp = IF boot.set.mode # "udp_only" THEN {1} ELSE {},
               !.up.udp = IF boot.set.mode # "tcp_only" THEN {1} ELSE {}]

Listen ==
    /\ boot.pc = "listen"
    /\ \/ Exit
       \/ boot.prog = "server" /\ server_listen
       \/ boot.prog = "local" /\ local_listen
       \/ boot.prog = "redir" /\ redir_listen
       \/ boot.prog = "tunnel" /\ tunnel_listen

\* setgid, initgroups and setuid, or main ends.
run_as ==
    /\ boot.pc = "user"
    /\ \/ boot' = [boot EXCEPT !.pc = "running", !.up.user = boot.set.opts.user]
       \/ boot.set.opts.user # Unset /\ Exit

\* Mutant: the resolver is not shut down.
CleanupKeepsResolver ==
    boot' = [boot EXCEPT !.pc = "ended",
               !.up = [NothingUp EXCEPT !.tcp = boot.up.tcp \ {1},
                                        !.resolver = boot.up.resolver,
                                        !.user = boot.up.user]]

\* The loop of ss-server counts server_num, which is 0 by now.
server_cleanup ==
    boot' = [boot EXCEPT !.pc = "ended",
               !.up = [NothingUp EXCEPT !.tcp = boot.up.tcp \ {1},
                                        !.user = boot.up.user]]

local_cleanup ==
    boot' = [boot EXCEPT !.pc = "ended",
               !.up = [NothingUp EXCEPT !.user = boot.up.user]]

\* SIGINT or SIGTERM: ss-redir and ss-tunnel call exit in the handler.
Stop ==
    /\ boot.pc = "running"
    /\ \/ boot.prog = "server" /\ server_cleanup
       \/ boot.prog = "local" /\ local_cleanup
       \/ boot.prog \in {"redir", "tunnel"} /\ Exit

StartNext == getopt \/ Configure \/ Setup \/ Listen \/ run_as \/ Stop

StartSpec == StartInit /\ [][StartNext]_startVars

--------------------------------------------------------------------------
(* Properties *)

\* The command line that doc/shadowsocks-libev.asciidoc lists as the
\* equivalent of a file.
Moved(p, cmd, m) ==
    CASE m.name \in OptionsOf(p) ->
           [cmd EXCEPT !.opts[m.name] =
              Or(@, IF m.val = "verify_sha1" THEN m.val ELSE "f")]
      [] m.name = "server" /\ cmd.hosts = <<>> /\ m.kind # "bad" ->
           LET addr == parse_addr(AddressText[m.val])
           IN [cmd EXCEPT
                !.hosts = [i \in 1 .. IF m.kind = "list"
                                      THEN Min({m.n, MaxRemote}) ELSE 1 |->
                             [host |-> addr.host, port |-> Unset]],
                !.opts.remote_port = Or(@, addr.port)]
      [] m.name = "mode" /\ cmd.mode = "tcp_only" /\ m.val \in Modes ->
           [cmd EXCEPT !.mode = m.val]
      [] OTHER -> cmd

\* What a program does with its settings: whom it talks to, and how.
UsedBy(p, sets) ==
    {[remotes |-> IF p = "local" THEN <<[host |-> s.hosts[1].host,
                                         port |-> s.opts.remote_port]>>
                  ELSE [i \in DOMAIN s.hosts |-> Remote(s, s.hosts[i])],
      others |-> [k \in OptionsOf(p) \ {"remote_port"} |-> s.opts[k]],
      mode |-> s.mode] : s \in sets}

\* doc/shadowsocks-libev.asciidoc: "The config file equivalent of command
\* line options is listed as example below."  A program started from a file
\* (read_jconf and the merge in main) uses the same settings as one started
\* with the options the table lists for the members of that file, whatever
\* their order.  The "servers" member has no equivalent option, and ss-redir
\* does not read "mode".
ConfigEquivalent ==
    LET p == boot.prog
        conf == read_jconf(boot.file)
        names == {boot.file[i].name : i \in DOMAIN boot.file}
        line == FoldLeft(LAMBDA c, m : Moved(p, c, m), boot.cmd, boot.file)
    IN boot.pc \notin {"options", "config"} /\ ~conf.failed
         /\ "servers" \notin names /\ (p = "redir" => "mode" \notin names)
       => UsedBy(p, SettingsOf(p, boot.cmd, conf))
            = UsedBy(p, SettingsOf(p, line, NoConf))

\* The arrays main fills (server_host, remote_addr, nameservers) never hold
\* more than they have room for, whichever of the command line and the file
\* the entries come from; and a program that left its loop has closed what
\* it opened, in the order "// Clean up" lists.
ResourcesKept ==
    /\ Len(boot.set.hosts) <= MaxRemote
    /\ Len(boot.up.remotes) <= MaxRemote
    /\ boot.set.dns <= MaxDns + 1
    /\ boot.pc = "ended" => [boot.up EXCEPT !.user = Unset] = NothingUp

=============================================================================

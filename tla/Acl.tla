-------------------------------- MODULE Acl ---------------------------------
(***************************************************************************)
(* The access control lists of acl.c and rule.c.  An ACL file is a         *)
(* sequence of lines; a line in brackets names the list that the following *)
(* lines go to, or the mode.  An entry is an address, a network or a       *)
(* pattern; here it stands for the one host it matches, whichever of the   *)
(* two ipsets or the rule list it is kept in.                              *)
(***************************************************************************)
EXTENDS Integers, Sequences, TLC

Lists == {"black", "white", "outbound"}

SectionLines ==
    [x \in {"[white_list]", "[proxy_list]"} |-> "black"] @@
    [x \in {"[black_list]", "[bypass_list]"} |-> "white"] @@
    [x \in {"[outbound_block_list]"} |-> "outbound"]

ModeLines ==
    [x \in {"[reject_all]", "[bypass_all]"} |-> "BLACK_LIST"] @@
    [x \in {"[accept_all]", "[proxy_all]"} |-> "WHITE_LIST"]

EmptyAcl ==
    [black |-> {}, white |-> {}, outbound |-> {}, mode |-> "BLACK_LIST",
     list |-> "black"]

acl_line(acl, line) ==
    CASE line \in DOMAIN SectionLines -> [acl EXCEPT !.list = SectionLines[line]]
      [] line \in DOMAIN ModeLines -> [acl EXCEPT !.mode = ModeLines[line]]
      [] line = "[remote_dns]" -> acl
      [] OTHER -> [acl EXCEPT ![acl.list] = @ \cup {line}]

init_acl(file) ==
    LET after[n \in 0..Len(file)] ==   \* the lists after n lines
            IF n = 0 THEN EmptyAcl ELSE acl_line(after[n - 1], file[n])
    IN  after[Len(file)]

acl_match_host(acl, host) ==
    IF host \in acl.black THEN 1 ELSE IF host \in acl.white THEN -1 ELSE 0

outbound_block_match_host(acl, host) == host \in acl.outbound
=============================================================================

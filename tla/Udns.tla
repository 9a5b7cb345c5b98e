-------------------------------- MODULE Udns --------------------------------
(***************************************************************************)
(* The asynchronous resolver of libudns (udns_resolver.c) under the timer  *)
(* that resolv.c gives it: queries that try several servers, several times *)
(* and under several search suffixes, kept in a list sorted by deadline.   *)
(* Deadlines are relative to now: Submitted is the zero deadline of a new  *)
(* query, 0 has been reached.  dns_timeouts and dns_ioevent are loops: one *)
(* iteration is a step, and between the iterations only the callback of a  *)
(* query that has ended may submit and cancel.                             *)
(***************************************************************************)
EXTENDS Integers, Sequences, FiniteSets

CONSTANTS
    Queries,      \* queries the program submits
    NServ,        \* dnsc_nserv
    NTries,       \* dnsc_ntries
    BaseTimeout,  \* dnsc_timeout
    NSrch,        \* number of search suffixes
    Fitting,      \* the suffixes with which the name is not too long
    Ids           \* query identifiers

ASSUME UdnsAssumption ==
    /\ NServ \in Nat \ {0} /\ NTries \in Nat \ {0} /\ BaseTimeout \in Nat \ {0}
    /\ NSrch \in Nat /\ Fitting \subseteq 1..NSrch /\ Ids # {}
    /\ \A try \in 0..(NTries - 1) : BaseTimeout * 2 ^ try \in Nat

VARIABLES
    dnQ,        \* the queries
    dnList,     \* dnsc_qactive, head first
    dnUtmexp,   \* dnsc_utmexp: NoTimer, Asap, or what is left of it
    dnTimer,    \* resolv_timeout_watcher: Off, or what is left of it
    dnLoop,     \* "idle", or inside "timeouts" or "io"
    dnCb,       \* the callback of an ended query is running
    dnOpen      \* the socket is open

udnsVars == <<dnQ, dnList, dnUtmexp, dnTimer, dnLoop, dnCb, dnOpen>>

NoTimer == -2
Asap == -1
Off == -1
Submitted == -1
Servers == 0..(NServ - 1)

Least(S) == CHOOSE i \in S : \A j \in S : i <= j
Greatest(S) == CHOOSE i \in S : \A j \in S : j <= i

(* qlist_remove *)
Unlinked(list, q) ==
    LET i == CHOOSE i \in DOMAIN list : list[i] = q
    IN  SubSeq(list, 1, i - 1) \o SubSeq(list, i + 1, Len(list))

NewQuery == [st |-> "new", status |-> "none", ended |-> 0, id |-> 0, dn |-> 0,
             try |-> 0, servi |-> 0, servwait |-> {}, servskip |-> {},
             servnEDNS0 |-> {}, deadline |-> Submitted, nxtsrch |-> 0,
             asis |-> FALSE, nodata |-> FALSE, denied |-> {}]

UdnsInit ==
    /\ dnQ = [q \in Queries |-> NewQuery]
    /\ dnList = <<>> /\ dnUtmexp = NoTimer /\ dnTimer = Off
    /\ dnLoop = "idle" /\ dnCb = FALSE /\ dnOpen = FALSE

-----------------------------------------------------------------------------
(* Requesting the timer *)

(* dns_timer_setup_cb: the timer is stopped, and started unless timeout    *)
(* is negative.                                                            *)
dns_timer_setup_cb(timeout) == dnTimer' = IF timeout >= 0 THEN timeout ELSE Off

(* The new deadline; the timer is left alone when it is the one that was   *)
(* asked for last.  now is FALSE for the callers that pass 0.              *)
_dns_request_utm(qs, list, now) ==
    LET left == qs[list[1]].deadline
        deadline == IF list = <<>> THEN NoTimer
                    ELSE IF ~now \/ left <= 0 THEN Asap ELSE left
    IN  IF dnUtmexp = deadline THEN UNCHANGED <<dnUtmexp, dnTimer>>
        ELSE /\ dnUtmexp' = deadline
             /\ dns_timer_setup_cb(CASE deadline = NoTimer -> -1
                                     [] deadline = Asap -> 0
                                     [] OTHER -> left)

NoLaterTimer(qs, list, now) ==   \* mutant: a timer that runs is kept
    IF dnTimer >= 0 /\ list # <<>> THEN UNCHANGED <<dnUtmexp, dnTimer>>
    ELSE _dns_request_utm(qs, list, now)

dns_request_utm(qs, list, now) == _dns_request_utm(qs, list, now)

-----------------------------------------------------------------------------
(* Names and servers *)

(* A new identifier, unlike those of the active queries if five attempts   *)
(* find one, and a fresh round of servers.                                 *)
dns_newid(r, id) ==
    [r EXCEPT !.id = id, !.try = 0, !.servi = 0, !.servwait = {},
              !.servskip = {}, !.servnEDNS0 = {}]

NextNamesShort(r) ==   \* mutant: the name as it is comes last no more
    {i \in r.nxtsrch..NSrch : i \in Fitting}

(* The next name of the search: suffixes that fit, and the name as it is   *)
(* at the end unless that was tried first.                                 *)
NextNames(r) ==
    {i \in r.nxtsrch..(NSrch + 1) :
        IF i = NSrch + 1 THEN ~r.asis ELSE i \in Fitting}

dns_next_srch(r, id) ==
    LET i == Least(NextNames(r)) IN
    dns_newid([r EXCEPT !.nxtsrch = i + 1, !.asis = @ \/ i = NSrch + 1,
                        !.dn = IF i = NSrch + 1 THEN 0 ELSE i], id)

dns_find_serv(r) ==
    [r EXCEPT !.servi = Least({i \in r.servi..NServ : i \notin r.servskip})]

-----------------------------------------------------------------------------
(* Ending and sending a query *)

(* The struct is freed; what has happened to the query stays known. *)
Freed(r, st) ==
    [NewQuery EXCEPT !.st = st, !.ended = r.ended, !.denied = r.denied]

dns_end_query(q, r, status) ==
    /\ dnQ' = [dnQ EXCEPT ![q] = [Freed(r, "done") EXCEPT !.status = status,
                                                          !.ended = @ + 1]]
    /\ dnList' = Unlinked(dnList, q)
    /\ dnCb' = TRUE

(* Into the list after the last query that is due no later. *)
Insert(list, q, deadline) ==
    LET after == {i \in DOMAIN list : dnQ[list[i]].deadline <= deadline}
        k == IF after = {} THEN 0 ELSE Greatest(after)
    IN  SubSeq(list, 1, k) \o <<q>> \o SubSeq(list, k + 1, Len(list))

(* Ten failing sends end the query. *)
dns_send_this(q, r, s) ==
    LET f == dns_find_serv([r EXCEPT !.servwait = @ \cup {s}])
        deadline == IF f.servi < NServ THEN 1 ELSE BaseTimeout * 2 ^ r.try
    IN  \/ dns_end_query(q, r, "TEMPFAIL")
        \/ /\ dnQ' = [dnQ EXCEPT ![q] = [f EXCEPT !.deadline = deadline]]
           /\ dnList' = Insert(Unlinked(dnList, q), q, deadline)
           /\ UNCHANGED dnCb

SendForever(q, r) ==   \* mutant: a round of servers is not counted
    LET f == dns_find_serv(r)
        g == dns_find_serv([f EXCEPT !.servi = 0])
        On(x) == dns_send_this(q, [x EXCEPT !.servi = @ + 1], x.servi)
    IN  IF f.servi < NServ THEN On(f)
        ELSE IF g.servi >= NServ THEN dns_end_query(q, g, "TEMPFAIL")
        ELSE On(g)

dns_send(q, r) ==
    LET f == dns_find_serv(r)
        g == dns_find_serv([f EXCEPT !.servi = 0, !.try = @ + 1])
        On(x) == dns_send_this(q, [x EXCEPT !.servi = @ + 1], x.servi)
    IN  IF f.servi < NServ THEN On(f)
        ELSE IF g.try >= NTries \/ g.servi >= NServ
        THEN dns_end_query(q, g, "TEMPFAIL")
        ELSE On(g)

-----------------------------------------------------------------------------
(* The program's calls *)

MayCall == dnOpen /\ (dnLoop = "idle" \/ dnCb)

(* As it is first (the name has dots enough), never searched, or searched. *)
dns_submit_dn(q) ==
    /\ MayCall /\ dnQ[q].st = "new"
    /\ \E id \in Ids, how \in {"asis", "nosrch", "search"} :
        LET r == [NewQuery EXCEPT !.st = "active"]
            s == CASE how = "asis" -> dns_newid([r EXCEPT !.nxtsrch = 1, !.asis = TRUE], id)
                   [] how = "nosrch" ->
                        dns_newid([r EXCEPT !.nxtsrch = NSrch + 1, !.asis = TRUE], id)
                   [] how = "search" -> dns_next_srch([r EXCEPT !.nxtsrch = 1], id)
        IN  /\ dnQ' = [dnQ EXCEPT ![q] = s]
            /\ dnList' = <<q>> \o dnList
            /\ dns_request_utm(dnQ', dnList', FALSE)
    /\ UNCHANGED <<dnLoop, dnCb, dnOpen>>

dns_cancel(q) ==
    /\ MayCall /\ dnQ[q].st = "active"
    /\ dnQ' = [dnQ EXCEPT ![q] = Freed(@, "cancelled")]
    /\ dnList' = Unlinked(dnList, q)
    /\ dns_request_utm(dnQ', dnList', FALSE)
    /\ UNCHANGED <<dnLoop, dnCb, dnOpen>>

(* At least one server, a socket and a buffer; a failure leaves the        *)
(* resolver closed.                                                        *)
dns_open ==
    /\ ~dnOpen
    /\ dnOpen' = TRUE
    /\ dns_request_utm(dnQ, dnList, FALSE)
    /\ UNCHANGED <<dnQ, dnList, dnLoop, dnCb>>

(* The queries are freed without their callbacks. *)
dns_close ==
    /\ dnOpen /\ dnLoop = "idle"
    /\ dnQ' = [q \in Queries |-> IF dnQ[q].st = "active"
                                 THEN Freed(dnQ[q], "cancelled") ELSE dnQ[q]]
    /\ dnList' = <<>> /\ dnUtmexp' = NoTimer /\ dnTimer' = Off
    /\ dnOpen' = FALSE
    /\ UNCHANGED <<dnLoop, dnCb>>

CallbackReturns ==
    /\ dnCb /\ dnCb' = FALSE
    /\ UNCHANGED <<dnQ, dnList, dnUtmexp, dnTimer, dnLoop, dnOpen>>

-----------------------------------------------------------------------------
(* The timer *)

resolv_timeout_cb ==
    /\ dnLoop = "idle" /\ dnTimer = 0
    /\ dnTimer' = Off
    /\ dnLoop' = IF dnList = <<>> THEN "idle" ELSE "timeouts"
    /\ UNCHANGED <<dnQ, dnList, dnUtmexp, dnCb, dnOpen>>

dns_timeouts ==
    /\ dnLoop = "timeouts" /\ ~dnCb
    /\ IF dnList # <<>> /\ dnQ[dnList[1]].deadline <= 0
       THEN /\ dns_send(dnList[1], dnQ[dnList[1]])
            /\ UNCHANGED <<dnUtmexp, dnTimer, dnLoop>>
       ELSE /\ dns_request_utm(dnQ, dnList, TRUE)
            /\ dnLoop' = "idle" /\ UNCHANGED <<dnQ, dnList, dnCb>>
    /\ UNCHANGED dnOpen

-----------------------------------------------------------------------------
(* Replies: any packet may arrive, late or twice.  It is matched by id,    *)
(* then by name and type unless it is a bare FORMERR, and then by server.  *)

resolv_sock_cb ==
    /\ dnOpen /\ dnLoop = "idle"
    /\ dnLoop' = "io"
    /\ UNCHANGED <<dnQ, dnList, dnUtmexp, dnTimer, dnCb, dnOpen>>

Matching(id) == {i \in DOMAIN dnList : dnQ[dnList[i]].id = id}

(* The server is given up; the next one is asked once no answer is awaited.*)
Unexpected(q, r, s) ==
    LET u == [r EXCEPT !.servskip = @ \cup {s}] IN
    IF u.servwait = {} THEN dns_send(q, u)
    ELSE dnQ' = [dnQ EXCEPT ![q] = u] /\ UNCHANGED <<dnList, dnCb>>

Reply(q, s, rcode, id) ==
    LET r == [dnQ[q] EXCEPT !.servwait = @ \ {s}]
        more == NextNames(r) # {}
    IN  CASE rcode = "data" -> dns_end_query(q, r, "OK")
          [] rcode = "nodata" ->
               IF more THEN dns_send(q, [dns_next_srch(r, id) EXCEPT !.nodata = TRUE])
               ELSE dns_end_query(q, r, "NODATA")
          [] rcode = "nxdomain" ->
               LET d == [r EXCEPT !.denied = @ \cup {r.dn}] IN
               IF more THEN dns_send(q, dns_next_srch(d, id))
               ELSE dns_end_query(q, d, IF r.nodata THEN "NODATA" ELSE "NXDOMAIN")
          [] rcode = "formerr" ->
               IF s \notin r.servnEDNS0
               THEN dns_send_this(q, [r EXCEPT !.servnEDNS0 = @ \cup {s}], s)
               ELSE Unexpected(q, r, s)
          [] rcode = "servfail" -> Unexpected(q, r, s)

dns_ioevent ==
    /\ dnLoop = "io" /\ ~dnCb
    /\ \/ /\ dns_request_utm(dnQ, dnList, TRUE)               \* EAGAIN
          /\ dnLoop' = "idle" /\ UNCHANGED <<dnQ, dnList, dnCb>>
       \/ \E id \in Ids, of \in Queries, dn \in 0..NSrch, s \in Servers,
             rcode \in {"data", "nodata", "nxdomain", "formerr", "servfail"},
             bare \in BOOLEAN, new \in Ids :
            /\ bare => rcode = "formerr"
            /\ Matching(id) # {}
            /\ LET q == dnList[Least(Matching(id))] IN
                /\ bare \/ (of = q /\ dn = dnQ[q].dn)
                /\ s \in dnQ[q].servwait
                /\ Reply(q, s, rcode, new)
            /\ UNCHANGED <<dnUtmexp, dnTimer, dnLoop>>
    /\ UNCHANGED dnOpen

Elapsed(t) == IF t > 0 THEN t - 1 ELSE t

Tick ==
    /\ dnLoop = "idle"
    /\ \E i \in DOMAIN dnList : dnQ[dnList[i]].deadline > 0
    /\ dnQ' = [q \in Queries |-> [dnQ[q] EXCEPT !.deadline = Elapsed(@)]]
    /\ dnUtmexp' = Elapsed(dnUtmexp) /\ dnTimer' = Elapsed(dnTimer)
    /\ UNCHANGED <<dnList, dnLoop, dnCb, dnOpen>>

UdnsNext ==
    \/ \E q \in Queries : dns_submit_dn(q) \/ dns_cancel(q)
    \/ dns_open \/ dns_close \/ CallbackReturns
    \/ resolv_timeout_cb \/ dns_timeouts
    \/ resolv_sock_cb \/ dns_ioevent \/ Tick

(* Every iteration of the event loop runs the timers that have expired,    *)
(* whatever else is ready; a loop that has begun goes on until the socket  *)
(* is empty, and time passes.                                              *)
UdnsFairness ==
    /\ SF_udnsVars(resolv_timeout_cb) /\ WF_udnsVars(dns_timeouts)
    /\ SF_udnsVars(dnLoop = "io" /\ dnLoop' = "idle" /\ dns_ioevent)
    /\ WF_udnsVars(CallbackReturns) /\ SF_udnsVars(Tick)

-----------------------------------------------------------------------------
(* The list holds the active queries once each, sorted by deadline, and    *)
(* outside the two loops the timer is armed for no later than the first    *)
(* deadline: no query is left without a wake-up, whatever was submitted or *)
(* cancelled from inside a callback.                                       *)
ResolverTimed ==
    /\ \A i, j \in DOMAIN dnList :
        i < j => /\ dnList[i] # dnList[j]
                 /\ dnQ[dnList[i]].deadline <= dnQ[dnList[j]].deadline
    /\ {dnList[i] : i \in DOMAIN dnList} = {q \in Queries : dnQ[q].st = "active"}
    /\ dnLoop = "idle" =>
         IF dnList = <<>> THEN dnTimer = Off
         ELSE LET first == dnQ[dnList[1]].deadline IN
              dnTimer >= 0 /\ dnTimer <= (IF first > 0 THEN first ELSE 0)

(* A query ends once, never after dns_cancel, and NXDOMAIN is only ever    *)
(* reported when every name of its search was denied.                      *)
EndedRight ==
    \A q \in Queries :
        LET r == dnQ[q] IN
        /\ r.ended = (IF r.st = "done" THEN 1 ELSE 0)
        /\ r.status = "NXDOMAIN" =>
             \/ r.denied = Fitting \cup {0}
             \/ r.denied = {0}

(* Every submitted query is answered, given up or cancelled in the end.    *)
QueriesEnd ==
    \A q \in Queries : dnQ[q].st = "active" ~> dnQ[q].st # "active"
=============================================================================

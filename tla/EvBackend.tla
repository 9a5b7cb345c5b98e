----------------------------- MODULE EvBackend -----------------------------
(***************************************************************************)
(* The backends of libev and the kernel they drive.  The kernel keeps its  *)
(* interest per descriptor AND open file: when a descriptor is closed its  *)
(* registration goes only if nothing else (a dup, a child process) holds   *)
(* the file, and a reopened descriptor is not the one that was registered. *)
(***************************************************************************)
EXTENDS EvOps
LOCAL INSTANCE SequencesExt
LOCAL INSTANCE FiniteSetsExt

CONSTANTS BackendSetups,   \* [kind: the backend, w: the io watchers]
          Files,           \* the files that are ever opened
          PlainFiles,      \* those epoll refuses with EPERM
          MaxBackendCalls  \* bound on the calls of the program

VARIABLES bkB,       \* [s: the loop, set: the kernel's registrations, polls,
                     \*  eperms, changes: the backend's arrays]
          bkKind,    \* the backend in use
          bkFile,    \* [Fds -> the open file, or NoFile]
          bkHeld,    \* files also held by another descriptor or process
          bkPast,    \* files that were opened once
          bkCalls,
          bkStage    \* "program" or "poll"
backendVars == <<bkB, bkKind, bkFile, bkHeld, bkPast, bkCalls, bkStage>>

NoFile == "none"
InBoth == {"READ", "WRITE"}

(***************************************************************************)
(* The kernel.                                                             *)
(***************************************************************************)
Keys(set, fd, file) == {r \in set : r.fd = fd /\ r.file = file}
Known(set, fd) == Keys(set, fd, bkFile[fd]) # {}
Register(set, fd, mask, gen) ==
    (set \ Keys(set, fd, bkFile[fd]))
      \cup {[fd |-> fd, file |-> bkFile[fd], mask |-> mask, gen |-> gen]}
epoll_ctl(set, op, fd) ==
    CASE bkFile[fd] = NoFile -> "EBADF"
      [] bkFile[fd] \in PlainFiles -> "EPERM"
      [] op = "ADD" -> IF Known(set, fd) THEN "EEXIST" ELSE "ok"
      [] OTHER -> IF Known(set, fd) THEN "ok" ELSE "ENOENT"

(***************************************************************************)
(* epoll.                                                                  *)
(***************************************************************************)
\* An ADD that finds the descriptor registered is taken for success.
EpollModifyTrusts(b, fd, oev, nev) ==
    LET old == b.s.anfds[fd]
        t == [b.s EXCEPT !.anfds[fd].emask = nev, !.anfds[fd].egen = @ + 1]
    IN IF nev = {} \/ bkFile[fd] = NoFile THEN b
       ELSE IF bkFile[fd] \in PlainFiles
            THEN [b EXCEPT !.s = [t EXCEPT !.anfds[fd].emask = {"EPERM"}],
                           !.eperms = IF "EPERM" \in old.emask THEN @ ELSE Append(@, fd)]
            ELSE IF Known(b.set, fd) THEN b
                 ELSE [b EXCEPT !.s = t, !.set = Register(@, fd, nev, old.egen + 1)]

epoll_modify(b, fd, oev, nev) ==
    LET old == b.s.anfds[fd]
        t == [b.s EXCEPT !.anfds[fd].emask = nev, !.anfds[fd].egen = @ + 1]
        done == [b EXCEPT !.s = t, !.set = Register(@, fd, nev, old.egen + 1)]
        back == [b EXCEPT !.s = [t EXCEPT !.anfds[fd].egen = @ - 1]]
        err == epoll_ctl(b.set, IF oev # {} /\ old.emask # nev THEN "MOD" ELSE "ADD", fd)
    IN CASE nev = {} -> b
         [] nev # {} /\ err \in {"ok", "ENOENT"} -> done
         [] nev # {} /\ err = "EEXIST" -> IF old.emask = nev THEN back ELSE done
         [] nev # {} /\ err = "EPERM" ->
              [b EXCEPT !.s = [t EXCEPT !.anfds[fd].emask = {"EPERM"}],
                        !.eperms = IF "EPERM" \in old.emask THEN @ ELSE Append(@, fd)]
         [] nev # {} /\ err = "EBADF" ->
              [b EXCEPT !.s = [fd_kill(t, fd) EXCEPT !.anfds[fd].egen = @ - 1]]

\* One event of epoll_wait: stale generations and unwanted events make the
\* kernel's state suspect; it is corrected, or rebuilt in the next turn.
EpollEvent(b, r, got) ==
    LET anfd == b.s.anfds[r.fd]
        want == anfd.events
        rebuild == [b EXCEPT !.s.postfork = @ \cup {2}]
        t == [b.s EXCEPT !.anfds[r.fd].emask = want]
        err == epoll_ctl(b.set, IF want = {} THEN "DEL" ELSE "MOD", r.fd)
        fixed == IF want = {} THEN b.set \ Keys(b.set, r.fd, bkFile[r.fd])
                 ELSE Register(b.set, r.fd, want, r.gen)
    IN CASE anfd.egen # r.gen -> rebuild
         [] anfd.egen = r.gen /\ got \subseteq want ->
              [b EXCEPT !.s = fd_event(@, r.fd, got)]
         [] OTHER -> IF err = "ok"
                     THEN [b EXCEPT !.s = fd_event(t, r.fd, got), !.set = fixed]
                     ELSE [rebuild EXCEPT !.s.anfds[r.fd].emask = want]

\* Descriptors epoll refuses are always ready, while they are watched.
EpollAlways(b) ==
    FoldLeft(LAMBDA c, i :
                LET fd == c.eperms[i]
                    events == c.s.anfds[fd].events
                IN IF "EPERM" \in c.s.anfds[fd].emask /\ events # {}
                   THEN [c EXCEPT !.s = fd_event(@, fd, events)]
                   ELSE [c EXCEPT !.eperms = Front([@ EXCEPT ![i] = Last(c.eperms)]),
                                  !.s.anfds[fd].emask = {}],
             b, Reverse([i \in 1..Len(b.eperms) |-> i]))

\* A new epoll descriptor knows nothing, and every descriptor is registered anew.
epoll_fork(b) == [b EXCEPT !.s = fd_rearm_all(@), !.set = {}]

(***************************************************************************)
(* poll: an array of descriptors, and the index of each.                   *)
(***************************************************************************)
pollidx(b, fd) == {i \in 1..Len(b.polls) : b.polls[i].fd = fd}
poll_modify(b, fd, oev, nev) ==
    LET idx == IF pollidx(b, fd) = {} THEN Len(b.polls) + 1
               ELSE CHOOSE i \in pollidx(b, fd) : TRUE
        slot == [fd |-> fd, events |-> nev]
    IN CASE oev = nev -> b
         [] oev # nev /\ nev # {} ->
              [b EXCEPT !.polls = IF idx > Len(@) THEN Append(@, slot)
                                  ELSE [@ EXCEPT ![idx] = slot]]
         [] oev # nev /\ nev = {} /\ pollidx(b, fd) = {} -> b
         [] OTHER -> [b EXCEPT !.polls = Front([@ EXCEPT ![idx] = Last(b.polls)])]
\* POLLNVAL: the descriptor is not open.
PollEvent(b, r, got) ==
    IF bkFile[r.fd] = NoFile THEN [b EXCEPT !.s = fd_kill(@, r.fd)]
    ELSE [b EXCEPT !.s = fd_event(@, r.fd, got)]

(***************************************************************************)
(* select: two bit sets.  EBADF makes every watched descriptor be tested.  *)
(***************************************************************************)
select_modify(b, fd, oev, nev) ==
    IF oev = nev THEN b
    ELSE [b EXCEPT !.polls = Append(SelectSeq(@, LAMBDA p : p.fd # fd),
                                    [fd |-> fd, events |-> nev])]
fd_ebadf(s) ==
    FoldSet(LAMBDA fd, t : IF t.anfds[fd].events # {} /\ bkFile[fd] = NoFile
                           THEN fd_kill(t, fd) ELSE t, s, Fds)
SelectEvent(b, r, got) ==
    IF \E i \in DOMAIN b.polls : b.polls[i].events # {} /\ bkFile[b.polls[i].fd] = NoFile
    THEN [b EXCEPT !.s = fd_ebadf(@)]
    ELSE [b EXCEPT !.s = fd_event(@, r.fd, got)]

(***************************************************************************)
(* kqueue: changes are queued and applied by the next kevent, which gives  *)
(* an error for each one that fails.                                       *)
(***************************************************************************)
kqueue_modify(b, fd, oev, nev) ==
    LET del == [fd |-> fd, op |-> "DELETE", mask |-> oev]
        add == [fd |-> fd, op |-> "ADD", mask |-> nev]
    IN [b EXCEPT !.changes = @ \o (IF oev # nev /\ oev # {} THEN <<del>> ELSE <<>>)
                               \o (IF nev # {} THEN <<add>> ELSE <<>>)]

MaskOf(set, fd) == UNION {r.mask : r \in Keys(set, fd, bkFile[fd])}
KqueueSet(set, fd, mask) ==
    IF mask = {} THEN set \ Keys(set, fd, bkFile[fd]) ELSE Register(set, fd, mask, 0)
KqueueError(b, fd) ==
    IF b.s.anfds[fd].events = {} THEN b
    ELSE IF bkFile[fd] # NoFile THEN kqueue_modify(b, fd, {}, b.s.anfds[fd].events)
         ELSE [b EXCEPT !.s = fd_kill(@, fd)]
KqueueChange(b, change) ==
    LET fd == change.fd
        now == MaskOf(b.set, fd)
    IN CASE bkFile[fd] = NoFile -> KqueueError(b, fd)
         [] bkFile[fd] # NoFile /\ change.op = "ADD" ->
              [b EXCEPT !.set = KqueueSet(@, fd, now \cup change.mask)]
         [] OTHER -> LET c == [b EXCEPT !.set = KqueueSet(@, fd, now \ change.mask)]
                     IN IF change.mask \subseteq now THEN c ELSE KqueueError(c, fd)
KqueueApply(b) == FoldLeft(KqueueChange, [b EXCEPT !.changes = <<>>], b.changes)

(***************************************************************************)
(* Solaris ports: an association lasts for one event.                      *)
(***************************************************************************)
port_modify(b, fd, oev, nev) ==
    CASE nev = {} -> [b EXCEPT !.set = @ \ Keys(@, fd, bkFile[fd])]
      [] nev # {} /\ bkFile[fd] = NoFile -> [b EXCEPT !.s = fd_kill(@, fd)]
      [] OTHER -> [b EXCEPT !.set = Register(@, fd, nev, 0)]
PortEvent(b, r, got) ==
    [b EXCEPT !.s = fd_change(fd_event(@, r.fd, got), r.fd, {"IOFDSET"}),
              !.set = @ \ {r}]

(***************************************************************************)
(* fd_reify, and one poll.                                                 *)
(***************************************************************************)
backend_modify(b, fd, oev, nev) ==
    CASE bkKind = "epoll" -> epoll_modify(b, fd, oev, nev)
      [] bkKind = "poll" -> poll_modify(b, fd, oev, nev)
      [] bkKind = "select" -> select_modify(b, fd, oev, nev)
      [] bkKind = "kqueue" -> kqueue_modify(b, fd, oev, nev)
      [] bkKind = "port" -> port_modify(b, fd, oev, nev)

\* A descriptor killed on the way is added at the end of the changes and is
\* reified in the same pass.
RECURSIVE ReifyFrom(_, _)
ReifyFrom(b, i) ==
    IF i > Len(b.s.fdchanges) THEN [b EXCEPT !.s.fdchanges = <<>>]
    ELSE LET fd == b.s.fdchanges[i]
             t == [b EXCEPT !.s = ReifyOne(@, fd)]
         IN ReifyFrom(IF BackendTold(b.s, fd)
                      THEN backend_modify(t, fd, b.s.anfds[fd].events, Wanted(b.s, fd))
                      ELSE t, i + 1)
BackendReify(b) == ReifyFrom(b, 1)

Registrations(b) ==
    IF bkKind \in {"poll", "select"}
    THEN {[fd |-> b.polls[i].fd, file |-> bkFile[b.polls[i].fd],
           mask |-> b.polls[i].events, gen |-> 0] :
            i \in {j \in DOMAIN b.polls : b.polls[j].events # {}}}
    ELSE b.set
BackendEvent(b, r, got) ==
    CASE bkKind = "epoll" -> EpollEvent(b, r, got)
      [] bkKind = "poll" -> PollEvent(b, r, got)
      [] bkKind = "select" -> SelectEvent(b, r, got)
      [] bkKind = "kqueue" -> [b EXCEPT !.s = fd_event(@, r.fd, got)]
      [] bkKind = "port" -> PortEvent(b, r, got)

(***************************************************************************)
(* Actions.                                                                *)
(***************************************************************************)
BackendInit ==
    /\ \E u \in BackendSetups :
          /\ bkKind = u.kind
          /\ bkB = [s |-> NewLoop(u.w), set |-> {}, polls |-> <<>>, eperms |-> <<>>,
                    changes |-> <<>>]
    /\ bkFile = [f \in Fds |-> NoFile]
    /\ bkHeld = {} /\ bkPast = {} /\ bkCalls = 0 /\ bkStage = "program"

Call == /\ bkStage = "program" /\ bkCalls < MaxBackendCalls
        /\ bkCalls' = bkCalls + 1
        /\ UNCHANGED <<bkKind, bkStage>>

OpenFd(fd, file, held) ==
    /\ Call
    /\ bkFile[fd] = NoFile /\ file \notin bkPast
    /\ bkB.s.anfds[fd].head = <<>>
    /\ bkFile' = [bkFile EXCEPT ![fd] = file]
    /\ bkPast' = bkPast \cup {file}
    /\ bkHeld' = IF held THEN bkHeld \cup {file} ELSE bkHeld
    /\ UNCHANGED bkB

\* A registration dies with its file, not with its descriptor; kqueue and ports
\* drop it with the descriptor.
CloseFd(fd) ==
    /\ Call
    /\ bkFile[fd] # NoFile
    /\ bkFile' = [bkFile EXCEPT ![fd] = NoFile]
    /\ bkB' = IF bkKind = "epoll" /\ bkFile[fd] \in bkHeld THEN bkB
              ELSE [bkB EXCEPT !.set = @ \ Keys(@, fd, bkFile[fd])]
    /\ UNCHANGED <<bkHeld, bkPast>>

\* ev_io_init and ev_io_start.
StartIo(w, events) ==
    /\ Call
    /\ bkB.s.w[w].active = 0 /\ bkFile[bkB.s.w[w].fd] # NoFile
    /\ bkB' = [bkB EXCEPT !.s = ev_io_start([@ EXCEPT !.w[w].events =
                                                events \cup {"IOFDSET"}], w)]
    /\ UNCHANGED <<bkFile, bkHeld, bkPast>>
StopIo(w) ==
    /\ Call
    /\ bkB.s.w[w].active # 0
    /\ bkB' = [bkB EXCEPT !.s = ev_io_stop(@, w)]
    /\ UNCHANGED <<bkFile, bkHeld, bkPast>>

\* loop_fork when the kernel state is suspect, fd_reify, and the call of poll,
\* which applies the changes of kqueue.
BackendPrepare ==
    /\ bkStage = "program"
    /\ LET suspect == IF bkB.s.postfork = {} THEN bkB
                      ELSE [epoll_fork(bkB) EXCEPT !.s.postfork = {}]
           told == BackendReify(suspect)
       IN bkB' = IF bkKind = "kqueue" THEN KqueueApply(told) ELSE told
    /\ bkStage' = "poll"
    /\ UNCHANGED <<bkKind, bkFile, bkHeld, bkPast, bkCalls>>

\* The pending queues are emptied: the callbacks are not of interest here.
Drained(s) ==
    [s EXCEPT !.pendings = [p \in Priorities |-> <<>>],
              !.w = [w \in DOMAIN s.w |-> [s.w[w] EXCEPT !.pending = 0]]]
\* One registration reports what it was asked for, or an error as both events.
BackendPoll ==
    /\ bkStage = "poll"
    /\ bkStage' = "program"
    /\ \/ UNCHANGED bkB                                            \* EINTR
       \/ bkB' = [EpollAlways(bkB) EXCEPT !.s = Drained(@)]
       \/ \E r \in Registrations(bkB) : \E got \in {r.mask, InBoth} :
             bkB' = LET c == EpollAlways(BackendEvent(bkB, r, got))
                    IN [c EXCEPT !.s = Drained(@)]
    /\ UNCHANGED <<bkKind, bkFile, bkHeld, bkPast, bkCalls>>

BackendNext ==
    \/ \E fd \in Fds, file \in Files, held \in BOOLEAN : OpenFd(fd, file, held)
    \/ \E fd \in Fds : CloseFd(fd)
    \/ \E w \in DOMAIN bkB.s.w, events \in {{"READ"}, {"WRITE"}} : StartIo(w, events)
    \/ \E w \in DOMAIN bkB.s.w : StopIo(w)
    \/ BackendPrepare
    \/ BackendPoll

(***************************************************************************)
(* Properties.                                                             *)
(***************************************************************************)
Watched(fd) == Wanted(bkB.s, fd) # {} /\ bkFile[fd] # NoFile

\* When the loop polls, the kernel watches the file that is open NOW under every
\* watched descriptor, for exactly the events the watchers want, however often
\* the descriptor was closed, reopened, stopped and restarted since the last
\* poll; with epoll the registration carries the current generation, so that its
\* events are not taken for stale ones, or epoll refuses the file and it is on
\* the list of those that are always ready.  The array of the poll backend holds
\* no descriptor twice.
KernelWatches ==
    bkStage = "poll" =>
      /\ \A fd \in Fds : Watched(fd) =>
           \/ /\ bkKind = "epoll" /\ bkFile[fd] \in PlainFiles
              /\ fd \in ToSet(bkB.eperms) /\ "EPERM" \in bkB.s.anfds[fd].emask
           \/ \E r \in Registrations(bkB) :
                /\ r.fd = fd /\ r.file = bkFile[fd]
                /\ Wanted(bkB.s, fd) \subseteq r.mask
                /\ bkKind = "epoll" => r.gen = bkB.s.anfds[fd].egen
      /\ \A i, j \in DOMAIN bkB.polls : bkB.polls[i].fd = bkB.polls[j].fd => i = j
      /\ \A fd \in Fds : bkB.s.anfds[fd].reify # {} <=> fd \in ToSet(bkB.s.fdchanges)
=============================================================================

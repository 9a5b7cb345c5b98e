------------------------------- MODULE EvLoop -------------------------------
(***************************************************************************)
(* ev_run and the watchers it serves.  The loop goes from stage to stage;  *)
(* a callback is a step of its own and may call the loop: start, stop or   *)
(* feed any watcher, or break out.  The kernel reports what it will for    *)
(* the descriptors it was told to watch.                                   *)
(***************************************************************************)
EXTENDS EvOps
LOCAL INSTANCE SequencesExt
LOCAL INSTANCE FiniteSetsExt
LOCAL INSTANCE FiniteSets

CONSTANTS LoopSetups,   \* [w: the watchers, started: those started before ev_run]
          MaxUserCalls, \* bound on the calls of callbacks
          MaxTurns      \* bound on the turns of the loop

VARIABLES evL,        \* the loop
          evPc,       \* the stage of ev_run
          evThen,     \* the stage after the callbacks of ev_invoke_pending
          loop_done,  \* "cancel", "one" or "all"
          evKernel,   \* [Fds -> set of events]: what the backend has been told
          evTurns, evUser,
          evOff,      \* ghost: the watchers stopped since they were last fed
          evWrong     \* ghost: what went wrong in a callback, if anything
loopVars == <<evL, evPc, evThen, loop_done, evKernel, evTurns, evUser, evOff, evWrong>>

(***************************************************************************)
(* Steps of ev_run.                                                        *)
(***************************************************************************)
LoopInit ==
    /\ evL \in {FoldLeft(StartAny, NewLoop(u.w), u.started) : u \in LoopSetups}
    /\ evPc = "enter" /\ evThen = "fork" /\ loop_done = "cancel"
    /\ evKernel = [f \in Fds |-> {}]
    /\ evTurns = 0 /\ evUser = 0
    /\ evOff = {} /\ evWrong = {}

\* Feeding queues a watcher again: what was stopped before no longer counts.
Fed(s, t) == evOff \ {w \in DOMAIN evL.w : s.w[w].pending = 0 /\ t.w[w].pending # 0}
Goto(pc, t) == evPc' = pc /\ evL' = t /\ evOff' = Fed(evL, t)
\* ev_invoke_pending starts at the highest priority.
CallPending(t, then) ==
    Goto("invoke", [t EXCEPT !.pendingpri = MaxPri]) /\ evThen' = then
Elsewhere == UNCHANGED <<loop_done, evKernel, evTurns, evUser, evWrong>>

Enter ==
    /\ evPc = "enter"
    /\ loop_done' = "cancel"
    /\ CallPending(evL, "fork")
    /\ UNCHANGED <<evKernel, evTurns, evUser, evWrong>>

ForkStage ==
    /\ evPc = "fork"
    /\ IF evL.postfork # {} /\ evL.arrays["fork"] # <<>>
       THEN CallPending(queue_events(evL, evL.arrays["fork"], "FORK"), "prepare")
       ELSE Goto("prepare", evL) /\ UNCHANGED evThen
    /\ Elsewhere

PrepareStage ==
    /\ evPc = "prepare"
    /\ IF evL.arrays["prepare"] # <<>>
       THEN CallPending(queue_events(evL, evL.arrays["prepare"], "PREPARE"), "reify")
       ELSE Goto("reify", evL) /\ UNCHANGED evThen
    /\ Elsewhere

\* loop_fork makes a new backend, which knows of no descriptor.
loop_fork(s) ==
    IF s.postfork = {} THEN s ELSE [fd_rearm_all(s) EXCEPT !.postfork = {}]

\* fd_reify tells the backend of every descriptor whose mask changed, in order.
fd_reify(s) == [FoldLeft(ReifyOne, s, s.fdchanges) EXCEPT !.fdchanges = <<>>]
Modified(s, kernel) ==
    [f \in Fds |-> IF f \in ToSet(s.fdchanges) /\ BackendTold(s, f)
                   THEN Wanted(s, f) ELSE kernel[f]]

ReifyStage ==
    /\ evPc = "reify"
    /\ IF loop_done # "cancel" THEN Goto("leave", evL) /\ UNCHANGED evKernel
       ELSE LET t == loop_fork(evL)
                kernel == IF evL.postfork = {} THEN evKernel ELSE [f \in Fds |-> {}]
            IN Goto("poll", fd_reify(t)) /\ evKernel' = Modified(t, kernel)
    /\ UNCHANGED <<evThen, loop_done, evTurns, evUser, evWrong>>

\* The loop waits unless it was told not to, has an idle watcher or nothing
\* active.  Polling reports any part of what the kernel was asked for, or, when
\* it may wait, time passes; an interrupted poll reports nothing.
MayWait(s) == ~idleall(s) /\ s.activecnt # 0

PollStage(ready, passed) ==
    LET t == FoldSet(LAMBDA f, s : fd_event(s, f, ready[f]), evL, Fds)
        u == [t EXCEPT !.mn_now = @ + passed]
        v == idle_reify(timers_reify(u))
    IN /\ evPc = "poll" /\ evTurns < MaxTurns
       /\ passed # 0 => MayWait(evL)
       /\ evTurns' = evTurns + 1
       /\ CallPending(queue_events(v, v.arrays["check"], "CHECK"), "again")
       /\ UNCHANGED <<loop_done, evKernel, evUser, evWrong>>

Again ==
    /\ evPc = "again"
    /\ Goto(IF evL.activecnt # 0 /\ loop_done = "cancel" THEN "fork" ELSE "leave", evL)
    /\ UNCHANGED evThen /\ Elsewhere

Leave ==
    /\ evPc = "leave"
    /\ loop_done' = IF loop_done = "one" THEN "cancel" ELSE loop_done
    /\ Goto("left", evL)
    /\ UNCHANGED <<evThen, evKernel, evTurns, evUser, evWrong>>

(***************************************************************************)
(* ev_invoke_pending: one callback a step, from the end of the queue.      *)
(***************************************************************************)
NextPriority ==
    /\ evPc = "invoke" /\ evL.pendings[evL.pendingpri] = <<>>
    /\ IF evL.pendingpri > 0
       THEN Goto("invoke", [evL EXCEPT !.pendingpri = @ - 1])
       ELSE Goto(evThen, evL)
    /\ UNCHANGED evThen /\ Elsewhere

Popped(s) ==
    LET p == s.pendingpri
        w == Last(s.pendings[p]).w
        t == [s EXCEPT !.pendings[p] = Front(@)]
    IN IF w = NoWatcher THEN t ELSE [t EXCEPT !.w[w].pending = 0]

Highest(s) == \A p \in Priorities : p > s.pendingpri => s.pendings[p] = <<>>

InvokeOne ==
    /\ evPc = "invoke" /\ evL.pendings[evL.pendingpri] # <<>>
    /\ LET top == Last(evL.pendings[evL.pendingpri])
           w == top.w
       IN /\ evL' = Popped(evL)
          /\ evPc' = IF w = NoWatcher THEN "invoke" ELSE "callback"
          /\ evWrong' = evWrong
               \cup (IF w \in evOff THEN {"stopped"} ELSE {})
               \cup (IF ~Highest(evL) THEN {"priority"} ELSE {})
               \cup (IF top.events = {} THEN {"no event"} ELSE {})
    /\ UNCHANGED <<evThen, loop_done, evKernel, evTurns, evUser, evOff>>

\* What a callback may do, and its return.
UserCall(t, off, done) ==
    /\ evPc = "callback" /\ evUser < MaxUserCalls
    /\ evUser' = evUser + 1
    /\ evL' = t
    /\ evOff' = Fed(evL, t) \cup off
    /\ loop_done' = done
    /\ UNCHANGED <<evPc, evThen, evKernel, evTurns, evWrong>>
UserStart(w) == evL.w[w].active = 0 /\ UserCall(StartAny(evL, w), {}, loop_done)
UserStop(w) == UserCall(StopAny(evL, w), {w}, loop_done)
ev_clear_pending(w) == UserCall(clear_pending(evL, w), {w}, loop_done)
UserFeed(w) == UserCall(ev_feed_event(evL, w, {"CUSTOM"}), {}, loop_done)
ev_feed_fd_event(f) == UserCall(fd_event_nocheck(evL, f, {"READ"}), {}, loop_done)
ev_io_set(w) ==
    /\ evL.w[w].kind = "io" /\ evL.w[w].active = 0
    /\ UserCall([evL EXCEPT !.w[w].events = {"WRITE", "IOFDSET"}], {}, loop_done)
ev_break == UserCall(evL, {}, "one")
ev_loop_fork == UserCall([evL EXCEPT !.postfork = {1}], {}, loop_done)
Return ==
    /\ evPc = "callback"
    /\ evPc' = "invoke"
    /\ UNCHANGED <<evL, evThen, loop_done, evKernel, evTurns, evUser, evOff, evWrong>>

\* ev_loop_destroy runs the cleanup watchers, once ev_run has returned.
ev_loop_destroy ==
    /\ evPc = "left"
    /\ CallPending(queue_events(evL, evL.arrays["cleanup"], "CLEANUP"), "destroyed")
    /\ Elsewhere

LoopNext ==
    \/ Enter \/ ForkStage \/ PrepareStage \/ ReifyStage
    \/ \E ready \in [Fds -> SUBSET {"READ", "WRITE"}], passed \in {0, 2} :
          (\A f \in Fds : ready[f] \subseteq evKernel[f]) /\ PollStage(ready, passed)
    \/ Again \/ Leave \/ NextPriority \/ InvokeOne \/ Return
    \/ \E w \in DOMAIN evL.w :
          UserStart(w) \/ UserStop(w) \/ ev_clear_pending(w) \/ UserFeed(w)
          \/ ev_io_set(w)
    \/ \E f \in Fds : ev_feed_fd_event(f)
    \/ ev_break \/ ev_loop_fork
    \/ ev_loop_destroy

(***************************************************************************)
(* Properties.                                                             *)
(***************************************************************************)
Counted == {w \in DOMAIN evL.w : evL.w[w].active # 0 /\ evL.w[w].kind # "cleanup"}

\* Whatever callbacks start, stop, feed and clear while their own events are
\* being delivered: ev_verify holds; activecnt is the number of active watchers,
\* so the loop ends when the last one is stopped and not before; every
\* descriptor the kernel watches with a stale mask is on the list of changes;
\* once the changes are applied the kernel watches exactly what the active
\* watchers want; and no callback is given an event after its watcher was
\* stopped, ahead of a pending one of higher priority, or without an event.
LoopExact ==
    /\ ev_verify(evL)
    /\ evL.activecnt = Cardinality(Counted)
    /\ \A f \in Fds : evL.anfds[f].reify # {} <=> f \in ToSet(evL.fdchanges)
    /\ \A f \in Fds : Wanted(evL, f) # evL.anfds[f].events =>
                            f \in ToSet(evL.fdchanges)
    /\ evPc = "poll" => \A f \in Fds : evKernel[f] = Wanted(evL, f)
    /\ evWrong = {}
=============================================================================

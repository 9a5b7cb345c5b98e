------------------------------- MODULE EvOps -------------------------------
(***************************************************************************)
(* The bookkeeping of an event loop of libev: watchers, the pending        *)
(* queues, the lists of watchers per file descriptor, the heaps of timers  *)
(* and periodics, and the arrays of the other kinds.  A loop with its      *)
(* watchers is one record, and every function of ev.c here takes it and    *)
(* returns it changed.                                                     *)
(*                                                                         *)
(* The C arrays grow on demand and never shrink, so an array is the        *)
(* sequence of its elements in use.  active and pending hold the same      *)
(* indices as in the code, except that a heap index counts from 1, not     *)
(* from HEAP0.  Times are whole ticks.                                     *)
(***************************************************************************)
EXTENDS Integers, Sequences
LOCAL INSTANCE SequencesExt
LOCAL INSTANCE FiniteSetsExt

CONSTANTS NoWatcher,   \* pending_w, the dummy a cleared event is given to
          Fds,         \* the file descriptors
          MaxPri,      \* ABSPRI (EV_MAXPRI); the least priority is 0
          DHeap        \* DHEAP: 4, or 2 for the small heap

ArrayKinds == {"prepare", "check", "fork", "cleanup", "async"}
HeapKinds == {"timer", "periodic"}
Priorities == 0..MaxPri

\* A watcher as ev_*_init leaves it.  fd stands for the signal number of a
\* signal watcher; repeat is the interval of a periodic and at its offset.
NewWatcher(kind, pri, fd, events, at, repeat) ==
    [kind |-> kind, pri |-> pri, fd |-> fd, events |-> events, at |-> at,
     offset |-> at, repeat |-> repeat, active |-> 0, pending |-> 0, sent |-> FALSE]

\* A zero-initialised loop.
NewLoop(watchers) ==
    [w |-> watchers,
     pendings |-> [p \in Priorities |-> <<>>], pendingpri |-> 0,
     anfds |-> [f \in Fds |-> [head |-> <<>>, events |-> {}, reify |-> {},
                               emask |-> {}, egen |-> 0]],
     fdchanges |-> <<>>,
     heaps |-> [k \in HeapKinds |-> <<>>],
     arrays |-> [k \in ArrayKinds |-> <<>>],
     idles |-> [p \in Priorities |-> <<>>],
     signals |-> [f \in Fds |-> <<>>],
     activecnt |-> 0, mn_now |-> 0, rt_now |-> 0, now_floor |-> 0, rtmn_diff |-> 0,
     postfork |-> {}]

(***************************************************************************)
(* Pending events.                                                         *)
(***************************************************************************)
ev_feed_event(s, w, revents) ==
    LET pri == s.w[w].pri
        at == s.w[w].pending
    IN IF at # 0
       THEN [s EXCEPT !.pendings[pri][at].events = @ \cup revents,
                      !.pendingpri = MaxPri]
       ELSE [s EXCEPT !.pendings[pri] = Append(@, [w |-> w, events |-> revents]),
                      !.w[w].pending = Len(s.pendings[pri]) + 1,
                      !.pendingpri = MaxPri]

queue_events(s, ws, type) ==
    FoldLeft(LAMBDA t, w : ev_feed_event(t, w, {type}), s, ws)

\* rfeeds is emptied from its end.
feed_reverse_done(s, rfeeds, type) == queue_events(s, Reverse(rfeeds), type)

\* The slot of a cleared event stays in its queue, for the dummy watcher.
clear_pending(s, w) ==
    IF s.w[w].pending = 0 THEN s
    ELSE [s EXCEPT !.pendings[s.w[w].pri][s.w[w].pending].w = NoWatcher,
                   !.w[w].pending = 0]

(***************************************************************************)
(* Starting and stopping.                                                  *)
(***************************************************************************)
Clamp(pri) == IF pri < 0 THEN 0 ELSE IF pri > MaxPri THEN MaxPri ELSE pri
ev_start(s, w, active) ==
    [s EXCEPT !.w[w].pri = Clamp(@), !.w[w].active = active, !.activecnt = @ + 1]
ev_stop(s, w) == [s EXCEPT !.w[w].active = 0, !.activecnt = @ - 1]
ev_ref(s) == [s EXCEPT !.activecnt = @ + 1]
ev_unref(s) == [s EXCEPT !.activecnt = @ - 1]

wlist_add(head, w) == <<w>> \o head
wlist_del(head, w) == SelectSeq(head, LAMBDA v : v # w)

(***************************************************************************)
(* File descriptors.                                                       *)
(***************************************************************************)
fd_change(s, fd, flags) ==
    [s EXCEPT !.anfds[fd].reify = @ \cup flags,
              !.fdchanges = IF s.anfds[fd].reify = {} THEN Append(@, fd) ELSE @]

ev_io_start(s, w) ==
    LET fd == s.w[w].fd
        set == s.w[w].events \cap {"IOFDSET"}
        t == ev_start(s, w, 1)
    IN IF s.w[w].active # 0 THEN s
       ELSE fd_change([t EXCEPT !.anfds[fd].head = wlist_add(@, w),
                                !.w[w].events = @ \ {"IOFDSET"}],
                      fd, set \cup {"REIFY"})

\* The watcher is taken off its descriptor's list, which is not marked changed.
IoStopUnmarked(s, w) ==
    LET fd == s.w[w].fd
        t == clear_pending(s, w)
    IN IF t.w[w].active = 0 THEN t
       ELSE ev_stop([t EXCEPT !.anfds[fd].head = wlist_del(@, w)], w)

ev_io_stop(s, w) ==
    LET fd == s.w[w].fd
        t == clear_pending(s, w)
    IN IF t.w[w].active = 0 THEN t
       ELSE fd_change(ev_stop([t EXCEPT !.anfds[fd].head = wlist_del(@, w)], w),
                      fd, {"REIFY"})

fd_event_nocheck(s, fd, revents) ==
    FoldLeft(LAMBDA t, w :
                LET ev == t.w[w].events \cap revents
                IN IF ev = {} THEN t ELSE ev_feed_event(t, w, ev),
             s, s.anfds[fd].head)

\* A descriptor that changed while the kernel was polled gets no event.
fd_event(s, fd, revents) ==
    IF s.anfds[fd].reify = {} THEN fd_event_nocheck(s, fd, revents) ELSE s

\* Every watcher of an unusable descriptor is stopped and told of an error.
fd_kill(s, fd) ==
    FoldLeft(LAMBDA t, w :
                ev_feed_event(ev_io_stop(t, w), w, {"ERROR", "READ", "WRITE"}),
             s, s.anfds[fd].head)

Wanted(s, fd) == UNION {s.w[v].events : v \in ToSet(s.anfds[fd].head)}

\* One descriptor of fd_reify: its new mask, and whether the backend is told.
ReifyOne(s, fd) == [s EXCEPT !.anfds[fd].events = Wanted(s, fd),
                             !.anfds[fd].reify = {}]
BackendTold(s, fd) ==
    "IOFDSET" \in s.anfds[fd].reify \/ s.anfds[fd].events # Wanted(s, fd)

fd_rearm_all(s) ==
    FoldSet(LAMBDA fd, t :
                IF t.anfds[fd].events = {} THEN t
                ELSE fd_change([t EXCEPT !.anfds[fd].events = {},
                                         !.anfds[fd].emask = {}],
                               fd, {"IOFDSET", "REIFY"}),
            s, Fds)

(***************************************************************************)
(* The d-ary heaps.  A heap element caches the time of its watcher.        *)
(***************************************************************************)
HPARENT(k) == ((k - 2) \div DHeap) + 1

ANHE_at_cache(s, h, k) ==
    [s EXCEPT !.heaps[h][k].at = s.w[s.heaps[h][k].w].at]

SetSlot(s, h, k, he) == [s EXCEPT !.heaps[h][k] = he, !.w[he.w].active = k]

RECURSIVE UpFrom(_, _, _, _)
UpFrom(s, h, k, he) ==
    LET p == HPARENT(k)
    IN IF k = 1 \/ s.heaps[h][p].at <= he.at THEN SetSlot(s, h, k, he)
       ELSE UpFrom(SetSlot(s, h, k, s.heaps[h][p]), h, p, he)
upheap(s, h, k) == UpFrom(s, h, k, s.heaps[h][k])

\* The first of the least children of a slot.
MinChild(s, h, k) ==
    LET last == Len(s.heaps[h])
        pos == {c \in (DHeap * (k - 1) + 2)..(DHeap * k + 1) : c <= last}
    IN CHOOSE c \in pos :
          \A d \in pos : \/ s.heaps[h][c].at < s.heaps[h][d].at
                         \/ s.heaps[h][c].at = s.heaps[h][d].at /\ c <= d

RECURSIVE DownFrom(_, _, _, _)
DownFrom(s, h, k, he) ==
    IF DHeap * (k - 1) + 2 > Len(s.heaps[h]) THEN SetSlot(s, h, k, he)
    ELSE LET c == MinChild(s, h, k)
         IN IF he.at <= s.heaps[h][c].at THEN SetSlot(s, h, k, he)
            ELSE DownFrom(SetSlot(s, h, k, s.heaps[h][c]), h, c, he)
downheap(s, h, k) == DownFrom(s, h, k, s.heaps[h][k])

\* A moved element is only ever sunk: right only when it came from below.
AdjustOnlyDown(s, h, k) == downheap(s, h, k)

adjustheap(s, h, k) ==
    IF k > 1 /\ s.heaps[h][k].at <= s.heaps[h][HPARENT(k)].at
    THEN upheap(s, h, k) ELSE downheap(s, h, k)

reheap(s, h) ==
    FoldLeft(LAMBDA t, k : upheap(t, h, k), s, [k \in 1..Len(s.heaps[h]) |-> k])

HeapAdd(s, h, w) ==
    LET t == ev_start(s, w, Len(s.heaps[h]) + 1)
    IN upheap([t EXCEPT !.heaps[h] = Append(@, [w |-> w, at |-> t.w[w].at])],
              h, Len(s.heaps[h]) + 1)

HeapDelete(s, h, w) ==
    LET k == s.w[w].active
        n == Len(s.heaps[h])
        cut == [s EXCEPT !.heaps[h] = Front(@)]
    IN IF k < n
       THEN adjustheap([cut EXCEPT !.heaps[h][k] = s.heaps[h][n]], h, k) ELSE cut

(***************************************************************************)
(* Timers.                                                                 *)
(***************************************************************************)
ev_timer_start(s, w) ==
    IF s.w[w].active # 0 THEN s
    ELSE HeapAdd([s EXCEPT !.w[w].at = @ + s.mn_now], "timer", w)

ev_timer_stop(s, w) ==
    LET t == clear_pending(s, w)
    IN IF t.w[w].active = 0 THEN t
       ELSE ev_stop([HeapDelete(t, "timer", w) EXCEPT !.w[w].at = @ - t.mn_now], w)

ev_timer_again(s, w) ==
    LET t == clear_pending(s, w)
        later == [t EXCEPT !.w[w].at = t.mn_now + t.w[w].repeat]
    IN CASE t.w[w].active # 0 /\ t.w[w].repeat # 0 ->
              adjustheap(ANHE_at_cache(later, "timer", t.w[w].active),
                         "timer", t.w[w].active)
         [] t.w[w].active # 0 /\ t.w[w].repeat = 0 -> ev_timer_stop(t, w)
         [] t.w[w].active = 0 /\ t.w[w].repeat # 0 ->
              ev_timer_start([t EXCEPT !.w[w].at = t.w[w].repeat], w)
         [] OTHER -> t

ev_timer_remaining(s, w) ==
    s.w[w].at - (IF s.w[w].active # 0 THEN s.mn_now ELSE 0)

\* One turn of the loop of timers_reify: the first timer of the heap.
ExpireTimer(s) ==
    LET w == s.heaps["timer"][1].w
        next == s.w[w].at + s.w[w].repeat
    IN IF s.w[w].repeat = 0 THEN ev_timer_stop(s, w)
       ELSE downheap(ANHE_at_cache(
               [s EXCEPT !.w[w].at = IF next < s.mn_now THEN s.mn_now ELSE next],
               "timer", 1), "timer", 1)

RECURSIVE TimersReify(_, _)
TimersReify(s, rfeeds) ==
    IF Len(s.heaps["timer"]) > 0 /\ s.heaps["timer"][1].at < s.mn_now
    THEN TimersReify(ExpireTimer(s), Append(rfeeds, s.heaps["timer"][1].w))
    ELSE feed_reverse_done(s, rfeeds, "TIMER")
timers_reify(s) == TimersReify(s, <<>>)

timers_reschedule(s, adjust) ==
    FoldLeft(LAMBDA t, k :
                ANHE_at_cache([t EXCEPT !.w[t.heaps["timer"][k].w].at = @ + adjust],
                              "timer", k),
             s, [k \in 1..Len(s.heaps["timer"]) |-> k])

(***************************************************************************)
(* Periodics.  A negative interval stands for a reschedule callback, which *)
(* asks for that many ticks from now.                                      *)
(***************************************************************************)
periodic_recalc(s, w) ==
    LET interval == s.w[w].repeat
        offset == s.w[w].offset
        at == offset + interval * ((s.rt_now - offset) \div interval)
    IN [s EXCEPT !.w[w].at = IF at <= s.rt_now THEN at + interval ELSE at]

PeriodicNext(s, w) ==
    CASE s.w[w].repeat < 0 -> [s EXCEPT !.w[w].at = s.rt_now - s.w[w].repeat]
      [] s.w[w].repeat > 0 -> periodic_recalc(s, w)
      [] s.w[w].repeat = 0 -> s

ev_periodic_start(s, w) ==
    IF s.w[w].active # 0 THEN s
    ELSE HeapAdd(IF s.w[w].repeat = 0
                 THEN [s EXCEPT !.w[w].at = s.w[w].offset]
                 ELSE PeriodicNext(s, w), "periodic", w)

ev_periodic_stop(s, w) ==
    LET t == clear_pending(s, w)
    IN IF t.w[w].active = 0 THEN t ELSE ev_stop(HeapDelete(t, "periodic", w), w)

ev_periodic_again(s, w) == ev_periodic_start(ev_periodic_stop(s, w), w)

ExpirePeriodic(s) ==
    LET w == s.heaps["periodic"][1].w
    IN IF s.w[w].repeat = 0 THEN ev_periodic_stop(s, w)
       ELSE downheap(ANHE_at_cache(PeriodicNext(s, w), "periodic", 1), "periodic", 1)

RECURSIVE PeriodicsReify(_, _)
PeriodicsReify(s, rfeeds) ==
    IF Len(s.heaps["periodic"]) > 0 /\ s.heaps["periodic"][1].at < s.rt_now
    THEN PeriodicsReify(ExpirePeriodic(s), Append(rfeeds, s.heaps["periodic"][1].w))
    ELSE feed_reverse_done(s, rfeeds, "PERIODIC")
periodics_reify(s) == PeriodicsReify(s, <<>>)

periodics_reschedule(s) ==
    reheap(FoldLeft(LAMBDA t, k :
                       ANHE_at_cache(PeriodicNext(t, t.heaps["periodic"][k].w),
                                     "periodic", k),
                    s, [k \in 1..Len(s.heaps["periodic"]) |-> k]), "periodic")

(***************************************************************************)
(* The arrays: prepare, check, fork, cleanup and async watchers, and the   *)
(* idle watchers of each priority.  The last element takes the place of a  *)
(* deleted one.                                                            *)
(***************************************************************************)
FillHole(s, ws, w) ==
    [s EXCEPT !.w[Last(ws)].active = s.w[w].active]
Without(ws, k) == Front([ws EXCEPT ![k] = Last(ws)])

ArrayStart(s, w, k) ==
    IF s.w[w].active # 0 THEN s
    ELSE [ev_start(s, w, Len(s.arrays[k]) + 1) EXCEPT !.arrays[k] = Append(@, w)]

\* The hole is filled, the index of the element that fills it is left as it was.
ArrayStopStale(s, w, k) ==
    LET t == clear_pending(s, w)
    IN IF t.w[w].active = 0 THEN t
       ELSE ev_stop([t EXCEPT !.arrays[k] = Without(@, t.w[w].active)], w)

ArrayStop(s, w, k) ==
    LET t == clear_pending(s, w)
        u == FillHole(t, t.arrays[k], w)
    IN IF t.w[w].active = 0 THEN t
       ELSE ev_stop([u EXCEPT !.arrays[k] = Without(@, t.w[w].active)], w)

ev_prepare_start(s, w) == ArrayStart(s, w, "prepare")
ev_prepare_stop(s, w) == ArrayStop(s, w, "prepare")
ev_check_start(s, w) == ArrayStart(s, w, "check")
ev_check_stop(s, w) == ArrayStop(s, w, "check")
ev_fork_start(s, w) == ArrayStart(s, w, "fork")
ev_fork_stop(s, w) == ArrayStop(s, w, "fork")

\* A cleanup watcher does not keep the loop running.
ev_cleanup_start(s, w) ==
    IF s.w[w].active # 0 THEN s ELSE ev_unref(ArrayStart(s, w, "cleanup"))
ev_cleanup_stop(s, w) ==
    IF s.w[w].active = 0 THEN clear_pending(s, w)
    ELSE ArrayStop(ev_ref(s), w, "cleanup")

ev_async_start(s, w) ==
    IF s.w[w].active # 0 THEN s
    ELSE ArrayStart([s EXCEPT !.w[w].sent = FALSE], w, "async")
ev_async_stop(s, w) == ArrayStop(s, w, "async")

ev_idle_start(s, w) ==
    LET pri == Clamp(s.w[w].pri)
        t == ev_start(s, w, Len(s.idles[pri]) + 1)
    IN IF s.w[w].active # 0 THEN s
       ELSE [t EXCEPT !.idles[pri] = Append(@, w)]

ev_idle_stop(s, w) ==
    LET pri == s.w[w].pri
        t == clear_pending(s, w)
        u == FillHole(t, t.idles[pri], w)
    IN IF t.w[w].active = 0 THEN t
       ELSE ev_stop([u EXCEPT !.idles[pri] = Without(@, t.w[w].active)], w)

idleall(s) == \E p \in Priorities : s.idles[p] # <<>>

\* Idle watchers run only when nothing of their priority or above is pending.
idle_reify(s) ==
    LET busy == {p \in Priorities : s.pendings[p] # <<>> \/ s.idles[p] # <<>>}
        pri == Max(busy)
    IN IF ~idleall(s) \/ s.pendings[pri] # <<>> THEN s
       ELSE queue_events(s, s.idles[pri], "IDLE")

(***************************************************************************)
(* Signals.                                                                *)
(***************************************************************************)
SignalStart(s, w) ==
    IF s.w[w].active # 0 THEN s
    ELSE [ev_start(s, w, 1) EXCEPT !.signals[s.w[w].fd] = wlist_add(@, w)]

SignalStop(s, w) ==
    LET t == clear_pending(s, w)
    IN IF t.w[w].active = 0 THEN t
       ELSE [ev_stop(t, w) EXCEPT !.signals[s.w[w].fd] = wlist_del(@, w)]

ev_feed_signal_event(s, signum) == queue_events(s, s.signals[signum], "SIGNAL")

(***************************************************************************)
(* A start and a stop of a watcher of any kind.                            *)
(***************************************************************************)
StartAny(s, w) ==
    LET k == s.w[w].kind
    IN CASE k = "io" -> ev_io_start(s, w)
         [] k = "timer" -> ev_timer_start(s, w)
         [] k = "periodic" -> ev_periodic_start(s, w)
         [] k = "idle" -> ev_idle_start(s, w)
         [] k = "signal" -> SignalStart(s, w)
         [] k = "prepare" -> ev_prepare_start(s, w)
         [] k = "check" -> ev_check_start(s, w)
         [] k = "fork" -> ev_fork_start(s, w)
         [] k = "cleanup" -> ev_cleanup_start(s, w)
         [] k = "async" -> ev_async_start(s, w)

StopAny(s, w) ==
    LET k == s.w[w].kind
    IN CASE k = "io" -> ev_io_stop(s, w)
         [] k = "timer" -> ev_timer_stop(s, w)
         [] k = "periodic" -> ev_periodic_stop(s, w)
         [] k = "idle" -> ev_idle_stop(s, w)
         [] k = "signal" -> SignalStop(s, w)
         [] k = "prepare" -> ev_prepare_stop(s, w)
         [] k = "check" -> ev_check_stop(s, w)
         [] k = "fork" -> ev_fork_stop(s, w)
         [] k = "cleanup" -> ev_cleanup_stop(s, w)
         [] k = "async" -> ev_async_stop(s, w)

(***************************************************************************)
(* The assertions of ev_verify, which a build with EV_VERIFY evaluates.    *)
(***************************************************************************)
verify_watcher(s, w) ==
    /\ s.w[w].pri \in Priorities
    /\ s.w[w].pending # 0 =>
         /\ s.w[w].pending <= Len(s.pendings[s.w[w].pri])
         /\ s.pendings[s.w[w].pri][s.w[w].pending].w = w

verify_heap(s, h) ==
    \A k \in 1..Len(s.heaps[h]) :
        LET w == s.heaps[h][k].w
        IN /\ s.w[w].active = k
           /\ k > 1 => s.heaps[h][HPARENT(k)].at <= s.heaps[h][k].at
           /\ s.heaps[h][k].at = s.w[w].at
           /\ verify_watcher(s, w)

array_verify(s, ws) ==
    \A k \in 1..Len(ws) : s.w[ws[k]].active = k /\ verify_watcher(s, ws[k])

ev_verify(s) ==
    /\ s.activecnt >= -1
    /\ \A fd \in Fds : \A w \in ToSet(s.anfds[fd].head) :
          verify_watcher(s, w) /\ s.w[w].active = 1 /\ s.w[w].fd = fd
    /\ \A h \in HeapKinds : verify_heap(s, h)
    /\ \A p \in Priorities : array_verify(s, s.idles[p])
    /\ \A k \in ArrayKinds : array_verify(s, s.arrays[k])
=============================================================================

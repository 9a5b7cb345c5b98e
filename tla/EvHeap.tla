------------------------------- MODULE EvHeap -------------------------------
(***************************************************************************)
(* Timers and periodics of libev under a clock that may jump.  Between two *)
(* polls the program calls the timer functions in any order, from the      *)
(* callbacks that run and outside them.                                    *)
(***************************************************************************)
EXTENDS EvOps
LOCAL INSTANCE SequencesExt

CONSTANTS TimerSetups,   \* [w: the watchers, started: those the program starts first]
          Afters,        \* the delays a timer is set to
          MaxCalls,      \* bound on the calls of the program
          MaxClock,      \* bound on the monotonic clock
          WallStart,     \* the wall clock when the loop is made
          WallJumps,     \* how far the wall clock may jump in a tick
          MinTimejump    \* MIN_TIMEJUMP, in ticks

VARIABLES evH,       \* the loop
          evMono,    \* the monotonic clock
          evWall,    \* the wall clock
          evCalls,   \* calls made so far
          evDue,     \* ghost: when each watcher of the last expiry was due
          evLast,    \* ghost: when the last invoked one was due
          evStopped, \* ghost: the watchers stopped since they were fed
          evBad      \* ghost: "order", "stopped" or "left" once that happened
heapVars == <<evH, evMono, evWall, evCalls, evDue, evLast, evStopped, evBad>>

(***************************************************************************)
(* time_update with a monotonic clock: the wall clock is only read when    *)
(* half a MIN_TIMEJUMP has passed, and a jump recomputes the periodics.    *)
(* The clocks do not move within a call.                                   *)
(***************************************************************************)
Abs(n) == IF n < 0 THEN -n ELSE n

time_update(s, mono, wall) ==
    LET t == [s EXCEPT !.mn_now = mono]
        read == [t EXCEPT !.now_floor = mono, !.rt_now = wall,
                          !.rtmn_diff = wall - mono]
    IN IF 2 * (mono - s.now_floor) < MinTimejump
       THEN [t EXCEPT !.rt_now = s.rtmn_diff + mono]
       ELSE IF Abs(s.rtmn_diff - (wall - mono)) < MinTimejump THEN read
            ELSE periodics_reschedule(read)

(***************************************************************************)
(* Actions.                                                                *)
(***************************************************************************)
HeapInit ==
    /\ evH \in {FoldLeft(StartAny, [NewLoop(u.w) EXCEPT !.rt_now = WallStart,
                                                      !.rtmn_diff = WallStart], u.started)
                 : u \in TimerSetups}
    /\ evMono = 0 /\ evWall = WallStart /\ evCalls = 0
    /\ evDue = [w \in DOMAIN evH.w |-> 0] /\ evLast = [kind |-> "none", due |-> 0]
    /\ evStopped = {} /\ evBad = {}

Idling == \A p \in Priorities : evH.pendings[p] = <<>>
HeapCall(t) ==
    /\ evCalls < MaxCalls
    /\ evCalls' = evCalls + 1
    /\ evH' = t
    /\ UNCHANGED <<evMono, evWall, evDue, evLast, evBad>>
StopCall(w, t) == HeapCall(t) /\ evStopped' = evStopped \cup {w}
StartCall(t) == HeapCall(t) /\ UNCHANGED evStopped

\* ev_timer_set on an inactive timer, and ev_timer_start.
SetTimer(w, after) ==
    /\ evH.w[w].kind = "timer" /\ evH.w[w].active = 0
    /\ StartCall(ev_timer_start([evH EXCEPT !.w[w].at = after], w))
\* ev_timer_start of a stopped timer: it goes on with the time it had left.
ResumeTimer(w) ==
    /\ evH.w[w].kind = "timer" /\ evH.w[w].active = 0
    /\ StartCall(ev_timer_start([evH EXCEPT !.w[w].at = ev_timer_remaining(evH, w)], w))
StopTimer(w) == evH.w[w].kind = "timer" /\ StopCall(w, ev_timer_stop(evH, w))
AgainTimer(w) == evH.w[w].kind = "timer" /\ StopCall(w, ev_timer_again(evH, w))
StartPeriodic(w) ==
    /\ evH.w[w].kind = "periodic" /\ evH.w[w].active = 0
    /\ StartCall(ev_periodic_start(evH, w))
StopPeriodic(w) == evH.w[w].kind = "periodic" /\ StopCall(w, ev_periodic_stop(evH, w))
AgainPeriodic(w) == evH.w[w].kind = "periodic" /\ StopCall(w, ev_periodic_again(evH, w))

\* ev_resume after ev_suspend: the time in between does not count for timers.
SuspendResume ==
    /\ Idling
    /\ LET t == time_update(evH, evMono, evWall)
       IN StartCall(periodics_reschedule(
                      timers_reschedule(t, t.mn_now - evH.mn_now)))

\* Only periodics depend on the wall clock.
Tick(jump) ==
    /\ evMono < MaxClock
    /\ jump # 0 => \E w \in DOMAIN evH.w : evH.w[w].kind = "periodic"
    /\ evMono' = evMono + 1
    /\ evWall' = evWall + 1 + jump
    /\ UNCHANGED <<evH, evCalls, evDue, evLast, evStopped, evBad>>

DueLeft(s) ==
    \/ \E k \in DOMAIN s.heaps["timer"] : s.heaps["timer"][k].at < s.mn_now
    \/ \E k \in DOMAIN s.heaps["periodic"] : s.heaps["periodic"][k].at < s.rt_now

\* What ev_run does after the poll: time, then timers, then periodics.
Expire ==
    /\ Idling
    /\ LET t == time_update(evH, evMono, evWall)
           u == periodics_reify(timers_reify(t))
       IN /\ evH' = u
          /\ evDue' = [w \in DOMAIN evH.w |-> t.w[w].at]
          /\ evBad' = IF DueLeft(u) THEN evBad \cup {"left"} ELSE evBad
    /\ evLast' = [kind |-> "none", due |-> 0]
    /\ evStopped' = {}
    /\ UNCHANGED <<evMono, evWall, evCalls>>

\* One turn of ev_invoke_pending.
InvokeExpired ==
    LET pri == CHOOSE p \in Priorities :
                  /\ evH.pendings[p] # <<>>
                  /\ \A q \in Priorities : q > p => evH.pendings[q] = <<>>
        w == Last(evH.pendings[pri]).w
        t == [evH EXCEPT !.pendings[pri] = Front(@)]
    IN /\ ~Idling
       /\ IF w = NoWatcher
          THEN evH' = t /\ UNCHANGED <<evLast, evBad>>
          ELSE /\ evH' = [t EXCEPT !.w[w].pending = 0]
               /\ evLast' = [kind |-> evH.w[w].kind, due |-> evDue[w]]
               /\ evBad' = evBad
                    \cup (IF w \in evStopped THEN {"stopped"} ELSE {})
                    \cup (IF evH.w[w].kind = evLast.kind /\ evDue[w] < evLast.due
                          THEN {"order"} ELSE {})
       /\ UNCHANGED <<evMono, evWall, evCalls, evDue, evStopped>>

HeapNext ==
    \/ \E w \in DOMAIN evH.w :
          \/ \E after \in Afters : SetTimer(w, after)
          \/ ResumeTimer(w) \/ StopTimer(w) \/ AgainTimer(w)
          \/ StartPeriodic(w) \/ StopPeriodic(w) \/ AgainPeriodic(w)
    \/ SuspendResume
    \/ \E jump \in WallJumps : Tick(jump)
    \/ Expire
    \/ InvokeExpired

(***************************************************************************)
(* Properties.                                                             *)
(***************************************************************************)
Started(h) == {w \in DOMAIN evH.w : evH.w[w].kind = h /\ evH.w[w].active # 0}

\* Whatever is started, stopped and restarted between two expiries, and however
\* the wall clock jumps: the heaps satisfy ev_verify and hold exactly the active
\* timers and periodics; activecnt counts them; what an expiry has fed was due,
\* and nothing due is left behind in a heap; an interval periodic stays on its
\* grid; callbacks of timers run in the order in which they were due, and none
\* runs after its watcher was stopped.
HeapsExact ==
    /\ ev_verify(evH)
    /\ \A h \in HeapKinds : ToSet([k \in 1..Len(evH.heaps[h]) |-> evH.heaps[h][k].w])
                              = Started(h)
    /\ evH.activecnt = Len(evH.heaps["timer"]) + Len(evH.heaps["periodic"])
    /\ \A w \in DOMAIN evH.w : evH.w[w].pending # 0 =>
          evDue[w] < (IF evH.w[w].kind = "timer" THEN evH.mn_now ELSE evH.rt_now)
    /\ \A w \in Started("periodic") :
          evH.w[w].repeat > 0 => (evH.w[w].at - evH.w[w].offset) % evH.w[w].repeat = 0
    /\ evBad = {}
=============================================================================

------------------------------ MODULE MCEvents ------------------------------
(***************************************************************************)
(* The event loop of libev for TLC: its heaps, its stages, its backends    *)
(* and its wake-up from other threads, each a part of its own.  part says  *)
(* which one a behaviour is about, and the state of the others is fixed.   *)
(***************************************************************************)
EXTENDS EvHeap, EvLoop, EvBackend, EvWake

VARIABLE part
vars == <<part, heapVars, loopVars, backendVars, wakeVars>>

T(at, repeat) == NewWatcher("timer", 0, 0, {}, at, repeat)
P(offset, interval) == NewWatcher("periodic", 0, 0, {}, offset, interval)
IO(fd, pri) == NewWatcher("io", pri, fd, {"READ", "IOFDSET"}, 0, 0)
Of(kind, pri) == IF kind = "io" THEN IO(1, pri) ELSE NewWatcher(kind, pri, 1, {}, 0, 0)

\* A setup without started watchers, for the behaviours of other parts.
Parked == [w |-> <<IO(1, 0)>>, started |-> <<>>]

\* A heap of timers with a tie, and one of periodics of each kind.
MCTimerSetups ==
    {Parked,
     [w |-> <<T(0, 2), T(3, 0), T(1, 0), T(3, 0), T(4, 0), T(2, 0)>>,
      started |-> <<1, 2, 3, 4, 5, 6>>],
     [w |-> <<P(1, 3), P(12, 0), P(0, -2), T(1, 0), T(2, 2)>>, started |-> <<1, 2, 3>>]}
MCWallJumps == {-3, 0, 3}

\* Three watchers: every kind beside every other.
MCLoopSetups ==
    {Parked} \cup
    {[w |-> <<Of("prepare", 1), Of(k, 0), Of(j, 1)>>, started |-> <<1, 2, 3>>] :
        k \in {"io", "timer", "idle", "check", "fork"},
        j \in {"io", "check", "prepare", "async", "cleanup", "signal"}}

\* Two watchers of one descriptor, for each backend.
MCBackendSetups ==
    {[kind |-> k, w |-> <<IO(1, 0), IO(1, 0)>>] :
        k \in {"epoll", "poll", "select", "kqueue", "port"}}

\* One thread sends the async, one (or a signal handler in it) the signal.
MCSends == {<<"t1", "a">>, <<"t2", "s">>}

Init == /\ part \in {"heap", "loop", "backend", "wake"}
        /\ HeapInit /\ LoopInit /\ BackendInit /\ WakeInit
        /\ part = "heap" <=> Len(evH.w) > 1
        /\ part = "loop" <=> Len(evL.w) > 1
        /\ part = "backend" \/ bkKind = "epoll"
Next == /\ UNCHANGED part
        /\ \/ part = "heap" /\ HeapNext /\ UNCHANGED <<loopVars, backendVars, wakeVars>>
           \/ part = "loop" /\ LoopNext /\ UNCHANGED <<heapVars, backendVars, wakeVars>>
           \/ part = "backend" /\ BackendNext /\ UNCHANGED <<heapVars, loopVars, wakeVars>>
           \/ part = "wake" /\ WakeNext /\ UNCHANGED <<heapVars, loopVars, backendVars>>

\* WakeFairness, of the behaviours of that part.
Spec == /\ Init /\ [][Next]_vars
        /\ WF_wakeVars(part = "wake" /\ LoopStep)
        /\ \A t \in Senders : WF_wakeVars(part = "wake" /\ SenderStep(t))

\* The loop's own tables are exact after any calls and callbacks (ev.c): its
\* heaps are ordered and know where each timer is, its arrays of watchers and
\* of pending events refer to each other, and every backend has registered
\* with the kernel the events its watchers wait for.
EventsExact ==
    /\ part = "heap" => HeapsExact
    /\ part = "loop" => LoopExact
    /\ part = "backend" => KernelWatches
=============================================================================

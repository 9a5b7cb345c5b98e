------------------------------- MODULE EvWake -------------------------------
(***************************************************************************)
(* How another thread or a signal handler wakes a loop of libev: the       *)
(* flags, the event pipe and the two optimisation bits pipe_write_wanted   *)
(* and pipe_write_skipped, one step for each access to shared memory.      *)
(* The fences of the code make the accesses take effect in program order.  *)
(* Watchers other than asyncs and signals only make a poll return.         *)
(***************************************************************************)
EXTENDS Naturals

CONSTANTS Senders,   \* threads that call ev_async_send, and signal handlers
          Asyncs,    \* active async watchers
          Signals,   \* signals with an active watcher
          Sends      \* which sender sends which of them

Items == Asyncs \cup Signals

ASSUME WakeAssumption == "pipe_w" \notin Items

Flag(i) == IF i \in Asyncs THEN "async_pending" ELSE "sig_pending"

VARIABLES wkPc,      \* the stage of the loop thread
          wkWait,    \* whether its poll may block
          wkTodo,    \* the items pipecb has still to look at
          wkDue,     \* watchers with a pending event; "pipe_w" with {} or {"READ"}
          wkRead,    \* whether the pending event of pipe_w includes EV_READ
          wkPipe,    \* whether the event pipe is readable
          pipe_write_wanted, pipe_write_skipped,
          wkFlags,   \* the flags that are set
          wkSent,    \* the items whose sent or pending member is set
          wkSender,  \* [Senders -> the item being sent and the stage, or idle]
          wkForked,  \* whether this process is the child of a fork
          postfork,
          wkOwed     \* ghost: items sent and not yet called back
wakeVars == <<wkPc, wkWait, wkTodo, wkDue, wkRead, wkPipe, pipe_write_wanted,
              pipe_write_skipped, wkFlags, wkSent, wkSender, wkForked, postfork, wkOwed>>

SenderIdle == [at |-> "idle", item |-> "none"]

WakeInit ==
    /\ wkPc = "top" /\ wkWait = FALSE /\ wkTodo = {} /\ wkDue = {}
    /\ wkRead = FALSE /\ wkPipe = FALSE
    /\ pipe_write_wanted = FALSE /\ pipe_write_skipped = FALSE
    /\ wkFlags = {} /\ wkSent = {}
    /\ wkSender = [t \in Senders |-> SenderIdle]
    /\ wkForked = FALSE /\ postfork = FALSE /\ wkOwed = {}

(***************************************************************************)
(* evpipe_write, after the item's own flag.                                *)
(***************************************************************************)
Step(t, from, to) ==
    /\ wkSender[t].at = from
    /\ wkSender' = [wkSender EXCEPT ![t] = IF to = "idle" THEN SenderIdle
                                           ELSE [@ EXCEPT !.at = to]]
loopPart == <<wkPc, wkWait, wkTodo, wkDue, wkRead, wkForked, postfork>>

\* ev_async_send sets sent, ev_feed_signal sets signals [signum - 1].pending.
SendStart(t, item) ==
    /\ wkSender[t].at = "idle" /\ <<t, item>> \in Sends
    /\ wkSender' = [wkSender EXCEPT ![t] = [at |-> "test", item |-> item]]
    /\ wkSent' = wkSent \cup {item}
    /\ wkOwed' = wkOwed \cup {item}
    /\ UNCHANGED <<loopPart, wkPipe, pipe_write_wanted, pipe_write_skipped, wkFlags>>

TestFlag(t) ==
    /\ Step(t, "test", IF Flag(wkSender[t].item) \in wkFlags THEN "idle" ELSE "flag")
    /\ UNCHANGED <<loopPart, wkPipe, pipe_write_wanted, pipe_write_skipped,
                   wkFlags, wkSent, wkOwed>>

SetFlag(t) ==
    /\ Step(t, "flag", "skip")
    /\ wkFlags' = wkFlags \cup {Flag(wkSender[t].item)}
    /\ UNCHANGED <<loopPart, wkPipe, pipe_write_wanted, pipe_write_skipped, wkSent, wkOwed>>

\* The bit is only set after the loop's wish for a wake-up has been looked at.
SetSkippedLate(t) ==
    /\ Step(t, "skip", IF pipe_write_wanted THEN "unskip" ELSE "idle")
    /\ pipe_write_skipped' = pipe_write_skipped
    /\ UNCHANGED <<loopPart, wkPipe, pipe_write_wanted, wkFlags, wkSent, wkOwed>>

SetSkipped(t) ==
    /\ Step(t, "skip", "wanted")
    /\ pipe_write_skipped' = TRUE
    /\ UNCHANGED <<loopPart, wkPipe, pipe_write_wanted, wkFlags, wkSent, wkOwed>>

TestWanted(t) ==
    /\ Step(t, "wanted", IF pipe_write_wanted THEN "unskip" ELSE "idle")
    /\ UNCHANGED <<loopPart, wkPipe, pipe_write_wanted, pipe_write_skipped,
                   wkFlags, wkSent, wkOwed>>

ClearSkipped(t) ==
    /\ Step(t, "unskip", "write")
    /\ pipe_write_skipped' = FALSE
    /\ UNCHANGED <<loopPart, wkPipe, pipe_write_wanted, wkFlags, wkSent, wkOwed>>

WritePipe(t) ==
    /\ Step(t, "write", "idle")
    /\ wkPipe' = TRUE
    /\ UNCHANGED <<loopPart, pipe_write_wanted, pipe_write_skipped, wkFlags, wkSent, wkOwed>>

(***************************************************************************)
(* The loop thread: the stages of ev_run around the poll.                  *)
(***************************************************************************)
sendPart == <<wkSender, wkOwed>>

\* loop_fork: the child's pipe is a new one, and everything is looked at once.
RunTop ==
    /\ wkPc = "top"
    /\ wkPc' = "want"
    /\ postfork' = FALSE
    /\ IF postfork THEN wkPipe' = FALSE /\ wkDue' = wkDue \cup {"pipe_w"}
       ELSE UNCHANGED <<wkPipe, wkDue>>
    /\ UNCHANGED <<wkWait, wkTodo, wkRead, pipe_write_wanted, pipe_write_skipped,
                   wkFlags, wkSent, wkForked, sendPart>>

Want ==
    /\ wkPc = "want"
    /\ wkPc' = "decide" /\ pipe_write_wanted' = TRUE
    /\ UNCHANGED <<wkWait, wkTodo, wkDue, wkRead, wkPipe, pipe_write_skipped,
                   wkFlags, wkSent, wkForked, postfork, sendPart>>

Decide ==
    /\ wkPc = "decide"
    /\ wkPc' = "poll" /\ wkWait' = ~pipe_write_skipped
    /\ UNCHANGED <<wkTodo, wkDue, wkRead, wkPipe, pipe_write_wanted,
                   pipe_write_skipped, wkFlags, wkSent, wkForked, postfork, sendPart>>

\* The poll returns with the pipe if it is readable.
PollWoken ==
    /\ wkPc = "poll" /\ (wkPipe \/ ~wkWait)
    /\ wkPc' = "unwant"
    /\ wkDue' = IF wkPipe THEN wkDue \cup {"pipe_w"} ELSE wkDue
    /\ wkRead' = (wkRead \/ wkPipe)
    /\ UNCHANGED <<wkWait, wkTodo, wkPipe, pipe_write_wanted, pipe_write_skipped,
                   wkFlags, wkSent, wkForked, postfork, sendPart>>

\* It returns for another reason: an event, a timer, or MAX_BLOCKTIME.
PollTimeout ==
    /\ wkPc = "poll" /\ wkWait /\ ~wkPipe
    /\ wkPc' = "unwant"
    /\ UNCHANGED <<wkWait, wkTodo, wkDue, wkRead, wkPipe, pipe_write_wanted,
                   pipe_write_skipped, wkFlags, wkSent, wkForked, postfork, sendPart>>

Unwant ==
    /\ wkPc = "unwant"
    /\ wkPc' = "skipped" /\ pipe_write_wanted' = FALSE
    /\ UNCHANGED <<wkWait, wkTodo, wkDue, wkRead, wkPipe, pipe_write_skipped,
                   wkFlags, wkSent, wkForked, postfork, sendPart>>

TestSkipped ==
    /\ wkPc = "skipped"
    /\ wkPc' = "invoke"
    /\ wkDue' = IF pipe_write_skipped THEN wkDue \cup {"pipe_w"} ELSE wkDue
    /\ UNCHANGED <<wkWait, wkTodo, wkRead, wkPipe, pipe_write_wanted,
                   pipe_write_skipped, wkFlags, wkSent, wkForked, postfork, sendPart>>

(***************************************************************************)
(* The callbacks.  pipe_w has the highest priority.                        *)
(***************************************************************************)
InvokePipe ==
    /\ wkPc = "invoke" /\ "pipe_w" \in wkDue
    /\ wkPc' = "cb_unskip"
    /\ wkDue' = wkDue \ {"pipe_w"}
    /\ wkPipe' = (wkPipe /\ ~wkRead) /\ wkRead' = FALSE
    /\ UNCHANGED <<wkWait, wkTodo, pipe_write_wanted, pipe_write_skipped,
                   wkFlags, wkSent, wkForked, postfork, sendPart>>

InvokeItem(item) ==
    /\ wkPc = "invoke" /\ "pipe_w" \notin wkDue /\ item \in wkDue
    /\ wkDue' = wkDue \ {item}
    /\ wkOwed' = wkOwed \ {item}
    /\ UNCHANGED <<wkPc, wkWait, wkTodo, wkRead, wkPipe, pipe_write_wanted,
                   pipe_write_skipped, wkFlags, wkSent, wkSender, wkForked, postfork>>

InvokeEnd ==
    /\ wkPc = "invoke" /\ wkDue = {}
    /\ wkPc' = "top"
    /\ UNCHANGED <<wkWait, wkTodo, wkDue, wkRead, wkPipe, pipe_write_wanted,
                   pipe_write_skipped, wkFlags, wkSent, wkForked, postfork, sendPart>>

\* pipecb: the bit, then the signals, then the asyncs.
CbUnskip ==
    /\ wkPc = "cb_unskip"
    /\ wkPc' = "sig_pending" /\ pipe_write_skipped' = FALSE
    /\ UNCHANGED <<wkWait, wkTodo, wkDue, wkRead, wkPipe, pipe_write_wanted,
                   wkFlags, wkSent, wkForked, postfork, sendPart>>

AfterFlag(flag) == IF flag = "sig_pending" THEN "async_pending" ELSE "invoke"
\* mutant: the flag is not cleared
CbFlagKept(flag) ==
    LET items == IF flag \in wkFlags THEN {i \in Items : Flag(i) = flag} ELSE {} IN
    /\ wkPc = flag
    /\ wkTodo' = items
    /\ wkPc' = IF items = {} THEN AfterFlag(flag) ELSE "each"
    /\ UNCHANGED <<wkWait, wkDue, wkRead, wkPipe, pipe_write_wanted, wkFlags,
                   pipe_write_skipped, wkSent, wkForked, postfork, sendPart>>

\* The flag is cleared first; then the items it stands for are looked at, in
\* some order.
CbFlag(flag) ==
    LET items == IF flag \in wkFlags THEN {i \in Items : Flag(i) = flag} ELSE {} IN
    /\ wkPc = flag
    /\ wkFlags' = wkFlags \ {flag}
    /\ wkTodo' = items
    /\ wkPc' = IF items = {} THEN AfterFlag(flag) ELSE "each"
    /\ UNCHANGED <<wkWait, wkDue, wkRead, wkPipe, pipe_write_wanted,
                   pipe_write_skipped, wkSent, wkForked, postfork, sendPart>>

CbItem(item) ==
    /\ wkPc = "each" /\ item \in wkTodo
    /\ wkTodo' = wkTodo \ {item}
    /\ wkPc' = IF wkTodo = {item} THEN AfterFlag(Flag(item)) ELSE "each"
    /\ wkSent' = wkSent \ {item}
    /\ wkDue' = IF item \in wkSent THEN wkDue \cup {item} ELSE wkDue
    /\ UNCHANGED <<wkWait, wkRead, wkPipe, pipe_write_wanted, pipe_write_skipped,
                   wkFlags, wkForked, postfork, sendPart>>

\* fork, from a callback or a prepare watcher: only the loop's thread goes on in
\* the child, and a send that was under way there is never finished.
Fork ==
    /\ wkPc = "top" /\ ~wkForked
    /\ wkForked' = TRUE /\ postfork' = TRUE
    /\ wkSender' = [t \in Senders |-> SenderIdle]
    /\ wkOwed' = wkOwed \ {wkSender[t].item : t \in Senders}
    /\ UNCHANGED <<wkPc, wkWait, wkTodo, wkDue, wkRead, wkPipe, pipe_write_wanted,
                   pipe_write_skipped, wkFlags, wkSent>>

SenderStep(t) == TestFlag(t) \/ SetFlag(t) \/ SetSkipped(t) \/ TestWanted(t)
                 \/ ClearSkipped(t) \/ WritePipe(t)
LoopStep == RunTop \/ Want \/ Decide \/ PollWoken \/ PollTimeout \/ Unwant \/ TestSkipped
            \/ InvokePipe \/ (\E i \in Items : InvokeItem(i)) \/ InvokeEnd
            \/ CbUnskip \/ CbFlag("sig_pending") \/ CbFlag("async_pending")
            \/ \E i \in Items : CbItem(i)
WakeNext ==
    \/ \E t \in Senders : SenderStep(t) \/ \E i \in Items : SendStart(t, i)
    \/ LoopStep
    \/ Fork

(***************************************************************************)
(* Properties.                                                             *)
(***************************************************************************)
\* The loop never blocks on an empty pipe while a completed ev_async_send or a
\* signal that was handled is still undelivered: either the pipe was written, or
\* pipe_write_skipped kept the poll from waiting.  In a child after fork the
\* poll may block once, with the event of pipe_w pending.
NoLostWakeup ==
    wkPc = "poll" /\ wkWait /\ ~wkPipe /\ (\A t \in Senders : wkSender[t] = SenderIdle)
      => wkOwed = {} \/ "pipe_w" \in wkDue

\* Every item sent is called back: a thread that has set sent finishes
\* evpipe_write, and the loop keeps turning, if only every MAX_BLOCKTIME.
AsyncDelivered == \A i \in Items : (i \in wkOwed) ~> (i \notin wkOwed)

WakeFairness == /\ WF_wakeVars(LoopStep)
                /\ \A t \in Senders : WF_wakeVars(SenderStep(t))
=============================================================================

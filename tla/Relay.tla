------------------------------- MODULE Relay --------------------------------
(***************************************************************************)
(* What a tunnel promises its two peers: a pipe per direction that holds   *)
(* at most one chunk.  A chunk is taken from side c only when everything   *)
(* taken from c before has been delivered to the other side; chunks are    *)
(* neither lost, repeated nor invented while the pipe is open; after it    *)
(* closes nothing moves.                                                   *)
(***************************************************************************)
EXTENDS Naturals

Ends == {"in", "out"}

Opposite(c) == IF c = "in" THEN "out" ELSE "in"

VARIABLES
    phase,      \* "setup", "open" or "closed"
    taken,      \* chunks read from each end
    delivered   \* chunks written to each end

relayVars == <<phase, taken, delivered>>

RelayInit ==
    /\ phase = "setup"
    /\ taken = [c \in Ends |-> 0]
    /\ delivered = [c \in Ends |-> 0]

(* The pipe may open with a first chunk from "in" that came with the setup. *)
Open ==
    /\ phase = "setup"
    /\ phase' = "open"
    /\ taken' \in {taken, [taken EXCEPT !["in"] = @ + 1]}
    /\ UNCHANGED delivered

Take(c) ==
    /\ phase = "open"
    /\ taken[c] = delivered[Opposite(c)]
    /\ taken' = [taken EXCEPT ![c] = @ + 1]
    /\ UNCHANGED <<phase, delivered>>

Deliver(c) ==
    /\ phase = "open"
    /\ taken[Opposite(c)] = delivered[c] + 1
    /\ delivered' = [delivered EXCEPT ![c] = @ + 1]
    /\ UNCHANGED <<phase, taken>>

Close ==
    /\ phase # "closed"
    /\ phase' = "closed"
    /\ UNCHANGED <<taken, delivered>>

RelayNext == Open \/ Close \/ \E c \in Ends : Take(c) \/ Deliver(c)

RelaySpec == RelayInit /\ [][RelayNext]_relayVars
=============================================================================

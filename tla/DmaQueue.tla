------------------------------ MODULE DmaQueue ------------------------------
(***************************************************************************)
(* What START_DMA promises one caller: the requests that it makes are      *)
(* accepted in order into a queue of bounded length, the card carries each *)
(* of them exactly once, with the size asked for, and only then gives its  *)
(* place back.  An empty request is not a request.                         *)
(***************************************************************************)
EXTENDS Naturals, Sequences

CONSTANTS Capacity, Sizes

VARIABLES
    pending,    \* the request made and not yet accepted, 0 when none is
    queue,      \* the requests accepted, oldest first
    carried,    \* whether the card is done with the oldest one
    moved       \* the size of the last transfer

qvars == <<pending, queue, carried, moved>>

QInit == pending = 0 /\ queue = << >> /\ carried = FALSE /\ moved = 0

Ask ==
    /\ pending = 0
    /\ pending' \in Sizes
    /\ UNCHANGED <<queue, carried, moved>>

Accept ==
    /\ pending # 0
    /\ Len(queue) < Capacity
    /\ queue' = Append(queue, pending)
    /\ pending' = 0
    /\ UNCHANGED <<carried, moved>>

Carry ==
    /\ queue # << >> /\ ~ carried
    /\ moved' = Head(queue)
    /\ carried' = TRUE
    /\ UNCHANGED <<pending, queue>>

Retire ==
    /\ carried
    /\ queue' = Tail(queue)
    /\ carried' = FALSE
    /\ UNCHANGED <<pending, moved>>

QNext == Ask \/ Accept \/ Carry \/ Retire

QSpec == QInit /\ [][QNext]_qvars
=============================================================================

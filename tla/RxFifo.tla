------------------------------- MODULE RxFifo -------------------------------
(***************************************************************************)
(* What the receive path of the GBE driver promises to the network stack:  *)
(* the frames the controller stores are disposed of exactly once and in    *)
(* the order of their arrival, at most N of them wait at any time, and a   *)
(* frame whose descriptor shows an impossible length is counted as an      *)
(* error and never handed up.                                              *)
(***************************************************************************)
EXTENDS Naturals, Sequences

CONSTANTS
  N,          \* how many frames the ring can hold
  BadFrames   \* the frames whose length is 0 or above MTS_RX_BUF_SIZE

VARIABLES
  arrived,    \* how many frames have been stored so far; frame k is the k-th
  queue,      \* the frames waiting
  log         \* what became of every frame, in the order it was decided

Init == arrived = 0 /\ queue = << >> /\ log = << >>

Arrive ==
  /\ Len(queue) < N
  /\ arrived' = arrived + 1
  /\ queue' = Append(queue, arrived + 1)
  /\ UNCHANGED log

\* "up": given to the stack; "dropped": no memory for an skb; "error": bad length.
Outcomes(k) == IF k \in BadFrames THEN {"error"} ELSE {"up", "dropped"}

Dispose ==
  /\ queue # << >>
  /\ \E o \in Outcomes(Head(queue)) : log' = Append(log, [id |-> Head(queue), out |-> o])
  /\ queue' = Tail(queue)
  /\ UNCHANGED arrived

Next == Arrive \/ Dispose

Spec == Init /\ [][Next]_<<arrived, queue, log>>
=============================================================================

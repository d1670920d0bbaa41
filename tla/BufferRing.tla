------------------------------ MODULE BufferRing ------------------------------
(***************************************************************************)
(* What a ring of frame buffers promises to the one that fills them and    *)
(* the one that looks at them, whatever moves them about: a buffer has one *)
(* holder at a time, a frame is looked at only when it is complete, frames *)
(* are taken in the order they were completed, and a buffer is filled      *)
(* again only after the consumer has let go of it.  V4L2Capture (camera    *)
(* to program) and PageFlip (renderer to display) are shown to implement   *)
(* this specification.                                                     *)
(***************************************************************************)
EXTENDS Sequences

CONSTANT Buffers

VARIABLES
  holder,     \* for each buffer: free, producer, filled or consumer
  filled      \* the complete buffers nobody has taken yet, oldest first

ring == <<holder, filled>>

Holders == {"free", "producer", "filled", "consumer"}

Init ==
  /\ holder = [b \in Buffers |-> "free"]
  /\ filled = <<>>

\* A free buffer is handed to the producer.
Grant(b) ==
  /\ holder[b] = "free"
  /\ holder' = [holder EXCEPT ![b] = "producer"]
  /\ UNCHANGED filled

\* The producer has completed a frame.
Fill(b) ==
  /\ holder[b] = "producer"
  /\ holder' = [holder EXCEPT ![b] = "filled"]
  /\ filled' = Append(filled, b)

\* The consumer takes the oldest frame and may let go of older ones with it.
Take(dropped) ==
  /\ filled # <<>>
  /\ \A b \in dropped : holder[b] = "consumer"
  /\ holder' = [b \in Buffers |-> IF b = Head(filled) THEN "consumer"
                                  ELSE IF b \in dropped THEN "free"
                                  ELSE holder[b]]
  /\ filled' = Tail(filled)

Release(b) ==
  /\ holder[b] = "consumer"
  /\ holder' = [holder EXCEPT ![b] = "free"]
  /\ UNCHANGED filled

\* The device is closed: everything is given back at once.
Close ==
  /\ holder' = [b \in Buffers |-> "free"]
  /\ filled' = <<>>

Next ==
  \/ \E b \in Buffers : Grant(b) \/ Fill(b) \/ Release(b)
  \/ \E dropped \in SUBSET Buffers : Take(dropped)
  \/ Close

Spec == Init /\ [][Next]_ring
===============================================================================

---------------------------- MODULE RecordOutbox ----------------------------
(***************************************************************************)
(* What a KafkaProducer promises to those who send with it, whatever       *)
(* threads and clients it is made of: each record that is offered is       *)
(* handed over, kept in a bounded queue, or lost, and exactly one of them; *)
(* what is kept leaves the queue in the order in which it came; and where  *)
(* the outbox is a FIFO no record is handed over past one that waits.      *)
(*                                                                         *)
(* A record is the number of the offer that brought it.                    *)
(***************************************************************************)
EXTENDS Integers, Sequences

CONSTANT Capacity  \* bound of the queue

VARIABLES
  fifo,      \* records are handed over in the order of the offers
  open,      \* records are kept and handed over
  offered,   \* number of offers so far
  waiting,   \* the queue
  accepted,  \* the record that was handed over last
  settled    \* number of the records that have been handed over or lost

vars == <<fifo, open, offered, waiting, accepted, settled>>

Init ==
  /\ fifo \in BOOLEAN
  /\ open = FALSE
  /\ offered = 0 /\ waiting = <<>> /\ accepted = 0 /\ settled = 0

Open ==
  /\ ~open
  /\ open' = TRUE
  /\ UNCHANGED <<fifo, offered, waiting, accepted, settled>>

Close ==
  /\ open
  /\ open' = FALSE
  /\ UNCHANGED <<fifo, offered, waiting, accepted, settled>>

\* What a closed outbox still keeps is lost.
Clear ==
  /\ ~open
  /\ waiting' = <<>>
  /\ settled' = settled + Len(waiting)
  /\ UNCHANGED <<fifo, open, offered, accepted>>

HandOver ==
  /\ open
  /\ fifo => waiting = <<>>
  /\ offered' = offered + 1
  /\ accepted' = offered'
  /\ settled' = settled + 1
  /\ UNCHANGED <<fifo, open, waiting>>

Keep ==
  /\ open
  /\ Len(waiting) < Capacity
  /\ offered' = offered + 1
  /\ waiting' = Append(waiting, offered')
  /\ UNCHANGED <<fifo, open, accepted, settled>>

Lose ==
  /\ offered' = offered + 1
  /\ settled' = settled + 1
  /\ UNCHANGED <<fifo, open, waiting, accepted>>

\* The oldest record leaves the queue: it is handed over or lost.
Leave ==
  /\ waiting # <<>>
  /\ waiting' = Tail(waiting)
  /\ accepted' \in {accepted, Head(waiting)}
  /\ settled' = settled + 1
  /\ UNCHANGED <<fifo, open, offered>>

Next == Open \/ Close \/ Clear \/ HandOver \/ Keep \/ Lose \/ Leave

Spec == Init /\ [][Next]_vars
=============================================================================

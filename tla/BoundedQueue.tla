----------------------------- MODULE BoundedQueue -----------------------------
(***************************************************************************)
(* What a channel promises to the threads that use it: a FIFO queue of at  *)
(* most Cap messages on which every send and every receive takes effect at *)
(* one instant between its call and its return.  A call made with a finite *)
(* timeout may also give up, with no effect on the queue; a call without   *)
(* one never does.                                                         *)
(***************************************************************************)
EXTENDS Naturals, Sequences

CONSTANTS Thread, Msg, None, Cap

VARIABLES queue,      \* the messages sent and not yet received, oldest first
          phase,      \* where each thread's current call stands
          item,       \* the message a thread sends, or has received
          impatient   \* the current call has a finite timeout

qvars == <<queue, phase, item, impatient>>

Init == /\ queue = << >>
        /\ phase = [t \in Thread |-> "idle"]
        /\ item = [t \in Thread |-> None]
        /\ impatient = [t \in Thread |-> FALSE]

InvokeSend(t, m, timed) ==
  /\ phase[t] = "idle"
  /\ phase' = [phase EXCEPT ![t] = "sending"]
  /\ item' = [item EXCEPT ![t] = m]
  /\ impatient' = [impatient EXCEPT ![t] = timed]
  /\ UNCHANGED queue

InvokeRecv(t, timed) ==
  /\ phase[t] = "idle"
  /\ phase' = [phase EXCEPT ![t] = "receiving"]
  /\ impatient' = [impatient EXCEPT ![t] = timed]
  /\ UNCHANGED <<queue, item>>

Put(t) ==
  /\ phase[t] = "sending"
  /\ Len(queue) < Cap
  /\ queue' = Append(queue, item[t])
  /\ phase' = [phase EXCEPT ![t] = "done"]
  /\ UNCHANGED <<item, impatient>>

Take(t) ==
  /\ phase[t] = "receiving"
  /\ queue # << >>
  /\ item' = [item EXCEPT ![t] = Head(queue)]
  /\ queue' = Tail(queue)
  /\ phase' = [phase EXCEPT ![t] = "done"]
  /\ UNCHANGED impatient

GiveUp(t) ==
  /\ phase[t] \in {"sending", "receiving"}
  /\ impatient[t]
  /\ item' = [item EXCEPT ![t] = None]
  /\ phase' = [phase EXCEPT ![t] = "done"]
  /\ UNCHANGED <<queue, impatient>>

Return(t) ==
  /\ phase[t] = "done"
  /\ phase' = [phase EXCEPT ![t] = "idle"]
  /\ item' = [item EXCEPT ![t] = None]
  /\ impatient' = [impatient EXCEPT ![t] = FALSE]
  /\ UNCHANGED queue

Next == \E t \in Thread :
  \/ \E timed \in BOOLEAN :
        \/ \E m \in Msg : InvokeSend(t, m, timed)
        \/ InvokeRecv(t, timed)
  \/ Put(t) \/ Take(t) \/ GiveUp(t) \/ Return(t)

Spec == Init /\ [][Next]_qvars
===============================================================================

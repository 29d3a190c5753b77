------------------------------- MODULE Channel --------------------------------
(***************************************************************************)
(* src/channel.c (the pthread half) under the two natives of src/runtime.c *)
(* that use it.  A channel is a ring of Cap slots with a mutex and two     *)
(* condition variables, cv_send and cv_recv.  A message is a heap box:     *)
(* rt_send allocates it, the ring carries its address, and the rt_recv     *)
(* that takes it out copies the value and frees it.                        *)
(*                                                                         *)
(* The mutex belongs to pthread: a thread at "lock" or "giveup" acquires   *)
(* it when it is free, in any order.  A wait on a condition variable       *)
(* releases it and sleeps in one step; a sleeper leaves because it is      *)
(* signalled, spuriously, or, with a finite timeout, because time is up,   *)
(* and in each case has to acquire the mutex again before it goes on.      *)
(***************************************************************************)
EXTENDS Naturals, Sequences, FiniteSets

CONSTANTS Thread,     \* the threads that share the channel
          Box,        \* the heap boxes malloc may return (bounds the heap)
          NoBox,      \* NULL
          NoThread,   \* the mutex is free
          Cap,        \* rt_channel_new's capacity
          Timeouts    \* {FALSE}: every call blocks (timeout_ms = -1, the only
                      \* value runtime.c passes); TRUE: also finite timeouts

ASSUME ChannelAssumption ==
  /\ Cap \in Nat \ {0}
  /\ NoBox \notin Box
  /\ NoThread \notin Thread
  /\ Timeouts \subseteq BOOLEAN

ASSUME ThreadsFinite == IsFiniteSet(Thread)

VARIABLES mu, buf, head, tail, count,  \* struct Channel
          pc,                          \* where each thread is
          op,                          \* the call it is in
          box,                         \* its msg: the argument or the result
          timed,                       \* timeout_ms >= 0
          live                         \* the boxes that are allocated

ring == <<buf, head, tail, count>>
vars == <<mu, buf, head, tail, count, pc, op, box, timed, live>>

(***************************************************************************)
(* "lock"    about to take the mutex, on entry or after a wake-up          *)
(* "test"    holds it, at the while condition                              *)
(* "wait"    asleep on its condition variable                              *)
(* "giveup"  its wait returned nonzero: takes the mutex, only to leave     *)
(* "signal"  holds the mutex, has moved a message                          *)
(* "unlock"  holds the mutex, about to release it                          *)
(* "return"  back in rt_send or rt_recv                                    *)
(***************************************************************************)
PC == {"idle", "lock", "test", "wait", "giveup", "signal", "unlock", "return"}
Critical == {"test", "signal", "unlock"}

Goto(t, l) == pc' = [pc EXCEPT ![t] = l]

Sleepers(o) == {t \in Thread : pc[t] = "wait" /\ op[t] = o}

Other(o) == IF o = "send" THEN "recv" ELSE "send"

Advance(i) == (i + 1) % Cap

(* rt_channel_new *)
Init == /\ mu = NoThread
        /\ buf = [i \in 0 .. Cap - 1 |-> NoBox]
        /\ head = 0 /\ tail = 0 /\ count = 0
        /\ pc = [t \in Thread |-> "idle"]
        /\ op = [t \in Thread |-> "recv"]
        /\ box = [t \in Thread |-> NoBox]
        /\ timed = [t \in Thread |-> FALSE]
        /\ live = {}

CallSend(t) ==
  /\ pc[t] = "idle"
  /\ \E b \in Box \ live :
        /\ live' = live \cup {b}
        /\ box' = [box EXCEPT ![t] = b]
  /\ op' = [op EXCEPT ![t] = "send"]
  /\ \E k \in Timeouts : timed' = [timed EXCEPT ![t] = k]
  /\ Goto(t, "lock")
  /\ UNCHANGED <<mu, ring>>

CallRecv(t) ==
  /\ pc[t] = "idle"
  /\ op' = [op EXCEPT ![t] = "recv"]
  /\ \E k \in Timeouts : timed' = [timed EXCEPT ![t] = k]
  /\ Goto(t, "lock")
  /\ UNCHANGED <<mu, ring, box, live>>

Lock(t) ==
  /\ pc[t] = "lock"
  /\ mu = NoThread
  /\ mu' = t
  /\ Goto(t, "test")
  /\ UNCHANGED <<ring, op, box, timed, live>>

(* Seeded fault: the full test is off by one. *)
Bug_FullTest(t) == IF op[t] = "send" THEN count = Cap + 1 ELSE count = 0

Blocked(t) == IF op[t] = "send" THEN count = Cap ELSE count = 0

Wait(t) ==
  /\ pc[t] = "test"
  /\ Blocked(t)
  /\ mu' = NoThread
  /\ Goto(t, "wait")
  /\ UNCHANGED <<ring, op, box, timed, live>>

Enqueue(t) ==
  /\ pc[t] = "test"
  /\ op[t] = "send"
  /\ ~Blocked(t)
  /\ buf' = [buf EXCEPT ![tail] = box[t]]
  /\ tail' = Advance(tail)
  /\ count' = count + 1
  /\ Goto(t, "signal")
  /\ UNCHANGED <<mu, head, op, box, timed, live>>

(* Seeded fault: recv does not move head. *)
Bug_HeadStays(t) ==
  /\ pc[t] = "test"
  /\ op[t] = "recv"
  /\ ~Blocked(t)
  /\ box' = [box EXCEPT ![t] = buf[head]]
  /\ count' = count - 1
  /\ Goto(t, "signal")
  /\ UNCHANGED <<mu, buf, head, tail, op, timed, live>>

(* Seeded fault: recv takes the newest message. *)
Bug_Newest(t) ==
  /\ pc[t] = "test"
  /\ op[t] = "recv"
  /\ ~Blocked(t)
  /\ tail' = (tail + Cap - 1) % Cap
  /\ box' = [box EXCEPT ![t] = buf[tail']]
  /\ count' = count - 1
  /\ Goto(t, "signal")
  /\ UNCHANGED <<mu, buf, head, op, timed, live>>

Dequeue(t) ==
  /\ pc[t] = "test"
  /\ op[t] = "recv"
  /\ ~Blocked(t)
  /\ box' = [box EXCEPT ![t] = buf[head]]
  /\ head' = Advance(head)
  /\ count' = count - 1
  /\ Goto(t, "signal")
  /\ UNCHANGED <<mu, buf, tail, op, timed, live>>

(* Seeded fault: signal only when the ring stops being empty (full). *)
Bug_SignalOnEdge(t) ==
  /\ pc[t] = "signal"
  /\ IF \/ Sleepers(Other(op[t])) = {}
        \/ count # (IF op[t] = "send" THEN 1 ELSE Cap - 1)
     THEN Goto(t, "unlock")
     ELSE \E w \in Sleepers(Other(op[t])) :
             pc' = [pc EXCEPT ![t] = "unlock", ![w] = "lock"]
  /\ UNCHANGED <<mu, ring, op, box, timed, live>>

(* Seeded fault: recv never signals cv_send. *)
Bug_RecvSilent(t) ==
  /\ pc[t] = "signal"
  /\ IF op[t] = "recv" \/ Sleepers("recv") = {}
     THEN Goto(t, "unlock")
     ELSE \E w \in Sleepers("recv") :
             pc' = [pc EXCEPT ![t] = "unlock", ![w] = "lock"]
  /\ UNCHANGED <<mu, ring, op, box, timed, live>>

(* Seeded fault: send never signals cv_recv. *)
Bug_SendSilent(t) ==
  /\ pc[t] = "signal"
  /\ IF op[t] = "send" \/ Sleepers("send") = {}
     THEN Goto(t, "unlock")
     ELSE \E w \in Sleepers("send") :
             pc' = [pc EXCEPT ![t] = "unlock", ![w] = "lock"]
  /\ UNCHANGED <<mu, ring, op, box, timed, live>>

(* pthread_cond_signal: one sleeper of the other role, if there is one.  A *)
(* sleeper whose time is up at that moment may use the signal up and still *)
(* return ETIMEDOUT.                                                       *)
Signal(t) ==
  /\ pc[t] = "signal"
  /\ IF Sleepers(Other(op[t])) = {}
     THEN Goto(t, "unlock")
     ELSE \E w \in Sleepers(Other(op[t])) :
             \/ pc' = [pc EXCEPT ![t] = "unlock", ![w] = "lock"]
             \/ /\ timed[w]
                /\ pc' = [pc EXCEPT ![t] = "unlock", ![w] = "giveup"]
  /\ UNCHANGED <<mu, ring, op, box, timed, live>>

SpuriousWake(t) ==
  /\ pc[t] = "wait"
  /\ Goto(t, "lock")
  /\ UNCHANGED <<mu, ring, op, box, timed, live>>

TimeOut(t) ==
  /\ pc[t] = "wait"
  /\ timed[t]
  /\ Goto(t, "giveup")
  /\ UNCHANGED <<mu, ring, op, box, timed, live>>

(* The wait returned nonzero: the count is not looked at again; send       *)
(* returns false, recv NULL.                                               *)
GiveUp(t) ==
  /\ pc[t] = "giveup"
  /\ mu = NoThread
  /\ mu' = t
  /\ box' = [box EXCEPT ![t] = NoBox]
  /\ Goto(t, "unlock")
  /\ UNCHANGED <<ring, op, timed, live>>

Unlock(t) ==
  /\ pc[t] = "unlock"
  /\ mu' = NoThread
  /\ Goto(t, "return")
  /\ UNCHANGED <<ring, op, box, timed, live>>

(* Seeded fault: rt_send frees its box as well. *)
Bug_DoubleFree(t) ==
  /\ pc[t] = "return"
  /\ live' = live \ {box[t]}
  /\ box' = [box EXCEPT ![t] = NoBox]
  /\ timed' = [timed EXCEPT ![t] = FALSE]
  /\ Goto(t, "idle")
  /\ UNCHANGED <<mu, ring, op>>

(* Seeded fault: rt_recv does not free. *)
Bug_NeverFree(t) ==
  /\ pc[t] = "return"
  /\ box' = [box EXCEPT ![t] = NoBox]
  /\ timed' = [timed EXCEPT ![t] = FALSE]
  /\ Goto(t, "idle")
  /\ UNCHANGED <<mu, ring, op, live>>

(* rt_recv frees the box it was given; rt_send never touches its box again *)
Return(t) ==
  /\ pc[t] = "return"
  /\ live' = IF op[t] = "recv" THEN live \ {box[t]} ELSE live
  /\ box' = [box EXCEPT ![t] = NoBox]
  /\ timed' = [timed EXCEPT ![t] = FALSE]
  /\ Goto(t, "idle")
  /\ UNCHANGED <<mu, ring, op>>

Step(t) == \/ Lock(t) \/ Wait(t) \/ Enqueue(t) \/ Dequeue(t) \/ Signal(t)
           \/ GiveUp(t) \/ Unlock(t) \/ Return(t)

Next == \E t \in Thread : \/ CallSend(t) \/ CallRecv(t) \/ Step(t)
                          \/ SpuriousWake(t) \/ TimeOut(t)

Spec == Init /\ [][Next]_vars

(* A thread that can run is eventually scheduled.  Nothing is assumed about*)
(* who gets a contended mutex, about calls, spurious wake-ups or time-outs.*)
FairSpec == Spec /\ \A t \in Thread : WF_vars(Step(t))
-------------------------------------------------------------------------------
TypeOK == /\ mu \in Thread \cup {NoThread}
          /\ buf \in [0 .. Cap - 1 -> Box \cup {NoBox}]
          /\ head \in 0 .. Cap - 1
          /\ tail \in 0 .. Cap - 1
          /\ count \in 0 .. Cap
          /\ pc \in [Thread -> PC]
          /\ op \in [Thread -> {"send", "recv"}]
          /\ box \in [Thread -> Box \cup {NoBox}]
          /\ timed \in [Thread -> BOOLEAN]
          /\ live \in SUBSET Box

(* The mutex protects the ring: whoever is between pthread_mutex_lock and  *)
(* pthread_mutex_unlock, also after a wait, is its holder.                 *)
MutualExclusion == \A t \in Thread : pc[t] \in Critical <=> mu = t

(* The four fields that send and recv update separately agree: tail is     *)
(* always count slots after head.                                          *)
RingConsistent == tail = (head + count) % Cap

(* What the calls of a role wait for: messages, or free slots; and who is  *)
(* about to use one up: a call of that role that is awake and will look at *)
(* the count, or a call of the other role that still owes its signal.      *)
Available(o) == IF o = "recv" THEN count ELSE Cap - count
Helpers(o) ==
  {t \in Thread : \/ pc[t] \in {"lock", "test"} /\ op[t] = o
                  \/ pc[t] = "signal" /\ op[t] = Other(o)}

(* Signalling one sleeper, not all, loses no wake-up: while receivers      *)
(* sleep, every message in the ring has an awake receiver or a signal on   *)
(* its way to it, and while senders sleep so does every free slot.         *)
NoLostWakeup == \A o \in {"send", "recv"} :
  Sleepers(o) # {} => Available(o) <= Cardinality(Helpers(o))

(* Senders and receivers never sleep on each other: when both condition    *)
(* variables have sleepers, somebody is on the way to move a message.      *)
NoStandoff ==
  Sleepers("send") # {} /\ Sleepers("recv") # {} =>
     \E t \in Thread : pc[t] \in {"lock", "test", "signal"}

(* The messages in the ring, oldest first. *)
Slot(i) == (head + i) % Cap
Contents == [i \in 1 .. count |-> buf[Slot(i - 1)]]

(* Who holds a box: a sender before it is stored, a slot of the ring, or   *)
(* the receiver that took it out.                                          *)
Holds(t) == IF op[t] = "send" THEN pc[t] \in {"lock", "test", "wait", "giveup"}
                              ELSE box[t] # NoBox

(* No box is freed twice or used after its free: a box that somebody holds *)
(* is allocated and has no other holder.                                   *)
OneOwner ==
  /\ \A i \in 1 .. count : Contents[i] \in live
  /\ \A t \in Thread : Holds(t) => box[t] \in live
  /\ \A i, j \in 1 .. count : Contents[i] = Contents[j] => i = j
  /\ \A t, u \in Thread : Holds(t) /\ Holds(u) /\ box[t] = box[u] => t = u
  /\ \A t \in Thread, i \in 1 .. count : Holds(t) => box[t] # Contents[i]

(* No box leaks as long as calls block (runtime.c's timeout of -1): every  *)
(* allocated box still has a holder that leads to its free.                *)
NoLeak == \A b \in live : \/ \E i \in 1 .. count : Contents[i] = b
                          \/ \E t \in Thread : Holds(t) /\ box[t] = b
-------------------------------------------------------------------------------
(* The channel implements the bounded queue: each call takes effect when   *)
(* it moves its message in or out of the ring.                             *)
Phase(t) ==
  IF pc[t] = "idle" THEN "idle"
  ELSE IF pc[t] \in {"signal", "unlock", "return"} THEN "done"
  ELSE IF op[t] = "send" THEN "sending" ELSE "receiving"

BQ == INSTANCE BoundedQueue
        WITH Msg <- Box, None <- NoBox, queue <- Contents,
             phase <- [t \in Thread |-> Phase(t)], item <- box,
             impatient <- timed

ImplementsBoundedQueue == BQ!Spec
-------------------------------------------------------------------------------
Receiving(t) == op[t] = "recv" /\ pc[t] \in {"lock", "test", "wait"}
Sending(t) == op[t] = "send" /\ pc[t] \in {"lock", "test", "wait"}

(* Blocking calls make progress: if from some time on the ring is never    *)
(* empty and a receiver is always there, messages keep being taken, and    *)
(* likewise for senders and free slots, unless spurious wake-ups go on     *)
(* for ever.  (Which of the receivers gets them is not promised.)          *)
ReceiversServed ==
  <>[](count > 0 /\ \E t \in Thread : Receiving(t))
    => []<><<\E t \in Thread : Dequeue(t) \/ SpuriousWake(t)>>_vars

SendersServed ==
  <>[](count < Cap /\ \E t \in Thread : Sending(t))
    => []<><<\E t \in Thread : Enqueue(t) \/ SpuriousWake(t)>>_vars
===============================================================================
